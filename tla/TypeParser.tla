----------------------------- MODULE TypeParser -----------------------------
(***************************************************************************)
(* The reader of mangled types (clang_db/parsing.py): Tokenizer splits a   *)
(* text, TypeParser, parse_template and parse_function_parameters turn the *)
(* tokens into objects of cctype.py, for one column of a declaration as    *)
(* yield_decl reads it.                                                    *)
(*                                                                         *)
(* Types are objects: a qualifier is set on an object that exists, and the *)
(* builtin types are shared through _builtin_type_cache.  heap holds the   *)
(* objects in the order they were made, a reference is a position in it.   *)
(* A recursive call of TypeParser is an element of calls, with what it has *)
(* got so far.  Any Python exception ends in the phase "raised".           *)
(***************************************************************************)
EXTENDS Texts, FiniteSets

CONSTANTS
  Columns,  \* the texts that may be read, each with the way it is read
  Cached    \* what _builtin_type_cache may hold from earlier columns

(* "type": a type. "nested": words, the last of which is a type.           *)
(* "member": the name of a function or field, arguments, parameters.       *)
Column == [way: {"type", "nested", "member"}, text: Text]

ASSUME ColumnAssumption == Columns \subseteq Column

CacheKey == Text \X BOOLEAN \X BOOLEAN   \* the name, const and volatile

ASSUME CachedAssumption ==
  \A known \in Cached : known \in Seq(CacheKey) /\ IsInjective(known)

Opening  == {"N", "I", "F", "L"}
Modifier == {"P", "R", "O", "K", "V"}
Builtin  == {"a", "b", "c", "d", "e", "f", "g", "h", "i", "j", "l", "m", "n",
             "o", "s", "t", "v", "w", "x", "y", "z"}

(* DEMANGLE_OPERATOR.                                                      *)
Operator ==
  {<< "a", "N" >>, << "a", "S" >>, << "d", "V" >>, << "e", "O" >>, << "l", "S" >>,
   << "m", "I" >>, << "m", "L" >>, << "o", "R" >>, << "p", "L" >>, << "r", "M" >>,
   << "r", "S" >>, << "a", "n" >>, << "c", "o" >>, << "d", "v" >>, << "e", "o" >>,
   << "e", "q" >>, << "g", "e" >>, << "g", "t" >>, << "l", "e" >>, << "l", "s" >>,
   << "m", "i" >>, << "m", "l" >>, << "m", "m" >>, << "n", "e" >>, << "n", "g" >>,
   << "o", "r" >>, << "p", "l" >>, << "p", "p" >>, << "p", "s" >>, << "c", "l" >>,
   << "i", "x" >>, << "n", "w" >>, << "d", "l" >>, << "n", "a" >>, << "d", "a" >>,
   << "p", "t" >>, << "a", "a" >>, << "o", "o" >>, << "r", "s" >>, << "c", "v" >>}
NullPtr == << "D", "n" >>

(* The subclasses of TypeBase, by the letter that leads to them, and the   *)
(* non-type template argument, L.                                          *)
NodeKind == {"builtin", "P", "R", "O", "A", "F", "N", "L"}
Unary    == Modifier \cup {"A", "L"}
Goal     == {"type", "conversion", "arguments", "parameters"}

Node  == [kind: NodeKind, text: Seq(Text), const: BOOLEAN, volatile: BOOLEAN,
          parts: Seq(Nat)]
Frame == [kind: Unary \cup {"F"} \cup Goal, size: Seq(Text), got: Seq(Nat)]

VARIABLES
  way, source,    \* the column
  pos, stk, tokens,   \* the Tokenizer
  phase,
  at,             \* the position among the tokens
  calls,          \* activations, the outermost first
  heap, cache,    \* objects, and the references kept in _builtin_type_cache
  types, args     \* what the column says: its types and template arguments

splitting == << way, source, pos, stk, tokens >>
parsing   == << at, calls, heap, cache, types, args >>
vars      == << splitting, phase, parsing >>

TypeOK ==
  /\ way \in {"type", "nested", "member"} /\ source \in Text
  /\ pos \in Nat \ {0} /\ stk \in Seq(Opening) /\ tokens \in Seq(Text)
  /\ phase \in {"split", "parse", "done", "raised"}
  /\ at \in Nat \ {0} /\ calls \in Seq(Frame)
  /\ heap \in Seq(Node)
  /\ DOMAIN cache \subseteq CacheKey
  /\ \A k \in DOMAIN cache : cache[k] \in Nat
  /\ types \in Seq(Nat) /\ args \in Seq(Nat)

BuiltinType(key) ==
  [kind |-> "builtin", text |-> << key[1] >>, const |-> key[2], volatile |-> key[3],
   parts |-> << >>]

Start(c, known) ==
  /\ way = c.way /\ source = c.text
  /\ pos = 1 /\ stk = << >> /\ tokens = << >>
  /\ phase = "split"
  /\ at = 1 /\ calls = << >>
  /\ heap = [i \in DOMAIN known |-> BuiltinType(known[i])]
  /\ cache = [k \in {known[i] : i \in DOMAIN known} |-> CHOOSE i \in DOMAIN known : known[i] = k]
  /\ types = << >> /\ args = << >>

Init == \E c \in Columns, known \in Cached : Start(c, known)

Raise == phase' = "raised" /\ UNCHANGED << splitting, parsing >>

-----------------------------------------------------------------------------
(* Tokenizer._step.                                                        *)

(* The end of the digits of s from p on, as a set of one.                  *)
DigitsEnd(s, p) ==
  {j \in p..(Len(s) + 1) :
     /\ \A i \in p..(j - 1) : s[i] \in Digit
     /\ j <= Len(s) => s[j] \notin Digit}

(* str(length): without leading zeros.                                     *)
Decimal(digits) ==
  {SubSeq(digits, i, Len(digits)) : i \in
     {i \in 1..Len(digits) : /\ \A j \in 1..(i - 1) : digits[j] = "0"
                             /\ digits[i] # "0" \/ i = Len(digits)}}

Ch       == source[pos]
Ch2      == IF pos < Len(source) THEN SubSeq(source, pos, pos + 1) ELSE << Ch >>
First    == tokens = << >>
InValue  == stk # << >> /\ stk[Len(stk)] = "L"

Take(token, next) ==
  /\ tokens' = Append(tokens, token)
  /\ pos' = next
  /\ UNCHANGED << way, source, phase, parsing >>

(* The digits of a non-type template argument, when they do not end the    *)
(* text.                                                                   *)
TakeValue ==
  /\ InValue /\ Ch \in Digit
  /\ \E j \in DigitsEnd(source, pos) :
       IF j > Len(source) THEN Raise
       ELSE Take(SubSeq(source, pos, j - 1), j) /\ UNCHANGED stk

(* Variant: the length is of one digit.                                    *)
TakeNameOfDigit ==
  /\ ~InValue /\ Ch \in Digit
  /\ \E n \in 0..(Len(source) - pos) :
       /\ n = Number(<< Ch >>)
       /\ Take(SubSeq(source, pos, pos + n), pos + 1 + n)
       /\ UNCHANGED stk

TakeName ==
  /\ ~InValue /\ Ch \in Digit
  /\ \E j \in DigitsEnd(source, pos) : 
       LET digits == SubSeq(source, pos, j - 1)
       IN  \/ /\ Number(digits) \notin 0..(Len(source) - j + 1)
              /\ Raise
           \/ \E n \in 0..(Len(source) - j + 1), length \in Decimal(digits) :
                /\ n = Number(digits)
                /\ Take(length \o SubSeq(source, j, j + n - 1), j + n)
                /\ UNCHANGED stk

TakeOpening ==
  /\ Ch \in Opening
  /\ stk' = Append(stk, Ch)
  /\ Take(<< Ch >>, pos + 1)

TakeClosing ==
  /\ Ch = "E"
  /\ IF stk = << >> THEN Raise
     ELSE stk' = SubSeq(stk, 1, Len(stk) - 1) /\ Take(<< Ch >>, pos + 1)

TakeConstructor == Ch = "C" /\ Take(<< Ch >>, pos + 1) /\ UNCHANGED stk
TakeDestructor  == Ch = "D" /\ First /\ Take(<< Ch >>, pos + 1) /\ UNCHANGED stk
TakeOperator    == Ch2 \in Operator /\ First /\ Take(Ch2, pos + 2) /\ UNCHANGED stk
TakeNullPtr     == Ch2 = NullPtr /\ ~First /\ Take(Ch2, pos + 2) /\ UNCHANGED stk

TakeLetter ==
  /\ Ch \in Builtin \cup Modifier
  /\ ~(Ch2 \in Operator /\ First)
  /\ Take(<< Ch >>, pos + 1)
  /\ UNCHANGED stk

(* A length of 0 is no token, and neither is the underscore.               *)
TakeArray ==
  /\ Ch = "A"
  /\ \E j \in DigitsEnd(source, pos + 1) :
       LET digits == SubSeq(source, pos + 1, j - 1)
       IN  /\ IF \A i \in DOMAIN digits : digits[i] = "0"
              THEN tokens' = Append(tokens, << Ch >>)
              ELSE \E length \in Decimal(digits) :
                     tokens' = Append(Append(tokens, << Ch >>), length)
           /\ pos' = IF j <= Len(source) /\ source[j] = Underscore THEN j + 1 ELSE j
  /\ UNCHANGED << way, source, stk, phase, parsing >>

(* Variant: the letter is reported, and read again.                        *)
WarnOfNothing ==
  /\ Ch \notin Digit \cup Opening \cup Builtin \cup Modifier \cup {"E", "C", "A"}
  /\ ~(Ch = "D" /\ First) /\ ~(Ch2 \in Operator /\ First) /\ Ch2 # NullPtr
  /\ UNCHANGED vars

TakeNothing ==
  /\ Ch \notin Digit \cup Opening \cup Builtin \cup Modifier \cup {"E", "C", "A"}
  /\ ~(Ch = "D" /\ First) /\ ~(Ch2 \in Operator /\ First) /\ Ch2 # NullPtr
  /\ Raise

Split ==
  /\ phase = "split"
  /\ pos <= Len(source)
  /\ \/ TakeValue \/ TakeName \/ TakeOpening \/ TakeClosing \/ TakeConstructor
     \/ TakeDestructor \/ TakeOperator \/ TakeNullPtr \/ TakeLetter \/ TakeArray
     \/ TakeNothing

-----------------------------------------------------------------------------
(* What yield_decl does with the tokens.                                   *)
Call(kind)   == [kind |-> kind, size |-> << >>, got |-> << >>]
Token        == tokens[at]
Is(letter)   == at <= Len(tokens) /\ Token = << letter >>
IsDigits(t)  == t # << >> /\ \A i \in DOMAIN t : t[i] \in Digit
Done         == phase' = "done" /\ calls' = << >>
Outer        == SubSeq(calls, 1, Len(calls) - 1)
Top          == calls[Len(calls)]

(* Parameters from position i on or, of a field or a record, nothing.      *)
ReadParameters(i) ==
  IF i > Len(tokens) THEN Done /\ at' = i
  ELSE calls' = << Call("parameters") >> /\ at' = i /\ phase' = "parse"

(* Behind the name, which ends before i, there may be template arguments.  *)
ReadArguments(i) ==
  IF i <= Len(tokens) /\ tokens[i] = << "I" >>
  THEN calls' = << Call("arguments") >> /\ at' = i + 1 /\ phase' = "parse"
  ELSE ReadParameters(i)

(* The last word is split in its turn, without its length.                 *)
Unwrap ==
  /\ way = "nested"
  /\ \E j \in DigitsEnd(tokens[Len(tokens)], 1) :
       source' = SubSeq(tokens[Len(tokens)], j, Len(tokens[Len(tokens)]))
  /\ way' = "type"
  /\ pos' = 1 /\ tokens' = << >>
  /\ UNCHANGED << stk, phase, parsing >>

ReadType ==
  /\ way = "type"
  /\ calls' = << Call("type") >>
  /\ phase' = "parse"
  /\ UNCHANGED << splitting, at, heap, cache, types, args >>

ReadMember ==
  /\ way = "member"
  /\ IF tokens[1] = << "c", "v" >>
     THEN calls' = << Call("conversion") >> /\ at' = 2 /\ phase' = "parse"
     ELSE ReadArguments(2)
  /\ UNCHANGED << splitting, heap, cache, types, args >>

SplitEnds ==
  /\ phase = "split"
  /\ pos > Len(source)
  /\ IF stk # << >> \/ tokens = << >> THEN Raise
     ELSE Unwrap \/ ReadType \/ ReadMember

-----------------------------------------------------------------------------
(* Objects.  An operator that makes or changes one says what heap and      *)
(* cache become, and which reference it returns.                           *)
Object(kind, text, parts) ==
  [kind |-> kind, text |-> text, const |-> FALSE, volatile |-> FALSE, parts |-> parts]

New(node) == [heap |-> Append(heap, node), cache |-> cache, ref |-> Len(heap) + 1]
Keep(r)   == [heap |-> heap, cache |-> cache, ref |-> r]

get_builtin_type(token, const, volatile) ==
  LET key == << token, const, volatile >>
  IN  IF key \in DOMAIN cache THEN Keep(cache[key])
      ELSE [New(BuiltinType(key)) EXCEPT !.cache =
              [k \in DOMAIN cache \cup {key} |->
                 IF k = key THEN Len(heap) + 1 ELSE cache[k]]]

(* Variant: the qualifier is set on the object, whatever it is.            *)
SetInPlace(letter, r) ==
  [Keep(r) EXCEPT !.heap = IF letter = "K" THEN [heap EXCEPT ![r].const = TRUE]
                           ELSE [heap EXCEPT ![r].volatile = TRUE]]

(* K and V: a builtin type is exchanged for the one with the qualifier,    *)
(* any other type is changed.                                              *)
SetQualifier(letter, r) ==
  LET o == heap[r]
  IN  IF o.kind = "builtin"
      THEN IF letter = "K"
           THEN IF o.const THEN Keep(r) ELSE get_builtin_type(o.text[1], TRUE, o.volatile)
           ELSE IF o.volatile THEN Keep(r) ELSE get_builtin_type(o.text[1], o.const, TRUE)
      ELSE [Keep(r) EXCEPT !.heap =
              IF letter = "K" THEN [heap EXCEPT ![r].const = TRUE]
              ELSE [heap EXCEPT ![r].volatile = TRUE]]

(* The object goes to the innermost of the calls in rest.                  *)
Yield(o, rest) ==
  /\ heap' = o.heap /\ cache' = o.cache
  /\ calls' = [rest EXCEPT ![Len(rest)].got = Append(@, o.ref)]
  /\ UNCHANGED << splitting, phase, types, args >>

-----------------------------------------------------------------------------
(* TypeParser.__init__, at a position where a type is wanted.              *)
Wanted ==
  CASE Top.kind \in Unary \cup {"type", "conversion"} -> Top.got = << >>
    [] Top.kind = "F"          -> ~Is("E")
    [] Top.kind = "arguments"  -> ~Is("E") /\ ~Is("L")
    [] Top.kind = "parameters" -> at <= Len(tokens)

ParseBuiltin ==
  /\ Token \in {<< b >> : b \in Builtin} \cup {NullPtr}
  /\ Yield(get_builtin_type(Token, FALSE, FALSE), calls)
  /\ at' = at + 1

Enter(frame, next) ==
  /\ calls' = Append(calls, frame)
  /\ at' = next
  /\ UNCHANGED << splitting, phase, heap, cache, types, args >>

ParseModifier ==
  \E m \in Modifier \cup {"F"} : Token = << m >> /\ Enter(Call(m), at + 1)

ParseArray ==
  /\ Is("A")
  /\ IF at = Len(tokens) THEN Raise
     ELSE IF IsDigits(tokens[at + 1])
          THEN Enter([Call("A") EXCEPT !.size = << tokens[at + 1] >>], at + 2)
          ELSE Enter(Call("A"), at + 1)

(* Variant: a record ends at the next E.                                   *)
RecordToNextE(i) ==
  {j \in (i + 1)..Len(tokens) : tokens[j] = << "E" >>
     /\ \A k \in (i + 1)..(j - 1) : tokens[k] # << "E" >>}

(* The end of the record that begins at i, as a set of one at most.        *)
RecordEnd(i) ==
  LET Count(S, j) == Cardinality({k \in i..j : tokens[k] \in {<< c >> : c \in S}})
      Closed(j)   == Count(Opening, j) <= Count({"E"}, j)
  IN  {j \in (i + 1)..Len(tokens) : Closed(j) /\ \A k \in (i + 1)..(j - 1) : ~Closed(k)}

(* Variant: the objects of records are shared, too.                        *)
ParseRecordOnce ==
  /\ Is("N")
  /\ \E j \in RecordEnd(at) :
       LET node == Object("N", SubSeq(tokens, at, j), << >>)
           same == {r \in DOMAIN heap : heap[r] = node}
       IN  /\ IF same = {} THEN Yield(New(node), calls)
              ELSE \E r \in same : Yield(Keep(r), calls)
           /\ at' = j + 1

ParseRecord ==
  /\ Is("N")
  /\ IF RecordEnd(at) = {} THEN Raise
     ELSE \E j \in RecordEnd(at) :
            /\ Yield(New(Object("N", SubSeq(tokens, at, j), << >>)), calls)
            /\ at' = j + 1

ParseNothing ==
  /\ at <= Len(tokens) =>
       Token \notin {<< c >> : c \in Builtin \cup Modifier \cup {"A", "F", "N"}} \cup {NullPtr}
  /\ Raise

ParseType ==
  /\ Wanted
  /\ \/ at <= Len(tokens) /\
          (ParseBuiltin \/ ParseModifier \/ ParseArray \/ ParseRecord)
     \/ ParseNothing

(* Variant: every modifier changes the object, as K and V do.              *)
ReturnInPlace ==
  /\ Top.kind \in Unary \ {"L"} /\ Top.got # << >>
  /\ LET r == Top.got[1]
     IN  Yield(IF Top.kind \in {"K", "V"} THEN SetQualifier(Top.kind, r)
               ELSE [Keep(r) EXCEPT !.heap =
                       [heap EXCEPT ![r] = Object(Top.kind, Top.size, Top.got)]], Outer)
  /\ UNCHANGED at

(* A call that has got the type it was for.                                *)
Return ==
  /\ Top.kind \in Unary \ {"L"} /\ Top.got # << >>
  /\ Yield(IF Top.kind \in {"K", "V"} THEN SetQualifier(Top.kind, Top.got[1])
           ELSE New(Object(Top.kind, Top.size, Top.got)), Outer)
  /\ UNCHANGED at

(* The type of a function, the return type first.                          *)
ReturnFunction ==
  /\ Top.kind = "F" /\ Is("E")
  /\ IF Top.got = << >> THEN Raise
     ELSE Yield(New(Object("F", << >>, Top.got)), Outer) /\ at' = at + 1

(* parse_template: an argument that is a value, and the end of the list.   *)
EnterValue == Top.kind = "arguments" /\ Is("L") /\ Enter(Call("L"), at + 1)

ReturnValue ==
  /\ Top.kind = "L" /\ Top.got # << >>
  /\ IF at > Len(tokens) THEN Raise
     ELSE LET value == IF IsDigits(Token) THEN << Token >> ELSE << >>
          IN  /\ Yield(New(Object("L", value, << >>)), Outer)
              /\ at' = at + Len(value) + 1

EndArguments ==
  /\ Top.kind = "arguments" /\ Is("E")
  /\ args' = Top.got
  /\ ReadParameters(at + 1)
  /\ UNCHANGED << splitting, heap, cache, types >>

(* The type of the conversion is dropped: the type column has it.          *)
EndConversion ==
  /\ Top.kind = "conversion" /\ Top.got # << >>
  /\ ReadArguments(at)
  /\ UNCHANGED << splitting, heap, cache, types, args >>

EndColumn ==
  /\ \/ Top.kind = "type" /\ Top.got # << >>
     \/ Top.kind = "parameters" /\ at > Len(tokens)
  /\ types' = Top.got
  /\ Done
  /\ UNCHANGED << splitting, at, heap, cache, args >>

Parse ==
  /\ phase = "parse"
  /\ \/ ParseType \/ Return \/ ReturnFunction \/ EnterValue \/ ReturnValue
     \/ EndArguments \/ EndConversion \/ EndColumn

Next == Split \/ SplitEnds \/ Parse

Spec == Init /\ [][Next]_vars /\ WF_vars(Next)

-----------------------------------------------------------------------------
(* The object kept for a builtin type and qualifiers is that type with     *)
(* these qualifiers: nobody who was given it has changed it.               *)
CacheHonest ==
  \A k \in DOMAIN cache : cache[k] \in DOMAIN heap /\ heap[cache[k]] = BuiltinType(k)

(* An object is made after its parts: there is no type inside itself, and  *)
(* format and fix_unresolved, which recurse over the parts, come to an end.*)
PartsAreOlder ==
  \A r \in DOMAIN heap : \A i \in DOMAIN heap[r].parts : heap[r].parts[i] \in 1..(r - 1)

(* Only builtin types are shared: setting a qualifier on another object    *)
(* reaches the one place that has it, be it an object, a call or the       *)
(* result.                                                                 *)
Holders(r) ==
  LET In(where, n, refs) == {<< where, n, i >> : i \in {i \in DOMAIN refs : refs[i] = r}}
  IN  (UNION {In("object", o, heap[o].parts) : o \in DOMAIN heap})
      \cup (UNION {In("call", c, calls[c].got) : c \in DOMAIN calls})
      \cup In("types", 0, types) \cup In("arguments", 0, args)

OnlyBuiltinShared ==
  \A r \in DOMAIN heap : heap[r].kind # "builtin" => Cardinality(Holders(r)) <= 1

(* Every text that was read is read to its end.                            *)
ReadingEnds == <>(phase \in {"done", "raised"})
=============================================================================
