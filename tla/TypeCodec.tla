----------------------------- MODULE TypeCodec -----------------------------
(***************************************************************************)
(* What the plugin writes of a type (Mangling), read by the Python package *)
(* (TypeParser): the type that comes back is the type that was written.    *)
(* Of a value argument that is so unless it is negative.                   *)
(***************************************************************************)
EXTENDS Mangling, TypeParser

CONSTANTS
  Declarations,   \* with a type, a function or a level of a name
  Strays          \* columns that this plugin has not written

VARIABLE decl

FunctionName ==
  [kind: {"identifier"}, text: Name] \cup [kind: {"constructor", "destructor"}]
  \cup [kind: {"operator"}, text: Operator \ {<< "c", "v" >>}]
  \cup [kind: {"conversion"}, to: QualType]
FunctionDecl ==
  [name: FunctionName, template: Seq(TypeParm \cup ValueParm), result: QualType,
   params: Seq(QualType), variadic: BOOLEAN]

(* A name that is empty and its length, 0, are read as they were written   *)
(* only if no digit follows.                                               *)
NamesApart(path) ==
  \A i \in DOMAIN path : path[i].name = << >> => path[i].special \/ i = Len(path)
ParmApart(p) == p.kind = "parameter" /\ p.name = << >> => p.canonical \/ ~p.pack

ASSUME DeclarationAssumption ==
  /\ Declarations \subseteq
       [way: {"type", "nested"}, type: QualType]
       \cup [way: {"member"}, of: {"function"}, function: FunctionDecl]
       \cup [way: {"member"}, of: {"record"}, level: Level]
  /\ \A q \in QualType :
       /\ q.type.kind = "record" => NamesApart(q.type.path)
       /\ q.type.kind = "parameter" => ParmApart(q.type)
       /\ q.type.kind = "template" => \A i \in DOMAIN q.type.list : ParmApart(q.type.list[i])
  /\ \A d \in Declarations :
       d.way = "member" /\ d.of = "function" =>
         \A i \in DOMAIN d.function.template : ParmApart(d.function.template[i])

Pieces(d) ==
  CASE d.way = "type" -> MangleType[d.type]
    [] d.way = "nested" ->
         EncodeNs(<< "p", "u", "b", "l", "i", "c" >>) \o EncodeNs(Concat(MangleType[d.type]))
    [] d.way = "member" /\ d.of = "function" -> FunctionMember(d.function)
    [] d.way = "member" /\ d.of = "record"   -> EncodeRecordDecl(MangleType, d.level)

ColumnOf(d) == [way |-> d.way, text |-> Concat(Pieces(d))]

ASSUME ColumnsAreWritten == Columns = {ColumnOf(d) : d \in Declarations} \cup Strays

CodecInit ==
  \E known \in Cached :
    \/ \E d \in Declarations : decl = d /\ Start(ColumnOf(d), known)
    \/ \E c \in Strays : decl = [way |-> "stray"] /\ Start(c, known)
CodecNext == Next /\ UNCHANGED decl
CodecSpec == CodecInit /\ [][CodecNext]_<< vars, decl >> /\ WF_<< vars, decl >>(CodecNext)

-----------------------------------------------------------------------------
(* The objects that stand for a type, as a tree: what cctype.py documents, *)
(* with no text in between.                                                *)
Tree(kind, text, parts) == Object(kind, text, parts)

(* The pieces that are tokens: all but the end of an array's length.       *)
Kept(pieces) ==
  Concat([i \in DOMAIN pieces |-> IF pieces[i] = << Underscore >> THEN << >> ELSE << pieces[i] >>])

PointerKind(kind) ==
  CASE kind \in {"pointer", "member pointer"} -> "P"
    [] kind = "reference" -> "R"
    [] kind = "rvalue"    -> "O"

(* M gives the meaning of the parts.                                       *)
ParamMeanings(M, f) ==
  [i \in DOMAIN f.params |-> M[f.params[i]]]
    \o (IF f.variadic THEN << Tree("builtin", << << "z" >> >>, << >>) >>
        ELSE IF f.params = << >> THEN << Tree("builtin", << << "v" >> >>, << >>) >> ELSE << >>)

(* A type without the qualifiers of its own; an array has those of its     *)
(* elements.                                                               *)
TypeMeaning(M, t) ==
  CASE t.kind = "builtin" -> Tree("builtin", << t.letter >>, << >>)
    [] t.kind = "sugar"   -> M[t.of]
    [] t.kind \in {"pointer", "member pointer", "reference", "rvalue"} ->
         Tree(PointerKind(t.kind), << >>, << M[t.of] >>)
    [] t.kind = "array"   ->
         [Tree("A", t.size, << M[t.of] >>)
            EXCEPT !.const = M[t.of].const, !.volatile = M[t.of].volatile]
    [] t.kind = "function" -> Tree("F", << >>, << M[t.result] >> \o ParamMeanings(M, t))
    [] t.kind \in {"record", "template", "parameter", "unknown"} ->
         Tree("N", Kept(MangleTypePtr(MangleType, t)), << >>)

Meaning[q \in QualType] ==
  [TypeMeaning(Meaning, q.type) EXCEPT !.const = @ \/ q.const, !.volatile = @ \/ q.volatile]

(* A value as it was declared.                                             *)
ValueText(n) == IF n < 0 THEN << "-" >> \o Decimal10[-n] ELSE Decimal10[n]

(* The arguments that an argument stands for.                              *)
Meanings[a \in Argument] ==
  CASE a.kind = "null"    -> << Tree("N", << << "N" >>, << "E" >> >>, << >>) >>
    [] a.kind = "type"    -> << Meaning[a.of] >>
    [] a.kind = "nullptr" -> << Tree("builtin", << NullPtr >>, << >>) >>
    [] a.kind = "value"   -> << Tree("L", << ValueText(a.value) >>, << >>) >>
    [] a.kind = "pack"    -> Concat([j \in DOMAIN a.args |-> Meanings[a.args[j]]])

Arguments(list) == Concat([i \in DOMAIN list |-> Meanings[list[i]]])

(* The types of a declaration; a function template's column has its return *)
(* type between the template parameters and the parameters.                *)
ReturnIn(d) ==
  IF d.way = "member" /\ d.of = "function" /\ d.function.template # << >>
  THEN << Meaning[d.function.result] >> ELSE << >>

Parameters(d) ==
  CASE d.way # "member" -> << Meaning[d.type] >>
    [] d.way = "member" /\ d.of = "record"   -> << >>
    [] d.way = "member" /\ d.of = "function" -> ParamMeanings(Meaning, d.function)

Unfold[r \in DOMAIN heap] ==
  [heap[r] EXCEPT !.parts = [i \in DOMAIN heap[r].parts |-> Unfold[heap[r].parts[i]]]]

UnfoldAll(refs) == [i \in DOMAIN refs |-> Unfold[refs[i]]]

-----------------------------------------------------------------------------
(* A type column that begins with decltype(nullptr): the tokenizer takes   *)
(* the D for a destructor.                                                 *)
LikeDestructor(d) == d.way # "member" /\ Head(MangleType[d.type]) = NullPtr
Written           == decl.way # "stray"

(* The text is split where it was put together: between a letter and a     *)
(* name, a length and what it counts, a number and the next length.        *)
SplitIsPieces ==
  Written /\ phase \in {"parse", "done"} /\ ~LikeDestructor(decl) =>
    tokens = Kept(IF decl.way = "nested" THEN MangleType[decl.type] ELSE Pieces(decl))

(* No value among the arguments is negative.                               *)
Signless[a \in Argument] ==
  CASE a.kind = "value" -> a.value >= 0
    [] a.kind = "pack"  -> \A j \in DOMAIN a.args : Signless[a.args[j]]
    [] OTHER -> TRUE

(* When a column has been read, the types found in it are, in order, those *)
(* of the declaration: for a function template the return type, which the  *)
(* column has before the parameters (ReadMe.md:186-192, typing.h:78-83),   *)
(* then the parameters.  (That builder.py:113 takes all of them for        *)
(* parameters is against ReadMe.md:186-192 and typeop_test.cc:197-202.)    *)
(* And a record has the template arguments it was declared with, if no     *)
(* value among them is negative: those lose their sign, S<-1> is written   *)
(* as S<4294967295> (typing.cc:250-255).  The type of a value is not kept. *)
RoundTrip ==
  Written /\ phase = "done" =>
    /\ UnfoldAll(types) = ReturnIn(decl) \o Parameters(decl)
    /\ decl.way = "member" /\ decl.of = "record" =>
         IF ~decl.level.special THEN args = << >>
         ELSE (\A i \in DOMAIN decl.level.args : Signless[decl.level.args[i]])
                => UnfoldAll(args) = Arguments(decl.level.args)

(* The reader raises no other exception at what the writer wrote: one      *)
(* loses the declarations of the whole database.                           *)
NeverRaises == Written /\ phase = "raised" => LikeDestructor(decl)
=============================================================================
