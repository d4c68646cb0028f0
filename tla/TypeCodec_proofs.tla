------------------------- MODULE TypeCodec_proofs -------------------------
(***************************************************************************)
(* Proofs about TypeParser and TypeCodec.                                  *)
(*                                                                         *)
(* First the parser, for every text and every content of the cache that    *)
(* earlier columns may have left: Spec, and no assumption on Declarations, *)
(* QualType or Argument is used.  Then the tokenizer at what the plugin    *)
(* writes, for all types, templates, functions and names: CodecSpec.       *)
(***************************************************************************)
EXTENDS TypeCodec, Induction, SequenceTheorems, FiniteSetTheorems

(* The objects: a part is older than what it is a part of, a builtin type  *)
(* has a name, and the cache is honest.                                    *)
StoreOK(h, c) ==
  /\ h \in Seq(Node)
  /\ \A r \in 1..Len(h) : /\ h[r].kind = "builtin" => Len(h[r].text) = 1
                          /\ \A i \in 1..Len(h[r].parts) : h[r].parts[i] \in 1..(r - 1)
  /\ DOMAIN c \subseteq CacheKey
  /\ \A k \in DOMAIN c : c[k] \in 1..Len(h) /\ h[c[k]] = BuiltinType(k)

(* What calls have got are among the first n objects.                      *)
CallsOK(cs, n) ==
  /\ cs \in Seq(Frame)
  /\ \A c \in 1..Len(cs) : \A i \in 1..Len(cs[c].got) : cs[c].got[i] \in 1..n

(* While there are tokens to parse, the outermost call is one of           *)
(* yield_decl's: no other can return from it.                              *)
Rooted(cs) == Len(cs) > 0 /\ cs[1].kind \in Goal

ReaderOK ==
  /\ way \in {"type", "nested", "member"} /\ source \in Text
  /\ pos \in Nat \ {0} /\ stk \in Seq(Opening) /\ tokens \in Seq(Text)

ParserOK ==
  /\ phase \in {"split", "parse", "done", "raised"}
  /\ at \in Nat \ {0}
  /\ StoreOK(heap, cache)
  /\ CallsOK(calls, Len(heap))
  /\ phase = "parse" => Rooted(calls)
  /\ types \in Seq(Nat) /\ args \in Seq(Nat)

IInv == ReaderOK /\ ParserOK

(* The result of an operator that makes or changes an object.              *)
Result(o) ==
  /\ StoreOK(o.heap, o.cache)
  /\ Len(heap) <= Len(o.heap)
  /\ o.ref \in 1..Len(o.heap)

-----------------------------------------------------------------------------
LEMMA PartOfSeq ==
  ASSUME NEW S, NEW s \in Seq(S), NEW m \in Nat \ {0}, NEW n \in Int, n <= Len(s)
  PROVE  /\ SubSeq(s, m, n) \in Seq(S)
         /\ Len(SubSeq(s, m, n)) = IF m <= n THEN n - m + 1 ELSE 0
         /\ \A i \in 1..(n - m + 1) : SubSeq(s, m, n)[i] = s[m + i - 1]
<1>1. \A i \in m..n : s[i] \in S
  BY ElementOfSeq
<1> QED
  BY <1>1, SubSeqProperties

LEMMA DigitsEndInside ==
  ASSUME NEW s \in Text, NEW p \in Nat \ {0}, NEW j \in DigitsEnd(s, p)
  PROVE  j \in Nat \ {0} /\ p <= j /\ j <= Len(s) + 1
<1>1. Len(s) \in Nat
  BY DEF Text
<1> QED
  BY <1>1 DEF DigitsEnd

LEMMA DecimalIsText ==
  ASSUME NEW s \in Text, NEW d \in Decimal(s)
  PROVE  d \in Text
<1>1. Len(s) \in Nat
  BY DEF Text
<1>2. PICK i \in 1..Len(s) : d = SubSeq(s, i, Len(s))
  BY DEF Decimal
<1> QED
  BY <1>1, <1>2, PartOfSeq DEF Text

LEMMA BuiltinIsNode ==
  ASSUME NEW k \in CacheKey
  PROVE  /\ BuiltinType(k) \in Node
         /\ BuiltinType(k).kind = "builtin" /\ BuiltinType(k).parts = << >>
         /\ Len(BuiltinType(k).text) = 1
<1>1. k[1] \in Text /\ k[2] \in BOOLEAN /\ k[3] \in BOOLEAN
  BY DEF CacheKey
<1>2. << k[1] >> \in Seq(Text) /\ Len(<< k[1] >>) = 1 /\ << >> \in Seq(Nat)
  BY <1>1
<1> QED
  BY <1>1, <1>2 DEF BuiltinType, Node, NodeKind

LEMMA QualifiedIsNode ==
  ASSUME NEW x \in Node
  PROVE  /\ [x EXCEPT !.const = TRUE] \in Node
         /\ [x EXCEPT !.volatile = TRUE] \in Node
         /\ \A y \in {[x EXCEPT !.const = TRUE], [x EXCEPT !.volatile = TRUE]} :
              y.kind = x.kind /\ y.text = x.text /\ y.parts = x.parts
BY DEF Node

-----------------------------------------------------------------------------
(* Objects.                                                                *)
LEMMA NewIsSound ==
  ASSUME ParserOK, NEW node \in Node,
         node.kind = "builtin" => Len(node.text) = 1,
         \A i \in 1..Len(node.parts) : node.parts[i] \in 1..Len(heap)
  PROVE  Result(New(node))
<1> DEFINE h == Append(heap, node)
<1>1. heap \in Seq(Node) /\ Len(heap) \in Nat
  BY DEF ParserOK, StoreOK
<1>2. h \in Seq(Node) /\ Len(h) = Len(heap) + 1 /\ h[Len(heap) + 1] = node
  BY <1>1
<1>3. \A r \in 1..Len(heap) : h[r] = heap[r]
  BY <1>1
<1> HIDE DEF h
<1>4. ASSUME NEW r \in 1..Len(h)
      PROVE  /\ h[r].kind = "builtin" => Len(h[r].text) = 1
             /\ \A i \in 1..Len(h[r].parts) : h[r].parts[i] \in 1..(r - 1)
  <2>1. CASE r = Len(heap) + 1
    BY <1>1, <1>2, <2>1
  <2>2. CASE r \in 1..Len(heap)
    BY <1>3, <2>2 DEF ParserOK, StoreOK
  <2> QED
    BY <1>1, <1>2, <2>1, <2>2
<1>5. \A k \in DOMAIN cache : cache[k] \in 1..Len(h) /\ h[cache[k]] = BuiltinType(k)
  BY <1>1, <1>2, <1>3 DEF ParserOK, StoreOK
<1>6. StoreOK(h, cache)
  BY <1>2, <1>4, <1>5 DEF ParserOK, StoreOK
<1>7. New(node).heap = h /\ New(node).cache = cache /\ New(node).ref = Len(heap) + 1
  BY DEF New, h
<1> QED
  BY <1>1, <1>2, <1>6, <1>7 DEF Result

LEMMA KeepIsSound ==
  ASSUME ParserOK, NEW r \in 1..Len(heap)
  PROVE  Result(Keep(r))
<1>1. Keep(r).heap = heap /\ Keep(r).cache = cache /\ Keep(r).ref = r
  BY DEF Keep
<1>2. Len(heap) \in Nat
  BY DEF ParserOK, StoreOK
<1> QED
  BY <1>1, <1>2 DEF Result, ParserOK

LEMMA BuiltinIsSound ==
  ASSUME ParserOK, NEW t \in Text, NEW c \in BOOLEAN, NEW v \in BOOLEAN
  PROVE  Result(get_builtin_type(t, c, v))
<1> DEFINE key == << t, c, v >>
           o   == New(BuiltinType(key))
           new == [k \in DOMAIN cache \cup {key} |-> IF k = key THEN Len(heap) + 1 ELSE cache[k]]
<1>1. key \in CacheKey
  BY DEF CacheKey
<1>2. CASE key \in DOMAIN cache
  <2>1. cache[key] \in 1..Len(heap)
    BY <1>2 DEF ParserOK, StoreOK
  <2>2. get_builtin_type(t, c, v) = Keep(cache[key])
    BY <1>2 DEF get_builtin_type
  <2> QED
    BY <2>1, <2>2, KeepIsSound
<1>3. CASE key \notin DOMAIN cache
  <2>1. BuiltinType(key) \in Node /\ BuiltinType(key).parts = << >>
        /\ Len(BuiltinType(key).text) = 1
    BY <1>1, BuiltinIsNode
  <2>2. \A i \in 1..Len(BuiltinType(key).parts) : BuiltinType(key).parts[i] \in 1..Len(heap)
    BY <2>1
  <2>3. Result(o)
    BY <2>1, <2>2, NewIsSound
  <2>4. o.heap = Append(heap, BuiltinType(key)) /\ o.cache = cache /\ o.ref = Len(heap) + 1
    BY DEF New
  <2>5. heap \in Seq(Node) /\ Len(heap) \in Nat
    BY DEF ParserOK, StoreOK
  <2>6. o.heap[Len(heap) + 1] = BuiltinType(key) /\ Len(o.heap) = Len(heap) + 1
    BY <2>1, <2>4, <2>5
  <2>7. \A k \in DOMAIN new : new[k] \in 1..Len(o.heap) /\ o.heap[new[k]] = BuiltinType(k)
    BY <2>3, <2>4, <2>5, <2>6 DEF Result, StoreOK
  <2>8. DOMAIN new \subseteq CacheKey
    BY <1>1 DEF ParserOK, StoreOK
  <2>9. StoreOK(o.heap, new)
    BY <2>3, <2>7, <2>8 DEF Result, StoreOK
  <2>10. get_builtin_type(t, c, v) = [o EXCEPT !.cache = new]
    BY <1>3 DEF get_builtin_type
  <2>11. /\ [o EXCEPT !.cache = new].heap = o.heap
         /\ [o EXCEPT !.cache = new].cache = new
         /\ [o EXCEPT !.cache = new].ref = o.ref
    BY DEF New
  <2> HIDE DEF o, new
  <2> QED
    BY <2>3, <2>9, <2>10, <2>11 DEF Result
<1> QED
  BY <1>2, <1>3

(* A qualifier in place: of an object that is not a builtin type.          *)
LEMMA SetInPlaceIsSound ==
  ASSUME ParserOK, NEW r \in 1..Len(heap), heap[r].kind # "builtin",
         NEW letter \in {"K", "V"}
  PROVE  Result([Keep(r) EXCEPT !.heap =
                   IF letter = "K" THEN [heap EXCEPT ![r].const = TRUE]
                   ELSE [heap EXCEPT ![r].volatile = TRUE]])
<1> DEFINE h == IF letter = "K" THEN [heap EXCEPT ![r].const = TRUE]
                ELSE [heap EXCEPT ![r].volatile = TRUE]
           o == [Keep(r) EXCEPT !.heap = h]
<1>1. heap \in Seq(Node) /\ Len(heap) \in Nat
  BY DEF ParserOK, StoreOK
<1> DEFINE x == IF letter = "K" THEN [heap[r] EXCEPT !.const = TRUE]
                ELSE [heap[r] EXCEPT !.volatile = TRUE]
<1>2. heap[r] \in Node
  BY <1>1
<1>3. x \in Node /\ x.kind = heap[r].kind /\ x.text = heap[r].text /\ x.parts = heap[r].parts
  BY <1>2, QualifiedIsNode
<1>4. h = [heap EXCEPT ![r] = x]
  OBVIOUS
<1> HIDE DEF x
<1>5. o.heap = h /\ o.cache = cache /\ o.ref = r
  BY DEF Keep
<1> HIDE DEF h, o
<1>6. /\ h \in Seq(Node) /\ Len(h) = Len(heap) /\ h[r] = x
       /\ \A i \in 1..Len(heap) : i # r => h[i] = heap[i]
  BY <1>1, <1>3, <1>4
<1>7. \A i \in 1..Len(h) : /\ h[i].kind = "builtin" => Len(h[i].text) = 1
                           /\ \A p \in 1..Len(h[i].parts) : h[i].parts[p] \in 1..(i - 1)
  BY <1>3, <1>6 DEF ParserOK, StoreOK
<1>8. \A k \in DOMAIN cache : cache[k] \in 1..Len(h) /\ h[cache[k]] = BuiltinType(k)
  <2> TAKE k \in DOMAIN cache
  <2>1. cache[k] \in 1..Len(heap) /\ heap[cache[k]] = BuiltinType(k) /\ k \in CacheKey
    BY DEF ParserOK, StoreOK
  <2>2. cache[k] # r
    BY <2>1, BuiltinIsNode
  <2> QED
    BY <1>6, <2>1, <2>2
<1>9. StoreOK(h, cache)
  BY <1>7, <1>8, <1>6 DEF ParserOK, StoreOK
<1>10. Result(o)
  BY <1>1, <1>5, <1>9, <1>6 DEF Result
<1> QED
  BY <1>10 DEF o, h

LEMMA QualifierIsSound ==
  ASSUME ParserOK, NEW r \in 1..Len(heap), NEW letter \in {"K", "V"}
  PROVE  Result(SetQualifier(letter, r))
<1>1. CASE heap[r].kind = "builtin"
  <2>1. heap \in Seq(Node) /\ Len(heap) \in Nat
    BY DEF ParserOK, StoreOK
  <2>2. heap[r] \in Node
    BY <2>1
  <2>3. heap[r].text \in Seq(Text) /\ heap[r].const \in BOOLEAN /\ heap[r].volatile \in BOOLEAN
    BY <2>2 DEF Node
  <2>4. Len(heap[r].text) = 1
    BY <1>1 DEF ParserOK, StoreOK
  <2>5. heap[r].text[1] \in Text
    BY <2>3, <2>4
  <2>6. /\ Result(Keep(r))
        /\ Result(get_builtin_type(heap[r].text[1], TRUE, heap[r].volatile))
        /\ Result(get_builtin_type(heap[r].text[1], heap[r].const, TRUE))
    BY <2>3, <2>5, KeepIsSound, BuiltinIsSound
  <2> QED
    BY <1>1, <2>6 DEF SetQualifier
<1>2. CASE heap[r].kind # "builtin"
  BY <1>2, SetInPlaceIsSound DEF SetQualifier
<1> QED
  BY <1>1, <1>2

-----------------------------------------------------------------------------
(* The calls.                                                              *)
LEMMA CallIsFrame ==
  ASSUME NEW k \in Unary \cup {"F"} \cup Goal
  PROVE  Call(k) \in Frame /\ Call(k).kind = k /\ Call(k).got = << >>
BY DEF Call, Frame

LEMMA TopIsFrame ==
  ASSUME ParserOK, phase = "parse"
  PROVE  /\ Len(calls) \in Nat \ {0}
         /\ Top \in Frame
         /\ Top.kind \in Unary \cup {"F"} \cup Goal
         /\ Top.size \in Seq(Text) /\ Top.got \in Seq(Nat)
         /\ \A i \in 1..Len(Top.got) : Top.got[i] \in 1..Len(heap)
<1>1. calls \in Seq(Frame) /\ Len(calls) \in Nat \ {0}
  BY DEF ParserOK, CallsOK, Rooted
<1>2. Top \in Frame
  BY <1>1 DEF Top
<1>3. Top.kind \in Unary \cup {"F"} \cup Goal /\ Top.size \in Seq(Text) /\ Top.got \in Seq(Nat)
  BY <1>2 DEF Frame
<1>4. \A i \in 1..Len(calls[Len(calls)].got) : calls[Len(calls)].got[i] \in 1..Len(heap)
  <2>1. Len(calls) \in 1..Len(calls)
    BY <1>1
  <2> QED
    BY <2>1 DEF ParserOK, CallsOK
<1> QED
  BY <1>1, <1>2, <1>3, <1>4 DEF Top

(* A call that is not yield_decl's has a caller.                           *)
LEMMA OuterIsRooted ==
  ASSUME ParserOK, phase = "parse", Top.kind \in Unary \cup {"F"}
  PROVE  CallsOK(Outer, Len(heap)) /\ Rooted(Outer)
<1>1. calls \in Seq(Frame) /\ Len(calls) \in Nat \ {0} /\ calls[1].kind \in Goal
  BY DEF ParserOK, CallsOK, Rooted
<1>2. Len(calls) # 1
  BY <1>1 DEF Top, Goal, Unary, Modifier
<1> DEFINE n == Len(calls) - 1
<1>3. n \in Nat \ {0} /\ n <= Len(calls)
  BY <1>1, <1>2
<1>4. Outer = SubSeq(calls, 1, n)
  BY DEF Outer
<1> HIDE DEF n
<1>5. /\ Outer \in Seq(Frame)
      /\ Len(Outer) = n - 1 + 1
      /\ \A i \in 1..(n - 1 + 1) : Outer[i] = calls[1 + i - 1]
  BY <1>1, <1>3, <1>4, PartOfSeq
<1>6. /\ Len(Outer) = n /\ Outer[1] = calls[1]
      /\ \A i \in 1..n : Outer[i] = calls[i]
  BY <1>3, <1>5
<1>7. \A c \in 1..n : \A i \in 1..Len(calls[c].got) : calls[c].got[i] \in 1..Len(heap)
  <2> TAKE c \in 1..n
  <2>1. c \in 1..Len(calls)
    BY <1>1, <1>3
  <2> QED
    BY <2>1 DEF ParserOK, CallsOK
<1>8. CallsOK(Outer, Len(heap))
  BY <1>5, <1>6, <1>7 DEF CallsOK
<1> QED
  BY <1>1, <1>3, <1>6, <1>8 DEF Rooted

LEMMA GotIsFrame ==
  ASSUME NEW f \in Frame, NEW r \in Nat
  PROVE  /\ [f EXCEPT !.got = Append(@, r)] \in Frame
         /\ [f EXCEPT !.got = Append(@, r)].kind = f.kind
         /\ [f EXCEPT !.got = Append(@, r)].got = Append(f.got, r)
<1> DEFINE g == Append(f.got, r)
<1>1. f.got \in Seq(Nat)
  BY DEF Frame
<1>2. g \in Seq(Nat)
  BY <1>1
<1> HIDE DEF g
<1>3. [f EXCEPT !.got = g] \in Frame /\ [f EXCEPT !.got = g].kind = f.kind
      /\ [f EXCEPT !.got = g].got = g
  BY <1>2 DEF Frame
<1> QED
  BY <1>3 DEF g

LEMMA YieldPreserves ==
  ASSUME IInv, phase = "parse", NEW o, Result(o),
         NEW rest, CallsOK(rest, Len(heap)), Rooted(rest),
         Yield(o, rest), at' \in Nat \ {0}
  PROVE  IInv'
<1> DEFINE n == Len(rest)
           f == [rest[n] EXCEPT !.got = Append(@, o.ref)]
<1>1. rest \in Seq(Frame) /\ n \in Nat \ {0} /\ rest[1].kind \in Goal
  BY DEF CallsOK, Rooted
<1>2. Len(heap) \in Nat /\ Len(o.heap) \in Nat /\ Len(heap) <= Len(o.heap)
      /\ o.ref \in 1..Len(o.heap)
  BY DEF ParserOK, IInv, StoreOK, Result
<1>3. rest[n] \in Frame
  BY <1>1
<1>4. f \in Frame /\ f.kind = rest[n].kind /\ f.got = Append(rest[n].got, o.ref)
      /\ rest[n].got \in Seq(Nat)
  <2>1. o.ref \in Nat
    BY <1>2
  <2>2. rest[n].got \in Seq(Nat)
    BY <1>3 DEF Frame
  <2> QED
    BY <1>3, <2>1, <2>2, GotIsFrame
<1>5. calls' = [rest EXCEPT ![n] = f] /\ heap' = o.heap /\ cache' = o.cache
      /\ UNCHANGED << splitting, phase, types, args >>
  BY DEF Yield
<1> HIDE DEF f, n
<1>6. /\ calls' \in Seq(Frame) /\ Len(calls') = Len(rest) /\ calls'[n] = f
      /\ \A i \in 1..Len(rest) : i # n => calls'[i] = rest[i]
  BY <1>1, <1>4, <1>5 DEF n
<1>7. \A i \in 1..Len(f.got) : f.got[i] \in 1..Len(o.heap)
  <2>1. \A i \in 1..Len(rest[n].got) : rest[n].got[i] \in 1..Len(heap)
    BY <1>1 DEF CallsOK, n
  <2> QED
    BY <1>2, <1>4, <2>1
<1>8. CallsOK(calls', Len(heap'))
  BY <1>1, <1>2, <1>5, <1>6, <1>7 DEF CallsOK
<1>9. Rooted(calls')
  BY <1>1, <1>4, <1>6 DEF Rooted, n
<1>10. StoreOK(heap', cache')
  BY <1>5 DEF Result
<1> QED
  BY <1>5, <1>8, <1>9, <1>10 DEF IInv, ReaderOK, ParserOK, splitting

LEMMA EnterPreserves ==
  ASSUME IInv, phase = "parse", NEW f \in Frame, f.got = << >>,
         NEW next \in Nat \ {0}, Enter(f, next)
  PROVE  IInv'
<1>1. calls \in Seq(Frame) /\ Len(calls) \in Nat \ {0} /\ calls[1].kind \in Goal
  BY DEF IInv, ParserOK, CallsOK, Rooted
<1>2. calls' = Append(calls, f) /\ at' = next
      /\ UNCHANGED << splitting, phase, heap, cache, types, args >>
  BY DEF Enter
<1>3. /\ calls' \in Seq(Frame) /\ Len(calls') = Len(calls) + 1 /\ calls'[Len(calls) + 1] = f
      /\ \A i \in 1..Len(calls) : calls'[i] = calls[i]
  BY <1>1, <1>2
<1>4. CallsOK(calls', Len(heap'))
  BY <1>1, <1>2, <1>3 DEF CallsOK, IInv, ParserOK
<1>5. Rooted(calls')
  BY <1>1, <1>3 DEF Rooted
<1> QED
  BY <1>2, <1>4, <1>5 DEF IInv, ReaderOK, ParserOK, splitting

LEMMA RaisePreserves ==
  ASSUME IInv, Raise
  PROVE  IInv'
BY DEF Raise, IInv, ReaderOK, ParserOK, splitting, parsing

(* A first call, or none.                                                  *)
LEMMA FirstCall ==
  ASSUME NEW k \in Goal, NEW n \in Nat
  PROVE  CallsOK(<< Call(k) >>, n) /\ Rooted(<< Call(k) >>) /\ CallsOK(<< >>, n)
<1>1. Call(k) \in Frame /\ Call(k).kind = k /\ Call(k).got = << >>
  BY CallIsFrame
<1> QED
  BY <1>1 DEF CallsOK, Rooted

LEMMA ReadArgumentsPreserves ==
  ASSUME IInv, NEW i \in Nat \ {0},
         ReadArguments(i) \/ ReadParameters(i),
         UNCHANGED << splitting, heap, cache >>, types' \in Seq(Nat), args' \in Seq(Nat)
  PROVE  IInv'
<1>1. Len(heap) \in Nat
  BY DEF IInv, ParserOK, StoreOK
<1>2. /\ at' \in Nat \ {0}
      /\ \/ phase' = "done" /\ calls' = << >>
         \/ phase' = "parse" /\ \E k \in Goal : calls' = << Call(k) >>
  BY DEF ReadArguments, ReadParameters, Done, Goal
<1>3. CallsOK(calls', Len(heap)) /\ (phase' = "parse" => Rooted(calls'))
  <2>1. "type" \in Goal
    BY DEF Goal
  <2> QED
    BY <1>1, <1>2, <2>1, FirstCall
<1> QED
  BY <1>2, <1>3 DEF IInv, ReaderOK, ParserOK, splitting

-----------------------------------------------------------------------------
(* Tokenizer._step.                                                        *)
LEMMA TakePreserves ==
  ASSUME IInv, NEW t \in Text, NEW next \in Nat \ {0}, Take(t, next),
         stk' \in Seq(Opening)
  PROVE  IInv'
<1>1. tokens' \in Seq(Text)
  BY DEF Take, IInv, ReaderOK
<1> QED
  BY <1>1 DEF Take, IInv, ReaderOK, ParserOK, parsing

LEMMA SplitPreserves ==
  ASSUME IInv, Split
  PROVE  IInv'
<1>1. /\ phase = "split" /\ pos \in Nat \ {0} /\ Len(source) \in Nat /\ pos <= Len(source)
      /\ source \in Text /\ source \in Seq(Char) /\ stk \in Seq(Opening)
  BY DEF Split, IInv, ReaderOK, Text
<1>2. << Ch >> \in Text /\ Ch2 \in Text /\ pos + 1 \in Nat \ {0} /\ pos + 2 \in Nat \ {0}
  <2>1. Ch \in Char
    BY <1>1 DEF Ch
  <2>2. << Ch >> \in Text
    BY <2>1 DEF Text
  <2>3. pos < Len(source) => SubSeq(source, pos, pos + 1) \in Seq(Char)
    <3>1. pos + 1 \in Int
      BY <1>1
    <3> QED
      BY <1>1, <3>1, PartOfSeq
  <2> QED
    BY <1>1, <2>2, <2>3 DEF Ch2, Text
<1>3. ASSUME NEW p \in Nat \ {0}, NEW j \in Int, j <= Len(source)
      PROVE  SubSeq(source, p, j) \in Text
  BY <1>1, <1>3, PartOfSeq DEF Text
<1>4. CASE TakeValue
  <2>1. PICK j \in DigitsEnd(source, pos) :
          IF j > Len(source) THEN Raise
          ELSE Take(SubSeq(source, pos, j - 1), j) /\ UNCHANGED stk
    BY <1>4 DEF TakeValue
  <2>2. j \in Nat \ {0} /\ j <= Len(source) + 1
    BY <1>1, DigitsEndInside
  <2>3. j - 1 \in Int /\ j - 1 <= Len(source)
    BY <1>1, <2>2
  <2>4. SubSeq(source, pos, j - 1) \in Text
    BY <1>1, <1>3, <2>3
  <2> QED
    BY <1>1, <2>1, <2>2, <2>4, TakePreserves, RaisePreserves
<1>5. CASE TakeName
  <2>1. PICK j \in DigitsEnd(source, pos) :
          \/ Raise
          \/ \E n \in 0..(Len(source) - j + 1), length \in Decimal(SubSeq(source, pos, j - 1)) :
               /\ Take(length \o SubSeq(source, j, j + n - 1), j + n)
               /\ UNCHANGED stk
    BY <1>5 DEF TakeName
  <2>2. j \in Nat \ {0} /\ j <= Len(source) + 1
    BY <1>1, DigitsEndInside
  <2>3. CASE Raise
    BY <2>3, RaisePreserves
  <2>4. ASSUME NEW n \in 0..(Len(source) - j + 1),
               NEW length \in Decimal(SubSeq(source, pos, j - 1)),
               Take(length \o SubSeq(source, j, j + n - 1), j + n), UNCHANGED stk
        PROVE  IInv'
    <3>1. /\ j - 1 \in Int /\ j - 1 <= Len(source)
          /\ j + n - 1 \in Int /\ j + n - 1 <= Len(source) /\ j + n \in Nat \ {0}
      BY <1>1, <2>2
    <3>2. SubSeq(source, pos, j - 1) \in Text /\ SubSeq(source, j, j + n - 1) \in Text
      BY <1>1, <1>3, <2>2, <3>1
    <3>3. length \in Text
      BY <3>2, DecimalIsText
    <3>4. length \o SubSeq(source, j, j + n - 1) \in Text
      BY <3>2, <3>3 DEF Text
    <3> QED
      BY <1>1, <2>4, <3>1, <3>4, TakePreserves
  <2> QED
    BY <2>1, <2>3, <2>4
<1>6. CASE TakeOpening
  <2>1. Append(stk, Ch) \in Seq(Opening)
    BY <1>1, <1>6 DEF TakeOpening
  <2> QED
    BY <1>2, <1>6, <2>1, TakePreserves DEF TakeOpening
<1>7. CASE TakeClosing
  <2>1. CASE stk = << >>
    BY <1>7, <2>1, RaisePreserves DEF TakeClosing
  <2>2. CASE stk # << >>
    <3>1. Len(stk) \in Nat \ {0}
      BY <1>1, <2>2
    <3>2. Len(stk) - 1 \in Int /\ Len(stk) - 1 <= Len(stk)
      BY <3>1
    <3>3. SubSeq(stk, 1, Len(stk) - 1) \in Seq(Opening)
      BY <1>1, <3>2, PartOfSeq
    <3> QED
      BY <1>2, <1>7, <2>2, <3>3, TakePreserves DEF TakeClosing
  <2> QED
    BY <2>1, <2>2
<1>8. CASE TakeConstructor \/ TakeDestructor \/ TakeLetter
  BY <1>1, <1>2, <1>8, TakePreserves DEF TakeConstructor, TakeDestructor, TakeLetter
<1>9. CASE TakeOperator \/ TakeNullPtr
  BY <1>1, <1>2, <1>9, TakePreserves DEF TakeOperator, TakeNullPtr
<1>10. CASE TakeArray
  <2>1. PICK j \in DigitsEnd(source, pos + 1) :
          LET digits == SubSeq(source, pos + 1, j - 1)
          IN  /\ IF \A i \in DOMAIN digits : digits[i] = "0"
                 THEN tokens' = Append(tokens, << Ch >>)
                 ELSE \E length \in Decimal(digits) :
                        tokens' = Append(Append(tokens, << Ch >>), length)
              /\ pos' = IF j <= Len(source) /\ source[j] = Underscore THEN j + 1 ELSE j
    BY <1>10 DEF TakeArray
  <2>2. j \in Nat \ {0} /\ j <= Len(source) + 1
    BY <1>1, <1>2, DigitsEndInside
  <2>3. j - 1 \in Int /\ j - 1 <= Len(source)
    BY <1>1, <2>2
  <2>4. SubSeq(source, pos + 1, j - 1) \in Text
    BY <1>2, <1>3, <2>3
  <2>5. \A length \in Decimal(SubSeq(source, pos + 1, j - 1)) : length \in Text
    BY <2>4, DecimalIsText
  <2>6. tokens \in Seq(Text)
    BY DEF IInv, ReaderOK
  <2>7. Append(tokens, << Ch >>) \in Seq(Text)
    BY <1>2, <2>6
  <2>8. \A length \in Text : Append(Append(tokens, << Ch >>), length) \in Seq(Text)
    BY <2>7
  <2>9. tokens' \in Seq(Text)
    BY <2>1, <2>5, <2>7, <2>8
  <2>10. pos' \in Nat \ {0}
    <3>1. pos' = j \/ pos' = j + 1
      BY <2>1
    <3>2. j + 1 \in Nat \ {0}
      BY <2>2
    <3> QED
      BY <2>2, <3>1, <3>2
  <2>11. UNCHANGED << way, source, stk, phase, parsing >>
    BY <1>10 DEF TakeArray
  <2> QED
    BY <2>9, <2>10, <2>11 DEF IInv, ReaderOK, ParserOK, parsing
<1>11. CASE TakeNothing
  BY <1>11, RaisePreserves DEF TakeNothing
<1> QED
  BY <1>4, <1>5, <1>6, <1>7, <1>8, <1>9, <1>10, <1>11 DEF Split

LEMMA SplitEndsPreserves ==
  ASSUME IInv, SplitEnds
  PROVE  IInv'
<1>1. CASE Raise
  BY <1>1, RaisePreserves
<1>2. CASE tokens # << >> /\ Unwrap
  <2>1. tokens \in Seq(Text) /\ Len(tokens) \in Nat \ {0}
    BY <1>2 DEF IInv, ReaderOK
  <2> DEFINE t == tokens[Len(tokens)]
  <2>2. t \in Text
    BY <2>1
  <2> HIDE DEF t
  <2>3. Len(t) \in Nat
    BY <2>2 DEF Text
  <2>4. PICK j \in DigitsEnd(t, 1) : source' = SubSeq(t, j, Len(t))
    BY <1>2 DEF Unwrap, t
  <2>5. j \in Nat \ {0}
    BY <2>2, DigitsEndInside
  <2>6. source' \in Text
    BY <2>2, <2>3, <2>4, <2>5, PartOfSeq DEF Text
  <2>7. way' = "type" /\ pos' = 1 /\ tokens' = << >> /\ UNCHANGED << stk, phase, parsing >>
    BY <1>2 DEF Unwrap
  <2> QED
    BY <2>6, <2>7 DEF IInv, ReaderOK, ParserOK, parsing
<1>3. CASE ReadType
  <2>1. Len(heap) \in Nat
    BY DEF IInv, ParserOK, StoreOK
  <2>2. calls' = << Call("type") >> /\ phase' = "parse"
        /\ UNCHANGED << splitting, at, heap, cache, types, args >>
    BY <1>3 DEF ReadType
  <2>3. CallsOK(calls', Len(heap)) /\ Rooted(calls')
    BY <2>1, <2>2, FirstCall DEF Goal
  <2> QED
    BY <2>2, <2>3 DEF IInv, ReaderOK, ParserOK, splitting
<1>4. CASE ReadMember
  <2>1. UNCHANGED << splitting, heap, cache, types, args >>
        /\ types' \in Seq(Nat) /\ args' \in Seq(Nat)
    BY <1>4 DEF ReadMember, IInv, ParserOK
  <2>2. CASE ReadArguments(2)
    BY <2>1, <2>2, ReadArgumentsPreserves
  <2>3. CASE calls' = << Call("conversion") >> /\ at' = 2 /\ phase' = "parse"
    <3>1. Len(heap) \in Nat
      BY DEF IInv, ParserOK, StoreOK
    <3>2. CallsOK(calls', Len(heap)) /\ Rooted(calls')
      BY <2>3, <3>1, FirstCall DEF Goal
    <3> QED
      BY <2>1, <2>3, <3>2 DEF IInv, ReaderOK, ParserOK, splitting
  <2> QED
    BY <1>4, <2>2, <2>3 DEF ReadMember
<1> QED
  BY <1>1, <1>2, <1>3, <1>4 DEF SplitEnds

-----------------------------------------------------------------------------
(* TypeParser.__init__ and what calls it.                                  *)
LEMMA ParseTypePreserves ==
  ASSUME IInv, phase = "parse", ParseType
  PROVE  IInv'
<1>1. /\ at \in Nat \ {0} /\ at + 1 \in Nat \ {0} /\ at + 2 \in Nat \ {0}
      /\ tokens \in Seq(Text) /\ Len(tokens) \in Nat /\ Len(heap) \in Nat
      /\ CallsOK(calls, Len(heap)) /\ Rooted(calls)
  BY DEF IInv, ReaderOK, ParserOK, StoreOK
<1>2. CASE at <= Len(tokens) /\ ParseBuiltin
  <2>1. Token \in Text
    BY <1>1, <1>2 DEF Token
  <2>2. Result(get_builtin_type(Token, FALSE, FALSE))
    BY <2>1, BuiltinIsSound DEF IInv
  <2>3. Yield(get_builtin_type(Token, FALSE, FALSE), calls) /\ at' = at + 1
    BY <1>2 DEF ParseBuiltin
  <2> QED
    BY <1>1, <2>2, <2>3, YieldPreserves
<1>3. CASE ParseModifier
  <2>1. PICK m \in Modifier \cup {"F"} : Enter(Call(m), at + 1)
    BY <1>3 DEF ParseModifier
  <2>2. Call(m) \in Frame /\ Call(m).got = << >>
    BY CallIsFrame DEF Unary
  <2> QED
    BY <1>1, <2>1, <2>2, EnterPreserves
<1>4. CASE at <= Len(tokens) /\ ParseArray
  <2>1. Call("A") \in Frame /\ Call("A").got = << >>
    BY CallIsFrame DEF Unary
  <2>2. CASE Raise
    BY <2>2, RaisePreserves
  <2>3. CASE Enter(Call("A"), at + 1)
    BY <1>1, <2>1, <2>3, EnterPreserves
  <2>4. CASE at # Len(tokens) /\ Enter([Call("A") EXCEPT !.size = << tokens[at + 1] >>], at + 2)
    <3> DEFINE f == [Call("A") EXCEPT !.size = << tokens[at + 1] >>]
    <3>1. at + 1 \in 1..Len(tokens)
      BY <1>1, <1>4, <2>4
    <3>2. << tokens[at + 1] >> \in Seq(Text)
      BY <1>1, <3>1
    <3>3. f \in Frame /\ f.got = << >>
      BY <2>1, <3>2 DEF Frame
    <3> HIDE DEF f
    <3>4. Enter(f, at + 2)
      BY <2>4 DEF f
    <3> QED
      BY <1>1, <3>3, <3>4, EnterPreserves
  <2> QED
    BY <1>4, <2>2, <2>3, <2>4 DEF ParseArray
<1>5. CASE ParseRecord
  <2>1. CASE Raise
    BY <2>1, RaisePreserves
  <2>2. ASSUME NEW j \in RecordEnd(at),
               Yield(New(Object("N", SubSeq(tokens, at, j), << >>)), calls), at' = j + 1
        PROVE  IInv'
    <3> DEFINE node == Object("N", SubSeq(tokens, at, j), << >>)
    <3>1. j \in Nat \ {0} /\ j \in Int /\ j <= Len(tokens) /\ j + 1 \in Nat \ {0}
      <4>1. j \in (at + 1)..Len(tokens)
        BY DEF RecordEnd
      <4> QED
        BY <1>1, <4>1
    <3>2. SubSeq(tokens, at, j) \in Seq(Text)
      BY <1>1, <3>1, PartOfSeq
    <3>3. << >> \in Seq(Nat)
      OBVIOUS
    <3>4. node \in Node /\ node.kind = "N" /\ node.parts = << >>
      BY <3>2, <3>3 DEF Object, Node, NodeKind
    <3> HIDE DEF node
    <3>5. Result(New(node))
      BY <3>4, NewIsSound DEF IInv
    <3>6. Yield(New(node), calls)
      BY <2>2 DEF node
    <3> QED
      BY <1>1, <2>2, <3>1, <3>5, <3>6, YieldPreserves
  <2> QED
    BY <1>5, <2>1, <2>2 DEF ParseRecord
<1>6. CASE ParseNothing
  BY <1>6, RaisePreserves DEF ParseNothing
<1> QED
  BY <1>2, <1>3, <1>4, <1>5, <1>6 DEF ParseType

LEMMA ReturnPreserves ==
  ASSUME IInv, phase = "parse", Return
  PROVE  IInv'
<1>1. /\ Top.kind \in Unary \ {"L"} /\ Top.got # << >>
      /\ UNCHANGED at /\ at \in Nat \ {0} /\ Len(heap) \in Nat
  BY DEF Return, IInv, ParserOK, StoreOK
<1>2. /\ Top.size \in Seq(Text) /\ Top.got \in Seq(Nat)
      /\ \A i \in 1..Len(Top.got) : Top.got[i] \in 1..Len(heap)
  BY TopIsFrame DEF IInv
<1>3. CallsOK(Outer, Len(heap)) /\ Rooted(Outer)
  BY <1>1, OuterIsRooted DEF IInv
<1>4. CASE Top.kind \in {"K", "V"}
  <2>1. Top.got[1] \in 1..Len(heap)
    BY <1>1, <1>2
  <2>2. Result(SetQualifier(Top.kind, Top.got[1]))
    BY <1>4, <2>1, QualifierIsSound DEF IInv
  <2>3. Yield(SetQualifier(Top.kind, Top.got[1]), Outer)
    BY <1>4 DEF Return
  <2> QED
    BY <1>1, <1>3, <2>2, <2>3, YieldPreserves
<1>5. CASE Top.kind \notin {"K", "V"}
  <2> DEFINE node == Object(Top.kind, Top.size, Top.got)
  <2>1. Top.kind \in NodeKind /\ Top.kind # "builtin"
    BY <1>1, <1>5 DEF Unary, Modifier, NodeKind
  <2>2. node \in Node /\ node.kind = Top.kind /\ node.parts = Top.got
    BY <1>2, <2>1 DEF Object, Node
  <2>3. Yield(New(node), Outer)
    BY <1>5 DEF Return
  <2> HIDE DEF node
  <2>4. Result(New(node))
    BY <1>2, <2>1, <2>2, NewIsSound DEF IInv
  <2> QED
    BY <1>1, <1>3, <2>3, <2>4, YieldPreserves
<1> QED
  BY <1>4, <1>5

LEMMA ReturnFunctionPreserves ==
  ASSUME IInv, phase = "parse", ReturnFunction
  PROVE  IInv'
<1>1. CASE Raise
  BY <1>1, RaisePreserves
<1>2. CASE Yield(New(Object("F", << >>, Top.got)), Outer) /\ at' = at + 1
  <2> DEFINE node == Object("F", << >>, Top.got)
  <2>1. Top.kind = "F" /\ at + 1 \in Nat \ {0}
    BY DEF ReturnFunction, IInv, ParserOK
  <2>2. /\ Top.got \in Seq(Nat)
        /\ \A i \in 1..Len(Top.got) : Top.got[i] \in 1..Len(heap)
    BY TopIsFrame DEF IInv
  <2>3. CallsOK(Outer, Len(heap)) /\ Rooted(Outer)
    BY <2>1, OuterIsRooted DEF IInv
  <2>4. << >> \in Seq(Text)
    OBVIOUS
  <2>5. node \in Node /\ node.kind = "F" /\ node.parts = Top.got
    BY <2>2, <2>4 DEF Object, Node, NodeKind
  <2>6. Yield(New(node), Outer)
    BY <1>2
  <2> HIDE DEF node
  <2>7. Result(New(node))
    BY <2>2, <2>5, NewIsSound DEF IInv
  <2> QED
    BY <1>2, <2>1, <2>3, <2>6, <2>7, YieldPreserves
<1> QED
  BY <1>1, <1>2 DEF ReturnFunction

LEMMA ReturnValuePreserves ==
  ASSUME IInv, phase = "parse", ReturnValue
  PROVE  IInv'
<1>1. CASE at > Len(tokens)
  BY <1>1, RaisePreserves DEF ReturnValue
<1>2. CASE ~(at > Len(tokens))
  <2> DEFINE value == IF IsDigits(Token) THEN << Token >> ELSE << >>
             node  == Object("L", value, << >>)
  <2>1. /\ at \in Nat \ {0} /\ tokens \in Seq(Text) /\ Len(tokens) \in Nat
        /\ Top.kind = "L"
    BY DEF ReturnValue, IInv, ReaderOK, ParserOK
  <2>2. Token \in Text
    BY <1>2, <2>1 DEF Token
  <2>3. value \in Seq(Text) /\ Len(value) \in Nat /\ << >> \in Seq(Nat)
    BY <2>2
  <2>4. Yield(New(node), Outer) /\ at' = at + Len(value) + 1
    BY <1>2 DEF ReturnValue
  <2> HIDE DEF value
  <2>5. node \in Node /\ node.kind = "L" /\ node.parts = << >>
    BY <2>3 DEF Object, Node, NodeKind
  <2> HIDE DEF node
  <2>6. Result(New(node))
    BY <2>5, NewIsSound DEF IInv
  <2>7. CallsOK(Outer, Len(heap)) /\ Rooted(Outer)
    BY <2>1, OuterIsRooted DEF IInv, Unary
  <2>8. at' \in Nat \ {0}
    BY <2>1, <2>3, <2>4
  <2> QED
    BY <2>4, <2>6, <2>7, <2>8, YieldPreserves
<1> QED
  BY <1>1, <1>2

LEMMA EndsPreserve ==
  ASSUME IInv, phase = "parse", EndArguments \/ EndConversion \/ EndColumn
  PROVE  IInv'
<1>1. at \in Nat \ {0} /\ at + 1 \in Nat \ {0} /\ Len(heap) \in Nat
      /\ types \in Seq(Nat) /\ args \in Seq(Nat)
  BY DEF IInv, ParserOK, StoreOK
<1>2. Top.got \in Seq(Nat)
  BY TopIsFrame DEF IInv
<1>3. CASE EndArguments
  BY <1>1, <1>2, <1>3, ReadArgumentsPreserves DEF EndArguments
<1>4. CASE EndConversion
  BY <1>1, <1>4, ReadArgumentsPreserves DEF EndConversion
<1>5. CASE EndColumn
  <2>1. /\ types' = Top.got /\ phase' = "done" /\ calls' = << >>
        /\ UNCHANGED << splitting, at, heap, cache, args >>
    BY <1>5 DEF EndColumn, Done
  <2>2. CallsOK(<< >>, Len(heap))
    BY <1>1, FirstCall DEF Goal
  <2> QED
    BY <1>2, <2>1, <2>2 DEF IInv, ReaderOK, ParserOK, splitting
<1> QED
  BY <1>3, <1>4, <1>5

-----------------------------------------------------------------------------
LEMMA InitHolds == Init => IInv
<1> SUFFICES ASSUME NEW c \in Columns, NEW known \in Cached, Start(c, known)
             PROVE  IInv
  BY DEF Init
<1>1. known \in Seq(CacheKey) /\ Len(known) \in Nat /\ DOMAIN known = 1..Len(known)
  BY CachedAssumption
<1>2. /\ heap = [i \in 1..Len(known) |-> BuiltinType(known[i])]
      /\ cache = [k \in {known[i] : i \in 1..Len(known)} |->
                    CHOOSE i \in 1..Len(known) : known[i] = k]
  BY <1>1 DEF Start
<1>3. \A i \in 1..Len(known) : known[i] \in CacheKey
  BY <1>1
<1>4. \A i \in 1..Len(known) : BuiltinType(known[i]) \in Node
  BY <1>3, BuiltinIsNode
<1>5. heap \in Seq(Node) /\ Len(heap) = Len(known)
      /\ \A i \in 1..Len(heap) : heap[i] = BuiltinType(known[i])
  BY <1>1, <1>2, <1>4
<1>6. ASSUME NEW r \in 1..Len(heap)
      PROVE  /\ Len(heap[r].text) = 1
             /\ \A i \in 1..Len(heap[r].parts) : heap[r].parts[i] \in 1..(r - 1)
  <2>1. heap[r] = BuiltinType(known[r]) /\ known[r] \in CacheKey
    BY <1>3, <1>5
  <2>2. heap[r].parts = << >> /\ Len(heap[r].text) = 1
    BY <2>1, BuiltinIsNode
  <2> QED
    BY <2>2
<1>7. ASSUME NEW k \in DOMAIN cache
      PROVE  k \in CacheKey /\ cache[k] \in 1..Len(heap) /\ heap[cache[k]] = BuiltinType(k)
  <2>1. \E i \in 1..Len(known) : known[i] = k
    BY <1>2
  <2>2. cache[k] \in 1..Len(known) /\ known[cache[k]] = k
    BY <1>2, <2>1
  <2> QED
    BY <1>3, <1>5, <2>2
<1>8. StoreOK(heap, cache)
  BY <1>5, <1>6, <1>7 DEF StoreOK
<1>9. Len(heap) \in Nat /\ calls = << >>
  BY <1>5 DEF Start
<1>10. CallsOK(calls, Len(heap))
  BY <1>9, FirstCall DEF Goal
<1>11. c.way \in {"type", "nested", "member"} /\ c.text \in Text
  BY ColumnAssumption DEF Column
<1> QED
  BY <1>8, <1>10, <1>11 DEF Start, IInv, ReaderOK, ParserOK, Text

LEMMA NextPreserves == IInv /\ [Next]_vars => IInv'
<1> SUFFICES ASSUME IInv, [Next]_vars PROVE IInv'
  OBVIOUS
<1>1. CASE Split
  BY <1>1, SplitPreserves
<1>2. CASE SplitEnds
  BY <1>2, SplitEndsPreserves
<1>3. CASE phase = "parse" /\ ParseType
  BY <1>3, ParseTypePreserves
<1>4. CASE phase = "parse" /\ Return
  BY <1>4, ReturnPreserves
<1>5. CASE phase = "parse" /\ ReturnFunction
  BY <1>5, ReturnFunctionPreserves
<1>6. CASE phase = "parse" /\ EnterValue
  <2>1. Call("L") \in Frame /\ Call("L").got = << >>
    BY CallIsFrame DEF Unary
  <2>2. at + 1 \in Nat \ {0} /\ Enter(Call("L"), at + 1)
    BY <1>6 DEF EnterValue, IInv, ParserOK
  <2> QED
    BY <1>6, <2>1, <2>2, EnterPreserves
<1>7. CASE phase = "parse" /\ ReturnValue
  BY <1>7, ReturnValuePreserves
<1>8. CASE phase = "parse" /\ (EndArguments \/ EndConversion \/ EndColumn)
  BY <1>8, EndsPreserve
<1>9. CASE UNCHANGED vars
  BY <1>9 DEF vars, splitting, parsing, IInv, ReaderOK, ParserOK
<1> QED
  BY <1>1, <1>2, <1>3, <1>4, <1>5, <1>6, <1>7, <1>8, <1>9 DEF Next, Parse

LEMMA Inductive == Spec => []IInv
BY InitHolds, NextPreserves, PTL DEF Spec

-----------------------------------------------------------------------------
(* Sharing. *)

(* Object r is the i-th reference that object, call or result n has.       *)
Held(r, w, n, i) ==
  \/ /\ w = "object" /\ n \in 1..Len(heap)
     /\ i \in 1..Len(heap[n].parts) /\ heap[n].parts[i] = r
  \/ /\ w = "call" /\ n \in 1..Len(calls)
     /\ i \in 1..Len(calls[n].got) /\ calls[n].got[i] = r
  \/ w = "types" /\ n = 0 /\ i \in 1..Len(types) /\ types[i] = r
  \/ w = "arguments" /\ n = 0 /\ i \in 1..Len(args) /\ args[i] = r

(* One place has an object that is not a builtin type.                     *)
Apart ==
  \A r \in 1..Len(heap) : heap[r].kind # "builtin" =>
    \A w1, n1, i1, w2, n2, i2 :
      Held(r, w1, n1, i1) /\ Held(r, w2, n2, i2) => w1 = w2 /\ n1 = n2 /\ i1 = i2

(* The results are objects, too.                                           *)
ResultsOK ==
  /\ \A i \in 1..Len(types) : types[i] \in 1..Len(heap)
  /\ \A i \in 1..Len(args) : args[i] \in 1..Len(heap)

Owned == Apart /\ ResultsOK

LEMMA HeldIsObject ==
  ASSUME IInv, ResultsOK, NEW r, NEW w, NEW n, NEW i, Held(r, w, n, i)
  PROVE  r \in 1..Len(heap)
<1>1. CASE w = "object"
  <2>1. n \in 1..Len(heap) /\ i \in 1..Len(heap[n].parts) /\ heap[n].parts[i] = r
    BY <1>1 DEF Held
  <2>2. heap[n].parts[i] \in 1..(n - 1) /\ Len(heap) \in Nat
    BY <2>1 DEF IInv, ParserOK, StoreOK
  <2> QED
    BY <2>1, <2>2
<1>2. CASE w = "call"
  BY <1>2 DEF Held, IInv, ParserOK, CallsOK
<1>3. CASE w = "types" \/ w = "arguments"
  BY <1>3 DEF Held, ResultsOK
<1> QED
  BY <1>1, <1>2, <1>3 DEF Held

(* A step after which every place is one of before: nothing is shared.     *)
LEMMA FewerPlaces ==
  ASSUME Owned, UNCHANGED heap, ResultsOK',
         \A r, w, n, i : Held(r, w, n, i)' => Held(r, w, n, i)
  PROVE  Owned'
BY DEF Owned, Apart

(* What Yield does to the calls: the innermost of the first m gets one     *)
(* reference more, the others are as they were.                            *)
Handed(m, ref) ==
  /\ m \in 1..Len(calls) /\ Len(calls') = m
  /\ \A c \in 1..(m - 1) : calls'[c].got = calls[c].got
  /\ calls[m].got \in Seq(Nat)
  /\ calls'[m].got = Append(calls[m].got, ref)
  /\ UNCHANGED << types, args >>

(* A place among the calls is one of before, or the new one.               *)
LEMMA HandedPlaces ==
  ASSUME NEW m, NEW ref \in Nat, Handed(m, ref), Len(calls) \in Nat,
         NEW r, NEW w, NEW n, NEW i, Held(r, w, n, i)', w # "object"
  PROVE  \/ Held(r, w, n, i) /\ (w = "call" => n \in 1..m)
         \/ w = "call" /\ n = m /\ i = Len(calls[m].got) + 1 /\ r = ref
<1>1. CASE w = "call"
  <2>1. m \in Nat /\ n \in 1..m /\ i \in 1..Len(calls'[n].got) /\ calls'[n].got[i] = r
    BY <1>1 DEF Held, Handed
  <2>2. CASE n \in 1..(m - 1)
    <3>1. calls'[n].got = calls[n].got
      BY <2>2 DEF Handed
    <3>2. n \in 1..Len(calls)
      BY <2>1 DEF Handed
    <3> QED
      BY <1>1, <2>1, <3>1, <3>2 DEF Held
  <2>3. CASE n = m
    <3> DEFINE g == calls[m].got
    <3>1. g \in Seq(Nat) /\ calls'[n].got = Append(g, ref) /\ n \in 1..Len(calls)
      BY <2>3 DEF Handed
    <3> HIDE DEF g
    <3>2. /\ Len(g) \in Nat /\ Len(Append(g, ref)) = Len(g) + 1
          /\ Append(g, ref)[Len(g) + 1] = ref
          /\ \A k \in 1..Len(g) : Append(g, ref)[k] = g[k]
      BY <3>1, AppendProperties
    <3>3. CASE i = Len(g) + 1
      BY <1>1, <2>1, <2>3, <3>1, <3>2, <3>3 DEF g
    <3>4. CASE i # Len(g) + 1
      <4>1. i \in 1..Len(g) /\ g[i] = r
        BY <2>1, <3>1, <3>2, <3>4
      <4> QED
        BY <1>1, <2>1, <2>3, <3>1, <4>1 DEF Held, g
    <3> QED
      BY <3>3, <3>4
  <2> QED
    BY <2>1, <2>2, <2>3
<1>2. CASE w # "call"
  BY <1>2 DEF Held, Handed
<1> QED
  BY <1>1, <1>2

LEMMA YieldHands ==
  ASSUME IInv, phase = "parse", NEW o, o.ref \in Nat, NEW rest, Yield(o, rest),
         rest = calls \/ (rest = Outer /\ Top.kind \in Unary \cup {"F"})
  PROVE  /\ Handed(Len(rest), o.ref)
         /\ rest = Outer => Len(rest) = Len(calls) - 1
<1>1. calls \in Seq(Frame) /\ Len(calls) \in Nat \ {0}
  BY DEF IInv, ParserOK, CallsOK, Rooted
<1>2. /\ rest \in Seq(Frame) /\ Len(rest) \in 1..Len(calls)
      /\ \A c \in 1..Len(rest) : rest[c] = calls[c]
      /\ rest = Outer => Len(rest) = Len(calls) - 1
  <2> DEFINE n == Len(calls) - 1
  <2>1. n \in Nat /\ n <= Len(calls) /\ Outer = SubSeq(calls, 1, n)
    BY <1>1 DEF Outer
  <2> HIDE DEF n
  <2>2. /\ Len(Outer) = IF 1 <= n THEN n - 1 + 1 ELSE 0
        /\ \A i \in 1..(n - 1 + 1) : Outer[i] = calls[1 + i - 1]
    BY <1>1, <2>1, PartOfSeq
  <2>3. Len(Outer) = n /\ \A i \in 1..n : Outer[i] = calls[i]
    BY <2>1, <2>2
  <2>4. CASE rest = Outer /\ Top.kind \in Unary \cup {"F"}
    <3>1. CallsOK(Outer, Len(heap)) /\ Rooted(Outer)
      BY <2>4, OuterIsRooted DEF IInv
    <3>2. Outer \in Seq(Frame) /\ Len(Outer) > 0
      BY <3>1 DEF CallsOK, Rooted
    <3> QED
      BY <2>1, <2>3, <2>4, <3>2 DEF n
  <2>5. CASE rest = calls /\ rest # Outer
    BY <1>1, <2>5
  <2>6. calls # Outer
    BY <1>1, <2>3 DEF n
  <2> QED
    BY <2>4, <2>5, <2>6
<1> DEFINE m == Len(rest)
           f == [rest[m] EXCEPT !.got = Append(@, o.ref)]
<1>3. m \in 1..Len(calls) /\ rest[m] \in Frame /\ rest[m] = calls[m]
  BY <1>1, <1>2
<1>4. f.got = Append(rest[m].got, o.ref) /\ rest[m].got \in Seq(Nat) /\ f \in Frame
  BY <1>3, GotIsFrame DEF Frame
<1>5. calls' = [rest EXCEPT ![m] = f] /\ UNCHANGED << types, args >>
  BY DEF Yield
<1> HIDE DEF f, m
<1>6. /\ Len(calls') = Len(rest) /\ calls'[m] = f
      /\ \A i \in 1..Len(rest) : i # m => calls'[i] = rest[i]
  BY <1>2, <1>3, <1>4, <1>5 DEF m
<1>7. \A c \in 1..(m - 1) : calls'[c].got = calls[c].got
  BY <1>1, <1>2, <1>3, <1>6 DEF m
<1> QED
  BY <1>2, <1>3, <1>4, <1>5, <1>6, <1>7 DEF Handed, m

(* A new object: its parts, if any, were those of the call that made it.   *)
LEMMA NewApart ==
  ASSUME IInv, IInv', Owned, phase = "parse", NEW node \in Node,
         NEW m, Handed(m, Len(heap) + 1), heap' = Append(heap, node),
         node.parts = << >> \/ (node.parts = Top.got /\ m = Len(calls) - 1)
  PROVE  Owned'
<1>0. PICK new : new = Len(heap) + 1
  OBVIOUS
<1>1. /\ heap \in Seq(Node) /\ Len(heap) \in Nat /\ new \in Nat
      /\ Len(calls) \in Nat \ {0}
  BY <1>0 DEF IInv, ParserOK, StoreOK, CallsOK, Rooted
<1>2. /\ Len(heap') = new /\ heap'[new] = node
      /\ \A r \in 1..Len(heap) : heap'[r] = heap[r]
  BY <1>0, <1>1
<1>3. UNCHANGED << types, args >> /\ m \in 1..Len(calls) /\ Len(calls') = m
  BY DEF Handed
<1>4. ResultsOK'
  BY <1>0, <1>1, <1>2, <1>3 DEF Owned, ResultsOK
(* Of an old object.                                                       *)
<1>5. ASSUME NEW r, NEW w, NEW n, NEW i, Held(r, w, n, i)', r \in 1..Len(heap)
      PROVE  \/ Held(r, w, n, i) /\ (w = "call" => n \in 1..m)
             \/ /\ w = "object" /\ n = new /\ m = Len(calls) - 1
                /\ Held(r, "call", Len(calls), i)
  <2>1. CASE w = "object"
    <3>1. n \in 1..new /\ i \in 1..Len(heap'[n].parts) /\ heap'[n].parts[i] = r
      BY <1>2, <1>5, <2>1 DEF Held
    <3>2. CASE n = new
      <4>1. node.parts # << >>
        BY <1>2, <3>1, <3>2
      <4>2. i \in 1..Len(Top.got) /\ Top.got[i] = r /\ m = Len(calls) - 1
        BY <1>2, <3>1, <3>2, <4>1
      <4>3. Held(r, "call", Len(calls), i)
        BY <1>1, <4>2 DEF Held, Top
      <4> QED
        BY <2>1, <3>2, <4>2, <4>3
    <3>3. CASE n # new
      <4>1. n \in 1..Len(heap)
        BY <1>0, <1>1, <3>1, <3>3
      <4> QED
        BY <1>2, <2>1, <3>1, <4>1 DEF Held
    <3> QED
      BY <3>2, <3>3
  <2>2. CASE w # "object"
    <3>1. r # new
      BY <1>0, <1>1, <1>5
    <3> QED
      BY <1>0, <1>1, <1>5, <2>2, <3>1, HandedPlaces
  <2> QED
    BY <2>1, <2>2
(* Of the new one.                                                         *)
<1>6. ASSUME NEW w, NEW n, NEW i, Held(new, w, n, i)'
      PROVE  w = "call" /\ n = m /\ i = Len(calls[m].got) + 1
  <2>1. new \notin 1..Len(heap)
    BY <1>0, <1>1
  <2>2. ~Held(new, w, n, i)
    BY <2>1, HeldIsObject DEF Owned
  <2>3. w # "object"
    <3> SUFFICES ASSUME w = "object" PROVE FALSE
      OBVIOUS
    <3>1. n \in 1..Len(heap') /\ i \in 1..Len(heap'[n].parts) /\ heap'[n].parts[i] = new
      BY <1>6 DEF Held
    <3>2. heap'[n].parts[i] \in 1..(n - 1)
      BY <3>1 DEF IInv, ParserOK, StoreOK
    <3> QED
      BY <1>0, <1>1, <1>2, <3>1, <3>2
  <2> QED
    BY <1>0, <1>1, <1>6, <2>2, <2>3, HandedPlaces
<1>7. Apart'
  <2> SUFFICES ASSUME NEW r \in 1..Len(heap'), heap'[r].kind # "builtin",
                      NEW w1, NEW n1, NEW i1, Held(r, w1, n1, i1)',
                      NEW w2, NEW n2, NEW i2, Held(r, w2, n2, i2)'
               PROVE  w1 = w2 /\ n1 = n2 /\ i1 = i2
    BY DEF Apart
  <2>1. CASE r = new
    BY <1>6, <2>1
  <2>2. CASE r # new
    <3>1. r \in 1..Len(heap)
      BY <1>0, <1>1, <1>2, <2>2
    <3>2. heap[r].kind # "builtin"
      BY <1>2, <3>1
    <3>3. \A v1, p1, j1, v2, p2, j2 :
            Held(r, v1, p1, j1) /\ Held(r, v2, p2, j2) => v1 = v2 /\ p1 = p2 /\ j1 = j2
      BY <3>1, <3>2 DEF Owned, Apart
    <3>4. \A w, n, i : Held(r, w, n, i)' =>
            \/ Held(r, w, n, i) /\ (w = "call" => n \in 1..m)
            \/ /\ w = "object" /\ n = new /\ m = Len(calls) - 1
               /\ Held(r, "call", Len(calls), i)
      BY <1>5, <3>1
    <3>5. m = Len(calls) - 1 => Len(calls) \notin 1..m
      BY <1>1
    <3> QED
      BY <3>3, <3>4, <3>5
  <2> QED
    BY <2>1, <2>2
<1> QED
  BY <1>4, <1>7 DEF Owned

(* A builtin type that exists may be handed on to any place.               *)
LEMMA BuiltinApart ==
  ASSUME IInv, Owned, phase = "parse", NEW ref \in 1..Len(heap),
         heap[ref].kind = "builtin", NEW m, Handed(m, ref), UNCHANGED heap
  PROVE  Owned'
<1>1. ResultsOK' /\ ref \in Nat /\ Len(calls) \in Nat
  BY DEF Owned, ResultsOK, Handed, IInv, ParserOK, StoreOK, CallsOK
<1>2. \A r, w, n, i : Held(r, w, n, i)' /\ r # ref => Held(r, w, n, i)
  <2> SUFFICES ASSUME NEW r, NEW w, NEW n, NEW i, Held(r, w, n, i)', r # ref
               PROVE  Held(r, w, n, i)
    OBVIOUS
  <2>1. CASE w = "object"
    BY <2>1 DEF Held
  <2>2. CASE w # "object"
    BY <1>1, <2>2, HandedPlaces
  <2> QED
    BY <2>1, <2>2
<1>3. \A r \in 1..Len(heap) : heap[r].kind # "builtin" => r # ref
  OBVIOUS
<1>4. Apart'
  BY <1>2, <1>3 DEF Owned, Apart
<1> QED
  BY <1>1, <1>4 DEF Owned

(* Another type goes from the call that qualified it to the call before.   *)
LEMMA QualifiedApart ==
  ASSUME IInv, Owned, phase = "parse", Top.got # << >>, heap[Top.got[1]].kind # "builtin",
         NEW m, Handed(m, Top.got[1]), m = Len(calls) - 1, Len(heap') = Len(heap),
         \A r \in 1..Len(heap) : /\ heap'[r].kind = heap[r].kind
                                 /\ heap'[r].parts = heap[r].parts
  PROVE  Owned'
<1>0. PICK ref : ref = Top.got[1]
  OBVIOUS
<1>1. ref \in 1..Len(heap) /\ ref \in Nat /\ Len(calls) \in Nat \ {0}
      /\ 1 \in 1..Len(Top.got)
  <2>1. /\ Top.got \in Seq(Nat) /\ Len(calls) \in Nat \ {0}
        /\ \A i \in 1..Len(Top.got) : Top.got[i] \in 1..Len(heap)
    BY TopIsFrame DEF IInv
  <2>2. Len(heap) \in Nat
    BY DEF IInv, ParserOK, StoreOK
  <2> QED
    BY <1>0, <2>1, <2>2
<1>2. Held(ref, "call", Len(calls), 1)
  BY <1>0, <1>1 DEF Held, Top
<1>3. ResultsOK'
  BY DEF Owned, ResultsOK, Handed
<1>4. ASSUME NEW r, NEW w, NEW n, NEW i, Held(r, w, n, i)'
      PROVE  \/ Held(r, w, n, i) /\ (w = "call" => n \in 1..m)
             \/ w = "call" /\ n = m /\ i = Len(calls[m].got) + 1 /\ r = ref
  <2>1. CASE w = "object"
    BY <1>4, <2>1 DEF Held
  <2>2. CASE w # "object"
    BY <1>1, <1>4, <2>2, <1>0, HandedPlaces
  <2> QED
    BY <2>1, <2>2
<1>5. \A w, n, i : Held(ref, w, n, i) => w = "call" /\ n = Len(calls)
  BY <1>0, <1>1, <1>2 DEF Owned, Apart
<1>6. Len(calls) \notin 1..m
  BY <1>1
<1>7. \A w, n, i : Held(ref, w, n, i)' => w = "call" /\ n = m /\ i = Len(calls[m].got) + 1
  BY <1>4, <1>5, <1>6
<1>8. \A r, w, n, i : Held(r, w, n, i)' /\ r # ref => Held(r, w, n, i)
  BY <1>4
<1>9. Apart'
  <2> SUFFICES ASSUME NEW r \in 1..Len(heap), heap[r].kind # "builtin",
                      NEW w1, NEW n1, NEW i1, Held(r, w1, n1, i1)',
                      NEW w2, NEW n2, NEW i2, Held(r, w2, n2, i2)'
               PROVE  w1 = w2 /\ n1 = n2 /\ i1 = i2
    BY DEF Apart
  <2>1. CASE r = ref
    BY <1>7, <2>1
  <2>2. CASE r # ref
    BY <1>8, <2>2 DEF Owned, Apart
  <2> QED
    BY <2>1, <2>2
<1> QED
  BY <1>3, <1>9 DEF Owned

LEMMA BuiltinOwned ==
  ASSUME IInv, IInv', Owned, phase = "parse",
         NEW t \in Text, NEW c \in BOOLEAN, NEW v \in BOOLEAN,
         NEW rest, rest = calls \/ (rest = Outer /\ Top.kind \in Unary \cup {"F"}),
         Yield(get_builtin_type(t, c, v), rest)
  PROVE  Owned'
<1> DEFINE key == << t, c, v >>
           o   == get_builtin_type(t, c, v)
<1>1. key \in CacheKey
  BY DEF CacheKey
<1>2. BuiltinType(key) \in Node /\ BuiltinType(key).kind = "builtin"
      /\ BuiltinType(key).parts = << >>
  BY <1>1, BuiltinIsNode
<1>3. Len(heap) \in Nat
  BY DEF IInv, ParserOK, StoreOK
<1>4. heap' = o.heap
  BY DEF Yield
<1>5. CASE key \in DOMAIN cache
  <2>1. o = Keep(cache[key])
    BY <1>5 DEF get_builtin_type
  <2>2. o.ref = cache[key] /\ o.heap = heap
    BY <2>1 DEF Keep
  <2> HIDE DEF o
  <2>3. cache[key] \in 1..Len(heap) /\ heap[cache[key]].kind = "builtin"
    BY <1>2, <1>5 DEF IInv, ParserOK, StoreOK
  <2>4. o.ref \in Nat
    BY <1>3, <2>2, <2>3
  <2>5. Handed(Len(rest), o.ref)
    BY <2>4, YieldHands DEF o
  <2> QED
    BY <1>4, <2>2, <2>3, <2>5, BuiltinApart
<1>6. CASE key \notin DOMAIN cache
  <2>1. o.heap = Append(heap, BuiltinType(key)) /\ o.ref = Len(heap) + 1
    BY <1>6 DEF get_builtin_type, New
  <2> HIDE DEF o
  <2>2. o.ref \in Nat
    BY <1>3, <2>1
  <2>3. Handed(Len(rest), o.ref)
    BY <2>2, YieldHands DEF o
  <2> HIDE DEF key
  <2> QED
    BY <1>2, <1>4, <2>1, <2>3, NewApart
<1> QED
  BY <1>5, <1>6

LEMMA NewOwned ==
  ASSUME IInv, IInv', Owned, phase = "parse", NEW node \in Node,
         NEW rest, Yield(New(node), rest),
         \/ rest = calls /\ node.parts = << >>
         \/ /\ rest = Outer /\ Top.kind \in Unary \cup {"F"}
            /\ node.parts = << >> \/ node.parts = Top.got
  PROVE  Owned'
<1>1. New(node).heap = Append(heap, node) /\ New(node).ref = Len(heap) + 1
  BY DEF New
<1>2. Len(heap) + 1 \in Nat
  BY DEF IInv, ParserOK, StoreOK
<1>3. /\ Handed(Len(rest), Len(heap) + 1)
      /\ rest = Outer => Len(rest) = Len(calls) - 1
  BY <1>1, <1>2, YieldHands
<1>4. heap' = Append(heap, node)
  BY <1>1 DEF Yield
<1> QED
  BY <1>3, <1>4, NewApart

LEMMA QualifierOwned ==
  ASSUME IInv, IInv', Owned, phase = "parse", Top.kind \in {"K", "V"}, Top.got # << >>,
         Yield(SetQualifier(Top.kind, Top.got[1]), Outer)
  PROVE  Owned'
<1> DEFINE r == Top.got[1]
           x == heap[r]
<1>1. Top.kind \in Unary
  BY DEF Unary, Modifier
<1>2. r \in 1..Len(heap) /\ r \in Nat /\ heap \in Seq(Node) /\ Len(heap) \in Nat
  <2>1. /\ Top.got \in Seq(Nat)
        /\ \A i \in 1..Len(Top.got) : Top.got[i] \in 1..Len(heap)
    BY TopIsFrame DEF IInv
  <2>2. heap \in Seq(Node) /\ Len(heap) \in Nat
    BY DEF IInv, ParserOK, StoreOK
  <2> QED
    BY <2>1, <2>2
<1>3. x \in Node
  BY <1>2
<1>4. CASE x.kind = "builtin"
  <2>1. Len(x.text) = 1
    BY <1>2, <1>4 DEF IInv, ParserOK, StoreOK
  <2>2. x.text[1] \in Text /\ x.const \in BOOLEAN /\ x.volatile \in BOOLEAN
    BY <1>3, <2>1 DEF Node
  <2>3. CASE SetQualifier(Top.kind, r) = Keep(r)
    <3>1. Keep(r).ref = r /\ Keep(r).heap = heap
      BY DEF Keep
    <3>2. Yield(Keep(r), Outer) /\ heap' = heap
      BY <2>3, <3>1 DEF Yield
    <3>3. Handed(Len(Outer), r)
      <4> HIDE DEF r
      <4> QED
        BY <1>1, <1>2, <3>1, <3>2, YieldHands
    <3> QED
      BY <1>2, <1>4, <3>2, <3>3, BuiltinApart
  <2>4. CASE SetQualifier(Top.kind, r) = get_builtin_type(x.text[1], TRUE, x.volatile)
    BY <1>1, <2>2, <2>4, BuiltinOwned
  <2>5. CASE SetQualifier(Top.kind, r) = get_builtin_type(x.text[1], x.const, TRUE)
    BY <1>1, <2>2, <2>5, BuiltinOwned
  <2> QED
    BY <1>4, <2>3, <2>4, <2>5 DEF SetQualifier
<1>5. CASE x.kind # "builtin"
  <2> DEFINE y == IF Top.kind = "K" THEN [x EXCEPT !.const = TRUE]
                  ELSE [x EXCEPT !.volatile = TRUE]
             h == [heap EXCEPT ![r] = y]
  <2>1. y \in Node /\ y.kind = x.kind /\ y.parts = x.parts
    BY <1>3, QualifiedIsNode
  <2>2. SetQualifier(Top.kind, r) = [Keep(r) EXCEPT !.heap = h]
    BY <1>5 DEF SetQualifier
  <2> HIDE DEF y
  <2>3. /\ Len(h) = Len(heap)
        /\ \A p \in 1..Len(heap) : h[p].kind = heap[p].kind /\ h[p].parts = heap[p].parts
    BY <1>2, <2>1
  <2> HIDE DEF h
  <2>4. [Keep(r) EXCEPT !.heap = h].heap = h /\ [Keep(r) EXCEPT !.heap = h].ref = r
    BY DEF Keep
  <2>5. heap' = h
    BY <2>2, <2>4 DEF Yield
  <2>6. Handed(Len(Outer), r) /\ Len(Outer) = Len(calls) - 1
    <3> DEFINE o == SetQualifier(Top.kind, r)
    <3>1. o.ref = r /\ Yield(o, Outer)
      BY <2>2, <2>4
    <3> HIDE DEF o, r
    <3> QED
      BY <1>1, <1>2, <3>1, YieldHands
  <2> QED
    BY <1>5, <2>3, <2>5, <2>6, QualifiedApart
<1> QED
  BY <1>4, <1>5

LEMMA EnterOwned ==
  ASSUME IInv, Owned, phase = "parse", NEW f \in Frame, f.got = << >>,
         NEW next, Enter(f, next)
  PROVE  Owned'
<1>1. calls \in Seq(Frame) /\ Len(calls) \in Nat
  BY DEF IInv, ParserOK, CallsOK
<1>2. calls' = Append(calls, f) /\ UNCHANGED << heap, types, args >>
  BY DEF Enter
<1>3. /\ Len(calls') = Len(calls) + 1 /\ calls'[Len(calls) + 1] = f
      /\ \A i \in 1..Len(calls) : calls'[i] = calls[i]
  BY <1>1, <1>2
<1>4. ResultsOK'
  BY <1>2 DEF Owned, ResultsOK
<1>5. ASSUME NEW r, NEW w, NEW n, NEW i, Held(r, w, n, i)'
      PROVE  Held(r, w, n, i)
  <2>1. CASE w = "call"
    <3>1. n \in 1..(Len(calls) + 1) /\ i \in 1..Len(calls'[n].got) /\ calls'[n].got[i] = r
      BY <1>3, <1>5, <2>1 DEF Held
    <3>2. n # Len(calls) + 1
      BY <1>3, <3>1
    <3>3. n \in 1..Len(calls)
      BY <1>1, <3>1, <3>2
    <3> QED
      BY <1>3, <2>1, <3>1, <3>3 DEF Held
  <2>2. CASE w # "call"
    BY <1>2, <1>5, <2>2 DEF Held
  <2> QED
    BY <2>1, <2>2
<1> QED
  BY <1>2, <1>4, <1>5, FewerPlaces

(* The outermost call gives what it has got to one of the results, or to   *)
(* none, and is over: a call that follows has got nothing yet.             *)
LEMMA EndOwned ==
  ASSUME IInv, Owned, phase = "parse", UNCHANGED heap,
         calls' = << >> \/ \E k : calls' = << Call(k) >>,
         \/ types' = Top.got /\ args' = args
         \/ args' = Top.got /\ types' = types
         \/ UNCHANGED << types, args >>
  PROVE  Owned'
<1>1. /\ Len(calls) \in Nat \ {0} /\ Top.got \in Seq(Nat)
      /\ \A i \in 1..Len(Top.got) : Top.got[i] \in 1..Len(heap)
  BY TopIsFrame DEF IInv
<1>2. ResultsOK'
  BY <1>1 DEF Owned, ResultsOK
<1>3. \A r, n, i : ~Held(r, "call", n, i)'
  <2>1. CASE calls' = << >>
    BY <2>1 DEF Held
  <2>2. ASSUME NEW k, calls' = << Call(k) >>
        PROVE  \A r, n, i : ~Held(r, "call", n, i)'
    <3>1. Len(calls') = 1 /\ calls'[1].got = << >>
      BY <2>2 DEF Call
    <3> QED
      BY <3>1 DEF Held
  <2> QED
    BY <2>1, <2>2
<1>4. \A r, i : i \in 1..Len(Top.got) /\ Top.got[i] = r => Held(r, "call", Len(calls), i)
  BY <1>1 DEF Held, Top
<1>5. \A r, n, i : Held(r, "object", n, i)' => Held(r, "object", n, i)
  BY DEF Held
<1> DEFINE to == IF types' = Top.got /\ args' = args THEN "types" ELSE "arguments"
<1>6. \A r, w, n, i : Held(r, w, n, i)' =>
        /\ w # "call"
        /\ \/ Held(r, w, n, i)
           \/ w = to /\ n = 0 /\ Held(r, "call", Len(calls), i)
  <2> SUFFICES ASSUME NEW r, NEW w, NEW n, NEW i, Held(r, w, n, i)'
               PROVE  /\ w # "call"
                      /\ \/ Held(r, w, n, i)
                         \/ w = to /\ n = 0 /\ Held(r, "call", Len(calls), i)
    OBVIOUS
  <2>1. w # "call"
    BY <1>3
  <2>2. CASE w = "object"
    BY <1>5, <2>2
  <2>3. CASE w = "types" \/ w = "arguments"
    BY <1>4, <2>3 DEF Held
  <2> QED
    BY <2>1, <2>2, <2>3 DEF Held
<1> HIDE DEF to
<1>7. Apart'
  <2> SUFFICES ASSUME NEW r \in 1..Len(heap), heap[r].kind # "builtin",
                      NEW w1, NEW n1, NEW i1, Held(r, w1, n1, i1)',
                      NEW w2, NEW n2, NEW i2, Held(r, w2, n2, i2)'
               PROVE  w1 = w2 /\ n1 = n2 /\ i1 = i2
    BY DEF Apart
  <2>1. \A v1, p1, j1, v2, p2, j2 :
          Held(r, v1, p1, j1) /\ Held(r, v2, p2, j2) => v1 = v2 /\ p1 = p2 /\ j1 = j2
    BY DEF Owned, Apart
  <2> QED
    BY <1>6, <2>1
<1> QED
  BY <1>2, <1>7 DEF Owned

LEMMA ParseOwned ==
  ASSUME IInv, IInv', Owned, Parse
  PROVE  Owned'
<1>1. phase = "parse" /\ tokens \in Seq(Text) /\ at \in Nat \ {0} /\ << >> \in Seq(Nat)
  BY DEF Parse, IInv, ReaderOK, ParserOK
<1>2. /\ Top.size \in Seq(Text) /\ Top.got \in Seq(Nat)
      /\ Top.kind \in Unary \cup {"F"} \cup Goal
  BY <1>1, TopIsFrame DEF IInv
<1>3. CASE Raise
  BY <1>3 DEF Raise, parsing, Owned, Apart, ResultsOK, Held
<1>4. CASE at <= Len(tokens) /\ ParseBuiltin
  <2>1. Token \in Text
    BY <1>1, <1>4 DEF Token
  <2>2. Yield(get_builtin_type(Token, FALSE, FALSE), calls)
    BY <1>4 DEF ParseBuiltin
  <2> QED
    BY <1>1, <2>1, <2>2, BuiltinOwned
<1>5. CASE \E k \in Unary \cup {"F"} : \E next : Enter(Call(k), next)
  <2>1. PICK k \in Unary \cup {"F"} : \E next : Enter(Call(k), next)
    BY <1>5
  <2>2. Call(k) \in Frame /\ Call(k).got = << >>
    BY CallIsFrame
  <2> QED
    BY <1>1, <2>1, <2>2, EnterOwned
<1>6. CASE at <= Len(tokens) /\ ParseArray
  <2>1. CASE Raise \/ Enter(Call("A"), at + 1)
    BY <1>3, <1>5, <2>1 DEF Unary
  <2>2. CASE at # Len(tokens) /\ Enter([Call("A") EXCEPT !.size = << tokens[at + 1] >>], at + 2)
    <3> DEFINE f == [Call("A") EXCEPT !.size = << tokens[at + 1] >>]
    <3>1. at + 1 \in 1..Len(tokens)
      BY <1>1, <1>6, <2>2
    <3>2. << tokens[at + 1] >> \in Seq(Text)
      BY <1>1, <3>1
    <3>3. Call("A") \in Frame /\ Call("A").got = << >>
      BY CallIsFrame DEF Unary
    <3>4. f \in Frame /\ f.got = << >>
      BY <3>2, <3>3 DEF Frame
    <3> HIDE DEF f
    <3>5. Enter(f, at + 2)
      BY <2>2 DEF f
    <3> QED
      BY <1>1, <3>4, <3>5, EnterOwned
  <2> QED
    BY <1>6, <2>1, <2>2 DEF ParseArray
<1>7. CASE ParseRecord
  <2>1. CASE Raise
    BY <1>3, <2>1
  <2>2. ASSUME NEW j \in RecordEnd(at),
               Yield(New(Object("N", SubSeq(tokens, at, j), << >>)), calls)
        PROVE  Owned'
    <3> DEFINE node == Object("N", SubSeq(tokens, at, j), << >>)
    <3>1. j \in Int /\ j <= Len(tokens)
      <4>1. j \in (at + 1)..Len(tokens) /\ Len(tokens) \in Nat
        BY <1>1 DEF RecordEnd
      <4> QED
        BY <1>1, <4>1
    <3>2. SubSeq(tokens, at, j) \in Seq(Text)
      BY <1>1, <3>1, PartOfSeq
    <3>3. node \in Node /\ node.parts = << >>
      BY <1>1, <3>2 DEF Object, Node, NodeKind
    <3> HIDE DEF node
    <3>4. Yield(New(node), calls)
      BY <2>2 DEF node
    <3> QED
      BY <1>1, <3>3, <3>4, NewOwned
  <2> QED
    BY <1>7, <2>1, <2>2 DEF ParseRecord
<1>8. CASE Return
  <2>1. Top.kind \in Unary \ {"L"} /\ Top.got # << >>
    BY <1>8 DEF Return
  <2>2. CASE Top.kind \in {"K", "V"}
    <3>1. Yield(SetQualifier(Top.kind, Top.got[1]), Outer)
      BY <1>8, <2>2 DEF Return
    <3> QED
      BY <1>1, <2>1, <2>2, <3>1, QualifierOwned
  <2>3. CASE Top.kind \notin {"K", "V"}
    <3> DEFINE node == Object(Top.kind, Top.size, Top.got)
    <3>1. Top.kind \in NodeKind
      BY <2>1, <2>3 DEF Unary, Modifier, NodeKind
    <3>2. node \in Node /\ node.parts = Top.got
      BY <1>2, <3>1 DEF Object, Node
    <3>3. Yield(New(node), Outer)
      BY <1>8, <2>3 DEF Return
    <3> HIDE DEF node
    <3> QED
      BY <1>1, <2>1, <3>2, <3>3, NewOwned
  <2> QED
    BY <2>2, <2>3
<1>9. CASE ReturnFunction
  <2>1. CASE Raise
    BY <1>3, <2>1
  <2>2. CASE Yield(New(Object("F", << >>, Top.got)), Outer)
    <3> DEFINE node == Object("F", << >>, Top.got)
    <3>1. << >> \in Seq(Text) /\ Top.kind = "F"
      BY <1>9 DEF ReturnFunction
    <3>2. node \in Node /\ node.parts = Top.got
      BY <1>2, <3>1 DEF Object, Node, NodeKind
    <3>3. Yield(New(node), Outer)
      BY <2>2
    <3> HIDE DEF node
    <3> QED
      BY <1>1, <3>1, <3>2, <3>3, NewOwned
  <2> QED
    BY <1>9, <2>1, <2>2 DEF ReturnFunction
<1>10. CASE ReturnValue
  <2>1. CASE at > Len(tokens)
    BY <1>3, <1>10, <2>1 DEF ReturnValue
  <2>2. CASE ~(at > Len(tokens))
    <3> DEFINE value == IF IsDigits(Token) THEN << Token >> ELSE << >>
               node  == Object("L", value, << >>)
    <3>1. Token \in Text
      BY <1>1, <2>2 DEF Token
    <3>2. value \in Seq(Text)
      BY <3>1
    <3>3. Yield(New(node), Outer) /\ Top.kind = "L"
      BY <1>10, <2>2 DEF ReturnValue
    <3> HIDE DEF value
    <3>4. node \in Node /\ node.parts = << >>
      BY <1>1, <3>2 DEF Object, Node, NodeKind
    <3> HIDE DEF node
    <3> QED
      BY <1>1, <3>3, <3>4, NewOwned DEF Unary
  <2> QED
    BY <2>1, <2>2
<1>11. CASE EndArguments \/ EndConversion
  <2>1. /\ UNCHANGED heap
        /\ calls' = << >> \/ \E k : calls' = << Call(k) >>
        /\ (args' = Top.got /\ types' = types) \/ UNCHANGED << types, args >>
    BY <1>11 DEF EndArguments, EndConversion, ReadArguments, ReadParameters, Done
  <2> QED
    BY <1>1, <2>1, EndOwned
<1>12. CASE EndColumn
  BY <1>1, <1>12, EndOwned DEF EndColumn, Done
<1>13. ParseModifier \/ EnterValue => \E k \in Unary \cup {"F"} : \E next : Enter(Call(k), next)
  BY DEF ParseModifier, EnterValue, Unary
<1> QED
  BY <1>3, <1>4, <1>5, <1>6, <1>7, <1>8, <1>9, <1>10, <1>11, <1>12, <1>13
    DEF Parse, ParseType, ParseNothing

LEMMA SplitOwned ==
  ASSUME IInv, Owned, Split \/ SplitEnds \/ UNCHANGED vars
  PROVE  Owned'
<1>1. CASE UNCHANGED parsing
  BY <1>1 DEF parsing, Owned, Apart, ResultsOK, Held
<1>2. CASE UNCHANGED << heap, types, args >>
           /\ (calls' = << >> \/ \E k : calls' = << Call(k) >>)
  <2>1. ResultsOK'
    BY <1>2 DEF Owned, ResultsOK
  <2>2. \A n \in 1..Len(calls') : calls'[n].got = << >>
    <3>1. ASSUME NEW k, calls' = << Call(k) >>
          PROVE  \A n \in 1..Len(calls') : calls'[n].got = << >>
      <4>1. Len(calls') = 1 /\ calls'[1].got = << >>
        BY <3>1 DEF Call
      <4> QED
        BY <4>1
    <3> QED
      BY <1>2, <3>1
  <2>3. \A r, w, n, i : Held(r, w, n, i)' => Held(r, w, n, i)
    BY <1>2, <2>2 DEF Held
  <2> QED
    BY <1>2, <2>1, <2>3, FewerPlaces
<1>3. Split => UNCHANGED parsing
  BY DEF Split, TakeValue, TakeName, TakeOpening, TakeClosing, TakeConstructor,
         TakeDestructor, TakeOperator, TakeNullPtr, TakeLetter, TakeArray, TakeNothing,
         Take, Raise
<1>4. Raise \/ Unwrap => UNCHANGED parsing
  BY DEF Raise, Unwrap
<1>5. ReadType \/ ReadMember =>
        /\ UNCHANGED << heap, types, args >>
        /\ calls' = << >> \/ \E k : calls' = << Call(k) >>
  BY DEF ReadType, ReadMember, ReadArguments, ReadParameters, Done
<1> QED
  BY <1>1, <1>2, <1>3, <1>4, <1>5 DEF SplitEnds, vars

-----------------------------------------------------------------------------
(* Tokens, calls and objects stay well-formed, whatever the text and the   *)
(* way it is read: an index or a reference that is used is a valid one.    *)
THEOREM ParserTyped == Spec => []TypeOK
<1>1. IInv => TypeOK
  <2> SUFFICES ASSUME IInv PROVE TypeOK
    OBVIOUS
  <2>1. heap \in Seq(Node) /\ Len(heap) \in Nat /\ DOMAIN cache \subseteq CacheKey
        /\ \A k \in DOMAIN cache : cache[k] \in 1..Len(heap)
    BY DEF IInv, ParserOK, StoreOK
  <2>2. \A k \in DOMAIN cache : cache[k] \in Nat
    BY <2>1
  <2> QED
    BY <2>1, <2>2 DEF IInv, ReaderOK, ParserOK, CallsOK, TypeOK
<1> QED
  BY <1>1, Inductive, PTL

(* Of whichever types the qualifiers are set while a column is read, what  *)
(* the process-wide cache holds for a builtin type is that type.           *)
THEOREM CacheStaysHonest == Spec => []CacheHonest
<1>1. IInv => CacheHonest
  BY DEF IInv, ParserOK, StoreOK, CacheHonest
<1> QED
  BY <1>1, Inductive, PTL

(* For any text, no type contains itself.                                  *)
THEOREM PartsStayOlder == Spec => []PartsAreOlder
<1>1. IInv => PartsAreOlder
  <2> SUFFICES ASSUME IInv, NEW r \in DOMAIN heap, NEW i \in DOMAIN heap[r].parts
               PROVE  heap[r].parts[i] \in 1..(r - 1)
    BY DEF PartsAreOlder
  <2>1. heap \in Seq(Node) /\ r \in 1..Len(heap)
    BY DEF IInv, ParserOK, StoreOK
  <2>2. heap[r] \in Node
    BY <2>1
  <2>3. heap[r].parts \in Seq(Nat)
    BY <2>2 DEF Node
  <2>4. i \in 1..Len(heap[r].parts)
    BY <2>3
  <2> QED
    BY <2>1, <2>4 DEF IInv, ParserOK, StoreOK
<1> QED
  BY <1>1, Inductive, PTL

(* Whatever is read, setting a qualifier on a type that is not a builtin   *)
(* one reaches the only place that has it.                                 *)
THEOREM OnlyBuiltinIsShared == Spec => []OnlyBuiltinShared
<1>1. IInv /\ Owned => OnlyBuiltinShared
  <2> SUFFICES ASSUME IInv, Owned, NEW r \in DOMAIN heap, heap[r].kind # "builtin"
               PROVE  Cardinality(Holders(r)) <= 1
    BY DEF OnlyBuiltinShared
  <2>1. /\ heap \in Seq(Node) /\ calls \in Seq(Frame)
        /\ types \in Seq(Nat) /\ args \in Seq(Nat)
    BY DEF IInv, ParserOK, StoreOK, CallsOK
  <2>2. /\ DOMAIN heap = 1..Len(heap) /\ DOMAIN calls = 1..Len(calls)
        /\ DOMAIN types = 1..Len(types) /\ DOMAIN args = 1..Len(args)
    BY <2>1
  <2>3. \A o \in 1..Len(heap) : DOMAIN heap[o].parts = 1..Len(heap[o].parts)
    <3> TAKE o \in 1..Len(heap)
    <3>1. heap[o] \in Node
      BY <2>1
    <3> QED
      BY <3>1 DEF Node
  <2>4. \A c \in 1..Len(calls) : DOMAIN calls[c].got = 1..Len(calls[c].got)
    <3> TAKE c \in 1..Len(calls)
    <3>1. calls[c] \in Frame
      BY <2>1
    <3> QED
      BY <3>1 DEF Frame
  <2>5. \A p \in Holders(r) : \E w, n, i : p = << w, n, i >> /\ Held(r, w, n, i)
    <3> TAKE p \in Holders(r)
    <3> DEFINE Of(where, n, refs) ==
                 {<< where, n, i >> : i \in {i \in DOMAIN refs : refs[i] = r}}
           objects == {Of("object", n, heap[n].parts) : n \in DOMAIN heap}
           frames  == {Of("call", n, calls[n].got) : n \in DOMAIN calls}
    <3>0. Holders(r) = (UNION objects) \cup (UNION frames)
                       \cup Of("types", 0, types) \cup Of("arguments", 0, args)
      BY DEF Holders
    <3>1. \/ \E n \in DOMAIN heap : p \in Of("object", n, heap[n].parts)
          \/ \E n \in DOMAIN calls : p \in Of("call", n, calls[n].got)
          \/ p \in Of("types", 0, types)
          \/ p \in Of("arguments", 0, args)
      <4> HIDE DEF Of
      <4>1. \/ \E S \in objects : p \in S
            \/ \E S \in frames : p \in S
            \/ p \in Of("types", 0, types)
            \/ p \in Of("arguments", 0, args)
        <5> HIDE DEF objects, frames
        <5> QED
          BY <3>0
      <4> QED
        BY <4>1
    <3>2. \A where, n, refs : p \in Of(where, n, refs) =>
            \E i \in DOMAIN refs : refs[i] = r /\ p = << where, n, i >>
      OBVIOUS
    <3> HIDE DEF Of
    <3>3. CASE \E n \in DOMAIN heap : p \in Of("object", n, heap[n].parts)
      BY <2>2, <2>3, <3>2, <3>3 DEF Held
    <3>4. CASE \E n \in DOMAIN calls : p \in Of("call", n, calls[n].got)
      BY <2>2, <2>4, <3>2, <3>4 DEF Held
    <3>5. CASE p \in Of("types", 0, types) \/ p \in Of("arguments", 0, args)
      BY <2>2, <3>2, <3>5 DEF Held
    <3> QED
      BY <3>1, <3>3, <3>4, <3>5
  <2>6. \A p, q \in Holders(r) : p = q
    <3>1. r \in 1..Len(heap)
      BY <2>2
    <3> QED
      BY <2>5, <3>1 DEF Owned, Apart
  <2>7. Holders(r) = {} \/ \E p : Holders(r) = {p}
    BY <2>6
  <2> HIDE DEF Holders
  <2> QED
    BY <2>7, FS_EmptySet, FS_Singleton
<1>2. Init => Owned
  <2> SUFFICES ASSUME NEW c \in Columns, NEW known \in Cached, Start(c, known)
               PROVE  Owned
    BY DEF Init
  <2>1. known \in Seq(CacheKey) /\ calls = << >> /\ types = << >> /\ args = << >>
        /\ heap = [i \in DOMAIN known |-> BuiltinType(known[i])]
    BY CachedAssumption DEF Start
  <2>2. DOMAIN heap = 1..Len(heap)
        /\ \A r \in 1..Len(heap) : heap[r].parts = << >>
    BY <2>1 DEF BuiltinType
  <2>3. \A r, w, n, i : ~Held(r, w, n, i)
    BY <2>1, <2>2 DEF Held
  <2> QED
    BY <2>1, <2>3 DEF Owned, Apart, ResultsOK
<1>3. IInv /\ IInv' /\ Owned /\ [Next]_vars => Owned'
  BY ParseOwned, SplitOwned DEF Next
<1> QED
  BY <1>1, <1>2, <1>3, Inductive, NextPreserves, PTL DEF Spec

-----------------------------------------------------------------------------
(* Texts put together, one after the other.                                *)

(* Concatenation, where only what it is of matters.                        *)
Join(a, b) == a \o b

LEMMA Associative ==
  ASSUME NEW S, NEW a \in Seq(S), NEW b \in Seq(S), NEW c \in Seq(S)
  PROVE  Join(Join(a, b), c) = Join(a, Join(b, c))
BY ConcatAssociative DEF Join

FlattenAt(f, s, i) == IF i = 1 THEN s[i] ELSE Join(f[i - 1], s[i])

(* f is what FlattenSeq has put together after each member of s.           *)
Flattens(f, s) ==
  /\ f[0] = << >>
  /\ \A i \in 1..Len(s) : f[i] = Join(f[i - 1], s[i])

LEMMA FlattenFold ==
  ASSUME NEW S, NEW s \in Seq(Seq(S))
  PROVE  \E f \in [0..Len(s) -> Seq(S)] : Flattens(f, s) /\ FlattenSeq(s) = f[Len(s)]
<1> DEFINE X == Seq(S)
           g == [p \in Nat \X X |-> IF p[1] < Len(s) THEN p[2] \o s[p[1] + 1] ELSE p[2]]
<1>1. PICK n \in Nat : n = Len(s)
  OBVIOUS
<1>2. \A i \in 1..n : s[i] \in X
  BY <1>1
<1>3. g \in [Nat \X X -> X]
  <2>1. ASSUME NEW k \in Nat, NEW t \in X
        PROVE  (IF k < Len(s) THEN t \o s[k + 1] ELSE t) \in X
    <3>1. CASE k < Len(s)
      <4>1. s[k + 1] \in X
        BY <1>1, <1>2, <3>1
      <4> QED
        BY <3>1, <4>1, ConcatProperties
    <3> QED
      BY <3>1
  <2> QED
    BY <2>1
<1>4. << >> \in X
  OBVIOUS
<1> HIDE DEF g, X
<1>5. PICK F : Iterates(F, X, << >>, g)
  BY <1>3, <1>4, Iteration
<1>6. /\ F \in [Nat -> X] /\ F[0] = << >>
      /\ \A k \in Nat : F[k + 1] = g[<< k, F[k] >>]
  BY <1>5 DEF Iterates
<1>7. ASSUME NEW i \in 1..n PROVE F[i] = Join(F[i - 1], s[i])
  <2>1. PICK k \in Nat : k = i - 1
    OBVIOUS
  <2>2. << k, F[k] >> \in Nat \X X /\ k < Len(s) /\ k + 1 = i
    BY <1>1, <1>6, <2>1
  <2>3. g[<< k, F[k] >>] = Join(F[k], s[k + 1])
    BY <2>2 DEF g, Join
  <2> QED
    BY <1>6, <2>1, <2>2, <2>3
<1> DEFINE f == [i \in 0..n |-> F[i]]
<1>8. f \in [0..n -> X] /\ f[0] = << >>
  BY <1>6
<1>9. \A i \in 1..n : f[i] = Join(f[i - 1], s[i])
  BY <1>7
<1>10. FlattenSeq(s) = F[n]
  <2>1. CASE n = 0
    <3>1. s = << >> /\ Len(s) = 0
      BY <1>1, <2>1, EmptySeq
    <3> QED
      BY <1>6, <2>1, <3>1 DEF FlattenSeq
  <2>2. CASE n # 0
    <3> DEFINE h == [i \in 1..n |-> F[i]]
    <3>1. h = [i \in 1..n |-> FlattenAt(h, s, i)]
      <4>1. ASSUME NEW i \in 1..n PROVE F[i] = FlattenAt(h, s, i)
        <5>1. CASE i = 1
          <6>1. s[1] \in Seq(S)
            BY <1>2, <5>1 DEF X
          <6>2. F[1] = Join(F[1 - 1], s[1]) /\ << >> \o s[1] = s[1]
            BY <1>7, <5>1, <6>1, ConcatEmptySeq
          <6>3. Join(F[1 - 1], s[1]) = s[1]
            <7>1. F[1 - 1] = << >>
              BY <1>6
            <7> QED
              BY <6>2, <7>1 DEF Join
          <6> QED
            BY <5>1, <6>2, <6>3 DEF FlattenAt
        <5>2. CASE i # 1
          <6>1. i - 1 \in 1..n
            BY <5>2
          <6>2. h[i - 1] = F[i - 1]
            BY <6>1
          <6> QED
            BY <1>7, <5>2, <6>2 DEF FlattenAt
        <5> QED
          BY <5>1, <5>2
      <4> QED
        BY <4>1
    <3>2. \A i \in 1..n : h[i] = F[i]
      OBVIOUS
    <3> HIDE DEF h
    <3>3. PICK c : c = CHOOSE e : e = [i \in 1..n |-> FlattenAt(e, s, i)]
      OBVIOUS
    <3>4. c = [i \in 1..n |-> FlattenAt(c, s, i)]
      BY <3>1, <3>3, Zenon
    <3>5. \A i \in 1..n : c[i] = FlattenAt(c, s, i)
      <4>1. \A i \in 1..n : [j \in 1..n |-> FlattenAt(c, s, j)][i] = FlattenAt(c, s, i)
        OBVIOUS
      <4> QED
        BY <3>4, <4>1, Zenon
    <3>6. FlattenSeq(s) = c[n]
      BY <1>1, <2>2, <3>3 DEF FlattenSeq, FlattenAt, Join
    <3> DEFINE T == {k \in Nat : k + 1 \in 1..n => c[k + 1] = F[k + 1]}
    <3>7. 0 \in T
      <4>1. 0 + 1 = 1 /\ 1 \in 1..n
        BY <2>2
      <4>2. c[1] = s[1] /\ h[1] = s[1]
        <5>1. h[1] = FlattenAt(h, s, 1)
          <6>1. \A i \in 1..n : [j \in 1..n |-> FlattenAt(h, s, j)][i] = FlattenAt(h, s, i)
            OBVIOUS
          <6> QED
            BY <3>1, <4>1, <6>1, Zenon
        <5> QED
          BY <3>5, <4>1, <5>1 DEF FlattenAt
      <4> QED
        BY <3>2, <4>1, <4>2
    <3>8. ASSUME NEW k \in Nat, k \in T PROVE k + 1 \in T
      <4> SUFFICES ASSUME k + 1 + 1 \in 1..n PROVE c[k + 1 + 1] = F[k + 1 + 1]
        OBVIOUS
      <4>1. k + 1 \in 1..n /\ k + 1 + 1 # 1 /\ k + 1 + 1 - 1 = k + 1
        OBVIOUS
      <4>2. c[k + 1 + 1] = Join(c[k + 1], s[k + 1 + 1])
        BY <3>5, <4>1 DEF FlattenAt
      <4>3. F[k + 1 + 1] = Join(F[k + 1], s[k + 1 + 1])
        BY <1>7, <4>1
      <4> QED
        BY <3>8, <4>1, <4>2, <4>3
    <3>9. Nat \subseteq T
      <4> HIDE DEF T
      <4> QED
        BY <3>7, <3>8, InductionOnNat
    <3>10. n - 1 \in T /\ n - 1 + 1 = n /\ n \in 1..n
      BY <2>2, <3>9
    <3> QED
      BY <3>6, <3>10
  <2> QED
    BY <2>1, <2>2
<1>11. f[n] = F[n]
  OBVIOUS
<1> HIDE DEF f
<1> QED
  BY <1>1, <1>8, <1>9, <1>10, <1>11 DEF Flattens, X

LEMMA FlattenIs ==
  ASSUME NEW S, NEW s \in Seq(Seq(S)), NEW f, Flattens(f, s)
  PROVE  FlattenSeq(s) = f[Len(s)] /\ FlattenSeq(s) \in Seq(S)
<1>1. PICK n \in Nat : n = Len(s)
  OBVIOUS
<1>2. PICK e \in [0..Len(s) -> Seq(S)] : Flattens(e, s) /\ FlattenSeq(s) = e[Len(s)]
  BY FlattenFold
<1> DEFINE T == {k \in Nat : k \in 0..n => e[k] = f[k]}
<1>3. 0 \in T
  BY <1>2 DEF Flattens
<1>4. ASSUME NEW k \in Nat, k \in T PROVE k + 1 \in T
  <2> SUFFICES ASSUME k + 1 \in 0..n PROVE e[k + 1] = f[k + 1]
    OBVIOUS
  <2>1. k \in 0..n /\ k + 1 \in 1..Len(s) /\ k + 1 - 1 = k
    BY <1>1
  <2> QED
    BY <1>2, <1>4, <2>1 DEF Flattens
<1>5. Nat \subseteq T
  <2> HIDE DEF T
  <2> QED
    BY <1>3, <1>4, InductionOnNat
<1>6. n \in T /\ n \in 0..n
  BY <1>5
<1> QED
  BY <1>1, <1>2, <1>6

LEMMA FlattenTyped ==
  ASSUME NEW S, NEW s \in Seq(Seq(S))
  PROVE  FlattenSeq(s) \in Seq(S)
<1>1. PICK f \in [0..Len(s) -> Seq(S)] : Flattens(f, s) /\ FlattenSeq(s) = f[Len(s)]
  BY FlattenFold
<1> QED
  BY <1>1, FlattenIs

LEMMA FlattenEmpty == FlattenSeq(<< >>) = << >>
BY DEF FlattenSeq

LEMMA FlattenAppend ==
  ASSUME NEW S, NEW s \in Seq(Seq(S)), NEW x \in Seq(S)
  PROVE  FlattenSeq(Append(s, x)) = FlattenSeq(s) \o x
<1>1. PICK t : t = Append(s, x)
  OBVIOUS
<1>n. PICK n \in Nat : n = Len(s)
  OBVIOUS
<1>2. /\ t \in Seq(Seq(S)) /\ Len(t) = n + 1 /\ t[n + 1] = x
      /\ \A i \in 1..n : t[i] = s[i]
  BY <1>1, <1>n, AppendProperties
<1>3. PICK f \in [0..Len(t) -> Seq(S)] : Flattens(f, t) /\ FlattenSeq(t) = f[Len(t)]
  BY <1>2, FlattenFold
<1>4. f[0] = << >> /\ \A i \in 1..(n + 1) : f[i] = Join(f[i - 1], t[i])
  BY <1>2, <1>3 DEF Flattens
<1>5. \A i \in 1..n : f[i] = Join(f[i - 1], s[i])
  BY <1>2, <1>4
<1>6. Flattens(f, s)
  BY <1>n, <1>4, <1>5 DEF Flattens
<1>7. FlattenSeq(s) = f[n]
  BY <1>n, <1>6, FlattenIs
<1>8. f[n + 1] = Join(f[n], x)
  <2>1. n + 1 \in 1..(n + 1) /\ n + 1 - 1 = n
    OBVIOUS
  <2> QED
    BY <1>2, <1>4, <2>1
<1> QED
  BY <1>1, <1>2, <1>3, <1>7, <1>8 DEF Join

LEMMA FlattenOne ==
  ASSUME NEW S, NEW x \in Seq(S)
  PROVE  FlattenSeq(<< x >>) = x
<1>1. << >> \in Seq(Seq(S)) /\ Append(<< >>, x) = << x >>
  OBVIOUS
<1>2. FlattenSeq(<< x >>) = << >> \o x
  BY <1>1, FlattenAppend, FlattenEmpty
<1> QED
  BY <1>2, ConcatEmptySeq

LEMMA FlattenConcat ==
  ASSUME NEW S, NEW s \in Seq(Seq(S)), NEW t \in Seq(Seq(S))
  PROVE  FlattenSeq(s \o t) = FlattenSeq(s) \o FlattenSeq(t)
<1>1. PICK u : u = s \o t
  OBVIOUS
<1>n. PICK m \in Nat, n \in Nat : m = Len(s) /\ n = Len(t)
  OBVIOUS
<1>2. /\ u \in Seq(Seq(S)) /\ Len(u) = m + n
      /\ \A i \in 1..(m + n) : u[i] = IF i <= m THEN s[i] ELSE t[i - m]
  BY <1>1, <1>n, ConcatProperties
<1>3. PICK f \in [0..Len(u) -> Seq(S)] : Flattens(f, u) /\ FlattenSeq(u) = f[Len(u)]
  BY <1>2, FlattenFold
<1>4. PICK e \in [0..Len(t) -> Seq(S)] : Flattens(e, t) /\ FlattenSeq(t) = e[Len(t)]
  BY FlattenFold
<1>5. /\ f \in [0..(m + n) -> Seq(S)] /\ f[0] = << >>
      /\ \A i \in 1..(m + n) : f[i] = Join(f[i - 1], u[i])
  BY <1>2, <1>3 DEF Flattens
<1>6. e \in [0..n -> Seq(S)] /\ e[0] = << >> /\ \A i \in 1..n : e[i] = Join(e[i - 1], t[i])
  BY <1>n, <1>4 DEF Flattens
<1>7. FlattenSeq(s) = f[m] /\ f[m] \in Seq(S)
  <2>1. ASSUME NEW i \in 1..m PROVE f[i] = Join(f[i - 1], s[i])
    <3>1. i \in 1..(m + n) /\ i <= m
      OBVIOUS
    <3> QED
      BY <1>2, <1>5, <3>1
  <2>2. Flattens(f, s)
    BY <1>n, <1>5, <2>1 DEF Flattens
  <2> QED
    BY <1>n, <2>2, FlattenIs
<1>8. PICK q : q = [k \in 0..n |-> f[m + k]]
  OBVIOUS
<1>9. q[0] = f[m] /\ q[n] = f[m + n]
  BY <1>8
<1>10. ASSUME NEW k \in Nat, k + 1 \in 0..n
       PROVE  q[k + 1] = Join(q[k], t[k + 1])
  <2>1. PICK i : i = m + (k + 1)
    OBVIOUS
  <2>2. i \in 1..(m + n) /\ ~(i <= m) /\ i - m = k + 1 /\ i - 1 = m + k
    BY <1>10, <2>1
  <2>3. q[k] = f[i - 1] /\ q[k + 1] = f[i]
    BY <1>8, <1>10, <2>1, <2>2
  <2>4. u[i] = t[k + 1]
    BY <1>2, <2>2
  <2> QED
    BY <1>5, <2>2, <2>3, <2>4
<1> DEFINE T == {k \in Nat : k \in 0..n => q[k] = Join(f[m], e[k])}
<1>11. 0 \in T
  <2>1. f[m] \o << >> = f[m]
    BY <1>7, ConcatEmptySeq
  <2> QED
    BY <1>6, <1>9, <2>1 DEF Join
<1>12. ASSUME NEW k \in Nat, k \in T PROVE k + 1 \in T
  <2> SUFFICES ASSUME k + 1 \in 0..n PROVE q[k + 1] = Join(f[m], e[k + 1])
    OBVIOUS
  <2>1. k \in 0..n /\ k + 1 \in 1..n /\ k + 1 - 1 = k
    OBVIOUS
  <2>a. q[k + 1] = Join(q[k], t[k + 1])
    BY <1>10
  <2>b. e[k + 1] = Join(e[k + 1 - 1], t[k + 1])
    BY <1>6, <2>1
  <2>2. q[k + 1] = Join(q[k], t[k + 1]) /\ e[k + 1] = Join(e[k], t[k + 1])
    BY <2>1, <2>a, <2>b
  <2>3. e[k] \in Seq(S) /\ t[k + 1] \in Seq(S)
    BY <1>n, <1>6, <2>1, ElementOfSeq
  <2>4. Join(Join(f[m], e[k]), t[k + 1]) = Join(f[m], Join(e[k], t[k + 1]))
    BY <1>7, <2>3, Associative
  <2> QED
    BY <1>12, <2>1, <2>2, <2>4
<1>13. Nat \subseteq T
  <2> HIDE DEF T
  <2> QED
    BY <1>11, <1>12, InductionOnNat
<1>14. q[n] = Join(f[m], e[n])
  BY <1>13
<1> QED
  BY <1>1, <1>n, <1>2, <1>3, <1>4, <1>7, <1>9, <1>14 DEF Join

-----------------------------------------------------------------------------
(* Numbers and their digits.                                               *)

LastDigit(n) == DigitSeq[(n % 10) + 1]

(* Decimal10 of n, when f is Decimal10 of smaller numbers.                 *)
DecimalFrom(f, n) == (IF n < 10 THEN << >> ELSE f[n \div 10]) \o << LastDigit(n) >>

LEMMA Tenths ==
  ASSUME NEW n \in Nat
  PROVE  /\ n % 10 \in 0..9 /\ n \div 10 \in Nat /\ n = 10 * (n \div 10) + (n % 10)
         /\ n >= 10 => n \div 10 < n /\ n \div 10 # 0
         /\ n < 10 => n % 10 = n
OBVIOUS

LEMMA DigitsTyped ==
  /\ \A i \in 1..10 : DigitSeq[i] \in Digit
  /\ \A n \in Nat : LastDigit(n) \in Digit
  /\ \A f \in [Nat -> Seq(Digit)] : \A n \in Nat : DecimalFrom(f, n) \in Seq(Digit)
<1>1. \A i \in 1..10 : DigitSeq[i] \in Digit
  BY DEF Digit
<1>2. ASSUME NEW n \in Nat PROVE LastDigit(n) \in Digit
  <2>1. (n % 10) + 1 \in 1..10
    BY Tenths
  <2> QED
    BY <1>1, <2>1 DEF LastDigit
<1>3. ASSUME NEW f \in [Nat -> Seq(Digit)], NEW n \in Nat
      PROVE  DecimalFrom(f, n) \in Seq(Digit)
  <2>1. PICK a : a = IF n < 10 THEN << >> ELSE f[n \div 10]
    OBVIOUS
  <2>2. a \in Seq(Digit) /\ << LastDigit(n) >> \in Seq(Digit)
    BY <1>2, <2>1, Tenths
  <2>3. a \o << LastDigit(n) >> \in Seq(Digit)
    BY <2>2, ConcatProperties
  <2> QED
    BY <2>1, <2>3 DEF DecimalFrom
<1> QED
  BY <1>1, <1>2, <1>3

LEMMA DecimalStep ==
  /\ Decimal10 \in [Nat -> Seq(Digit)]
  /\ \A n \in Nat : Decimal10[n] = DecimalFrom(Decimal10, n)
<1> DEFINE X == [Nat -> Seq(Digit)]
           x0 == [n \in Nat |-> << >>]
           g == [p \in Nat \X X |-> [n \in Nat |-> DecimalFrom(p[2], n)]]
<1>1. x0 \in X
  OBVIOUS
<1>2. g \in [Nat \X X -> X]
  BY DigitsTyped
<1>3. \A k \in Nat, f \in X : g[<< k, f >>] = [n \in Nat |-> DecimalFrom(f, n)]
  OBVIOUS
<1> HIDE DEF x0, g
<1>4. PICK F : Iterates(F, X, x0, g)
  <2> HIDE DEF X
  <2> QED
    BY <1>1, <1>2, Iteration
<1>5. F \in [Nat -> X] /\ \A k \in Nat : F[k + 1] = [n \in Nat |-> DecimalFrom(F[k], n)]
  <2>1. F \in [Nat -> X] /\ \A k \in Nat : F[k + 1] = g[<< k, F[k] >>]
    BY <1>4 DEF Iterates
  <2> HIDE DEF X
  <2> QED
    BY <1>3, <2>1
<1>6. \A k, n \in Nat : F[k + 1][n] = DecimalFrom(F[k], n)
  BY <1>5
<1> DEFINE T == {k \in Nat : \A n \in Nat : n < k => F[k + 1][n] = F[k][n]}
<1>7. 0 \in T
  OBVIOUS
<1>8. ASSUME NEW k \in Nat, k \in T PROVE k + 1 \in T
  <2> SUFFICES ASSUME NEW n \in Nat, n < k + 1 PROVE F[k + 1 + 1][n] = F[k + 1][n]
    OBVIOUS
  <2>1. F[k + 1 + 1][n] = DecimalFrom(F[k + 1], n) /\ F[k + 1][n] = DecimalFrom(F[k], n)
    BY <1>6
  <2>2. n < 10 \/ F[k + 1][n \div 10] = F[k][n \div 10]
    BY <1>8, Tenths
  <2> QED
    BY <2>1, <2>2 DEF DecimalFrom
<1>9. Nat \subseteq T
  <2> HIDE DEF T
  <2> QED
    BY <1>7, <1>8, InductionOnNat
<1> HIDE DEF T
<1>10. ASSUME NEW n \in Nat, NEW j \in Nat PROVE F[n + 1 + j][n] = F[n + 1][n]
  <2> DEFINE U == {i \in Nat : F[n + 1 + i][n] = F[n + 1][n]}
  <2>1. 0 \in U
    OBVIOUS
  <2>2. ASSUME NEW i \in Nat, i \in U PROVE i + 1 \in U
    <3>1. PICK k \in Nat : k = n + 1 + i
      OBVIOUS
    <3>2. k \in T /\ n < k /\ n + 1 + (i + 1) = k + 1
      BY <1>9, <3>1
    <3>3. F[k + 1][n] = F[k][n]
      BY <3>2 DEF T
    <3> QED
      BY <2>2, <3>1, <3>2, <3>3
  <2>3. Nat \subseteq U
    <3> HIDE DEF U
    <3> QED
      BY <2>1, <2>2, InductionOnNat
  <2> QED
    BY <2>3
<1> DEFINE f == [n \in Nat |-> F[n + 1][n]]
<1>11. f = [n \in Nat |-> DecimalFrom(f, n)]
  <2>1. ASSUME NEW n \in Nat PROVE F[n + 1][n] = DecimalFrom(f, n)
    <3>1. F[n + 1][n] = DecimalFrom(F[n], n)
      BY <1>6
    <3>2. n < 10 \/ F[n][n \div 10] = f[n \div 10]
      <4> SUFFICES ASSUME n >= 10 PROVE F[n][n \div 10] = f[n \div 10]
        OBVIOUS
      <4>1. PICK m \in Nat : m = n \div 10
        BY Tenths
      <4>2. m < n
        BY <4>1, Tenths
      <4>3. PICK j \in Nat : j = n - (m + 1)
        BY <4>2
      <4>4. m + 1 + j = n
        BY <4>3
      <4>5. F[n][m] = F[m + 1][m]
        BY <1>10, <4>4
      <4> QED
        BY <4>1, <4>5
    <3> HIDE DEF f
    <3> QED
      BY <3>1, <3>2 DEF DecimalFrom
  <2> QED
    BY <2>1
<1>12. f \in X
  BY <1>5
<1> HIDE DEF f, X
<1>13. PICK d : d = CHOOSE e : e = [n \in Nat |-> DecimalFrom(e, n)]
  OBVIOUS
<1>14. d = [n \in Nat |-> DecimalFrom(d, n)]
  BY <1>11, <1>13, Zenon
<1>15. \A n \in Nat : d[n] = DecimalFrom(d, n)
  <2>1. \A n \in Nat : [k \in Nat |-> DecimalFrom(d, k)][n] = DecimalFrom(d, n)
    OBVIOUS
  <2> QED
    BY <1>14, <2>1, Zenon
<1>16. Decimal10 = d
  BY <1>13 DEF Decimal10, DecimalFrom, LastDigit
<1>17. \A n \in Nat : d[n] \in Seq(Digit)
  <2> DEFINE U == {k \in Nat : \A n \in Nat : n < k => d[n] \in Seq(Digit)}
  <2>1. 0 \in U
    OBVIOUS
  <2>2. ASSUME NEW k \in Nat, k \in U PROVE k + 1 \in U
    <3> SUFFICES ASSUME NEW n \in Nat, n < k + 1 PROVE d[n] \in Seq(Digit)
      OBVIOUS
    <3>1. PICK a : a = IF n < 10 THEN << >> ELSE d[n \div 10]
      OBVIOUS
    <3>2. a \in Seq(Digit) /\ << LastDigit(n) >> \in Seq(Digit)
      BY <2>2, <3>1, Tenths, DigitsTyped
    <3>3. a \o << LastDigit(n) >> \in Seq(Digit)
      BY <3>2, ConcatProperties
    <3> QED
      BY <1>15, <3>1, <3>3 DEF DecimalFrom
  <2>3. Nat \subseteq U
    <3> HIDE DEF U
    <3> QED
      BY <2>1, <2>2, InductionOnNat
  <2> TAKE n \in Nat
  <2>4. n + 1 \in U
    <3> HIDE DEF U
    <3> QED
      BY <2>3
  <2> QED
    BY <2>4
<1>18. d \in [Nat -> Seq(Digit)]
  <2>1. [n \in Nat |-> DecimalFrom(d, n)] \in [Nat -> Seq(Digit)]
    <3>1. \A n \in Nat : DecimalFrom(d, n) \in Seq(Digit)
      BY <1>15, <1>17
    <3> QED
      BY <3>1
  <2> QED
    BY <1>14, <2>1, Zenon
<1> QED
  BY <1>15, <1>16, <1>18

(* f is what Number has read after each digit.                             *)
Value(d) == (CHOOSE i \in 1..10 : DigitSeq[i] = d) - 1
Ten(a, d) == 10 * a + Value(d)
Reads(f, digits) ==
  /\ f[0] = 0
  /\ \A i \in 1..Len(digits) : f[i] = Ten(f[i - 1], digits[i])

LEMMA DigitValue ==
  /\ \A d \in Digit : Value(d) \in 0..9
  /\ \A n \in Nat : Value(LastDigit(n)) = n % 10
<1>1. \A i, j \in 1..10 : DigitSeq[i] = DigitSeq[j] => i = j
  BY DEF DigitSeq
<1>2. ASSUME NEW j \in 1..10 PROVE Value(DigitSeq[j]) = j - 1
  <2>1. (CHOOSE i \in 1..10 : DigitSeq[i] = DigitSeq[j]) = j
    BY <1>1
  <2> QED
    BY <2>1 DEF Value
<1>3. \A d \in Digit : \E j \in 1..10 : d = DigitSeq[j]
  BY DEF Digit
<1>4. \A n \in Nat : (n % 10) + 1 \in 1..10
  BY Tenths
<1>5. \A d \in Digit : Value(d) \in 0..9
  <2> TAKE d \in Digit
  <2>1. PICK j \in 1..10 : d = DigitSeq[j]
    BY <1>3
  <2>2. Value(d) = j - 1
    BY <1>2, <2>1
  <2> QED
    BY <2>2
<1>6. \A n \in Nat : Value(LastDigit(n)) = n % 10
  <2> TAKE n \in Nat
  <2>1. PICK j \in 1..10 : j = (n % 10) + 1
    BY <1>4
  <2>2. Value(DigitSeq[j]) = j - 1 /\ n % 10 \in Nat
    BY <1>2, Tenths
  <2> QED
    BY <2>1, <2>2 DEF LastDigit
<1> QED
  BY <1>5, <1>6

LEMMA NumberFold ==
  ASSUME NEW s \in Seq(Digit)
  PROVE  \E f \in [0..Len(s) -> Nat] : Reads(f, s) /\ Number(s) = f[Len(s)]
<1> DEFINE g == [p \in Nat \X Nat |-> IF p[1] < Len(s) THEN Ten(p[2], s[p[1] + 1]) ELSE p[2]]
<1>1. PICK n \in Nat : n = Len(s)
  OBVIOUS
<1>2. \A a \in Nat, d \in Digit : Ten(a, d) \in Nat
  BY DigitValue DEF Ten
<1>3. g \in [Nat \X Nat -> Nat]
  <2>1. ASSUME NEW k \in Nat, NEW a \in Nat
        PROVE  (IF k < Len(s) THEN Ten(a, s[k + 1]) ELSE a) \in Nat
    <3>1. CASE k < Len(s)
      <4>1. k + 1 \in 1..n
        BY <1>1, <3>1
      <4>2. s[k + 1] \in Digit
        BY <1>1, <4>1
      <4> QED
        BY <1>2, <3>1, <4>2
    <3> QED
      BY <3>1
  <2> QED
    BY <2>1
<1>4. 0 \in Nat
  OBVIOUS
<1> HIDE DEF g
<1>5. PICK F : Iterates(F, Nat, 0, g)
  BY <1>3, <1>4, Iteration
<1>6. F \in [Nat -> Nat] /\ F[0] = 0 /\ \A k \in Nat : F[k + 1] = g[<< k, F[k] >>]
  BY <1>5 DEF Iterates
<1>7. ASSUME NEW i \in 1..n PROVE F[i] = Ten(F[i - 1], s[i])
  <2>1. PICK k \in Nat : k = i - 1
    OBVIOUS
  <2>a. k < Len(s) /\ k + 1 = i
    BY <1>1, <2>1
  <2>2. << k, F[k] >> \in Nat \X Nat /\ k < Len(s) /\ k + 1 = i
    <3>1. F[k] \in Nat
      BY <1>6
    <3> QED
      BY <2>a, <3>1
  <2>3. g[<< k, F[k] >>] = Ten(F[k], s[k + 1])
    BY <2>2 DEF g
  <2> QED
    BY <1>6, <2>1, <2>2, <2>3
<1> DEFINE f == [i \in 0..n |-> F[i]]
           From(e, i) == IF i = 0 THEN 0 ELSE Ten(e[i - 1], s[i])
<1>8. f \in [0..n -> Nat] /\ f[0] = 0 /\ f[n] = F[n]
  BY <1>6
<1>9. \A i \in 1..n : f[i] = Ten(f[i - 1], s[i])
  BY <1>7
<1>10. f = [i \in 0..n |-> From(f, i)]
  <2>1. \A i \in 0..n : F[i] = From(f, i)
    BY <1>6, <1>7
  <2> QED
    BY <2>1
<1> HIDE DEF f
<1>11. PICK c : c = CHOOSE e : e = [i \in 0..n |-> From(e, i)]
  OBVIOUS
<1>12. c = [i \in 0..n |-> From(c, i)]
  BY <1>10, <1>11, Zenon
<1>13. \A i \in 0..n : c[i] = From(c, i)
  <2>1. \A i \in 0..n : [j \in 0..n |-> From(c, j)][i] = From(c, i)
    OBVIOUS
  <2> HIDE DEF From
  <2> QED
    BY <1>12, <2>1, Zenon
<1>14. Number(s) = c[n]
  BY <1>1, <1>11 DEF Number, Ten, Value
<1> DEFINE T == {k \in Nat : k \in 0..n => c[k] = f[k]}
<1>15. 0 \in T
  BY <1>8, <1>13
<1>16. ASSUME NEW k \in Nat, k \in T PROVE k + 1 \in T
  <2> SUFFICES ASSUME k + 1 \in 0..n PROVE c[k + 1] = f[k + 1]
    OBVIOUS
  <2>1. k \in 0..n /\ k + 1 \in 1..n /\ k + 1 - 1 = k /\ k + 1 # 0
    OBVIOUS
  <2> QED
    BY <1>9, <1>13, <1>16, <2>1
<1>17. Nat \subseteq T
  <2> HIDE DEF T
  <2> QED
    BY <1>15, <1>16, InductionOnNat
<1>18. c[n] = f[n]
  BY <1>17
<1> QED
  BY <1>1, <1>8, <1>9, <1>14, <1>18 DEF Reads

LEMMA NumberAppend ==
  ASSUME NEW s \in Seq(Digit), NEW d \in Digit
  PROVE  Number(s) \in Nat /\ Number(Append(s, d)) = Ten(Number(s), d)
<1>1. PICK t : t = Append(s, d)
  OBVIOUS
<1>2. PICK n \in Nat : n = Len(s)
  OBVIOUS
<1>3. /\ t \in Seq(Digit) /\ Len(t) = n + 1 /\ t[n + 1] = d
      /\ \A i \in 1..n : t[i] = s[i]
  BY <1>1, <1>2, AppendProperties
<1>4. PICK f \in [0..Len(s) -> Nat] : Reads(f, s) /\ Number(s) = f[Len(s)]
  BY NumberFold
<1>5. PICK e \in [0..Len(t) -> Nat] : Reads(e, t) /\ Number(t) = e[Len(t)]
  BY <1>3, NumberFold
<1>6. f[0] = 0 /\ \A i \in 1..n : f[i] = Ten(f[i - 1], s[i])
  BY <1>2, <1>4 DEF Reads
<1>7. e[0] = 0 /\ \A i \in 1..(n + 1) : e[i] = Ten(e[i - 1], t[i])
  BY <1>3, <1>5 DEF Reads
<1> DEFINE T == {k \in Nat : k \in 0..n => e[k] = f[k]}
<1>8. 0 \in T
  BY <1>6, <1>7
<1>9. ASSUME NEW k \in Nat, k \in T PROVE k + 1 \in T
  <2> SUFFICES ASSUME k + 1 \in 0..n PROVE e[k + 1] = f[k + 1]
    OBVIOUS
  <2>1. k \in 0..n /\ k + 1 \in 1..n /\ k + 1 - 1 = k /\ k + 1 \in 1..(n + 1)
    OBVIOUS
  <2>2. e[k + 1] = Ten(e[k + 1 - 1], t[k + 1]) /\ f[k + 1] = Ten(f[k + 1 - 1], s[k + 1])
    BY <1>6, <1>7, <2>1
  <2>3. t[k + 1] = s[k + 1] /\ e[k] = f[k]
    BY <1>3, <1>9, <2>1
  <2> QED
    BY <2>1, <2>2, <2>3
<1>10. Nat \subseteq T
  <2> HIDE DEF T
  <2> QED
    BY <1>8, <1>9, InductionOnNat
<1>11. e[n] = f[n]
  BY <1>10
<1>12. e[n + 1] = Ten(e[n], d)
  <2>1. n + 1 \in 1..(n + 1) /\ n + 1 - 1 = n
    OBVIOUS
  <2> QED
    BY <1>3, <1>7, <2>1
<1>13. f[Len(s)] \in Nat
  BY <1>2, <1>4
<1> QED
  BY <1>1, <1>2, <1>3, <1>4, <1>5, <1>11, <1>12, <1>13

(* std::to_string and int() go together, and only 0 begins with 0.         *)
LEMMA NumberOfDecimal ==
  ASSUME NEW n \in Nat
  PROVE  /\ Decimal10[n] \in Seq(Digit) /\ Len(Decimal10[n]) \in Nat \ {0}
         /\ Number(Decimal10[n]) = n
         /\ n = 0 => Decimal10[n] = << "0" >>
         /\ n # 0 => Decimal10[n][1] # "0"
<1> DEFINE Good(k) ==
             /\ Len(Decimal10[k]) \in Nat \ {0} /\ Number(Decimal10[k]) = k
             /\ k # 0 => Decimal10[k][1] # "0"
           T == {k \in Nat : \A m \in Nat : m < k => Good(m)}
<1>1. \A k \in Nat : Decimal10[k] \in Seq(Digit)
  BY DecimalStep
<1>a. \A k \in 1..9 : DigitSeq[k + 1] # "0"
  BY DEF DigitSeq
<1>2. 0 \in T
  OBVIOUS
<1>3. ASSUME NEW k \in Nat, k \in T PROVE k + 1 \in T
  <2> SUFFICES ASSUME NEW m \in Nat, m < k + 1 PROVE Good(m)
    OBVIOUS
  <2>1. Decimal10[m] = DecimalFrom(Decimal10, m) /\ LastDigit(m) \in Digit
    BY DecimalStep, DigitsTyped
  <2>2. CASE m < 10
    <3>1. Decimal10[m] = << >> \o << LastDigit(m) >>
      BY <2>1, <2>2 DEF DecimalFrom
    <3>2. << >> \o << LastDigit(m) >> = << LastDigit(m) >>
      OBVIOUS
    <3>3. Decimal10[m] = Append(<< >>, LastDigit(m)) /\ << >> \in Seq(Digit)
      BY <3>1, <3>2
    <3>4. Number(Decimal10[m]) = Ten(Number(<< >>), LastDigit(m))
      BY <2>1, <3>3, NumberAppend
    <3>5. Number(<< >>) = 0
      <4>1. << >> \in Seq(Digit) /\ Len(<< >>) = 0
        OBVIOUS
      <4>2. PICK f \in [0..0 -> Nat] : Reads(f, << >>) /\ Number(<< >>) = f[0]
        BY <4>1, NumberFold
      <4> QED
        BY <4>2 DEF Reads
    <3>6. Value(LastDigit(m)) = m
      BY <2>2, DigitValue, Tenths
    <3>7. m # 0 => LastDigit(m) # "0"
      <4>1. m % 10 = m
        BY <2>2, Tenths
      <4> QED
        BY <1>a, <2>2, <4>1 DEF LastDigit
    <3> QED
      BY <3>1, <3>2, <3>4, <3>5, <3>6, <3>7 DEF Ten
  <2>3. CASE ~(m < 10)
    <3>1. PICK q : q = m \div 10
      OBVIOUS
    <3>2. q \in Nat /\ q < m /\ q # 0 /\ m = 10 * q + (m % 10)
      BY <2>3, <3>1, Tenths
    <3>3. Good(q)
      BY <1>3, <3>2
    <3>4. PICK a : a = Decimal10[q]
      OBVIOUS
    <3>5. a \in Seq(Digit) /\ Len(a) \in Nat \ {0}
      BY <1>1, <3>2, <3>3, <3>4
    <3>6. Decimal10[m] = a \o << LastDigit(m) >>
      BY <2>1, <2>3, <3>1, <3>4 DEF DecimalFrom
    <3>7. Decimal10[m] = Append(a, LastDigit(m))
      BY <2>1, <3>5, <3>6, AppendIsConcat
    <3>8. Number(Decimal10[m]) = Ten(q, LastDigit(m))
      BY <2>1, <3>3, <3>4, <3>5, <3>7, NumberAppend
    <3>9. Ten(q, LastDigit(m)) = m
      BY <3>2, DigitValue DEF Ten
    <3>10. Len(Decimal10[m]) = Len(a) + 1 /\ Decimal10[m][1] = a[1]
      BY <2>1, <3>5, <3>7, AppendProperties
    <3> QED
      BY <3>2, <3>3, <3>4, <3>5, <3>8, <3>9, <3>10
  <2> QED
    BY <2>2, <2>3
<1>4. Nat \subseteq T
  <2> HIDE DEF T
  <2> QED
    BY <1>2, <1>3, InductionOnNat
<1>5. Good(n)
  <2>1. n + 1 \in T
    <3> HIDE DEF T
    <3> QED
      BY <1>4
  <2> QED
    BY <2>1
<1>6. n = 0 => Decimal10[n] = << "0" >>
  <2>1. Decimal10[0] = DecimalFrom(Decimal10, 0)
    BY DecimalStep
  <2>2. 0 % 10 = 0 /\ DigitSeq[0 + 1] = "0"
    BY DEF DigitSeq
  <2> QED
    BY <2>1, <2>2 DEF DecimalFrom, LastDigit
<1> QED
  BY <1>1, <1>5, <1>6

-----------------------------------------------------------------------------
(* MangleType, a recursive function on types and arguments, is what its    *)
(* definition says: by induction on how deep they are.                     *)

LEMMA TypeCases ==
  ASSUME NEW q \in QualType
  PROVE  /\ q.const \in BOOLEAN /\ q.volatile \in BOOLEAN /\ "kind" \notin DOMAIN q
         /\ q = [const |-> q.const, volatile |-> q.volatile, type |-> q.type]
         /\ q.type.kind \in {"builtin", "unknown", "pointer", "member pointer", "rvalue",
               "reference", "sugar", "record", "template", "parameter", "array", "function"}
         /\ q.type.kind = "builtin" => q.type.letter \in BuiltinLetter
         /\ q.type.kind \in {"pointer", "member pointer", "rvalue", "reference", "sugar", "array"}
              => q.type.of \in QualType
         /\ q.type.kind = "array" =>
              q.type.size \in Seq(Length) /\ Len(q.type.size) <= 1
         /\ q.type.kind = "record" => q.type.path \in Seq(Level)
         /\ q.type.kind = "template" =>
              q.type.name \in Name /\ q.type.list \in Seq(TypeParm \cup ValueParm)
         /\ q.type.kind = "parameter" => q.type \in TypeParm
         /\ q.type.kind = "function" =>
              /\ q.type.result \in QualType /\ q.type.params \in Seq(QualType)
              /\ q.type.variadic \in BOOLEAN
<1>1. q \in [const: BOOLEAN, volatile: BOOLEAN, type: Type]
  BY TypeAssumption
<1>2. q.const \in BOOLEAN /\ q.volatile \in BOOLEAN /\ q.type \in Type
      /\ q = [const |-> q.const, volatile |-> q.volatile, type |-> q.type]
  BY <1>1
<1>3. "kind" \notin DOMAIN q
  <2>1. DOMAIN q = {"const", "volatile", "type"}
    BY <1>1
  <2> QED
    BY <2>1
<1> DEFINE t == q.type
<1>4. \/ t \in [kind: {"builtin"}, letter: BuiltinLetter]
      \/ t \in [kind: {"unknown"}]
      \/ t \in [kind: {"pointer", "member pointer", "rvalue", "reference", "sugar"}, of: QualType]
      \/ t \in [kind: {"record"}, path: Seq(Level)]
      \/ t \in [kind: {"template"}, name: Name, list: Seq(TypeParm \cup ValueParm)]
      \/ t \in TypeParm
      \/ t \in [kind: {"array"}, size: {s \in Seq(Length) : Len(s) <= 1}, of: QualType]
      \/ t \in [kind: {"function"}, result: QualType, params: Seq(QualType), variadic: BOOLEAN]
  BY <1>2 DEF Type
<1>5. t \in TypeParm => t.kind = "parameter"
  BY DEF TypeParm
<1> HIDE DEF t
<1>6. /\ t.kind \in {"builtin", "unknown", "pointer", "member pointer", "rvalue",
               "reference", "sugar", "record", "template", "parameter", "array", "function"}
      /\ t.kind = "builtin" => t.letter \in BuiltinLetter
      /\ t.kind \in {"pointer", "member pointer", "rvalue", "reference", "sugar", "array"}
           => t.of \in QualType
      /\ t.kind = "array" => t.size \in Seq(Length) /\ Len(t.size) <= 1
      /\ t.kind = "record" => t.path \in Seq(Level)
      /\ t.kind = "template" => t.name \in Name /\ t.list \in Seq(TypeParm \cup ValueParm)
      /\ t.kind = "parameter" => t \in TypeParm
      /\ t.kind = "function" =>
           /\ t.result \in QualType /\ t.params \in Seq(QualType) /\ t.variadic \in BOOLEAN
  <2>1. CASE t \in [kind: {"builtin"}, letter: BuiltinLetter]
    BY <2>1
  <2>2. CASE t \in [kind: {"unknown"}]
    BY <2>2
  <2>3. CASE t \in [kind: {"pointer", "member pointer", "rvalue", "reference", "sugar"}, of: QualType]
    BY <2>3
  <2>4. CASE t \in [kind: {"record"}, path: Seq(Level)]
    BY <2>4
  <2>5. CASE t \in [kind: {"template"}, name: Name, list: Seq(TypeParm \cup ValueParm)]
    BY <2>5
  <2>6. CASE t \in TypeParm
    BY <1>5, <2>6
  <2>7. CASE t \in [kind: {"array"}, size: {s \in Seq(Length) : Len(s) <= 1}, of: QualType]
    BY <2>7
  <2>8. CASE t \in [kind: {"function"}, result: QualType, params: Seq(QualType), variadic: BOOLEAN]
    BY <2>8
  <2> QED
    BY <1>4, <2>1, <2>2, <2>3, <2>4, <2>5, <2>6, <2>7, <2>8
<1> QED
  BY <1>2, <1>3, <1>6 DEF t

(* The number that a value is written as.                                  *)
LEMMA UnsignedTyped ==
  ASSUME NEW a, a.value \in Int, a.range \in Nat \ {0}
  PROVE  Unsigned(a) \in Nat
<1>1. \A v \in Int : \A n \in Nat \ {0} : v % n \in Nat
  OBVIOUS
<1> QED
  BY <1>1 DEF Unsigned

LEMMA ArgumentCases ==
  ASSUME NEW a \in Argument
  PROVE  /\ "kind" \in DOMAIN a
         /\ a.kind \in {"null", "type", "nullptr", "value", "pack"}
         /\ a.kind = "type" => a.of \in QualType
         /\ a.kind = "value" => Unsigned(a) \in Nat
         /\ a.kind = "pack" => a.args \in Seq(Argument)
<1>1. \/ a \in [kind: {"null", "nullptr"}]
      \/ a \in [kind: {"type"}, of: QualType]
      \/ a \in [kind: {"value"}, value: Int, range: Nat \ {0}]
      \/ a \in [kind: {"pack"}, args: Seq(Argument)]
  BY TypeAssumption
<1>2. "kind" \in DOMAIN a
  <2>1. \/ DOMAIN a = {"kind"}
        \/ DOMAIN a = {"kind", "of"}
        \/ DOMAIN a = {"kind", "value", "range"}
        \/ DOMAIN a = {"kind", "args"}
    BY <1>1
  <2> QED
    BY <2>1
<1>3. a.kind = "value" => a.value \in Int /\ a.range \in Nat \ {0}
  BY <1>1
<1>4. a.kind = "value" => Unsigned(a) \in Nat
  BY <1>3, UnsignedTyped
<1> QED
  BY <1>1, <1>2, <1>4

(* What types and arguments are made of is shallower.                      *)
LEMMA PartsShallower ==
  ASSUME NEW x \in Term
  PROVE  /\ Depth[x] \in 0..MaxDepth
         /\ \A y \in Parts(x) : y \in Term /\ Depth[y] < Depth[x]
BY DepthAssumption

LEMMA TypeParts ==
  ASSUME NEW q \in QualType
  PROVE  /\ q.type.kind \in {"pointer", "member pointer", "rvalue", "reference", "sugar", "array"}
              => q.type.of \in Parts(q)
         /\ q.type.kind = "record" =>
              \A i \in DOMAIN q.type.path : \A j \in DOMAIN q.type.path[i].args :
                q.type.path[i].args[j] \in Parts(q)
         /\ q.type.kind = "template" =>
              \A i \in DOMAIN q.type.list :
                q.type.list[i].kind = "value" => q.type.list[i].of \in Parts(q)
         /\ q.type.kind = "function" =>
              /\ q.type.result \in Parts(q)
              /\ \A i \in DOMAIN q.type.params : q.type.params[i] \in Parts(q)
<1>1. "kind" \notin DOMAIN q
  BY TypeCases
<1> DEFINE t == q.type
<1>2. CASE t.kind \in {"pointer", "member pointer", "rvalue", "reference", "sugar", "array"}
  BY <1>1, <1>2 DEF Parts
<1>3. CASE t.kind = "record"
  <2>1. Parts(q) = UNION {ToSet(t.path[i].args) : i \in DOMAIN t.path}
    BY <1>1, <1>3 DEF Parts
  <2> QED
    BY <1>3, <2>1 DEF ToSet
<1>4. CASE t.kind = "template"
  <2>1. Parts(q) = {t.list[i].of : i \in {i \in DOMAIN t.list : t.list[i].kind = "value"}}
    BY <1>1, <1>4 DEF Parts
  <2> QED
    BY <1>4, <2>1
<1>5. CASE t.kind = "function"
  <2>1. Parts(q) = {t.result} \cup ToSet(t.params)
    BY <1>1, <1>5 DEF Parts
  <2> QED
    BY <1>5, <2>1 DEF ToSet
<1> QED
  BY <1>2, <1>3, <1>4, <1>5

LEMMA ArgumentParts ==
  ASSUME NEW a \in Argument
  PROVE  /\ a.kind = "type" => a.of \in Parts(a)
         /\ a.kind = "pack" => \A j \in DOMAIN a.args : a.args[j] \in Parts(a)
<1>1. "kind" \in DOMAIN a
  BY ArgumentCases
<1> QED
  BY <1>1 DEF Parts, ToSet

Upto(n) == {x \in Term : Depth[x] < n}

LEMMA UptoMax == MaxDepth + 1 \in Nat /\ Upto(MaxDepth + 1) = Term
<1>1. MaxDepth \in Nat /\ \A x \in Term : Depth[x] \in 0..MaxDepth
  BY DepthAssumption
<1> QED
  BY <1>1 DEF Upto

LEMMA UptoParts ==
  ASSUME NEW n \in Nat, NEW x \in Upto(n + 1), NEW y \in Parts(x)
  PROVE  y \in Upto(n)
<1>1. x \in Term /\ Depth[x] < n + 1 /\ Depth[x] \in Nat
  BY PartsShallower DEF Upto
<1>2. y \in Term /\ Depth[y] < Depth[x] /\ Depth[y] \in Nat
  BY <1>1, PartsShallower
<1> QED
  BY <1>1, <1>2 DEF Upto

LEMMA UptoGrows ==
  ASSUME NEW n \in Nat
  PROVE  Upto(n) \subseteq Upto(n + 1)
<1> SUFFICES ASSUME NEW y \in Upto(n) PROVE y \in Upto(n + 1)
  OBVIOUS
<1>1. y \in Term /\ Depth[y] < n /\ Depth[y] \in 0..MaxDepth /\ MaxDepth \in Nat
  BY DepthAssumption DEF Upto
<1> QED
  BY <1>1 DEF Upto

LEMMA TermCases ==
  ASSUME NEW x \in Term
  PROVE  /\ x \in QualType \/ x \in Argument
         /\ x \in QualType <=> "kind" \notin DOMAIN x
         /\ x \in Argument <=> "kind" \in DOMAIN x
BY TypeCases, ArgumentCases DEF Term

LEMMA UptoEmpty == Upto(0) = {}
BY PartsShallower DEF Upto

-----------------------------------------------------------------------------
(* MangleType.                                                             *)
MangleStep(M, x) ==
  IF "kind" \in DOMAIN x THEN MangleTemplateArgument(M, x)
  ELSE Qualifiers(x) \o MangleTypePtr(M, x.type)

LEMMA MangleLocal ==
  ASSUME NEW M, NEW W, NEW x \in Term, \A y \in Parts(x) : M[y] = W[y]
  PROVE  MangleStep(M, x) = MangleStep(W, x)
<1>1. CASE x \in Argument
  <2>0. "kind" \in DOMAIN x
    BY <1>1, TermCases
  <2>1. CASE x.kind = "type"
    BY <1>1, <2>0, <2>1, ArgumentParts DEF MangleStep, MangleTemplateArgument
  <2>2. CASE x.kind = "pack"
    <3>1. \A j \in DOMAIN x.args : M[x.args[j]] = W[x.args[j]]
      BY <1>1, <2>2, ArgumentParts
    <3>2. [j \in DOMAIN x.args |-> M[x.args[j]]] = [j \in DOMAIN x.args |-> W[x.args[j]]]
      BY <3>1
    <3>3. MangleTemplateArgumentList(M, x.args) = MangleTemplateArgumentList(W, x.args)
      BY <3>2 DEF MangleTemplateArgumentList
    <3> QED
      BY <1>1, <2>0, <2>2, <3>3 DEF MangleStep, MangleTemplateArgument
  <2>3. CASE x.kind \in {"null", "nullptr", "value"}
    BY <1>1, <2>0, <2>3 DEF MangleStep, MangleTemplateArgument
  <2> QED
    BY <1>1, <2>1, <2>2, <2>3, ArgumentCases
<1>2. CASE x \in QualType
  <2> DEFINE t == x.type
  <2>1. SUFFICES MangleTypePtr(M, t) = MangleTypePtr(W, t)
    BY <1>2, TermCases DEF MangleStep
  <2>2. CASE t.kind \in {"pointer", "member pointer", "rvalue", "reference", "sugar", "array"}
    <3>1. M[t.of] = W[t.of]
      BY <1>2, <2>2, TypeParts
    <3> QED
      BY <2>2, <3>1 DEF MangleTypePtr
  <2>3. CASE t.kind = "record"
    <3>1. ASSUME NEW i \in DOMAIN t.path
          PROVE  EncodeRecordDecl(M, t.path[i]) = EncodeRecordDecl(W, t.path[i])
      <4>1. \A j \in DOMAIN t.path[i].args : M[t.path[i].args[j]] = W[t.path[i].args[j]]
        BY <1>2, <2>3, TypeParts
      <4>2. [j \in DOMAIN t.path[i].args |-> M[t.path[i].args[j]]]
              = [j \in DOMAIN t.path[i].args |-> W[t.path[i].args[j]]]
        BY <4>1
      <4> QED
        BY <4>2 DEF EncodeRecordDecl, MangleTemplateArgumentList
    <3>2. [i \in DOMAIN t.path |-> EncodeRecordDecl(M, t.path[i])]
            = [i \in DOMAIN t.path |-> EncodeRecordDecl(W, t.path[i])]
      BY <3>1
    <3>3. MangleRecordDecl(M, t.path) = MangleRecordDecl(W, t.path)
      BY <3>2 DEF MangleRecordDecl
    <3> QED
      BY <2>3, <3>3 DEF MangleTypePtr
  <2>4. CASE t.kind = "template"
    <3>1. ASSUME NEW i \in DOMAIN t.list
          PROVE  MangleTemplateParm(M, t.list[i]) = MangleTemplateParm(W, t.list[i])
      <4>1. CASE t.list[i].kind = "parameter"
        BY <4>1 DEF MangleTemplateParm
      <4>2. CASE t.list[i].kind # "parameter"
        <5>a. t.list \in Seq(TypeParm \cup ValueParm)
          BY <1>2, <2>4, TypeCases
        <5>1. t.list[i] \in TypeParm \cup ValueParm
          BY <5>a
        <5>2. t.list[i].kind = "value"
          BY <4>2, <5>1 DEF TypeParm, ValueParm
        <5>3. M[t.list[i].of] = W[t.list[i].of]
          BY <1>2, <2>4, <5>2, TypeParts
        <5> QED
          BY <4>2, <5>3 DEF MangleTemplateParm
      <4> QED
        BY <4>1, <4>2
    <3>2. [i \in DOMAIN t.list |-> MangleTemplateParm(M, t.list[i])]
            = [i \in DOMAIN t.list |-> MangleTemplateParm(W, t.list[i])]
      BY <3>1
    <3>3. MangleTemplateParameterList(M, t.list) = MangleTemplateParameterList(W, t.list)
      BY <3>2 DEF MangleTemplateParameterList
    <3> QED
      BY <2>4, <3>3 DEF MangleTypePtr
  <2>5. CASE t.kind = "function"
    <3>1. M[t.result] = W[t.result] /\ \A i \in DOMAIN t.params : M[t.params[i]] = W[t.params[i]]
      BY <1>2, <2>5, TypeParts
    <3>2. [i \in DOMAIN t.params |-> M[t.params[i]]] = [i \in DOMAIN t.params |-> W[t.params[i]]]
      BY <3>1
    <3>3. MangleFunctionParmList(M, t) = MangleFunctionParmList(W, t)
      BY <3>2 DEF MangleFunctionParmList
    <3> QED
      BY <2>5, <3>1, <3>3 DEF MangleTypePtr
  <2>6. CASE t.kind \in {"builtin", "unknown", "parameter"}
    BY <2>6 DEF MangleTypePtr
  <2> QED
    BY <1>2, <2>2, <2>3, <2>4, <2>5, <2>6, TypeCases
<1> QED
  BY <1>1, <1>2, TermCases

LEMMA MangleEquation ==
  \A x \in Term : MangleType[x] = MangleStep(MangleType, x)
<1> DEFINE Sol(h, n) == h = [x \in Upto(n) |-> MangleStep(h, x)]
           S == {n \in Nat : \E h : Sol(h, n)}
<1>1. 0 \in S
  <2>1. \A h : [x \in {} |-> MangleStep(h, x)] = << >>
    OBVIOUS
  <2>2. Sol(<< >>, 0)
    BY <2>1, UptoEmpty
  <2> QED
    BY <2>2
<1>2. ASSUME NEW n \in Nat, n \in S PROVE n + 1 \in S
  <2>1. PICK h : Sol(h, n)
    BY <1>2
  <2>2. PICK e : e = [x \in Upto(n + 1) |-> MangleStep(h, x)]
    OBVIOUS
  <2>3. ASSUME NEW x \in Upto(n + 1) PROVE e[x] = MangleStep(e, x)
    <3>1. ASSUME NEW y \in Parts(x) PROVE h[y] = e[y]
      <4>1. y \in Upto(n) /\ y \in Upto(n + 1)
        BY UptoParts, UptoGrows
      <4>2. e[y] = MangleStep(h, y)
        BY <2>2, <4>1
      <4>3. [z \in Upto(n) |-> MangleStep(h, z)][y] = MangleStep(h, y)
        BY <4>1
      <4>4. h[y] = MangleStep(h, y)
        BY <2>1, <4>3, Zenon
      <4> QED
        BY <4>2, <4>4
    <3>2. e[x] = MangleStep(h, x) /\ x \in Term
      BY <2>2 DEF Upto
    <3> QED
      BY <3>1, <3>2, MangleLocal
  <2>4. e = [x \in Upto(n + 1) |-> MangleStep(e, x)]
    <3>1. e = [x \in Upto(n + 1) |-> e[x]]
      BY <2>2
    <3> QED
      BY <2>3, <3>1
  <2> QED
    BY <2>4
<1>3. MaxDepth + 1 \in S
  <2> HIDE DEF S
  <2> QED
    BY <1>1, <1>2, InductionOnNat, UptoMax
<1>4. PICK h : h = [x \in Term |-> MangleStep(h, x)]
  BY <1>3, UptoMax
<1>5. MangleType = CHOOSE e : e = [x \in Term |-> MangleStep(e, x)]
  BY DEF MangleType, MangleStep
<1>6. MangleType = [x \in Term |-> MangleStep(MangleType, x)]
  BY <1>4, <1>5, Zenon
<1> QED
  <2> TAKE x \in Term
  <2>1. [y \in Term |-> MangleStep(MangleType, y)][x] = MangleStep(MangleType, x)
    OBVIOUS
  <2> QED
    BY <1>6, <2>1, Zenon

-----------------------------------------------------------------------------
(* The pieces of a text, as the tokenizer goes through them.  d counts the *)
(* brackets that are open, and m says what comes next: "out" of a value,   *)
(* in a "value" its type, then its "number", then the "close"; an "array"  *)
(* has its length or the underscore next, and then its "size".  A list of  *)
(* pieces is balanced if it is gone through from "out" to "out", and back  *)
(* to the same depth.                                                      *)

Mode    == {"out", "value", "number", "close", "array", "size"}
Single  == {<< c >> : c \in Builtin \cup Modifier} \cup {NullPtr}
Named   == {Decimal10[Len(t)] \o t : t \in Name}

Move(a, k, p, b, l) ==
  \/ k = "out" /\ l = "out" /\ p \in {<< "N" >>, << "I" >>, << "F" >>} /\ b = a + 1
  \/ k = "out" /\ l = "out" /\ p = << "E" >> /\ a = b + 1
  \/ k = "out" /\ l = "out" /\ p \in Single \cup Named /\ b = a
  \/ k = "out" /\ l = "value" /\ p = << "L" >> /\ b = a + 1
  \/ k = "value" /\ l = "number" /\ p = << "i" >> /\ b = a
  \/ k = "number" /\ l = "close" /\ p \in Numeral /\ b = a
  \/ k = "close" /\ l = "out" /\ p = << "E" >> /\ a = b + 1
  \/ k = "out" /\ l = "array" /\ p = << "A" >> /\ b = a
  \/ k = "array" /\ l = "size" /\ p \in Length /\ b = a
  \/ k \in {"array", "size"} /\ l = "out" /\ p = << Underscore >> /\ b = a

(* A name without letters, whose length is not followed by a digit.        *)
Meets(p, q) == p = << "0" >> => q[1] \notin Digit

Words == Text \ {<< >>}

Run(P, d, m) ==
  /\ d \in [0..Len(P) -> Nat] /\ m \in [0..Len(P) -> Mode]
  /\ d[0] = 0 /\ d[Len(P)] = 0 /\ m[0] = "out" /\ m[Len(P)] = "out"
  /\ \A i \in 1..Len(P) : Move(d[i - 1], m[i - 1], P[i], d[i], m[i])
  /\ \A i \in 1..Len(P) : i < Len(P) => Meets(P[i], P[i + 1])

Balanced(P) == P \in Seq(Words) /\ \E d, m : Run(P, d, m)

LEMMA BalancedEmpty == Balanced(<< >>)
<1> DEFINE d == [i \in 0..0 |-> 0]
           m == [i \in 0..0 |-> "out"]
<1>1. Len(<< >>) = 0 /\ 1..0 = {}
  OBVIOUS
<1>2. Run(<< >>, d, m)
  BY <1>1 DEF Run, Mode
<1> QED
  BY <1>2 DEF Balanced

LEMMA BalancedOne ==
  ASSUME NEW p \in Words, p \in Single \cup Named
  PROVE  Balanced(<< p >>)
<1> DEFINE d == [i \in 0..1 |-> 0]
           m == [i \in 0..1 |-> "out"]
<1>1. /\ Len(<< p >>) = 1 /\ << p >>[1] = p /\ << p >> \in Seq(Words)
      /\ \A i \in 1..1 : i = 1
  OBVIOUS
<1>2. Move(d[1 - 1], m[1 - 1], p, d[1], m[1])
  BY DEF Move
<1>3. Run(<< p >>, d, m)
  <2>1. d \in [0..1 -> Nat] /\ m \in [0..1 -> Mode]
    BY DEF Mode
  <2>2. \A i \in 1..1 : Move(d[i - 1], m[i - 1], << p >>[i], d[i], m[i])
    BY <1>1, <1>2
  <2> QED
    BY <1>1, <2>1, <2>2 DEF Run
<1> QED
  BY <1>1, <1>3 DEF Balanced

LEMMA BalancedConcat ==
  ASSUME NEW P, NEW Q, Balanced(P), Balanced(Q),
         P # << >> /\ Q # << >> => Meets(P[Len(P)], Q[1])
  PROVE  Balanced(P \o Q)
<1>1. P \in Seq(Words) /\ Q \in Seq(Words)
  BY DEF Balanced
<1>2. PICK d, m : Run(P, d, m)
  BY DEF Balanced
<1>3. PICK e, n : Run(Q, e, n)
  BY DEF Balanced
<1>4. PICK a \in Nat : a = Len(P)
  BY <1>1
<1>5. PICK b \in Nat : b = Len(Q)
  BY <1>1
<1>6. PICK R : R = P \o Q
  OBVIOUS
<1>7. /\ R \in Seq(Words) /\ Len(R) = a + b
      /\ \A i \in 1..(a + b) : R[i] = IF i <= a THEN P[i] ELSE Q[i - a]
  BY <1>1, <1>4, <1>5, <1>6, ConcatProperties
<1>8. /\ d \in [0..a -> Nat] /\ m \in [0..a -> Mode]
      /\ d[0] = 0 /\ d[a] = 0 /\ m[0] = "out" /\ m[a] = "out"
      /\ \A i \in 1..a : Move(d[i - 1], m[i - 1], P[i], d[i], m[i])
      /\ \A i \in 1..a : i < a => Meets(P[i], P[i + 1])
  BY <1>2, <1>4 DEF Run
<1>9. /\ e \in [0..b -> Nat] /\ n \in [0..b -> Mode]
      /\ e[0] = 0 /\ e[b] = 0 /\ n[0] = "out" /\ n[b] = "out"
      /\ \A i \in 1..b : Move(e[i - 1], n[i - 1], Q[i], e[i], n[i])
      /\ \A i \in 1..b : i < b => Meets(Q[i], Q[i + 1])
  BY <1>3, <1>5 DEF Run
<1>10. PICK f : f = [i \in 0..(a + b) |-> IF i <= a THEN d[i] ELSE e[i - a]]
  OBVIOUS
<1>11. PICK k : k = [i \in 0..(a + b) |-> IF i <= a THEN m[i] ELSE n[i - a]]
  OBVIOUS
<1>12. f \in [0..(a + b) -> Nat]
  <2>1. \A i \in 0..(a + b) : (IF i <= a THEN d[i] ELSE e[i - a]) \in Nat
    BY <1>8, <1>9
  <2> QED
    BY <1>10, <2>1
<1>13. k \in [0..(a + b) -> Mode]
  <2>1. \A i \in 0..(a + b) : (IF i <= a THEN m[i] ELSE n[i - a]) \in Mode
    BY <1>8, <1>9
  <2> QED
    BY <1>11, <2>1
<1>14. \A i \in 0..a : f[i] = d[i] /\ k[i] = m[i]
  BY <1>10, <1>11
<1>15. \A i \in 0..b : f[a + i] = e[i] /\ k[a + i] = n[i]
  <2> TAKE i \in 0..b
  <2>1. CASE i = 0
    BY <1>8, <1>9, <1>14, <2>1
  <2>2. CASE i # 0
    <3>1. a + i \in 0..(a + b) /\ ~(a + i <= a) /\ a + i - a = i
      BY <2>2
    <3> QED
      BY <1>10, <1>11, <3>1
  <2> QED
    BY <2>1, <2>2
<1>16. ASSUME NEW i \in 1..(a + b)
       PROVE  Move(f[i - 1], k[i - 1], R[i], f[i], k[i])
  <2>1. CASE i <= a
    <3>1. i \in 1..a /\ i - 1 \in 0..a /\ i \in 0..a
      BY <2>1
    <3> QED
      BY <1>7, <1>8, <1>14, <2>1, <3>1
  <2>2. CASE ~(i <= a)
    <3>1. PICK j : j = i - a
      OBVIOUS
    <3>2. j \in 1..b /\ j - 1 \in 0..b /\ j \in 0..b /\ i = a + j /\ i - 1 = a + (j - 1)
      BY <2>2, <3>1
    <3>3. f[i] = e[j] /\ k[i] = n[j] /\ f[i - 1] = e[j - 1] /\ k[i - 1] = n[j - 1]
      BY <1>15, <3>2
    <3>4. R[i] = Q[j]
      BY <1>7, <2>2, <3>1
    <3>5. Move(e[j - 1], n[j - 1], Q[j], e[j], n[j])
      BY <1>9, <3>2
    <3> QED
      BY <3>3, <3>4, <3>5
  <2> QED
    BY <2>1, <2>2
<1>17. ASSUME NEW i \in 1..(a + b), i < a + b
       PROVE  Meets(R[i], R[i + 1])
  <2>0. i + 1 \in 1..(a + b)
    BY <1>17
  <2>1. CASE i < a
    <3>1. i \in 1..a /\ i <= a /\ i + 1 <= a
      BY <2>1
    <3>2. R[i] = P[i] /\ R[i + 1] = P[i + 1]
      BY <1>7, <2>0, <3>1
    <3> QED
      BY <1>8, <2>1, <3>1, <3>2
  <2>2. CASE i = a
    <3>1. i <= a /\ ~(i + 1 <= a) /\ i + 1 - a = 1 /\ a # 0 /\ b # 0
      BY <1>17, <2>2
    <3>2. P # << >> /\ Q # << >>
      BY <1>1, <1>4, <1>5, <3>1
    <3>3. R[i] = P[a] /\ R[i + 1] = Q[1]
      BY <1>7, <2>0, <2>2, <3>1
    <3> QED
      BY <1>4, <3>2, <3>3
  <2>3. CASE i > a
    <3>1. PICK j : j = i - a
      OBVIOUS
    <3>2. /\ j \in 1..b /\ j < b /\ ~(i <= a) /\ ~(i + 1 <= a)
          /\ i + 1 - a = j + 1
      BY <1>17, <2>3, <3>1
    <3>3. R[i] = Q[j] /\ R[i + 1] = Q[j + 1]
      BY <1>7, <2>0, <3>1, <3>2
    <3> QED
      BY <1>9, <3>2, <3>3
  <2> QED
    BY <2>1, <2>2, <2>3
<1>18. /\ f[0] = 0 /\ k[0] = "out" /\ f[a + b] = 0 /\ k[a + b] = "out"
  BY <1>8, <1>9, <1>14, <1>15
<1>19. Run(R, f, k)
  BY <1>7, <1>12, <1>13, <1>16, <1>17, <1>18 DEF Run
<1> QED
  BY <1>6, <1>7, <1>19 DEF Balanced

LEMMA SeqOfTwo ==
  ASSUME NEW S, NEW a \in S, NEW b \in S
  PROVE  /\ << a, b >> \in Seq(S) /\ Len(<< a, b >>) = 2 /\ << a, b >> # << >>
         /\ << a, b >>[1] = a /\ << a, b >>[2] = b
OBVIOUS

LEMMA SeqSubset ==
  ASSUME NEW S, NEW T, S \subseteq T, NEW s \in Seq(S)
  PROVE  s \in Seq(T)
OBVIOUS

LEMMA MeetsUnless ==
  ASSUME NEW p, NEW q, \/ q[1] \notin Digit \/ p[1] # "0"
  PROVE  Meets(p, q)
BY DEF Meets

LEMMA SeqOfFour ==
  ASSUME NEW S, NEW a \in S, NEW b \in S, NEW c \in S, NEW e \in S
  PROVE  /\ << a, b, c, e >> \in Seq(S) /\ Len(<< a, b, c, e >>) = 4
         /\ << a, b, c, e >>[1] = a /\ << a, b, c, e >>[2] = b
         /\ << a, b, c, e >>[3] = c /\ << a, b, c, e >>[4] = e
OBVIOUS

LEMMA DigitIs == Digit = {"0", "1", "2", "3", "4", "5", "6", "7", "8", "9"}
<1>1. \A i \in 1..10 : i \in {1, 2, 3, 4, 5, 6, 7, 8, 9, 10}
  OBVIOUS
<1>2. /\ DigitSeq[1] = "0" /\ DigitSeq[2] = "1" /\ DigitSeq[3] = "2" /\ DigitSeq[4] = "3"
      /\ DigitSeq[5] = "4" /\ DigitSeq[6] = "5" /\ DigitSeq[7] = "6" /\ DigitSeq[8] = "7"
      /\ DigitSeq[9] = "8" /\ DigitSeq[10] = "9"
  BY DEF DigitSeq
<1>3. 1..10 = {1, 2, 3, 4, 5, 6, 7, 8, 9, 10}
  OBVIOUS
<1>4. Digit = {DigitSeq[i] : i \in {1, 2, 3, 4, 5, 6, 7, 8, 9, 10}}
  BY <1>3 DEF Digit
<1> HIDE DEF DigitSeq
<1> QED
  BY <1>2, <1>4

LEMMA LettersAre ==
  /\ "A" \in Char /\ "C" \in Char /\ "D" \in Char /\ "E" \in Char /\ "F" \in Char
  /\ "I" \in Char /\ "L" \in Char /\ "N" \in Char /\ Underscore \in Char /\ "i" \in Char
  /\ "n" \in Char /\ "z" \in Char /\ "c" \in Char /\ "v" \in Char
  /\ Builtin \subseteq Char /\ Modifier \subseteq Char
BY LetterAssumption DEF Builtin, Modifier

LEMMA UnderscoreIs ==
  /\ Underscore \notin Digit
  /\ Underscore \notin Builtin \cup Modifier \cup Opening \cup {"A", "C", "D", "E"}
<1>1. Underscore \notin {"0", "1", "2", "3", "4", "5", "6", "7", "8", "9"}
  BY DEF Underscore
<1>2. Underscore \notin {"a", "b", "c", "d", "e", "f", "g", "h", "i", "j", "l", "m", "n",
             "o", "s", "t", "v", "w", "x", "y", "z"}
  BY DEF Underscore
<1>3. Underscore \notin {"P", "R", "O", "K", "V", "N", "I", "F", "L", "A", "C", "D", "E"}
  BY DEF Underscore
<1> QED
  BY <1>1, <1>2, <1>3, DigitIs DEF Builtin, Modifier, Opening

LEMMA OneLetter == \A c \in Char : << c >> \in Words
BY DEF Words, Text

LEMMA Between ==
  ASSUME NEW S, NEW P \in Seq(S), NEW o \in S, NEW c \in S, NEW n \in Nat, n = Len(P)
  PROVE  /\ << o >> \o P \o << c >> \in Seq(S) /\ Len(<< o >> \o P \o << c >>) = n + 2
         /\ (<< o >> \o P \o << c >>)[1] = o /\ (<< o >> \o P \o << c >>)[n + 2] = c
         /\ \A i \in 1..n : (<< o >> \o P \o << c >>)[i + 1] = P[i]
<1>1. PICK R : R = << o >> \o P
  OBVIOUS
<1>2. << o >> \in Seq(S) /\ Len(<< o >>) = 1 /\ << o >>[1] = o
  OBVIOUS
<1>3. /\ R \in Seq(S) /\ Len(R) = 1 + n
      /\ \A i \in 1..(1 + n) : R[i] = IF i <= 1 THEN << o >>[i] ELSE P[i - 1]
  BY <1>1, <1>2, ConcatProperties
<1>4. R[1] = o /\ \A i \in 1..n : R[i + 1] = P[i]
  <2>1. 1 \in 1..(1 + n) /\ 1 <= 1
    OBVIOUS
  <2>2. \A i \in 1..n : i + 1 \in 1..(1 + n) /\ ~(i + 1 <= 1) /\ i + 1 - 1 = i
    OBVIOUS
  <2> QED
    BY <1>2, <1>3, <2>1, <2>2
<1>5. PICK W : W = R \o << c >>
  OBVIOUS
<1>6. << c >> \in Seq(S) /\ Len(<< c >>) = 1 /\ << c >>[1] = c
  OBVIOUS
<1>7. /\ W \in Seq(S) /\ Len(W) = 1 + n + 1
      /\ \A i \in 1..(1 + n + 1) : W[i] = IF i <= 1 + n THEN R[i] ELSE << c >>[i - (1 + n)]
  BY <1>3, <1>5, <1>6, ConcatProperties
<1>8. /\ W[1] = o /\ W[n + 2] = c /\ \A i \in 1..n : W[i + 1] = P[i]
  <2>1. 1 \in 1..(1 + n + 1) /\ 1 <= 1 + n
    OBVIOUS
  <2>2. n + 2 \in 1..(1 + n + 1) /\ ~(n + 2 <= 1 + n) /\ n + 2 - (1 + n) = 1
    OBVIOUS
  <2>3. \A i \in 1..n : i + 1 \in 1..(1 + n + 1) /\ i + 1 <= 1 + n
    OBVIOUS
  <2> QED
    BY <1>4, <1>6, <1>7, <2>1, <2>2, <2>3
<1> QED
  BY <1>1, <1>5, <1>7, <1>8

LEMMA BalancedWrap ==
  ASSUME NEW P, Balanced(P), NEW o \in {<< "N" >>, << "I" >>, << "F" >>}
  PROVE  Balanced(<< o >> \o P \o << << "E" >> >>)
<1>1. P \in Seq(Words)
  BY DEF Balanced
<1>2. PICK d, m : Run(P, d, m)
  BY DEF Balanced
<1>3. PICK n \in Nat : n = Len(P)
  BY <1>1
<1>4. PICK R : R = << o >> \o P \o << << "E" >> >>
  OBVIOUS
<1>5. o \in Words /\ << "E" >> \in Words
  BY LettersAre, OneLetter
<1>6. /\ R \in Seq(Words) /\ Len(R) = n + 2 /\ R[1] = o /\ R[n + 2] = << "E" >>
      /\ \A i \in 1..n : R[i + 1] = P[i]
  BY <1>1, <1>3, <1>4, <1>5, Between
<1>7. /\ d \in [0..n -> Nat] /\ m \in [0..n -> Mode]
      /\ d[0] = 0 /\ d[n] = 0 /\ m[0] = "out" /\ m[n] = "out"
      /\ \A i \in 1..n : Move(d[i - 1], m[i - 1], P[i], d[i], m[i])
      /\ \A i \in 1..n : i < n => Meets(P[i], P[i + 1])
  BY <1>2, <1>3 DEF Run
<1>8. PICK f : f = [i \in 0..(n + 2) |-> IF i \in {0, n + 2} THEN 0 ELSE d[i - 1] + 1]
  OBVIOUS
<1>9. PICK k : k = [i \in 0..(n + 2) |-> IF i \in {0, n + 2} THEN "out" ELSE m[i - 1]]
  OBVIOUS
<1>10. /\ \A i \in 0..n : f[i + 1] = d[i] + 1 /\ k[i + 1] = m[i]
       /\ f[0] = 0 /\ k[0] = "out" /\ f[n + 2] = 0 /\ k[n + 2] = "out"
  <2>1. \A i \in 0..n : i + 1 \in 0..(n + 2) /\ i + 1 \notin {0, n + 2} /\ i + 1 - 1 = i
    OBVIOUS
  <2> QED
    BY <1>8, <1>9, <2>1
<1>11. f \in [0..(n + 2) -> Nat] /\ k \in [0..(n + 2) -> Mode]
  <2>1. \A i \in 0..(n + 2) : (IF i \in {0, n + 2} THEN 0 ELSE d[i - 1] + 1) \in Nat
    BY <1>7
  <2>2. \A i \in 0..(n + 2) : (IF i \in {0, n + 2} THEN "out" ELSE m[i - 1]) \in Mode
    BY <1>7 DEF Mode
  <2> QED
    BY <1>8, <1>9, <2>1, <2>2
<1>12. ASSUME NEW i \in 1..(n + 2)
       PROVE  Move(f[i - 1], k[i - 1], R[i], f[i], k[i])
  <2>1. CASE i = 1
    <3>1. f[1] = 1 /\ k[1] = "out"
      <4>1. 0 \in 0..n /\ 0 + 1 = 1
        OBVIOUS
      <4> QED
        BY <1>7, <1>10, <4>1
    <3>2. i - 1 = 0
      BY <2>1
    <3> QED
      <4>1. Move(0, "out", o, 1, "out")
        BY DEF Move
      <4>2. R[i] = o /\ f[i - 1] = 0 /\ k[i - 1] = "out" /\ f[i] = 1 /\ k[i] = "out"
        BY <1>6, <1>10, <2>1, <3>1, <3>2
      <4> QED
        BY <4>1, <4>2
  <2>2. CASE i = n + 2
    <3>1. f[n + 1] = 1 /\ k[n + 1] = "out"
      BY <1>7, <1>10
    <3>2. i - 1 = n + 1
      BY <2>2
    <3> QED
      <4>1. Move(1, "out", << "E" >>, 0, "out")
        BY DEF Move
      <4>2. /\ R[i] = << "E" >> /\ f[i - 1] = 1 /\ k[i - 1] = "out" /\ f[i] = 0
            /\ k[i] = "out"
        BY <1>6, <1>10, <2>2, <3>1, <3>2
      <4> QED
        BY <4>1, <4>2
  <2>3. CASE i \notin {1, n + 2}
    <3>1. PICK j : j = i - 1
      OBVIOUS
    <3>2. j \in 1..n /\ j \in 0..n /\ j - 1 \in 0..n /\ i = j + 1 /\ i - 1 = j - 1 + 1
      BY <2>3, <3>1
    <3>3. /\ f[i] = d[j] + 1 /\ k[i] = m[j] /\ R[i] = P[j]
          /\ f[i - 1] = d[j - 1] + 1 /\ k[i - 1] = m[j - 1]
      BY <1>6, <1>10, <3>2
    <3>4. Move(d[j - 1], m[j - 1], P[j], d[j], m[j]) /\ d[j - 1] \in Nat /\ d[j] \in Nat
      BY <1>7, <3>2
    <3>5. PICK x : x = d[j - 1]
      OBVIOUS
    <3>6. PICK y : y = d[j]
      OBVIOUS
    <3>7. Move(x + 1, m[j - 1], P[j], y + 1, m[j])
      BY <3>4, <3>5, <3>6 DEF Move
    <3> QED
      BY <3>3, <3>5, <3>6, <3>7
  <2> QED
    BY <2>1, <2>2, <2>3
<1>13. ASSUME NEW i \in 1..(n + 2), i < n + 2
       PROVE  Meets(R[i], R[i + 1])
  <2>1. CASE i = 1
    BY <1>6, <2>1 DEF Meets
  <2>2. CASE i = n + 1
    <3>1. i + 1 = n + 2 /\ "E" \notin Digit
      BY <2>2 DEF Digit, DigitSeq
    <3> QED
      BY <1>6, <3>1 DEF Meets
  <2>3. CASE i \notin {1, n + 1}
    <3>1. PICK j : j = i - 1
      OBVIOUS
    <3>2. j \in 1..n /\ j < n /\ j + 1 \in 1..n /\ i = j + 1 /\ i + 1 = (j + 1) + 1
      BY <1>13, <2>3, <3>1
    <3>3. R[i] = P[j] /\ R[i + 1] = P[j + 1]
      BY <1>6, <3>2
    <3> QED
      BY <1>7, <3>2, <3>3
  <2> QED
    BY <2>1, <2>2, <2>3
<1>14. Run(R, f, k)
  BY <1>6, <1>10, <1>11, <1>12, <1>13 DEF Run
<1> QED
  BY <1>4, <1>6, <1>14 DEF Balanced

LEMMA LetterFacts ==
  /\ \A c \in Char : << c >> \in Words
  /\ \A p \in Single : p \in Words /\ p[1] \notin Digit /\ p # << "0" >>
  /\ {<< "N" >>, << "I" >>, << "F" >>, << "E" >>, << "L" >>, << "A" >>, << Underscore >>} \subseteq Words
  /\ {"N", "I", "F", "E", "L", "A", Underscore} \cap Digit = {}
  /\ Numeral \subseteq Words /\ Length \subseteq Numeral
<1>1. \A c \in Char : << c >> \in Words
  BY OneLetter
<1>2. Builtin \cup Modifier \cup {"D", "N", "I", "F", "E", "L", "A", Underscore} \subseteq Char
  BY LettersAre
<1>3. (Builtin \cup Modifier \cup {"D", "N", "I", "F", "E", "L", "A", Underscore}) \cap Digit = {}
  BY DigitIs, UnderscoreIs DEF Builtin, Modifier
<1>4. "0" \in Digit
  BY DigitIs
<1>5. NullPtr \in Words /\ NullPtr[1] = "D" /\ NullPtr # << "0" >>
  <2>1. << "D", "n" >> \in Seq(Char) /\ << "D", "n" >> # << >> /\ << "D", "n" >>[1] = "D"
    BY LettersAre, SeqOfTwo
  <2>2. << "D", "n" >> # << "0" >>
    OBVIOUS
  <2> QED
    BY <2>1, <2>2 DEF NullPtr, Words, Text
<1>6. \A p \in Single : p \in Words /\ p[1] \notin Digit /\ p # << "0" >>
  <2> TAKE p \in Single
  <2>1. CASE p = NullPtr
    BY <1>3, <1>5, <2>1
  <2>2. CASE p # NullPtr
    <3>1. PICK c \in Builtin \cup Modifier : p = << c >>
      BY <2>2 DEF Single
    <3> QED
      BY <1>1, <1>2, <1>3, <1>4, <3>1
  <2> QED
    BY <2>1, <2>2
<1>7. Numeral \subseteq Words
  BY CharAssumption DEF Numeral, Words, Text
<1> QED
  BY <1>1, <1>2, <1>3, <1>6, <1>7 DEF Length

LEMMA BalancedValue ==
  ASSUME NEW s \in Numeral
  PROVE  Balanced(<< << "L" >>, << "i" >>, s, << "E" >> >>)
<1>1. PICK P : P = << << "L" >>, << "i" >>, s, << "E" >> >>
  OBVIOUS
<1>2. << "i" >> \in Words
  BY LettersAre, OneLetter
<1>3. /\ P \in Seq(Words) /\ Len(P) = 4 /\ P[1] = << "L" >> /\ P[2] = << "i" >> /\ P[3] = s
      /\ P[4] = << "E" >>
  <2>1. << "L" >> \in Words /\ << "E" >> \in Words /\ s \in Words
    BY LettersAre, OneLetter, LetterFacts
  <2> QED
    BY <1>1, <1>2, <2>1, SeqOfFour
<1>4. PICK d : d = [i \in 0..4 |-> IF i \in {0, 4} THEN 0 ELSE 1]
  OBVIOUS
<1>5. PICK m : m = [i \in 0..4 |-> IF i \in {0, 4} THEN "out" ELSE IF i = 1 THEN "value"
                                   ELSE IF i = 2 THEN "number" ELSE "close"]
  OBVIOUS
<1>6. /\ d \in [0..4 -> Nat] /\ m \in [0..4 -> Mode]
      /\ d[0] = 0 /\ d[1] = 1 /\ d[2] = 1 /\ d[3] = 1 /\ d[4] = 0
      /\ m[0] = "out" /\ m[1] = "value" /\ m[2] = "number" /\ m[3] = "close" /\ m[4] = "out"
  BY <1>4, <1>5 DEF Mode
<1>7. \A i \in 1..4 : Move(d[i - 1], m[i - 1], P[i], d[i], m[i])
  <2>1. /\ Move(d[0], m[0], P[1], d[1], m[1]) /\ Move(d[1], m[1], P[2], d[2], m[2])
        /\ Move(d[2], m[2], P[3], d[3], m[3]) /\ Move(d[3], m[3], P[4], d[4], m[4])
    BY <1>3, <1>6 DEF Move
  <2> TAKE i \in 1..4
  <2>2. (i = 1 /\ i - 1 = 0) \/ (i = 2 /\ i - 1 = 1) \/ (i = 3 /\ i - 1 = 2) \/ (i = 4 /\ i - 1 = 3)
    OBVIOUS
  <2> QED
    BY <2>1, <2>2
<1>8. \A i \in 1..4 : i < 4 => Meets(P[i], P[i + 1])
  <2>0. P[1][1] = "L" /\ P[2][1] = "i" /\ P[4][1] = "E"
    BY <1>3
  <2>1. Meets(P[1], P[2]) /\ Meets(P[2], P[3]) /\ Meets(P[3], P[4])
    BY <2>0, LetterFacts, MeetsUnless
  <2> TAKE i \in 1..4
  <2>2. i < 4 => (i = 1 /\ i + 1 = 2) \/ (i = 2 /\ i + 1 = 3) \/ (i = 3 /\ i + 1 = 4)
    OBVIOUS
  <2> QED
    BY <2>1, <2>2
<1>9. Run(P, d, m)
  BY <1>3, <1>6, <1>7, <1>8 DEF Run
<1> QED
  BY <1>1, <1>3, <1>9 DEF Balanced

LEMMA BalancedArray ==
  ASSUME NEW size \in Seq(Length), Len(size) <= 1
  PROVE  Balanced(<< << "A" >> >> \o size \o << << Underscore >> >>)
<1>1. PICK n \in Nat : n = Len(size)
  OBVIOUS
<1>2. PICK P : P = << << "A" >> >> \o size \o << << Underscore >> >>
  OBVIOUS
<1>3. size \in Seq(Words) /\ << "A" >> \in Words /\ << Underscore >> \in Words
  <2>1. Length \subseteq Words
    BY LetterFacts
  <2>2. size \in Seq(Words)
    BY <2>1, SeqSubset
  <2> QED
    BY <2>2, LettersAre, OneLetter
<1>4. /\ P \in Seq(Words) /\ Len(P) = n + 2 /\ P[1] = << "A" >> /\ P[n + 2] = << Underscore >>
      /\ \A i \in 1..n : P[i + 1] = size[i]
  <2>1. PICK o : o = << "A" >>
    OBVIOUS
  <2>2. PICK c : c = << Underscore >>
    OBVIOUS
  <2>3. P = << o >> \o size \o << c >> /\ o \in Words /\ c \in Words
    BY <1>2, <1>3, <2>1, <2>2
  <2>4. /\ P \in Seq(Words) /\ Len(P) = n + 2 /\ P[1] = o /\ P[n + 2] = c
        /\ \A i \in 1..n : P[i + 1] = size[i]
    BY <1>1, <1>3, <2>3, Between
  <2> QED
    BY <2>1, <2>2, <2>4
<1>5. n \in {0, 1}
  BY <1>1
<1>6. CASE n = 0
  <2>1. PICK d : d = [i \in 0..2 |-> 0]
    OBVIOUS
  <2>2. PICK m : m = [i \in 0..2 |-> IF i = 1 THEN "array" ELSE "out"]
    OBVIOUS
  <2>3. /\ d \in [0..2 -> Nat] /\ m \in [0..2 -> Mode]
        /\ d[0] = 0 /\ d[1] = 0 /\ d[2] = 0
        /\ m[0] = "out" /\ m[1] = "array" /\ m[2] = "out"
    BY <2>1, <2>2 DEF Mode
  <2>4. Len(P) = 2 /\ P[2] = << Underscore >>
    <3>1. n + 2 = 2
      BY <1>6
    <3> QED
      BY <1>4, <3>1
  <2>5. Move(d[0], m[0], P[1], d[1], m[1]) /\ Move(d[1], m[1], P[2], d[2], m[2])
    BY <1>4, <2>3, <2>4 DEF Move
  <2>6. \A i \in 1..2 : (i = 1 /\ i - 1 = 0) \/ (i = 2 /\ i - 1 = 1)
    OBVIOUS
  <2>7. \A i \in 1..2 : Move(d[i - 1], m[i - 1], P[i], d[i], m[i])
    BY <2>5, <2>6
  <2>8. \A i \in 1..2 : i < 2 => Meets(P[i], P[i + 1])
    <3>1. \A i \in 1..2 : i < 2 => i = 1
      OBVIOUS
    <3>2. Meets(P[1], P[2])
      <4>a. P[1] = << "A" >>
        BY <1>4
      <4>1. P[1][1] = "A"
        BY <4>a
      <4> QED
        BY <4>1, MeetsUnless
    <3> QED
      BY <3>1, <3>2
  <2>9. Run(P, d, m)
    BY <2>3, <2>4, <2>7, <2>8 DEF Run
  <2> QED
    BY <1>2, <1>4, <2>9 DEF Balanced
<1>7. CASE n = 1
  <2>1. PICK d : d = [i \in 0..3 |-> 0]
    OBVIOUS
  <2>2. PICK m : m = [i \in 0..3 |-> IF i = 1 THEN "array" ELSE IF i = 2 THEN "size" ELSE "out"]
    OBVIOUS
  <2>3. /\ d \in [0..3 -> Nat] /\ m \in [0..3 -> Mode]
        /\ d[0] = 0 /\ d[1] = 0 /\ d[2] = 0 /\ d[3] = 0
        /\ m[0] = "out" /\ m[1] = "array" /\ m[2] = "size" /\ m[3] = "out"
    BY <2>1, <2>2 DEF Mode
  <2>4. Len(P) = 3 /\ P[3] = << Underscore >> /\ P[2] = size[1] /\ size[1] \in Length
    <3>1. 1 \in 1..n /\ 1 + 1 = 2 /\ n + 2 = 3
      BY <1>7
    <3>2. size[1] \in Length
      BY <1>1, <3>1
    <3>3. P[2] = size[1]
      BY <1>4, <3>1
    <3> QED
      BY <1>4, <3>1, <3>2, <3>3
  <2>5. /\ Move(d[0], m[0], P[1], d[1], m[1]) /\ Move(d[1], m[1], P[2], d[2], m[2])
        /\ Move(d[2], m[2], P[3], d[3], m[3])
    BY <1>4, <2>3, <2>4 DEF Move
  <2>6. \A i \in 1..3 : (i = 1 /\ i - 1 = 0) \/ (i = 2 /\ i - 1 = 1) \/ (i = 3 /\ i - 1 = 2)
    OBVIOUS
  <2>7. \A i \in 1..3 : Move(d[i - 1], m[i - 1], P[i], d[i], m[i])
    BY <2>5, <2>6
  <2>8. \A i \in 1..3 : i < 3 => Meets(P[i], P[i + 1])
    <3>1. \A i \in 1..3 : i < 3 => (i = 1 /\ i + 1 = 2) \/ (i = 2 /\ i + 1 = 3)
      OBVIOUS
    <3>2. Meets(P[1], P[2]) /\ Meets(P[2], P[3])
      <4>a. P[1] = << "A" >> /\ P[3] = << Underscore >>
        BY <1>4, <2>4, Zenon
      <4>1. P[1][1] = "A" /\ P[3][1] = Underscore
        BY <4>a
      <4> QED
        BY <4>1, LetterFacts, MeetsUnless
    <3> QED
      BY <3>1, <3>2
  <2>9. Run(P, d, m)
    BY <2>3, <2>4, <2>7, <2>8 DEF Run
  <2> QED
    BY <1>2, <1>4, <2>9 DEF Balanced
<1> QED
  BY <1>5, <1>6, <1>7

-----------------------------------------------------------------------------
(* Balanced lists of pieces that may be put next to each other.            *)

(* Balanced, and it may be followed by a digit.                            *)
Ends(P) == Balanced(P) /\ (P # << >> => P[Len(P)] # << "0" >>)
(* And it begins with none.                                                *)
Fine(P) == Ends(P) /\ (P # << >> => P[1][1] \notin Digit)

LEMMA ConcatEnds ==
  ASSUME NEW S, NEW P \in Seq(S), NEW Q \in Seq(S)
  PROVE  /\ P = << >> => P \o Q = Q
         /\ Q = << >> => P \o Q = P
         /\ P # << >> => P \o Q # << >> /\ (P \o Q)[1] = P[1]
         /\ Q # << >> => P \o Q # << >> /\ (P \o Q)[Len(P \o Q)] = Q[Len(Q)]
         /\ P \o Q = << >> <=> P = << >> /\ Q = << >>
<1>1. PICK a \in Nat : a = Len(P)
  OBVIOUS
<1>2. PICK b \in Nat : b = Len(Q)
  OBVIOUS
<1>3. PICK R : R = P \o Q
  OBVIOUS
<1>4. /\ R \in Seq(S) /\ Len(R) = a + b
      /\ \A i \in 1..(a + b) : R[i] = IF i <= a THEN P[i] ELSE Q[i - a]
  BY <1>1, <1>2, <1>3, ConcatProperties
<1>5. (P = << >> <=> a = 0) /\ (Q = << >> <=> b = 0) /\ (R = << >> <=> a + b = 0)
  BY <1>1, <1>2, <1>4, EmptySeq
<1>6. a # 0 => R[1] = P[1]
  <2>1. a # 0 => 1 \in 1..(a + b) /\ 1 <= a
    OBVIOUS
  <2> QED
    BY <1>4, <2>1
<1>7. b # 0 => R[a + b] = Q[b]
  <2>1. b # 0 => a + b \in 1..(a + b) /\ ~(a + b <= a) /\ a + b - a = b
    OBVIOUS
  <2> QED
    BY <1>4, <2>1
<1>8. (P = << >> => R = Q) /\ (Q = << >> => R = P)
  BY <1>3, ConcatEmptySeq
<1> QED
  BY <1>1, <1>2, <1>3, <1>4, <1>5, <1>6, <1>7, <1>8

LEMMA EndsThen ==
  ASSUME NEW P, NEW Q, Ends(P), Balanced(Q)
  PROVE  Balanced(P \o Q)
BY BalancedConcat DEF Ends, Meets

LEMMA ThenFine ==
  ASSUME NEW P, NEW Q, Balanced(P), Fine(Q)
  PROVE  Balanced(P \o Q) /\ (Q # << >> => Ends(P \o Q))
<1>1. Balanced(P \o Q)
  BY BalancedConcat DEF Fine, Ends, Meets
<1>2. P \in Seq(Words) /\ Q \in Seq(Words)
  BY DEF Fine, Ends, Balanced
<1>3. Q # << >> => (P \o Q)[Len(P \o Q)] = Q[Len(Q)]
  BY <1>2, ConcatEnds
<1> QED
  BY <1>1, <1>3 DEF Ends, Fine

LEMMA EndsConcat ==
  ASSUME NEW P, NEW Q, Ends(P), Ends(Q)
  PROVE  Ends(P \o Q)
<1>1. Balanced(P \o Q)
  BY EndsThen DEF Ends
<1>2. P \in Seq(Words) /\ Q \in Seq(Words)
  BY DEF Ends, Balanced
<1>3. CASE Q = << >>
  <2>1. P \o Q = P
    BY <1>2, <1>3, ConcatEnds
  <2> QED
    BY <2>1
<1>4. CASE Q # << >>
  <2>1. (P \o Q)[Len(P \o Q)] = Q[Len(Q)]
    BY <1>2, <1>4, ConcatEnds
  <2> QED
    BY <1>1, <1>4, <2>1 DEF Ends
<1> QED
  BY <1>3, <1>4

LEMMA FineConcat ==
  ASSUME NEW P, NEW Q, Fine(P), Fine(Q)
  PROVE  Fine(P \o Q)
<1>1. Ends(P \o Q)
  BY EndsConcat DEF Fine
<1>2. P \in Seq(Words) /\ Q \in Seq(Words)
  BY DEF Fine, Ends, Balanced
<1>3. CASE P = << >>
  <2>1. P \o Q = Q
    BY <1>2, <1>3, ConcatEnds
  <2> QED
    BY <2>1
<1>4. CASE P # << >>
  <2>1. (P \o Q)[1] = P[1]
    BY <1>2, <1>4, ConcatEnds
  <2> QED
    BY <1>1, <1>4, <2>1 DEF Fine
<1> QED
  BY <1>3, <1>4

LEMMA FineEmpty == Fine(<< >>)
BY BalancedEmpty DEF Fine, Ends

LEMMA FineSingle ==
  ASSUME NEW p \in Single
  PROVE  Fine(<< p >>)
<1>1. p \in Words /\ p[1] \notin Digit /\ p # << "0" >>
  BY LetterFacts
<1>2. Balanced(<< p >>)
  BY <1>1, BalancedOne
<1>3. << p >>[1] = p /\ Len(<< p >>) = 1
  OBVIOUS
<1> QED
  BY <1>1, <1>2, <1>3 DEF Fine, Ends

LEMMA FineWrap ==
  ASSUME NEW P, Balanced(P), NEW o \in {<< "N" >>, << "I" >>, << "F" >>}
  PROVE  /\ Fine(<< o >> \o P \o << << "E" >> >>)
         /\ << o >> \o P \o << << "E" >> >> # << >>
         /\ (<< o >> \o P \o << << "E" >> >>)[1] = o
<1>1. PICK c : c = << "E" >>
  OBVIOUS
<1>2. PICK R : R = << o >> \o P \o << c >>
  OBVIOUS
<1>3. Balanced(R)
  BY <1>1, <1>2, BalancedWrap
<1>4. o \in Words /\ c \in Words /\ P \in Seq(Words)
  BY <1>1, LetterFacts DEF Balanced
<1>5. PICK n \in Nat : n = Len(P)
  BY <1>4
<1>6. Len(R) = n + 2 /\ R[1] = o /\ R[n + 2] = c /\ R \in Seq(Words)
  BY <1>2, <1>4, <1>5, Between
<1>7. R # << >>
  BY <1>5, <1>6
<1>8. c # << "0" >>
  BY <1>1
<1>9. o[1] \notin Digit
  <2>1. o[1] \in {"N", "I", "F"}
    OBVIOUS
  <2> QED
    BY <2>1, LetterFacts
<1>10. Fine(R)
  BY <1>3, <1>6, <1>7, <1>8, <1>9 DEF Fine, Ends
<1> QED
  BY <1>1, <1>2, <1>6, <1>7, <1>10

(* One after the other.                                                    *)
LEMMA FineFlatten ==
  ASSUME NEW s \in Seq(Seq(Words)), \A i \in 1..Len(s) : Fine(s[i])
  PROVE  Fine(Concat(s)) /\ Concat(s) \in Seq(Words)
<1>1. PICK n \in Nat : n = Len(s)
  OBVIOUS
<1>2. PICK f \in [0..Len(s) -> Seq(Words)] : Flattens(f, s) /\ FlattenSeq(s) = f[Len(s)]
  BY FlattenFold
<1>3. f[0] = << >> /\ \A i \in 1..n : f[i] = f[i - 1] \o s[i]
  BY <1>1, <1>2 DEF Flattens, Join
<1> DEFINE T == {k \in Nat : k \in 0..n => Fine(f[k])}
<1>4. 0 \in T
  BY <1>3, FineEmpty
<1>5. ASSUME NEW k \in Nat, k \in T PROVE k + 1 \in T
  <2> SUFFICES ASSUME k + 1 \in 0..n PROVE Fine(f[k + 1])
    OBVIOUS
  <2>1. k \in 0..n /\ k + 1 \in 1..n /\ k + 1 - 1 = k
    OBVIOUS
  <2>2. Fine(f[k]) /\ Fine(s[k + 1])
    BY <1>1, <1>5, <2>1
  <2>3. Fine(f[k] \o s[k + 1])
    BY <2>2, FineConcat
  <2>4. f[k + 1] = f[k] \o s[k + 1]
    BY <1>3, <2>1
  <2> QED
    BY <2>3, <2>4
<1>6. Nat \subseteq T
  <2> HIDE DEF T
  <2> QED
    BY <1>4, <1>5, InductionOnNat
<1>7. Fine(f[n]) /\ n \in 0..n
  BY <1>6
<1> QED
  BY <1>1, <1>2, <1>7 DEF Concat

-----------------------------------------------------------------------------
(* A name with its length.                                                 *)
LEMMA NamePiece ==
  ASSUME NEW t \in Name
  PROVE  /\ Decimal10[Len(t)] \o t \in Named \cap Words
         /\ (Decimal10[Len(t)] \o t)[1] \in Digit
         /\ t = << >> => Decimal10[Len(t)] \o t = << "0" >>
         /\ t # << >> => Decimal10[Len(t)] \o t # << "0" >>
<1>1. t \in Seq(Char) /\ Len(t) \in Nat /\ (t # << >> => Head(t) \notin Digit)
  BY DEF Name, Text
<1>2. PICK l : l = Decimal10[Len(t)]
  OBVIOUS
<1>3. /\ l \in Seq(Digit) /\ Len(l) \in Nat \ {0}
      /\ Len(t) = 0 => l = << "0" >>
      /\ Len(t) # 0 => l[1] # "0"
  BY <1>1, <1>2, NumberOfDecimal
<1>4. l \in Seq(Char) /\ l # << >>
  BY <1>3, CharAssumption, SeqSubset
<1>5. PICK p : p = l \o t
  OBVIOUS
<1>6. p \in Seq(Char) /\ p # << >> /\ p[1] = l[1]
  BY <1>1, <1>4, <1>5, ConcatEnds, ConcatProperties
<1>7. l[1] \in Digit
  BY <1>3, ElementOfSeq
<1>8. p \in Named \cap Words
  BY <1>2, <1>5, <1>6 DEF Named, Words, Text
<1>9. t = << >> => p = << "0" >>
  BY <1>1, <1>3, <1>4, <1>5, ConcatEnds
<1>10. t # << >> => p # << "0" >>
  <2>1. t # << >> => Len(t) # 0
    BY <1>1, EmptySeq
  <2>2. p = << "0" >> => p[1] = "0"
    OBVIOUS
  <2> QED
    BY <1>3, <1>6, <2>1, <2>2
<1> QED
  BY <1>2, <1>5, <1>6, <1>7, <1>8, <1>9, <1>10

LEMMA NameBalanced ==
  ASSUME NEW t \in Name
  PROVE  /\ Balanced(EncodeNs(t)) /\ EncodeNs(t) # << >>
         /\ t # << >> => Ends(EncodeNs(t))
<1>1. PICK p : p = Decimal10[Len(t)] \o t
  OBVIOUS
<1>2. p \in Named \cap Words /\ (t # << >> => p # << "0" >>)
  BY <1>1, NamePiece
<1>3. Balanced(<< p >>)
  BY <1>2, BalancedOne
<1>4. << p >> # << >> /\ Len(<< p >>) = 1 /\ << p >>[1] = p
  OBVIOUS
<1> QED
  BY <1>1, <1>2, <1>3, <1>4 DEF EncodeNs, Ends

LEMMA LowercaseAre ==
  /\ "a" \in Char /\ "b" \in Char /\ "c" \in Char /\ "d" \in Char /\ "e" \in Char
  /\ "f" \in Char /\ "i" \in Char /\ "k" \in Char /\ "l" \in Char /\ "m" \in Char
  /\ "n" \in Char /\ "o" \in Char /\ "p" \in Char /\ "t" \in Char /\ "u" \in Char
  /\ "w" \in Char /\ "y" \in Char /\ "z" \in Char
BY LetterAssumption

LEMMA EightName ==
  ASSUME NEW a \in Char, NEW b \in Char, NEW c \in Char, NEW d \in Char,
         NEW e \in Char, NEW f \in Char, NEW g \in Char, NEW h \in Char, a \notin Digit
  PROVE  << a, b, c, d, e, f, g, h >> \in Name \ {<< >>}
BY DEF Name, Text

LEMMA SevenName ==
  ASSUME NEW a \in Char, NEW b \in Char, NEW c \in Char, NEW d \in Char,
         NEW e \in Char, NEW f \in Char, NEW g \in Char, a \notin Digit
  PROVE  << a, b, c, d, e, f, g >> \in Name \ {<< >>}
BY DEF Name, Text

LEMMA OneName ==
  ASSUME NEW a \in Char, a \notin Digit
  PROVE  << a >> \in Name \ {<< >>}
BY DEF Name, Text

LEMMA KnownNames ==
  Ends(Template) /\ Ends(Typename) /\ Ends(Decltype) /\ Ends(Pack) /\ Ends(Default)
    /\ Ends(EncodeNs(<< "u", "n", "k", "n", "o", "w", "n" >>))
<1>1. "t" \notin Digit /\ "d" \notin Digit /\ "z" \notin Digit /\ "u" \notin Digit
  BY DigitIs
<1>2. << "t", "e", "m", "p", "l", "a", "t", "e" >> \in Name \ {<< >>}
  BY <1>1, LowercaseAre, EightName
<1>3. << "t", "y", "p", "e", "n", "a", "m", "e" >> \in Name \ {<< >>}
  BY <1>1, LowercaseAre, EightName
<1>4. << "d", "e", "c", "l", "t", "y", "p", "e" >> \in Name \ {<< >>}
  BY <1>1, LowercaseAre, EightName
<1>5. << "z" >> \in Name \ {<< >>}
  BY <1>1, LowercaseAre, OneName
<1>6. << "d", "e", "f", "a", "u", "l", "t" >> \in Name \ {<< >>}
  BY <1>1, LowercaseAre, SevenName
<1>7. << "u", "n", "k", "n", "o", "w", "n" >> \in Name \ {<< >>}
  BY <1>1, LowercaseAre, SevenName
<1> QED
  BY <1>2, <1>3, <1>4, <1>5, <1>6, <1>7, NameBalanced DEF Template, Typename, Decltype, Pack,
     Default

(* Texts put together in a different order.                                *)
LEMMA RegroupTwo ==
  ASSUME NEW o \in Seq(Words), NEW a \in Seq(Words), NEW b \in Seq(Words), NEW e \in Seq(Words)
  PROVE  o \o a \o b \o e = o \o (a \o b) \o e
<1>1. \A x \in Seq(Words), y \in Seq(Words), z \in Seq(Words) : Join(Join(x, y), z) = Join(x, Join(y, z))
  BY Associative
<1>2. Join(Join(Join(o, a), b), e) = Join(Join(o, Join(a, b)), e)
  BY <1>1
<1> QED
  BY <1>2 DEF Join

LEMMA RegroupOne ==
  ASSUME NEW o \in Seq(Words), NEW a \in Seq(Words), NEW b \in Seq(Words)
  PROVE  o \o a \o b = o \o (a \o b) /\ a \o b \in Seq(Words)
BY Associative, ConcatProperties DEF Join

LEMMA WordsOf ==
  ASSUME NEW P, Balanced(P)
  PROVE  P \in Seq(Words)
BY DEF Balanced

LEMMA LetterWords ==
  \A c \in {"N", "I", "F", "E", "L", "A", Underscore, "i"} :
     Letter(c) \in Seq(Words) /\ Letter(c) = << << c >> >>
<1>1. \A c \in {"N", "I", "F", "E", "L", "A", Underscore, "i"} : << c >> \in Words
  BY LettersAre, LetterAssumption, OneLetter
<1> QED
  BY <1>1 DEF Letter

LEMMA UnknownFine ==
  Fine(UNKNOWN_TYPE) /\ UNKNOWN_TYPE # << >> /\ UNKNOWN_TYPE[1] = << "N" >>
<1>1. PICK a : a = Typename
  OBVIOUS
<1>2. PICK b : b = EncodeNs(<< "u", "n", "k", "n", "o", "w", "n" >>)
  OBVIOUS
<1>3. Ends(a) /\ Ends(b)
  BY <1>1, <1>2, KnownNames
<1>4. Balanced(a \o b) /\ a \in Seq(Words) /\ b \in Seq(Words)
  BY <1>3, EndsThen, WordsOf DEF Ends
<1>5. PICK P : P = a \o b
  OBVIOUS
<1>6. Balanced(P)
  BY <1>4, <1>5
<1>7. UNKNOWN_TYPE = Letter("N") \o P \o Letter("E")
  <2>1. Letter("N") \in Seq(Words) /\ Letter("E") \in Seq(Words)
    BY LetterWords
  <2>2. Letter("N") \o a \o b \o Letter("E") = Letter("N") \o (a \o b) \o Letter("E")
    BY <1>4, <2>1, RegroupTwo
  <2> QED
    BY <1>1, <1>2, <1>5, <2>2 DEF UNKNOWN_TYPE
<1>8. UNKNOWN_TYPE = << << "N" >> >> \o P \o << << "E" >> >>
  BY <1>7 DEF Letter
<1> QED
  BY <1>6, <1>8, FineWrap

LEMMA TypeParmFine ==
  ASSUME NEW p \in TypeParm, ParmApart(p)
  PROVE  /\ Fine(MangleTemplateTypeParm(p))
         /\ MangleTemplateTypeParm(p) # << >> /\ MangleTemplateTypeParm(p)[1] = << "N" >>
<1>1. p.kind = "parameter" /\ p.name \in Name /\ p.pack \in BOOLEAN /\ p.canonical \in BOOLEAN
  BY DEF TypeParm
<1>2. PICK X : X = IF p.canonical THEN Default
                   ELSE EncodeNs(p.name) \o (IF p.pack THEN Decltype \o Pack ELSE << >>)
  OBVIOUS
<1>3. Balanced(X)
  <2>1. CASE p.canonical
    BY <1>2, <2>1, KnownNames DEF Ends
  <2>2. CASE ~p.canonical /\ p.pack
    <3>1. p.name # << >>
      BY <1>1, <2>2 DEF ParmApart
    <3>2. Ends(EncodeNs(p.name))
      BY <1>1, <3>1, NameBalanced
    <3>3. Ends(Decltype \o Pack)
      BY KnownNames, EndsConcat
    <3>4. Ends(EncodeNs(p.name) \o (Decltype \o Pack))
      BY <3>2, <3>3, EndsConcat
    <3> QED
      BY <1>2, <2>2, <3>4 DEF Ends
  <2>3. CASE ~p.canonical /\ ~p.pack
    <3>1. Balanced(EncodeNs(p.name))
      BY <1>1, NameBalanced
    <3>2. EncodeNs(p.name) \o << >> = EncodeNs(p.name)
      BY <3>1, WordsOf, ConcatEmptySeq
    <3> QED
      BY <1>2, <2>3, <3>1, <3>2
  <2> QED
    BY <1>1, <2>1, <2>2, <2>3
<1>4. Ends(Template \o Typename)
  BY KnownNames, EndsConcat
<1>5. Balanced(Template \o Typename \o X)
  BY <1>3, <1>4, EndsThen
<1>6. PICK P : P = Template \o Typename \o X
  OBVIOUS
<1>7. MangleTemplateTypeParm(p) = Letter("N") \o P \o Letter("E")
  <2>1. Letter("N") \in Seq(Words) /\ Letter("E") \in Seq(Words)
    BY LetterWords
  <2>2. Template \in Seq(Words) /\ Typename \in Seq(Words) /\ X \in Seq(Words)
    BY <1>3, KnownNames, WordsOf DEF Ends
  <2>3. Letter("N") \o Template \o Typename \o X \o Letter("E")
          = Letter("N") \o (Template \o Typename \o X) \o Letter("E")
    <3>1. PICK Y : Y = Template \o Typename
      OBVIOUS
    <3>a. PICK o \in Seq(Words) : o = Letter("N")
      BY <2>1
    <3>b. o \o Template \o Typename = o \o Y /\ Y \in Seq(Words)
      BY <2>2, <3>1, RegroupOne
    <3>2. Y \in Seq(Words) /\ Letter("N") \o Template \o Typename = Letter("N") \o Y
      BY <3>a, <3>b
    <3>c. PICK e \in Seq(Words) : e = Letter("E")
      BY <2>1
    <3>d. X \in Seq(Words) /\ Y \in Seq(Words)
      BY <2>2, <3>2
    <3>3. o \o Y \o X \o e = o \o (Y \o X) \o e
      BY <3>d, RegroupTwo
    <3> QED
      BY <3>a, <3>c, <3>1, <3>2, <3>3
  <2> QED
    BY <1>2, <1>6, <2>3 DEF MangleTemplateTypeParm
<1>8. MangleTemplateTypeParm(p) = << << "N" >> >> \o P \o << << "E" >> >>
  BY <1>7 DEF Letter
<1> QED
  BY <1>5, <1>6, <1>8, FineWrap

-----------------------------------------------------------------------------
(* Every type and every argument mangles to a balanced list of pieces, and a *)
(* type to one that begins with a letter.                                  *)

Leading == {<< c >> : c \in {"K", "V", "P", "R", "O", "N", "A", "F"}}
TypeStart(P) ==
  P # << >> /\ (P[1] \in Leading \/ (P[1] \in Single /\ Len(P) = 1))

Mangles(x) ==
  Fine(MangleType[x]) /\ (x \in QualType => TypeStart(MangleType[x]))

LEMMA FineWords ==
  ASSUME NEW P, Fine(P)
  PROVE  P \in Seq(Words) /\ Balanced(P) /\ Ends(P)
BY WordsOf DEF Fine, Ends

(* One text for each member of a list.                                     *)
LEMMA FineEach ==
  ASSUME NEW S, NEW list \in Seq(S), NEW s, DOMAIN s = DOMAIN list,
         s = [i \in DOMAIN list |-> s[i]], \A i \in DOMAIN list : Fine(s[i])
  PROVE  Fine(Concat(s)) /\ s \in Seq(Seq(Words))
<1>1. PICK n \in Nat : n = Len(list) /\ DOMAIN list = 1..n
  OBVIOUS
<1>2. \A i \in 1..n : s[i] \in Seq(Words)
  BY <1>1, FineWords
<1>3. s \in [1..n -> Seq(Words)]
  BY <1>1, <1>2
<1>4. s \in Seq(Seq(Words)) /\ Len(s) = n
  BY <1>3
<1> QED
  BY <1>1, <1>4, FineFlatten

(* The text of something that begins with a letter is a name.              *)
LEMMA ConcatHead ==
  ASSUME NEW P \in Seq(Words), P # << >>
  PROVE  Concat(P) \in Text \ {<< >>} /\ Concat(P)[1] = P[1][1]
<1>1. P \in Seq(Seq(Char))
  BY SeqSubset DEF Words, Text
<1>2. P[1] \in Words
  BY EmptySeq
<1>3. << P[1] >> \in Seq(Seq(Char)) /\ Tail(P) \in Seq(Seq(Char))
  BY <1>1, <1>2, HeadTailProperties DEF Words, Text
<1>4. P = << P[1] >> \o Tail(P)
  <2>1. Len(P) \in Nat \ {0} /\ Tail(P) \in Seq(Words) /\ Len(Tail(P)) = Len(P) - 1
        /\ \A i \in 1..(Len(P) - 1) : Tail(P)[i] = P[i + 1]
    BY EmptySeq, HeadTailProperties
  <2>2. PICK R : R = << P[1] >> \o Tail(P)
    OBVIOUS
  <2>3. << P[1] >> \in Seq(Words) /\ Len(<< P[1] >>) = 1 /\ << P[1] >>[1] = P[1]
    BY <1>2
  <2>4. PICK n \in Nat : n = Len(P)
    OBVIOUS
  <2>5. /\ R \in Seq(Words) /\ Len(R) = 1 + (n - 1)
        /\ \A i \in 1..(1 + (n - 1)) : R[i] = IF i <= 1 THEN << P[1] >>[i] ELSE Tail(P)[i - 1]
    BY <2>1, <2>2, <2>3, <2>4, ConcatProperties
  <2>6. ASSUME NEW i \in 1..n PROVE R[i] = P[i]
    <3>1. CASE i = 1
      BY <2>1, <2>3, <2>4, <2>5, <3>1
    <3>2. CASE i # 1
      <4>1. i - 1 \in 1..(n - 1) /\ i \in 1..(1 + (n - 1)) /\ ~(i <= 1) /\ i - 1 + 1 = i
        BY <3>2
      <4> QED
        BY <2>1, <2>4, <2>5, <4>1
    <3> QED
      BY <3>1, <3>2
  <2>7. Len(R) = Len(P)
    BY <2>4, <2>5
  <2>8. R = P
    BY <2>4, <2>5, <2>6, <2>7, SeqEqual
  <2> QED
    BY <2>2, <2>8
<1>5. Concat(P) = P[1] \o Concat(Tail(P))
  <2>1. PICK a : a = << P[1] >>
    OBVIOUS
  <2>2. PICK b : b = Tail(P)
    OBVIOUS
  <2>3. FlattenSeq(a \o b) = FlattenSeq(a) \o FlattenSeq(b)
    BY <1>3, <2>1, <2>2, FlattenConcat
  <2>4. FlattenSeq(a) = P[1]
    <3>1. P[1] \in Seq(Char)
      BY <1>2 DEF Words, Text
    <3> QED
      BY <2>1, <3>1, FlattenOne
  <2> QED
    BY <1>4, <2>1, <2>2, <2>3, <2>4 DEF Concat
<1>6. Concat(Tail(P)) \in Seq(Char) /\ P[1] \in Seq(Char) /\ P[1] # << >>
  BY <1>2, <1>3, FlattenTyped DEF Concat, Words, Text
<1>7. /\ P[1] \o Concat(Tail(P)) # << >> /\ (P[1] \o Concat(Tail(P)))[1] = P[1][1]
      /\ P[1] \o Concat(Tail(P)) \in Seq(Char)
  BY <1>6, ConcatEnds, ConcatProperties
<1> QED
  BY <1>5, <1>7 DEF Text

LEMMA FineName ==
  ASSUME NEW P, Fine(P), P # << >>
  PROVE  Concat(P) \in Name \ {<< >>}
<1>1. P \in Seq(Words) /\ P[1][1] \notin Digit
  BY FineWords DEF Fine
<1>2. Concat(P) \in Text \ {<< >>} /\ Concat(P)[1] = P[1][1]
  BY <1>1, ConcatHead
<1>3. Head(Concat(P)) = Concat(P)[1]
  BY <1>2 DEF Text
<1> QED
  BY <1>1, <1>2, <1>3 DEF Name

LEMMA ArgumentsFine ==
  ASSUME NEW list \in Seq(Argument), \A j \in DOMAIN list : Fine(MangleType[list[j]])
  PROVE  Fine(MangleTemplateArgumentList(MangleType, list))
<1>1. PICK s : s = [j \in DOMAIN list |-> MangleType[list[j]]]
  OBVIOUS
<1>2. DOMAIN s = DOMAIN list /\ s = [j \in DOMAIN list |-> s[j]] /\ \A j \in DOMAIN list : Fine(s[j])
  BY <1>1
<1>3. Fine(Concat(s))
  BY <1>2, FineEach
<1> QED
  BY <1>1, <1>3 DEF MangleTemplateArgumentList

LEMMA LevelBalanced ==
  ASSUME NEW l \in Level, \A j \in DOMAIN l.args : Fine(MangleType[l.args[j]])
  PROVE  /\ Balanced(EncodeRecordDecl(MangleType, l))
         /\ l.special \/ l.name # << >> => Ends(EncodeRecordDecl(MangleType, l))
<1>1. l.name \in Name /\ l.special \in BOOLEAN /\ l.args \in Seq(Argument)
  BY DEF Level
<1>2. Balanced(EncodeNs(l.name)) /\ (l.name # << >> => Ends(EncodeNs(l.name)))
  BY <1>1, NameBalanced
<1>3. CASE ~l.special
  <2>1. EncodeNs(l.name) \o << >> = EncodeNs(l.name)
    BY <1>2, WordsOf, ConcatEmptySeq
  <2>2. EncodeRecordDecl(MangleType, l) = EncodeNs(l.name)
    BY <1>3, <2>1 DEF EncodeRecordDecl
  <2> QED
    BY <1>2, <1>3, <2>2
<1>4. CASE l.special
  <2>1. PICK A : A = MangleTemplateArgumentList(MangleType, l.args)
    OBVIOUS
  <2>2. Balanced(A)
    BY <1>1, <2>1, ArgumentsFine, FineWords
  <2>3. PICK W : W = << << "I" >> >> \o A \o << << "E" >> >>
    OBVIOUS
  <2>4. Fine(W) /\ W # << >>
    BY <2>2, <2>3, FineWrap
  <2>5. EncodeRecordDecl(MangleType, l) = EncodeNs(l.name) \o W
    BY <1>4, <2>1, <2>3 DEF EncodeRecordDecl, Letter
  <2>6. Balanced(EncodeNs(l.name) \o W) /\ Ends(EncodeNs(l.name) \o W)
    BY <1>2, <2>4, ThenFine
  <2> QED
    BY <2>5, <2>6
<1> QED
  BY <1>1, <1>3, <1>4

LEMMA RecordBalanced ==
  ASSUME NEW path \in Seq(Level), NamesApart(path),
         \A i \in DOMAIN path : \A j \in DOMAIN path[i].args : Fine(MangleType[path[i].args[j]])
  PROVE  Balanced(MangleRecordDecl(MangleType, path))
<1>1. PICK n \in Nat : n = Len(path) /\ DOMAIN path = 1..n
  OBVIOUS
<1>2. PICK s : s = [i \in DOMAIN path |-> EncodeRecordDecl(MangleType, path[i])]
  OBVIOUS
<1>3. ASSUME NEW i \in 1..n
      PROVE  Balanced(s[i]) /\ (i < n => Ends(s[i]))
  <2>1. path[i] \in Level /\ \A j \in DOMAIN path[i].args : Fine(MangleType[path[i].args[j]])
    BY <1>1
  <2>2. i < n => path[i].special \/ path[i].name # << >>
    BY <1>1 DEF NamesApart
  <2>3. s[i] = EncodeRecordDecl(MangleType, path[i])
    BY <1>1, <1>2
  <2> QED
    BY <2>1, <2>2, <2>3, LevelBalanced
<1>4. s \in [1..n -> Seq(Words)]
  <2>1. \A i \in 1..n : s[i] \in Seq(Words)
    BY <1>3, WordsOf
  <2> QED
    BY <1>1, <1>2, <2>1
<1>5. s \in Seq(Seq(Words)) /\ Len(s) = n
  BY <1>4
<1>6. PICK f \in [0..Len(s) -> Seq(Words)] : Flattens(f, s) /\ FlattenSeq(s) = f[Len(s)]
  BY <1>5, FlattenFold
<1>7. f[0] = << >> /\ \A i \in 1..n : f[i] = Join(f[i - 1], s[i])
  BY <1>5, <1>6 DEF Flattens
<1> DEFINE T == {k \in Nat : k \in 0..n => Balanced(f[k]) /\ (k < n => Ends(f[k]))}
<1>8. 0 \in T
  BY <1>7, FineEmpty DEF Fine, Ends
<1>9. ASSUME NEW k \in Nat, k \in T PROVE k + 1 \in T
  <2> SUFFICES ASSUME k + 1 \in 0..n
               PROVE  Balanced(f[k + 1]) /\ (k + 1 < n => Ends(f[k + 1]))
    OBVIOUS
  <2>1. k \in 0..n /\ k < n /\ k + 1 \in 1..n /\ k + 1 - 1 = k
    OBVIOUS
  <2>2. Ends(f[k]) /\ Balanced(s[k + 1]) /\ (k + 1 < n => Ends(s[k + 1]))
    BY <1>3, <1>9, <2>1
  <2>3. Balanced(f[k] \o s[k + 1]) /\ (k + 1 < n => Ends(f[k] \o s[k + 1]))
    <3>1. PICK a : a = f[k]
      OBVIOUS
    <3>2. PICK b : b = s[k + 1]
      OBVIOUS
    <3>3. Ends(a) /\ Balanced(b) /\ (k + 1 < n => Ends(b))
      BY <2>2, <3>1, <3>2
    <3>4. Balanced(a \o b)
      BY <3>3, EndsThen
    <3>5. k + 1 < n => Ends(a \o b)
      BY <3>3, EndsConcat
    <3> QED
      BY <3>1, <3>2, <3>4, <3>5
  <2>4. f[k + 1] = f[k] \o s[k + 1]
    <3>1. f[k + 1] = Join(f[k], s[k + 1])
      BY <1>7, <2>1
    <3> QED
      BY <3>1 DEF Join
  <2> QED
    BY <2>3, <2>4
<1>10. Nat \subseteq T
  <2> HIDE DEF T
  <2> QED
    BY <1>8, <1>9, InductionOnNat
<1>11. Balanced(f[n])
  BY <1>10
<1> QED
  BY <1>2, <1>5, <1>6, <1>11 DEF MangleRecordDecl, Concat

LEMMA TemplateParmFine ==
  ASSUME NEW p \in TypeParm \cup ValueParm, ParmApart(p),
         p.kind = "value" => Mangles(p.of)
  PROVE  /\ Fine(MangleTemplateParm(MangleType, p)) /\ MangleTemplateParm(MangleType, p) # << >>
         /\ MangleTemplateParm(MangleType, p)[1] = << "N" >>
<1>1. CASE p \in TypeParm
  <2>1. p.kind = "parameter"
    BY <1>1 DEF TypeParm
  <2>2. MangleTemplateParm(MangleType, p) = MangleTemplateTypeParm(p)
    BY <2>1 DEF MangleTemplateParm
  <2> QED
    BY <1>1, <2>2, TypeParmFine
<1>2. CASE p \in ValueParm
  <2>1. p.kind = "value" /\ p.of \in QualType /\ p.pack \in BOOLEAN
    BY <1>2 DEF ValueParm
  <2>2. PICK t : t = Concat(MangleType[p.of]) \o (IF p.pack THEN << "z" >> ELSE << >>)
    OBVIOUS
  <2>3. t \in Name \ {<< >>}
    <3>1. Concat(MangleType[p.of]) \in Name \ {<< >>}
      BY <2>1, FineName DEF Mangles, TypeStart
    <3>2. PICK c : c = Concat(MangleType[p.of])
      OBVIOUS
    <3>3. PICK z \in Seq(Char) : z = IF p.pack THEN << "z" >> ELSE << >>
      <4>1. << "z" >> \in Seq(Char) /\ << >> \in Seq(Char)
        BY LettersAre
      <4> QED
        BY <4>1
    <3>4. c \in Seq(Char) /\ c # << >> /\ Head(c) \notin Digit
      BY <3>1, <3>2 DEF Name, Text
    <3>5. c \o z \in Seq(Char) /\ c \o z # << >> /\ (c \o z)[1] = c[1]
      BY <3>4, ConcatEnds, ConcatProperties
    <3>6. c[1] = Head(c) /\ Head(c \o z) = (c \o z)[1]
      BY <3>4, <3>5
    <3>7. c \o z \in Name \ {<< >>}
      BY <3>4, <3>5, <3>6 DEF Name, Text
    <3> QED
      BY <2>2, <3>2, <3>3, <3>7
  <2>4. Ends(EncodeNs(t))
    BY <2>3, NameBalanced
  <2>5. PICK D : D = Template \o Decltype
    OBVIOUS
  <2>6. Ends(D)
    BY <2>5, KnownNames, EndsConcat
  <2>7. Balanced(D \o EncodeNs(t))
    BY <2>4, <2>6, EndsThen DEF Ends
  <2>8. PICK P : P = D \o EncodeNs(t)
    OBVIOUS
  <2>9. PICK o \in Seq(Words) : o = Letter("N")
    BY LetterWords
  <2>10. PICK e \in Seq(Words) : e = Letter("E")
    BY LetterWords
  <2>11. Template \in Seq(Words) /\ Decltype \in Seq(Words)
    BY KnownNames, WordsOf DEF Ends
  <2>12. o \o Template \o Decltype = o \o D /\ D \in Seq(Words)
    BY <2>5, <2>11, RegroupOne
  <2>13. PICK y \in Seq(Words) : y = EncodeNs(t)
    BY <2>4, WordsOf DEF Ends
  <2>14. D \in Seq(Words)
    BY <2>12
  <2>15. o \o D \o y \o e = o \o (D \o y) \o e
    BY <2>14, RegroupTwo
  <2>16. MangleTemplateParm(MangleType, p) = Letter("N") \o Template \o Decltype \o EncodeNs(t) \o Letter("E")
    BY <2>1, <2>2 DEF MangleTemplateParm
  <2>17. MangleTemplateParm(MangleType, p) = << << "N" >> >> \o P \o << << "E" >> >>
    <3>1. MangleTemplateParm(MangleType, p) = o \o P \o e
      BY <2>8, <2>9, <2>10, <2>12, <2>13, <2>15, <2>16
    <3> QED
      BY <3>1, <2>9, <2>10 DEF Letter
  <2> QED
    BY <2>7, <2>8, <2>17, FineWrap
<1> QED
  BY <1>1, <1>2

LEMMA ParameterListFine ==
  ASSUME NEW list \in Seq(TypeParm \cup ValueParm),
         \A i \in DOMAIN list : ParmApart(list[i]) /\ (list[i].kind = "value" => Mangles(list[i].of))
  PROVE  /\ Fine(MangleTemplateParameterList(MangleType, list))
         /\ MangleTemplateParameterList(MangleType, list) # << >>
         /\ MangleTemplateParameterList(MangleType, list)[1] = << "I" >>
<1>1. PICK s : s = [i \in DOMAIN list |-> MangleTemplateParm(MangleType, list[i])]
  OBVIOUS
<1>2. \A i \in DOMAIN list : list[i] \in TypeParm \cup ValueParm
  OBVIOUS
<1>3. \A i \in DOMAIN list : Fine(MangleTemplateParm(MangleType, list[i]))
  BY <1>2, TemplateParmFine
<1>4. DOMAIN s = DOMAIN list /\ s = [j \in DOMAIN list |-> s[j]] /\ \A j \in DOMAIN list : Fine(s[j])
  BY <1>1, <1>3
<1>5. Fine(Concat(s))
  BY <1>4, FineEach
<1>6. PICK P : P = Concat(s)
  OBVIOUS
<1>7. Balanced(P)
  BY <1>5, <1>6, FineWords
<1>8. MangleTemplateParameterList(MangleType, list) = << << "I" >> >> \o P \o << << "E" >> >>
  BY <1>1, <1>6 DEF MangleTemplateParameterList, Letter
<1> QED
  BY <1>7, <1>8, FineWrap

LEMMA ParmListFine ==
  ASSUME NEW f, f.params \in Seq(QualType), f.variadic \in BOOLEAN,
         \A i \in DOMAIN f.params : Mangles(f.params[i])
  PROVE  Fine(MangleFunctionParmList(MangleType, f))
<1>1. PICK s : s = [i \in DOMAIN f.params |-> MangleType[f.params[i]]]
  OBVIOUS
<1>2. DOMAIN s = DOMAIN f.params /\ s = [j \in DOMAIN f.params |-> s[j]]
      /\ \A j \in DOMAIN f.params : Fine(s[j])
  BY <1>1 DEF Mangles
<1>3. Fine(Concat(s))
  BY <1>2, FineEach
<1>4. PICK z : z = IF f.variadic THEN Letter("z")
                   ELSE IF f.params = << >> THEN Letter("v") ELSE << >>
  OBVIOUS
<1>5. Fine(z)
  <2>1. << "z" >> \in Single /\ << "v" >> \in Single
    BY DEF Single, Builtin
  <2>2. Fine(Letter("z")) /\ Fine(Letter("v"))
    BY <2>1, FineSingle DEF Letter
  <2> QED
    BY <1>4, <2>2, FineEmpty
<1>6. Fine(Concat(s) \o z)
  BY <1>3, <1>5, FineConcat
<1> QED
  BY <1>1, <1>4, <1>6 DEF MangleFunctionParmList

LEMMA PutLast ==
  ASSUME NEW S, NEW s \in Seq(S), NEW t \in Seq(S), NEW x \in S,
         Len(t) = Len(s) + 1, t[Len(t)] = x, \A i \in 1..Len(s) : t[i] = s[i]
  PROVE  s \o << x >> = t
<1>0. PICK n \in Nat : n = Len(s)
  OBVIOUS
<1>1. PICK R : R = s \o << x >>
  OBVIOUS
<1>2. << x >> \in Seq(S) /\ Len(<< x >>) = 1 /\ << x >>[1] = x
  OBVIOUS
<1>3. /\ R \in Seq(S) /\ Len(R) = n + 1
      /\ \A i \in 1..(n + 1) : R[i] = IF i <= n THEN s[i] ELSE << x >>[i - n]
  BY <1>0, <1>1, <1>2, ConcatProperties
<1>4. \A i \in 1..(n + 1) : R[i] = t[i]
  <2> TAKE i \in 1..(n + 1)
  <2>1. CASE i <= n
    BY <1>0, <1>3, <2>1
  <2>2. CASE ~(i <= n)
    <3>1. i = n + 1 /\ i - n = 1
      BY <2>2
    <3> QED
      BY <1>0, <1>2, <1>3, <2>2, <3>1
  <2> QED
    BY <2>1, <2>2
<1>5. R = t
  BY <1>0, <1>3, <1>4, SeqEqual
<1> QED
  BY <1>1, <1>5

LEMMA FourTuple ==
  ASSUME NEW a, NEW b, NEW c, NEW d
  PROVE  << a >> \o << b >> \o << c >> \o << d >> = << a, b, c, d >>
<1> DEFINE S == {a, b, c, d}
<1>1. PICK s1 : s1 = << a >>
  OBVIOUS
<1>2. PICK s2 : s2 = << a, b >>
  OBVIOUS
<1>3. PICK s3 : s3 = << a, b, c >>
  OBVIOUS
<1>4. PICK s4 : s4 = << a, b, c, d >>
  OBVIOUS
<1>5. /\ s1 \in Seq(S) /\ Len(s1) = 1 /\ s1[1] = a
      /\ s2 \in Seq(S) /\ Len(s2) = 2 /\ s2[1] = a /\ s2[2] = b
      /\ s3 \in Seq(S) /\ Len(s3) = 3 /\ s3[1] = a /\ s3[2] = b /\ s3[3] = c
      /\ s4 \in Seq(S) /\ Len(s4) = 4 /\ s4[1] = a /\ s4[2] = b /\ s4[3] = c /\ s4[4] = d
  BY <1>1, <1>2, <1>3, <1>4
<1>6. b \in S /\ c \in S /\ d \in S
  OBVIOUS
<1> HIDE DEF S
<1>7. s1 \o << b >> = s2
  <2>1. Len(s2) = Len(s1) + 1 /\ s2[Len(s2)] = b /\ \A i \in 1..Len(s1) : s2[i] = s1[i]
    BY <1>5
  <2>2. s1 \in Seq(S) /\ s2 \in Seq(S) /\ b \in S
    BY <1>5, <1>6
  <2> QED
    BY <2>1, <2>2, PutLast
<1>8. s2 \o << c >> = s3
  <2>1. Len(s3) = Len(s2) + 1 /\ s3[Len(s3)] = c /\ \A i \in 1..Len(s2) : s3[i] = s2[i]
    BY <1>5
  <2>2. s2 \in Seq(S) /\ s3 \in Seq(S) /\ c \in S
    BY <1>5, <1>6
  <2> QED
    BY <2>1, <2>2, PutLast
<1>9. s3 \o << d >> = s4
  <2>1. Len(s4) = Len(s3) + 1 /\ s4[Len(s4)] = d /\ \A i \in 1..Len(s3) : s4[i] = s3[i]
    BY <1>5
  <2>2. s3 \in Seq(S) /\ s4 \in Seq(S) /\ d \in S
    BY <1>5, <1>6
  <2> QED
    BY <2>1, <2>2, PutLast
<1> QED
  BY <1>1, <1>2, <1>3, <1>4, <1>7, <1>8, <1>9

LEMMA LeadingLetter ==
  ASSUME NEW c \in {"K", "V", "P", "R", "O"}, NEW P, Fine(P)
  PROVE  Fine(Letter(c) \o P) /\ TypeStart(Letter(c) \o P)
<1>1. << c >> \in Single /\ << c >> \in Leading
  BY DEF Single, Modifier, Leading
<1>2. Letter(c) = << << c >> >>
  BY DEF Letter
<1>3. PICK o : o = << << c >> >>
  OBVIOUS
<1>4. Fine(o)
  BY <1>1, <1>3, FineSingle
<1>5. Fine(o \o P)
  BY <1>4, FineConcat
<1>6. o \in Seq(Words) /\ P \in Seq(Words) /\ o # << >> /\ o[1] = << c >>
  BY <1>3, <1>4, FineWords
<1>7. o \o P # << >> /\ (o \o P)[1] = << c >>
  BY <1>6, ConcatEnds
<1> QED
  BY <1>1, <1>2, <1>3, <1>5, <1>7 DEF TypeStart

LEMMA TypePtrFine ==
  ASSUME NEW q \in QualType, \A y \in Parts(q) : Mangles(y)
  PROVE  /\ Fine(MangleTypePtr(MangleType, q.type))
         /\ TypeStart(MangleTypePtr(MangleType, q.type))
<1> DEFINE t == q.type
           M == MangleTypePtr(MangleType, t)
<1>1. CASE t.kind = "builtin"
  <2>1. t.letter \in Single
    <3>1. t.letter \in BuiltinLetter
      BY <1>1, TypeCases
    <3>2. CASE t.letter = << "D", "n" >>
      BY <3>2 DEF Single, NullPtr
    <3>3. CASE t.letter # << "D", "n" >>
      BY <3>1, <3>3 DEF BuiltinLetter, Single, Builtin
    <3> QED
      BY <3>2, <3>3
  <2>2. M = << t.letter >>
    BY <1>1 DEF MangleTypePtr
  <2>3. << t.letter >> # << >> /\ Len(<< t.letter >>) = 1 /\ << t.letter >>[1] = t.letter
    OBVIOUS
  <2>4. Fine(<< t.letter >>)
    BY <2>1, FineSingle
  <2> QED
    BY <2>1, <2>2, <2>3, <2>4 DEF TypeStart
<1>2. CASE t.kind = "unknown"
  <2>1. M = UNKNOWN_TYPE
    BY <1>2 DEF MangleTypePtr
  <2> QED
    BY <2>1, UnknownFine DEF TypeStart, Leading
<1>3. CASE t.kind \in {"pointer", "member pointer", "rvalue", "reference"}
  <2>1. Fine(MangleType[t.of])
    BY <1>3, TypeParts DEF Mangles
  <2>2. \E c \in {"P", "R", "O"} : M = Letter(c) \o MangleType[t.of]
    BY <1>3 DEF MangleTypePtr
  <2> QED
    BY <2>1, <2>2, LeadingLetter
<1>4. CASE t.kind = "sugar"
  <2>1. t.of \in QualType /\ Mangles(t.of)
    BY <1>4, TypeParts, TypeCases
  <2>2. M = MangleType[t.of]
    BY <1>4 DEF MangleTypePtr
  <2> QED
    BY <2>1, <2>2 DEF Mangles
<1>5. CASE t.kind = "record"
  <2>1. t.path \in Seq(Level) /\ NamesApart(t.path)
    BY <1>5, TypeCases, DeclarationAssumption
  <2>2. \A i \in DOMAIN t.path : \A j \in DOMAIN t.path[i].args :
          Fine(MangleType[t.path[i].args[j]])
    BY <1>5, TypeParts DEF Mangles
  <2>3. PICK P : P = MangleRecordDecl(MangleType, t.path)
    OBVIOUS
  <2>4. Balanced(P)
    BY <2>1, <2>2, <2>3, RecordBalanced
  <2>5. M = << << "N" >> >> \o P \o << << "E" >> >>
    BY <1>5, <2>3 DEF MangleTypePtr, Letter
  <2>6. Fine(M) /\ M # << >> /\ M[1] = << "N" >>
    BY <2>4, <2>5, FineWrap
  <2> QED
    BY <2>6 DEF TypeStart, Leading
<1>6. CASE t.kind = "template"
  <2>1. t.name \in Name /\ t.list \in Seq(TypeParm \cup ValueParm)
    BY <1>6, TypeCases
  <2>2. \A i \in DOMAIN t.list : ParmApart(t.list[i]) /\ (t.list[i].kind = "value" => Mangles(t.list[i].of))
    BY <1>6, TypeParts, DeclarationAssumption
  <2>3. PICK y : y = EncodeNs(t.name)
    OBVIOUS
  <2>4. PICK l : l = MangleTemplateParameterList(MangleType, t.list)
    OBVIOUS
  <2>5. Balanced(y) /\ Fine(l)
    BY <2>1, <2>2, <2>3, <2>4, NameBalanced, ParameterListFine
  <2>6. Balanced(y \o l)
    BY <2>5, ThenFine
  <2>7. PICK P : P = y \o l
    OBVIOUS
  <2>8. PICK o \in Seq(Words) : o = Letter("N")
    BY LetterWords
  <2>9. PICK e \in Seq(Words) : e = Letter("E")
    BY LetterWords
  <2>10. y \in Seq(Words) /\ l \in Seq(Words)
    BY <2>5, FineWords, WordsOf
  <2>11. o \o y \o l \o e = o \o (y \o l) \o e
    BY <2>10, RegroupTwo
  <2>12. M = o \o y \o l \o e
    BY <1>6, <2>3, <2>4, <2>8, <2>9 DEF MangleTypePtr
  <2>13. M = << << "N" >> >> \o P \o << << "E" >> >>
    BY <2>7, <2>8, <2>9, <2>11, <2>12 DEF Letter
  <2>14. Fine(M) /\ M # << >> /\ M[1] = << "N" >>
    BY <2>6, <2>7, <2>13, FineWrap
  <2> QED
    BY <2>14 DEF TypeStart, Leading
<1>7. CASE t.kind = "parameter"
  <2>1. t \in TypeParm /\ ParmApart(t)
    BY <1>7, TypeCases, DeclarationAssumption
  <2>2. M = MangleTemplateTypeParm(t)
    BY <1>7 DEF MangleTypePtr
  <2>3. Fine(M) /\ M # << >> /\ M[1] = << "N" >>
    BY <2>1, <2>2, TypeParmFine
  <2> QED
    BY <2>3 DEF TypeStart, Leading
<1>8. CASE t.kind = "array"
  <2>1. t.size \in Seq(Length) /\ Len(t.size) <= 1 /\ Fine(MangleType[t.of])
    BY <1>8, TypeCases, TypeParts DEF Mangles
  <2>2. PICK A : A = << << "A" >> >> \o t.size \o << << Underscore >> >>
    OBVIOUS
  <2>3. Balanced(A)
    BY <2>1, <2>2, BalancedArray
  <2>4. /\ A # << >> /\ A[1] = << "A" >> /\ A[Len(A)] = << Underscore >>
    <3>1. PICK o : o = << "A" >>
      OBVIOUS
    <3>2. PICK c : c = << Underscore >>
      OBVIOUS
    <3>3. o \in Words /\ c \in Words /\ t.size \in Seq(Words)
      <4>1. Length \subseteq Words
        BY LetterFacts
      <4>2. t.size \in Seq(Words)
        BY <2>1, <4>1, SeqSubset
      <4> QED
        BY <3>1, <3>2, <4>2, LetterFacts
    <3>4. PICK n \in Nat : n = Len(t.size)
      BY <2>1
    <3>5. A = << o >> \o t.size \o << c >>
      BY <2>2, <3>1, <3>2
    <3>6. A \in Seq(Words) /\ Len(A) = n + 2 /\ A[1] = o /\ A[n + 2] = c
      BY <3>3, <3>4, <3>5, Between
    <3> QED
      BY <3>1, <3>2, <3>6
  <2>5. << Underscore >> # << "0" >> /\ << "A" >>[1] \notin Digit
    <3>1. Underscore # "0"
      BY UnderscoreIs, DigitIs
    <3> QED
      BY <3>1, LetterFacts
  <2>6. Fine(A)
    BY <2>3, <2>4, <2>5 DEF Fine, Ends
  <2>7. PICK B : B = MangleType[t.of]
    OBVIOUS
  <2>8. Fine(A \o B)
    BY <2>1, <2>6, <2>7, FineConcat
  <2>9. A \o B # << >> /\ (A \o B)[1] = << "A" >>
    <3>1. A \in Seq(Words) /\ B \in Seq(Words)
      BY <2>1, <2>6, <2>7, FineWords
    <3> QED
      BY <2>4, <3>1, ConcatEnds
  <2>10. M = A \o B
    BY <1>8, <2>2, <2>7 DEF MangleTypePtr, Letter
  <2> QED
    BY <2>8, <2>9, <2>10 DEF TypeStart, Leading
<1>9. CASE t.kind = "function"
  <2>1. /\ t.params \in Seq(QualType) /\ t.variadic \in BOOLEAN
        /\ Fine(MangleType[t.result]) /\ \A i \in DOMAIN t.params : Mangles(t.params[i])
    BY <1>9, TypeCases, TypeParts DEF Mangles
  <2>2. PICK y : y = MangleType[t.result]
    OBVIOUS
  <2>3. PICK l : l = MangleFunctionParmList(MangleType, t)
    OBVIOUS
  <2>4. Fine(y) /\ Fine(l)
    BY <2>1, <2>2, <2>3, ParmListFine
  <2>5. Balanced(y \o l)
    BY <2>4, FineConcat, FineWords
  <2>6. PICK P : P = y \o l
    OBVIOUS
  <2>7. PICK o \in Seq(Words) : o = << << "F" >> >>
    BY LetterWords
  <2>8. PICK e \in Seq(Words) : e = << << "E" >> >>
    BY LetterWords
  <2>9. y \in Seq(Words) /\ l \in Seq(Words)
    BY <2>4, FineWords
  <2>10. o \o y \o l \o e = o \o (y \o l) \o e
    BY <2>9, RegroupTwo
  <2>11. M = o \o y \o l \o e
    BY <1>9, <2>2, <2>3, <2>7, <2>8 DEF MangleTypePtr, Letter
  <2>12. M = << << "F" >> >> \o P \o << << "E" >> >>
    BY <2>6, <2>7, <2>8, <2>10, <2>11
  <2>13. Fine(M) /\ M # << >> /\ M[1] = << "F" >>
    BY <2>5, <2>6, <2>12, FineWrap
  <2> QED
    BY <2>13 DEF TypeStart, Leading
<1> QED
  BY <1>1, <1>2, <1>3, <1>4, <1>5, <1>6, <1>7, <1>8, <1>9, TypeCases

LEMMA MangleStepFine ==
  ASSUME NEW x \in Term, \A y \in Parts(x) : Mangles(y)
  PROVE  Mangles(x)
<1>1. MangleType[x] = MangleStep(MangleType, x)
  BY MangleEquation
<1>2. CASE x \in QualType
  <2>1. PICK P : P = MangleTypePtr(MangleType, x.type)
    OBVIOUS
  <2>2. Fine(P) /\ TypeStart(P)
    BY <1>2, <2>1, TypePtrFine
  <2>3. MangleType[x] = Qualifiers(x) \o P
    BY <1>1, <1>2, <2>1, TermCases DEF MangleStep
  <2>4. P \in Seq(Words)
    BY <2>2, FineWords
  <2>5. PICK k : k = IF IsConst[x] THEN Letter("K") ELSE << >>
    OBVIOUS
  <2>6. PICK v : v = IF IsVolatile[x] THEN Letter("V") ELSE << >>
    OBVIOUS
  <2>7. k \in {Letter("K"), << >>} /\ v \in {Letter("V"), << >>}
    BY <2>5, <2>6
  <2>8. k \in Seq(Words) /\ v \in Seq(Words)
    <3>1. Letter("K") \in Seq(Words) /\ Letter("V") \in Seq(Words)
      <4>1. << "K" >> \in Words /\ << "V" >> \in Words
        BY LettersAre, OneLetter DEF Modifier
      <4> QED
        BY <4>1 DEF Letter
    <3>2. << >> \in Seq(Words)
      OBVIOUS
    <3> QED
      BY <2>7, <3>1, <3>2
  <2>9. PICK R : R = v \o P
    OBVIOUS
  <2>10. Fine(R) /\ TypeStart(R)
    <3>1. CASE v = << >>
      BY <2>2, <2>4, <2>9, <3>1, ConcatEnds
    <3>2. CASE v = Letter("V")
      BY <2>2, <2>9, <3>2, LeadingLetter
    <3> QED
      BY <2>7, <3>1, <3>2
  <2>11. Fine(k \o R) /\ TypeStart(k \o R)
    <3>1. CASE k = << >>
      <4>1. R \in Seq(Words)
        BY <2>10, FineWords
      <4> QED
        BY <2>8, <2>10, <3>1, <4>1, ConcatEnds
    <3>2. CASE k = Letter("K")
      BY <2>10, <3>2, LeadingLetter
    <3> QED
      BY <2>7, <3>1, <3>2
  <2>12. k \o v \o P = k \o R
    BY <2>4, <2>8, <2>9, RegroupOne
  <2>13. MangleType[x] = k \o v \o P
    BY <2>3, <2>5, <2>6 DEF Qualifiers
  <2> QED
    BY <2>11, <2>12, <2>13 DEF Mangles
<1>3. CASE x \in Argument
  <2>0. "kind" \in DOMAIN x /\ x \notin QualType
    BY <1>3, TermCases
  <2>1. MangleType[x] = MangleTemplateArgument(MangleType, x)
    BY <1>1, <2>0 DEF MangleStep
  <2>2. SUFFICES Fine(MangleTemplateArgument(MangleType, x))
    BY <2>0, <2>1 DEF Mangles
  <2>3. CASE x.kind = "null"
    <3>1. PICK P : P = << >>
      OBVIOUS
    <3>2. Balanced(P)
      BY <3>1, BalancedEmpty
    <3>3. Fine(<< << "N" >> >> \o P \o << << "E" >> >>)
      BY <3>2, FineWrap
    <3>4. << << "N" >> >> \o P = << << "N" >> >>
      BY <3>1, LetterWords, ConcatEmptySeq
    <3> QED
      BY <2>3, <3>3, <3>4 DEF MangleTemplateArgument, Letter
  <2>4. CASE x.kind = "type"
    BY <1>3, <2>4, ArgumentParts DEF Mangles, MangleTemplateArgument
  <2>5. CASE x.kind = "nullptr"
    <3>1. NullPtr \in Single
      BY DEF Single
    <3> QED
      BY <2>5, <3>1, FineSingle DEF MangleTemplateArgument, NullPtr
  <2>6. CASE x.kind = "value"
    <3>0. PICK n : n = Decimal10[Unsigned(x)]
      OBVIOUS
    <3>1. n \in Numeral
      <4>1. n \in Seq(Digit) /\ Len(n) \in Nat \ {0}
        BY <1>3, <2>6, <3>0, ArgumentCases, NumberOfDecimal
      <4>2. n # << >>
        BY <4>1
      <4> QED
        BY <4>1, <4>2 DEF Numeral
    <3>2. PICK P : P = << << "L" >>, << "i" >>, n, << "E" >> >>
      OBVIOUS
    <3>3. Balanced(P)
      BY <3>1, <3>2, BalancedValue
    <3>4. P # << >> /\ P[1][1] = "L" /\ P[Len(P)] = << "E" >>
      BY <3>2
    <3>5. Fine(P)
      <4>1. << "E" >> # << "0" >> /\ "L" \notin Digit
        BY LetterFacts
      <4> QED
        BY <3>3, <3>4, <4>1 DEF Fine, Ends
    <3>6. MangleTemplateArgument(MangleType, x) = P
      BY <2>6, <3>0, <3>2, FourTuple DEF MangleTemplateArgument, Letter
    <3> QED
      BY <3>5, <3>6
  <2>7. CASE x.kind = "pack"
    <3>1. x.args \in Seq(Argument) /\ \A j \in DOMAIN x.args : Fine(MangleType[x.args[j]])
      BY <1>3, <2>7, ArgumentCases, ArgumentParts DEF Mangles
    <3> QED
      BY <2>7, <3>1, ArgumentsFine DEF MangleTemplateArgument
  <2> QED
    BY <1>3, <2>3, <2>4, <2>5, <2>6, <2>7, ArgumentCases
<1> QED
  BY <1>2, <1>3, TermCases

LEMMA MangledFine == \A x \in Term : Mangles(x)
<1> DEFINE T == {n \in Nat : \A x \in Upto(n) : Mangles(x)}
<1>1. 0 \in T
  BY UptoEmpty
<1>2. ASSUME NEW n \in Nat, n \in T PROVE n + 1 \in T
  <2> SUFFICES ASSUME NEW x \in Upto(n + 1) PROVE Mangles(x)
    OBVIOUS
  <2>1. x \in Term
    BY DEF Upto
  <2>2. \A y \in Parts(x) : Mangles(y)
    BY <1>2, UptoParts
  <2> QED
    BY <2>1, <2>2, MangleStepFine
<1>3. Nat \subseteq T
  <2> HIDE DEF T
  <2> QED
    BY <1>1, <1>2, InductionOnNat
<1> QED
  BY <1>3, UptoMax

-----------------------------------------------------------------------------
(* Where the pieces are in the text that is put together from them.        *)

(* f has the first i pieces of P as one text.                              *)
TextOf(P, f) == f \in [0..Len(P) -> Seq(Char)] /\ Flattens(f, P)

LEMMA TextExists ==
  ASSUME NEW P \in Seq(Words)
  PROVE  \E f : TextOf(P, f) /\ Concat(P) = f[Len(P)]
<1>1. P \in Seq(Seq(Char))
  BY SeqSubset DEF Words, Text
<1> QED
  BY <1>1, FlattenFold DEF TextOf, Concat

(* The text b is the text a and then p.                                    *)
Extends(b, a, p) ==
  /\ a \in Seq(Char) /\ b \in Seq(Char) /\ p \in Words
  /\ Len(a) \in Nat /\ Len(b) \in Nat
  /\ Len(b) = Len(a) + Len(p) /\ Len(p) \in Nat \ {0}
  /\ \A k \in 1..Len(a) : b[k] = a[k]
  /\ \A k \in 1..Len(p) : b[Len(a) + k] = p[k]

LEMMA TextStep ==
  ASSUME NEW P \in Seq(Words), NEW f, TextOf(P, f), NEW i \in 1..Len(P), NEW h \in Nat, h + 1 = i
  PROVE  Extends(f[i], f[h], P[i])
<1>1. h \in 0..Len(P) /\ i \in 0..Len(P)
  OBVIOUS
<1>2. f[h] \in Seq(Char) /\ f[i] \in Seq(Char)
  BY <1>1 DEF TextOf
<1>3. f[i] = Join(f[h], P[i])
  <2>1. h = i - 1
    OBVIOUS
  <2> QED
    BY <2>1 DEF TextOf, Flattens
<1>4. P[i] \in Words /\ P[i] \in Seq(Char) /\ P[i] # << >>
  BY DEF Words, Text
<1>5. PICK a : a = f[h]
  OBVIOUS
<1>6. PICK b : b = P[i]
  OBVIOUS
<1>7. f[i] = a \o b /\ a \in Seq(Char) /\ b \in Seq(Char)
  BY <1>2, <1>3, <1>4, <1>5, <1>6 DEF Join
<1>8. /\ Len(a \o b) = Len(a) + Len(b)
      /\ \A k \in 1..(Len(a) + Len(b)) : (a \o b)[k] = IF k <= Len(a) THEN a[k] ELSE b[k - Len(a)]
  BY <1>7, ConcatProperties
<1>9. Len(a) \in Nat /\ Len(b) \in Nat \ {0}
  BY <1>4, <1>6, <1>7, EmptySeq
<1>10. \A k \in 1..Len(a) : (a \o b)[k] = a[k]
  <2>1. \A k \in 1..Len(a) : k \in 1..(Len(a) + Len(b)) /\ k <= Len(a)
    BY <1>9
  <2> QED
    BY <1>8, <2>1
<1>11. \A k \in 1..Len(b) : (a \o b)[Len(a) + k] = b[k]
  <2>1. \A k \in 1..Len(b) : Len(a) + k \in 1..(Len(a) + Len(b)) /\ ~(Len(a) + k <= Len(a))
                             /\ Len(a) + k - Len(a) = k
    BY <1>9
  <2> QED
    BY <1>8, <2>1
<1>12. f[i] = a \o b /\ a \in Seq(Char) /\ a \o b \in Seq(Char)
  BY <1>7
<1>13. PICK c : c = a \o b
  OBVIOUS
<1>14. c \in Seq(Char) /\ Len(c) \in Nat /\ Len(a) \in Nat /\ f[i] = c
  BY <1>12, <1>13
<1>15. /\ Len(c) = Len(a) + Len(b)
       /\ \A k \in 1..Len(a) : c[k] = a[k]
       /\ \A k \in 1..Len(b) : c[Len(a) + k] = b[k]
  BY <1>8, <1>10, <1>11, <1>13
<1> QED
  BY <1>4, <1>5, <1>6, <1>7, <1>9, <1>14, <1>15 DEF Extends

(* The text of some pieces is a prefix of that of more.                    *)
Precedes(a, b) ==
  /\ Len(a) \in Nat /\ Len(b) \in Nat /\ Len(a) <= Len(b)
  /\ \A k \in 1..Len(a) : b[k] = a[k]

LEMMA TextPrefix ==
  ASSUME NEW P \in Seq(Words), NEW f, TextOf(P, f), NEW i \in 0..Len(P), NEW j \in 0..Len(P), i <= j
  PROVE  Precedes(f[i], f[j]) /\ (i < j => Len(f[i]) < Len(f[j]))
<1>1. PICK n \in Nat : n = Len(P)
  OBVIOUS
<1>2. \A k \in 0..n : f[k] \in Seq(Char) /\ Len(f[k]) \in Nat
  BY <1>1 DEF TextOf
<1> DEFINE Good(e) ==
             /\ Len(f[i]) <= Len(f[e]) /\ (i < e => Len(f[i]) < Len(f[e]))
             /\ \A k \in 1..Len(f[i]) : f[e][k] = f[i][k]
           T == {e \in Nat : i + e \in 0..n => Good(i + e)}
<1>3. 0 \in T
  BY <1>1, <1>2
<1>4. ASSUME NEW e \in Nat, e \in T PROVE e + 1 \in T
  <2> SUFFICES ASSUME i + (e + 1) \in 0..n PROVE Good(i + (e + 1))
    OBVIOUS
  <2>1. PICK h \in Nat : h = i + e
    BY <1>1
  <2>2. h \in 0..n /\ h + 1 = i + (e + 1) /\ h + 1 \in 1..n /\ h + 1 - 1 = h /\ i <= h
    BY <1>1, <2>1
  <2>3. Good(h)
    BY <1>4, <2>1, <2>2
  <2>a. PICK q \in 1..Len(P) : q = h + 1
    BY <1>1, <2>2
  <2>b. h + 1 = q /\ q \in 0..n
    BY <1>1, <2>1, <2>2, <2>a
  <2>4. /\ Len(f[q]) = Len(f[h]) + Len(P[q]) /\ Len(P[q]) \in Nat \ {0}
        /\ \A k \in 1..Len(f[h]) : f[q][k] = f[h][k]
    <3>1. h \in Nat
      BY <2>1
    <3>2. Extends(f[q], f[h], P[q])
      BY <2>b, <3>1, TextStep
    <3> QED
      BY <3>2 DEF Extends
  <2>5. Len(f[i]) \in Nat /\ Len(f[h]) \in Nat /\ Len(f[q]) \in Nat
    BY <1>1, <1>2, <2>2, <2>b
  <2>6. Good(q)
    <3>1. Len(f[i]) <= Len(f[q]) /\ Len(f[i]) < Len(f[q])
      <4>1. Len(f[i]) <= Len(f[h])
        BY <2>3
      <4>2. PICK u \in Nat, v \in Nat, w \in Nat \ {0} :
                   u = Len(f[i]) /\ v = Len(f[h]) /\ w = Len(P[q])
        BY <2>4, <2>5
      <4>3. u <= v /\ Len(f[q]) = v + w
        BY <2>4, <4>1, <4>2
      <4>4. u <= v + w /\ u < v + w
        BY <4>3
      <4> QED
        BY <4>2, <4>3, <4>4
    <3>2. \A k \in 1..Len(f[i]) : k \in 1..Len(f[h])
      BY <2>3, <2>5
    <3> QED
      BY <2>3, <2>4, <3>1, <3>2
  <2> QED
    BY <2>2, <2>a, <2>6
<1>5. Nat \subseteq T
  <2> HIDE DEF T
  <2> QED
    BY <1>3, <1>4, InductionOnNat
<1>6. PICK e \in Nat : e = j - i
  BY <1>1
<1>7. Good(j)
  <2>1. i + e = j /\ j \in 0..n
    BY <1>1, <1>6
  <2>2. e \in T
    BY <1>5
  <2>3. Good(i + e)
    BY <2>1, <2>2
  <2> QED
    BY <2>1, <2>3
<1> QED
  BY <1>1, <1>2, <1>7 DEF Precedes

(* Where a piece is in the text.                                           *)
Placed(P, f, n, i, s, o) ==
  /\ o \in Nat /\ Len(P[i]) \in Nat \ {0} /\ Len(f[i]) = o + Len(P[i])
  /\ s \in Seq(Char) /\ o + Len(P[i]) <= Len(s)
  /\ \A k \in 1..Len(P[i]) : s[o + k] = P[i][k]
  /\ i = n => Len(s) = o + Len(P[i])
  /\ i < n => o + Len(P[i]) < Len(s) /\ s[o + Len(P[i]) + 1] = P[i + 1][1]

LEMMA PieceAt ==
  ASSUME NEW P \in Seq(Words), NEW f, TextOf(P, f), NEW n \in Nat, n = Len(P),
         NEW i \in 1..n, NEW s, s = f[n], NEW o, o = Len(f[i - 1])
  PROVE  Placed(P, f, n, i, s, o)
<1>1. /\ Len(f[i]) = o + Len(P[i]) /\ Len(P[i]) \in Nat \ {0} /\ o \in Nat
      /\ \A k \in 1..Len(P[i]) : f[i][o + k] = P[i][k]
  <2>1. i \in 1..Len(P)
    OBVIOUS
  <2>2. PICK g \in Nat : g = i - 1
    OBVIOUS
  <2>4. g + 1 = i
    BY <2>2
  <2>3. o = Len(f[g])
    BY <2>2
  <2>5. Extends(f[i], f[g], P[i])
    BY <2>1, <2>4, TextStep
  <2> QED
    BY <2>3, <2>5 DEF Extends
<1>2. /\ Len(f[i]) <= Len(s) /\ Len(s) \in Nat /\ (i < n => Len(f[i]) < Len(s))
      /\ \A k \in 1..Len(f[i]) : s[k] = f[i][k]
  <2>1. i \in 0..Len(P) /\ n \in 0..Len(P) /\ i <= n
    OBVIOUS
  <2>2. Precedes(f[i], f[n]) /\ (i < n => Len(f[i]) < Len(f[n]))
    BY <2>1, TextPrefix
  <2> QED
    BY <2>2 DEF Precedes
<1>3. s \in Seq(Char)
  BY DEF TextOf
<1>4. \A k \in 1..Len(P[i]) : s[o + k] = P[i][k]
  <2>1. \A k \in 1..Len(P[i]) : o + k \in 1..Len(f[i])
    <3>1. PICK a \in Nat : a = Len(P[i])
      BY <1>1
    <3>2. PICK w \in Nat : w = o
      BY <1>1
    <3>3. \A k \in 1..a : w + k \in 1..(w + a)
      OBVIOUS
    <3>4. Len(f[i]) = w + a
      BY <1>1, <3>1, <3>2
    <3> QED
      BY <3>1, <3>2, <3>3, <3>4
  <2> QED
    BY <1>1, <1>2, <2>1
<1>5. i < n => s[o + Len(P[i]) + 1] = P[i + 1][1]
  <2> SUFFICES ASSUME i < n PROVE s[o + Len(P[i]) + 1] = P[i + 1][1]
    OBVIOUS
  <2>1. PICK h \in 1..Len(P) : h = i + 1
    OBVIOUS
  <2>2. h \in 1..n /\ i + 1 = h /\ i \in Nat
    BY <2>1
  <2>3. /\ Len(f[h]) = Len(f[i]) + Len(P[h]) /\ Len(P[h]) \in Nat \ {0} /\ Len(f[i]) \in Nat
        /\ \A k \in 1..Len(P[h]) : f[h][Len(f[i]) + k] = P[h][k]
    <3>1. i \in Nat /\ i + 1 = h
      BY <2>2
    <3>2. Extends(f[h], f[i], P[h])
      BY <3>1, TextStep
    <3> QED
      BY <3>2 DEF Extends
  <2>4. /\ Len(f[h]) <= Len(s)
        /\ \A k \in 1..Len(f[h]) : s[k] = f[h][k]
    <3>1. h \in 0..Len(P) /\ n \in 0..Len(P) /\ h <= n
      BY <2>2
    <3>2. Precedes(f[h], f[n])
      BY <3>1, TextPrefix
    <3> QED
      BY <3>2 DEF Precedes
  <2>5. Len(f[i]) + 1 \in 1..Len(f[h]) /\ 1 \in 1..Len(P[h])
    <3>1. PICK a \in Nat : a = Len(f[i])
      BY <2>3
    <3>2. PICK b \in Nat \ {0} : b = Len(P[h])
      BY <2>3
    <3>3. Len(f[h]) = a + b
      BY <2>3, <3>1, <3>2
    <3>4. a + 1 \in 1..(a + b) /\ 1 \in 1..b
      OBVIOUS
    <3> QED
      BY <3>1, <3>2, <3>3, <3>4
  <2> QED
    BY <1>1, <2>1, <2>3, <2>4, <2>5
<1> QED
  BY <1>1, <1>2, <1>3, <1>4, <1>5 DEF Placed

-----------------------------------------------------------------------------
(* Digits in a text.                                                       *)
LEMMA DigitsEndIs ==
  ASSUME NEW s \in Seq(Char), NEW p \in Nat \ {0}, NEW q \in Nat, p <= q, q <= Len(s) + 1,
         \A i \in p..(q - 1) : s[i] \in Digit, q <= Len(s) => s[q] \notin Digit
  PROVE  DigitsEnd(s, p) = {q}
<1>1. q \in DigitsEnd(s, p)
  BY DEF DigitsEnd
<1>2. ASSUME NEW j \in DigitsEnd(s, p) PROVE j = q
  <2>1. /\ j \in p..(Len(s) + 1) /\ \A i \in p..(j - 1) : s[i] \in Digit
        /\ j <= Len(s) => s[j] \notin Digit
    BY DEF DigitsEnd
  <2>2. CASE j < q
    <3>1. j \in p..(q - 1) /\ j <= Len(s)
      BY <2>1, <2>2
    <3> QED
      BY <2>1, <3>1
  <2>3. CASE j > q
    <3>1. q \in p..(j - 1) /\ q <= Len(s)
      BY <2>1, <2>3
    <3> QED
      BY <2>1, <3>1
  <2> QED
    BY <2>1, <2>2, <2>3
<1> QED
  BY <1>1, <1>2

LEMMA DecimalIs ==
  ASSUME NEW l \in Seq(Digit), l # << >>, l[1] # "0" \/ Len(l) = 1
  PROVE  Decimal(l) = {l}
<1>1. PICK n \in Nat : n = Len(l)
  OBVIOUS
<1>2. n # 0
  BY <1>1, EmptySeq
<1>3. ASSUME NEW i \in 1..n, \A j \in 1..(i - 1) : l[j] = "0"
      PROVE  i = 1
  <2>1. CASE n = 1
    BY <1>3, <2>1
  <2>2. CASE n # 1 /\ i # 1
    <3>1. 1 \in 1..(i - 1)
      BY <2>2
    <3> QED
      BY <1>1, <1>3, <2>2, <3>1
  <2> QED
    BY <2>1, <2>2
<1>4. {i \in 1..Len(l) : /\ \A j \in 1..(i - 1) : l[j] = "0"
                          /\ (l[i] # "0" \/ i = Len(l))} = {1}
  <2>1. 1 \in 1..n /\ (l[1] # "0" \/ 1 = n) /\ \A j \in 1..(1 - 1) : l[j] = "0"
    BY <1>1, <1>2
  <2> QED
    BY <1>1, <1>3, <2>1
<1>5. SubSeq(l, 1, Len(l)) = l
  BY SubSeqFull
<1>6. Decimal(l) = {SubSeq(l, i, Len(l)) : i \in {1}}
  BY <1>4 DEF Decimal
<1> QED
  BY <1>5, <1>6

LEMMA SubSeqIs ==
  ASSUME NEW S, NEW s \in Seq(S), NEW t \in Seq(S), NEW o \in Nat, o + Len(t) <= Len(s),
         \A k \in 1..Len(t) : s[o + k] = t[k]
  PROVE  SubSeq(s, o + 1, o + Len(t)) = t
<1>1. PICK n \in Nat : n = Len(t)
  OBVIOUS
<1>2. PICK u : u = SubSeq(s, o + 1, o + n)
  OBVIOUS
<1>3. u \in Seq(S) /\ Len(u) = n /\ \A k \in 1..n : u[k] = s[o + k]
  <2>1. CASE n = 0
    <3>1. u = << >>
      BY <1>2, <2>1, SubSeqEmpty
    <3> QED
      BY <2>1, <3>1
  <2>2. CASE n # 0
    <3>1. \A k \in (o + 1)..(o + n) : s[k] \in S
      BY <1>1
    <3>2. /\ u \in Seq(S) /\ Len(u) = (IF o + 1 <= o + n THEN o + n - (o + 1) + 1 ELSE 0)
          /\ \A k \in 1..((o + n) - (o + 1) + 1) : u[k] = s[o + 1 + k - 1]
      BY <1>2, <3>1, SubSeqProperties
    <3>3. (o + n) - (o + 1) + 1 = n /\ o + 1 <= o + n /\ \A k \in 1..n : o + 1 + k - 1 = o + k
      BY <2>2
    <3> QED
      BY <3>2, <3>3
  <2> QED
    BY <2>1, <2>2
<1>4. u = t
  BY <1>1, <1>3, SeqEqual
<1> QED
  BY <1>1, <1>2, <1>4

-----------------------------------------------------------------------------
(* A column: pieces that are balanced, but for what the name of a function *)
(* begins with.                                                            *)

(* What the name of a function may begin with that nothing else does.      *)
Heads == {<< "C" >>, << "D" >>} \cup Operator

Begins(P) ==
  P # << >> /\ (P[1] \in Heads \cup Named \cup Leading
                \/ (Len(P) = 1 /\ P[1] \in {<< b >> : b \in Builtin}))

ColumnRun(P, d, m) ==
  /\ d \in [0..Len(P) -> Nat] /\ m \in [0..Len(P) -> Mode]
  /\ d[0] = 0 /\ d[Len(P)] = 0 /\ m[0] = "out" /\ m[Len(P)] = "out"
  /\ \A i \in 1..Len(P) : \/ Move(d[i - 1], m[i - 1], P[i], d[i], m[i])
                          \/ i = 1 /\ P[1] \in Heads /\ d[1] = 0 /\ m[1] = "out"
  /\ \A i \in 1..Len(P) : i < Len(P) => Meets(P[i], P[i + 1])

Readable(P) == P \in Seq(Words) /\ Begins(P) /\ \E d, m : ColumnRun(P, d, m)

(* The tokens among the first pieces of P.                                 *)
KeptOf(P, g) ==
  /\ g \in [0..Len(P) -> Seq(Words)] /\ g[0] = << >>
  /\ \A i \in 1..Len(P) :
       g[i] = IF P[i] = << Underscore >> THEN g[i - 1] ELSE Append(g[i - 1], P[i])

Laid(P, f, g, d, m) ==
  P \in Seq(Words) /\ Begins(P) /\ TextOf(P, f) /\ KeptOf(P, g) /\ ColumnRun(P, d, m)

LEMMA JoinOne ==
  ASSUME NEW S, NEW a \in Seq(S), NEW x \in S
  PROVE  Join(a, << x >>) = Append(a, x) /\ Join(a, << >>) = a
<1>1. << x >> \in Seq(S) /\ Len(<< x >>) = 1 /\ << x >>[1] = x
  OBVIOUS
<1>2. PICK b : b = << x >>
  OBVIOUS
<1>3. PICK n \in Nat : n = Len(a)
  OBVIOUS
<1>4. PICK R : R = a \o b
  OBVIOUS
<1>5. /\ R \in Seq(S) /\ Len(R) = n + 1
      /\ \A i \in 1..(n + 1) : R[i] = IF i <= n THEN a[i] ELSE b[i - n]
  BY <1>1, <1>2, <1>3, <1>4, ConcatProperties
<1>6. PICK A : A = Append(a, x)
  OBVIOUS
<1>7. /\ A \in Seq(S) /\ Len(A) = n + 1 /\ A[n + 1] = x
      /\ \A i \in 1..n : A[i] = a[i]
  BY <1>3, <1>6, AppendProperties
<1>8. \A i \in 1..(n + 1) : R[i] = A[i]
  <2> TAKE i \in 1..(n + 1)
  <2>1. CASE i = n + 1
    <3>1. ~(i <= n) /\ i - n = 1
      BY <2>1
    <3> QED
      BY <1>1, <1>2, <1>5, <1>7, <2>1, <3>1
  <2>2. CASE i # n + 1
    BY <1>5, <1>7, <2>2
  <2> QED
    BY <2>1, <2>2
<1>9. R = A
  BY <1>5, <1>7, <1>8, SeqEqual
<1>10. a \o << >> = a
  BY ConcatEmptySeq
<1> QED
  BY <1>2, <1>4, <1>6, <1>9, <1>10 DEF Join

LEMMA KeptExists ==
  ASSUME NEW P \in Seq(Words)
  PROVE  \E g : KeptOf(P, g) /\ Kept(P) = g[Len(P)]
<1> DEFINE K == [i \in DOMAIN P |-> IF P[i] = << Underscore >> THEN << >> ELSE << P[i] >>]
<1>1. PICK n \in Nat : n = Len(P)
  OBVIOUS
<1>2. \A i \in 1..n : P[i] \in Words
  BY <1>1
<1>3. K \in Seq(Seq(Words)) /\ Len(K) = n
  <2>1. DOMAIN P = 1..n
    BY <1>1
  <2>2. \A i \in 1..n : K[i] \in Seq(Words)
    <3>1. << >> \in Seq(Words)
      OBVIOUS
    <3>2. \A i \in 1..n : << P[i] >> \in Seq(Words)
      BY <1>2
    <3> QED
      BY <2>1, <3>1, <3>2
  <2>3. K \in [1..n -> Seq(Words)]
    BY <2>1, <2>2
  <2> QED
    BY <2>3
<1>4. \A i \in 1..n : K[i] = IF P[i] = << Underscore >> THEN << >> ELSE << P[i] >>
  BY <1>1
<1> HIDE DEF K
<1>5. PICK g : g \in [0..n -> Seq(Words)] /\ Flattens(g, K) /\ FlattenSeq(K) = g[n]
  BY <1>3, FlattenFold
<1>6. ASSUME NEW i \in 1..n
      PROVE  g[i] = IF P[i] = << Underscore >> THEN g[i - 1] ELSE Append(g[i - 1], P[i])
  <2>1. g[i] = Join(g[i - 1], K[i])
    BY <1>3, <1>5 DEF Flattens
  <2>2. g[i - 1] \in Seq(Words)
    <3>1. i - 1 \in 0..n
      OBVIOUS
    <3> QED
      BY <1>5, <3>1
  <2>3. Join(g[i - 1], << P[i] >>) = Append(g[i - 1], P[i]) /\ Join(g[i - 1], << >>) = g[i - 1]
    BY <1>2, <2>2, JoinOne
  <2> QED
    BY <1>4, <2>1, <2>3
<1>7. Kept(P) = g[n]
  BY <1>5 DEF Kept, Concat, K
<1>8. g[0] = << >>
  BY <1>5 DEF Flattens
<1>9. KeptOf(P, g)
  BY <1>1, <1>5, <1>6, <1>8 DEF KeptOf
<1> QED
  BY <1>1, <1>7, <1>9

LEMMA LaidExists ==
  ASSUME NEW P, Readable(P)
  PROVE  \E f, g, d, m : Laid(P, f, g, d, m) /\ Concat(P) = f[Len(P)] /\ Kept(P) = g[Len(P)]
<1>1. P \in Seq(Words) /\ Begins(P)
  BY DEF Readable
<1>2. PICK d, m : ColumnRun(P, d, m)
  BY DEF Readable
<1>3. PICK f : TextOf(P, f) /\ Concat(P) = f[Len(P)]
  BY <1>1, TextExists
<1>4. PICK g : KeptOf(P, g) /\ Kept(P) = g[Len(P)]
  BY <1>1, KeptExists
<1>5. Laid(P, f, g, d, m)
  BY <1>1, <1>2, <1>3, <1>4 DEF Laid
<1> QED
  BY <1>3, <1>4, <1>5

-----------------------------------------------------------------------------
(* One piece.                                                              *)
Goes(a, k, p, b, l, q) ==
  /\ a \in Nat /\ b \in Nat /\ k \in Mode /\ l \in Mode
  /\ Move(a, k, p, b, l) \/ (q = 1 /\ p \in Heads /\ a = 0 /\ k = "out" /\ b = 0 /\ l = "out")

LEMMA GoesAt ==
  ASSUME NEW P, NEW f, NEW g, NEW d, NEW m, Laid(P, f, g, d, m),
         NEW n \in Nat, n = Len(P), NEW q \in 1..n, NEW h \in Nat, h + 1 = q
  PROVE  Goes(d[h], m[h], P[q], d[q], m[q], q)
<1>1. /\ d \in [0..n -> Nat] /\ m \in [0..n -> Mode] /\ d[0] = 0 /\ m[0] = "out"
      /\ \A i \in 1..n : \/ Move(d[i - 1], m[i - 1], P[i], d[i], m[i])
                         \/ i = 1 /\ P[1] \in Heads /\ d[1] = 0 /\ m[1] = "out"
  BY DEF Laid, ColumnRun
<1>2. h \in 0..n /\ q \in 0..n /\ q - 1 = h
  OBVIOUS
<1>3. \/ Move(d[h], m[h], P[q], d[q], m[q])
      \/ q = 1 /\ P[1] \in Heads /\ d[1] = 0 /\ m[1] = "out"
  BY <1>1, <1>2
<1>4. q = 1 => h = 0
  OBVIOUS
<1> QED
  BY <1>1, <1>2, <1>3, <1>4 DEF Goes

(* A piece p after a text of length o in s; c comes next.                  *)
Lies(s, o, p) ==
  /\ s \in Seq(Char) /\ Len(s) \in Nat /\ o \in Nat /\ p \in Words /\ Len(p) \in Nat \ {0}
  /\ o + Len(p) <= Len(s)
  /\ \A k \in 1..Len(p) : s[o + k] = p[k]

Puts(s, a, b, p) == Lies(s, Len(a), p) /\ Len(b) = Len(a) + Len(p)

LEMMA LiesAt ==
  ASSUME NEW P, NEW f, NEW g, NEW d, NEW m, Laid(P, f, g, d, m),
         NEW n \in Nat, n = Len(P), NEW q \in 1..n, NEW h \in Nat, h + 1 = q
  PROVE  Puts(f[n], f[h], f[q], P[q])
<1>1. P \in Seq(Words) /\ TextOf(P, f)
  BY DEF Laid
<1>2. PICK s : s = f[n]
  OBVIOUS
<1>3. PICK o : o = Len(f[q - 1])
  OBVIOUS
<1>4. h = q - 1
  OBVIOUS
<1>5. o = Len(f[h])
  BY <1>3, <1>4
<1>0. Placed(P, f, n, q, s, o)
  BY <1>1, <1>2, <1>3, PieceAt
<1>6. /\ o \in Nat /\ Len(P[q]) \in Nat \ {0} /\ Len(f[q]) = o + Len(P[q])
      /\ s \in Seq(Char) /\ o + Len(P[q]) <= Len(s)
      /\ \A k \in 1..Len(P[q]) : s[o + k] = P[q][k]
  BY <1>0 DEF Placed
<1>7. P[q] \in Words /\ Len(s) \in Nat
  BY <1>1, <1>6
<1> QED
  BY <1>2, <1>5, <1>6, <1>7 DEF Lies, Puts

Keeps(a, p, b) ==
  /\ b = IF p = << Underscore >> THEN a ELSE Append(a, p)
  /\ a \in Seq(Words) /\ b \in Seq(Words)

LEMMA KeptAt ==
  ASSUME NEW P, NEW f, NEW g, NEW d, NEW m, Laid(P, f, g, d, m),
         NEW n \in Nat, n = Len(P), NEW q \in 1..n, NEW h \in Nat, h + 1 = q
  PROVE  Keeps(g[h], P[q], g[q])
<1>1. /\ g \in [0..n -> Seq(Words)]
      /\ \A i \in 1..n :
           g[i] = IF P[i] = << Underscore >> THEN g[i - 1] ELSE Append(g[i - 1], P[i])
  BY DEF Laid, KeptOf
<1>2. h \in 0..n /\ q \in 0..n /\ q - 1 = h
  OBVIOUS
<1> QED
  BY <1>1, <1>2 DEF Keeps

-----------------------------------------------------------------------------
(* Which kind of token a letter begins.                                    *)

Low == {"a", "c", "d", "e", "g", "i", "l", "m", "n", "o", "p", "r"}

LEMMA ClassesApart ==
  /\ \A c \in Opening : c \notin Digit \cup Builtin \cup Modifier \cup Low \cup {"A", "C", "D", "E"}
  /\ \A c \in Digit : c \notin Builtin \cup Modifier \cup Low \cup {"A", "C", "D", "E"}
  /\ \A c \in Modifier : c \notin Builtin \cup Low \cup {"A", "C", "D", "E"}
  /\ \A c \in Builtin \cup Low : c \notin {"A", "C", "D", "E"}
<1>1. \A c \in Opening : c \notin Digit \cup Builtin \cup Modifier \cup Low \cup {"A", "C", "D", "E"}
  BY DigitIs DEF Opening, Builtin, Modifier, Low
<1>2. \A c \in Digit : c \notin Builtin \cup Modifier \cup Low \cup {"A", "C", "D", "E"}
  BY DigitIs DEF Builtin, Modifier, Low
<1>3. \A c \in Modifier : c \notin Builtin \cup Low \cup {"A", "C", "D", "E"}
  BY DEF Builtin, Modifier, Low
<1>4. \A c \in Builtin \cup Low : c \notin {"A", "C", "D", "E"}
  BY DEF Builtin, Low
<1> QED
  BY <1>1, <1>2, <1>3, <1>4

LEMMA OperatorIs ==
  \A o \in Operator : o[1] \in Low /\ Len(o) = 2
<1>1. ASSUME NEW o \in Operator PROVE \E a, b : o = << a, b >> /\ a \in Low
  BY DEF Operator, Low
<1> QED
  BY <1>1

LEMMA TwoOf ==
  ASSUME NEW s \in Seq(Char), NEW p \in 1..Len(s), p < Len(s)
  PROVE  SubSeq(s, p, p + 1) = << s[p], s[p + 1] >>
<1>1. s[p] \in Char /\ s[p + 1] \in Char /\ Len(s) \in Nat
  BY LenProperties
<1>2. PICK q \in Nat : q = p + 1
  OBVIOUS
<1>3. PICK u : u = SubSeq(s, p, q)
  OBVIOUS
<1>4. \A k \in p..q : s[k] \in Char
  <2>1. \A k \in p..q : k = p \/ k = p + 1
    BY <1>2
  <2> QED
    BY <1>1, <2>1
<1>5. /\ u \in Seq(Char) /\ Len(u) = (IF p <= q THEN q - p + 1 ELSE 0)
      /\ \A k \in 1..(q - p + 1) : u[k] = s[p + k - 1]
  BY <1>2, <1>3, <1>4, SubSeqProperties
<1>6. q - p + 1 = 2 /\ p <= q /\ p + 1 - 1 = p /\ p + 2 - 1 = p + 1
  BY <1>2
<1>7. u \in Seq(Char) /\ Len(u) = 2 /\ u[1] = s[p] /\ u[2] = s[p + 1]
  <2>1. 1 \in 1..(q - p + 1) /\ 2 \in 1..(q - p + 1)
    BY <1>6
  <2> QED
    BY <1>5, <1>6, <2>1
<1>8. u = << s[p], s[p + 1] >>
  BY <1>7
<1> QED
  BY <1>2, <1>3, <1>8

LEMMA PairHead ==
  ASSUME source \in Seq(Char), pos \in 1..Len(source)
  PROVE  /\ Ch2[1] = Ch
         /\ pos < Len(source) => Ch2 = << source[pos], source[pos + 1] >>
         /\ pos = Len(source) => Ch2 = << Ch >>
<1>1. CASE pos < Len(source)
  <2>1. Ch2 = << source[pos], source[pos + 1] >>
    BY <1>1, TwoOf DEF Ch2
  <2> QED
    BY <1>1, <2>1 DEF Ch
<1>2. CASE ~(pos < Len(source))
  <2>1. Ch2 = << Ch >>
    BY <1>2 DEF Ch2
  <2> QED
    BY <1>2, <2>1
<1> QED
  BY <1>1, <1>2

(* Which kind of token the letter begins.                                  *)
ByLetter ==
  /\ Ch \in Opening => TakeOpening
  /\ Ch = "E" => TakeClosing
  /\ Ch = "C" => TakeConstructor
  /\ Ch = "A" => TakeArray
  /\ Ch = "D" /\ First => TakeDestructor
  /\ Ch = "D" /\ ~First /\ Ch2 = NullPtr => TakeNullPtr
  /\ Ch \in Digit /\ InValue => TakeValue
  /\ Ch \in Digit /\ ~InValue => TakeName
  /\ Ch2 \in Operator /\ First => TakeOperator
  /\ Ch \in Builtin \cup Modifier /\ ~(Ch2 \in Operator /\ First) => TakeLetter

LEMMA SplitByLetter ==
  ASSUME Split, source \in Seq(Char), pos \in 1..Len(source)
  PROVE  ByLetter
<1>1. \/ TakeValue \/ TakeName \/ TakeOpening \/ TakeClosing \/ TakeConstructor
      \/ TakeDestructor \/ TakeOperator \/ TakeNullPtr \/ TakeLetter \/ TakeArray
      \/ TakeNothing
  BY DEF Split
<1>2. Ch2[1] = Ch
  BY PairHead
<1>3. Ch2 \in Operator => Ch \in Low
  BY <1>2, OperatorIs
<1>4. Ch2 = NullPtr => Ch = "D"
  BY <1>2 DEF NullPtr
<1>5. /\ TakeValue => Ch \in Digit /\ InValue
      /\ TakeName => Ch \in Digit /\ ~InValue
      /\ TakeOpening => Ch \in Opening
      /\ TakeClosing => Ch = "E"
      /\ TakeConstructor => Ch = "C"
      /\ TakeDestructor => Ch = "D" /\ First
      /\ TakeOperator => Ch2 \in Operator /\ First
      /\ TakeNullPtr => Ch2 = NullPtr /\ ~First
      /\ TakeLetter => Ch \in Builtin \cup Modifier /\ ~(Ch2 \in Operator /\ First)
      /\ TakeArray => Ch = "A"
  BY DEF TakeValue, TakeName, TakeOpening, TakeClosing, TakeConstructor, TakeDestructor,
         TakeOperator, TakeNullPtr, TakeLetter, TakeArray
<1>6. TakeNothing =>
        /\ Ch \notin Digit \cup Opening \cup Builtin \cup Modifier \cup {"E", "C", "A"}
        /\ ~(Ch = "D" /\ First) /\ ~(Ch2 \in Operator /\ First) /\ Ch2 # NullPtr
  BY DEF TakeNothing
<1>7. "D" \notin Opening /\ "D" \notin Digit /\ "D" \notin Builtin \cup Modifier
  BY ClassesApart
<1>8. Ch \in Opening => TakeOpening
  BY <1>1, <1>3, <1>4, <1>5, <1>6, ClassesApart
<1>9. Ch = "E" => TakeClosing
  BY <1>1, <1>3, <1>4, <1>5, <1>6, ClassesApart
<1>10. Ch = "C" => TakeConstructor
  BY <1>1, <1>3, <1>4, <1>5, <1>6, ClassesApart
<1>11. Ch = "A" => TakeArray
  BY <1>1, <1>3, <1>4, <1>5, <1>6, ClassesApart
<1>12. Ch = "D" /\ First => TakeDestructor
  BY <1>1, <1>3, <1>4, <1>5, <1>6, <1>7, ClassesApart
<1>13. Ch = "D" /\ ~First /\ Ch2 = NullPtr => TakeNullPtr
  BY <1>1, <1>3, <1>4, <1>5, <1>6, <1>7, ClassesApart
<1>14. Ch \in Digit /\ InValue => TakeValue
  BY <1>1, <1>3, <1>4, <1>5, <1>6, ClassesApart
<1>15. Ch \in Digit /\ ~InValue => TakeName
  BY <1>1, <1>3, <1>4, <1>5, <1>6, ClassesApart
<1>16. Ch2 \in Operator /\ First => TakeOperator
  BY <1>1, <1>3, <1>4, <1>5, <1>6, ClassesApart
<1>17. Ch \in Builtin \cup Modifier /\ ~(Ch2 \in Operator /\ First) => TakeLetter
  BY <1>1, <1>3, <1>4, <1>5, <1>6, <1>7, ClassesApart
<1> QED
  BY <1>8, <1>9, <1>10, <1>11, <1>12, <1>13, <1>14, <1>15, <1>16, <1>17 DEF ByLetter

-----------------------------------------------------------------------------
(* The tokenizer takes one piece at a time.                                *)

(* The stack of the tokenizer after pieces that leave a and k.             *)
StackOf(s, a, k) ==
  /\ s \in Seq(Opening) /\ Len(s) = a /\ k \in {"out", "value", "number", "close"}
  /\ \A i \in 1..Len(s) : s[i] = "L" <=> i = Len(s) /\ k # "out"
  /\ k # "out" => s # << >>

LEMMA StackPush ==
  ASSUME NEW s, NEW a, StackOf(s, a, "out"), NEW c \in Opening,
         NEW l, l = IF c = "L" THEN "value" ELSE "out"
  PROVE  StackOf(Append(s, c), a + 1, l)
<1>1. s \in Seq(Opening) /\ \A i \in 1..Len(s) : s[i] # "L"
  BY DEF StackOf
<1>2. PICK n \in Nat : n = Len(s)
  BY <1>1
<1>3. PICK t : t = Append(s, c)
  OBVIOUS
<1>4. t \in Seq(Opening) /\ Len(t) = n + 1 /\ t[n + 1] = c /\ \A i \in 1..n : t[i] = s[i]
  BY <1>1, <1>2, <1>3, AppendProperties
<1>5. t # << >>
  BY <1>4
<1>6. a = n
  BY <1>2 DEF StackOf
<1>7. \A i \in 1..(n + 1) : t[i] = "L" <=> i = n + 1 /\ l # "out"
  <2> TAKE i \in 1..(n + 1)
  <2>1. CASE i = n + 1
    BY <1>4, <2>1
  <2>2. CASE i # n + 1
    BY <1>1, <1>2, <1>4, <2>2
  <2> QED
    BY <2>1, <2>2
<1> QED
  BY <1>3, <1>4, <1>5, <1>6, <1>7 DEF StackOf

LEMMA StackPop ==
  ASSUME NEW s, NEW a, NEW k, StackOf(s, a, k), NEW b \in Nat, a = b + 1
  PROVE  s # << >> /\ StackOf(SubSeq(s, 1, Len(s) - 1), b, "out")
<1>1. /\ s \in Seq(Opening) /\ Len(s) = b + 1
      /\ \A i \in 1..Len(s) : s[i] = "L" <=> i = Len(s) /\ k # "out"
  BY DEF StackOf
<1>2. PICK t : t = SubSeq(s, 1, b)
  OBVIOUS
<1>3. /\ t \in Seq(Opening) /\ Len(t) = b /\ \A i \in 1..b : t[i] = s[i]
  <2>1. CASE b = 0
    <3>1. t = << >>
      BY <1>2, <2>1, SubSeqEmpty
    <3> QED
      BY <2>1, <3>1
  <2>2. CASE b # 0
    <3>1. \A i \in 1..b : s[i] \in Opening
      BY <1>1
    <3>2. /\ t \in Seq(Opening) /\ Len(t) = (IF 1 <= b THEN b - 1 + 1 ELSE 0)
          /\ \A i \in 1..(b - 1 + 1) : t[i] = s[1 + i - 1]
      BY <1>2, <3>1, SubSeqProperties
    <3>3. b - 1 + 1 = b /\ 1 <= b /\ \A i \in 1..b : 1 + i - 1 = i
      BY <2>2
    <3> QED
      BY <3>2, <3>3
  <2> QED
    BY <2>1, <2>2
<1>4. \A i \in 1..b : t[i] # "L"
  BY <1>1, <1>3
<1>5. Len(s) - 1 = b /\ s # << >>
  BY <1>1, EmptySeq
<1> QED
  BY <1>2, <1>3, <1>4, <1>5 DEF StackOf

LEMMA StackMode ==
  ASSUME NEW s, NEW a, NEW k, StackOf(s, a, k), k # "out", NEW l \in {"number", "close"}
  PROVE  StackOf(s, a, l)
BY DEF StackOf

LEMMA StackTop ==
  ASSUME NEW s, NEW a, NEW k, StackOf(s, a, k)
  PROVE  s # << >> /\ s[Len(s)] = "L" <=> k # "out"
<1>1. s # << >> => Len(s) \in 1..Len(s)
  BY EmptySeq DEF StackOf
<1> QED
  BY <1>1 DEF StackOf

-----------------------------------------------------------------------------
(* The tokenizer has taken the first i pieces of P.                        *)
AtPiece(P, f, g, d, m, i) ==
  /\ i \in 0..Len(P)
  /\ source = f[Len(P)] /\ pos = Len(f[i]) + 1 /\ tokens = g[i]
  /\ StackOf(stk, d[i], m[i])

Onward(P, f, g, d, m, q) ==
  AtPiece(P, f, g, d, m, q)' /\ phase' = "split" /\ way' = way

(* It is before the piece p, which is the first if h is 0.                 *)
Faces(p, h, k) ==
  /\ source \in Seq(Char) /\ pos \in 1..Len(source) /\ Lies(source, pos - 1, p)
  /\ Ch = p[1]
  /\ First <=> h = 0
  /\ InValue <=> k # "out"
  /\ Len(p) = 2 => Ch2 = p

LEMMA KeptSome ==
  ASSUME NEW P, NEW f, NEW g, NEW d, NEW m, Laid(P, f, g, d, m), NEW i \in 0..Len(P)
  PROVE  g[i] = << >> <=> i = 0
<1>1. PICK n \in Nat : n = Len(P)
  BY DEF Laid
<1>2. g[0] = << >>
  BY DEF Laid, KeptOf
<1> DEFINE T == {e \in Nat : e + 1 \in 1..n => g[e + 1] # << >>}
<1>3. 0 \in T
  <2> SUFFICES ASSUME 0 + 1 \in 1..n PROVE g[0 + 1] # << >>
    OBVIOUS
  <2>1. PICK q \in 1..n : q = 1
    OBVIOUS
  <2>2. PICK h \in Nat : h = 0
    OBVIOUS
  <2>3. h + 1 = q
    BY <2>1, <2>2
  <2>4. Goes(d[h], m[h], P[q], d[q], m[q], q)
    BY <1>1, <2>3, GoesAt
  <2>5. m[h] = "out"
    BY <2>2 DEF Laid, ColumnRun
  <2>6. P[q] # << Underscore >>
    <3>1. CASE P[q] \in Heads
      <4>1. \A o \in Operator : Len(o) = 2
        BY OperatorIs
      <4>2. Underscore # "C" /\ Underscore # "D"
        BY UnderscoreIs
      <4> QED
        BY <3>1, <4>1, <4>2 DEF Heads
    <3>2. CASE Move(d[h], m[h], P[q], d[q], m[q])
      <4>1. Underscore \notin Builtin \cup Modifier \cup {"N", "I", "F", "L", "E", "A"}
        BY UnderscoreIs DEF Opening
      <4>2. \A p \in Single : p # << Underscore >>
        BY <4>1 DEF Single, NullPtr
      <4>3. \A p \in Named : p # << Underscore >>
        <5> SUFFICES ASSUME NEW p \in Named PROVE p # << Underscore >>
          OBVIOUS
        <5>1. PICK t \in Name : p = Decimal10[Len(t)] \o t
          BY DEF Named
        <5>2. p[1] \in Digit
          BY <5>1, NamePiece
        <5> QED
          BY <5>2, UnderscoreIs
      <4>4. \A c \in {"N", "I", "F", "L", "E", "A"} : << c >> # << Underscore >>
        BY <4>1
      <4>5. P[q] \in {<< c >> : c \in {"N", "I", "F", "L", "E", "A"}} \cup Single \cup Named
        BY <2>5, <3>2 DEF Move
      <4> QED
        BY <4>2, <4>3, <4>4, <4>5
    <3> QED
      BY <2>4, <3>1, <3>2 DEF Goes
  <2>7. g[q] = Append(g[h], P[q]) /\ g[h] \in Seq(Words)
    <3>1. Keeps(g[h], P[q], g[q])
      BY <1>1, <2>3, KeptAt
    <3> QED
      BY <2>6, <3>1 DEF Keeps
  <2>8. g[q] # << >>
    BY <2>7
  <2> QED
    BY <2>1, <2>8
<1>4. ASSUME NEW e \in Nat, e \in T PROVE e + 1 \in T
  <2> SUFFICES ASSUME e + 1 + 1 \in 1..n PROVE g[e + 1 + 1] # << >>
    OBVIOUS
  <2>1. PICK q \in 1..n : q = e + 1 + 1
    OBVIOUS
  <2>2. PICK h \in Nat : h = e + 1
    OBVIOUS
  <2>3. h + 1 = q /\ h \in 1..n
    BY <2>1, <2>2
  <2>4. g[h] # << >>
    BY <1>4, <2>2, <2>3
  <2>5. /\ g[q] = IF P[q] = << Underscore >> THEN g[h] ELSE Append(g[h], P[q])
        /\ g[h] \in Seq(Words)
    <3>1. Keeps(g[h], P[q], g[q])
      BY <1>1, <2>3, KeptAt
    <3> QED
      BY <3>1 DEF Keeps
  <2>6. g[q] # << >>
    BY <2>4, <2>5
  <2> QED
    BY <2>1, <2>6
<1>5. Nat \subseteq T
  <2> HIDE DEF T
  <2> QED
    BY <1>3, <1>4, InductionOnNat
<1>6. ASSUME i # 0 PROVE g[i] # << >>
  <2>1. PICK e \in Nat : e + 1 = i
    <3>1. i - 1 \in Nat /\ (i - 1) + 1 = i
      BY <1>1, <1>6
    <3> QED
      BY <3>1
  <2> QED
    BY <1>1, <1>5, <2>1
<1> QED
  BY <1>2, <1>6

LEMMA PieceFaced ==
  ASSUME NEW P, NEW f, NEW g, NEW d, NEW m, Laid(P, f, g, d, m),
         NEW n \in Nat, n = Len(P), NEW q \in 1..n, NEW h \in Nat, h + 1 = q,
         AtPiece(P, f, g, d, m, h)
  PROVE  Faces(P[q], h, m[h])
<1>1. Lies(f[n], Len(f[h]), P[q])
  <2>1. Puts(f[n], f[h], f[q], P[q])
    BY LiesAt
  <2> QED
    BY <2>1 DEF Puts
<1>2. source = f[n] /\ pos = Len(f[h]) + 1 /\ tokens = g[h]
  BY DEF AtPiece
<1>3. PICK p : p = P[q]
  OBVIOUS
<1>4. PICK o \in Nat : o = Len(f[h])
  BY <1>1 DEF Lies
<1>5. Lies(source, o, p) /\ pos = o + 1 /\ pos - 1 = o
  BY <1>1, <1>2, <1>3, <1>4
<1>6. /\ source \in Seq(Char) /\ Len(source) \in Nat /\ Len(p) \in Nat \ {0} /\ p \in Words
      /\ o + Len(p) <= Len(source)
      /\ \A k \in 1..Len(p) : source[o + k] = p[k]
  BY <1>5 DEF Lies
<1>7. pos \in 1..Len(source)
  BY <1>5, <1>6
<1>8. Ch = p[1]
  <2>1. 1 \in 1..Len(p)
    BY <1>6
  <2> QED
    BY <1>5, <1>6, <2>1 DEF Ch
<1>9. First <=> h = 0
  <2>1. h \in 0..Len(P)
    OBVIOUS
  <2> QED
    BY <1>2, <2>1, KeptSome DEF First
<1>10. InValue <=> m[h] # "out"
  BY StackTop DEF AtPiece, InValue
<1>11. Len(p) = 2 => Ch2 = p
  <2> SUFFICES ASSUME Len(p) = 2 PROVE Ch2 = p
    OBVIOUS
  <2>1. pos < Len(source) /\ 1 \in 1..Len(p) /\ 2 \in 1..Len(p) /\ o + 2 = pos + 1
    BY <1>5, <1>6
  <2>2. Ch2 = << source[pos], source[pos + 1] >>
    BY <1>6, <1>7, <2>1, PairHead
  <2>3. source[pos] = p[1] /\ source[pos + 1] = p[2]
    BY <1>5, <1>6, <2>1
  <2>4. p = << p[1], p[2] >>
    BY <1>6 DEF Words, Text
  <2> QED
    BY <2>2, <2>3, <2>4
<1> QED
  BY <1>3, <1>5, <1>6, <1>7, <1>8, <1>9, <1>10, <1>11 DEF Faces

(* One piece on.                                                           *)
LEMMA PieceTaken ==
  ASSUME NEW P, NEW f, NEW g, NEW d, NEW m, Laid(P, f, g, d, m),
         NEW n \in Nat, n = Len(P), NEW q \in 1..n, NEW h \in Nat, h + 1 = q,
         AtPiece(P, f, g, d, m, h), phase = "split",
         P[q] # << Underscore >>, Take(P[q], pos + Len(P[q])), StackOf(stk', d[q], m[q])
  PROVE  Onward(P, f, g, d, m, q)
<1>1. source = f[n] /\ pos = Len(f[h]) + 1 /\ tokens = g[h]
  BY DEF AtPiece
<1>2. source' = source /\ tokens' = Append(tokens, P[q]) /\ pos' = pos + Len(P[q])
      /\ phase' = phase /\ way' = way
  BY DEF Take
<1>3. g[q] = Append(g[h], P[q])
  <2>1. Keeps(g[h], P[q], g[q])
    BY KeptAt
  <2> QED
    BY <2>1 DEF Keeps
<1>4. Lies(f[n], Len(f[h]), P[q]) /\ Len(f[q]) = Len(f[h]) + Len(P[q])
  <2>1. Puts(f[n], f[h], f[q], P[q])
    BY LiesAt
  <2> QED
    BY <2>1 DEF Puts
<1>5. pos' = Len(f[q]) + 1
  <2>1. PICK a \in Nat, b \in Nat : a = Len(f[h]) /\ b = Len(P[q])
    BY <1>4 DEF Lies
  <2>2. pos = a + 1 /\ pos' = pos + b /\ Len(f[q]) = a + b
    BY <1>1, <1>2, <1>4, <2>1
  <2>3. a + 1 + b = a + b + 1
    OBVIOUS
  <2> QED
    BY <2>2, <2>3
<1>6. q \in 0..n
  OBVIOUS
<1> QED
  BY <1>1, <1>2, <1>3, <1>5, <1>6 DEF Onward, AtPiece

Before(P, f, g, d, m, n, h, q) ==
  /\ Laid(P, f, g, d, m) /\ n \in Nat /\ n = Len(P) /\ q \in 1..n /\ h \in Nat /\ h + 1 = q
  /\ AtPiece(P, f, g, d, m, h)

(* The piece p is taken, from a and k to b and l.                          *)
Taken(p, b, l) == Take(p, pos + Len(p)) /\ StackOf(stk', b, l)

LEMMA Gathered ==
  ASSUME NEW P, NEW f, NEW g, NEW d, NEW m, NEW n, NEW h, NEW q,
         Before(P, f, g, d, m, n, h, q), Split
  PROVE  /\ ByLetter /\ Faces(P[q], h, m[h]) /\ Goes(d[h], m[h], P[q], d[q], m[q], q)
         /\ StackOf(stk, d[h], m[h]) /\ phase = "split"
<1>1. /\ Laid(P, f, g, d, m) /\ n \in Nat /\ n = Len(P) /\ q \in 1..n /\ h \in Nat /\ h + 1 = q
      /\ AtPiece(P, f, g, d, m, h)
  BY DEF Before
<1>2. Faces(P[q], h, m[h])
  BY <1>1, PieceFaced
<1>3. Goes(d[h], m[h], P[q], d[q], m[q], q)
  BY <1>1, GoesAt
<1>4. ByLetter
  BY <1>2, SplitByLetter DEF Faces
<1>5. StackOf(stk, d[h], m[h])
  BY <1>1 DEF AtPiece
<1> QED
  BY <1>2, <1>3, <1>4, <1>5 DEF Split

LEMMA LetterTaken ==
  ASSUME NEW c, Ch = c, Take(<< Ch >>, pos + 1), NEW b, NEW l, StackOf(stk', b, l)
  PROVE  Taken(<< c >>, b, l)
<1>1. Len(<< c >>) = 1
  OBVIOUS
<1> QED
  BY <1>1 DEF Taken

LEMMA OpeningTaken ==
  ASSUME NEW h, NEW a \in Nat, NEW b, NEW c \in Opening, NEW l,
         ByLetter, Faces(<< c >>, h, "out"), StackOf(stk, a, "out"),
         b = a + 1, l = IF c = "L" THEN "value" ELSE "out"
  PROVE  Taken(<< c >>, b, l)
<1>1. Ch = c
  BY DEF Faces
<1>2. TakeOpening
  BY <1>1 DEF ByLetter
<1>3. stk' = Append(stk, c) /\ Take(<< Ch >>, pos + 1)
  BY <1>1, <1>2 DEF TakeOpening
<1>4. StackOf(stk', b, l)
  BY <1>3, StackPush
<1> QED
  BY <1>1, <1>3, <1>4, LetterTaken

LEMMA ClosingTaken ==
  ASSUME NEW h, NEW a, NEW k, NEW b \in Nat,
         ByLetter, Faces(<< "E" >>, h, k), StackOf(stk, a, k), a = b + 1
  PROVE  Taken(<< "E" >>, b, "out")
<1>1. Ch = "E"
  BY DEF Faces
<1>2. TakeClosing
  BY <1>1 DEF ByLetter
<1>3. stk # << >> /\ StackOf(SubSeq(stk, 1, Len(stk) - 1), b, "out")
  BY StackPop
<1>4. stk' = SubSeq(stk, 1, Len(stk) - 1) /\ Take(<< Ch >>, pos + 1)
  BY <1>1, <1>2, <1>3 DEF TakeClosing
<1>5. StackOf(stk', b, "out")
  BY <1>3, <1>4
<1> QED
  BY <1>1, <1>4, <1>5, LetterTaken

(* A letter is not taken for the beginning of an operator.                 *)
LEMMA Quiet ==
  ASSUME NEW P, NEW f, NEW g, NEW d, NEW m, NEW n, NEW h, NEW q,
         Before(P, f, g, d, m, n, h, q), NEW c \in Builtin \cup Modifier, P[q] = << c >>
  PROVE  ~(Ch2 \in Operator /\ First)
<1> SUFFICES ASSUME Ch2 \in Operator, First PROVE FALSE
  OBVIOUS
<1>1. /\ Laid(P, f, g, d, m) /\ n \in Nat /\ n = Len(P) /\ q \in 1..n /\ h \in Nat /\ h + 1 = q
      /\ AtPiece(P, f, g, d, m, h)
  BY DEF Before
<1>2. Faces(P[q], h, m[h])
  BY <1>1, PieceFaced
<1>3. h = 0 /\ q = 1
  BY <1>1, <1>2 DEF Faces
<1>4. Ch = c
  BY <1>2 DEF Faces
<1>5. Ch2[1] = Ch
  BY <1>2, PairHead DEF Faces
<1>6. c \in Low /\ Len(Ch2) = 2
  BY <1>4, <1>5, OperatorIs
<1>7. P[1] = << c >>
  BY <1>3
<1>8. << c >> \notin Heads
  <2>1. c # "C" /\ c # "D"
    BY ClassesApart
  <2>2. << c >> \notin Operator
    BY OperatorIs
  <2> QED
    BY <2>1, <2>2 DEF Heads
<1>9. << c >> \notin Named
  <2> SUFFICES ASSUME << c >> \in Named PROVE FALSE
    OBVIOUS
  <2>1. PICK t \in Name : << c >> = Decimal10[Len(t)] \o t
    BY DEF Named
  <2>2. << c >>[1] \in Digit
    BY <2>1, NamePiece
  <2> QED
    BY <2>2, ClassesApart
<1>10. << c >> \notin Leading
  BY <1>6 DEF Leading, Low
<1>11. n = 1
  BY <1>1, <1>7, <1>8, <1>9, <1>10 DEF Laid, Begins
<1>12. Lies(f[n], Len(f[h]), P[q]) /\ Len(f[q]) = Len(f[h]) + Len(P[q])
  <2>1. Puts(f[n], f[h], f[q], P[q])
    BY <1>1, LiesAt
  <2> QED
    BY <2>1 DEF Puts
<1>13. f[0] = << >>
  BY <1>1 DEF Laid, TextOf, Flattens
<1>14. Len(f[n]) = 1 /\ pos = 1 /\ source = f[n]
  <2>1. Len(f[h]) = 0 /\ Len(P[q]) = 1
    BY <1>3, <1>7, <1>13
  <2>2. Len(f[n]) = 1
    BY <1>3, <1>11, <1>12, <2>1
  <2> QED
    BY <1>1, <2>1, <2>2 DEF AtPiece
<1>15. Ch2 = << Ch >>
  BY <1>2, <1>14, PairHead DEF Faces
<1> QED
  BY <1>6, <1>15

LEMMA LetterStep ==
  ASSUME NEW P, NEW f, NEW g, NEW d, NEW m, NEW n, NEW h, NEW q,
         Before(P, f, g, d, m, n, h, q), Split,
         NEW c \in Builtin \cup Modifier, P[q] = << c >>, NEW b, NEW l, StackOf(stk, b, l)
  PROVE  Taken(<< c >>, b, l)
<1>1. ByLetter /\ Faces(P[q], h, m[h])
  BY Gathered
<1>2. Ch = c
  BY <1>1 DEF Faces
<1>3. ~(Ch2 \in Operator /\ First)
  BY Quiet
<1>4. TakeLetter
  BY <1>1, <1>2, <1>3 DEF ByLetter
<1>5. stk' = stk /\ Take(<< Ch >>, pos + 1)
  BY <1>4 DEF TakeLetter
<1>6. StackOf(stk', b, l)
  BY <1>5
<1> QED
  BY <1>2, <1>5, <1>6, LetterTaken

LEMMA NullPtrStep ==
  ASSUME NEW P, NEW f, NEW g, NEW d, NEW m, NEW n, NEW h, NEW q,
         Before(P, f, g, d, m, n, h, q), Split,
         P[q] = NullPtr, NEW b, NEW l, StackOf(stk, b, l)
  PROVE  Taken(NullPtr, b, l)
<1>1. ByLetter /\ Faces(P[q], h, m[h])
  BY Gathered
<1>2. Len(NullPtr) = 2 /\ NullPtr[1] = "D"
  BY DEF NullPtr
<1>3. Ch = "D" /\ Ch2 = NullPtr
  BY <1>1, <1>2 DEF Faces
<1>4. ~First
  <2> SUFFICES ASSUME First PROVE FALSE
    OBVIOUS
  <2>1. h = 0
    BY <1>1 DEF Faces
  <2>2. P[1] = NullPtr /\ Begins(P)
    BY <2>1 DEF Before, Laid
  <2>3. NullPtr \notin Heads
    <3>1. "D" \notin Low
      BY ClassesApart
    <3>2. NullPtr \notin Operator
      BY <1>2, <3>1, OperatorIs
    <3> QED
      BY <3>2 DEF Heads, NullPtr
  <2>4. NullPtr \notin Named
    <3> SUFFICES ASSUME NullPtr \in Named PROVE FALSE
      OBVIOUS
    <3>1. PICK t \in Name : NullPtr = Decimal10[Len(t)] \o t
      BY DEF Named
    <3>2. NullPtr[1] \in Digit
      BY <3>1, NamePiece
    <3> QED
      BY <1>2, <3>2, DigitIs
  <2>5. NullPtr \notin Leading /\ NullPtr \notin {<< x >> : x \in Builtin}
    BY DEF NullPtr, Leading
  <2> QED
    BY <2>2, <2>3, <2>4, <2>5 DEF Begins
<1>5. TakeNullPtr
  BY <1>1, <1>3, <1>4 DEF ByLetter
<1>6. stk' = stk /\ Take(Ch2, pos + 2)
  BY <1>5 DEF TakeNullPtr
<1>7. StackOf(stk', b, l)
  BY <1>6
<1> QED
  BY <1>2, <1>3, <1>6, <1>7 DEF Taken

LEMMA HeadStep ==
  ASSUME NEW p \in Heads, NEW k, ByLetter, Faces(p, 0, k), StackOf(stk, 0, "out")
  PROVE  Taken(p, 0, "out")
<1>1. Ch = p[1] /\ First
  BY DEF Faces
<1>2. CASE p = << "C" >>
  <2>1. Ch = "C"
    BY <1>1, <1>2
  <2>2. TakeConstructor
    BY <2>1 DEF ByLetter
  <2>3. stk' = stk /\ Take(<< Ch >>, pos + 1)
    BY <2>2 DEF TakeConstructor
  <2> QED
    BY <1>2, <2>1, <2>3, LetterTaken
<1>3. CASE p = << "D" >>
  <2>1. Ch = "D"
    BY <1>1, <1>3
  <2>2. TakeDestructor
    BY <1>1, <2>1 DEF ByLetter
  <2>3. stk' = stk /\ Take(<< Ch >>, pos + 1)
    BY <2>2 DEF TakeDestructor
  <2> QED
    BY <1>3, <2>1, <2>3, LetterTaken
<1>4. CASE p \in Operator
  <2>1. Len(p) = 2
    BY <1>4, OperatorIs
  <2>2. Ch2 = p
    BY <2>1 DEF Faces
  <2>3. TakeOperator
    BY <1>1, <1>4, <2>2 DEF ByLetter
  <2>4. stk' = stk /\ Take(Ch2, pos + 2)
    BY <2>3 DEF TakeOperator
  <2>5. StackOf(stk', 0, "out")
    BY <2>4
  <2> QED
    BY <2>1, <2>2, <2>4, <2>5 DEF Taken
<1> QED
  BY <1>2, <1>3, <1>4 DEF Heads

(* In s, the digits l come after the first o characters, and no other.     *)
DigitsLie(s, o, l) ==
  /\ s \in Seq(Char) /\ o \in Nat /\ l \in Seq(Digit) /\ Len(s) \in Nat /\ Len(l) \in Nat
  /\ o + Len(l) <= Len(s)
  /\ \A k \in 1..Len(l) : s[o + k] = l[k]
  /\ o + Len(l) < Len(s) => s[o + Len(l) + 1] \notin Digit

DigitsFound(s, o, l) ==
  DigitsEnd(s, o + 1) = {o + Len(l) + 1} /\ SubSeq(s, o + 1, o + Len(l)) = l

LEMMA DigitsHere ==
  ASSUME NEW s, NEW o, NEW l, DigitsLie(s, o, l)
  PROVE  DigitsFound(s, o, l)
<1> PICK a \in Nat : a = Len(l)
  BY DEF DigitsLie
<1> PICK c \in Nat : c = Len(s)
  BY DEF DigitsLie
<1>0. /\ s \in Seq(Char) /\ o \in Nat /\ l \in Seq(Digit) /\ o + a <= c
      /\ \A k \in 1..a : s[o + k] = l[k]
      /\ o + a < c => s[o + a + 1] \notin Digit
  BY DEF DigitsLie
<1>1. PICK p \in Nat \ {0} : p = o + 1
  BY <1>0
<1>2. PICK q \in Nat : q = o + a + 1
  BY <1>0
<1>3. p <= q /\ q <= Len(s) + 1
  BY <1>0, <1>1, <1>2
<1>4. \A i \in p..(q - 1) : s[i] \in Digit
  <2> TAKE i \in p..(q - 1)
  <2>1. PICK k \in 1..a : o + k = i
    <3>1. i - o \in 1..a /\ o + (i - o) = i
      BY <1>0, <1>1, <1>2
    <3> QED
      BY <3>1
  <2>2. l[k] \in Digit
    BY <1>0
  <2> QED
    BY <1>0, <2>1, <2>2
<1>5. q <= Len(s) => s[q] \notin Digit
  BY <1>0, <1>2
<1>6. DigitsEnd(s, p) = {q}
  BY <1>0, <1>3, <1>4, <1>5, DigitsEndIs
<1>7. l \in Seq(Char)
  BY <1>0, CharAssumption, SeqSubset
<1>8. SubSeq(s, o + 1, o + Len(l)) = l
  BY <1>0, <1>7, SubSeqIs
<1> QED
  BY <1>1, <1>2, <1>6, <1>8 DEF DigitsFound

LEMMA NumeralTaken ==
  ASSUME NEW p \in Numeral, NEW h, ByLetter, Faces(p, h, "number"),
         pos + Len(p) <= Len(source), source[pos + Len(p)] \notin Digit,
         NEW b, NEW l, StackOf(stk, b, l)
  PROVE  Taken(p, b, l)
<1>1. /\ source \in Seq(Char) /\ pos \in 1..Len(source) /\ Lies(source, pos - 1, p)
      /\ Ch = p[1] /\ InValue
  BY DEF Faces
<1>2. PICK c \in Nat : c = Len(source)
  BY <1>1
<1>3. PICK o \in Nat : o + 1 = pos /\ o = pos - 1
  <2>1. pos - 1 \in Nat /\ (pos - 1) + 1 = pos
    BY <1>1, <1>2
  <2> QED
    BY <2>1
<1>4. PICK a \in Nat \ {0} : a = Len(p)
  BY <1>1 DEF Lies
<1>5. p \in Seq(Digit)
  BY DEF Numeral
<1>6. \A k \in 1..a : source[o + k] = p[k]
  BY <1>1, <1>3, <1>4 DEF Lies
<1>7. o + a + 1 <= c /\ source[o + a + 1] \notin Digit
  <2>1. pos + a = o + a + 1
    BY <1>3
  <2> QED
    BY <1>2, <1>4, <2>1
<1>8. DigitsEnd(source, o + 1) = {o + a + 1} /\ SubSeq(source, o + 1, o + a) = p
  <2>1. o + a <= c /\ (o + a < c => source[o + a + 1] \notin Digit)
    BY <1>7
  <2>2. DigitsLie(source, o, p)
    BY <1>1, <1>2, <1>4, <1>5, <1>6, <2>1 DEF DigitsLie
  <2>3. DigitsFound(source, o, p)
    BY <2>2, DigitsHere
  <2> QED
    BY <1>4, <2>3 DEF DigitsFound
<1>9. Ch \in Digit
  BY <1>1, <1>4, <1>5
<1>10. TakeValue
  BY <1>1, <1>9 DEF ByLetter
<1>11. PICK j \in DigitsEnd(source, pos) :
         IF j > Len(source) THEN Raise
         ELSE Take(SubSeq(source, pos, j - 1), j) /\ UNCHANGED stk
  BY <1>10 DEF TakeValue
<1>12. j = o + a + 1 /\ ~(j > Len(source)) /\ j - 1 = o + a /\ j = pos + Len(p)
  <2>1. j = o + a + 1
    BY <1>3, <1>8, <1>11
  <2>2. pos + a = o + a + 1 /\ j - 1 = o + a
    BY <1>3, <2>1
  <2> QED
    BY <1>2, <1>4, <1>7, <2>1, <2>2
<1>13. Take(p, pos + Len(p)) /\ stk' = stk
  BY <1>3, <1>8, <1>11, <1>12
<1>14. StackOf(stk', b, l)
  BY <1>13
<1> QED
  BY <1>13, <1>14 DEF Taken

LEMMA NameTaken ==
  ASSUME NEW t \in Name, NEW p, p = Decimal10[Len(t)] \o t, NEW h, ByLetter, Faces(p, h, "out"),
         t = << >> /\ pos + Len(p) <= Len(source) => source[pos + Len(p)] \notin Digit,
         NEW b, NEW l, StackOf(stk, b, l)
  PROVE  Taken(p, b, l)
<1>1. /\ source \in Seq(Char) /\ pos \in 1..Len(source) /\ Lies(source, pos - 1, p)
      /\ Ch = p[1] /\ ~InValue
  BY DEF Faces
<1>2. PICK c \in Nat : c = Len(source)
  BY <1>1
<1>3. PICK o \in Nat : o + 1 = pos /\ o = pos - 1
  <2>1. pos - 1 \in Nat /\ (pos - 1) + 1 = pos
    BY <1>1, <1>2
  <2> QED
    BY <2>1
<1>4. t \in Seq(Char) /\ (t # << >> => t[1] \notin Digit)
  BY DEF Name, Text
<1>5. PICK e \in Nat : e = Len(t)
  BY <1>4
<1>6. PICK y : y = Decimal10[Len(t)]
  OBVIOUS
<1>7. /\ y \in Seq(Digit) /\ Len(y) \in Nat \ {0} /\ Number(y) = e
      /\ e = 0 => y = << "0" >>
      /\ e # 0 => y[1] # "0"
  BY <1>5, <1>6, NumberOfDecimal
<1>8. PICK a \in Nat \ {0} : a = Len(y)
  BY <1>7
<1>9. y \in Seq(Char)
  BY <1>7, CharAssumption, SeqSubset
<1>10. /\ Len(p) = a + e
       /\ \A k \in 1..(a + e) : p[k] = IF k <= a THEN y[k] ELSE t[k - a]
  BY <1>4, <1>5, <1>6, <1>8, <1>9, ConcatProperties
<1>11. /\ o + (a + e) <= c /\ \A k \in 1..(a + e) : source[o + k] = p[k]
  BY <1>1, <1>2, <1>3, <1>10 DEF Lies
<1>12. \A k \in 1..a : source[o + k] = y[k]
  <2>1. \A k \in 1..a : k \in 1..(a + e) /\ k <= a
    OBVIOUS
  <2> QED
    BY <1>10, <1>11, <2>1
<1>13. \A k \in 1..e : source[(o + a) + k] = t[k]
  <2> TAKE k \in 1..e
  <2>1. PICK i \in 1..(a + e) : i = a + k
    OBVIOUS
  <2>2. ~(i <= a) /\ i - a = k /\ (o + a) + k = o + i
    BY <2>1
  <2> QED
    BY <1>10, <1>11, <2>1, <2>2
<1>14. o + a < c => source[o + a + 1] \notin Digit
  <2>1. CASE t = << >>
    <3>1. e = 0 /\ pos + Len(p) = o + a + 1
      BY <1>3, <1>5, <1>10, <2>1
    <3> QED
      BY <1>2, <2>1, <3>1
  <2>2. CASE t # << >>
    <3>1. 1 \in 1..e /\ (o + a) + 1 = o + a + 1
      BY <1>4, <1>5, <2>2, EmptySeq
    <3>2. source[o + a + 1] = t[1]
      BY <1>13, <3>1
    <3> QED
      BY <1>4, <2>2, <3>2
  <2> QED
    BY <2>1, <2>2
<1>15. DigitsEnd(source, o + 1) = {o + a + 1} /\ SubSeq(source, o + 1, o + a) = y
  <2>1. o + a <= c
    BY <1>11
  <2>2. DigitsLie(source, o, y)
    BY <1>1, <1>2, <1>7, <1>8, <1>12, <1>14, <2>1 DEF DigitsLie
  <2>3. DigitsFound(source, o, y)
    BY <2>2, DigitsHere
  <2> QED
    BY <1>8, <2>3 DEF DigitsFound
<1>16. SubSeq(source, (o + a) + 1, (o + a) + Len(t)) = t
  <2>1. o + a \in Nat /\ (o + a) + Len(t) <= Len(source)
    BY <1>2, <1>5, <1>11
  <2>2. \A k \in 1..Len(t) : source[(o + a) + k] = t[k]
    BY <1>5, <1>13
  <2> QED
    BY <1>1, <1>4, <2>1, <2>2, SubSeqIs
<1>17. Decimal(y) = {y}
  <2>1. y # << >>
    BY <1>7
  <2>2. y[1] # "0" \/ Len(y) = 1
    <3>1. CASE e = 0
      <4>1. y = << "0" >>
        BY <1>7, <3>1
      <4>2. Len(<< "0" >>) = 1
        OBVIOUS
      <4> QED
        BY <4>1, <4>2
    <3> QED
      BY <1>7, <3>1
  <2> QED
    BY <1>7, <2>1, <2>2, DecimalIs
<1>18. Ch \in Digit
  <2>1. 1 \in 1..(a + e) /\ 1 <= a
    OBVIOUS
  <2>2. p[1] = y[1] /\ y[1] \in Digit
    BY <1>7, <1>8, <1>10, <2>1
  <2> QED
    BY <1>1, <2>2
<1>19. TakeName
  BY <1>1, <1>18 DEF ByLetter
<1>20. PICK j \in DigitsEnd(source, pos) :
         LET digits == SubSeq(source, pos, j - 1)
         IN  \/ /\ Number(digits) \notin 0..(Len(source) - j + 1)
                /\ Raise
             \/ \E i \in 0..(Len(source) - j + 1), length \in Decimal(digits) :
                  /\ i = Number(digits)
                  /\ Take(length \o SubSeq(source, j, j + i - 1), j + i)
                  /\ UNCHANGED stk
  BY <1>19 DEF TakeName
<1>21. j = o + a + 1 /\ j - 1 = o + a
  BY <1>3, <1>15, <1>20
<1>22. SubSeq(source, pos, j - 1) = y
  BY <1>3, <1>15, <1>21
<1>23. e \in 0..(Len(source) - j + 1)
  BY <1>2, <1>11, <1>21
<1>24. PICK i \in 0..(Len(source) - j + 1), length \in Decimal(y) :
         /\ i = e
         /\ Take(length \o SubSeq(source, j, j + i - 1), j + i)
         /\ UNCHANGED stk
  BY <1>7, <1>20, <1>22, <1>23
<1>25. j + i - 1 = (o + a) + Len(t) /\ j = (o + a) + 1 /\ j + i = pos + Len(p)
  <2>1. i = e /\ j = o + a + 1 /\ Len(p) = a + e /\ Len(t) = e /\ pos = o + 1
    BY <1>3, <1>5, <1>10, <1>21, <1>24
  <2>2. /\ o + a + 1 + e - 1 = (o + a) + e /\ o + a + 1 = (o + a) + 1
        /\ o + a + 1 + e = o + 1 + (a + e)
    OBVIOUS
  <2> QED
    BY <2>1, <2>2
<1>26. SubSeq(source, j, j + i - 1) = t
  BY <1>16, <1>25
<1>27. length = y
  BY <1>17
<1>28. length \o SubSeq(source, j, j + i - 1) = p
  BY <1>6, <1>26, <1>27
<1>29. Take(p, pos + Len(p)) /\ stk' = stk
  BY <1>24, <1>25, <1>28
<1>30. StackOf(stk', b, l)
  BY <1>29
<1> QED
  BY <1>29, <1>30 DEF Taken

LEMMA ArrayTaken ==
  ASSUME ByLetter, Ch = "A", NEW o \in Nat, pos = o + 1, NEW e,
         e = << >> \/ e \in Length, DigitsLie(source, o + 1, e),
         o + Len(e) + 2 <= Len(source), source[o + Len(e) + 2] = Underscore
  PROVE  /\ tokens' = IF e = << >> THEN Append(tokens, << "A" >>)
                      ELSE Append(Append(tokens, << "A" >>), e)
         /\ pos' = o + Len(e) + 3
         /\ way' = way /\ source' = source /\ stk' = stk /\ phase' = phase
<1>1. PICK a \in Nat : a = Len(e)
  BY DEF DigitsLie
<1>2. PICK p \in Nat : p = o + 1
  OBVIOUS
<1>3. DigitsEnd(source, p + 1) = {p + a + 1} /\ SubSeq(source, p + 1, p + a) = e
  <2>1. DigitsLie(source, p, e)
    BY <1>2
  <2>2. DigitsFound(source, p, e)
    BY <2>1, DigitsHere
  <2> QED
    BY <1>1, <2>2 DEF DigitsFound
<1>4. TakeArray
  BY DEF ByLetter
<1>5. pos = p
  BY <1>2
<1>6. PICK j \in DigitsEnd(source, p + 1) :
         LET digits == SubSeq(source, p + 1, j - 1)
         IN  /\ IF \A i \in DOMAIN digits : digits[i] = "0"
                THEN tokens' = Append(tokens, << "A" >>)
                ELSE \E length \in Decimal(digits) :
                       tokens' = Append(Append(tokens, << "A" >>), length)
             /\ pos' = IF j <= Len(source) /\ source[j] = Underscore THEN j + 1 ELSE j
  BY <1>4, <1>5 DEF TakeArray
<1>7. j = p + a + 1 /\ j - 1 = p + a /\ j = o + a + 2 /\ j + 1 = o + a + 3
  BY <1>2, <1>3, <1>6
<1>8. SubSeq(source, p + 1, j - 1) = e
  BY <1>3, <1>7
<1>9. pos' = o + a + 3
  BY <1>1, <1>6, <1>7
<1>10. /\ IF \A i \in DOMAIN e : e[i] = "0"
          THEN tokens' = Append(tokens, << "A" >>)
          ELSE \E length \in Decimal(e) : tokens' = Append(Append(tokens, << "A" >>), length)
  BY <1>6, <1>8
<1>11. CASE e = << >>
  <2>1. \A i \in DOMAIN e : e[i] = "0"
    BY <1>11
  <2>2. tokens' = Append(tokens, << "A" >>)
    BY <1>10, <2>1
  <2> QED
    BY <1>1, <1>4, <1>9, <1>11, <2>2 DEF TakeArray
<1>12. CASE e \in Length
  <2>1. e \in Seq(Digit) /\ e # << >> /\ e[1] # "0"
    BY <1>12 DEF Length, Numeral
  <2>2. Decimal(e) = {e}
    BY <2>1, DecimalIs
  <2>3. 1 \in DOMAIN e
    BY <2>1
  <2>4. tokens' = Append(Append(tokens, << "A" >>), e)
    BY <1>10, <2>1, <2>2, <2>3
  <2> QED
    BY <1>1, <1>4, <1>9, <2>1, <2>4 DEF TakeArray
<1> QED
  BY <1>11, <1>12

LEMMA OnlyArray ==
  ASSUME NEW a, NEW k, NEW b, NEW l, NEW q, Goes(a, k, << "A" >>, b, l, q), k = "out"
  PROVE  l = "array" /\ b = a
<1>1. << "A" >> \notin Single
  BY ClassesApart DEF Single, NullPtr
<1>2. << "A" >> \notin Named
  <2> SUFFICES ASSUME << "A" >> \in Named PROVE FALSE
    OBVIOUS
  <2>1. PICK t \in Name : << "A" >> = Decimal10[Len(t)] \o t
    BY DEF Named
  <2>2. << "A" >>[1] \in Digit
    BY <2>1, NamePiece
  <2> QED
    BY <2>2, DigitIs
<1>3. << "A" >> \notin Heads
  <2>1. << "A" >> \notin Operator
    BY OperatorIs
  <2> QED
    BY <2>1 DEF Heads
<1>4. Move(a, k, << "A" >>, b, l)
  BY <1>3 DEF Goes
<1> QED
  BY <1>1, <1>2, <1>4 DEF Move

(* The length of an array, and the underscore.                             *)
LEMMA ArrayStep ==
  ASSUME NEW P, NEW f, NEW g, NEW d, NEW m, NEW n, NEW h, NEW q,
         Before(P, f, g, d, m, n, h, q), Split, P[q] = << "A" >>, m[h] = "out"
  PROVE  \E j \in q..n : Onward(P, f, g, d, m, j)
<1>1. /\ Laid(P, f, g, d, m) /\ n \in Nat /\ n = Len(P) /\ q \in 1..n /\ h \in Nat /\ h + 1 = q
      /\ AtPiece(P, f, g, d, m, h)
  BY DEF Before
<1>2. /\ ByLetter /\ Faces(P[q], h, m[h]) /\ Goes(d[h], m[h], P[q], d[q], m[q], q)
      /\ StackOf(stk, d[h], m[h]) /\ phase = "split"
  BY Gathered
<1>3. m[q] = "array" /\ d[q] = d[h]
  BY <1>2, OnlyArray
<1>4. q # n
  <2>1. q = n => m[q] = "out"
    BY <1>1 DEF Laid, ColumnRun
  <2> QED
    BY <1>3, <2>1
<1>5. PICK r \in 1..n : r = q + 1
  BY <1>1, <1>4
<1>6. Goes(d[q], m[q], P[r], d[r], m[r], r)
  <2>1. q \in Nat /\ q + 1 = r
    BY <1>1, <1>5
  <2> QED
    BY <1>1, <2>1, GoesAt
<1>7. /\ d[r] = d[q]
      /\ (P[r] \in Length /\ m[r] = "size") \/ (P[r] = << Underscore >> /\ m[r] = "out")
  <2>1. r # 1
    BY <1>1, <1>5
  <2> QED
    BY <1>3, <1>6, <2>1 DEF Goes, Move
<1>8. PICK o \in Nat : o = Len(f[h]) /\ pos = o + 1 /\ Len(f[q]) = o + 1
  <2>1. Puts(f[n], f[h], f[q], P[q])
    BY <1>1, LiesAt
  <2>2. Len(P[q]) = 1
    OBVIOUS
  <2> QED
    BY <1>1, <2>1, <2>2 DEF Puts, Lies, AtPiece
<1>9. PICK s : s = source
  OBVIOUS
<1>10. s = f[n] /\ tokens = g[h] /\ s \in Seq(Char) /\ Len(s) \in Nat
  BY <1>1, <1>2, <1>9 DEF AtPiece, Faces
<1>11. Ch = "A"
  BY <1>2 DEF Faces
<1>12. Puts(f[n], f[q], f[r], P[r])
  <2>1. q \in Nat /\ q + 1 = r
    BY <1>1, <1>5
  <2> QED
    BY <1>1, <2>1, LiesAt
<1>13. PICK a \in Nat \ {0} : a = Len(P[r])
  BY <1>12 DEF Puts, Lies
<1>14. /\ (o + 1) + a <= Len(s) /\ Len(f[r]) = (o + 1) + a
       /\ \A k \in 1..a : s[(o + 1) + k] = P[r][k]
  BY <1>8, <1>10, <1>12, <1>13 DEF Puts, Lies
<1>15. Keeps(g[h], P[q], g[q])
  BY <1>1, KeptAt
<1>16. Keeps(g[q], P[r], g[r])
  <2>1. q \in Nat /\ q + 1 = r
    BY <1>1, <1>5
  <2> QED
    BY <1>1, <2>1, KeptAt
<1>17. << "A" >> # << Underscore >>
  BY UnderscoreIs
<1>18. g[q] = Append(tokens, << "A" >>)
  BY <1>10, <1>15, <1>17 DEF Keeps
<1>19. CASE P[r] = << Underscore >> /\ m[r] = "out"
  <2>1. a = 1
    BY <1>13, <1>19
  <2>2. s[o + 2] = Underscore /\ o + 2 <= Len(s)
    <3>1. 1 \in 1..a /\ (o + 1) + 1 = o + 2 /\ P[r][1] = Underscore
      BY <1>19, <2>1
    <3> QED
      BY <1>14, <2>1, <3>1
  <2>3. DigitsLie(source, o + 1, << >>)
    <3>1. Len(<< >>) = 0 /\ << >> \in Seq(Digit)
      OBVIOUS
    <3>2. o + 1 + 0 + 1 = o + 2 /\ o + 1 \in Nat /\ o + 1 + 0 <= Len(s)
      BY <1>10, <2>2
    <3>3. s[o + 1 + 0 + 1] \notin Digit
      BY <2>2, <3>2, UnderscoreIs
    <3> QED
      BY <1>9, <1>10, <3>1, <3>2, <3>3 DEF DigitsLie
  <2>4. /\ tokens' = Append(tokens, << "A" >>) /\ pos' = o + 3
        /\ way' = way /\ source' = source /\ stk' = stk /\ phase' = phase
    <3>0. PICK e : e = << >>
      OBVIOUS
    <3>1. Len(e) = 0
      BY <3>0
    <3>2. o + Len(e) + 2 = o + 2 /\ o + Len(e) + 3 = o + 3
      BY <3>1
    <3>3. /\ tokens' = IF e = << >> THEN Append(tokens, << "A" >>)
                      ELSE Append(Append(tokens, << "A" >>), e)
          /\ pos' = o + Len(e) + 3
          /\ way' = way /\ source' = source /\ stk' = stk /\ phase' = phase
      <4>1. DigitsLie(source, o + 1, e)
        BY <2>3, <3>0
      <4>2. o + Len(e) + 2 <= Len(source) /\ source[o + Len(e) + 2] = Underscore
        BY <1>9, <2>2, <3>2
      <4> QED
        BY <1>2, <1>8, <1>11, <3>0, <4>1, <4>2, ArrayTaken
    <3> QED
      BY <3>0, <3>2, <3>3
  <2>5. g[r] = g[q]
    BY <1>16, <1>19 DEF Keeps
  <2>6. StackOf(stk', d[r], m[r])
    BY <1>2, <1>3, <1>7, <1>19, <2>4
  <2>7. pos' = Len(f[r]) + 1
    <3>1. o + 3 = (o + 1) + 1 + 1
      OBVIOUS
    <3> QED
      BY <1>14, <2>1, <2>4, <3>1
  <2>8. r \in q..n /\ r \in 0..Len(P)
    BY <1>1, <1>5
  <2>9. Onward(P, f, g, d, m, r)
    BY <1>1, <1>2, <1>9, <1>10, <1>18, <2>4, <2>5, <2>6, <2>7, <2>8 DEF Onward, AtPiece
  <2> QED
    BY <2>8, <2>9
<1>20. CASE P[r] \in Length /\ m[r] = "size"
  <2>1. r # n
    <3>1. r = n => m[r] = "out"
      BY <1>1 DEF Laid, ColumnRun
    <3> QED
      BY <1>20, <3>1
  <2>2. PICK w \in 1..n : w = r + 1
    <3>1. r + 1 \in 1..n
      BY <1>1, <1>5, <2>1
    <3> QED
      BY <3>1
  <2>3. Goes(d[r], m[r], P[w], d[w], m[w], w)
    <3>1. r \in Nat /\ r + 1 = w
      BY <2>2
    <3> QED
      BY <1>1, <3>1, GoesAt
  <2>4. d[w] = d[r] /\ P[w] = << Underscore >> /\ m[w] = "out"
    <3>1. w # 1
      BY <2>2
    <3> QED
      BY <1>20, <2>3, <3>1 DEF Goes, Move
  <2>5. Puts(f[n], f[r], f[w], P[w])
    <3>1. r \in Nat /\ r + 1 = w
      BY <2>2
    <3> QED
      BY <1>1, <3>1, LiesAt
  <2>6. /\ s[o + a + 2] = Underscore /\ o + a + 2 <= Len(s) /\ Len(f[w]) = o + a + 2
    <3>1. Len(P[w]) = 1 /\ P[w][1] = Underscore /\ 1 \in 1..1
      BY <2>4
    <3>2. ((o + 1) + a) + 1 = o + a + 2
      OBVIOUS
    <3> QED
      BY <1>10, <1>14, <2>5, <3>1, <3>2 DEF Puts, Lies
  <2>7. P[r] \in Seq(Digit) /\ P[r] # << >>
    BY <1>20 DEF Length, Numeral
  <2>8. DigitsLie(source, o + 1, P[r])
    <3>1. o + 1 + a + 1 = o + a + 2 /\ o + 1 \in Nat /\ o + 1 + a <= Len(s)
      BY <1>10, <2>6
    <3>2. s[o + 1 + a + 1] \notin Digit
      BY <2>6, <3>1, UnderscoreIs
    <3> QED
      BY <1>9, <1>10, <1>13, <1>14, <2>7, <3>1, <3>2 DEF DigitsLie
  <2>9. /\ tokens' = Append(Append(tokens, << "A" >>), P[r]) /\ pos' = o + a + 3
        /\ way' = way /\ source' = source /\ stk' = stk /\ phase' = phase
    <3>0. PICK e : e = P[r]
      OBVIOUS
    <3>1. Len(e) = a /\ e # << >> /\ e \in Length
      BY <1>13, <1>20, <2>7, <3>0
    <3>3. /\ tokens' = IF e = << >> THEN Append(tokens, << "A" >>)
                      ELSE Append(Append(tokens, << "A" >>), e)
          /\ pos' = o + Len(e) + 3
          /\ way' = way /\ source' = source /\ stk' = stk /\ phase' = phase
      <4>1. DigitsLie(source, o + 1, e)
        BY <2>8, <3>0
      <4>2. o + Len(e) + 2 <= Len(source) /\ source[o + Len(e) + 2] = Underscore
        BY <1>9, <2>6, <3>1
      <4> QED
        BY <1>2, <1>8, <1>11, <3>1, <4>1, <4>2, ArrayTaken
    <3> QED
      BY <3>0, <3>1, <3>3
  <2>10. Keeps(g[r], P[w], g[w])
    <3>1. r \in Nat /\ r + 1 = w
      BY <2>2
    <3> QED
      BY <1>1, <3>1, KeptAt
  <2>11. P[r] # << Underscore >>
    <3>1. P[r][1] \in Digit
      BY <2>7
    <3> QED
      BY <3>1, UnderscoreIs
  <2>12. g[w] = tokens'
    BY <1>16, <1>18, <2>4, <2>9, <2>10, <2>11 DEF Keeps
  <2>13. StackOf(stk', d[w], m[w])
    BY <1>2, <1>3, <1>7, <2>4, <2>9
  <2>14. pos' = Len(f[w]) + 1
    <3>1. o + a + 3 = o + a + 2 + 1
      OBVIOUS
    <3> QED
      BY <2>6, <2>9, <3>1
  <2>15. w \in q..n /\ w \in 0..Len(P)
    BY <1>1, <1>5, <2>2
  <2>16. Onward(P, f, g, d, m, w)
    BY <1>1, <1>2, <1>9, <1>10, <2>9, <2>12, <2>13, <2>14, <2>15 DEF Onward, AtPiece
  <2> QED
    BY <2>15, <2>16
<1> QED
  BY <1>7, <1>19, <1>20

LEMMA NotUnderscore ==
  /\ \A c \in {"N", "I", "F", "L", "E", "i", "A"} : << c >> # << Underscore >>
  /\ \A p \in Single \cup Named \cup Numeral \cup Heads : p # << Underscore >>
<1>1. Underscore \notin Builtin \cup Modifier \cup {"N", "I", "F", "L", "E", "A", "C", "D"}
  BY UnderscoreIs DEF Opening
<1>2. "i" \in Builtin
  BY DEF Builtin
<1>3. \A c \in {"N", "I", "F", "L", "E", "i", "A", "C", "D"} \cup Builtin \cup Modifier :
         << c >> # << Underscore >>
  BY <1>1, <1>2
<1>4. \A p \in Single : p # << Underscore >>
  <2>1. NullPtr # << Underscore >>
    BY DEF NullPtr
  <2> QED
    BY <1>3, <2>1 DEF Single
<1>5. ASSUME NEW p \in Named PROVE p # << Underscore >>
  <2>1. PICK t \in Name : p = Decimal10[Len(t)] \o t
    BY DEF Named
  <2>2. p[1] \in Digit
    BY <2>1, NamePiece
  <2> QED
    BY <2>2, UnderscoreIs
<1>6. ASSUME NEW p \in Numeral PROVE p # << Underscore >>
  <2>1. p[1] \in Digit
    BY DEF Numeral
  <2> QED
    BY <2>1, UnderscoreIs
<1>7. \A p \in Heads : p # << Underscore >>
  <2>1. \A p \in Operator : Len(p) = 2
    BY OperatorIs
  <2> QED
    BY <1>3, <2>1 DEF Heads
<1> QED
  BY <1>3, <1>4, <1>5, <1>6, <1>7

(* Behind the piece q of m "close" there is an E, and behind the name of   *)
(* nothing no digit.                                                       *)
LEMMA NextLetter ==
  ASSUME NEW P, NEW f, NEW g, NEW d, NEW m, NEW n, NEW h, NEW q,
         Before(P, f, g, d, m, n, h, q)
  PROVE  /\ m[q] = "close" => pos + Len(P[q]) <= Len(source) /\ source[pos + Len(P[q])] \notin Digit
         /\ P[q] = << "0" >> /\ pos + Len(P[q]) <= Len(source)
              => source[pos + Len(P[q])] \notin Digit
<1>1. /\ Laid(P, f, g, d, m) /\ n \in Nat /\ n = Len(P) /\ q \in 1..n /\ h \in Nat /\ h + 1 = q
      /\ AtPiece(P, f, g, d, m, h)
  BY DEF Before
<1>2. PICK o \in Nat, a \in Nat \ {0} :
         o = Len(f[h]) /\ a = Len(P[q]) /\ pos = o + 1 /\ Len(f[q]) = o + a
  <2>1. Puts(f[n], f[h], f[q], P[q])
    BY <1>1, LiesAt
  <2>2. PICK x, y, z : x = f[h] /\ y = f[q] /\ z = P[q]
    OBVIOUS
  <2>3. PICK o, a : o = Len(x) /\ a = Len(z)
    OBVIOUS
  <2>4. o \in Nat /\ a \in Nat \ {0} /\ Len(y) = o + a
    BY <2>1, <2>2, <2>3 DEF Puts, Lies
  <2>5. pos = o + 1
    BY <1>1, <2>2, <2>3 DEF AtPiece
  <2> QED
    BY <2>2, <2>3, <2>4, <2>5
<1>3. source = f[n] /\ pos + Len(P[q]) = o + a + 1 /\ Len(source) \in Nat
  <2>1. Faces(P[q], h, m[h])
    BY <1>1, PieceFaced
  <2>2. source = f[n]
    BY <1>1 DEF AtPiece
  <2>3. Len(source) \in Nat
    BY <2>1 DEF Faces, Lies
  <2>4. (o + 1) + a = o + a + 1
    OBVIOUS
  <2>5. pos + Len(P[q]) = (o + 1) + a
    BY <1>2
  <2> QED
    BY <2>2, <2>3, <2>4, <2>5
<1>4. CASE q = n
  <2>1. m[q] = "out"
    BY <1>1, <1>4 DEF Laid, ColumnRun
  <2>2. Len(source) = o + a
    BY <1>2, <1>3, <1>4
  <2>3. ~(o + a + 1 <= Len(source))
    BY <2>2
  <2> QED
    BY <1>3, <2>1, <2>3
<1>5. CASE q # n
  <2>1. PICK r \in 1..n : r = q + 1
    <3>1. q + 1 \in 1..n
      BY <1>1, <1>5
    <3> QED
      BY <3>1
  <2>2. q \in Nat /\ q + 1 = r /\ r # 1 /\ q < n
    BY <1>1, <1>5, <2>1
  <2>3. Meets(P[q], P[r])
    BY <1>1, <2>2 DEF Laid, ColumnRun
  <2>4. Goes(d[q], m[q], P[r], d[r], m[r], r)
    BY <1>1, <2>2, GoesAt
  <2>5. Puts(f[n], f[q], f[r], P[r])
    BY <1>1, <2>2, LiesAt
  <2>6. source[o + a + 1] = P[r][1] /\ o + a + 1 <= Len(source)
    <3>1. PICK e \in Nat \ {0} : e = Len(P[r])
      BY <2>5 DEF Puts, Lies
    <3>2. 1 \in 1..e
      OBVIOUS
    <3>3. (o + a) + e <= Len(source) /\ \A k \in 1..e : source[(o + a) + k] = P[r][k]
      BY <1>2, <1>3, <2>5, <3>1 DEF Puts, Lies
    <3> QED
      BY <1>3, <3>1, <3>2, <3>3
  <2>7. m[q] = "close" => P[r] = << "E" >>
    BY <2>2, <2>4 DEF Goes, Move
  <2>8. "E" \notin Digit
    BY DigitIs
  <2> QED
    BY <1>3, <2>3, <2>6, <2>7, <2>8 DEF Meets
<1> QED
  BY <1>4, <1>5

LEMMA PieceStep ==
  ASSUME NEW P, NEW f, NEW g, NEW d, NEW m, NEW n, NEW h, NEW q,
         Before(P, f, g, d, m, n, h, q), Split
  PROVE  \E j \in q..n : Onward(P, f, g, d, m, j)
<1>1. /\ Laid(P, f, g, d, m) /\ n \in Nat /\ n = Len(P) /\ q \in 1..n /\ h \in Nat /\ h + 1 = q
      /\ AtPiece(P, f, g, d, m, h)
  BY DEF Before
<1>2. /\ ByLetter /\ Faces(P[q], h, m[h]) /\ Goes(d[h], m[h], P[q], d[q], m[q], q)
      /\ StackOf(stk, d[h], m[h]) /\ phase = "split"
  BY Gathered
<1>3. PICK p, a, b, k, l : p = P[q] /\ a = d[h] /\ b = d[q] /\ k = m[h] /\ l = m[q]
  OBVIOUS
<1>4. Faces(p, h, k) /\ Goes(a, k, p, b, l, q) /\ StackOf(stk, a, k)
  BY <1>2, <1>3
<1>5. a \in Nat /\ b \in Nat /\ k \in {"out", "value", "number", "close"}
  BY <1>4 DEF Goes, StackOf
<1>6. ASSUME Taken(p, b, l), p # << Underscore >>
      PROVE  \E j \in q..n : Onward(P, f, g, d, m, j)
  <2>1. Take(P[q], pos + Len(P[q])) /\ StackOf(stk', d[q], m[q]) /\ P[q] # << Underscore >>
    BY <1>3, <1>6 DEF Taken
  <2>2. Onward(P, f, g, d, m, q)
    BY <1>1, <1>2, <2>1, PieceTaken
  <2>3. q \in q..n
    BY <1>1
  <2> QED
    BY <2>2, <2>3
<1>7. CASE q = 1 /\ p \in Heads /\ a = 0 /\ k = "out" /\ b = 0 /\ l = "out"
  <2>1. h = 0
    BY <1>1, <1>7
  <2>2. Taken(p, b, l)
    BY <1>2, <1>4, <1>7, <2>1, HeadStep
  <2> QED
    BY <1>6, <1>7, <2>2, NotUnderscore
<1>8. CASE k = "out" /\ l = "out" /\ p \in {<< "N" >>, << "I" >>, << "F" >>} /\ b = a + 1
  <2>1. PICK c \in {"N", "I", "F"} : p = << c >>
    BY <1>8
  <2>2. c \in Opening /\ c # "L"
    BY DEF Opening
  <2>3. Taken(<< c >>, b, l)
    BY <1>2, <1>4, <1>5, <1>8, <2>1, <2>2, OpeningTaken
  <2> QED
    BY <1>6, <2>1, <2>3, NotUnderscore
<1>9. CASE k \in {"out", "close"} /\ l = "out" /\ p = << "E" >> /\ a = b + 1
  <2>1. Taken(<< "E" >>, b, "out")
    BY <1>2, <1>4, <1>5, <1>9, ClosingTaken
  <2> QED
    BY <1>6, <1>9, <2>1, NotUnderscore
<1>10. CASE k = "out" /\ l = "out" /\ p \in Single /\ b = a
  <2>1. StackOf(stk, b, l)
    BY <1>4, <1>10
  <2>2. CASE p = NullPtr
    <3>1. Taken(NullPtr, b, l)
      BY <1>3, <2>1, <2>2, NullPtrStep
    <3> QED
      BY <1>6, <1>10, <2>2, <3>1, NotUnderscore
  <2>3. CASE p # NullPtr
    <3>1. PICK c \in Builtin \cup Modifier : p = << c >>
      BY <1>10, <2>3 DEF Single
    <3>2. Taken(<< c >>, b, l)
      BY <1>3, <2>1, <3>1, LetterStep
    <3> QED
      BY <1>6, <1>10, <3>1, <3>2, NotUnderscore
  <2> QED
    BY <2>2, <2>3
<1>11. CASE k = "out" /\ l = "out" /\ p \in Named /\ b = a
  <2>1. PICK t \in Name : p = Decimal10[Len(t)] \o t
    BY <1>11 DEF Named
  <2>2. t = << >> => p = << "0" >>
    BY <2>1, NamePiece
  <2>3. t = << >> /\ pos + Len(p) <= Len(source) => source[pos + Len(p)] \notin Digit
    BY <1>3, <2>2, NextLetter
  <2>4. StackOf(stk, b, l) /\ Faces(p, h, "out")
    BY <1>4, <1>11
  <2>5. Taken(p, b, l)
    BY <1>2, <2>1, <2>3, <2>4, NameTaken
  <2> QED
    BY <1>6, <1>11, <2>5, NotUnderscore
<1>12. CASE k = "out" /\ l = "value" /\ p = << "L" >> /\ b = a + 1
  <2>1. "L" \in Opening
    BY DEF Opening
  <2>2. Taken(<< "L" >>, b, l)
    BY <1>2, <1>4, <1>5, <1>12, <2>1, OpeningTaken
  <2> QED
    BY <1>6, <1>12, <2>2, NotUnderscore
<1>13. CASE k = "value" /\ l = "number" /\ p = << "i" >> /\ b = a
  <2>1. "i" \in Builtin \cup Modifier
    BY DEF Builtin
  <2>2. StackOf(stk, b, l)
    BY <1>4, <1>13, StackMode
  <2>3. Taken(<< "i" >>, b, l)
    BY <1>3, <1>13, <2>1, <2>2, LetterStep
  <2> QED
    BY <1>6, <1>13, <2>3, NotUnderscore
<1>14. CASE k = "number" /\ l = "close" /\ p \in Numeral /\ b = a
  <2>1. pos + Len(p) <= Len(source) /\ source[pos + Len(p)] \notin Digit
    BY <1>3, <1>14, NextLetter
  <2>2. StackOf(stk, b, l)
    BY <1>4, <1>14, StackMode
  <2>3. Faces(p, h, "number")
    BY <1>4, <1>14
  <2>4. Taken(p, b, l)
    BY <1>2, <1>14, <2>1, <2>2, <2>3, NumeralTaken
  <2> QED
    BY <1>6, <1>14, <2>4, NotUnderscore
<1>15. CASE k = "out" /\ l = "array" /\ p = << "A" >> /\ b = a
  BY <1>3, <1>15, ArrayStep
<1>16. \/ Move(a, k, p, b, l)
       \/ q = 1 /\ p \in Heads /\ a = 0 /\ k = "out" /\ b = 0 /\ l = "out"
  BY <1>4 DEF Goes
<1>17. k # "array" /\ k # "size"
  BY <1>5
<1> QED
  BY <1>7, <1>8, <1>9, <1>10, <1>11, <1>12, <1>13, <1>14, <1>15, <1>16, <1>17 DEF Move

-----------------------------------------------------------------------------
(* What is written of a declaration is readable.                           *)

LEMMA RunIsColumn ==
  ASSUME NEW P, Balanced(P), Begins(P)
  PROVE  Readable(P)
<1>1. PICK d, m : Run(P, d, m)
  BY DEF Balanced
<1>2. ColumnRun(P, d, m)
  BY <1>1 DEF Run, ColumnRun
<1> QED
  BY <1>2 DEF Balanced, Readable

LEMMA HeadsAreWords == Heads \subseteq Words
<1>1. ASSUME NEW o \in Operator PROVE o \in Words
  <2>1. PICK a, b : o = << a, b >> /\ a \in Char /\ b \in Char
    BY LetterAssumption DEF Operator
  <2>2. << a, b >> \in Seq(Char) /\ << a, b >> # << >>
    BY <2>1, SeqOfTwo
  <2> QED
    BY <2>1, <2>2 DEF Words, Text
<1>2. << "C" >> \in Words /\ << "D" >> \in Words
  BY LettersAre, OneLetter
<1> QED
  BY <1>1, <1>2 DEF Heads

(* A name that is no identifier, before the rest.                          *)
LEMMA HeadReadable ==
  ASSUME NEW x \in Heads, NEW T, Balanced(T)
  PROVE  Readable(<< x >> \o T)
<1>1. T \in Seq(Words)
  BY DEF Balanced
<1>2. PICK n \in Nat : n = Len(T)
  BY <1>1
<1>3. PICK d, m : Run(T, d, m)
  BY DEF Balanced
<1>4. PICK P : P = << x >> \o T
  OBVIOUS
<1>5. << x >> \in Seq(Words) /\ Len(<< x >>) = 1 /\ << x >>[1] = x
  BY HeadsAreWords
<1>6. /\ P \in Seq(Words) /\ Len(P) = 1 + n /\ P[1] = x /\ P # << >>
      /\ \A i \in 1..n : P[i + 1] = T[i]
  <2>1. PICK o : o = << x >>
    OBVIOUS
  <2>2. /\ P \in Seq(Words) /\ Len(P) = 1 + n
        /\ \A i \in 1..(1 + n) : P[i] = IF i <= 1 THEN o[i] ELSE T[i - 1]
    BY <1>1, <1>2, <1>4, <1>5, <2>1, ConcatProperties
  <2>3. 1 \in 1..(1 + n) /\ 1 <= 1
    OBVIOUS
  <2>4. \A i \in 1..n : i + 1 \in 1..(1 + n) /\ ~(i + 1 <= 1) /\ (i + 1) - 1 = i
    OBVIOUS
  <2>5. P # << >>
    BY <2>2
  <2> QED
    BY <1>5, <2>1, <2>2, <2>3, <2>4, <2>5
<1>7. /\ d \in [0..n -> Nat] /\ m \in [0..n -> Mode]
      /\ d[0] = 0 /\ d[n] = 0 /\ m[0] = "out" /\ m[n] = "out"
      /\ \A i \in 1..n : Move(d[i - 1], m[i - 1], T[i], d[i], m[i])
      /\ \A i \in 1..n : i < n => Meets(T[i], T[i + 1])
  BY <1>2, <1>3 DEF Run
<1>8. PICK e : e = [i \in 0..(1 + n) |-> IF i = 0 THEN 0 ELSE d[i - 1]]
  OBVIOUS
<1>9. PICK k : k = [i \in 0..(1 + n) |-> IF i = 0 THEN "out" ELSE m[i - 1]]
  OBVIOUS
<1>10. /\ e[0] = 0 /\ k[0] = "out" /\ \A i \in 0..n : e[i + 1] = d[i] /\ k[i + 1] = m[i]
  <2>1. 0 \in 0..(1 + n)
    OBVIOUS
  <2>2. \A i \in 0..n : i + 1 \in 0..(1 + n) /\ i + 1 # 0 /\ (i + 1) - 1 = i
    OBVIOUS
  <2> QED
    BY <1>8, <1>9, <2>1, <2>2
<1>11. e \in [0..(1 + n) -> Nat] /\ k \in [0..(1 + n) -> Mode]
  <2>1. \A i \in 0..(1 + n) : i = 0 \/ i - 1 \in 0..n
    OBVIOUS
  <2>2. \A i \in 0..(1 + n) : (IF i = 0 THEN 0 ELSE d[i - 1]) \in Nat
    BY <1>7, <2>1
  <2>3. \A i \in 0..(1 + n) : (IF i = 0 THEN "out" ELSE m[i - 1]) \in Mode
    BY <1>7, <2>1 DEF Mode
  <2> QED
    BY <1>8, <1>9, <2>2, <2>3
<1>12. e[1 + n] = 0 /\ k[1 + n] = "out" /\ e[1] = 0 /\ k[1] = "out"
  <2>1. n \in 0..n /\ 0 \in 0..n /\ n + 1 = 1 + n /\ 0 + 1 = 1
    OBVIOUS
  <2>2. e[n + 1] = d[n] /\ k[n + 1] = m[n] /\ e[0 + 1] = d[0] /\ k[0 + 1] = m[0]
    BY <1>10, <2>1
  <2> QED
    BY <1>7, <2>1, <2>2
<1>13. ASSUME NEW i \in 1..(1 + n)
       PROVE  \/ Move(e[i - 1], k[i - 1], P[i], e[i], k[i])
              \/ i = 1 /\ P[1] \in Heads /\ e[1] = 0 /\ k[1] = "out"
  <2>1. CASE i = 1
    BY <1>6, <1>12, <2>1
  <2>2. CASE i # 1
    <3>1. PICK j \in 1..n : j = i - 1
      BY <2>2
    <3>2. PICK h \in 0..n : h = j - 1
      OBVIOUS
    <3>3. j + 1 = i /\ h + 1 = j /\ j \in 0..n
      BY <3>1, <3>2
    <3>4. P[i] = T[j]
      BY <1>6, <3>3
    <3>5. e[i] = d[j] /\ k[i] = m[j] /\ e[j] = d[h] /\ k[j] = m[h]
      BY <1>10, <3>3
    <3>6. Move(d[h], m[h], T[j], d[j], m[j])
      BY <1>7, <3>2
    <3> QED
      BY <3>1, <3>4, <3>5, <3>6
  <2> QED
    BY <2>1, <2>2
<1>14. ASSUME NEW i \in 1..(1 + n), i < 1 + n PROVE Meets(P[i], P[i + 1])
  <2>1. CASE i = 1
    <3>1. P[i] # << "0" >>
      <4>1. << "0" >> \notin Operator
        BY OperatorIs
      <4>2. << "0" >> \notin Heads
        BY <4>1 DEF Heads
      <4> QED
        BY <1>6, <2>1, <4>2
    <3> QED
      BY <3>1 DEF Meets
  <2>2. CASE i # 1
    <3>1. PICK j \in 1..n : j = i - 1
      BY <2>2
    <3>2. j + 1 = i /\ j < n /\ j + 1 \in 1..n
      BY <1>14, <3>1
    <3>3. P[i] = T[j] /\ P[i + 1] = T[j + 1]
      BY <1>6, <3>2
    <3> QED
      BY <1>7, <3>2, <3>3
  <2> QED
    BY <2>1, <2>2
<1>15. ColumnRun(P, e, k)
  BY <1>6, <1>10, <1>11, <1>12, <1>13, <1>14 DEF ColumnRun
<1>16. Begins(P)
  BY <1>6 DEF Begins
<1> QED
  BY <1>4, <1>6, <1>15, <1>16 DEF Readable

-----------------------------------------------------------------------------
LEMMA TypeReadable ==
  ASSUME NEW q \in QualType, Head(MangleType[q]) # NullPtr
  PROVE  Readable(MangleType[q])
<1>1. Mangles(q)
  BY MangledFine DEF Term
<1>2. PICK P : P = MangleType[q]
  OBVIOUS
<1>3. Balanced(P) /\ TypeStart(P)
  BY <1>1, <1>2, FineWords DEF Mangles
<1>4. P # << >> /\ P[1] # NullPtr
  BY <1>2, <1>3 DEF TypeStart
<1>5. P[1] \in Leading \/ (Len(P) = 1 /\ P[1] \in {<< b >> : b \in Builtin \cup Modifier})
  BY <1>3, <1>4 DEF TypeStart, Single
<1>6. \A b \in Modifier : << b >> \in Leading
  BY DEF Modifier, Leading
<1>7. Begins(P)
  BY <1>4, <1>5, <1>6 DEF Begins
<1> QED
  BY <1>2, <1>3, <1>7, RunIsColumn

LEMMA NameBegins ==
  ASSUME NEW t \in Name, NEW P \in Seq(Words)
  PROVE  EncodeNs(t) \o P # << >> /\ Begins(EncodeNs(t) \o P)
<1>1. EncodeNs(t) \in Seq(Words) /\ EncodeNs(t) # << >> /\ EncodeNs(t)[1] \in Named
  <2>1. Decimal10[Len(t)] \o t \in Named \cap Words
    BY NamePiece
  <2> QED
    BY <2>1 DEF EncodeNs
<1>2. EncodeNs(t) \o P # << >> /\ (EncodeNs(t) \o P)[1] = EncodeNs(t)[1]
  <2>1. PICK N : N = EncodeNs(t)
    OBVIOUS
  <2>2. N \o P # << >> /\ (N \o P)[1] = N[1]
    <3>1. CASE P = << >>
      BY <1>1, <2>1, <3>1, ConcatEnds
    <3>2. CASE P # << >>
      BY <1>1, <2>1, <3>2, ConcatEnds
    <3> QED
      BY <3>1, <3>2
  <2> QED
    BY <2>1, <2>2
<1> QED
  BY <1>1, <1>2 DEF Begins

Public == << "p", "u", "b", "l", "i", "c" >>

LEMMA PublicIs ==
  Public \in Name \ {<< >>}
<1>1. Public \in Seq(Char)
  BY LowercaseAre DEF Public
<1>2. Public # << >> /\ Head(Public) = "p"
  BY DEF Public
<1> QED
  BY <1>1, <1>2, DigitIs DEF Name, Text

LEMMA NestedReadable ==
  ASSUME NEW q \in QualType
  PROVE  /\ Concat(MangleType[q]) \in Name \ {<< >>}
         /\ Readable(EncodeNs(Public) \o EncodeNs(Concat(MangleType[q])))
<1>1. Mangles(q)
  BY MangledFine DEF Term
<1>2. PICK t : t = Concat(MangleType[q])
  OBVIOUS
<1>3. t \in Name \ {<< >>}
  BY <1>1, <1>2, FineName DEF Mangles, TypeStart
<1>4. Ends(EncodeNs(Public)) /\ Balanced(EncodeNs(t))
  BY <1>3, PublicIs, NameBalanced
<1>5. Balanced(EncodeNs(Public) \o EncodeNs(t))
  BY <1>4, EndsThen
<1>6. EncodeNs(t) \in Seq(Words)
  BY <1>4, WordsOf
<1>7. Begins(EncodeNs(Public) \o EncodeNs(t))
  BY <1>6, PublicIs, NameBegins
<1> QED
  BY <1>2, <1>3, <1>5, <1>7, RunIsColumn

LEMMA RecordReadable ==
  ASSUME NEW l \in Level
  PROVE  Readable(EncodeRecordDecl(MangleType, l))
<1>1. l.name \in Name /\ l.args \in Seq(Argument) /\ l.special \in BOOLEAN
  BY DEF Level
<1>2. \A j \in DOMAIN l.args : Fine(MangleType[l.args[j]])
  <2>1. \A j \in DOMAIN l.args : l.args[j] \in Argument
    BY <1>1
  <2> QED
    BY <2>1, MangledFine DEF Mangles, Term
<1>3. Balanced(EncodeRecordDecl(MangleType, l))
  BY <1>2, LevelBalanced
<1>4. Fine(MangleTemplateArgumentList(MangleType, l.args))
  BY <1>1, <1>2, ArgumentsFine
<1> DEFINE A == MangleTemplateArgumentList(MangleType, l.args)
           X == IF ~l.special THEN << >> ELSE Letter("I") \o A \o Letter("E")
<1>5. X \in Seq(Words)
  <2>1. << >> \in Seq(Words)
    OBVIOUS
  <2>2. Letter("I") \o A \o Letter("E") \in Seq(Words)
    <3>1. Letter("I") \in Seq(Words) /\ Letter("E") \in Seq(Words)
      BY LetterWords
    <3>2. A \in Seq(Words)
      BY <1>4, FineWords
    <3> HIDE DEF A
    <3>3. Letter("I") \o A \in Seq(Words)
      BY <3>1, <3>2, ConcatProperties
    <3> QED
      BY <3>1, <3>3, ConcatProperties
  <2> QED
    BY <2>1, <2>2
<1>6. EncodeRecordDecl(MangleType, l) = EncodeNs(l.name) \o X
  BY DEF EncodeRecordDecl
<1>7. Begins(EncodeRecordDecl(MangleType, l))
  <2> HIDE DEF X
  <2> QED
    BY <1>1, <1>5, <1>6, NameBegins
<1> QED
  BY <1>3, <1>7, RunIsColumn

LEMMA FunctionReadable ==
  ASSUME NEW fn \in FunctionDecl, \A i \in DOMAIN fn.template : ParmApart(fn.template[i])
  PROVE  Readable(FunctionMember(fn))
<1>1. /\ fn.name \in FunctionName /\ fn.template \in Seq(TypeParm \cup ValueParm)
      /\ fn.result \in QualType /\ fn.params \in Seq(QualType) /\ fn.variadic \in BOOLEAN
  BY DEF FunctionDecl
<1>2. \A q \in QualType : Mangles(q)
  BY MangledFine DEF Term
<1>3. Fine(MangleFunctionParmList(MangleType, fn))
  <2>1. \A i \in DOMAIN fn.params : Mangles(fn.params[i])
    BY <1>1, <1>2
  <2> QED
    BY <1>1, <2>1, ParmListFine
<1>4. Fine(MangleTemplateParameterList(MangleType, fn.template))
  <2>1. ASSUME NEW i \in DOMAIN fn.template
        PROVE  ParmApart(fn.template[i]) /\ (fn.template[i].kind = "value" => Mangles(fn.template[i].of))
    <3>1. fn.template[i] \in TypeParm \cup ValueParm
      BY <1>1
    <3>2. fn.template[i].kind = "value" => fn.template[i].of \in QualType
      BY <3>1 DEF TypeParm, ValueParm
    <3> QED
      BY <1>2, <3>2
  <2> QED
    BY <1>1, <2>1, ParameterListFine
<1>5. Fine(MangleType[fn.result])
  BY <1>1, <1>2 DEF Mangles
<1> DEFINE B == IF fn.template = << >> THEN << >>
                ELSE MangleTemplateParameterList(MangleType, fn.template) \o MangleType[fn.result]
           L == MangleFunctionParmList(MangleType, fn)
           N == EncodeFunctionName(fn.name)
<1>6. Fine(B)
  BY <1>4, <1>5, FineEmpty, FineConcat
<1>7. FunctionMember(fn) = N \o B \o L
  BY DEF FunctionMember
<1> HIDE DEF B, L
<1>8. Fine(L)
  BY <1>3 DEF L
<1>9. Fine(B \o L) /\ B \in Seq(Words) /\ L \in Seq(Words)
  BY <1>6, <1>8, FineConcat, FineWords
<1>10. CASE fn.name.kind = "identifier"
  <2>1. fn.name.text \in Name /\ N = EncodeNs(fn.name.text)
    BY <1>1, <1>10 DEF FunctionName, EncodeFunctionName
  <2> HIDE DEF N
  <2>2. Balanced(N) /\ N \in Seq(Words)
    BY <2>1, NameBalanced, WordsOf
  <2>3. N \o B \o L = N \o (B \o L) /\ B \o L \in Seq(Words)
    BY <1>9, <2>2, ConcatAssociative, ConcatProperties
  <2>4. Balanced(N \o (B \o L))
    BY <1>9, <2>2, ThenFine
  <2>5. Begins(N \o (B \o L))
    BY <2>1, <2>3, NameBegins
  <2> QED
    BY <1>7, <2>3, <2>4, <2>5, RunIsColumn
<1>11. ASSUME NEW x \in Heads, N = << x >>
       PROVE  Readable(FunctionMember(fn))
  <2> HIDE DEF N
  <2>1. << x >> \in Seq(Words)
    BY HeadsAreWords
  <2>2. << x >> \o B \o L = << x >> \o (B \o L)
    BY <1>9, <2>1, ConcatAssociative
  <2>3. Balanced(B \o L)
    BY <1>9, FineWords
  <2>4. Readable(<< x >> \o (B \o L))
    BY <2>3, HeadReadable
  <2> QED
    BY <1>7, <1>11, <2>2, <2>4
<1>12. CASE fn.name.kind = "constructor"
  <2>1. N = << << "C" >> >> /\ << "C" >> \in Heads
    BY <1>12 DEF EncodeFunctionName, Letter, Heads
  <2> QED
    BY <1>11, <2>1
<1>13. CASE fn.name.kind = "destructor"
  <2>1. N = << << "D" >> >> /\ << "D" >> \in Heads
    BY <1>13 DEF EncodeFunctionName, Letter, Heads
  <2> QED
    BY <1>11, <2>1
<1>14. CASE fn.name.kind = "operator"
  <2>1. N = << fn.name.text >> /\ fn.name.text \in Heads
    BY <1>1, <1>14 DEF FunctionName, EncodeFunctionName, Heads
  <2> QED
    BY <1>11, <2>1
<1>15. CASE fn.name.kind = "conversion"
  <2>1. fn.name.to \in QualType
    BY <1>1, <1>15 DEF FunctionName
  <2>2. PICK x : x = << "c", "v" >>
    OBVIOUS
  <2>3. x \in Heads
    BY <2>2 DEF Heads, Operator
  <2>4. PICK T : T = MangleType[fn.name.to]
    OBVIOUS
  <2>5. Fine(T)
    BY <1>2, <2>1, <2>4 DEF Mangles
  <2>6. N = << x >> \o T
    BY <1>15, <2>2, <2>4 DEF EncodeFunctionName
  <2> HIDE DEF N
  <2>7. << x >> \in Seq(Words) /\ T \in Seq(Words)
    BY <2>3, <2>5, HeadsAreWords, FineWords
  <2>8. N \o B \o L = << x >> \o (T \o (B \o L))
    <3>1. N \in Seq(Words) /\ B \o L \in Seq(Words)
      BY <1>9, <2>6, <2>7, ConcatProperties
    <3>2. N \o B \o L = N \o (B \o L)
      BY <1>9, <3>1, ConcatAssociative
    <3>3. (<< x >> \o T) \o (B \o L) = << x >> \o (T \o (B \o L))
      BY <2>7, <3>1, ConcatAssociative
    <3> QED
      BY <2>6, <3>2, <3>3
  <2>9. Balanced(T \o (B \o L))
    <3>1. Fine(T \o (B \o L))
      BY <1>9, <2>5, FineConcat
    <3> QED
      BY <3>1, FineWords
  <2>10. Readable(<< x >> \o (T \o (B \o L)))
    BY <2>3, <2>9, HeadReadable
  <2> QED
    BY <1>7, <2>8, <2>10
<1> QED
  BY <1>1, <1>10, <1>12, <1>13, <1>14, <1>15 DEF FunctionName

-----------------------------------------------------------------------------
(* The invariant of the tokenizer.                                         *)

(* The pieces of the text that is split: of a nested type, the last word's *)
(* when it is split in its turn.                                           *)
PiecesOf(D, w) == IF D.way = "nested" /\ w = "type" THEN MangleType[D.type] ELSE Pieces(D)

WayOf(D, w) == w = D.way \/ (D.way = "nested" /\ w = "type")

Misread(D, w) == LikeDestructor(D) /\ w = "type"

LEMMA PiecesReadable ==
  ASSUME NEW D \in Declarations, NEW w, WayOf(D, w), ~Misread(D, w)
  PROVE  Readable(PiecesOf(D, w))
<1>1. \/ D \in [way: {"type", "nested"}, type: QualType]
      \/ D \in [way: {"member"}, of: {"function"}, function: FunctionDecl]
      \/ D \in [way: {"member"}, of: {"record"}, level: Level]
  BY DeclarationAssumption
<1>2. CASE D \in [way: {"type", "nested"}, type: QualType]
  <2>1. D.type \in QualType /\ D.way \in {"type", "nested"}
    BY <1>2
  <2>2. CASE w = "type"
    <3>1. Head(MangleType[D.type]) # NullPtr
      BY <2>1, <2>2 DEF Misread, LikeDestructor
    <3>2. PiecesOf(D, w) = MangleType[D.type]
      BY <2>1, <2>2 DEF PiecesOf, Pieces
    <3> QED
      BY <2>1, <3>1, <3>2, TypeReadable
  <2>3. CASE w # "type"
    <3>1. D.way = "nested"
      BY <2>1, <2>3 DEF WayOf
    <3>2. PiecesOf(D, w) = EncodeNs(Public) \o EncodeNs(Concat(MangleType[D.type]))
      BY <2>3, <3>1 DEF PiecesOf, Pieces, Public
    <3> QED
      BY <2>1, <3>2, NestedReadable
  <2> QED
    BY <2>2, <2>3
<1>3. CASE D \in [way: {"member"}, of: {"function"}, function: FunctionDecl]
  <2>1. D.function \in FunctionDecl /\ D.way = "member" /\ D.of = "function"
    BY <1>3
  <2>2. \A i \in DOMAIN D.function.template : ParmApart(D.function.template[i])
    BY <2>1, DeclarationAssumption
  <2>3. PiecesOf(D, w) = FunctionMember(D.function)
    BY <2>1 DEF PiecesOf, Pieces
  <2> QED
    BY <2>1, <2>2, <2>3, FunctionReadable
<1>4. CASE D \in [way: {"member"}, of: {"record"}, level: Level]
  <2>1. D.level \in Level /\ D.way = "member" /\ D.of = "record"
    BY <1>4
  <2>2. PiecesOf(D, w) = EncodeRecordDecl(MangleType, D.level)
    BY <2>1 DEF PiecesOf, Pieces
  <2> QED
    BY <2>1, <2>2, RecordReadable
<1> QED
  BY <1>1, <1>2, <1>3, <1>4

-----------------------------------------------------------------------------
(* The tokenizer is between two pieces of P.                               *)
Reading(P) ==
  \E f, g, d, m, i :
    Laid(P, f, g, d, m) /\ Concat(P) = f[Len(P)] /\ Kept(P) = g[Len(P)] /\ AtPiece(P, f, g, d, m, i)

SplitInv ==
  Written =>
    /\ decl \in Declarations /\ WayOf(decl, way)
    /\ phase \in {"parse", "done"} => way # "nested"
    /\ ~Misread(decl, way) =>
         /\ phase = "split" => Reading(PiecesOf(decl, way))
         /\ phase \in {"parse", "done"} => tokens = Kept(PiecesOf(decl, way))

LEMMA AtStart ==
  ASSUME NEW P, Readable(P), source = Concat(P), pos = 1, tokens = << >>, stk = << >>
  PROVE  Reading(P)
<1>1. PICK f, g, d, m : Laid(P, f, g, d, m) /\ Concat(P) = f[Len(P)] /\ Kept(P) = g[Len(P)]
  BY LaidExists
<1>2. f[0] = << >> /\ g[0] = << >> /\ d[0] = 0 /\ m[0] = "out" /\ Len(P) \in Nat
  BY <1>1 DEF Laid, TextOf, Flattens, KeptOf, ColumnRun
<1>3. StackOf(stk, d[0], m[0])
  <2>1. stk \in Seq(Opening) /\ Len(stk) = 0
    OBVIOUS
  <2> QED
    BY <1>2, <2>1 DEF StackOf
<1>4. pos = Len(f[0]) + 1
  <2>1. Len(f[0]) = 0
    BY <1>2
  <2> QED
    BY <2>1
<1>5. AtPiece(P, f, g, d, m, 0)
  BY <1>1, <1>2, <1>3, <1>4 DEF AtPiece
<1> QED
  BY <1>1, <1>5 DEF Reading

LEMMA ReadingOn ==
  ASSUME NEW P, Reading(P), Split
  PROVE  Reading(P)' /\ phase' = "split" /\ way' = way
<1>1. PICK f, g, d, m, h :
         Laid(P, f, g, d, m) /\ Concat(P) = f[Len(P)] /\ Kept(P) = g[Len(P)]
           /\ AtPiece(P, f, g, d, m, h)
  BY DEF Reading
<1>2. PICK n \in Nat : n = Len(P)
  BY <1>1 DEF Laid
<1>3. h \in 0..n /\ source = f[n] /\ pos = Len(f[h]) + 1
  BY <1>1, <1>2 DEF AtPiece
<1>4. h # n
  <2> SUFFICES ASSUME h = n PROVE FALSE
    OBVIOUS
  <2>1. pos = Len(source) + 1
    BY <1>3
  <2>2. Len(source) \in Nat
    <3>1. f \in [0..n -> Seq(Char)] /\ n \in 0..n
      BY <1>1, <1>2 DEF Laid, TextOf
    <3> QED
      BY <1>3, <3>1
  <2> QED
    BY <2>1, <2>2 DEF Split
<1>5. PICK q \in 1..n : q = h + 1
  <2>1. h + 1 \in 1..n
    BY <1>3, <1>4
  <2> QED
    BY <2>1
<1>6. Before(P, f, g, d, m, n, h, q)
  <2>1. h \in Nat /\ h + 1 = q
    BY <1>3, <1>5
  <2> QED
    BY <1>1, <1>2, <1>5, <2>1 DEF Before
<1>7. PICK j \in q..n : Onward(P, f, g, d, m, j)
  BY <1>6, PieceStep
<1> QED
  BY <1>1, <1>7 DEF Onward, Reading

(* What has been split to its end.                                         *)
LEMMA ReadingEnded ==
  ASSUME NEW P, Reading(P), pos > Len(source)
  PROVE  stk = << >> /\ tokens # << >> /\ tokens = Kept(P)
<1>1. PICK f, g, d, m, h :
         Laid(P, f, g, d, m) /\ Concat(P) = f[Len(P)] /\ Kept(P) = g[Len(P)]
           /\ AtPiece(P, f, g, d, m, h)
  BY DEF Reading
<1>2. PICK n \in Nat : n = Len(P)
  BY <1>1 DEF Laid
<1>3. h \in 0..n /\ source = f[n] /\ pos = Len(f[h]) + 1 /\ tokens = g[h] /\ StackOf(stk, d[h], m[h])
  BY <1>1, <1>2 DEF AtPiece
<1>4. h = n
  <2> SUFFICES ASSUME h # n PROVE FALSE
    OBVIOUS
  <2>1. PICK q \in 1..n : q = h + 1
    <3>1. h + 1 \in 1..n
      BY <1>3
    <3> QED
      BY <3>1
  <2>2. h \in Nat /\ h + 1 = q
    BY <1>3, <2>1
  <2>3. Faces(P[q], h, m[h])
    BY <1>1, <1>2, <2>2, PieceFaced
  <2>4. pos \in 1..Len(source) /\ Len(source) \in Nat
    BY <2>3 DEF Faces, Lies
  <2> QED
    BY <2>4
<1>5. d[n] = 0 /\ P # << >> /\ P \in Seq(Words)
  BY <1>1, <1>2 DEF Laid, ColumnRun, Begins
<1>6. stk = << >>
  <2>1. stk \in Seq(Opening) /\ Len(stk) = 0
    BY <1>3, <1>4, <1>5 DEF StackOf
  <2> QED
    BY <2>1, EmptySeq
<1>7. n # 0
  BY <1>2, <1>5, EmptySeq
<1>8. g[n] # << >>
  <2>1. n \in 0..Len(P)
    BY <1>2
  <2> QED
    BY <1>1, <1>7, <2>1, KeptSome
<1> QED
  BY <1>1, <1>2, <1>3, <1>4, <1>6, <1>8

(* Digits and a text that does not begin with one.                         *)
LEMMA DigitsThen ==
  ASSUME NEW y \in Seq(Digit), NEW t \in Seq(Char), y # << >>, t # << >>, t[1] \notin Digit,
         NEW w, w = y \o t
  PROVE  DigitsEnd(w, 1) = {Len(y) + 1} /\ SubSeq(w, Len(y) + 1, Len(w)) = t
<1>1. PICK e \in Nat : e = Len(t)
  OBVIOUS
<1>2. PICK a \in Nat : a = Len(y)
  OBVIOUS
<1>3. y \in Seq(Char)
  BY CharAssumption, SeqSubset
<1>4. e # 0 /\ a # 0
  BY <1>1, <1>2, EmptySeq
<1>5. /\ w \in Seq(Char) /\ Len(w) = a + e
      /\ \A k \in 1..(a + e) : w[k] = IF k <= a THEN y[k] ELSE t[k - a]
  BY <1>1, <1>2, <1>3, ConcatProperties
<1>6. \A k \in 1..a : w[k] = y[k]
  <2>1. \A k \in 1..a : k \in 1..(a + e) /\ k <= a
    BY <1>1, <1>2
  <2> QED
    BY <1>5, <2>1
<1>7. \A k \in 1..e : w[a + k] = t[k]
  <2> TAKE k \in 1..e
  <2>1. PICK r \in 1..(a + e) : r = a + k /\ ~(r <= a) /\ r - a = k
    BY <1>1, <1>2
  <2>2. w[r] = t[r - a]
    BY <1>5, <2>1
  <2> QED
    BY <2>1, <2>2
<1>8. \A k \in 1..(a + 1 - 1) : w[k] \in Digit
  <2>1. a + 1 - 1 = a /\ \A k \in 1..a : y[k] \in Digit
    BY <1>2
  <2> QED
    BY <1>6, <2>1
<1>9. w[a + 1] \notin Digit
  <2>1. 1 \in 1..e
    BY <1>1, <1>4
  <2> QED
    BY <1>7, <2>1
<1>10. DigitsEnd(w, 1) = {a + 1}
  <2>1. PICK r \in Nat : r = a + 1
    BY <1>2
  <2>2. 1 <= r /\ r <= Len(w) + 1 /\ 1 \in Nat \ {0} /\ r - 1 = a
    BY <1>1, <1>2, <1>4, <1>5, <2>1
  <2>3. \A k \in 1..(r - 1) : w[k] \in Digit
    BY <1>8, <2>1
  <2>4. w[r] \notin Digit
    BY <1>9, <2>1
  <2>5. DigitsEnd(w, 1) = {r}
    BY <1>5, <2>2, <2>3, <2>4, DigitsEndIs
  <2> QED
    BY <2>1, <2>5
<1>11. SubSeq(w, a + 1, a + Len(t)) = t
  <2>1. a + Len(t) <= Len(w)
    BY <1>1, <1>5
  <2>2. \A k \in 1..Len(t) : w[a + k] = t[k]
    BY <1>1, <1>7
  <2> QED
    BY <1>2, <1>5, <2>1, <2>2, SubSeqIs
<1>12. SubSeq(w, a + 1, Len(w)) = t
  BY <1>1, <1>5, <1>11
<1> QED
  BY <1>2, <1>10, <1>12

LEMMA SeqOfOne ==
  ASSUME NEW S, NEW a \in S
  PROVE  << a >> \in Seq(S) /\ Len(<< a >>) = 1 /\ << a >>[1] = a
OBVIOUS

(* Two words are two tokens.                                               *)
LEMMA TwoKept ==
  ASSUME NEW P \in Seq(Words), Len(P) = 2, P[1] # << Underscore >>, P[2] # << Underscore >>
  PROVE  Len(Kept(P)) = 2 /\ Kept(P)[2] = P[2]
<1>1. PICK g : KeptOf(P, g) /\ Kept(P) = g[Len(P)]
  BY KeptExists
<1>2. g \in [0..2 -> Seq(Words)] /\ g[0] = << >>
  BY <1>1 DEF KeptOf
<1>3. \A i \in 1..2 : g[i] = IF P[i] = << Underscore >> THEN g[i - 1] ELSE Append(g[i - 1], P[i])
  BY <1>1 DEF KeptOf
<1>4. P[1] \in Words /\ P[2] \in Words
  OBVIOUS
<1>5. PICK x : x = g[1]
  OBVIOUS
<1>6. x = Append(<< >>, P[1])
  <2>1. 1 \in 1..2 /\ 1 - 1 = 0
    OBVIOUS
  <2>2. g[1] = Append(g[1 - 1], P[1])
    BY <1>3, <2>1
  <2> QED
    BY <1>2, <1>5, <2>1, <2>2
<1>7. x \in Seq(Words) /\ Len(x) = 1
  <2>1. << >> \in Seq(Words) /\ Len(<< >>) = 0
    OBVIOUS
  <2>2. x \in Seq(Words) /\ Len(x) = Len(<< >>) + 1
    BY <1>4, <1>6, <2>1, AppendProperties
  <2> QED
    BY <2>1, <2>2
<1>8. PICK z : z = g[2]
  OBVIOUS
<1>9. z = Append(x, P[2])
  <2>1. 2 \in 1..2 /\ 2 - 1 = 1
    OBVIOUS
  <2>2. g[2] = Append(g[2 - 1], P[2])
    BY <1>3, <2>1
  <2> QED
    BY <1>5, <1>8, <2>1, <2>2
<1>10. Len(z) = Len(x) + 1 /\ z[Len(x) + 1] = P[2]
  BY <1>4, <1>7, <1>9, AppendProperties
<1>11. Len(x) + 1 = 2
  BY <1>7
<1> QED
  BY <1>1, <1>8, <1>10, <1>11

(* The tokens of a nested type: its last word is the text of the type.     *)
LEMMA NestedTokens ==
  ASSUME NEW q \in QualType, NEW t, t = Concat(MangleType[q]), NEW w, w = Decimal10[Len(t)] \o t,
         NEW toks, toks = Kept(EncodeNs(Public) \o EncodeNs(t))
  PROVE  /\ toks[Len(toks)] = w /\ DigitsEnd(w, 1) = {Len(Decimal10[Len(t)]) + 1}
         /\ SubSeq(w, Len(Decimal10[Len(t)]) + 1, Len(w)) = t
<1>1. t \in Name \ {<< >>}
  BY NestedReadable
<1>2. t \in Seq(Char) /\ t # << >> /\ t[1] \notin Digit
  BY <1>1 DEF Name, Text
<1>3. PICK e \in Nat : e = Len(t)
  BY <1>2
<1>4. PICK y : y = Decimal10[Len(t)]
  OBVIOUS
<1>5. y \in Seq(Digit) /\ y # << >>
  BY <1>3, <1>4, NumberOfDecimal
<1>6. DigitsEnd(w, 1) = {Len(y) + 1} /\ SubSeq(w, Len(y) + 1, Len(w)) = t
  <2>1. w = y \o t
    BY <1>4
  <2> QED
    BY <1>2, <1>5, <2>1, DigitsThen
<1>7. PICK u : u = Decimal10[Len(Public)] \o Public
  OBVIOUS
<1>8. u \in Words /\ u # << Underscore >> /\ w \in Words /\ w # << Underscore >>
  <2>1. u \in Named \cap Words
    BY <1>7, PublicIs, NamePiece
  <2>2. w \in Named \cap Words
    BY <1>1, NamePiece
  <2> QED
    BY <2>1, <2>2, NotUnderscore
<1>9. PICK P : P = EncodeNs(Public) \o EncodeNs(t)
  OBVIOUS
<1>10. P \in Seq(Words) /\ Len(P) = 2 /\ P[1] = u /\ P[2] = w
  <2>1. PICK one, two : one = << u >> /\ two = << w >>
    OBVIOUS
  <2>2. one \in Seq(Words) /\ two \in Seq(Words) /\ Len(one) = 1 /\ Len(two) = 1
        /\ one[1] = u /\ two[1] = w
    <3>1. << u >> \in Seq(Words) /\ Len(<< u >>) = 1 /\ << u >>[1] = u
      BY <1>8, SeqOfOne
    <3>2. << w >> \in Seq(Words) /\ Len(<< w >>) = 1 /\ << w >>[1] = w
      BY <1>8, SeqOfOne
    <3> QED
      BY <2>1, <3>1, <3>2
  <2>3. P = one \o two
    BY <1>7, <1>9, <2>1 DEF EncodeNs
  <2>4. /\ P \in Seq(Words) /\ Len(P) = 1 + 1
        /\ \A k \in 1..(1 + 1) : P[k] = IF k <= 1 THEN one[k] ELSE two[k - 1]
    BY <2>2, <2>3, ConcatProperties
  <2>5. /\ 1 + 1 = 2 /\ 1 \in 1..(1 + 1) /\ 2 \in 1..(1 + 1)
        /\ 1 <= 1 /\ ~(2 <= 1) /\ 2 - 1 = 1
    OBVIOUS
  <2> QED
    BY <2>2, <2>4, <2>5
<1>11. Len(toks) = 2 /\ toks[2] = w
  <2>1. toks = Kept(P)
    BY <1>9
  <2> QED
    BY <1>8, <1>10, <2>1, TwoKept
<1> QED
  BY <1>4, <1>6, <1>11

LEMMA SplitKeeps ==
  ASSUME Split
  PROVE  phase = "split" /\ phase' \in {"split", "raised"} /\ way' = way
<1>1. ASSUME Raise PROVE phase' = "raised" /\ way' = way
  BY <1>1 DEF Raise, splitting
<1>2. ASSUME NEW token, NEW next, Take(token, next) PROVE phase' = phase /\ way' = way
  BY <1>2 DEF Take
<1>3. CASE TakeArray
  BY <1>3 DEF TakeArray, Split
<1>4. CASE ~TakeArray
  BY <1>1, <1>2, <1>4 DEF Split, TakeValue, TakeName, TakeOpening, TakeClosing, TakeConstructor,
       TakeDestructor, TakeOperator, TakeNullPtr, TakeLetter, TakeNothing
<1> QED
  BY <1>3, <1>4 DEF Split

LEMMA ReadParametersKeeps ==
  ASSUME NEW i, ReadParameters(i)
  PROVE  phase' \in {"parse", "done"}
BY DEF ReadParameters, Done

LEMMA ReadKeeps ==
  ASSUME NEW i, ReadArguments(i)
  PROVE  phase' \in {"parse", "done"}
BY ReadParametersKeeps DEF ReadArguments

LEMMA YieldKeeps ==
  ASSUME NEW o, NEW rest, Yield(o, rest)
  PROVE  UNCHANGED << splitting, phase >>
BY DEF Yield

LEMMA EnterKeeps ==
  ASSUME NEW frame, NEW next, Enter(frame, next)
  PROVE  UNCHANGED << splitting, phase >>
BY DEF Enter

(* Parsing leaves the tokens alone.                                        *)
LEMMA ParseKeeps ==
  ASSUME Parse
  PROVE  UNCHANGED splitting /\ phase = "parse" /\ phase' \in {"parse", "done", "raised"}
<1>1. phase = "parse"
  BY DEF Parse
<1>2. ASSUME Raise PROVE UNCHANGED splitting /\ phase' = "raised"
  BY <1>2 DEF Raise
<1>3. CASE ParseType
  BY <1>1, <1>2, <1>3, YieldKeeps, EnterKeeps
     DEF ParseType, ParseBuiltin, ParseModifier, ParseArray, ParseRecord, ParseNothing
<1>4. CASE Return
  BY <1>1, <1>4, YieldKeeps DEF Return
<1>5. CASE ReturnFunction
  BY <1>1, <1>2, <1>5, YieldKeeps DEF ReturnFunction
<1>6. CASE EnterValue
  BY <1>1, <1>6, EnterKeeps DEF EnterValue
<1>7. CASE ReturnValue
  <2>1. CASE Raise
    BY <1>1, <1>2, <2>1
  <2>2. CASE ~Raise
    <3>1. PICK o, rest : Yield(o, rest)
      BY <1>7, <2>2 DEF ReturnValue
    <3> QED
      BY <1>1, <3>1, YieldKeeps
  <2> QED
    BY <2>1, <2>2
<1>8. CASE EndArguments
  <2>1. ReadParameters(at + 1) /\ UNCHANGED << splitting, heap, cache, types >>
    BY <1>8 DEF EndArguments
  <2>2. phase' \in {"parse", "done"}
    BY <2>1, ReadParametersKeeps
  <2> QED
    BY <1>1, <2>1, <2>2
<1>9. CASE EndConversion
  <2>1. ReadArguments(at) /\ UNCHANGED << splitting, heap, cache, types, args >>
    BY <1>9 DEF EndConversion
  <2>2. phase' \in {"parse", "done"}
    BY <2>1, ReadKeeps
  <2> QED
    BY <1>1, <2>1, <2>2
<1>10. CASE EndColumn
  <2>1. Done /\ UNCHANGED << splitting, at, heap, cache, args >>
    BY <1>10 DEF EndColumn
  <2> QED
    BY <1>1, <2>1 DEF Done
<1> QED
  BY <1>1, <1>3, <1>4, <1>5, <1>6, <1>7, <1>8, <1>9, <1>10 DEF Parse

(* At the start of a text that is put together from P.                     *)
Starting(P) ==
  Readable(P) /\ source = Concat(P) /\ pos = 1 /\ tokens = << >> /\ stk = << >>

StartsReading == \A P : Starting(P) => Reading(P)

LEMMA StartIsReading == StartsReading
BY AtStart DEF StartsReading, Starting

LEMMA SplitInvInit == CodecInit => SplitInv
<1> SUFFICES ASSUME CodecInit, Written PROVE SplitInv
  BY DEF SplitInv
<1>1. PICK known \in Cached, D \in Declarations : decl = D /\ Start(ColumnOf(D), known)
  BY DEF CodecInit, Written
<1>2. WayOf(decl, way) /\ way = decl.way /\ phase = "split"
  BY <1>1 DEF Start, ColumnOf, WayOf
<1>3. ASSUME ~Misread(decl, way) PROVE Reading(PiecesOf(decl, way))
  <2>1. Readable(PiecesOf(decl, way))
    BY <1>1, <1>2, <1>3, PiecesReadable
  <2>2. PiecesOf(decl, way) = Pieces(decl)
    BY <1>2 DEF PiecesOf
  <2>3. source = Concat(PiecesOf(decl, way)) /\ pos = 1 /\ tokens = << >> /\ stk = << >>
    BY <1>1, <2>2 DEF Start, ColumnOf
  <2> QED
    BY <2>1, <2>3, AtStart
<1> QED
  BY <1>1, <1>2, <1>3 DEF SplitInv

(* What has been split of a nested type, and what is split then.           *)
LEMMA UnwrapStarts ==
  ASSUME NEW D \in Declarations, D.way = "nested", ~Misread(D, "type"), Unwrap,
         stk = << >>, tokens = Kept(PiecesOf(D, "nested"))
  PROVE  Starting(PiecesOf(D, "type"))'
<1>1. D.type \in QualType
  BY DeclarationAssumption
<1>2. PICK t : t = Concat(MangleType[D.type])
  OBVIOUS
<1>3. PICK w : w = Decimal10[Len(t)] \o t
  OBVIOUS
<1>4. tokens = Kept(EncodeNs(Public) \o EncodeNs(t))
  BY <1>2 DEF PiecesOf, Pieces, Public
<1>5. /\ tokens[Len(tokens)] = w /\ DigitsEnd(w, 1) = {Len(Decimal10[Len(t)]) + 1}
      /\ SubSeq(w, Len(Decimal10[Len(t)]) + 1, Len(w)) = t
  BY <1>1, <1>2, <1>3, <1>4, NestedTokens
<1>6. source' = t /\ pos' = 1 /\ tokens' = << >> /\ stk' = << >>
  BY <1>5 DEF Unwrap
<1>7. PiecesOf(D, "type") = MangleType[D.type]
  BY DEF PiecesOf
<1>8. Readable(PiecesOf(D, "type"))
  BY PiecesReadable DEF WayOf
<1> QED
  BY <1>2, <1>6, <1>7, <1>8 DEF Starting

LEMMA SplitInvStep == SplitInv /\ [CodecNext]_<< vars, decl >> => SplitInv'
<1> SUFFICES ASSUME SplitInv, [CodecNext]_<< vars, decl >>, Written PROVE SplitInv'
  BY DEF SplitInv, Written, CodecNext
<1>1. /\ decl \in Declarations /\ WayOf(decl, way) /\ decl' = decl
      /\ phase \in {"parse", "done"} => way # "nested"
      /\ ~Misread(decl, way) =>
           /\ phase = "split" => Reading(PiecesOf(decl, way))
           /\ phase \in {"parse", "done"} => tokens = Kept(PiecesOf(decl, way))
  BY DEF SplitInv, CodecNext
<1>2. CASE Split
  <2>1. phase = "split" /\ phase' \in {"split", "raised"} /\ way' = way
    BY <1>2, SplitKeeps
  <2>2. ASSUME ~Misread(decl, way) PROVE Reading(PiecesOf(decl, way))'
    <3>1. PICK P : P = PiecesOf(decl, way)
      OBVIOUS
    <3>2. PiecesOf(decl, way)' = P
      BY <1>1, <2>1, <3>1
    <3>3. Reading(P)'
      BY <1>1, <1>2, <2>1, <2>2, <3>1, ReadingOn
    <3> QED
      BY <3>2, <3>3
  <2> QED
    BY <1>1, <2>1, <2>2 DEF SplitInv
<1>3. CASE SplitEnds
  <2>1. phase = "split" /\ pos > Len(source)
    BY <1>3 DEF SplitEnds
  <2>2. ASSUME ~Misread(decl, way)
        PROVE  stk = << >> /\ tokens # << >> /\ tokens = Kept(PiecesOf(decl, way))
    BY <1>1, <2>1, <2>2, ReadingEnded
  <2>3. CASE Raise
    BY <1>1, <2>3 DEF Raise, splitting, SplitInv
  <2>4. CASE Unwrap
    <3>1. way = "nested" /\ way' = "type" /\ phase' = "split" /\ decl.way = "nested"
      BY <1>1, <2>1, <2>4 DEF Unwrap, WayOf
    <3>2. ASSUME ~Misread(decl, "type") PROVE Reading(PiecesOf(decl, "type"))'
      <4>1. ~Misread(decl, way)
        BY <3>1 DEF Misread
      <4>2. stk = << >> /\ tokens = Kept(PiecesOf(decl, "nested"))
        BY <2>2, <3>1, <4>1
      <4>3. PICK D \in Declarations : D = decl
        BY <1>1
      <4>4. Starting(PiecesOf(D, "type"))'
        BY <2>4, <3>1, <3>2, <4>2, <4>3, UnwrapStarts
      <4>5. StartsReading'
        BY StartIsReading, PTL
      <4>6. Reading(PiecesOf(D, "type"))'
        BY <4>4, <4>5 DEF StartsReading
      <4> QED
        BY <1>1, <4>3, <4>6
    <3>3. WayOf(decl, "type")
      BY <3>1 DEF WayOf
    <3> QED
      BY <1>1, <3>1, <3>2, <3>3 DEF SplitInv
  <2>5. CASE ReadType
    <3>1. way = "type" /\ phase' = "parse" /\ way' = way /\ tokens' = tokens
      BY <2>5 DEF ReadType, splitting
    <3> QED
      BY <1>1, <2>2, <3>1 DEF SplitInv
  <2>6. CASE ReadMember
    <3>1. way = "member" /\ way' = way /\ tokens' = tokens /\ phase' \in {"parse", "done"}
      BY <2>6, ReadKeeps DEF ReadMember, splitting
    <3> QED
      BY <1>1, <2>2, <3>1 DEF SplitInv
  <2> QED
    BY <1>3, <2>3, <2>4, <2>5, <2>6 DEF SplitEnds
<1>4. CASE Parse
  <2>1. phase = "parse" /\ way' = way /\ tokens' = tokens /\ phase' \in {"parse", "done", "raised"}
    BY <1>4, ParseKeeps DEF splitting
  <2> QED
    BY <1>1, <2>1 DEF SplitInv
<1>5. CASE UNCHANGED << vars, decl >>
  <2>1. UNCHANGED << way, source, pos, stk, tokens, phase >>
    BY <1>5 DEF vars, splitting
  <2>2. SplitInv' <=> SplitInv
    BY <1>1, <2>1 DEF SplitInv, Reading, AtPiece, Written
  <2> QED
    BY <2>2
<1> QED
  BY <1>2, <1>3, <1>4, <1>5 DEF CodecNext, Next

(* Whatever type, function or record name is written, the text is split    *)
(* where it was put together.                                              *)
THEOREM SplittingFindsThePieces == CodecSpec => []SplitIsPieces
<1>1. SplitInv => SplitIsPieces
  <2> SUFFICES ASSUME SplitInv, Written, phase \in {"parse", "done"}, ~LikeDestructor(decl)
               PROVE  tokens = Kept(IF decl.way = "nested" THEN MangleType[decl.type]
                                    ELSE Pieces(decl))
    BY DEF SplitIsPieces
  <2>1. WayOf(decl, way) /\ way # "nested" /\ tokens = Kept(PiecesOf(decl, way))
    BY DEF SplitInv, Misread
  <2>2. decl.way = "nested" => way = "type"
    BY <2>1 DEF WayOf
  <2> QED
    BY <2>1, <2>2 DEF PiecesOf
<1> QED
  BY <1>1, SplitInvInit, SplitInvStep, PTL DEF CodecSpec
=============================================================================
