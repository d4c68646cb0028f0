--------------------------- MODULE Retriever_proofs ---------------------------
(***************************************************************************)
(* Proofs about Retriever, for all tables, all queries and all failures.   *)
(***************************************************************************)
EXTENDS Retriever, FiniteSetTheorems, TLAPS

-----------------------------------------------------------------------------
(* What the methods of StringStack preserve and return, for all texts.     *)
(* The lengths of a coherent stack are lengths of prefixes of its string.  *)
LEMMA OffsetsBounded ==
  ASSUME NEW s \in StackRec, Coherent(s)
  PROVE  /\ Len(s.Offsets) \in Nat /\ DOMAIN s.Offsets = 1..Len(s.Offsets)
         /\ Len(s.Buffer) \in Nat
         /\ \A i \in 1..Len(s.Offsets) : s.Offsets[i] \in 0..Len(s.Buffer)
<1>1. /\ s.Offsets \in Seq(Nat) /\ s.Buffer \in Seq(Token)
      /\ Len(s.Offsets) \in Nat /\ DOMAIN s.Offsets = 1..Len(s.Offsets)
      /\ Len(s.Buffer) \in Nat
  BY DEF StackRec, Text
<1>2. ASSUME NEW i \in 1..Len(s.Offsets) PROVE s.Offsets[i] \in 0..Len(s.Buffer)
  <2>1. Len(s.Offsets) \in 1..Len(s.Offsets) /\ s.Offsets # << >>
    BY <1>1, <1>2
  <2>2. s.Offsets[Len(s.Offsets)] = Len(s.Buffer)
    BY <2>1 DEF Coherent, Last
  <2>3. s.Offsets[i] <= s.Offsets[Len(s.Offsets)]
    BY <1>1, <1>2, <2>1 DEF Coherent
  <2> QED
    BY <1>1, <1>2, <2>2, <2>3
<1> QED
  BY <1>1, <1>2

(* Prefixes of a text are not changed by what is appended to it.           *)
LEMMA PrefixOfConcat ==
  ASSUME NEW s \in Text, NEW t \in Text, NEW n \in 0..Len(s)
  PROVE  SubSeq(s \o t, 1, n) = SubSeq(s, 1, n)
BY DEF Text

(* A prefix of a prefix is a prefix.                                       *)
LEMMA PrefixOfPrefix ==
  ASSUME NEW s \in Text, NEW m \in 0..Len(s), NEW n \in 0..m
  PROVE  SubSeq(SubSeq(s, 1, m), 1, n) = SubSeq(s, 1, n)
BY DEF Text

(* The whole of a text, and the prefix that concatenation started with.    *)
LEMMA WholeText == ASSUME NEW s \in Text PROVE SubSeq(s, 1, Len(s)) = s
BY DEF Text

LEMMA CutConcat ==
  ASSUME NEW s \in Text, NEW t \in Text
  PROVE  SubSeq(s \o t, 1, Len(s)) = s
BY PrefixOfConcat, WholeText DEF Text

(* std::string::resize to a smaller length never pads.                     *)
LEMMA ResizeCuts ==
  ASSUME NEW s \in Text, NEW n \in 0..Len(s)
  PROVE  Resize(s, n) = SubSeq(s, 1, n) /\ Len(Resize(s, n)) = n
BY DEF Resize, Text

(* Resizing gives a text in any case.                                      *)
LEMMA ResizeTyped ==
  ASSUME NEW s \in Text, NEW n \in Nat
  PROVE  Resize(s, n) \in Text
BY NulAssumption DEF Resize, Text

(* A sequence is given by its length and its elements.                     *)
LEMMA AppendByIndex ==
  ASSUME NEW S, NEW u \in Seq(S), NEW v \in Seq(S), NEW e \in S,
         Len(v) = Len(u) + 1, v[Len(v)] = e, \A i \in 1..Len(u) : v[i] = u[i]
  PROVE  v = Append(u, e)
OBVIOUS

LEMMA FrontByIndex ==
  ASSUME NEW S, NEW u \in Seq(S), NEW v \in Seq(S), NEW n \in Nat,
         Len(u) = n + 1, Len(v) = n, \A i \in 1..n : v[i] = u[i]
  PROVE  v = SubSeq(u, 1, n)
OBVIOUS

LEMMA FrontTyped ==
  ASSUME NEW S, NEW u \in Seq(S), NEW n \in Nat, n = Len(u) - 1
  PROVE  /\ SubSeq(u, 1, n) \in Seq(S) /\ Len(SubSeq(u, 1, n)) = n
         /\ \A i \in 1..n : SubSeq(u, 1, n)[i] = u[i]
OBVIOUS

LEMMA AppendKeeps ==
  ASSUME NEW S, NEW u \in Seq(S), NEW e \in S
  PROVE  \A i \in 1..Len(u) : Append(u, e)[i] = u[i]
OBVIOUS

LEMMA AppendToOne ==
  ASSUME NEW S, NEW u \in Seq(S), NEW e \in S, Len(u) = 1
  PROVE  Len(Append(u, e)) = 2 /\ Append(u, e)[1] = u[1] /\ Append(u, e)[2] = e
<1> DEFINE v == Append(u, e)
<1>1. Len(v) = 2 /\ v[2] = e
  OBVIOUS
<1>2. \A i \in 1..Len(u) : v[i] = u[i]
  BY AppendKeeps, Zenon
<1>3. 1 \in 1..Len(u)
  OBVIOUS
<1> HIDE DEF v
<1>4. v[1] = u[1]
  BY <1>2, <1>3
<1> QED
  BY <1>1, <1>4 DEF v

(* The texts of a coherent stack, one by one.                              *)
LEMMA TextsByIndex ==
  ASSUME NEW s \in StackRec, Coherent(s)
  PROVE  /\ Texts(s) \in Seq(Text) /\ Len(Texts(s)) = Len(s.Offsets)
         /\ \A i \in 1..Len(s.Offsets) :
               Texts(s)[i] = SubSeq(s.Buffer, 1, s.Offsets[i])
<1> DEFINE n == Len(s.Offsets)
           T(i) == SubSeq(s.Buffer, 1, s.Offsets[i])
<1>1. n \in Nat /\ s.Buffer \in Seq(Token) /\ s.Offsets \in Seq(Nat)
  BY DEF StackRec, Text
<1>2. \A i \in 1..n : T(i) \in Text
  <2>1. \A i \in 1..n : s.Offsets[i] \in 0..Len(s.Buffer)
    BY OffsetsBounded
  <2>2. \A m \in 0..Len(s.Buffer) : SubSeq(s.Buffer, 1, m) \in Seq(Token)
    BY <1>1
  <2> QED
    BY <2>1, <2>2, Zenon DEF Text
<1>3. Texts(s) = [i \in 1..n |-> T(i)]
  BY DEF Texts
<1> HIDE DEF n, T
<1>4. \A i \in 1..n : Texts(s)[i] = T(i)
  BY <1>3, Zenon
<1>5. [i \in 1..n |-> T(i)] \in Seq(Text) /\ Len([i \in 1..n |-> T(i)]) = n
  BY <1>1, <1>2
<1> QED
  BY <1>3, <1>4, <1>5 DEF n, T

-----------------------------------------------------------------------------
(* A new stack is coherent, and stands for the empty text.                 *)
LEMMA NewCoherent ==
  NewStack \in StackRec /\ Coherent(NewStack) /\ Texts(NewStack) = << << >> >>
<1>1. /\ NewStack.Buffer = << >> /\ NewStack.Offsets = << 0 >>
      /\ Len(<< >>) = 0 /\ Len(<< 0 >>) = 1 /\ << 0 >>[1] = 0
      /\ << 0 >> # << >> /\ DOMAIN << 0 >> = {1}
  BY DEF NewStack
<1>2. NewStack \in StackRec
  BY DEF NewStack, StackRec, Text
<1>3. Last(NewStack.Offsets) = 0
  BY <1>1 DEF Last
<1>4. Coherent(NewStack)
  BY <1>1, <1>3 DEF Coherent
<1>5. Texts(NewStack) = [i \in 1..1 |-> << >>]
  BY <1>1 DEF Texts
<1> QED
  BY <1>2, <1>4, <1>5

(* push keeps a stack coherent, and appends the longer text to its texts.  *)
LEMMA PushCoherent ==
  ASSUME NEW s \in StackRec, Coherent(s), NEW t \in Text
  PROVE  /\ push(s, t) \in StackRec /\ Coherent(push(s, t))
         /\ push(s, t).Buffer = s.Buffer \o t
         /\ Texts(push(s, t)) = Append(Texts(s), s.Buffer \o t)
<1> DEFINE n == Len(s.Offsets)
           w == s.Buffer \o t
           p == push(s, t)
<1>1. /\ s.Offsets \in Seq(Nat) /\ s.Buffer \in Text /\ w \in Text
      /\ Len(w) \in Nat /\ Len(s.Buffer) \in 0..Len(w)
  BY DEF StackRec, Text
<1>2. /\ n \in Nat /\ DOMAIN s.Offsets = 1..n /\ Len(s.Buffer) \in Nat
      /\ \A i \in 1..n : s.Offsets[i] \in 0..Len(s.Buffer)
  BY OffsetsBounded
<1>3. p.Buffer = w /\ p.Offsets = Append(s.Offsets, Len(w))
  BY DEF push
<1>4. /\ p.Offsets \in Seq(Nat) /\ Len(p.Offsets) = n + 1
      /\ DOMAIN p.Offsets = 1..(n + 1) /\ p.Offsets[n + 1] = Len(w)
      /\ \A i \in 1..n : p.Offsets[i] = s.Offsets[i]
  BY <1>1, <1>2, <1>3
<1>5. p \in StackRec
  BY <1>1, <1>4 DEF StackRec, push
<1>6. \A i \in 1..(n + 1) : i \in 1..n \/ i = n + 1
  BY <1>2
<1>7. \A i, j \in 1..n : i <= j => s.Offsets[i] <= s.Offsets[j]
  BY <1>2 DEF Coherent
<1>8. \A i \in 1..n : SubSeq(w, 1, s.Offsets[i]) = SubSeq(s.Buffer, 1, s.Offsets[i])
  BY <1>1, <1>2, PrefixOfConcat
<1>9. SubSeq(w, 1, Len(w)) = w
  BY <1>1, WholeText
<1> HIDE DEF n, w, p
<1>10. ASSUME NEW i \in 1..n PROVE p.Offsets[i] \in 0..Len(w)
  <2>1. p.Offsets[i] = s.Offsets[i] /\ s.Offsets[i] \in 0..Len(s.Buffer)
    BY <1>2, <1>4, Zenon
  <2> QED
    BY <1>1, <1>2, <2>1
<1>11. Coherent(p)
  <2>1. p.Offsets # << >>
    BY <1>2, <1>4
  <2>2. ASSUME NEW i \in 1..(n + 1), NEW j \in 1..(n + 1), i <= j
        PROVE  p.Offsets[i] <= p.Offsets[j]
    <3>1. CASE j = n + 1
      BY <1>1, <1>4, <1>6, <1>10, <3>1
    <3>2. CASE j \in 1..n
      <4>1. i \in 1..n
        BY <1>2, <2>2, <3>2
      <4> QED
        BY <1>4, <1>7, <2>2, <3>2, <4>1
    <3> QED
      BY <1>6, <3>1, <3>2
  <2> QED
    BY <1>3, <1>4, <2>1, <2>2 DEF Coherent, Last
<1>12. Texts(p) = Append(Texts(s), w)
  <2>1. /\ Texts(s) \in Seq(Text) /\ Len(Texts(s)) = n
        /\ \A i \in 1..n : Texts(s)[i] = SubSeq(s.Buffer, 1, s.Offsets[i])
    BY TextsByIndex DEF n
  <2>2. /\ Texts(p) \in Seq(Text) /\ Len(Texts(p)) = n + 1
        /\ \A i \in 1..(n + 1) : Texts(p)[i] = SubSeq(w, 1, p.Offsets[i])
    BY <1>3, <1>4, <1>5, <1>11, TextsByIndex
  <2>3. Texts(p)[n + 1] = w
    <3>1. n + 1 \in 1..(n + 1)
      BY <1>2
    <3> QED
      BY <1>4, <1>9, <2>2, <3>1, Zenon
  <2>4. ASSUME NEW i \in 1..n PROVE Texts(p)[i] = Texts(s)[i]
    <3>1. i \in 1..(n + 1)
      BY <1>2
    <3> QED
      BY <1>4, <1>8, <2>1, <2>2, <3>1, Zenon
  <2> QED
    BY <1>1, <2>1, <2>2, <2>3, <2>4, AppendByIndex
<1> QED
  BY <1>3, <1>5, <1>11, <1>12 DEF w, p

(* pop keeps a stack coherent, and drops the last of its texts, or all.    *)
LEMMA PopCoherent ==
  ASSUME NEW s \in StackRec, Coherent(s)
  PROVE  /\ pop(s) \in StackRec /\ Coherent(pop(s))
         /\ Len(s.Offsets) <= 1 => /\ Texts(pop(s)) = << >>
                                   /\ pop(s).Buffer = << >>
         /\ Len(s.Offsets) > 1 =>
              /\ Texts(pop(s)) = SubSeq(Texts(s), 1, Len(Texts(s)) - 1)
              /\ Len(Texts(pop(s))) = Len(Texts(s)) - 1
              /\ pop(s).Buffer = Texts(s)[Len(Texts(s)) - 1]
<1> DEFINE n == Len(s.Offsets)
           m == s.Offsets[n - 1]
           p == pop(s)
<1>1. /\ s.Offsets \in Seq(Nat) /\ s.Buffer \in Text
  BY DEF StackRec
<1>2. /\ n \in Nat /\ DOMAIN s.Offsets = 1..n /\ Len(s.Buffer) \in Nat
      /\ \A i \in 1..n : s.Offsets[i] \in 0..Len(s.Buffer)
  BY OffsetsBounded
<1>3. CASE n <= 1
  <2>1. p = [Buffer |-> << >>, Offsets |-> << >>]
    BY <1>3 DEF pop
  <2>2. /\ p.Buffer = << >> /\ p.Offsets = << >> /\ Len(<< >>) = 0
        /\ DOMAIN << >> = {} /\ 1..0 = {}
    BY <2>1
  <2>3. p \in StackRec
    BY <2>1 DEF StackRec, Text
  <2>4. Coherent(p)
    BY <2>2 DEF Coherent
  <2>5. Texts(p) = << >>
    BY <2>2 DEF Texts
  <2> QED
    BY <1>2, <1>3, <2>2, <2>3, <2>4, <2>5
<1>4. CASE n > 1
  <2>1. n - 1 \in 1..n /\ m \in 0..Len(s.Buffer)
    BY <1>2, <1>4
  <2>2. /\ Front(s.Offsets) = SubSeq(s.Offsets, 1, n - 1)
        /\ SubSeq(s.Offsets, 1, n - 1) \in Seq(Nat)
        /\ Len(SubSeq(s.Offsets, 1, n - 1)) = n - 1
        /\ SubSeq(s.Offsets, 1, n - 1)[n - 1] = m
        /\ \A i \in 1..(n - 1) : SubSeq(s.Offsets, 1, n - 1)[i] = s.Offsets[i]
    BY <1>1, <1>2, <1>4 DEF Front
  <2>3. Last(Front(s.Offsets)) = m
    BY <2>2 DEF Last
  <2>4. /\ Resize(s.Buffer, m) = SubSeq(s.Buffer, 1, m)
        /\ Len(SubSeq(s.Buffer, 1, m)) = m
        /\ SubSeq(s.Buffer, 1, m) \in Text
    BY <1>1, <2>1, ResizeCuts DEF Text
  <2>5. p = [Buffer |-> SubSeq(s.Buffer, 1, m), Offsets |-> SubSeq(s.Offsets, 1, n - 1)]
    <3>1. ~(n <= 1)
      BY <1>2, <1>4
    <3> QED
      BY <2>2, <2>3, <2>4, <3>1, Zenon DEF pop
  <2> HIDE DEF p
  <2>6. /\ p \in StackRec /\ p.Buffer = SubSeq(s.Buffer, 1, m)
        /\ p.Offsets \in Seq(Nat) /\ Len(p.Offsets) = n - 1
        /\ Len(p.Buffer) = m /\ p.Offsets[n - 1] = m
        /\ DOMAIN p.Offsets = 1..(n - 1)
        /\ \A i \in 1..(n - 1) : p.Offsets[i] = s.Offsets[i]
    <3>1. p.Buffer = SubSeq(s.Buffer, 1, m) /\ p.Offsets = SubSeq(s.Offsets, 1, n - 1)
      BY <2>5
    <3>2. p \in StackRec
      BY <2>2, <2>4, <2>5 DEF StackRec
    <3>3. DOMAIN SubSeq(s.Offsets, 1, n - 1) = 1..(n - 1)
      BY <2>2
    <3> QED
      BY <2>2, <2>4, <3>1, <3>2, <3>3, Zenon
  <2>7. \A i, j \in 1..n : i <= j => s.Offsets[i] <= s.Offsets[j]
    BY <1>2 DEF Coherent
  <2> HIDE DEF n, m
  <2>8. \A i \in 1..(n - 1) : s.Offsets[i] \in 0..m
    BY <1>2, <1>4, <2>1, <2>7 DEF m
  <2>9. Coherent(p)
    <3>1. p.Offsets # << >>
      BY <1>2, <1>4, <2>6
    <3>2. ASSUME NEW i \in 1..(n - 1), NEW j \in 1..(n - 1), i <= j
          PROVE  p.Offsets[i] <= p.Offsets[j]
      <4>1. i \in 1..n /\ j \in 1..n
        BY <1>2
      <4> QED
        BY <2>6, <2>7, <3>2, <4>1, Zenon
    <3> QED
      BY <2>6, <3>1, <3>2 DEF Coherent, Last
  <2>10. \A i \in 1..(n - 1) :
           SubSeq(p.Buffer, 1, p.Offsets[i]) = SubSeq(s.Buffer, 1, s.Offsets[i])
    BY <1>1, <2>1, <2>6, <2>8, PrefixOfPrefix
  <2>11. /\ Texts(s) \in Seq(Text) /\ Len(Texts(s)) = n
         /\ \A i \in 1..n : Texts(s)[i] = SubSeq(s.Buffer, 1, s.Offsets[i])
    BY TextsByIndex DEF n
  <2>12. /\ Texts(p) \in Seq(Text) /\ Len(Texts(p)) = n - 1
         /\ \A i \in 1..(n - 1) : Texts(p)[i] = SubSeq(p.Buffer, 1, p.Offsets[i])
    BY <2>6, <2>9, TextsByIndex
  <2>13. ASSUME NEW i \in 1..(n - 1) PROVE Texts(p)[i] = Texts(s)[i]
    <3>1. i \in 1..n
      BY <1>2
    <3> QED
      BY <2>10, <2>11, <2>12, <3>1, Zenon
  <2>14. Texts(p) = SubSeq(Texts(s), 1, n - 1)
    <3> DEFINE k == n - 1
               u == Texts(s)
               v == Texts(p)
    <3>1. k \in Nat /\ n = k + 1
      BY <1>2, <1>4
    <3>2. u \in Seq(Text) /\ Len(u) = k + 1
      BY <2>11, <3>1
    <3>3. v \in Seq(Text) /\ Len(v) = k /\ \A i \in 1..k : v[i] = u[i]
      BY <2>12, <2>13, Zenon
    <3> HIDE DEF k, u, v
    <3>4. v = SubSeq(u, 1, k)
      BY <3>1, <3>2, <3>3, FrontByIndex
    <3> QED
      BY <3>4 DEF k, u, v
  <2>15. p.Buffer = Texts(s)[n - 1]
    BY <2>1, <2>6, <2>11 DEF m
  <2> QED
    BY <1>2, <1>4, <2>6, <2>9, <2>11, <2>12, <2>14, <2>15 DEF n, p
<1> QED
  BY <1>2, <1>3, <1>4

(* A pop undoes the push before it, on an empty stack too.                 *)
LEMMA PopUndoesPush ==
  ASSUME NEW s \in StackRec, Coherent(s), NEW t \in Text
  PROVE  pop(push(s, t)) = s
<1> DEFINE n == Len(s.Offsets)
           w == s.Buffer \o t
           o == Append(s.Offsets, Len(w))
<1>1. /\ s = [Buffer |-> s.Buffer, Offsets |-> s.Offsets]
      /\ s.Offsets \in Seq(Nat) /\ s.Buffer \in Text /\ w \in Text
      /\ n \in Nat /\ Len(w) \in Nat
  BY DEF StackRec, Text
<1>2. /\ push(s, t) = [Buffer |-> w, Offsets |-> o]
      /\ o \in Seq(Nat) /\ Len(o) = n + 1 /\ SubSeq(o, 1, n) = s.Offsets
  BY <1>1 DEF push
<1>3. CASE n = 0
  <2>1. s.Offsets = << >> /\ s.Buffer = << >>
    BY <1>1, <1>3 DEF Coherent
  <2> QED
    BY <1>1, <1>2, <1>3, <2>1 DEF pop
<1>4. CASE n > 0
  <2>1. Last(s.Offsets) = Len(s.Buffer)
    BY <1>1, <1>4 DEF Coherent
  <2>2. Len(s.Buffer) \in 0..Len(w) /\ SubSeq(w, 1, Len(s.Buffer)) = s.Buffer
    BY <1>1, CutConcat DEF Text
  <2>3. Resize(w, Len(s.Buffer)) = s.Buffer
    BY <1>1, <2>2, ResizeCuts
  <2>4. Front(o) = s.Offsets
    BY <1>1, <1>2 DEF Front
  <2> QED
    BY <1>1, <1>2, <1>4, <2>1, <2>3, <2>4 DEF pop
<1> QED
  BY <1>1, <1>3, <1>4

-----------------------------------------------------------------------------
(* The retriever.                                                          *)

Found == [member: Text, ns: BOOLEAN]

(* The activation that runs is typed.                                      *)
LEMMA TopTyped ==
  ASSUME TypeOK, frames # << >>
  PROVE  /\ Top = frames[Len(frames)] /\ Len(frames) \in Nat \ {0}
         /\ Top \in Frame /\ Top.found \subseteq Found
<1>1. frames \in Seq(Frame) /\ Len(frames) \in Nat \ {0}
  BY DEF TypeOK
<1>2. Top = frames[Len(frames)] /\ Top \in Frame
  BY <1>1 DEF Top, Last
<1> QED
  BY <1>1, <1>2 DEF Frame, Found

LEMMA MemberTyped ==
  ASSUME TypeOK, frames # << >>, NEW m \in Top.found
  PROVE  m.member \in Text /\ m.ns \in BOOLEAN
BY TopTyped DEF Found

(* What the statements return.                                             *)
LEMMA MembersTyped ==
  ASSUME TypeOK, NEW n, NEW scope, NEW t,
         NEW seen \in Read(SelectMembers(n, scope, t))
  PROVE  seen \subseteq Found
<1>1. Table(n) \subseteq Row
  BY DEF Table, TypeOK, Database
<1>2. SelectMembers(n, scope, t) \subseteq Found
  BY <1>1 DEF SelectMembers, Found, Row
<1> QED
  BY <1>2 DEF Read

LEMMA ScopesTyped ==
  ASSUME TypeOK, NEW n, NEW t, NEW seen \in Read(SelectScopes(n, t))
  PROVE  seen \subseteq Text
<1>1. Table(n) \subseteq Row
  BY DEF Table, TypeOK, Database
<1>2. SelectScopes(n, t) \subseteq Text
  BY <1>1 DEF SelectScopes, Row
<1> QED
  BY <1>2 DEF Read

(* Counting and printing the symbols a statement returned.                 *)
LEMMA EmitTyped ==
  ASSUME TypeOK, NEW t,
         NEW seen \in Read(SymbolsNamed(t)) \cup Read(SymbolsLike(t)), Emit(seen)
  PROVE  /\ NumResults' \in Nat
         /\ Output' \subseteq (Loc \cup {NamespaceLine, NoResultLine})
<1>1. seen \subseteq db.symbol /\ db.symbol \subseteq Symbol /\ IsFiniteSet(db.symbol)
  BY DEF Read, SymbolsNamed, SymbolsLike, TypeOK, Database
<1>2. Cardinality(seen) \in Nat
  BY <1>1, FS_Subset, FS_CardinalityType
<1>3. {s.at : s \in seen} \subseteq Loc
  BY <1>1 DEF Symbol
<1> QED
  BY <1>2, <1>3 DEF Emit, TypeOK

-----------------------------------------------------------------------------
(* The stack. *)

(* Whatever an action does to it amounts to one call of a method.          *)
StackMove ==
  \/ UNCHANGED Stack
  \/ \E t \in Text : Stack' = push(Stack, t)
  \/ Stack' = pop(Stack)
  \/ Stack' = NewStack

LEMMA YieldMove ==
  ASSUME TypeOK, StackTopIsLength, NEW m \in Text,
         LET s == push(Stack, m) IN
           \/ YieldExact(s) \/ YieldExactFails(s)
           \/ YieldPrefix(s) \/ YieldPrefixFails(s)
  PROVE  \/ UNCHANGED Stack
         \/ YieldPrefixFails(push(Stack, m)) /\ Stack' = push(Stack, m)
<1> DEFINE s == push(Stack, m)
<1>1. Stack \in StackRec /\ Coherent(Stack)
  BY DEF TypeOK, StackTopIsLength
<1>2. s \in StackRec /\ Coherent(s) /\ pop(s) = Stack
  BY <1>1, PushCoherent, PopUndoesPush
<1>3. << Percent >> \in Text
  BY LikeAssumption DEF Text
<1>4. pop(push(s, << Percent >>)) = s
  BY <1>2, <1>3, PopUndoesPush
<1> HIDE DEF s
<1>5. CASE YieldExact(s) \/ YieldExactFails(s)
  BY <1>2, <1>5 DEF YieldExact, YieldExactFails
<1>6. CASE YieldPrefix(s)
  BY <1>2, <1>4, <1>6 DEF YieldPrefix
<1>7. CASE YieldPrefixFails(s)
  BY <1>4, <1>7 DEF YieldPrefixFails, s
<1> QED
  BY <1>5, <1>6, <1>7 DEF s

LEMMA StackMoves ==
  ASSUME TypeOK, StackTopIsLength, [Next]_vars
  PROVE  StackMove
<1>1. CASE Query
  BY <1>1 DEF Query, StackMove
<1>2. CASE LookupFails \/ Descended
  BY <1>2 DEF LookupFails, Descended, Return, StackMove
<1>3. CASE Enter
  BY <1>3, MemberTyped DEF Enter, StackMove
<1>4. CASE HitNamespace
  <2>1. PICK m \in Top.found : Stack' = pop(push(Stack, m.member))
    BY <1>4 DEF HitNamespace
  <2>2. m.member \in Text
    BY <1>4, MemberTyped DEF HitNamespace
  <2> QED
    BY <2>1, <2>2, PopUndoesPush DEF StackMove, TypeOK, StackTopIsLength
<1>5. CASE HitSymbol
  <2>1. PICK m \in Top.found :
          LET s == push(Stack, m.member) IN
            \/ YieldExact(s) \/ YieldExactFails(s)
            \/ YieldPrefix(s) \/ YieldPrefixFails(s)
    BY <1>5 DEF HitSymbol
  <2>2. m.member \in Text
    BY <1>5, MemberTyped DEF HitSymbol
  <2> QED
    BY <2>1, <2>2, YieldMove DEF StackMove
<1>6. CASE StartVague
  BY <1>6 DEF StartVague, reset, StackMove
<1>7. CASE DescendFrom
  BY <1>7 DEF DescendFrom, StackMove, TypeOK
<1>8. CASE Lookup \/ PreciseFound \/ LookupScopes \/ LookupScopesFails \/ EndVague
  BY <1>8 DEF Lookup, PreciseFound, LookupScopes, LookupScopesFails, EndVague,
     StackMove
<1>9. CASE UNCHANGED vars
  BY <1>9 DEF vars, StackMove
<1> QED
  BY <1>1, <1>2, <1>3, <1>4, <1>5, <1>6, <1>7, <1>8, <1>9 DEF Next, Work

(* Each method keeps the stack coherent and is a step of NameStack.        *)
LEMMA MoveCoherent ==
  ASSUME TypeOK, StackTopIsLength, StackMove
  PROVE  /\ Stack' \in StackRec /\ StackTopIsLength'
         /\ [StackOfNames!Next]_<< Texts(Stack), Stack.Buffer >>
<1>1. Stack \in StackRec /\ Coherent(Stack)
  BY DEF TypeOK, StackTopIsLength
<1>2. CASE UNCHANGED Stack
  BY <1>1, <1>2 DEF StackTopIsLength
<1>3. ASSUME NEW t \in Text, Stack' = push(Stack, t)
      PROVE  /\ Stack' \in StackRec /\ StackTopIsLength'
             /\ StackOfNames!Enter
  <2>1. /\ Stack' \in StackRec /\ Coherent(Stack')
        /\ Stack'.Buffer = Stack.Buffer \o t
        /\ Texts(Stack') = Append(Texts(Stack), Stack'.Buffer)
    BY <1>1, <1>3, PushCoherent
  <2>2. IsPrefix(Stack.Buffer, Stack.Buffer \o t)
    <3>1. Stack.Buffer \in Text
      BY <1>1 DEF StackRec
    <3>2. SubSeq(Stack.Buffer \o t, 1, Len(Stack.Buffer)) = Stack.Buffer
      BY <3>1, CutConcat
    <3>3. SubSeq(Stack.Buffer, 1, Len(Stack.Buffer)) = Stack.Buffer
      BY <3>1, WholeText
    <3>4. Len(Stack.Buffer) <= Len(Stack.Buffer \o t)
      BY <3>1 DEF Text
    <3> QED
      BY <3>2, <3>3, <3>4 DEF IsPrefix
  <2> QED
    BY <2>1, <2>2
    DEF StackTopIsLength, StackOfNames!Enter, StackOfNames!IsPrefix, IsPrefix
<1>4. CASE Stack' = pop(Stack)
  <2>1. Stack' \in StackRec /\ Coherent(Stack')
    BY <1>1, <1>4, PopCoherent
  <2>2. Len(Texts(Stack)) = Len(Stack.Offsets) /\ Len(Stack.Offsets) \in Nat
    BY <1>1, TextsByIndex, OffsetsBounded
  <2>3. CASE Len(Stack.Offsets) <= 1
    <3>1. Texts(Stack') = << >> /\ Stack'.Buffer = << >>
      BY <1>1, <1>4, <2>3, PopCoherent
    <3>2. StackOfNames!Clear
      BY <3>1 DEF StackOfNames!Clear
    <3> QED
      BY <2>1, <3>2 DEF StackTopIsLength, StackOfNames!Next
  <2>4. CASE Len(Stack.Offsets) > 1
    <3>1. /\ Texts(Stack') = SubSeq(Texts(Stack), 1, Len(Texts(Stack)) - 1)
          /\ Len(Texts(Stack')) = Len(Texts(Stack)) - 1
          /\ Stack'.Buffer = Texts(Stack)[Len(Texts(Stack)) - 1]
      BY <1>1, <1>4, <2>4, PopCoherent
    <3>2. Texts(Stack')[Len(Texts(Stack')) ] = Stack'.Buffer
      <4>1. Texts(Stack) \in Seq(Text)
        BY <1>1, TextsByIndex
      <4> QED
        BY <2>2, <2>4, <3>1, <4>1
    <3>3. StackOfNames!Leave
      BY <2>2, <2>4, <3>1, <3>2
      DEF StackOfNames!Leave, StackOfNames!Front, StackOfNames!Last
    <3> QED
      BY <2>1, <3>3 DEF StackTopIsLength, StackOfNames!Next
  <2> QED
    BY <2>2, <2>3, <2>4
<1>5. CASE Stack' = NewStack
  <2>1. Stack' \in StackRec /\ Coherent(Stack') /\ Texts(Stack') = << << >> >>
    BY <1>5, NewCoherent
  <2>2. StackOfNames!Clear
    BY <1>5, <2>1 DEF NewStack, StackOfNames!Clear
  <2> QED
    BY <2>1, <2>2 DEF StackTopIsLength, StackOfNames!Next
<1> QED
  BY <1>2, <1>3, <1>4, <1>5 DEF StackMove, StackOfNames!Next

-----------------------------------------------------------------------------
(* TypeOK is inductive. *)

(* The first values of most variables.                                     *)
LEMMA EmptyTyped ==
  /\ {} \subseteq Text /\ {} \subseteq (Loc \cup {NamespaceLine, NoResultLine})
  /\ 0 \in Nat /\ 0 \in 0..2 /\ FALSE \in BOOLEAN
OBVIOUS

LEMMA TypeInit == Init => TypeOK /\ StackTopIsLength
<1> SUFFICES ASSUME Init PROVE TypeOK /\ StackTopIsLength
  OBVIOUS
<1>1. Stack \in StackRec /\ Coherent(Stack)
  BY NewCoherent DEF Init
<1>2. db \in Database /\ IsFiniteSet(db.symbol)
  BY DatabaseAssumption DEF Init
<1>3. Key \in Seq(Token) /\ frames \in Seq(Frame)
  BY DEF Init
<1>4. phase \in {"idle", "precise", "vague"}
  BY DEF Init
<1> QED
  BY <1>1, <1>2, <1>3, <1>4, EmptyTyped, Zenon DEF Init, TypeOK, StackTopIsLength

(* The activations, after the loop of the running one has got on.          *)
LEMMA TreatedTyped ==
  ASSUME TypeOK, frames # << >>, NEW m
  PROVE  /\ Treated(m) \in Seq(Frame) /\ Len(Treated(m)) = Len(frames)
         /\ \A i \in 1..Len(frames) : Treated(m)[i].cur = frames[i].cur
<1>1. /\ frames \in Seq(Frame) /\ Len(frames) \in Nat \ {0}
      /\ Top = frames[Len(frames)] /\ Top \in Frame
  BY TopTyped DEF TypeOK
<1> DEFINE f == [Top EXCEPT !.found = @ \ {m}]
<1>2. f \in Frame /\ f.cur = Top.cur
  BY <1>1 DEF Frame
<1>3. Treated(m) = [frames EXCEPT ![Len(frames)] = f]
  BY <1>1 DEF Treated
<1> HIDE DEF f
<1> QED
  BY <1>1, <1>2, <1>3

(* A statement of Descend leaves everything of its activation but the rows *)
(* found as it was.                                                        *)
LEMMA LookupTyped ==
  ASSUME TypeOK, Lookup
  PROVE  /\ frames' \in Seq(Frame) /\ Len(frames') = Len(frames)
         /\ \A i \in 1..Len(frames) : frames'[i].cur = frames[i].cur
         /\ failed' \in BOOLEAN
<1>1. /\ frames \in Seq(Frame) /\ Len(frames) \in Nat \ {0}
      /\ Top = frames[Len(frames)] /\ Top \in Frame
  BY TopTyped DEF TypeOK, Lookup
<1> DEFINE n == Top.stmts + 1
           rows == SelectMembers(n, Stack.Buffer, Key[Top.idx])
<1>2. PICK seen \in Read(rows) :
        /\ frames' = [frames EXCEPT ![Len(frames)].stmts = n,
                                    ![Len(frames)].found = seen]
        /\ failed' = (failed \/ seen # rows)
  BY DEF Lookup
<1>3. seen \subseteq Found /\ n \in 0..2
  BY <1>1, MembersTyped DEF Lookup, Frame
<1> HIDE DEF n, rows
<1> DEFINE f == [Top EXCEPT !.stmts = n, !.found = seen]
<1>4. f \in Frame /\ f.cur = Top.cur
  BY <1>1, <1>3 DEF Frame, Found
<1>5. frames' = [frames EXCEPT ![Len(frames)] = f]
  BY <1>1, <1>2
<1> HIDE DEF f
<1>6. failed' \in BOOLEAN
  BY <1>2
<1> QED
  BY <1>1, <1>4, <1>5, <1>6

LEMMA YieldTyped ==
  ASSUME TypeOK, NEW s,
         \/ YieldExact(s) \/ YieldExactFails(s)
         \/ YieldPrefix(s) \/ YieldPrefixFails(s)
  PROVE  /\ NumResults' \in Nat /\ failed' \in BOOLEAN
         /\ Output' \subseteq (Loc \cup {NamespaceLine, NoResultLine})
<1>1. CASE YieldExact(s)
  <2>1. PICK seen \in Read(SymbolsNamed(s.Buffer)) :
          Emit(seen) /\ failed' = (failed \/ seen # SymbolsNamed(s.Buffer))
    BY <1>1 DEF YieldExact
  <2>2. failed' \in BOOLEAN
    BY <2>1
  <2> QED
    BY <2>1, <2>2, EmitTyped
<1>2. CASE YieldPrefix(s)
  <2>1. PICK seen \in Read(SymbolsLike(s.Buffer)) :
          /\ Emit(seen)
          /\ failed' = (failed \/ SymbolsNamed(s.Buffer) # {}
                              \/ seen # SymbolsLike(s.Buffer))
    BY <1>2 DEF YieldPrefix
  <2>2. failed' \in BOOLEAN
    BY <2>1
  <2> QED
    BY <2>1, <2>2, EmitTyped
<1>3. CASE YieldExactFails(s) \/ YieldPrefixFails(s)
  BY <1>3 DEF YieldExactFails, YieldPrefixFails, TypeOK
<1> QED
  BY <1>1, <1>2, <1>3

(* The parts of TypeOK' besides the stack.                                 *)
Typed ==
  /\ phase \in {"idle", "precise", "vague"}
  /\ Key \in Seq(Token)
  /\ frames \in Seq(Frame)
  /\ stmts \in 0..2
  /\ Names \subseteq Text
  /\ NumResults \in Nat
  /\ Output \subseteq (Loc \cup {NamespaceLine, NoResultLine})
  /\ failed \in BOOLEAN

LEMMA TypeStep ==
  ASSUME TypeOK, StackTopIsLength, [Next]_vars
  PROVE  TypeOK' /\ StackTopIsLength'
<1>0. Typed
  BY DEF TypeOK, Typed
<1>1. Stack' \in StackRec /\ StackTopIsLength'
  BY StackMoves, MoveCoherent
<1>2. UNCHANGED db
  BY DEF Next, Work, vars, Query, Lookup, LookupFails, Descended, Enter,
     HitNamespace, HitSymbol, PreciseFound, StartVague, LookupScopes,
     LookupScopesFails, DescendFrom, EndVague
<1>3. ASSUME NEW i \in Nat \ {0}, NEW t \in Text PROVE NewFrame(i, t) \in Frame
  BY <1>3 DEF NewFrame, Frame
<1>4. frames # << >> => Front(frames) \in Seq(Frame)
  BY <1>0 DEF Front, Typed
<1>5. << >> \in Text
  BY DEF Text
<1>6. CASE Query
  <2>1. Key' \in Seq(Token)
    BY <1>6, QueryAssumption DEF Query
  <2>2. frames' \in Seq(Frame)
    BY <1>3, <1>5, <1>6 DEF Query
  <2>3. phase' \in {"idle", "precise", "vague"}
    BY <1>6 DEF Query
  <2>4. Typed'
    BY <1>6, <2>1, <2>2, <2>3, EmptyTyped, Zenon DEF Query, Typed
  <2> QED
    BY <1>1, <1>2, <2>4 DEF Typed, TypeOK
<1>7. CASE Lookup
  <2>1. Typed'
    BY <1>0, <1>7, LookupTyped DEF Lookup, Typed
  <2> QED
    BY <1>1, <1>2, <2>1 DEF Typed, TypeOK
<1>8. CASE LookupFails \/ Descended
  <2>1. frames' \in Seq(Frame)
    BY <1>4, <1>8 DEF LookupFails, Descended, Return
  <2>2. Typed'
    BY <1>0, <1>8, <2>1 DEF LookupFails, Descended, Typed
  <2> QED
    BY <1>1, <1>2, <2>2 DEF Typed, TypeOK
<1>9. CASE Enter
  <2>1. PICK m \in Top.found :
          frames' = Append(Treated(m),
                           NewFrame(Top.idx + 1, push(Stack, m.member).Buffer))
    BY <1>9 DEF Enter
  <2>2. frames # << >>
    BY <1>9 DEF Enter
  <2>3. push(Stack, m.member).Buffer \in Text
    BY <2>2, MemberTyped, PushCoherent DEF TypeOK, StackTopIsLength, StackRec
  <2>4. Top.idx + 1 \in Nat \ {0}
    BY <2>2, TopTyped DEF Frame
  <2>5. frames' \in Seq(Frame)
    BY <1>3, <2>1, <2>2, <2>3, <2>4, TreatedTyped
  <2>6. Typed'
    BY <1>0, <1>9, <2>5 DEF Enter, Typed
  <2> QED
    BY <1>1, <1>2, <2>6 DEF Typed, TypeOK
<1>10. CASE HitNamespace
  <2>1. Typed'
    BY <1>0, <1>10, TreatedTyped DEF HitNamespace, Typed
  <2> QED
    BY <1>1, <1>2, <2>1 DEF Typed, TypeOK
<1>11. CASE HitSymbol
  <2>1. /\ NumResults' \in Nat /\ failed' \in BOOLEAN
        /\ Output' \subseteq (Loc \cup {NamespaceLine, NoResultLine})
    BY <1>11, YieldTyped DEF HitSymbol
  <2>2. Typed'
    BY <1>0, <1>11, <2>1, TreatedTyped DEF HitSymbol, Typed
  <2> QED
    BY <1>1, <1>2, <2>2 DEF Typed, TypeOK
<1>12. CASE LookupScopes
  <2>1. PICK seen \in Read(SelectScopes(stmts + 1, Key[1])) :
          /\ Names' = seen
          /\ failed' = (failed \/ seen # SelectScopes(stmts + 1, Key[1]))
    BY <1>12 DEF LookupScopes
  <2>2. Names' \subseteq Text
    BY <2>1, ScopesTyped
  <2>3. failed' \in BOOLEAN
    BY <2>1
  <2>4. stmts' \in 0..2
    BY <1>0, <1>12 DEF LookupScopes, Typed
  <2>5. Typed'
    BY <1>0, <1>12, <2>2, <2>3, <2>4 DEF LookupScopes, Typed
  <2> QED
    BY <1>1, <1>2, <2>5 DEF Typed, TypeOK
<1>13. CASE DescendFrom
  <2>1. Stack'.Buffer \in Text
    BY <1>1 DEF StackRec
  <2>2. frames' \in Seq(Frame)
    BY <1>3, <1>13, <2>1 DEF DescendFrom
  <2>3. Names' \subseteq Text
    BY <1>0, <1>13 DEF DescendFrom, Typed
  <2>4. Typed'
    BY <1>0, <1>13, <2>2, <2>3 DEF DescendFrom, Typed
  <2> QED
    BY <1>1, <1>2, <2>4 DEF Typed, TypeOK
<1>14. CASE PreciseFound \/ StartVague \/ LookupScopesFails \/ EndVague
  <2>1. Typed'
    BY <1>0, <1>14
    DEF PreciseFound, StartVague, LookupScopesFails, EndVague, Typed
  <2> QED
    BY <1>1, <1>2, <2>1 DEF Typed, TypeOK
<1>15. CASE UNCHANGED vars
  BY <1>15 DEF vars, TypeOK, StackTopIsLength
<1> QED
  BY <1>1, <1>6, <1>7, <1>8, <1>9, <1>10, <1>11, <1>12, <1>13, <1>14, <1>15
  DEF Next, Work

-----------------------------------------------------------------------------
(* Unless the bind of the prefix statement can fail, or while nothing has  *)
(* failed, the texts on the stack are the scopes of the activations, one   *)
(* for one, above the empty text that is left below them when Query looks  *)
(* from every scope.                                                       *)
Sheltered == "prefix" \notin Faults \/ ~failed

Below == IF phase = "vague" THEN 1 ELSE 0

ScopesOpen ==
  /\ phase = "idle" => frames = << >>
  /\ phase # "idle" =>
       Len(Texts(Stack)) = (IF frames = << >> THEN 1 ELSE Len(frames) + Below)
  /\ phase = "vague" => Texts(Stack)[1] = << >>
  /\ \A i \in 1..Len(frames) : frames[i].cur = Texts(Stack)[i + Below]

(* The conjuncts as facts about lengths.                                   *)
LEMMA OpenBounds ==
  ASSUME TypeOK, StackTopIsLength, ScopesOpen
  PROVE  /\ Below \in {0, 1} /\ Len(frames) \in Nat /\ frames \in Seq(Frame)
         /\ Texts(Stack) \in Seq(Text) /\ Len(Texts(Stack)) \in Nat
         /\ Len(Stack.Offsets) = Len(Texts(Stack))
         /\ frames # << >> => /\ phase # "idle" /\ Len(frames) > 0
                              /\ Len(Texts(Stack)) = Len(frames) + Below
<1>1. Below \in {0, 1} /\ Len(frames) \in Nat /\ frames \in Seq(Frame)
  BY DEF Below, TypeOK
<1>2. /\ Texts(Stack) \in Seq(Text) /\ Len(Texts(Stack)) \in Nat
      /\ Len(Stack.Offsets) = Len(Texts(Stack))
  BY TextsByIndex DEF TypeOK, StackTopIsLength
<1>3. frames # << >> => Len(frames) > 0
  BY <1>1
<1> QED
  BY <1>1, <1>2, <1>3 DEF ScopesOpen

(* A step of one activation that leaves all scopes and the stack alone.    *)
LEMMA InnerOpen ==
  ASSUME TypeOK, StackTopIsLength, ScopesOpen, frames # << >>,
         UNCHANGED << Stack, phase >>,
         frames' \in Seq(Frame), Len(frames') = Len(frames),
         \A i \in 1..Len(frames) : frames'[i].cur = frames[i].cur
  PROVE  ScopesOpen'
<1>1. Below' = Below /\ Texts(Stack') = Texts(Stack)
  BY DEF Below
<1>2. frames' # << >> /\ phase # "idle"
  BY OpenBounds
<1> QED
  BY <1>1, <1>2, OpenBounds DEF ScopesOpen

LEMMA EnterOpen ==
  ASSUME TypeOK, StackTopIsLength, ScopesOpen, Enter
  PROVE  ScopesOpen'
<1> DEFINE n == Len(frames)
<1>1. PICK m \in Top.found :
        /\ Stack' = push(Stack, m.member)
        /\ frames' = Append(Treated(m), NewFrame(Top.idx + 1, Stack'.Buffer))
        /\ UNCHANGED phase
  BY DEF Enter
<1>2. frames # << >>
  BY DEF Enter
<1>3. m.member \in Text /\ Stack \in StackRec /\ Coherent(Stack)
  BY <1>2, MemberTyped DEF TypeOK, StackTopIsLength
<1>4. /\ Texts(Stack') = Append(Texts(Stack), Stack'.Buffer)
      /\ Stack'.Buffer \in Text
  BY <1>1, <1>3, PushCoherent DEF StackRec
<1>5. /\ Treated(m) \in Seq(Frame) /\ Len(Treated(m)) = n
      /\ \A i \in 1..n : Treated(m)[i].cur = frames[i].cur
  BY <1>2, TreatedTyped
<1>6. /\ n \in Nat /\ n > 0 /\ Below \in {0, 1} /\ Below' = Below
      /\ Texts(Stack) \in Seq(Text) /\ Len(Texts(Stack)) = n + Below
      /\ phase # "idle"
  BY <1>1, <1>2, OpenBounds DEF Below
<1>7. Top.idx + 1 \in Nat \ {0}
  BY <1>2, TopTyped DEF Frame
<1> DEFINE f == NewFrame(Top.idx + 1, Stack'.Buffer)
<1>8. f \in Frame /\ f.cur = Stack'.Buffer
  BY <1>4, <1>7 DEF NewFrame, Frame
<1> HIDE DEF n, f
<1>9. /\ Len(frames') = n + 1 /\ frames'[n + 1] = f /\ frames' # << >>
      /\ \A i \in 1..n : frames'[i] = Treated(m)[i]
  BY <1>1, <1>5, <1>6, <1>8 DEF f
<1>10. /\ Len(Texts(Stack')) = n + Below + 1
       /\ Texts(Stack')[n + Below + 1] = Stack'.Buffer
       /\ \A i \in 1..(n + Below) : Texts(Stack')[i] = Texts(Stack)[i]
  BY <1>4, <1>6
<1>11. ASSUME NEW i \in 1..(n + 1)
       PROVE  frames'[i].cur = Texts(Stack')[i + Below]
  <2>1. CASE i = n + 1
    <3>1. i + Below = n + Below + 1
      BY <1>6, <2>1
    <3> QED
      BY <1>8, <1>9, <1>10, <2>1, <3>1
  <2>2. CASE i \in 1..n
    <3>1. i + Below \in 1..(n + Below)
      BY <1>6, <2>2
    <3>2. frames[i].cur = Texts(Stack)[i + Below]
      BY <2>2 DEF ScopesOpen, n
    <3> QED
      BY <1>5, <1>9, <1>10, <2>2, <3>1, <3>2, Zenon
  <2> QED
    BY <1>6, <2>1, <2>2
<1>12. Len(Texts(Stack')) = Len(frames') + Below'
  BY <1>6, <1>9, <1>10
<1>13. phase' = "vague" => Texts(Stack')[1] = << >>
  <2>1. 1 \in 1..(n + Below)
    BY <1>6
  <2> QED
    BY <1>1, <1>10, <2>1 DEF ScopesOpen
<1> QED
  BY <1>1, <1>6, <1>9, <1>11, <1>12, <1>13 DEF ScopesOpen

LEMMA ReturnOpen ==
  ASSUME TypeOK, StackTopIsLength, ScopesOpen, frames # << >>,
         Return, UNCHANGED phase
  PROVE  ScopesOpen'
<1> DEFINE n == Len(frames)
<1>1. /\ n \in Nat /\ n > 0 /\ Below \in {0, 1} /\ Below' = Below
      /\ Texts(Stack) \in Seq(Text) /\ Len(Texts(Stack)) = n + Below
      /\ Len(Stack.Offsets) = n + Below
      /\ phase \in {"precise", "vague"} /\ frames \in Seq(Frame)
  BY OpenBounds DEF Below, TypeOK
<1>2. frames' = SubSeq(frames, 1, n - 1)
  BY DEF Return, Front
<1>3. /\ Len(frames') = n - 1 /\ (frames' = << >> <=> n = 1)
      /\ \A i \in 1..(n - 1) : frames'[i] = frames[i]
  <2>1. /\ Len(frames') = n - 1 /\ frames' \in Seq(Frame)
        /\ \A i \in 1..(n - 1) : frames'[i] = frames[i]
    <3>1. n - 1 \in Nat /\ n - 1 = Len(frames) - 1
      BY <1>1
    <3> QED
      BY <1>1, <1>2, <3>1, FrontTyped, Zenon
  <2>2. frames' = << >> <=> Len(frames') = 0
    BY <2>1
  <2> QED
    BY <1>1, <2>1, <2>2
<1>4. CASE n = 1 /\ phase = "precise"
  <2>1. Stack' = Stack /\ Below = 0
    BY <1>4 DEF Return, Below
  <2> QED
    BY <1>1, <1>3, <1>4, <2>1 DEF ScopesOpen
<1>5. CASE ~(n = 1 /\ phase = "precise")
  <2>1. Stack' = pop(Stack) /\ n + Below > 1
    <3>1. Stack' = pop(Stack)
      BY <1>5 DEF Return
    <3>2. CASE phase = "precise"
      <4>1. n # 1 /\ n \in Nat /\ n > 0 /\ Below \in {0, 1}
        BY <1>1, <1>5, <3>2
      <4> HIDE DEF n
      <4> QED
        BY <3>1, <4>1
    <3>3. CASE phase = "vague"
      <4>1. Below = 1
        BY <3>3 DEF Below
      <4> QED
        BY <1>1, <3>1, <4>1
    <3> QED
      BY <1>1, <3>2, <3>3
  <2>2. /\ Texts(Stack') = SubSeq(Texts(Stack), 1, n + Below - 1)
        /\ Len(Texts(Stack')) = n + Below - 1
    BY <1>1, <2>1, PopCoherent DEF TypeOK, StackTopIsLength
  <2> HIDE DEF n
  <2>3. \A i \in 1..(n + Below - 1) : Texts(Stack')[i] = Texts(Stack)[i]
    BY <1>1, <2>1, <2>2
  <2>4. ASSUME NEW i \in 1..(n - 1)
        PROVE  frames'[i].cur = Texts(Stack')[i + Below]
    <3>1. i \in 1..n /\ i + Below \in 1..(n + Below - 1)
      BY <1>1
    <3>2. frames[i].cur = Texts(Stack)[i + Below]
      BY <3>1 DEF ScopesOpen, n
    <3> QED
      BY <1>3, <2>3, <3>1, <3>2, Zenon
  <2>5. Len(Texts(Stack')) =
          (IF frames' = << >> THEN 1 ELSE Len(frames') + Below')
    <3>1. CASE n = 1
      <4>1. Below = 1
        BY <1>1, <2>1, <3>1
      <4> QED
        BY <1>3, <2>2, <3>1, <4>1
    <3>2. CASE n # 1
      BY <1>1, <1>3, <2>2, <3>2
    <3> QED
      BY <3>1, <3>2
  <2>6. phase' = "vague" => Texts(Stack')[1] = << >>
    <3>1. 1 \in 1..(n + Below - 1)
      BY <1>1, <2>1
    <3> QED
      BY <2>3, <3>1 DEF ScopesOpen
  <2> QED
    BY <1>1, <1>3, <2>4, <2>5, <2>6 DEF ScopesOpen
<1> QED
  BY <1>4, <1>5

(* A failure is forgotten only when the next query begins.                 *)
LEMMA FailureIsKept ==
  ASSUME TypeOK, Work
  PROVE  failed => failed'
<1>1. ASSUME NEW m, LET s == push(Stack, m) IN
               \/ YieldExact(s) \/ YieldExactFails(s)
               \/ YieldPrefix(s) \/ YieldPrefixFails(s)
      PROVE  failed => failed'
  BY <1>1 DEF YieldExact, YieldExactFails, YieldPrefix, YieldPrefixFails
<1>2. CASE HitSymbol
  BY <1>1, <1>2 DEF HitSymbol
<1>3. CASE Lookup \/ LookupScopes
  BY <1>3 DEF Lookup, LookupScopes
<1> QED
  BY <1>2, <1>3 DEF Work, LookupFails, Descended, Enter, HitNamespace,
     PreciseFound, StartVague, LookupScopesFails, DescendFrom, EndVague

LEMMA WorkOpen ==
  ASSUME TypeOK, StackTopIsLength, ScopesOpen, Work, Sheltered'
  PROVE  ScopesOpen'
<1>0. Stack \in StackRec /\ Coherent(Stack)
  BY DEF TypeOK, StackTopIsLength
<1>2. CASE Lookup
  BY <1>2, LookupTyped, InnerOpen DEF Lookup
<1>3. CASE LookupFails \/ Descended
  BY <1>3, ReturnOpen DEF LookupFails, Descended
<1>4. CASE Enter
  BY <1>4, EnterOpen
<1>5. CASE HitNamespace
  <2>1. PICK m \in Top.found : /\ frames' = Treated(m)
                               /\ Stack' = pop(push(Stack, m.member))
    BY <1>5 DEF HitNamespace
  <2>2. m.member \in Text
    BY <1>5, MemberTyped DEF HitNamespace
  <2>3. Stack' = Stack
    BY <1>0, <2>1, <2>2, PopUndoesPush
  <2> QED
    BY <1>5, <2>1, <2>3, TreatedTyped, InnerOpen DEF HitNamespace
<1>6. CASE HitSymbol
  <2>1. PICK m \in Top.found :
          /\ frames' = Treated(m)
          /\ LET s == push(Stack, m.member) IN
               \/ YieldExact(s) \/ YieldExactFails(s)
               \/ YieldPrefix(s) \/ YieldPrefixFails(s)
    BY <1>6 DEF HitSymbol
  <2>2. m.member \in Text
    BY <1>6, MemberTyped DEF HitSymbol
  <2>3. ~YieldPrefixFails(push(Stack, m.member))
    BY DEF YieldPrefixFails, Sheltered
  <2>4. Stack' = Stack
    BY <2>1, <2>2, <2>3, YieldMove
  <2> QED
    BY <1>6, <2>1, <2>4, TreatedTyped, InnerOpen DEF HitSymbol
<1>7. CASE StartVague
  <2>1. /\ frames = << >> /\ frames' = << >> /\ phase' = "vague"
        /\ Texts(Stack') = << << >> >>
    BY <1>7, NewCoherent DEF StartVague, reset
  <2> QED
    BY <2>1 DEF ScopesOpen
<1>8. CASE DescendFrom
  <2>1. PICK name \in Names :
          /\ Stack' = push(Stack, name)
          /\ frames' = << NewFrame(1, Stack'.Buffer) >>
          /\ phase' = "vague" /\ phase = "vague" /\ frames = << >>
    BY <1>8 DEF DescendFrom
  <2>2. Texts(Stack') = Append(Texts(Stack), Stack'.Buffer)
    BY <1>0, <2>1, PushCoherent DEF TypeOK
  <2>3. /\ Texts(Stack) \in Seq(Text) /\ Len(Texts(Stack)) = 1
        /\ Stack'.Buffer \in Text
    BY <1>0, <2>1, OpenBounds, PushCoherent DEF ScopesOpen, TypeOK, StackRec
  <2>4. /\ Len(Texts(Stack')) = 2 /\ Texts(Stack')[2] = Stack'.Buffer
        /\ Texts(Stack')[1] = Texts(Stack)[1]
    <3>1. \A u \in Seq(Text), e \in Text :
            Len(u) = 1 => /\ Len(Append(u, e)) = 2 /\ Append(u, e)[1] = u[1]
                          /\ Append(u, e)[2] = e
      BY AppendToOne
    <3> DEFINE u == Texts(Stack)
               e == Stack'.Buffer
    <3>2. u \in Seq(Text) /\ Len(u) = 1 /\ e \in Text
      BY <2>3
    <3> HIDE DEF u, e
    <3>3. /\ Len(Append(u, e)) = 2 /\ Append(u, e)[1] = u[1]
          /\ Append(u, e)[2] = e
      BY <3>1, <3>2, Zenon
    <3> QED
      BY <2>2, <3>3, Zenon DEF u, e
  <2>5. /\ Len(frames') = 1 /\ frames' # << >>
        /\ frames'[1].cur = Stack'.Buffer /\ Below' = 1
    BY <2>1 DEF NewFrame, Below
  <2>6. Texts(Stack)[1] = << >>
    BY <2>1 DEF ScopesOpen
  <2> QED
    BY <2>1, <2>4, <2>5, <2>6 DEF ScopesOpen
<1>9. CASE PreciseFound \/ LookupScopesFails \/ EndVague
  <2>1. frames = << >> /\ frames' = << >> /\ phase' = "idle"
    BY <1>9 DEF PreciseFound, LookupScopesFails, EndVague
  <2> QED
    BY <2>1 DEF ScopesOpen
<1>10. CASE LookupScopes
  <2>1. UNCHANGED << frames, Stack, phase >>
    BY <1>10 DEF LookupScopes
  <2> QED
    BY <2>1 DEF ScopesOpen, Below
<1> QED
  BY <1>2, <1>3, <1>4, <1>5, <1>6, <1>7, <1>8, <1>9, <1>10 DEF Work

LEMMA QueryOpens ==
  ASSUME Query
  PROVE  ScopesOpen'
<1>1. /\ phase' = "precise" /\ frames' = << NewFrame(1, << >>) >>
      /\ Texts(Stack') = << << >> >>
  BY NewCoherent DEF Query
<1>2. /\ Len(frames') = 1 /\ frames' # << >> /\ frames'[1].cur = << >>
      /\ Len(Texts(Stack')) = 1 /\ Texts(Stack')[1] = << >>
      /\ Below' = 0
  BY <1>1 DEF NewFrame, Below
<1> QED
  BY <1>1, <1>2 DEF ScopesOpen

LEMMA ScopesStep ==
  ASSUME TypeOK, StackTopIsLength, Sheltered => ScopesOpen, [Next]_vars,
         Sheltered'
  PROVE  ScopesOpen'
<1>1. CASE Query
  BY <1>1, QueryOpens
<1>2. CASE Work
  BY <1>2, FailureIsKept, WorkOpen DEF Sheltered
<1>3. CASE UNCHANGED vars
  <2>1. UNCHANGED << frames, Stack, phase, failed >>
    BY <1>3 DEF vars
  <2> QED
    BY <2>1 DEF ScopesOpen, Below, Sheltered
<1> QED
  BY <1>1, <1>2, <1>3 DEF Next

(* The loop that runs searches where its activation started.              *)
LEMMA OpenDescends ==
  ASSUME TypeOK, StackTopIsLength, ScopesOpen, frames # << >>
  PROVE  Stack.Buffer = Top.cur
<1> DEFINE n == Len(frames)
           k == Len(Stack.Offsets)
<1>1. /\ n \in Nat /\ n > 0 /\ k = n + Below /\ k \in Nat /\ k > 0
      /\ Top = frames[n]
  BY OpenBounds, TopTyped
<1>2. Top.cur = Texts(Stack)[k]
  BY <1>1 DEF ScopesOpen
<1>3. Stack.Offsets # << >> /\ Stack.Offsets[k] = Len(Stack.Buffer)
  BY <1>1 DEF StackTopIsLength, Coherent, Last
<1>4. Texts(Stack)[k] = SubSeq(Stack.Buffer, 1, Len(Stack.Buffer))
  BY <1>1, <1>3, TextsByIndex DEF TypeOK, StackTopIsLength
<1> QED
  BY <1>2, <1>4, WholeText DEF TypeOK, StackRec

(* When Query looks from every scope, it starts each time from the empty   *)
(* text.                                                                   *)
LEMMA OpenBase ==
  ASSUME TypeOK, StackTopIsLength, ScopesOpen, phase = "vague", frames = << >>
  PROVE  Stack.Buffer = << >>
<1>1. Len(Stack.Offsets) = 1 /\ Texts(Stack)[1] = << >>
  BY OpenBounds DEF ScopesOpen
<1>2. Stack.Offsets # << >> /\ Stack.Offsets[1] = Len(Stack.Buffer)
  BY <1>1 DEF StackTopIsLength, Coherent, Last
<1>3. Texts(Stack)[1] = SubSeq(Stack.Buffer, 1, Len(Stack.Buffer))
  BY <1>1, <1>2, TextsByIndex DEF TypeOK, StackTopIsLength
<1> QED
  BY <1>1, <1>3, WholeText DEF TypeOK, StackRec

-----------------------------------------------------------------------------
(* The answer.  The scope of each activation is the whole name of a row    *)
(* that its caller treated, and what it has found are rows of that scope.  *)
Reached(scope, t, m) ==
  \E r \in Rows : /\ r.name = scope /\ IsNamed(r.member, t)
                  /\ r.member = m.member /\ r.ns = m.ns

LedTo(scope, t, whole) ==
  \E r \in Rows : r.name = scope /\ IsNamed(r.member, t) /\ Whole(r) = whole

Level(d) ==
  /\ frames[d].idx = d /\ d <= Len(Key)
  /\ \A m \in frames[d].found : Reached(frames[d].cur, Key[d], m)
  /\ d > 1 => LedTo(frames[d - 1].cur, Key[d - 1], frames[d].cur)

From == IF phase = "vague" THEN Starts ELSE {<< >>}

Linked ==
  /\ phase # "idle" => Key # << >>
  /\ \A d \in 1..Len(frames) : Level(d)
  /\ frames # << >> => frames[1].cur \in From
  /\ phase = "vague" => Names \subseteq Starts
  /\ phase = "precise" => Names = {} /\ stmts = 0

(* What is asked and where, does not change during a query.                *)
LEMMA SameQuestion ==
  ASSUME UNCHANGED << db, Key >>
  PROVE  /\ Rows' = Rows /\ Starts' = Starts
         /\ \A n : Leads(n)' = Leads(n) /\ Loose(n)' = Loose(n) /\ Exact(n)' = Exact(n)
         /\ \A scope, t, m : Reached(scope, t, m)' = Reached(scope, t, m)
         /\ \A scope, t, w : LedTo(scope, t, w)' = LedTo(scope, t, w)
BY DEF Rows, Starts, Leads, Matches, Loose, Exact, Reached, LedTo

LEMMA LevelKept ==
  ASSUME UNCHANGED << db, Key >>, NEW d \in Nat, Level(d),
         frames'[d].idx = frames[d].idx, frames'[d].cur = frames[d].cur,
         frames'[d].found \subseteq frames[d].found,
         d > 1 => frames'[d - 1].cur = frames[d - 1].cur
  PROVE  Level(d)'
<1>1. Rows' = Rows /\ UNCHANGED Key
  BY SameQuestion
<1>2. (frames[d].idx = d /\ d <= Len(Key))'
  BY <1>1 DEF Level
<1>3. (\A m \in frames[d].found : Reached(frames[d].cur, Key[d], m))'
  <2>1. \A m \in frames'[d].found : Reached(frames[d].cur, Key[d], m)
    BY DEF Level
  <2> QED
    BY <1>1, <2>1 DEF Reached, IsNamed
<1>4. (d > 1 => LedTo(frames[d - 1].cur, Key[d - 1], frames[d].cur))'
  BY <1>1 DEF Level, LedTo, IsNamed, Whole
<1> QED
  BY <1>2, <1>3, <1>4 DEF Level

LEMMA LevelsKept ==
  ASSUME TypeOK, UNCHANGED << db, Key >>, \A d \in 1..Len(frames) : Level(d),
         NEW k \in Nat, k <= Len(frames),
         \A d \in 1..k : /\ frames'[d].idx = frames[d].idx
                         /\ frames'[d].cur = frames[d].cur
                         /\ frames'[d].found \subseteq frames[d].found
  PROVE  \A d \in 1..k : Level(d)'
<1> SUFFICES ASSUME NEW d \in 1..k PROVE Level(d)'
  OBVIOUS
<1>1. d \in Nat /\ d \in 1..Len(frames) /\ (d > 1 => d - 1 \in 1..k)
  BY DEF TypeOK
<1> QED
  BY <1>1, LevelKept

(* The member that is treated is no longer among those found.              *)
LEMMA TreatedFound ==
  ASSUME TypeOK, frames # << >>, NEW m
  PROVE  \A d \in 1..Len(frames) :
           /\ Treated(m)[d].idx = frames[d].idx
           /\ Treated(m)[d].cur = frames[d].cur
           /\ Treated(m)[d].stmts = frames[d].stmts
           /\ Treated(m)[d].found =
                (IF d = Len(frames) THEN Top.found \ {m} ELSE frames[d].found)
<1>1. /\ frames \in Seq(Frame) /\ Len(frames) \in Nat \ {0}
      /\ Top = frames[Len(frames)] /\ Top \in Frame
  BY TopTyped DEF TypeOK
<1> DEFINE f == [Top EXCEPT !.found = @ \ {m}]
<1>2. /\ f.cur = Top.cur /\ f.idx = Top.idx /\ f.stmts = Top.stmts
      /\ f.found = Top.found \ {m}
  BY <1>1 DEF Frame
<1>3. Treated(m) = [frames EXCEPT ![Len(frames)] = f]
  BY <1>1 DEF Treated
<1> HIDE DEF f
<1>4. \A d \in 1..Len(frames) :
        Treated(m)[d] = IF d = Len(frames) THEN f ELSE frames[d]
  BY <1>1, <1>3
<1> QED
  BY <1>1, <1>2, <1>4

LEMMA LookupFound ==
  ASSUME TypeOK, Lookup
  PROVE  /\ Len(frames') = Len(frames)
         /\ \A d \in 1..Len(frames) :
              frames'[d].idx = frames[d].idx /\ frames'[d].cur = frames[d].cur
         /\ \A d \in 1..(Len(frames) - 1) : frames'[d] = frames[d]
         /\ frames'[Len(frames)].stmts = Top.stmts + 1
         /\ LET rows == SelectMembers(Top.stmts + 1, Stack.Buffer, Key[Top.idx])
            IN  /\ frames'[Len(frames)].found \in Read(rows)
                /\ failed' = (failed \/ frames'[Len(frames)].found # rows)
<1>1. /\ frames \in Seq(Frame) /\ Len(frames) \in Nat \ {0}
      /\ Top = frames[Len(frames)] /\ Top \in Frame
  BY TopTyped DEF TypeOK, Lookup
<1> DEFINE n == Top.stmts + 1
           rows == SelectMembers(n, Stack.Buffer, Key[Top.idx])
<1>2. PICK seen \in Read(rows) :
        /\ frames' = [frames EXCEPT ![Len(frames)].stmts = n,
                                    ![Len(frames)].found = seen]
        /\ failed' = (failed \/ seen # rows)
  BY DEF Lookup
<1> HIDE DEF n, rows
<1> DEFINE f == [Top EXCEPT !.stmts = n, !.found = seen]
<1>4. f.cur = Top.cur /\ f.idx = Top.idx /\ f.stmts = n /\ f.found = seen
  BY <1>1 DEF Frame
<1>5. frames' = [frames EXCEPT ![Len(frames)] = f]
  BY <1>1, <1>2
<1> HIDE DEF f
<1>6. /\ Len(frames') = Len(frames)
      /\ \A d \in 1..(Len(frames) - 1) : frames'[d] = frames[d]
      /\ frames'[Len(frames)] = f
  BY <1>1, <1>5
<1>7. \A d \in 1..Len(frames) :
        frames'[d].idx = frames[d].idx /\ frames'[d].cur = frames[d].cur
  BY <1>1, <1>4, <1>6
<1> QED
  BY <1>2, <1>4, <1>6, <1>7 DEF n, rows

(* The members that a statement returns are rows of the scope.             *)
LEMMA MembersReached ==
  ASSUME NEW n, NEW scope, NEW t, NEW seen \in Read(SelectMembers(n, scope, t)),
         NEW m \in seen
  PROVE  Reached(scope, t, m)
<1>1. m \in SelectMembers(n, scope, t)
  BY DEF Read
<1>2. PICK r \in Table(n) : /\ r.name = scope /\ IsNamed(r.member, t)
                            /\ m = [member |-> r.member, ns |-> r.ns]
  BY <1>1 DEF SelectMembers
<1>3. r \in Rows
  BY DEF Rows, Table
<1> QED
  BY <1>2, <1>3 DEF Reached

LEMMA ScopesStart ==
  ASSUME NEW n, NEW seen \in Read(SelectScopes(n, Key[1]))
  PROVE  seen \subseteq Starts
BY DEF Read, SelectScopes, Table, Starts, Rows

LEMMA TreatedWithin ==
  ASSUME TypeOK, frames # << >>, NEW m
  PROVE  \A d \in 1..Len(frames) :
           /\ Treated(m)[d].idx = frames[d].idx
           /\ Treated(m)[d].cur = frames[d].cur
           /\ Treated(m)[d].found \subseteq frames[d].found
<1>1. Top = frames[Len(frames)]
  BY TopTyped
<1> TAKE d \in 1..Len(frames)
<1>2. CASE d = Len(frames)
  BY <1>1, <1>2, TreatedFound
<1>3. CASE d # Len(frames)
  BY <1>3, TreatedFound
<1> QED
  BY <1>2, <1>3

(* Between queries nobody searches.                                        *)
LEMMA LinkedQuery ==
  ASSUME TypeOK, Query
  PROVE  Linked'
<1>1. /\ phase' = "precise" /\ Key' \in Queries /\ frames' = << NewFrame(1, << >>) >>
      /\ Names' = {} /\ stmts' = 0
  BY DEF Query
<1>2. Key' # << >> /\ 1 <= Len(Key') /\ Key' \in Seq(Token)
  BY <1>1, QueryAssumption
<1>3. /\ Len(frames') = 1 /\ frames'[1].idx = 1 /\ frames'[1].cur = << >>
      /\ frames'[1].found = {}
  BY <1>1 DEF NewFrame
<1>4. \A d \in 1..1 : Level(d)'
  BY <1>2, <1>3 DEF Level
<1> QED
  BY <1>1, <1>2, <1>3, <1>4 DEF Linked, From

(* A step within the activations there are.                                *)
LEMMA LinkedWithin ==
  ASSUME TypeOK, ScopesOpen, Linked, UNCHANGED << db, Key, phase, Names, stmts >>,
         frames # << >>, NEW k \in Nat, k <= Len(frames), Len(frames') = k,
         \A d \in 1..k : /\ frames'[d].idx = frames[d].idx
                         /\ frames'[d].cur = frames[d].cur
                         /\ frames'[d].found \subseteq frames[d].found,
         frames' # << >> => k > 0
  PROVE  Linked'
<1>1. \A d \in 1..k : Level(d)'
  BY LevelsKept DEF Linked
<1>2. frames' # << >> => frames'[1].cur = frames[1].cur
  OBVIOUS
<1>3. From' = From /\ Starts' = Starts
  BY SameQuestion DEF From
<1> QED
  BY <1>1, <1>2, <1>3 DEF Linked

LEMMA LinkedWork ==
  ASSUME TypeOK, StackTopIsLength, ScopesOpen, Linked, Work
  PROVE  Linked'
<1>0. /\ frames \in Seq(Frame) /\ Len(frames) \in Nat
      /\ frames # << >> => /\ Len(frames) > 0 /\ Top = frames[Len(frames)]
                           /\ Level(Len(frames)) /\ Top.idx = Len(frames)
                           /\ phase # "idle" /\ Stack.Buffer = Top.cur
  <2>1. frames # << >> => Len(frames) \in 1..Len(frames)
    BY DEF TypeOK
  <2> QED
    BY <2>1, TopTyped, OpenBounds, OpenDescends DEF TypeOK, Linked, Level
<1>1. CASE Lookup
  <2>0. PICK n \in Nat : n = Len(frames)
    BY <1>0
  <2>1. /\ frames # << >> /\ n > 0 /\ Top.found = {} /\ UNCHANGED << db, Key, phase, Names, stmts >>
    BY <1>0, <1>1, <2>0 DEF Lookup
  <2>2. /\ Len(frames') = n /\ frames'[n].idx = n /\ frames'[n].cur = frames[n].cur
        /\ \A d \in 1..n : frames'[d].idx = frames[d].idx /\ frames'[d].cur = frames[d].cur
        /\ \A d \in 1..(n - 1) : frames'[d] = frames[d]
        /\ \E t : frames'[n].found \in Read(SelectMembers(t, Top.cur, Key[n]))
    BY <1>0, <1>1, <2>0, <2>1, LookupFound
  <2>3. \A m \in frames'[n].found : Reached(frames[n].cur, Key[n], m)
    BY <1>0, <2>0, <2>1, <2>2, MembersReached
  <2>4. \A d \in 1..(n - 1) : Level(d)'
    <3>1. n - 1 \in Nat /\ n - 1 <= Len(frames)
      BY <2>0, <2>1
    <3>2. \A d \in 1..(n - 1) : /\ frames'[d].idx = frames[d].idx
                                /\ frames'[d].cur = frames[d].cur
                                /\ frames'[d].found \subseteq frames[d].found
      BY <2>2
    <3> QED
      BY <2>1, <3>1, <3>2, LevelsKept DEF Linked
  <2>5. Level(n)'
    <3>1. Rows' = Rows /\ UNCHANGED Key
      BY <2>1, SameQuestion
    <3>2. (\A m \in frames[n].found : Reached(frames[n].cur, Key[n], m))'
      BY <2>2, <2>3, <3>1 DEF Reached, IsNamed
    <3>3. n > 1 => n - 1 \in 1..n
      BY <2>0
    <3>4. (n > 1 => LedTo(frames[n - 1].cur, Key[n - 1], frames[n].cur))'
      BY <1>0, <2>0, <2>1, <2>2, <3>1, <3>3 DEF Level, LedTo, IsNamed, Whole
    <3> QED
      BY <1>0, <2>0, <2>1, <2>2, <3>1, <3>2, <3>4 DEF Level
  <2>6. \A d \in 1..n : Level(d)'
    <3>1. \A d \in 1..n : d \in 1..(n - 1) \/ d = n
      BY <2>0
    <3> QED
      BY <2>4, <2>5, <3>1
  <2>7. From' = From /\ Starts' = Starts /\ frames'[1].cur = frames[1].cur
    BY <1>0, <2>0, <2>1, <2>2, SameQuestion DEF From
  <2> QED
    BY <2>0, <2>1, <2>2, <2>6, <2>7 DEF Linked
<1>2. CASE LookupFails \/ Descended
  <2> DEFINE k == Len(frames) - 1
  <2>1. /\ frames # << >> /\ frames' = SubSeq(frames, 1, k)
        /\ UNCHANGED << db, Key, phase, Names, stmts >>
    BY <1>2 DEF LookupFails, Descended, Return, Front
  <2>2. k \in Nat /\ k <= Len(frames)
    BY <1>0, <2>1
  <2>3. /\ Len(frames') = k /\ \A d \in 1..k : frames'[d] = frames[d]
        /\ frames' # << >> => k > 0
    <3>1. Len(frames') = k /\ \A d \in 1..k : frames'[d] = frames[d]
      BY <1>0, <2>1, <2>2, FrontTyped, Zenon
    <3>2. frames' \in Seq(Frame)
      BY <1>0, <2>1, <2>2, FrontTyped, Zenon
    <3> HIDE DEF k
    <3> QED
      BY <2>2, <3>1, <3>2
  <2> HIDE DEF k
  <2> QED
    BY <2>1, <2>2, <2>3, LinkedWithin
<1>3. CASE Enter
  <2>0. PICK n \in Nat : n = Len(frames)
    BY <1>0
  <2>1. PICK m \in Top.found :
          /\ Stack' = push(Stack, m.member)
          /\ frames' = Append(Treated(m), NewFrame(Top.idx + 1, Stack'.Buffer))
    BY <1>3 DEF Enter
  <2>2. /\ frames # << >> /\ ~LastToken /\ UNCHANGED << db, Key, phase, Names, stmts >>
    BY <1>3 DEF Enter
  <2>3. /\ Treated(m) \in Seq(Frame) /\ Len(Treated(m)) = n
        /\ \A d \in 1..n : /\ Treated(m)[d].idx = frames[d].idx
                           /\ Treated(m)[d].cur = frames[d].cur
                           /\ Treated(m)[d].found \subseteq frames[d].found
    <3>1. /\ Treated(m) \in Seq(Frame) /\ Len(Treated(m)) = Len(frames)
          /\ \A d \in 1..Len(frames) : /\ Treated(m)[d].idx = frames[d].idx
                                      /\ Treated(m)[d].cur = frames[d].cur
                                      /\ Treated(m)[d].found \subseteq frames[d].found
      BY <2>2, TreatedTyped, TreatedWithin
    <3> QED
      BY <2>0, <3>1
  <2> DEFINE f == NewFrame(n + 1, Stack'.Buffer)
  <2>4. /\ f.idx = n + 1 /\ f.found = {} /\ f.cur = Top.cur \o m.member
    BY <1>0, <2>0, <2>1, <2>2 DEF NewFrame, push
  <2>5. /\ Len(frames') = n + 1 /\ frames'[n + 1] = f /\ frames' # << >>
        /\ \A d \in 1..n : frames'[d] = Treated(m)[d]
    <3>1. frames' = Append(Treated(m), f)
      BY <1>0, <2>0, <2>1, <2>2
    <3> HIDE DEF f
    <3> QED
      BY <2>0, <2>3, <3>1
  <2> HIDE DEF f
  <2>6. \A d \in 1..n : Level(d)'
    <3>1. n \in Nat /\ n <= Len(frames)
      BY <2>0
    <3>2. \A d \in 1..n : /\ frames'[d].idx = frames[d].idx
                          /\ frames'[d].cur = frames[d].cur
                          /\ frames'[d].found \subseteq frames[d].found
      BY <2>3, <2>5
    <3> QED
      BY <2>2, <3>1, <3>2, LevelsKept DEF Linked
  <2>7. Level(n + 1)'
    <3>1. Rows' = Rows /\ UNCHANGED Key
      BY <2>2, SameQuestion
    <3>2. n + 1 <= Len(Key)
      BY <1>0, <2>0, <2>2 DEF LastToken, Level, TypeOK
    <3>3. LedTo(Top.cur, Key[n], Top.cur \o m.member)
      BY <1>0, <2>0, <2>1, <2>2 DEF Level, Reached, LedTo, Whole
    <3>4. frames'[n].cur = Top.cur /\ frames'[n + 1].cur = Top.cur \o m.member
      <4>1. n \in 1..n /\ Top = frames[n]
        BY <1>0, <2>0, <2>2
      <4>2. frames'[n].cur = frames[n].cur
        BY <2>3, <2>5, <4>1
      <4> QED
        BY <2>4, <2>5, <4>1, <4>2
    <3>5. (n + 1 > 1 => LedTo(frames[n + 1 - 1].cur, Key[n + 1 - 1], frames[n + 1].cur))'
      <4>1. n + 1 - 1 = n
        BY <2>0
      <4> QED
        BY <3>1, <3>3, <3>4, <4>1 DEF LedTo, IsNamed, Whole
    <3> QED
      BY <2>0, <2>4, <2>5, <3>1, <3>2, <3>5 DEF Level
  <2>8. \A d \in 1..(n + 1) : Level(d)'
    <3>1. \A d \in 1..(n + 1) : d \in 1..n \/ d = n + 1
      BY <2>0
    <3> QED
      BY <2>6, <2>7, <3>1
  <2>9. From' = From /\ Starts' = Starts /\ frames'[1].cur = frames[1].cur
    BY <1>0, <2>0, <2>2, <2>3, <2>5, SameQuestion DEF From
  <2> QED
    BY <2>0, <2>2, <2>5, <2>8, <2>9 DEF Linked
<1>4. CASE HitNamespace \/ HitSymbol
  <2>0. PICK k \in Nat : k = Len(frames)
    BY <1>0
  <2>1. PICK m \in Top.found : frames' = Treated(m)
    BY <1>4 DEF HitNamespace, HitSymbol
  <2>2. frames # << >> /\ UNCHANGED << db, Key, phase, Names, stmts >>
    BY <1>4 DEF HitNamespace, HitSymbol
  <2>3. /\ Len(frames') = k /\ k \in Nat /\ k <= Len(frames)
        /\ \A d \in 1..k : /\ frames'[d].idx = frames[d].idx
                           /\ frames'[d].cur = frames[d].cur
                           /\ frames'[d].found \subseteq frames[d].found
    <3>1. /\ Len(frames') = Len(frames)
          /\ \A d \in 1..Len(frames) : /\ frames'[d].idx = frames[d].idx
                                      /\ frames'[d].cur = frames[d].cur
                                      /\ frames'[d].found \subseteq frames[d].found
      BY <2>1, <2>2, TreatedTyped, TreatedWithin
    <3> QED
      BY <2>0, <3>1
  <2>4. k > 0
    BY <1>0, <2>0, <2>2
  <2> QED
    BY <2>2, <2>3, <2>4, LinkedWithin
<1>5. CASE StartVague \/ LookupScopes \/ PreciseFound \/ LookupScopesFails \/ EndVague
  <2>1. frames = << >> /\ frames' = << >> /\ UNCHANGED << db, Key >>
    BY <1>5, <1>0 DEF StartVague, LookupScopes, PreciseFound, LookupScopesFails,
       EndVague, TypeOK
  <2>2. phase' # "idle" => phase # "idle"
    BY <1>5 DEF StartVague, LookupScopes, PreciseFound, LookupScopesFails, EndVague
  <2>3. Starts' = Starts
    BY <2>1, SameQuestion
  <2>4. phase' = "vague" => Names' \subseteq Starts
    <3>1. CASE LookupScopes
      <4>1. PICK seen \in Read(SelectScopes(stmts + 1, Key[1])) : Names' = seen
        BY <3>1 DEF LookupScopes
      <4> QED
        BY <4>1, ScopesStart
    <3>2. CASE StartVague
      BY <3>2 DEF StartVague, Linked
    <3>3. CASE PreciseFound \/ LookupScopesFails \/ EndVague
      BY <3>3 DEF PreciseFound, LookupScopesFails, EndVague
    <3> QED
      BY <1>5, <3>1, <3>2, <3>3
  <2>5. phase' # "precise"
    BY <1>5 DEF StartVague, LookupScopes, PreciseFound, LookupScopesFails, EndVague
  <2> QED
    BY <2>1, <2>2, <2>3, <2>4, <2>5 DEF Linked
<1>6. CASE DescendFrom
  <2>1. PICK name \in Names :
          /\ Names' = Names \ {name} /\ Stack' = push(Stack, name)
          /\ frames' = << NewFrame(1, Stack'.Buffer) >>
    BY <1>6 DEF DescendFrom
  <2>2. /\ frames = << >> /\ phase = "vague" /\ UNCHANGED << db, Key, phase >>
    BY <1>6 DEF DescendFrom
  <2>3. name \in Starts /\ name \in Text
    BY <2>2 DEF Linked, TypeOK
  <2>4. Stack'.Buffer = name
    BY <2>1, <2>2, <2>3, OpenBase DEF push, Text
  <2>5. /\ Len(frames') = 1 /\ frames'[1].idx = 1 /\ frames'[1].cur = name
        /\ frames'[1].found = {}
    BY <2>1, <2>4 DEF NewFrame
  <2>6. Key # << >> /\ Key \in Seq(Token) /\ 1 <= Len(Key)
    BY <2>2 DEF Linked, TypeOK
  <2>7. \A d \in 1..1 : Level(d)'
    BY <2>2, <2>5, <2>6 DEF Level
  <2>8. Starts' = Starts /\ From' = Starts
    BY <2>2, SameQuestion DEF From
  <2> QED
    BY <2>1, <2>2, <2>3, <2>5, <2>6, <2>7, <2>8 DEF Linked
<1> QED
  BY <1>1, <1>2, <1>3, <1>4, <1>5, <1>6 DEF Work

-----------------------------------------------------------------------------
(* What is printed.  Lines(r) is what a matching row can be told by.       *)
Lines(r) ==
  IF r.ns THEN {NamespaceLine}
  ELSE {s.at : s \in SymbolsNamed(Whole(r)) \cup SymbolsLike(Whole(r))}

Told(r) ==
  /\ r.ns => NamespaceLine \in Output
  /\ ~r.ns => {s.at : s \in SymbolsNamed(Whole(r))} \subseteq Output
  /\ Lines(r) # {} => NumResults > 0

Counted == Output = {} <=> NumResults = 0

LEMMA LooseLines ==
  ASSUME NEW n
  PROVE  /\ \A r \in Matches(n) : Lines(r) \subseteq Loose(n)
         /\ \A l \in Loose(n) : \E r \in Matches(n) : l \in Lines(r)
BY DEF Loose, Exact, Lines, SymbolsNamed, SymbolsLike

LEMMA ExactTold ==
  ASSUME NEW n, \A r \in Matches(n) : Told(r)
  PROVE  Exact(n) \subseteq Output
BY DEF Exact, Told, SymbolsNamed

(* The scopes that lead to the last token make a chain of rows.            *)
LEMMA FoundMatches ==
  ASSUME TypeOK, Linked, frames # << >>, LastToken, NEW m \in Top.found
  PROVE  \E r \in Matches(frames[1].cur) :
           r.name = Top.cur /\ r.member = m.member /\ r.ns = m.ns
<1>0. PICK n \in Nat \ {0} : n = Len(frames) /\ Top = frames[n]
  BY TopTyped
<1>1. /\ \A d \in 1..n : Level(d)
      /\ n = Len(Key) /\ DOMAIN Key = 1..n /\ n \in 1..n
  BY <1>0 DEF Linked, Level, LastToken, TypeOK
<1> DEFINE Last1 == CHOOSE r \in Rows :
              /\ r.name = frames[n].cur /\ IsNamed(r.member, Key[n])
              /\ r.member = m.member /\ r.ns = m.ns
           Step(i) == CHOOSE r \in Rows :
              /\ r.name = frames[i].cur /\ IsNamed(r.member, Key[i])
              /\ Whole(r) = frames[i + 1].cur
           p == [i \in DOMAIN Key |-> IF i = n THEN Last1 ELSE Step(i)]
<1>2. /\ Last1 \in Rows /\ Last1.name = frames[n].cur
      /\ IsNamed(Last1.member, Key[n]) /\ Last1.member = m.member /\ Last1.ns = m.ns
  <2>1. Reached(frames[n].cur, Key[n], m)
    BY <1>0, <1>1 DEF Level
  <2> QED
    BY <2>1 DEF Reached
<1>3. ASSUME NEW i \in 1..n, i # n
      PROVE  /\ Step(i) \in Rows /\ Step(i).name = frames[i].cur
             /\ IsNamed(Step(i).member, Key[i]) /\ Whole(Step(i)) = frames[i + 1].cur
  <2>1. i + 1 \in 1..n /\ i + 1 > 1 /\ i + 1 - 1 = i
    BY <1>0, <1>3
  <2>2. LedTo(frames[i].cur, Key[i], frames[i + 1].cur)
    BY <1>1, <2>1 DEF Level
  <2> QED
    BY <2>2 DEF LedTo
<1> HIDE DEF Last1, Step
<1>4. /\ p \in [DOMAIN Key -> Rows]
      /\ \A i \in DOMAIN Key : p[i].name = frames[i].cur /\ IsNamed(p[i].member, Key[i])
      /\ \A i \in DOMAIN Key : i # n => Whole(p[i]) = frames[i + 1].cur
      /\ p[n].name = frames[n].cur /\ p[n].member = m.member /\ p[n].ns = m.ns
  BY <1>1, <1>2, <1>3
<1> HIDE DEF p
<1>5. \A i \in DOMAIN Key : i > 1 => p[i].name = Whole(p[i - 1])
  <2> TAKE i \in DOMAIN Key
  <2> HAVE i > 1
  <2>1. i - 1 \in DOMAIN Key /\ i - 1 # n /\ i - 1 + 1 = i
    BY <1>0, <1>1
  <2>2. Whole(p[i - 1]) = frames[i].cur
    BY <1>4, <2>1
  <2> QED
    BY <1>4, <2>2
<1>6. p \in Leads(frames[1].cur)
  <2>1. 1 \in DOMAIN Key
    BY <1>0, <1>1
  <2> QED
    BY <1>4, <1>5, <2>1 DEF Leads
<1>7. p[Len(Key)] \in Matches(frames[1].cur)
  BY <1>6 DEF Matches
<1> QED
  BY <1>0, <1>1, <1>4, <1>7

(* Counting the rows that a loop has printed.                              *)
LEMMA EmitCounts ==
  ASSUME TypeOK, NEW seen \in SUBSET db.symbol, Emit(seen)
  PROVE  /\ NumResults' \in Nat /\ NumResults' >= NumResults
         /\ Output' = Output \cup {s.at : s \in seen}
         /\ seen # {} => NumResults' > 0 /\ Output' # {}
         /\ Counted => Counted'
<1>1. IsFiniteSet(seen) /\ Cardinality(seen) \in Nat
  BY FS_Subset, FS_CardinalityType DEF TypeOK
<1>2. Cardinality(seen) = 0 <=> seen = {}
  BY <1>1, FS_EmptySet
<1>3. /\ NumResults \in Nat /\ NumResults' = NumResults + Cardinality(seen)
      /\ Output' = Output \cup {s.at : s \in seen}
  BY DEF Emit, TypeOK
<1>4. seen = {} => NumResults' = NumResults /\ Output' = Output
  BY <1>1, <1>2, <1>3
<1>5. seen # {} => NumResults' > 0 /\ Output' # {}
  <2>1. seen # {} => NumResults' > 0
    BY <1>1, <1>2, <1>3
  <2>2. seen # {} => Output' # {}
    BY <1>3
  <2> QED
    BY <2>1, <2>2
<1>6. Counted => Counted'
  <2>1. seen = {} => (Counted => Counted')
    BY <1>4 DEF Counted
  <2>2. seen # {} => Counted'
    BY <1>5 DEF Counted
  <2> QED
    BY <2>1, <2>2
<1> QED
  BY <1>1, <1>3, <1>5, <1>6

(* Yield prints symbols that the name of the row stands for, and unless a  *)
(* call fails, all that are to be printed for it.                          *)
Telling(r) ==
  /\ Output \subseteq Output' /\ Output' \subseteq Output \cup Lines(r)
  /\ NumResults' >= NumResults
  /\ Counted => Counted'
  /\ ~failed' => Told(r)'

LEMMA YieldTells ==
  ASSUME TypeOK, UNCHANGED db, NEW s, NEW r, ~r.ns, Whole(r) = s.Buffer,
         \/ YieldExact(s) \/ YieldExactFails(s)
         \/ YieldPrefix(s) \/ YieldPrefixFails(s)
  PROVE  Telling(r)
<1> DEFINE named == SymbolsNamed(s.Buffer)
           like == SymbolsLike(s.Buffer)
<1>1. /\ Lines(r) = {e.at : e \in named \cup like}
      /\ named \subseteq db.symbol /\ like \subseteq db.symbol
      /\ Lines(r)' = Lines(r) /\ SymbolsNamed(Whole(r))' = named
  BY DEF Lines, SymbolsNamed, SymbolsLike, StartsLike, Whole
<1>2. NumResults \in Nat
  BY DEF TypeOK
<1> HIDE DEF named, like
<1>3. CASE YieldExact(s)
  <2>1. PICK seen \in Read(named) :
          /\ Cardinality(seen) + NumResults > 0
          /\ Emit(seen) /\ failed' = (failed \/ seen # named)
    BY <1>3 DEF YieldExact, named
  <2>2. seen \subseteq named
    BY <2>1 DEF Read
  <2>3. /\ NumResults' >= NumResults /\ Output' = Output \cup {e.at : e \in seen}
        /\ Counted => Counted'
    BY <1>1, <2>1, <2>2, EmitCounts
  <2>4. NumResults' > 0
    <3>1. Cardinality(seen) \in Nat
      BY <1>1, <2>2, FS_Subset, FS_CardinalityType DEF TypeOK
    <3> QED
      BY <1>2, <2>1, <3>1 DEF Emit
  <2>5. ~failed' => Told(r)'
    BY <1>1, <2>1, <2>3, <2>4 DEF Told
  <2> QED
    BY <1>1, <2>2, <2>3, <2>5 DEF Telling
<1>4. CASE YieldPrefix(s)
  <2>1. PICK seen \in Read(like) :
          Emit(seen) /\ failed' = (failed \/ named # {} \/ seen # like)
    BY <1>4 DEF YieldPrefix, named, like
  <2>2. seen \subseteq like
    BY <2>1 DEF Read
  <2>3. /\ NumResults' >= NumResults /\ Output' = Output \cup {e.at : e \in seen}
        /\ Counted => Counted'
        /\ seen # {} => NumResults' > 0
    BY <1>1, <2>1, <2>2, EmitCounts
  <2>4. ~failed' => Told(r)'
    BY <1>1, <2>1, <2>3 DEF Told
  <2> QED
    BY <1>1, <2>2, <2>3, <2>4 DEF Telling
<1>5. CASE YieldExactFails(s) \/ YieldPrefixFails(s)
  <2>1. failed' = TRUE /\ UNCHANGED << NumResults, Output >>
    BY <1>5 DEF YieldExactFails, YieldPrefixFails
  <2> QED
    BY <1>2, <2>1 DEF Telling, Counted
<1> QED
  BY <1>3, <1>4, <1>5

(* The treatment of a member that is the last of the query.                *)
LEMMA HitTells ==
  ASSUME TypeOK, StackTopIsLength, ScopesOpen, Linked, HitNamespace \/ HitSymbol
  PROVE  \E m \in Top.found, r \in Matches(frames[1].cur) :
           /\ r.name = Top.cur /\ r.member = m.member /\ r.ns = m.ns
           /\ frames' = Treated(m)
           /\ Telling(r)
<1>1. frames # << >> /\ LastToken /\ UNCHANGED db
  BY DEF HitNamespace, HitSymbol
<1>2. Stack.Buffer = Top.cur
  BY <1>1, OpenDescends
<1>3. CASE HitNamespace
  <2>1. PICK m \in Top.found : m.ns /\ frames' = Treated(m)
    BY <1>3 DEF HitNamespace
  <2>2. PICK r \in Matches(frames[1].cur) :
          r.name = Top.cur /\ r.member = m.member /\ r.ns = m.ns
    BY <1>1, FoundMatches
  <2>3. Output' = Output \cup {NamespaceLine} /\ NumResults' = NumResults + 1
    BY <1>3 DEF HitNamespace
  <2>4. NumResults \in Nat /\ NumResults' > 0 /\ NumResults' >= NumResults
    BY <2>3 DEF TypeOK
  <2>5. Lines(r) = {NamespaceLine}
    BY <2>1, <2>2 DEF Lines
  <2>6. Counted'
    BY <2>3, <2>4 DEF Counted
  <2>7. Told(r)'
    BY <2>1, <2>2, <2>3, <2>4 DEF Told
  <2> QED
    BY <2>1, <2>2, <2>3, <2>4, <2>5, <2>6, <2>7 DEF Telling
<1>4. CASE HitSymbol
  <2>1. PICK m \in Top.found :
          LET s == push(Stack, m.member) IN
          /\ ~m.ns /\ frames' = Treated(m)
          /\ \/ YieldExact(s) \/ YieldExactFails(s)
             \/ YieldPrefix(s) \/ YieldPrefixFails(s)
    BY <1>4 DEF HitSymbol
  <2>2. PICK r \in Matches(frames[1].cur) :
          r.name = Top.cur /\ r.member = m.member /\ r.ns = m.ns
    BY <1>1, FoundMatches
  <2>3. Whole(r) = push(Stack, m.member).Buffer
    BY <1>2, <2>2 DEF Whole, push
  <2>4. Telling(r)
    BY <1>1, <2>1, <2>2, <2>3, YieldTells
  <2> QED
    BY <2>1, <2>2, <2>4
<1> QED
  BY <1>3, <1>4

-----------------------------------------------------------------------------
(* While nothing has failed, every chain of rows that the query leads to   *)
(* has been told, or an activation has yet to treat one of its rows, or    *)
(* Query has yet to look from the scope it begins in.                      *)
OwedAt(p, d) ==
  /\ frames[d].cur = p[d].name
  /\ \/ [member |-> p[d].member, ns |-> p[d].ns] \in frames[d].found
     \/ \E k \in 1..2 : k > frames[d].stmts /\ p[d] \in Table(k)

Owed(p) == \E d \in 1..Len(frames) : OwedAt(p, d)

Awaited(n) ==
  /\ phase = "vague"
  /\ n \in Names \/ \E k \in 1..2 : k > stmts /\ n \in SelectScopes(k, Key[1])

Asked == UNION {Loose(n) : n \in From}

Covered ==
  phase # "idle" =>
    /\ \A n \in From : \A p \in Leads(n) :
         Told(p[Len(Key)]) \/ Owed(p) \/ Awaited(n)
    /\ Output \subseteq Asked
    /\ Counted
    /\ phase = "vague" => Loose(<< >>) = {}

(* What has been told stays told.                                          *)
LEMMA ToldKept ==
  ASSUME TypeOK, UNCHANGED db, Output \subseteq Output', NumResults' \in Nat,
         NumResults' >= NumResults, NEW r, Told(r)
  PROVE  Told(r)'
<1>1. Lines(r)' = Lines(r) /\ SymbolsNamed(Whole(r))' = SymbolsNamed(Whole(r))
  BY DEF Lines, SymbolsNamed, SymbolsLike, StartsLike, Whole
<1>2. NumResults > 0 => NumResults' > 0
  BY DEF TypeOK
<1> QED
  BY <1>1, <1>2 DEF Told

(* A step of the activations has to settle or to keep what they owe.       *)
LEMMA CoveredStep ==
  ASSUME TypeOK, TypeOK', Covered, UNCHANGED << db, Key, phase, Names, stmts >>,
         phase # "idle", Output \subseteq Output', NumResults' >= NumResults,
         Output' \subseteq Output \cup Asked, Counted => Counted',
         \A n \in From : \A p \in Leads(n) :
           Owed(p) => Told(p[Len(Key)])' \/ Owed(p)'
  PROVE  Covered'
<1>1. /\ From' = From /\ Asked' = Asked /\ Loose(<< >>)' = Loose(<< >>)
      /\ \A n : Leads(n)' = Leads(n)
  BY SameQuestion DEF From, Asked
<1>2. \A n : Awaited(n) => Awaited(n)'
  BY DEF Awaited, SelectScopes, Table, IsNamed
<1>3. \A r : Told(r) => Told(r)'
  BY ToldKept DEF TypeOK
<1>4. \A n \in From : \A p \in Leads(n) :
        Told(p[Len(Key)])' \/ Owed(p)' \/ Awaited(n)'
  BY <1>2, <1>3 DEF Covered
<1>5. Output' \subseteq Asked /\ Counted' /\ (phase = "vague" => Loose(<< >>) = {})
  BY DEF Covered
<1> QED
  BY <1>1, <1>4, <1>5 DEF Covered

LEMMA CoveredLookup ==
  ASSUME TypeOK, TypeOK', StackTopIsLength, ScopesOpen, Linked, Covered, Lookup,
         ~failed'
  PROVE  Covered'
<1>0. PICK n \in Nat \ {0} : n = Len(frames) /\ Top = frames[n]
  BY TopTyped DEF Lookup
<1>1. /\ UNCHANGED << db, Key, phase, Names, stmts, Output, NumResults >>
      /\ frames # << >> /\ Top.found = {} /\ phase # "idle"
  BY OpenBounds DEF Lookup
<1>2. /\ Stack.Buffer = Top.cur /\ Level(n) /\ Top.idx = n
      /\ Top.stmts \in {0, 1} /\ n \in 1..Len(Key) /\ DOMAIN Key = 1..Len(Key)
  <2>1. Stack.Buffer = Top.cur
    BY <1>1, OpenDescends
  <2>2. Level(n) /\ Top.idx = n /\ n \in 1..Len(Key) /\ DOMAIN Key = 1..Len(Key)
    BY <1>0 DEF Linked, Level, TypeOK
  <2>3. Top.stmts \in {0, 1}
    BY <1>1, TopTyped DEF Lookup, Frame
  <2> QED
    BY <2>1, <2>2, <2>3
<1>3. /\ Len(frames') = n
      /\ \A d \in 1..(n - 1) : frames'[d] = frames[d]
      /\ frames'[n].cur = Top.cur /\ frames'[n].stmts = Top.stmts + 1
      /\ frames'[n].found = SelectMembers(Top.stmts + 1, Top.cur, Key[n])
  <2>1. /\ Len(frames') = Len(frames)
        /\ \A d \in 1..(Len(frames) - 1) : frames'[d] = frames[d]
        /\ frames'[Len(frames)].cur = frames[Len(frames)].cur
        /\ frames'[Len(frames)].stmts = Top.stmts + 1
        /\ frames'[Len(frames)].found
              = SelectMembers(Top.stmts + 1, Stack.Buffer, Key[Top.idx])
    <3>1. Len(frames) \in 1..Len(frames)
      BY <1>0
    <3> QED
      BY <3>1, LookupFound
  <2> QED
    BY <1>0, <1>2, <2>1
<1>4. ASSUME NEW s \in From, NEW p \in Leads(s), Owed(p)
      PROVE  Owed(p)'
  <2>1. PICK d \in 1..n : OwedAt(p, d)
    BY <1>0, <1>4 DEF Owed
  <2>2. Table(1)' = Table(1) /\ Table(2)' = Table(2)
    BY <1>1 DEF Table
  <2>3. CASE d # n
    <3>1. d \in 1..(n - 1) /\ frames'[d] = frames[d]
      BY <1>3, <2>3
    <3>2. OwedAt(p, d)'
      BY <2>1, <2>2, <3>1 DEF OwedAt, Table
    <3> QED
      BY <1>3, <3>2 DEF Owed
  <2>4. CASE d = n
    <3>1. p[n].name = Top.cur /\ IsNamed(p[n].member, Key[n])
      BY <1>0, <1>2, <2>1, <2>4 DEF OwedAt, Leads
    <3>2. PICK k \in 1..2 : k > Top.stmts /\ p[n] \in Table(k)
      BY <1>0, <1>1, <2>1, <2>4 DEF OwedAt
    <3>3. CASE k = Top.stmts + 1
      <4>1. [member |-> p[n].member, ns |-> p[n].ns] \in frames'[n].found
        BY <1>3, <3>1, <3>2, <3>3 DEF SelectMembers
      <4>2. OwedAt(p, n)'
        BY <1>3, <3>1, <4>1 DEF OwedAt
      <4> QED
        BY <1>3, <4>2 DEF Owed
    <3>4. CASE k # Top.stmts + 1
      <4>1. k > frames'[n].stmts
        BY <1>2, <1>3, <3>2, <3>4
      <4>2. p[n] \in Table(k)'
        BY <1>1, <3>2 DEF Table
      <4>3. OwedAt(p, n)'
        BY <1>3, <3>1, <4>1, <4>2 DEF OwedAt
      <4> QED
        BY <1>3, <4>3 DEF Owed
    <3> QED
      BY <3>3, <3>4
  <2> QED
    BY <2>3, <2>4
<1>5. NumResults' >= NumResults
  BY <1>1 DEF TypeOK
<1> QED
  BY <1>1, <1>4, <1>5, CoveredStep DEF Counted

(* An activation that returns owes nothing.                                *)
LEMMA CoveredReturn ==
  ASSUME TypeOK, TypeOK', StackTopIsLength, ScopesOpen, Covered, Descended
  PROVE  Covered'
<1>0. PICK n \in Nat \ {0} : n = Len(frames) /\ Top = frames[n]
  BY TopTyped DEF Descended
<1>1. /\ UNCHANGED << db, Key, phase, Names, stmts, Output, NumResults >>
      /\ frames # << >> /\ Top.found = {} /\ Top.stmts = 2 /\ phase # "idle"
  BY OpenBounds DEF Descended
<1>2. Len(frames') = n - 1 /\ \A d \in 1..(n - 1) : frames'[d] = frames[d]
  <2>1. n - 1 \in Nat /\ frames' = SubSeq(frames, 1, n - 1) /\ n - 1 <= Len(frames)
    BY <1>0 DEF Descended, Return, Front
  <2> QED
    BY <2>1, FrontTyped DEF TypeOK
<1>3. ASSUME NEW s \in From, NEW p \in Leads(s), Owed(p)
      PROVE  Owed(p)'
  <2>1. PICK d \in 1..n : OwedAt(p, d)
    BY <1>0, <1>3 DEF Owed
  <2>2. d # n
    BY <1>0, <1>1, <2>1 DEF OwedAt
  <2>3. d \in 1..(n - 1) /\ frames'[d] = frames[d]
    BY <1>2, <2>2
  <2>4. OwedAt(p, d)'
    BY <1>1, <2>1, <2>3 DEF OwedAt, Table
  <2> QED
    BY <1>2, <2>3, <2>4 DEF Owed
<1>4. NumResults' >= NumResults
  BY <1>1 DEF TypeOK
<1> QED
  BY <1>1, <1>3, <1>4, CoveredStep DEF Counted

(* The next activation owes what the member entered stands for.            *)
LEMMA CoveredEnter ==
  ASSUME TypeOK, TypeOK', StackTopIsLength, ScopesOpen, Linked, Covered, Enter
  PROVE  Covered'
<1>0. PICK n \in Nat \ {0} : n = Len(frames) /\ Top = frames[n]
  BY TopTyped DEF Enter
<1>1. /\ UNCHANGED << db, Key, phase, Names, stmts, Output, NumResults >>
      /\ frames # << >> /\ ~LastToken /\ phase # "idle"
  BY OpenBounds DEF Enter
<1>2. PICK m \in Top.found :
        /\ Stack' = push(Stack, m.member)
        /\ frames' = Append(Treated(m), NewFrame(Top.idx + 1, Stack'.Buffer))
  BY DEF Enter
<1>3. /\ Treated(m) \in Seq(Frame) /\ Len(Treated(m)) = n
      /\ \A d \in 1..n : /\ Treated(m)[d].cur = frames[d].cur
                         /\ Treated(m)[d].stmts = frames[d].stmts
                         /\ Treated(m)[d].found =
                              (IF d = n THEN Top.found \ {m} ELSE frames[d].found)
  <2>1. /\ Treated(m) \in Seq(Frame) /\ Len(Treated(m)) = Len(frames)
        /\ \A d \in 1..Len(frames) :
             /\ Treated(m)[d].cur = frames[d].cur
             /\ Treated(m)[d].stmts = frames[d].stmts
             /\ Treated(m)[d].found =
                  (IF d = Len(frames) THEN Top.found \ {m} ELSE frames[d].found)
    BY <1>1, TreatedTyped, TreatedFound
  <2> QED
    BY <1>0, <2>1
<1> DEFINE f == NewFrame(Top.idx + 1, Stack'.Buffer)
<1>4. /\ f.stmts = 0 /\ f.cur = Top.cur \o m.member
  BY <1>1, <1>2, OpenDescends DEF NewFrame, push
<1>5. /\ Len(frames') = n + 1 /\ frames'[n + 1] = f
      /\ \A d \in 1..n : frames'[d] = Treated(m)[d]
  <2>1. frames' = Append(Treated(m), f)
    BY <1>2
  <2> HIDE DEF f
  <2> QED
    BY <1>0, <1>3, <2>1
<1> HIDE DEF f
<1>6. n + 1 \in 1..Len(Key) /\ DOMAIN Key = 1..Len(Key) /\ n \in 1..n
  BY <1>0, <1>1 DEF Linked, Level, LastToken, TypeOK
<1>7. ASSUME NEW s \in From, NEW p \in Leads(s), Owed(p)
      PROVE  Owed(p)'
  <2>1. PICK d \in 1..n : OwedAt(p, d)
    BY <1>0, <1>7 DEF Owed
  <2>2. CASE OwedAt(p, d)'
    <3>1. d \in 1..(n + 1)
      OBVIOUS
    <3> QED
      BY <1>5, <2>2, <3>1 DEF Owed
  <2>3. CASE ~OwedAt(p, d)'
    <3>1. d = n /\ m = [member |-> p[n].member, ns |-> p[n].ns]
      BY <1>0, <1>1, <1>3, <1>5, <2>1, <2>3 DEF OwedAt, Table
    <3>2. Top.cur = p[n].name
      BY <1>0, <2>1, <3>1 DEF OwedAt
    <3>3. p[n + 1].name = f.cur
      <4>1. n + 1 \in DOMAIN Key /\ n + 1 > 1 /\ n + 1 - 1 = n
        BY <1>0, <1>6
      <4>2. p[n + 1].name = Whole(p[n])
        BY <4>1 DEF Leads
      <4> QED
        BY <1>4, <3>1, <3>2, <4>2 DEF Whole
    <3>4. p[n + 1] \in Rows
      BY <1>6 DEF Leads
    <3>5. \E k \in 1..2 : k > f.stmts /\ p[n + 1] \in Table(k)'
      BY <1>1, <1>4, <3>4 DEF Rows, Table
    <3>6. OwedAt(p, n + 1)'
      BY <1>5, <3>3, <3>5 DEF OwedAt
    <3>7. n + 1 \in 1..(n + 1)
      BY <1>0
    <3> QED
      BY <1>5, <3>6, <3>7 DEF Owed
  <2> QED
    BY <2>2, <2>3
<1>8. NumResults' >= NumResults
  BY <1>1 DEF TypeOK
<1> QED
  BY <1>1, <1>7, <1>8, CoveredStep DEF Counted

(* What a hit prints is for a row that matches from where it was begun.    *)
LEMMA HitAsked ==
  ASSUME Linked, frames # << >>, NEW r \in Matches(frames[1].cur)
  PROVE  Lines(r) \subseteq Asked
BY LooseLines DEF Linked, Asked

LEMMA CoveredHit ==
  ASSUME TypeOK, TypeOK', StackTopIsLength, ScopesOpen, Linked, Covered,
         HitNamespace \/ HitSymbol, ~failed'
  PROVE  Covered'
<1>0. PICK n \in Nat \ {0} : n = Len(frames) /\ Top = frames[n]
  BY TopTyped DEF HitNamespace, HitSymbol
<1>1. /\ UNCHANGED << db, Key, phase, Names, stmts >>
      /\ frames # << >> /\ LastToken /\ phase # "idle"
  BY OpenBounds DEF HitNamespace, HitSymbol
<1>2. PICK m \in Top.found, r \in Matches(frames[1].cur) :
        /\ r.name = Top.cur /\ r.member = m.member /\ r.ns = m.ns
        /\ frames' = Treated(m)
        /\ Telling(r)
  BY HitTells
<1>3. /\ Len(frames') = n
      /\ \A d \in 1..n : /\ frames'[d].cur = frames[d].cur
                         /\ frames'[d].stmts = frames[d].stmts
                         /\ frames'[d].found =
                              (IF d = n THEN Top.found \ {m} ELSE frames[d].found)
  <2>1. /\ Len(frames') = Len(frames)
        /\ \A d \in 1..Len(frames) :
             /\ frames'[d].cur = frames[d].cur
             /\ frames'[d].stmts = frames[d].stmts
             /\ frames'[d].found =
                  (IF d = Len(frames) THEN Top.found \ {m} ELSE frames[d].found)
    <3>1. /\ Len(Treated(m)) = Len(frames)
          /\ \A d \in 1..Len(frames) :
               /\ Treated(m)[d].cur = frames[d].cur
               /\ Treated(m)[d].stmts = frames[d].stmts
               /\ Treated(m)[d].found =
                    (IF d = Len(frames) THEN Top.found \ {m} ELSE frames[d].found)
      BY <1>1, TreatedTyped, TreatedFound
    <3> QED
      BY <1>2, <3>1
  <2> QED
    BY <1>0, <2>1
<1>4. n = Len(Key) /\ n \in DOMAIN Key
  BY <1>0, <1>1 DEF Linked, Level, LastToken, TypeOK
<1>5. r \in Row
  <2>1. r \in Rows
    BY <1>4 DEF Matches, Leads
  <2> QED
    BY <2>1 DEF Rows, TypeOK, Database
<1>6. ASSUME NEW s \in From, NEW p \in Leads(s), Owed(p)
      PROVE  Told(p[Len(Key)])' \/ Owed(p)'
  <2>1. PICK d \in 1..n : OwedAt(p, d)
    BY <1>0, <1>6 DEF Owed
  <2>2. CASE OwedAt(p, d)'
    BY <1>3, <2>2 DEF Owed
  <2>3. CASE ~OwedAt(p, d)'
    <3>1. d = n /\ m = [member |-> p[n].member, ns |-> p[n].ns]
      BY <1>0, <1>1, <1>3, <2>1, <2>3 DEF OwedAt, Table
    <3>2. Top.cur = p[n].name
      BY <1>0, <2>1, <3>1 DEF OwedAt
    <3>3. p[n] \in Row
      BY <1>4 DEF Leads, Rows, TypeOK, Database
    <3>4. p[n] = r
      BY <1>2, <1>5, <3>1, <3>2, <3>3 DEF Row
    <3>5. Told(r)'
      BY <1>2 DEF Telling
    <3> QED
      BY <1>1, <1>4, <3>4, <3>5
  <2> QED
    BY <2>2, <2>3
<1>7. Output \subseteq Output' /\ Output' \subseteq Output \cup Asked
  BY <1>1, <1>2, HitAsked DEF Telling
<1> QED
  BY <1>1, <1>2, <1>6, <1>7, CoveredStep DEF Telling

(* Query starts: everything is owed by the first activation.               *)
LEMMA CoveredQuery ==
  ASSUME TypeOK, TypeOK', Query
  PROVE  Covered'
<1>1. /\ UNCHANGED db /\ phase' = "precise" /\ frames' = << NewFrame(1, << >>) >>
      /\ NumResults' = 0 /\ Output' = {} /\ Key' \in Queries
  BY DEF Query
<1>2. 1 \in DOMAIN Key'
  BY <1>1, QueryAssumption
<1>3. /\ Len(frames') = 1 /\ frames'[1].cur = << >> /\ frames'[1].stmts = 0
  BY <1>1 DEF NewFrame
<1>4. From' = {<< >>}
  BY <1>1 DEF From
<1>5. ASSUME NEW p \in Leads(<< >>)'
      PROVE  Owed(p)'
  <2>1. p[1] \in Rows' /\ p[1].name = << >>
    BY <1>2 DEF Leads
  <2>2. \E k \in 1..2 : p[1] \in Table(k)'
    BY <2>1 DEF Rows, Table
  <2>3. OwedAt(p, 1)'
    BY <1>3, <2>1, <2>2 DEF OwedAt
  <2> QED
    BY <1>3, <2>3 DEF Owed
<1> QED
  BY <1>1, <1>4, <1>5 DEF Covered, Counted

(* When nothing is owed any more, every chain has been told.               *)
LEMMA NothingOwed ==
  ASSUME frames = << >>
  PROVE  \A p : ~Owed(p)
BY DEF Owed

LEMMA CoveredStartVague ==
  ASSUME TypeOK, TypeOK', Linked, Covered, StartVague
  PROVE  Covered'
<1>1. /\ UNCHANGED << db, Key, Names, stmts, frames, Output, NumResults >>
      /\ phase = "precise" /\ phase' = "vague" /\ frames = << >> /\ NumResults = 0
  BY DEF StartVague
<1>2. Output = {}
  BY <1>1 DEF Covered, Counted
<1>3. Loose(<< >>) = {}
  <2>1. SUFFICES ASSUME NEW l \in Loose(<< >>) PROVE FALSE
    OBVIOUS
  <2>2. PICK r \in Matches(<< >>) : l \in Lines(r)
    BY LooseLines
  <2>3. PICK p \in Leads(<< >>) : r = p[Len(Key)]
    BY DEF Matches
  <2>4. From = {<< >>} /\ ~Awaited(<< >>)
    BY <1>1 DEF From, Awaited
  <2>5. Told(r)
    BY <1>1, <2>3, <2>4, NothingOwed DEF Covered
  <2> QED
    BY <1>1, <2>2, <2>5 DEF Told
<1>4. Loose(<< >>)' = {} /\ From' = Starts
  BY <1>1, <1>3, SameQuestion DEF From
<1>5. ASSUME NEW n \in Starts
      PROVE  Awaited(n)'
  <2>1. PICK r \in Rows : r.name = n /\ IsNamed(r.member, Key[1])
    BY DEF Starts
  <2>2. \E k \in 1..2 : n \in SelectScopes(k, Key[1])
    BY <2>1 DEF Rows, Table, SelectScopes
  <2>3. \E k \in 1..2 : k > stmts /\ n \in SelectScopes(k, Key[1])
    BY <1>1, <2>2 DEF Linked
  <2> QED
    BY <1>1, <2>3 DEF Awaited, SelectScopes, Table, IsNamed
<1> QED
  BY <1>1, <1>2, <1>4, <1>5 DEF Covered, Counted

LEMMA CoveredLookupScopes ==
  ASSUME TypeOK, TypeOK', Covered, LookupScopes, ~failed'
  PROVE  Covered'
<1>1. /\ UNCHANGED << db, phase, Key, frames, NumResults, Output >>
      /\ phase = "vague" /\ frames = << >> /\ Names = {} /\ stmts < 2
      /\ stmts' = stmts + 1 /\ Names' = SelectScopes(stmts + 1, Key[1])
  BY DEF LookupScopes
<1>2. /\ From' = From /\ Asked' = Asked /\ Loose(<< >>)' = Loose(<< >>)
      /\ \A n : Leads(n)' = Leads(n)
  BY <1>1, SameQuestion DEF From, Asked
<1>3. \A r : Told(r) => Told(r)'
  BY <1>1 DEF Told, Lines, SymbolsNamed, SymbolsLike, StartsLike, Whole
<1>4. ASSUME NEW n, Awaited(n)
      PROVE  Awaited(n)'
  <2>1. PICK k \in 1..2 : k > stmts /\ n \in SelectScopes(k, Key[1])
    BY <1>1, <1>4 DEF Awaited
  <2>2. n \in SelectScopes(k, Key[1])'
    BY <1>1, <2>1 DEF SelectScopes, Table, IsNamed
  <2>3. stmts \in Nat
    BY DEF TypeOK
  <2>4. k = stmts + 1 \/ k > stmts + 1
    BY <2>1, <2>3
  <2> QED
    BY <1>1, <2>1, <2>2, <2>4 DEF Awaited
<1>5. \A p : ~Owed(p)
  BY <1>1, NothingOwed
<1>6. \A n \in From : \A p \in Leads(n) :
        Told(p[Len(Key)])' \/ Owed(p)' \/ Awaited(n)'
  BY <1>1, <1>3, <1>4, <1>5 DEF Covered
<1> QED
  BY <1>1, <1>2, <1>6 DEF Covered, Counted

LEMMA CoveredDescendFrom ==
  ASSUME TypeOK, TypeOK', StackTopIsLength, ScopesOpen, Linked, Covered,
         DescendFrom
  PROVE  Covered'
<1>1. PICK name \in Names :
        /\ Names' = Names \ {name} /\ Stack' = push(Stack, name)
        /\ frames' = << NewFrame(1, Stack'.Buffer) >>
  BY DEF DescendFrom
<1>2. /\ UNCHANGED << db, phase, Key, stmts, NumResults, Output >>
      /\ phase = "vague" /\ frames = << >>
  BY DEF DescendFrom
<1>3. name \in Text /\ Stack.Buffer = << >>
  BY <1>2, OpenBase DEF TypeOK
<1>4. Stack'.Buffer = name
  BY <1>1, <1>3 DEF push, Text
<1>5. Len(frames') = 1 /\ frames'[1].cur = name /\ frames'[1].stmts = 0
  BY <1>1, <1>4 DEF NewFrame
<1>6. /\ From' = From /\ Asked' = Asked /\ Loose(<< >>)' = Loose(<< >>)
      /\ \A n : Leads(n)' = Leads(n)
  BY <1>2, SameQuestion DEF From, Asked
<1>7. \A r : Told(r) => Told(r)'
  BY <1>2 DEF Told, Lines, SymbolsNamed, SymbolsLike, StartsLike, Whole
<1>8. ASSUME NEW n \in From, NEW p \in Leads(n), Awaited(n)
      PROVE  Awaited(n)' \/ Owed(p)'
  <2>1. CASE n = name
    <3>1. 1 \in DOMAIN Key
      BY <1>2 DEF Linked, TypeOK
    <3>2. p[1] \in Rows /\ p[1].name = name
      BY <2>1, <3>1 DEF Leads
    <3>3. \E k \in 1..2 : p[1] \in Table(k)'
      BY <1>2, <3>2 DEF Rows, Table
    <3>4. OwedAt(p, 1)'
      BY <1>5, <3>2, <3>3 DEF OwedAt
    <3> QED
      BY <1>5, <3>4 DEF Owed
  <2>2. CASE n # name
    BY <1>1, <1>2, <1>8, <2>2 DEF Awaited, SelectScopes, Table, IsNamed
  <2> QED
    BY <2>1, <2>2
<1>9. \A p : ~Owed(p)
  BY <1>2, NothingOwed
<1>10. \A n \in From : \A p \in Leads(n) :
         Told(p[Len(Key)])' \/ Owed(p)' \/ Awaited(n)'
  BY <1>2, <1>7, <1>8, <1>9 DEF Covered
<1> QED
  BY <1>2, <1>6, <1>10 DEF Covered, Counted

(* Followed: what holds until the first call fails.                        *)
Followed == ScopesOpen /\ Linked /\ Covered

LEMMA LinkedStep ==
  ASSUME TypeOK, StackTopIsLength, Sheltered => ScopesOpen /\ Linked, [Next]_vars,
         Sheltered'
  PROVE  Linked'
<1>1. CASE Query
  BY <1>1, LinkedQuery
<1>2. CASE Work
  <2>1. Sheltered
    BY <1>2, FailureIsKept DEF Sheltered
  <2> QED
    BY <1>2, <2>1, LinkedWork
<1>3. CASE UNCHANGED vars
  <2>1. UNCHANGED << db, phase, Key, frames, stmts, Names, failed >>
    BY <1>3 DEF vars
  <2>2. Starts' = Starts
    BY <2>1, SameQuestion
  <2>3. \A d : Level(d)' = Level(d)
    BY <2>1, SameQuestion DEF Level, Reached, LedTo, Rows
  <2> QED
    BY <2>1, <2>2, <2>3 DEF Linked, From, Sheltered
<1> QED
  BY <1>1, <1>2, <1>3 DEF Next

LEMMA CoveredStutter ==
  ASSUME UNCHANGED vars
  PROVE  Covered' = Covered /\ Answered' = Answered
<1>1. UNCHANGED << db, phase, Key, frames, stmts, Names, NumResults, Output, failed >>
  BY DEF vars
<1>2. /\ \A n : Leads(n)' = Leads(n) /\ Loose(n)' = Loose(n) /\ Exact(n)' = Exact(n)
      /\ Starts' = Starts /\ From' = From
  BY <1>1, SameQuestion DEF From
<1>3. \A r : Told(r)' = Told(r)
  BY <1>1 DEF Told, Lines, SymbolsNamed, SymbolsLike, StartsLike, Whole
<1>4. \A p : Owed(p)' = Owed(p)
  BY <1>1 DEF Owed, OwedAt, Table
<1>5. \A n : Awaited(n)' = Awaited(n)
  BY <1>1 DEF Awaited, SelectScopes, Table, IsNamed
<1>6. Covered' = Covered
  BY <1>1, <1>2, <1>3, <1>4, <1>5 DEF Covered, Asked, Counted
<1>7. Answered' = Answered
  BY <1>1, <1>2 DEF Answered
<1> QED
  BY <1>6, <1>7

LEMMA CoveredWork ==
  ASSUME TypeOK, TypeOK', StackTopIsLength, Followed, Work, ~failed'
  PROVE  Covered'
<1>1. CASE Lookup
  BY <1>1, CoveredLookup DEF Followed
<1>2. CASE LookupFails
  BY <1>2 DEF LookupFails
<1>3. CASE Descended
  BY <1>3, CoveredReturn DEF Followed
<1>4. CASE Enter
  BY <1>4, CoveredEnter DEF Followed
<1>5. CASE HitNamespace \/ HitSymbol
  BY <1>5, CoveredHit DEF Followed
<1>6. CASE StartVague
  BY <1>6, CoveredStartVague DEF Followed
<1>7. CASE LookupScopes
  BY <1>7, CoveredLookupScopes DEF Followed
<1>8. CASE DescendFrom
  BY <1>8, CoveredDescendFrom DEF Followed
<1>9. CASE PreciseFound \/ LookupScopesFails \/ EndVague
  <2>1. phase' = "idle"
    BY <1>9 DEF PreciseFound, LookupScopesFails, EndVague
  <2> QED
    BY <2>1 DEF Covered
<1> QED
  BY <1>1, <1>2, <1>3, <1>4, <1>5, <1>6, <1>7, <1>8, <1>9 DEF Work

LEMMA FollowedStep ==
  ASSUME TypeOK, TypeOK', StackTopIsLength, ~failed => Followed, [Next]_vars,
         ~failed'
  PROVE  Followed'
<1>1. CASE Query
  BY <1>1, LinkedQuery, CoveredQuery, QueryOpens DEF Followed
<1>2. CASE Work
  <2>1. Followed
    BY <1>2, FailureIsKept
  <2>2. Linked' /\ ScopesOpen'
    BY <1>2, <2>1, LinkedWork, WorkOpen DEF Followed, Sheltered
  <2> QED
    BY <1>2, <2>1, <2>2, CoveredWork DEF Followed
<1>3. CASE UNCHANGED vars
  <2>1. ~failed /\ [Next]_vars
    BY <1>3 DEF vars
  <2>2. ScopesOpen' /\ Linked'
    BY <2>1, ScopesStep, LinkedStep DEF Followed, Sheltered
  <2> QED
    BY <1>3, <2>1, <2>2, CoveredStutter DEF Followed
<1> QED
  BY <1>1, <1>2, <1>3 DEF Next

(* The answer is right when Query returns.                                 *)
LEMMA PreciseAnswer ==
  ASSUME TypeOK, Linked, Covered, PreciseFound, ~failed'
  PROVE  Answered'
<1>1. /\ UNCHANGED << db, Key, Output >>
      /\ phase = "precise" /\ frames = << >> /\ NumResults > 0
  BY DEF PreciseFound
<1>2. From = {<< >>} /\ ~Awaited(<< >>)
  BY <1>1 DEF From, Awaited
<1>3. \A r \in Matches(<< >>) : Told(r)
  BY <1>1, <1>2, NothingOwed DEF Covered, Matches
<1>4. Exact(<< >>) \subseteq Output
  BY <1>3, ExactTold
<1>5. Output \subseteq Loose(<< >>) /\ Output # {}
  BY <1>1, <1>2 DEF Covered, Counted, Asked
<1>6. /\ Exact(<< >>)' = Exact(<< >>) /\ Loose(<< >>)' = Loose(<< >>)
      /\ Loose(<< >>) # {}
  BY <1>1, <1>5, SameQuestion
<1> QED
  BY <1>1, <1>4, <1>5, <1>6 DEF Answered

LEMMA VagueAnswer ==
  ASSUME TypeOK, Linked, Covered, EndVague, ~failed'
  PROVE  Answered'
<1>1. /\ UNCHANGED << db, Key >>
      /\ phase = "vague" /\ frames = << >> /\ Names = {} /\ stmts = 2
      /\ Output' = Output \cup {l \in {NoResultLine} : NumResults = 0}
  BY DEF EndVague
<1>2. From = Starts /\ \A n : ~Awaited(n)
  BY <1>1 DEF From, Awaited
<1>3. \A n \in Starts : \A r \in Matches(n) : Told(r)
  BY <1>1, <1>2, NothingOwed DEF Covered, Matches
<1> DEFINE AnyExact == UNION {Exact(n) : n \in Starts}
           AnyLoose == UNION {Loose(n) : n \in Starts}
<1>4. AnyExact \subseteq Output
  BY <1>3, ExactTold
<1>5. /\ Output \subseteq AnyLoose /\ (Output = {} <=> NumResults = 0)
      /\ Loose(<< >>) = {}
  BY <1>1, <1>2 DEF Covered, Counted, Asked
<1>6. AnyLoose # {} => NumResults > 0
  <2>1. SUFFICES ASSUME NEW n \in Starts, NEW l \in Loose(n) PROVE NumResults > 0
    OBVIOUS
  <2>2. PICK r \in Matches(n) : l \in Lines(r)
    BY LooseLines
  <2> QED
    BY <1>3, <2>2 DEF Told
<1>7. AnyLoose # {} => Output' = Output /\ Output # {}
  BY <1>1, <1>5, <1>6
<1>8. AnyLoose = {} => Output' = {NoResultLine}
  BY <1>1, <1>5
<1>9. /\ AnyExact' = AnyExact /\ AnyLoose' = AnyLoose /\ Loose(<< >>)' = {}
  BY <1>1, <1>5, SameQuestion
<1> HIDE DEF AnyExact, AnyLoose
<1>10. IF AnyLoose' # {}
         THEN AnyExact' \subseteq Output' /\ Output' \subseteq AnyLoose' /\ Output' # {}
         ELSE Output' = {NoResultLine}
  BY <1>4, <1>5, <1>7, <1>8, <1>9
<1> QED
  BY <1>9, <1>10 DEF Answered, AnyExact, AnyLoose

LEMMA AnsweredStep ==
  ASSUME TypeOK, TypeOK', StackTopIsLength, ~failed => Followed, Answered,
         [Next]_vars
  PROVE  Answered'
<1>1. SUFFICES ASSUME ~failed', phase' = "idle" PROVE Answered'
  BY DEF Answered
<1>2. CASE Query
  BY <1>1, <1>2 DEF Query
<1>3. CASE Work
  <2>1. Followed
    BY <1>1, <1>3, FailureIsKept
  <2>2. CASE PreciseFound \/ EndVague
    BY <1>1, <2>1, <2>2, PreciseAnswer, VagueAnswer DEF Followed
  <2>3. CASE StartVague \/ LookupScopesFails
    BY <1>1, <2>3 DEF StartVague, LookupScopesFails
  <2>4. CASE LookupScopes \/ DescendFrom
    BY <1>1, <2>4 DEF LookupScopes, DescendFrom
  <2>5. CASE Lookup \/ LookupFails \/ Descended \/ Enter \/ HitNamespace \/ HitSymbol
    <3>1. phase' = phase /\ frames # << >>
      BY <2>5 DEF Lookup, LookupFails, Descended, Enter, HitNamespace, HitSymbol
    <3> QED
      BY <1>1, <2>1, <3>1, OpenBounds DEF Followed
  <2> QED
    BY <1>3, <2>2, <2>3, <2>4, <2>5 DEF Work
<1>4. CASE UNCHANGED vars
  BY <1>4, CoveredStutter
<1> QED
  BY <1>2, <1>3, <1>4 DEF Next

-----------------------------------------------------------------------------
(* The locations printed, whatever fails but the bind of the prefix        *)
(* statement.                                                              *)
Anywhere == UNION {Loose(n) : n \in {<< >>} \cup {r.name : r \in Rows}}

LEMMA AskedAnywhere == Asked \subseteq Anywhere
BY DEF Asked, Anywhere, From, Starts

LEMMA SoundStep ==
  ASSUME TypeOK, TypeOK', StackTopIsLength, ScopesOpen, Linked,
         Output \cap Loc \subseteq Anywhere, [Next]_vars
  PROVE  Output' \cap Loc \subseteq Anywhere'
<1>0. CASE Query
  BY <1>0 DEF Query
<1>1. ASSUME UNCHANGED << db, Key >>
      PROVE  Anywhere' = Anywhere
  BY <1>1, SameQuestion DEF Anywhere
<1>2. CASE HitNamespace \/ HitSymbol
  <2>1. UNCHANGED << db, Key >> /\ frames # << >>
    BY <1>2 DEF HitNamespace, HitSymbol
  <2>2. PICK r \in Matches(frames[1].cur) : Telling(r)
    BY <1>2, HitTells
  <2>3. Output' \subseteq Output \cup Asked
    BY <2>1, <2>2, HitAsked DEF Telling
  <2> QED
    BY <1>1, <2>1, <2>3, AskedAnywhere
<1>3. CASE EndVague
  BY <1>1, <1>3, NoticeAssumption DEF EndVague
<1>4. CASE \/ Lookup \/ LookupFails \/ Descended \/ Enter \/ PreciseFound
           \/ StartVague \/ LookupScopes \/ LookupScopesFails \/ DescendFrom
  BY <1>1, <1>4 DEF Lookup, LookupFails, Descended, Enter, PreciseFound,
     StartVague, LookupScopes, LookupScopesFails, DescendFrom
<1>5. CASE UNCHANGED vars
  BY <1>1, <1>5 DEF vars
<1> QED
  BY <1>0, <1>2, <1>3, <1>4, <1>5 DEF Next, Work

-----------------------------------------------------------------------------
(* The theorems. *)

(* Every state of every query is typed, and the invariant in the comment   *)
(* of StringStack holds: the top of Offsets is the length of Buffer.       *)
THEOREM RetrieverInvariant == Spec => [](TypeOK /\ StackTopIsLength)
<1>1. TypeOK /\ StackTopIsLength /\ [Next]_vars => (TypeOK /\ StackTopIsLength)'
  BY TypeStep
<1> QED
  BY <1>1, TypeInit, PTL DEF Spec

(* What is asked for and what the tables hold never takes a query to a     *)
(* state that is not typed.                                                *)
THEOREM RetrieverTyped == Spec => []TypeOK
BY RetrieverInvariant, PTL

(* StringStack implements the stack of whole texts, whatever fails.        *)
THEOREM RetrieverImplementsNameStack == Spec => ImplementsNameStack
<1>1. Init => StackOfNames!Init
  BY NewCoherent DEF Init, StackOfNames!Init, NewStack
<1>2. TypeOK /\ StackTopIsLength /\ [Next]_vars
        => [StackOfNames!Next]_<< Texts(Stack), Stack.Buffer >>
  BY StackMoves, MoveCoherent
<1> QED
  BY <1>1, <1>2, RetrieverInvariant, PTL
  DEF Spec, ImplementsNameStack, StackOfNames!Spec

(* If the bind of the prefix statement never fails, every loop over        *)
(* members goes on in the scope it started in: that failure is the only    *)
(* one that can make Descend search under a wrong name.                    *)
THEOREM DescentIsNested ==
  ASSUME "prefix" \notin Faults
  PROVE  Spec => []DescendsInScope
<1>1. Init => ScopesOpen
  BY DEF Init, ScopesOpen
<1>2. /\ TypeOK /\ StackTopIsLength /\ ScopesOpen /\ [Next]_vars
      => ScopesOpen'
  BY ScopesStep DEF Sheltered
<1>3. TypeOK /\ StackTopIsLength /\ ScopesOpen => DescendsInScope
  BY OpenDescends DEF DescendsInScope
<1> QED
  BY <1>1, <1>2, <1>3, RetrieverInvariant, PTL DEF Spec

(* Until a call fails, the answer is what the query says, for all tables   *)
(* and all queries: every declaration of that name is printed, nothing     *)
(* else but what LIKE takes for it, and "No result found" only if there is *)
(* none.                                                                   *)
THEOREM QueryIsAnswered == Spec => []Answered
<1>1. Init => Answered /\ (~failed => Followed)
  BY DEF Init, Answered, Followed, ScopesOpen, Linked, Covered
<1>2. /\ TypeOK /\ TypeOK' /\ StackTopIsLength
      /\ Answered /\ (~failed => Followed) /\ [Next]_vars
      => Answered' /\ (~failed => Followed)'
  BY AnsweredStep, FollowedStep
<1> QED
  BY <1>1, <1>2, RetrieverInvariant, PTL DEF Spec

(* Unless the bind of the prefix statement can fail, every location that   *)
(* is printed, is that of a symbol the query leads to, whatever else       *)
(* fails.                                                                  *)
THEOREM LinesAreAsked ==
  ASSUME "prefix" \notin Faults
  PROVE  Spec => []Sound
<1> DEFINE I == ScopesOpen /\ Linked /\ Output \cap Loc \subseteq Anywhere
<1>1. Init => I
  BY DEF Init, ScopesOpen, Linked
<1>2. TypeOK /\ TypeOK' /\ StackTopIsLength /\ I /\ [Next]_vars => I'
  BY ScopesStep, LinkedStep, SoundStep DEF Sheltered
<1>3. I => Sound
  BY DEF Sound, Anywhere
<1> HIDE DEF I
<1> QED
  BY <1>1, <1>2, <1>3, RetrieverInvariant, PTL DEF Spec
=============================================================================
