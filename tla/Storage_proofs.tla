---------------------------- MODULE Storage_proofs ----------------------------
(***************************************************************************)
(* For every path: the buffer that NormalizePathName allocates holds what  *)
(* it copies.  For all rows, queries and iterators: what the iterators of  *)
(* both databases return is what IteratorBase promises.                    *)
(***************************************************************************)
EXTENDS Storage, Induction, SequenceTheorems, FiniteSetTheorems

Stages == {"idle", "split", "copy", "done"}
Width(r) == r[2] - r[1] + 1

(* What is kept lies in the path, and used adds it up.                     *)
Measured(s, k, u, n) ==
  /\ s \in Seq(STRING) /\ k \in Seq(Nat \X Nat) /\ u \in Seq(Nat) /\ n \in Nat
  /\ Len(u) = Len(k)
  /\ \A j \in 1..Len(k) :
       /\ 1 <= k[j][1] /\ k[j][1] <= k[j][2] /\ k[j][2] <= Len(s)
       /\ u[j] = (IF j - 1 = 0 THEN 0 ELSE u[j - 1]) + Width(k[j])
       /\ u[j] <= n

Fits ==
  /\ stage \in Stages /\ at \in Nat \ {0}
  /\ Measured(path, kept, used, length)
  /\ stage = "idle" => kept = << >> /\ used = << >>
  /\ stage \in {"idle", "split"} => stray = {}
  /\ stage = "copy" =>
       /\ stray = {} /\ at <= Len(kept) + 1
       /\ DOMAIN buffer = 0..(length + Root + Len(kept) - 1)
       /\ dest = Root + (at - 1) + UsedBefore(at - 1)
  /\ InBuffer

LEMMA ParentDropsLast ==
  ASSUME NEW S, NEW q \in Seq(S), q # << >>
  PROVE  /\ Parent(q) \in Seq(S) /\ Len(q) \in Nat \ {0} /\ Len(Parent(q)) = Len(q) - 1
         /\ \A j \in 1..(Len(q) - 1) : Parent(q)[j] = q[j]
<1>1. Len(q) \in Nat \ {0}
  BY EmptySeq
<1> DEFINE n == Len(q) - 1
<1>2. n \in Nat /\ \A j \in 1..n : j \in 1..Len(q)
  BY <1>1
<1>3. \A j \in 1..n : q[j] \in S
  BY <1>2, ElementOfSeq
<1>4. Parent(q) = SubSeq(q, 1, n)
  BY DEF Parent
<1> HIDE DEF n
<1>5. /\ SubSeq(q, 1, n) \in Seq(S) /\ Len(SubSeq(q, 1, n)) = IF 1 <= n THEN n - 1 + 1 ELSE 0
      /\ \A j \in 1..(n - 1 + 1) : SubSeq(q, 1, n)[j] = q[1 + j - 1]
  BY <1>2, <1>3, SubSeqProperties
<1>6. Len(SubSeq(q, 1, n)) = n /\ \A j \in 1..n : SubSeq(q, 1, n)[j] = q[j]
  BY <1>2, <1>5
<1> QED
  BY <1>1, <1>4, <1>5, <1>6 DEF n

LEMMA MeasuredParent ==
  ASSUME NEW s, NEW k, NEW u, NEW n, Measured(s, k, u, n), NEW w \in Nat
  PROVE  Measured(s, Parent(k), Parent(u), n + w)
<1>1. CASE k = << >>
  <2>1. u = << >>
    BY <1>1, EmptySeq DEF Measured
  <2> QED
    BY <1>1, <2>1 DEF Measured, Parent
<1>2. CASE k # << >>
  <2>1. Len(k) \in Nat \ {0} /\ u # << >> /\ Len(u) = Len(k)
    BY <1>2, EmptySeq, LenProperties DEF Measured
  <2> DEFINE m == Len(k) - 1
  <2>2. /\ Parent(k) \in Seq(Nat \X Nat) /\ Len(Parent(k)) = m
        /\ \A j \in 1..m : Parent(k)[j] = k[j]
    BY <1>2, ParentDropsLast DEF Measured
  <2>3. /\ Parent(u) \in Seq(Nat) /\ Len(Parent(u)) = m
        /\ \A j \in 1..m : Parent(u)[j] = u[j]
    BY <2>1, ParentDropsLast DEF Measured
  <2>4. ASSUME NEW j \in 1..m
        PROVE  /\ 1 <= Parent(k)[j][1] /\ Parent(k)[j][1] <= Parent(k)[j][2]
               /\ Parent(k)[j][2] <= Len(s)
               /\ Parent(u)[j] = (IF j - 1 = 0 THEN 0 ELSE Parent(u)[j - 1]) + Width(Parent(k)[j])
               /\ Parent(u)[j] <= n + w
    <3>1. j \in 1..Len(k) /\ u[j] \in Nat /\ n \in Nat
      <4>1. j \in 1..Len(u) /\ Len(u) = Len(k)
        BY <2>1
      <4>2. u \in Seq(Nat) /\ n \in Nat
        BY DEF Measured
      <4> QED
        BY <4>1, <4>2, ElementOfSeq
    <3>2. j - 1 # 0 => j - 1 \in 1..m
      BY <2>1
    <3>3. Parent(k)[j] = k[j] /\ Parent(u)[j] = u[j] /\ (j - 1 # 0 => Parent(u)[j - 1] = u[j - 1])
      BY <2>2, <2>3, <3>2
    <3>4. u[j] <= n
      BY <3>1 DEF Measured
    <3>5. u[j] <= n + w
      BY <3>1, <3>4
    <3> QED
      BY <3>1, <3>3, <3>5 DEF Measured
  <2>5. n + w \in Nat /\ s \in Seq(STRING)
    BY DEF Measured
  <2> HIDE DEF m
  <2> QED
    BY <2>2, <2>3, <2>4, <2>5 DEF Measured
<1> QED
  BY <1>1, <1>2

LEMMA MeasuredAppend ==
  ASSUME NEW s, NEW k, NEW u, NEW n, Measured(s, k, u, n),
         NEW f \in 1..Len(s), NEW l \in 1..Len(s), f <= l
  PROVE  Measured(s, Append(k, << f, l >>),
                  Append(u, (IF Len(u) = 0 THEN 0 ELSE u[Len(u)]) + (l - f + 1)),
                  n + (l - f + 1))
<1> DEFINE w == l - f + 1
           last == IF Len(u) = 0 THEN 0 ELSE u[Len(u)]
           k2 == Append(k, << f, l >>)
           u2 == Append(u, last + w)
<1>1. /\ s \in Seq(STRING) /\ k \in Seq(Nat \X Nat) /\ u \in Seq(Nat) /\ n \in Nat
      /\ Len(u) = Len(k) /\ Len(k) \in Nat /\ Len(s) \in Nat
  BY LenProperties DEF Measured
<1>2. w \in Nat /\ f \in Nat /\ l \in Nat /\ 1 <= f /\ l <= Len(s)
  BY <1>1
<1>3. last \in Nat /\ last <= n
  BY <1>1 DEF Measured
<1>4. << f, l >> \in Nat \X Nat /\ last + w \in Nat
  BY <1>2, <1>3
<1>5. /\ k2 \in Seq(Nat \X Nat) /\ Len(k2) = Len(k) + 1 /\ k2[Len(k) + 1] = << f, l >>
      /\ \A j \in 1..Len(k) : k2[j] = k[j]
  BY <1>1, <1>4, AppendProperties
<1>6. /\ u2 \in Seq(Nat) /\ Len(u2) = Len(k) + 1 /\ u2[Len(k) + 1] = last + w
      /\ \A j \in 1..Len(k) : u2[j] = u[j]
  BY <1>1, <1>4, AppendProperties
<1>7. ASSUME NEW j \in 1..(Len(k) + 1)
      PROVE  /\ 1 <= k2[j][1] /\ k2[j][1] <= k2[j][2] /\ k2[j][2] <= Len(s)
             /\ u2[j] = (IF j - 1 = 0 THEN 0 ELSE u2[j - 1]) + Width(k2[j])
             /\ u2[j] <= n + w
  <2>1. CASE j = Len(k) + 1
    <3>1. j - 1 = Len(u) /\ (j - 1 # 0 => j - 1 \in 1..Len(k))
      BY <1>1, <2>1
    <3>2. last = IF j - 1 = 0 THEN 0 ELSE u2[j - 1]
      BY <1>6, <3>1
    <3>3. k2[j] = << f, l >> /\ Width(k2[j]) = w /\ u2[j] = last + w
      BY <1>5, <1>6, <2>1 DEF Width
    <3>4. k2[j][1] = f /\ k2[j][2] = l
      BY <3>3
    <3>5. last + w <= n + w
      BY <1>1, <1>2, <1>3
    <3> HIDE DEF k2, u2, last, w
    <3> QED
      BY <1>2, <3>2, <3>3, <3>4, <3>5
  <2>2. CASE j \in 1..Len(k)
    <3>1. k2[j] = k[j] /\ u2[j] = u[j] /\ (j - 1 # 0 => u2[j - 1] = u[j - 1])
      <4>1. j - 1 # 0 => j - 1 \in 1..Len(k)
        BY <1>1, <2>2
      <4> HIDE DEF k2, u2
      <4> QED
        BY <1>5, <1>6, <2>2, <4>1
    <3>2. u[j] <= n /\ u[j] \in Nat
      BY <1>1, <2>2 DEF Measured
    <3>3. u[j] <= n + w
      BY <1>1, <1>2, <3>2
    <3> HIDE DEF k2, u2, last, w
    <3> QED
      BY <2>2, <3>1, <3>3 DEF Measured
  <2>3. j = Len(k) + 1 \/ j \in 1..Len(k)
    BY <1>1
  <2> QED
    BY <2>1, <2>2, <2>3
<1>8. n + w \in Nat
  BY <1>1, <1>2
<1> HIDE DEF w, last, k2, u2
<1>9. Measured(s, k2, u2, n + w)
  BY <1>1, <1>5, <1>6, <1>7, <1>8 DEF Measured
<1> QED
  BY <1>9 DEF w, last, k2, u2

LEMMA FitsInit == Init => Fits
<1> SUFFICES ASSUME Init PROVE Fits
  OBVIOUS
<1>1. /\ stage = "idle" /\ path = << >> /\ at = 1 /\ kept = << >> /\ length = 0
      /\ used = << >> /\ stray = {}
  BY DEF Init, PathInit
<1>2. Measured(<< >>, << >>, << >>, 0)
  <2>1. \A j \in 1..Len(<< >>) : FALSE
    OBVIOUS
  <2> QED
    BY <2>1, EmptySeq DEF Measured
<1> QED
  BY <1>1, <1>2 DEF Fits, Stages, InBuffer

(* Of the calls of the database, only these change what the normalization  *)
(* of a path works on.                                                     *)
LEMMA PathSteps ==
  [Next]_vars =>
    \/ UNCHANGED pathVars
    \/ \E p : IsPath(p) /\ NormalizePathName(p)
    \/ Split \/ Allocate \/ Copy \/ Terminate
    \/ Return
<1> SUFFICES ASSUME [Next]_vars
             PROVE  \/ UNCHANGED pathVars
                    \/ \E p : IsPath(p) /\ NormalizePathName(p)
                    \/ Split \/ Allocate \/ Copy \/ Terminate
                    \/ Return
  OBVIOUS
<1>1. ASSUME NEW x \in Row, x[1] = "symbol", InsertSymbol(x[2])
      PROVE  UNCHANGED pathVars \/ \E p : IsPath(p) /\ NormalizePathName(p)
  <2>1. IsPath(x[2][2])
    BY <1>1, RowAssumption
  <2>2. UNCHANGED pathVars \/ NormalizePathName(x[2][2])
    BY <1>1 DEF InsertSymbol
  <2> QED
    BY <2>1, <2>2
<1>2. ASSUME NEW x \in Single, InsertSymbol(x)
      PROVE  UNCHANGED pathVars \/ \E p : IsPath(p) /\ NormalizePathName(p)
  <2>1. IsPath(x[2])
    BY RowAssumption
  <2>2. UNCHANGED pathVars \/ NormalizePathName(x[2])
    BY <1>2 DEF InsertSymbol
  <2> QED
    BY <2>1, <2>2
<1>3. CASE TransactionBegin \/ Commit
  BY <1>3 DEF TransactionBegin, Commit, Idle
<1>4. ASSUME NEW x \in Row, Insert(x[1], x[2]) \/ OthersInsert(x[1], x[2])
      PROVE  UNCHANGED pathVars
  BY <1>4 DEF Insert, OthersInsert, Idle
<1>5. ASSUME NEW i \in Iterator,
             \/ \E q \in Query : QueryRows(i, q)
             \/ NextInMemory(i) \/ EndInMemory(i) \/ StepRow(i) \/ StepEnds(i) \/ Delete(i)
      PROVE  UNCHANGED pathVars
  BY <1>5 DEF QueryRows, NextInMemory, EndInMemory, StepRow, StepEnds, Delete, Of, Idle
<1>6. CASE InsertNormalized
  BY <1>6 DEF InsertNormalized
<1>7. CASE PathStep /\ UNCHANGED rowVars
  BY <1>7 DEF PathStep
<1>8. CASE UNCHANGED vars
  BY <1>8 DEF vars
<1> QED
  BY <1>1, <1>2, <1>3, <1>4, <1>5, <1>6, <1>7, <1>8 DEF Next

(* The first pass.                                                         *)
LEMMA FitsSplit == Fits /\ Split => Fits'
<1> SUFFICES ASSUME Fits, Split PROVE Fits'
  OBVIOUS
<1>1. Measured(path, kept, used, length) /\ at \in Nat \ {0} /\ stage = "split" /\ stray = {}
  BY DEF Fits, Split
<1>2. path \in Seq(STRING) /\ Len(path) \in Nat /\ Len(used) = Len(kept) /\ length \in Nat
  BY <1>1, LenProperties DEF Measured
<1>3. PICK f \in 1..Len(path), l \in 1..Len(path) :
        /\ Component(f, l)
        /\ length' = length + (l - f + 1) /\ at' = l + 2
        /\ \/ kept' = Parent(kept) /\ used' = Parent(used)
           \/ UNCHANGED << kept, used >>
           \/ /\ kept' = Append(kept, << f, l >>)
              /\ used' = Append(used, UsedBefore(Len(used)) + (l - f + 1))
  BY DEF Split
<1>4. f <= l /\ l - f + 1 \in Nat /\ at' \in Nat \ {0}
  BY <1>2, <1>3 DEF Component
<1>5. UNCHANGED << stage, path, stray >>
  BY DEF Split
<1>6. Measured(path, kept', used', length')
  <2>1. CASE kept' = Parent(kept) /\ used' = Parent(used)
    BY <1>1, <1>3, <1>4, <2>1, MeasuredParent
  <2>2. CASE UNCHANGED << kept, used >>
    <3>1. \A j \in 1..Len(kept) : used[j] \in Nat /\ (used[j] <= length => used[j] <= length')
      <4>1. used \in Seq(Nat)
        BY <1>1 DEF Measured
      <4>2. \A j \in 1..Len(kept) : used[j] \in Nat
        BY <1>2, <4>1, ElementOfSeq
      <4> QED
        BY <1>2, <1>3, <1>4, <4>2
    <3>2. length' \in Nat
      BY <1>2, <1>3, <1>4
    <3> QED
      BY <1>1, <2>2, <3>1, <3>2 DEF Measured
  <2>3. CASE /\ kept' = Append(kept, << f, l >>)
             /\ used' = Append(used, UsedBefore(Len(used)) + (l - f + 1))
    BY <1>1, <1>3, <1>4, <2>3, MeasuredAppend DEF UsedBefore
  <2> QED
    BY <1>3, <2>1, <2>2, <2>3
<1> QED
  BY <1>1, <1>4, <1>5, <1>6 DEF Fits, Stages, InBuffer

(* The second one.                                                         *)
LEMMA RootOne == Root \in {0, 1} /\ (Root = 0 <=> ~Absolute)
BY DEF Root

LEMMA FitsAllocate == Fits /\ Allocate => Fits'
<1> SUFFICES ASSUME Fits, Allocate PROVE Fits'
  OBVIOUS
<1>1. /\ stage = "split" /\ stage' = "copy" /\ at' = 1 /\ dest' = Root
      /\ UNCHANGED << path, kept, length, used, stray >>
  BY DEF Allocate
<1>2. length \in Nat /\ Len(kept) \in Nat /\ Root \in Nat
  BY LenProperties, RootOne DEF Fits, Measured
<1>3. DOMAIN buffer' = 0..(length + Root + Len(kept) - 1)
  <2>1. DOMAIN buffer' = 0..((length + Root + Len(kept)) - 1)
    BY DEF Allocate, Zeroed
  <2> QED
    BY <1>2, <2>1
<1>4. Root' = Root /\ UsedBefore(at - 1)' = 0 /\ 1 <= Len(kept) + 1
      /\ Root = Root + (1 - 1) + 0
  BY <1>1, <1>2 DEF Root, Absolute, UsedBefore
<1> QED
  BY <1>1, <1>3, <1>4 DEF Fits, Stages, InBuffer

(* What is copied is there, and there is room for it.                      *)
CopyRange == dest..(dest + (kept[at][2] - kept[at][1] + 1))

LEMMA CopyPlace ==
  ASSUME Fits, Copy
  PROVE  /\ at \in 1..Len(kept) /\ Len(kept) \in Nat /\ dest \in Nat
         /\ kept[at] \in Nat \X Nat /\ used[at] \in Nat
         /\ 1 <= kept[at][1] /\ kept[at][1] <= kept[at][2] /\ kept[at][2] <= Len(path)
         /\ used[at] = UsedBefore(at - 1) + (kept[at][2] - kept[at][1] + 1)
         /\ UsedBefore(at - 1) \in Nat
         /\ SubSeq(path, kept[at][1], kept[at][2]) \in Seq(STRING)
         /\ Len(SubSeq(path, kept[at][1], kept[at][2])) = kept[at][2] - kept[at][1] + 1
         /\ Len(SubSeq(path, kept[at][1], kept[at][2]) \o << "/" >>)
              = (kept[at][2] - kept[at][1] + 1) + 1
         /\ CopyRange \subseteq DOMAIN buffer
<1> DEFINE f == kept[at][1]
           l == kept[at][2]
           text == SubSeq(path, f, l) \o << "/" >>
<1>1. stage = "copy"
  BY DEF Copy
<1>2. Measured(path, kept, used, length) /\ stray = {} /\ at \in Nat \ {0}
      /\ dest = Root + (at - 1) + UsedBefore(at - 1)
      /\ DOMAIN buffer = 0..(length + Root + Len(kept) - 1)
  BY <1>1 DEF Fits
<1>3. Len(kept) \in Nat /\ Len(path) \in Nat /\ length \in Nat /\ Root \in Nat
  BY <1>2, LenProperties, RootOne DEF Measured
<1>4. at <= Len(kept)
  BY DEF Copy
<1>5. at \in 1..Len(kept)
  BY <1>2, <1>3, <1>4
<1>6. kept[at] \in Nat \X Nat /\ used[at] \in Nat
  BY <1>2, <1>5, ElementOfSeq DEF Measured
<1>7. 1 <= f /\ f <= l /\ l <= Len(path) /\ f \in Nat /\ l \in Nat
  BY <1>2, <1>5, <1>6 DEF Measured
<1>8. UsedBefore(at - 1) \in Nat /\ used[at] = UsedBefore(at - 1) + (l - f + 1) /\ used[at] <= length
  <2>1. used[at] = UsedBefore(at - 1) + Width(kept[at]) /\ used[at] <= length
    BY <1>2, <1>5 DEF Measured, UsedBefore
  <2>2. CASE at - 1 = 0
    BY <2>1, <2>2 DEF UsedBefore, Width
  <2>3. CASE at - 1 # 0
    <3>1. at - 1 \in 1..Len(used) /\ used \in Seq(Nat)
      BY <1>2, <1>3, <1>5, <2>3 DEF Measured
    <3> QED
      BY <2>1, <2>3, <3>1, ElementOfSeq DEF UsedBefore, Width
  <2> QED
    BY <2>2, <2>3
<1>a. SubSeq(path, f, l) \in Seq(STRING) /\ Len(SubSeq(path, f, l)) = l - f + 1
  <2>1. \A j \in f..l : path[j] \in STRING
    BY <1>2, <1>3, <1>7, ElementOfSeq DEF Measured
  <2>2. f \in Int /\ l \in Int
    BY <1>7
  <2> HIDE DEF f, l
  <2> QED
    BY <1>7, <2>1, <2>2, SubSeqProperties
<1>b. dest \in Nat
  BY <1>2, <1>3, <1>8
<1>c. CopyRange = dest..(dest + (l - f + 1))
  BY DEF CopyRange
<1> HIDE DEF f, l
<1>9. Len(text) = (l - f + 1) + 1
  BY <1>a
<1> HIDE DEF text
<1>d. CopyRange \subseteq DOMAIN buffer
  BY <1>2, <1>3, <1>4, <1>7, <1>8, <1>c
<1> QED
  BY <1>3, <1>5, <1>6, <1>7, <1>8, <1>9, <1>a, <1>b, <1>d DEF f, l, text

LEMMA FitsCopy == Fits /\ Copy => Fits'
<1> SUFFICES ASSUME Fits, Copy PROVE Fits'
  OBVIOUS
<1> DEFINE f == kept[at][1]
           l == kept[at][2]
           text == SubSeq(path, f, l) \o << "/" >>
<1>1. /\ stage = "copy" /\ stage' = "copy" /\ at' = at + 1 /\ dest' = dest + (l - f + 1) + 1
      /\ Write(dest, text)
      /\ UNCHANGED << path, kept, length, used >>
  BY DEF Copy
<1>2. Measured(path, kept, used, length) /\ stray = {} /\ at \in Nat \ {0}
      /\ dest = Root + (at - 1) + UsedBefore(at - 1)
      /\ DOMAIN buffer = 0..(length + Root + Len(kept) - 1)
  BY <1>1 DEF Fits
<1>3. /\ Len(kept) \in Nat /\ at <= Len(kept) /\ Root \in Nat /\ dest \in Nat
      /\ 1 <= f /\ f <= l /\ f \in Nat /\ l \in Nat
      /\ UsedBefore(at - 1) \in Nat /\ used[at] = UsedBefore(at - 1) + (l - f + 1)
      /\ used[at] \in Nat
      /\ Len(text) = (l - f + 1) + 1 /\ dest..(dest + (l - f + 1)) \subseteq DOMAIN buffer
  BY CopyPlace, RootOne DEF CopyRange
<1> HIDE DEF f, l, text
<1>10. dest..(dest + Len(text) - 1) \subseteq DOMAIN buffer
  <2>1. dest + Len(text) - 1 = dest + (l - f + 1)
    BY <1>3
  <2> QED
    BY <1>3, <2>1
<1>11. DOMAIN buffer' = DOMAIN buffer /\ stray' = {}
  BY <1>1, <1>2, <1>10 DEF Write
<1>12. Root' = Root /\ UsedBefore(at - 1)' = used[at] /\ at' <= Len(kept) + 1 /\ at' \in Nat \ {0}
  <2>1. at' - 1 = at /\ at # 0
    BY <1>1, <1>2
  <2> QED
    BY <1>1, <1>2, <1>3, <2>1 DEF Root, Absolute, UsedBefore
<1>13. dest' = Root + (at' - 1) + used[at]
  BY <1>1, <1>2, <1>3
<1> QED
  BY <1>1, <1>2, <1>11, <1>12, <1>13 DEF Fits, Stages, InBuffer

LEMMA FitsTerminate == Fits /\ Terminate => Fits'
<1> SUFFICES ASSUME Fits, Terminate PROVE Fits'
  OBVIOUS
<1>1. /\ stage = "copy" /\ stage' = "done" /\ at > Len(kept) /\ Write(dest - 1, << Nul >>)
      /\ UNCHANGED << path, at, kept, length, used >>
  BY DEF Terminate
<1>2. /\ Measured(path, kept, used, length) /\ stray = {} /\ at \in Nat \ {0}
      /\ at <= Len(kept) + 1
      /\ dest = Root + (at - 1) + UsedBefore(at - 1)
      /\ DOMAIN buffer = 0..(length + Root + Len(kept) - 1)
  BY <1>1 DEF Fits
<1>3. Len(kept) \in Nat /\ length \in Nat /\ Root \in {0, 1} /\ at = Len(kept) + 1
      /\ kept \in Seq(Nat \X Nat)
  BY <1>1, <1>2, LenProperties, RootOne DEF Measured
<1>4. UsedBefore(Len(kept)) \in Nat /\ UsedBefore(Len(kept)) <= length
  <2>1. CASE Len(kept) = 0
    BY <1>3, <2>1 DEF UsedBefore
  <2>2. CASE Len(kept) # 0
    <3>1. Len(kept) \in 1..Len(kept)
      BY <1>3, <2>2
    <3>2. used[Len(kept)] \in Nat /\ used[Len(kept)] <= length
      BY <1>2, <3>1, ElementOfSeq DEF Measured
    <3> QED
      BY <2>2, <3>2 DEF UsedBefore
  <2> QED
    BY <2>1, <2>2
<1>5. dest = Root + Len(kept) + UsedBefore(Len(kept))
  BY <1>2, <1>3
<1>6. stray' = {dest - 1} \ DOMAIN buffer
  <2>1. Len(<< Nul >>) = 1 /\ dest \in Nat
    BY <1>3, <1>4, <1>5
  <2>2. (dest - 1)..(dest - 1 + 1 - 1) = {dest - 1}
    BY <2>1
  <2> QED
    BY <1>1, <1>2, <2>1, <2>2 DEF Write
<1>7. stray' # {} => kept = << >> /\ Root = 0 /\ stray' = {-1}
  <2> SUFFICES ASSUME stray' # {} PROVE kept = << >> /\ Root = 0 /\ stray' = {-1}
    OBVIOUS
  <2>1. dest - 1 \notin 0..(length + Root + Len(kept) - 1)
    BY <1>2, <1>6
  <2>2. Len(kept) = 0 /\ Root = 0
    BY <1>3, <1>4, <1>5, <2>1
  <2>3. UsedBefore(Len(kept)) = 0
    BY <2>2 DEF UsedBefore
  <2>4. dest - 1 = -1
    BY <1>5, <2>2, <2>3
  <2> QED
    BY <1>2, <1>3, <1>6, <2>1, <2>2, <2>4, EmptySeq
<1>8. Absolute' = Absolute
  BY <1>1 DEF Absolute
<1> QED
  BY <1>1, <1>2, <1>7, <1>8, RootOne DEF Fits, Stages, InBuffer

LEMMA FitsNext == Fits /\ [Next]_vars => Fits'
<1> SUFFICES ASSUME Fits, [Next]_vars PROVE Fits'
  OBVIOUS
<1>1. CASE UNCHANGED pathVars
  BY <1>1 DEF Fits, pathVars, InBuffer, Absolute, Root, UsedBefore
<1>2. ASSUME NEW p, IsPath(p), NormalizePathName(p) PROVE Fits'
  <2>1. /\ path' = p /\ stage' \in {"done", "split"} /\ stage = "idle"
        /\ UNCHANGED << at, kept, length, used, stray >>
    BY <1>2 DEF NormalizePathName
  <2>2. kept = << >> /\ used = << >> /\ stray = {} /\ length \in Nat /\ at \in Nat \ {0}
    BY <2>1 DEF Fits, Measured
  <2>3. Measured(p, << >>, << >>, length)
    <3>1. \A j \in 1..Len(<< >>) : FALSE
      OBVIOUS
    <3> QED
      BY <1>2, <2>2, <3>1, EmptySeq DEF Measured, IsPath
  <2> QED
    BY <2>1, <2>2, <2>3 DEF Fits, Stages, InBuffer
<1>3. CASE Return
  <2>1. /\ stage' = "idle" /\ path' = << >> /\ at' = 1 /\ kept' = << >> /\ length' = 0
        /\ used' = << >> /\ stray' = {}
    BY <1>3 DEF Return
  <2>2. Measured(<< >>, << >>, << >>, 0)
    <3>1. \A j \in 1..Len(<< >>) : FALSE
      OBVIOUS
    <3> QED
      BY <3>1, EmptySeq DEF Measured
  <2> QED
    BY <2>1, <2>2 DEF Fits, Stages, InBuffer
<1> QED
  BY <1>1, <1>2, <1>3, FitsSplit, FitsAllocate, FitsCopy, FitsTerminate, PathSteps

(* Whatever the path, and whatever else the database is doing: the only    *)
(* write that misses the buffer is the one before it, for a relative path  *)
(* of which nothing remains.                                               *)
THEOREM PathInBuffer == Spec => []InBuffer
<1>1. Fits => InBuffer
  BY DEF Fits
<1> QED
  BY <1>1, FitsInit, FitsNext, PTL DEF Spec

-----------------------------------------------------------------------------
(* The name. *)

(* A character of a name.  That a literal is in STRING the provers do not  *)
(* know.                                                                   *)
Char == STRING \cup {"/"}

LEMMA SeqOfMore ==
  ASSUME NEW S, NEW T, S \subseteq T, NEW s \in Seq(S)
  PROVE  s \in Seq(T)
<1>1. Len(s) \in Nat /\ s \in [1..Len(s) -> T]
  BY LenProperties, ElementOfSeq
<1> QED
  BY <1>1

LEMMA PathOfChars ==
  ASSUME NEW s \in Seq(STRING)
  PROVE  s \in Seq(Char)
BY SeqOfMore DEF Char

(* What is true of the words of a path.                                    *)
LEMMA WordFacts ==
  ASSUME path \in Seq(Char)
  PROVE  /\ Len(path) \in Nat /\ IsFiniteSet(Words)
         /\ Up \subseteq Words /\ Down \subseteq Words /\ Up \cap Down = {}
         /\ \A w \in Words : /\ w = << w[1], w[2] >> /\ w[1] \in 1..Len(path)
                             /\ w[2] \in 1..Len(path) /\ w[1] <= w[2]
<1>1. Len(path) \in Nat
  BY LenProperties
<1>2. Words \subseteq (1..Len(path)) \X (1..Len(path))
  BY DEF Words
<1>3. IsFiniteSet((1..Len(path)) \X (1..Len(path)))
  <2>1. IsFiniteSet(1..Len(path))
    BY <1>1, FS_Interval
  <2> QED
    BY <2>1, FS_Product
<1>4. IsFiniteSet(Words)
  BY <1>2, <1>3, FS_Subset
<1>5. Up \subseteq Words /\ Down \subseteq Words
  BY DEF Up, Down
<1>6. Up \cap Down = {}
  BY DEF Up, Down
<1>7. \A w \in Words : /\ w = << w[1], w[2] >> /\ w[1] \in 1..Len(path)
                       /\ w[2] \in 1..Len(path) /\ w[1] <= w[2]
  BY DEF Words
<1> QED
  BY <1>1, <1>4, <1>5, <1>6, <1>7

(* Two words do not overlap.                                               *)
LEMMA WordsApart ==
  ASSUME path \in Seq(Char), NEW v \in Words, NEW w \in Words
  PROVE  /\ v[1] < w[1] => v[2] < w[1]
         /\ v[1] = w[1] => v = w
<1>1. Len(path) \in Nat
  BY LenProperties
<1>2. ASSUME v[1] < w[1], ~(v[2] < w[1]) PROVE FALSE
  <2>1. w[1] - 1 \in v[1]..v[2] /\ w[1] # 1
    BY <1>1, <1>2, WordFacts
  <2> QED
    BY <2>1 DEF Words
<1>3. ASSUME NEW x \in Words, NEW y \in Words, x[1] = y[1], x[2] < y[2] PROVE FALSE
  <2>1. x[2] + 1 \in y[1]..y[2] /\ x[2] # Len(path)
    BY <1>1, <1>3, WordFacts
  <2>2. path[x[2] + 1] = "/"
    BY <2>1 DEF Words
  <2>3. path[x[2] + 1] # "/"
    BY <2>1 DEF Words
  <2> QED
    BY <2>2, <2>3
<1>4. v[1] = w[1] => v[2] = w[2]
  <2> SUFFICES ASSUME v[1] = w[1], v[2] # w[2] PROVE FALSE
    OBVIOUS
  <2>1. v[2] < w[2] \/ w[2] < v[2]
    BY WordFacts
  <2> QED
    BY <1>3, <2>1
<1> QED
  BY <1>2, <1>4, WordFacts

(* The loop is at the begin of the path, after a / or at the end.          *)
AtBoundary == at \in Nat \ {0} /\ (at = 1 \/ at > Len(path) + 1 \/ path[at - 1] = "/")

(* The word that it finds is the only one that begins before the place     *)
(* where it goes on.                                                       *)
LEMMA NextWord ==
  ASSUME path \in Seq(Char), AtBoundary,
         NEW f \in 1..Len(path), NEW l \in 1..Len(path), Component(f, l)
  PROVE  /\ << f, l >> \in Words /\ at <= f /\ f <= l
         /\ \A w \in Words : w[1] < l + 2 <=> (w[1] < at \/ w = << f, l >>)
<1>1. Len(path) \in Nat /\ at \in Nat \ {0} /\ at <= f /\ f <= l
  BY LenProperties DEF AtBoundary, Component
<1>2. f = 1 \/ path[f - 1] = "/"
  <2>1. CASE f > at
    <3>1. f - 1 \in at..(f - 1)
      BY <1>1, <2>1
    <3> QED
      BY <3>1 DEF Component
  <2>2. CASE f = at
    BY <1>1, <2>2 DEF AtBoundary
  <2> QED
    BY <1>1, <2>1, <2>2
<1>3. l = Len(path) \/ path[l + 1] = "/"
  <2>1. l = Len(path) \/ l < Len(path)
    BY <1>1
  <2> QED
    BY <2>1 DEF Component
<1>4. << f, l >> \in Words
  BY <1>1, <1>2, <1>3 DEF Words, Component
<1>5. ASSUME NEW w \in Words, w[1] < l + 2, ~(w[1] < at)
      PROVE  w = << f, l >>
  <2>1. w[1] \in 1..Len(path) /\ w[2] \in 1..Len(path) /\ w[1] <= w[2]
    BY WordFacts
  <2>2. path[w[1]] # "/"
    BY <2>1 DEF Words
  <2>3. ~(w[1] < f)
    <3> SUFFICES ASSUME w[1] < f PROVE FALSE
      OBVIOUS
    <3>1. w[1] \in at..(f - 1)
      BY <1>1, <1>5, <2>1
    <3> QED
      BY <2>2, <3>1 DEF Component
  <2>4. w[1] # l + 1
    <3> SUFFICES ASSUME w[1] = l + 1 PROVE FALSE
      OBVIOUS
    <3>1. l < Len(path)
      BY <1>1, <2>1
    <3> QED
      BY <2>2, <3>1 DEF Component
  <2>5. w[1] <= l
    BY <1>5, <2>1, <2>4
  <2>6. ~(f < w[1])
    <3> SUFFICES ASSUME f < w[1] PROVE FALSE
      OBVIOUS
    <3>1. f < w[1] => l < w[1]
      BY <1>4, WordsApart
    <3> QED
      BY <1>1, <2>1, <2>5, <3>1
  <2>7. w[1] = f
    BY <2>1, <2>3, <2>6
  <2> QED
    BY <1>4, <2>7, WordsApart
<1>6. ASSUME NEW w \in Words, w[1] < at PROVE w[1] < l + 2
  BY <1>1, <1>6, WordFacts
<1>7. f < l + 2
  BY <1>1
<1> QED
  BY <1>1, <1>4, <1>5, <1>6, <1>7

(* The words of S between w and the place n.                               *)
After(S, w, n) == {x \in S : w[1] < x[1] /\ x[1] < n}

(* The components that survive the words before n.                         *)
Standing(n) ==
  {w \in Down : w[1] < n /\ \A v \in Up :
     w[1] < v[1] /\ v[1] < n => Between(Up, w, v) <= Between(Down, w, v)}

(* They are the ones that k has, in order; and behind each of them there   *)
(* are more components than .., by as many as k still has.                 *)
Remain(k, n) ==
  /\ \A w : w \in Standing(n) <=> \E j \in 1..Len(k) : k[j] = w
  /\ \A i, j \in 1..Len(k) : i < j => k[i][1] < k[j][1]
  /\ \A j \in 1..Len(k) :
       Cardinality(After(Down, k[j], n)) = Cardinality(After(Up, k[j], n)) + (Len(k) - j)

(* What the next word, from f to l, adds to those of S behind w.           *)
Adds(S, w, f, l) ==
  /\ Cardinality(After(S, w, at)) \in Nat
  /\ Cardinality(After(S, w, l + 2)) =
       Cardinality(After(S, w, at)) + (IF << f, l >> \in S THEN 1 ELSE 0)
  /\ Between(S, w, << f, l >>) = Cardinality(After(S, w, l + 2))

LEMMA AfterNext ==
  ASSUME path \in Seq(Char), AtBoundary,
         NEW f \in 1..Len(path), NEW l \in 1..Len(path), Component(f, l),
         NEW S \in SUBSET Words, NEW w \in Words, w[1] < at
  PROVE  Adds(S, w, f, l)
<1> DEFINE x == << f, l >>
<1>1. /\ x \in Words /\ at <= f /\ f <= l /\ x[1] = f
      /\ \A v \in Words : v[1] < l + 2 <=> (v[1] < at \/ v = x)
  BY NextWord
<1>2. /\ at \in Nat /\ Len(path) \in Nat /\ IsFiniteSet(Words)
      /\ \A v \in Words : v[1] \in 1..Len(path)
  BY WordFacts DEF AtBoundary
<1> HIDE DEF x
<1>3. w[1] < f /\ ~(f < at)
  BY <1>1, <1>2
<1>4. After(S, w, l + 2) = After(S, w, at) \cup (IF x \in S THEN {x} ELSE {})
  BY <1>1, <1>3 DEF After
<1>5. x \notin After(S, w, at)
  BY <1>1, <1>3 DEF After
<1>6. After(S, w, at) \subseteq Words /\ After(S, w, l + 2) \subseteq Words
  BY DEF After
<1>7. IsFiniteSet(After(S, w, at)) /\ IsFiniteSet(After(S, w, l + 2))
  BY <1>2, <1>6, FS_Subset
<1>8. \A y \in Words : y[1] <= f <=> y[1] < l + 2
  <2> TAKE y \in Words
  <2>1. y[1] <= f => y[1] < l + 2
    BY <1>1, <1>2
  <2>2. y[1] < at => y[1] <= f
    BY <1>1, <1>2
  <2>3. y = x => y[1] <= f
    BY <1>1
  <2> QED
    BY <1>1, <2>1, <2>2, <2>3
<1>9. Between(S, w, x) = Cardinality(After(S, w, l + 2))
  <2>1. {y \in S : w[1] < y[1] /\ y[1] <= x[1]} = After(S, w, l + 2)
    BY <1>1, <1>8 DEF After
  <2> QED
    BY <2>1 DEF Between
<1> DEFINE A == After(S, w, at)
<1> HIDE DEF A
<1>10. Cardinality(A) \in Nat
  BY <1>7, FS_CardinalityType DEF A
<1>11. Cardinality(After(S, w, l + 2)) = Cardinality(A) + (IF x \in S THEN 1 ELSE 0)
  <2>1. CASE x \in S
    <3>1. Cardinality(A \cup {x}) = Cardinality(A) + 1
      BY <1>5, <1>7, FS_AddElement DEF A
    <3> QED
      BY <1>4, <2>1, <3>1 DEF A
  <2>2. CASE x \notin S
    <3>1. After(S, w, l + 2) = A
      BY <1>4, <2>2 DEF A
    <3> QED
      BY <1>10, <2>2, <3>1
  <2> QED
    BY <2>1, <2>2
<1> QED
  BY <1>9, <1>10, <1>11 DEF x, A, Adds

(* Which components survive the next word.                                 *)
LEMMA StandingNext ==
  ASSUME path \in Seq(Char), AtBoundary,
         NEW f \in 1..Len(path), NEW l \in 1..Len(path), Component(f, l)
  PROVE  \A w : w \in Standing(l + 2) <=>
           \/ w \in Standing(at) /\
                (<< f, l >> \in Up => Between(Up, w, << f, l >>) <= Between(Down, w, << f, l >>))
           \/ w = << f, l >> /\ << f, l >> \in Down
<1> DEFINE x == << f, l >>
           Stays(w) == x \in Up => Between(Up, w, x) <= Between(Down, w, x)
<1>1. /\ x \in Words /\ at <= f /\ f <= l /\ x[1] = f
      /\ \A v \in Words : v[1] < l + 2 <=> (v[1] < at \/ v = x)
  BY NextWord
<1>2. /\ at \in Nat /\ Up \subseteq Words /\ Down \subseteq Words /\ Up \cap Down = {}
      /\ \A v \in Words : v[1] \in 1..Len(path)
      /\ Len(path) \in Nat
  BY WordFacts DEF AtBoundary
<1> HIDE DEF x
<1>3. ASSUME NEW w, w \in Standing(l + 2)
      PROVE  (w \in Standing(at) /\ Stays(w)) \/ (w = x /\ x \in Down)
  <2>1. w \in Down /\ w \in Words /\ w[1] < l + 2
    BY <1>2, <1>3 DEF Standing
  <2>2. CASE w = x
    BY <2>1, <2>2
  <2>3. CASE w # x
    <3>1. w[1] < at
      BY <1>1, <2>1, <2>3
    <3>2. w \in Standing(at)
      <4>1. \A v \in Up : v[1] < at => v[1] < l + 2
        BY <1>1, <1>2
      <4> QED
        BY <1>3, <3>1, <4>1 DEF Standing
    <3>3. w[1] < x[1] /\ x[1] < l + 2
      BY <1>1, <1>2, <2>1, <3>1
    <3>4. Stays(w)
      BY <1>3, <3>3 DEF Standing
    <3> QED
      BY <3>2, <3>4
  <2> QED
    BY <2>2, <2>3
<1>4. ASSUME NEW w, w \in Standing(at), Stays(w)
      PROVE  w \in Standing(l + 2)
  <2>1. w \in Down /\ w \in Words /\ w[1] < at
    BY <1>2, <1>4 DEF Standing
  <2>2. w[1] < l + 2
    BY <1>1, <2>1
  <2>3. ASSUME NEW v \in Up, w[1] < v[1], v[1] < l + 2
        PROVE  Between(Up, w, v) <= Between(Down, w, v)
    <3>1. v[1] < at \/ v = x
      BY <1>1, <1>2, <2>3
    <3>2. CASE v[1] < at
      BY <1>4, <2>3, <3>2 DEF Standing
    <3>3. CASE v = x
      BY <1>4, <2>3, <3>3
    <3> QED
      BY <3>1, <3>2, <3>3
  <2> QED
    BY <2>1, <2>2, <2>3 DEF Standing
<1>5. ASSUME x \in Down PROVE x \in Standing(l + 2)
  <2>1. x[1] < l + 2
    BY <1>1, <1>2
  <2>2. \A v \in Up : ~(x[1] < v[1] /\ v[1] < l + 2)
    <3> SUFFICES ASSUME NEW v \in Up, x[1] < v[1], v[1] < l + 2 PROVE FALSE
      OBVIOUS
    <3>1. v[1] < at \/ v = x
      BY <1>1, <1>2
    <3> QED
      BY <1>1, <1>2, <3>1
  <2> QED
    BY <1>5, <2>1, <2>2 DEF Standing
<1> QED
  BY <1>3, <1>4, <1>5 DEF x

(* What the loop keeps is what survives.                                   *)
LEMMA RemainNext ==
  ASSUME path \in Seq(Char), AtBoundary, NEW k \in Seq(Nat \X Nat), Remain(k, at),
         NEW f \in 1..Len(path), NEW l \in 1..Len(path), Component(f, l)
  PROVE  /\ Spelled(<< f, l >>) = << ".", "." >> => Remain(Parent(k), l + 2)
         /\ Spelled(<< f, l >>) = << "." >> => Remain(k, l + 2)
         /\ Spelled(<< f, l >>) \notin {<< ".", "." >>, << "." >>} =>
              Remain(Append(k, << f, l >>), l + 2)
<1> DEFINE x == << f, l >>
           n == Len(k)
<1>1. /\ x \in Words /\ at <= f /\ f <= l /\ x[1] = f
      /\ \A v \in Words : v[1] < l + 2 <=> (v[1] < at \/ v = x)
  BY NextWord
<1>2. /\ at \in Nat /\ Up \subseteq Words /\ Down \subseteq Words /\ Up \cap Down = {}
      /\ Len(path) \in Nat /\ n \in Nat
  BY WordFacts, LenProperties DEF AtBoundary
<1>3. /\ x \in Up <=> Spelled(x) = << ".", "." >>
      /\ x \in Down <=> Spelled(x) \notin {<< ".", "." >>, << "." >>}
  BY <1>1 DEF Up, Down
<1>4. \A w : w \in Standing(l + 2) <=>
         \/ w \in Standing(at) /\ (x \in Up => Between(Up, w, x) <= Between(Down, w, x))
         \/ w = x /\ x \in Down
  BY StandingNext
<1>5. \A w \in Standing(at) : w \in Words /\ w[1] < at
  BY <1>2 DEF Standing
<1>6. \A j \in 1..n : k[j] \in Standing(at)
  BY DEF Remain
<1>7. ASSUME NEW j \in 1..n
      PROVE  /\ Cardinality(After(Up, k[j], at)) \in Nat
             /\ Cardinality(After(Down, k[j], at)) = Cardinality(After(Up, k[j], at)) + (n - j)
             /\ Cardinality(After(Up, k[j], l + 2)) =
                  Cardinality(After(Up, k[j], at)) + (IF x \in Up THEN 1 ELSE 0)
             /\ Cardinality(After(Down, k[j], l + 2)) =
                  Cardinality(After(Down, k[j], at)) + (IF x \in Down THEN 1 ELSE 0)
             /\ Between(Up, k[j], x) = Cardinality(After(Up, k[j], l + 2))
             /\ Between(Down, k[j], x) = Cardinality(After(Down, k[j], l + 2))
  <2>1. k[j] \in Words /\ k[j][1] < at
    BY <1>5, <1>6
  <2>2. Up \in SUBSET Words /\ Down \in SUBSET Words
    BY <1>2
  <2>3. Cardinality(After(Down, k[j], at)) = Cardinality(After(Up, k[j], at)) + (n - j)
    BY DEF Remain
  <2>4. Adds(Up, k[j], f, l) /\ Adds(Down, k[j], f, l)
    BY <2>1, <2>2, AfterNext
  <2> QED
    BY <2>3, <2>4 DEF Adds
<1> HIDE DEF x
<1>8. ASSUME x \in Up PROVE Remain(Parent(k), l + 2)
  <2>0. x \notin Down
    BY <1>2, <1>8
  <2>1. CASE k = << >>
    <3>1. Parent(k) = << >> /\ Len(<< >>) = 0 /\ n = 0
      BY <2>1 DEF Parent
    <3>2. \A w : w \notin Standing(l + 2)
      BY <1>4, <2>0, <3>1 DEF Remain
    <3> QED
      BY <3>1, <3>2 DEF Remain
  <2>2. CASE k # << >>
    <3>1. /\ n \in Nat \ {0} /\ Len(Parent(k)) = n - 1
          /\ \A j \in 1..(n - 1) : Parent(k)[j] = k[j]
      BY <2>2, ParentDropsLast
    <3>2. PICK m \in Nat : m = n - 1
      BY <3>1
    <3>3. PICK p : p = Parent(k)
      OBVIOUS
    <3>4. \A j \in 1..m : p[j] = k[j] /\ j \in 1..n
      BY <3>1, <3>2, <3>3
    <3>5. \A j \in 1..n : k[j] \in Standing(l + 2) <=> j \in 1..m
      <4> TAKE j \in 1..n
      <4>1. Between(Up, k[j], x) <= Between(Down, k[j], x) <=> j \in 1..m
        <5>1. n - j >= 1 <=> j \in 1..m
          BY <3>1, <3>2
        <5>2. /\ Between(Up, k[j], x) = Cardinality(After(Up, k[j], at)) + 1
              /\ Between(Down, k[j], x) = Cardinality(After(Up, k[j], at)) + (n - j)
              /\ Cardinality(After(Up, k[j], at)) \in Nat
          BY <1>2, <1>7, <1>8, <2>0
        <5> QED
          BY <1>2, <5>1, <5>2
      <4> QED
        BY <1>4, <1>6, <1>8, <2>0, <4>1
    <3>6. \A w : w \in Standing(l + 2) <=> \E j \in 1..m : p[j] = w
      <4> TAKE w
      <4>1. ASSUME w \in Standing(l + 2) PROVE \E j \in 1..m : p[j] = w
        <5>1. w \in Standing(at)
          BY <1>4, <2>0, <4>1
        <5>2. PICK j \in 1..n : k[j] = w
          BY <5>1 DEF Remain
        <5> QED
          BY <3>4, <3>5, <4>1, <5>2
      <4>2. ASSUME NEW j \in 1..m, p[j] = w PROVE w \in Standing(l + 2)
        BY <3>4, <3>5, <4>2
      <4> QED
        BY <4>1, <4>2
    <3>7. \A i, j \in 1..m : i < j => p[i][1] < p[j][1]
      BY <3>4 DEF Remain
    <3>8. ASSUME NEW j \in 1..m
          PROVE  Cardinality(After(Down, p[j], l + 2)) =
                   Cardinality(After(Up, p[j], l + 2)) + (m - j)
      <4>1. p[j] = k[j] /\ j \in 1..n
        BY <3>4
      <4> QED
        BY <1>2, <1>7, <1>8, <2>0, <3>2, <4>1
    <3>9. Len(p) = m
      BY <3>1, <3>2, <3>3
    <3> QED
      BY <3>3, <3>6, <3>7, <3>8, <3>9 DEF Remain
  <2> QED
    BY <2>1, <2>2
<1>9. ASSUME x \notin Up, x \notin Down PROVE Remain(k, l + 2)
  <2>1. \A w : w \in Standing(l + 2) <=> w \in Standing(at)
    BY <1>4, <1>9
  <2>2. ASSUME NEW j \in 1..n
        PROVE  Cardinality(After(Down, k[j], l + 2)) =
                 Cardinality(After(Up, k[j], l + 2)) + (n - j)
    BY <1>2, <1>7, <1>9
  <2> QED
    BY <2>1, <2>2 DEF Remain
<1>10. ASSUME x \in Down PROVE Remain(Append(k, x), l + 2)
  <2>0. x \notin Up
    BY <1>2, <1>10
  <2>1. PICK p : p = Append(k, x)
    OBVIOUS
  <2>2. PICK m \in Nat : m = n + 1
    BY <1>2
  <2>3. Len(p) = m /\ p[m] = x /\ \A j \in 1..n : p[j] = k[j]
    <3>1. x \in Nat \X Nat
      BY <1>2 DEF x
    <3> QED
      BY <2>1, <2>2, <3>1, AppendProperties
  <2>4. \A j \in 1..m : j = m \/ j \in 1..n
    BY <1>2, <2>2
  <2>5. \A w : w \in Standing(l + 2) <=> w \in Standing(at) \/ w = x
    BY <1>4, <1>10, <2>0
  <2>6. \A w : w \in Standing(l + 2) <=> \E j \in 1..m : p[j] = w
    <3> TAKE w
    <3>1. ASSUME w \in Standing(at) PROVE \E j \in 1..m : p[j] = w
      <4>1. PICK j \in 1..n : k[j] = w
        BY <3>1 DEF Remain
      <4> QED
        BY <1>2, <2>2, <2>3, <4>1
    <3>2. m \in 1..m
      BY <1>2, <2>2
    <3>3. ASSUME NEW j \in 1..m, p[j] = w PROVE w \in Standing(at) \/ w = x
      BY <1>6, <2>3, <2>4, <3>3
    <3> QED
      BY <2>3, <2>5, <3>1, <3>2, <3>3
  <2>7. \A i, j \in 1..m : i < j => p[i][1] < p[j][1]
    <3> TAKE i, j \in 1..m
    <3> HAVE i < j
    <3>1. i \in 1..n
      BY <1>2, <2>2
    <3>2. CASE j \in 1..n
      BY <2>3, <3>1, <3>2 DEF Remain
    <3>3. CASE j = m
      <4>1. k[i][1] < at /\ k[i] \in Words
        BY <1>5, <1>6, <3>1
      <4>2. k[i][1] < f
        BY <1>1, <1>2, <4>1, WordFacts
      <4> QED
        BY <1>1, <2>3, <3>1, <3>3, <4>2
    <3> QED
      BY <2>4, <3>2, <3>3
  <2>8. ASSUME NEW j \in 1..m
        PROVE  Cardinality(After(Down, p[j], l + 2)) =
                 Cardinality(After(Up, p[j], l + 2)) + (m - j)
    <3>1. CASE j \in 1..n
      <4>1. /\ Cardinality(After(Up, k[j], at)) \in Nat
            /\ Cardinality(After(Up, k[j], l + 2)) = Cardinality(After(Up, k[j], at))
            /\ Cardinality(After(Down, k[j], l + 2)) = Cardinality(After(Up, k[j], at)) + (n - j) + 1
        BY <1>2, <1>7, <1>10, <2>0, <3>1
      <4>2. p[j] = k[j]
        BY <2>3, <3>1
      <4> QED
        BY <1>2, <2>2, <4>1, <4>2
    <3>2. CASE j = m
      <4>1. \A y \in Words : ~(x[1] < y[1] /\ y[1] < l + 2)
        <5> SUFFICES ASSUME NEW y \in Words, f < y[1], y[1] < l + 2 PROVE FALSE
          BY <1>1
        <5>1. y[1] \in Nat
          BY WordFacts
        <5>2. y[1] < at \/ y = x
          BY <1>1
        <5> QED
          BY <1>1, <1>2, <5>1, <5>2
      <4>2. After(Down, x, l + 2) = {} /\ After(Up, x, l + 2) = {}
        BY <1>2, <4>1 DEF After
      <4>3. Cardinality({}) = 0
        BY FS_EmptySet
      <4>4. p[j] = x
        BY <2>3, <3>2
      <4>5. m - j = 0 /\ 0 + 0 = 0
        BY <3>2
      <4> QED
        BY <4>2, <4>3, <4>4, <4>5
    <3> QED
      BY <2>4, <3>1, <3>2
  <2> QED
    BY <2>1, <2>3, <2>6, <2>7, <2>8 DEF Remain
<1>11. << ".", "." >> # << "." >>
  OBVIOUS
<1> QED
  BY <1>3, <1>8, <1>9, <1>10, <1>11, Zenon DEF x

(* What Joined is, from its recursive definition.                          *)
Ending(i) == \E w \in Survivors : w[2] = i
JoinedAt(c, i) ==
  IF i = 0 THEN IF Absolute THEN << "/" >> ELSE << >>
  ELSE IF Ending(i)
       THEN c[i - 1] \o Spelled(CHOOSE w \in Survivors : w[2] = i) \o << "/" >>
       ELSE c[i - 1]

LEMMA SpelledIs ==
  ASSUME path \in Seq(Char), NEW w \in Words
  PROVE  /\ Spelled(w) \in Seq(Char) /\ Len(Spelled(w)) = w[2] - w[1] + 1
         /\ \A j \in 1..(w[2] - w[1] + 1) : Spelled(w)[j] = path[w[1] + j - 1]
<1>1. w[1] \in 1..Len(path) /\ w[2] \in 1..Len(path) /\ w[1] <= w[2] /\ Len(path) \in Nat
  BY WordFacts
<1>2. \A j \in w[1]..w[2] : path[j] \in Char
  BY <1>1, ElementOfSeq
<1>3. PICK f \in Int, l \in Int : f = w[1] /\ l = w[2]
  BY <1>1
<1>4. /\ SubSeq(path, f, l) \in Seq(Char)
      /\ Len(SubSeq(path, f, l)) = IF f <= l THEN l - f + 1 ELSE 0
      /\ \A j \in 1..(l - f + 1) : SubSeq(path, f, l)[j] = path[f + j - 1]
  BY <1>1, <1>2, <1>3, SubSeqProperties
<1> QED
  BY <1>1, <1>3, <1>4 DEF Spelled

LEMMA Pieces ==
  ASSUME NEW S, NEW q \in Seq(S), NEW t \in Seq(S), NEW c \in S
  PROVE  /\ << c >> \in Seq(S) /\ << >> \in Seq(S)
         /\ q \o t \o << c >> \in Seq(S)
         /\ Len(q) \in Nat /\ Len(t) \in Nat
         /\ Len(q \o t \o << c >>) = Len(q) + Len(t) + 1
         /\ \A j \in 1..(Len(q) + Len(t) + 1) :
              (q \o t \o << c >>)[j] = IF j <= Len(q) THEN q[j]
                                      ELSE IF j <= Len(q) + Len(t) THEN t[j - Len(q)] ELSE c
<1>1. << c >> \in Seq(S) /\ << >> \in Seq(S) /\ Len(<< c >>) = 1 /\ << c >>[1] = c
  OBVIOUS
<1>2. PICK d : d = << c >>
  OBVIOUS
<1>3. d \in Seq(S) /\ Len(d) = 1 /\ d[1] = c
  BY <1>1, <1>2
<1>4. PICK r : r = q \o t
  OBVIOUS
<1>5. Len(q) \in Nat /\ Len(t) \in Nat
  BY LenProperties
<1>6. /\ r \in Seq(S) /\ Len(r) = Len(q) + Len(t)
      /\ \A j \in 1..(Len(q) + Len(t)) : r[j] = IF j <= Len(q) THEN q[j] ELSE t[j - Len(q)]
  BY <1>4, ConcatProperties
<1>7. /\ r \o d \in Seq(S) /\ Len(r \o d) = Len(q) + Len(t) + 1
      /\ \A j \in 1..(Len(q) + Len(t) + 1) :
           (r \o d)[j] = IF j <= Len(q) + Len(t) THEN r[j] ELSE d[j - (Len(q) + Len(t))]
  <2>1. /\ r \o d \in Seq(S) /\ Len(r \o d) = Len(r) + Len(d)
        /\ \A j \in 1..(Len(r) + Len(d)) :
             (r \o d)[j] = IF j <= Len(r) THEN r[j] ELSE d[j - Len(r)]
    <3>1. r \in Seq(S) /\ d \in Seq(S)
      BY <1>3, <1>6
    <3> QED
      BY <3>1, ConcatProperties
  <2> QED
    BY <1>3, <1>6, <2>1
<1>8. ASSUME NEW j \in 1..(Len(q) + Len(t) + 1)
      PROVE  (r \o d)[j] = IF j <= Len(q) THEN q[j]
                           ELSE IF j <= Len(q) + Len(t) THEN t[j - Len(q)] ELSE c
  <2>1. CASE j <= Len(q) + Len(t)
    <3>1. j \in 1..(Len(q) + Len(t))
      BY <1>5, <2>1
    <3> QED
      BY <1>5, <1>6, <1>7, <2>1, <3>1
  <2>2. CASE ~(j <= Len(q) + Len(t))
    <3>1. j - (Len(q) + Len(t)) = 1 /\ ~(j <= Len(q))
      BY <1>5, <2>2
    <3> QED
      BY <1>3, <1>7, <2>2, <3>1
  <2> QED
    BY <2>1, <2>2
<1>9. r \o d = q \o t \o << c >>
  BY <1>2, <1>4
<1>10. /\ q \o t \o << c >> \in Seq(S)
       /\ Len(q \o t \o << c >>) = Len(q) + Len(t) + 1
       /\ \A j \in 1..(Len(q) + Len(t) + 1) :
            (q \o t \o << c >>)[j] = IF j <= Len(q) THEN q[j]
                                    ELSE IF j <= Len(q) + Len(t) THEN t[j - Len(q)] ELSE c
  <2> HIDE <1>2, <1>4
  <2> QED
    BY <1>7, <1>8, <1>9, Zenon
<1> QED
  BY <1>1, <1>5, <1>10

LEMMA JoinedIs ==
  ASSUME path \in Seq(Char)
  PROVE  \A i \in 0..Len(path) : Joined[i] = JoinedAt(Joined, i)
<1> DEFINE n == Len(path)
           X == Seq(Char)
           more == [p \in Nat \X X |->
                      IF Ending(p[1] + 1)
                      THEN p[2] \o Spelled(CHOOSE w \in Survivors : w[2] = p[1] + 1) \o << "/" >>
                      ELSE p[2]]
           first == IF Absolute THEN << "/" >> ELSE << >>
<1>1. n \in Nat
  BY LenProperties
<1>2. more \in [Nat \X X -> X]
  <2> SUFFICES ASSUME NEW k \in Nat, NEW q \in X, Ending(k + 1)
               PROVE  q \o Spelled(CHOOSE w \in Survivors : w[2] = k + 1) \o << "/" >> \in X
    OBVIOUS
  <2> DEFINE w == CHOOSE w \in Survivors : w[2] = k + 1
  <2>1. w \in Survivors
    BY DEF Ending
  <2>2. w \in Words
    BY <2>1, WordFacts DEF Survivors
  <2> HIDE DEF w
  <2>3. Spelled(w) \in X
    BY <2>2, SpelledIs
  <2>4. ASSUME NEW t \in X PROVE q \o t \o << "/" >> \in X
    BY Pieces DEF Char
  <2> QED
    BY <2>3, <2>4 DEF w
<1>3. first \in X
  <2>1. << "/" >> \in X /\ << >> \in X
    <3>1. path \in X /\ "/" \in Char
      BY DEF Char
    <3> QED
      BY <3>1, Pieces
  <2> QED
    BY <2>1
<1> HIDE DEF n, X, more
<1>4. PICK f : Iterates(f, X, first, more)
  <2> HIDE DEF first
  <2> QED
    BY <1>2, <1>3, Iteration
<1>5. f \in [Nat -> X] /\ f[0] = first /\ \A k \in Nat : f[k + 1] = more[<< k, f[k] >>]
  BY <1>4 DEF Iterates
<1> DEFINE h == [i \in 0..n |-> f[i]]
<1>6. ASSUME NEW i \in 0..n PROVE h[i] = JoinedAt(h, i)
  <2>1. CASE i = 0
    BY <1>5, <2>1 DEF JoinedAt
  <2>2. CASE i # 0
    <3>1. i - 1 \in Nat /\ i - 1 \in 0..n /\ i - 1 + 1 = i /\ i \in Nat
      BY <1>1, <2>2
    <3>2. f[i] = more[<< i - 1, f[i - 1] >>] /\ << i - 1, f[i - 1] >> \in Nat \X X
      BY <1>5, <3>1
    <3>3. more[<< i - 1, f[i - 1] >>] =
            IF Ending(i)
            THEN f[i - 1] \o Spelled(CHOOSE w \in Survivors : w[2] = i) \o << "/" >>
            ELSE f[i - 1]
      BY <3>1, <3>2 DEF more
    <3>4. h[i] = f[i] /\ h[i - 1] = f[i - 1]
      BY <3>1
    <3> HIDE DEF h
    <3> QED
      BY <2>2, <3>2, <3>3, <3>4 DEF JoinedAt
  <2> QED
    BY <2>1, <2>2
<1>7. h = [i \in 0..n |-> JoinedAt(h, i)]
  <2>1. h = [i \in 0..n |-> h[i]]
    OBVIOUS
  <2> HIDE DEF h
  <2> QED
    BY <1>6, <2>1
<1> HIDE DEF h
<1>8. Joined = CHOOSE c : c = [i \in 0..n |-> JoinedAt(c, i)]
  BY DEF Joined, JoinedAt, Ending, n
<1>9. Joined = [i \in 0..n |-> JoinedAt(Joined, i)]
  BY <1>7, <1>8, Zenon
<1>10. \A i \in 0..n : [k \in 0..n |-> JoinedAt(Joined, k)][i] = JoinedAt(Joined, i)
  OBVIOUS
<1>11. \A i \in 0..n : Joined[i] = JoinedAt(Joined, i)
  BY <1>9, <1>10, Zenon
<1> QED
  BY <1>11 DEF n

(* Where no survivor ends, nothing is added.                               *)
LEMMA JoinedFlat ==
  ASSUME path \in Seq(Char), NEW a \in 0..Len(path), NEW b \in 0..Len(path), a <= b,
         \A w \in Survivors : ~(a < w[2] /\ w[2] <= b)
  PROVE  Joined[b] = Joined[a]
<1> DEFINE A == {k \in Nat : a + k <= b => Joined[a + k] = Joined[a]}
<1>0. Len(path) \in Nat /\ a \in Nat /\ b \in Nat
  BY LenProperties
<1>1. 0 \in A
  BY <1>0
<1>2. ASSUME NEW k \in Nat, k \in A PROVE k + 1 \in A
  <2> SUFFICES ASSUME a + (k + 1) <= b PROVE Joined[a + (k + 1)] = Joined[a]
    OBVIOUS
  <2>1. PICK i \in Nat : i = a + (k + 1)
    BY <1>0
  <2>2. i \in 0..Len(path) /\ i # 0 /\ a < i /\ i <= b /\ i - 1 = a + k /\ a + k <= b
    BY <1>0, <2>1
  <2>3. ~Ending(i)
    BY <2>2 DEF Ending
  <2>4. Joined[i] = Joined[i - 1]
    BY <2>2, <2>3, JoinedIs DEF JoinedAt
  <2>5. Joined[a + k] = Joined[a]
    BY <1>2, <2>2
  <2> QED
    BY <2>1, <2>2, <2>4, <2>5
<1>3. Nat \subseteq A
  <2> HIDE DEF A
  <2> QED
    BY <1>1, <1>2, InductionOnNat
<1>4. b - a \in A /\ a + (b - a) = b
  BY <1>0, <1>3
<1> QED
  BY <1>4

LEMMA StandingAll ==
  ASSUME path \in Seq(Char)
  PROVE  Standing(Len(path) + 1) = Survivors
<1>1. \A w \in Words : w[1] < Len(path) + 1
  BY WordFacts
<1>2. Up \subseteq Words /\ Down \subseteq Words
  BY WordFacts
<1> QED
  BY <1>1, <1>2 DEF Standing, Survivors

(* Where the first j of them end.                                          *)
Until(k, j) == IF j = 0 THEN 0 ELSE k[j][2]

LEMMA RemainEnds ==
  ASSUME path \in Seq(Char), NEW k \in Seq(Nat \X Nat), Remain(k, Len(path) + 1)
  PROVE  /\ Len(k) \in Nat
         /\ \A j \in 1..Len(k) : k[j] \in Survivors /\ k[j] \in Words
         /\ \A w \in Survivors : \E j \in 1..Len(k) : k[j] = w
         /\ \A i, j \in 1..Len(k) : i < j => k[i][2] < k[j][2]
         /\ \A i, j \in 1..Len(k) : i < j => k[i][2] < k[j][1]
<1>1. Len(k) \in Nat
  BY LenProperties
<1>2. \A w : w \in Survivors <=> \E j \in 1..Len(k) : k[j] = w
  BY StandingAll DEF Remain
<1>3. Survivors \subseteq Words
  BY WordFacts DEF Survivors
<1>4. \A j \in 1..Len(k) : k[j] \in Survivors /\ k[j] \in Words
  BY <1>2, <1>3
<1>5. ASSUME NEW i \in 1..Len(k), NEW j \in 1..Len(k), i < j
      PROVE  k[i][2] < k[j][2] /\ k[i][2] < k[j][1]
  <2>1. k[i][1] < k[j][1]
    BY <1>5 DEF Remain
  <2>2. k[i][2] < k[j][1]
    BY <1>4, <2>1, WordsApart
  <2> QED
    BY <1>4, <2>2, WordFacts
<1> QED
  BY <1>1, <1>2, <1>4, <1>5

LEMMA JoinedStep ==
  ASSUME path \in Seq(Char), NEW k \in Seq(Nat \X Nat), Remain(k, Len(path) + 1),
         NEW j \in 1..Len(k)
  PROVE  Joined[k[j][2]] = Joined[Until(k, j - 1)] \o Spelled(k[j]) \o << "/" >>
<1> DEFINE a == Until(k, j - 1)
           b == k[j][2]
<1>1. /\ Len(k) \in Nat
      /\ \A i \in 1..Len(k) : k[i] \in Survivors /\ k[i] \in Words
      /\ \A w \in Survivors : \E i \in 1..Len(k) : k[i] = w
      /\ \A h, i \in 1..Len(k) : h < i => k[h][2] < k[i][2]
  BY RemainEnds
<1>2. \A i \in 1..Len(k) : k[i][2] \in 1..Len(path)
  BY <1>1, WordFacts
<1>3. Len(path) \in Nat
  BY WordFacts
<1>4. a \in 0..Len(path) /\ a < b /\ b \in 1..Len(path)
  <2>1. CASE j = 1
    BY <1>2, <1>3, <2>1 DEF Until
  <2>2. CASE j # 1
    <3>1. j - 1 \in 1..Len(k) /\ j - 1 < j /\ j - 1 # 0
      BY <1>1, <2>2
    <3>2. k[j - 1][2] < k[j][2]
      BY <1>1, <3>1
    <3>3. k[j - 1][2] \in 1..Len(path) /\ k[j][2] \in 1..Len(path)
      BY <1>2, <3>1
    <3>4. a = k[j - 1][2]
      BY <3>1 DEF Until
    <3> QED
      BY <1>3, <3>2, <3>3, <3>4
  <2> QED
    BY <2>1, <2>2
<1>5. ASSUME NEW w \in Survivors
      PROVE  (w[2] <= a \/ w[2] >= b) /\ (w[2] = b => w = k[j])
  <2>1. PICK i \in 1..Len(k) : k[i] = w
    BY <1>1
  <2>2. CASE i < j
    <3>1. j - 1 \in 1..Len(k) /\ j - 1 # 0 /\ (i < j - 1 \/ i = j - 1)
      BY <1>1, <2>2
    <3>2. a = k[j - 1][2]
      BY <3>1 DEF Until
    <3>3. k[i][2] <= k[j - 1][2]
      <4>1. k[i][2] \in 1..Len(path) /\ k[j - 1][2] \in 1..Len(path)
        BY <1>2, <3>1
      <4>2. CASE i < j - 1
        <5>1. k[i][2] < k[j - 1][2]
          BY <1>1, <3>1, <4>2
        <5> QED
          BY <1>3, <4>1, <5>1
      <4>3. CASE i = j - 1
        BY <1>3, <4>1, <4>3
      <4> QED
        BY <3>1, <4>2, <4>3
    <3> HIDE DEF a, b
    <3>4. w[2] <= a /\ w[2] \in 1..Len(path)
      BY <1>2, <2>1, <3>2, <3>3
    <3>5. ~(b <= a)
      BY <1>3, <1>4
    <3> QED
      BY <1>3, <1>4, <3>4, <3>5
  <2>3. CASE i = j
    BY <1>2, <2>1, <2>3
  <2>4. CASE i > j
    <3>1. k[j][2] < k[i][2]
      BY <1>1, <2>4
    <3> QED
      BY <1>2, <2>1, <3>1
  <2> QED
    BY <2>2, <2>3, <2>4
<1>6. k[j] \in Survivors /\ k[j][2] = b
  BY <1>1
<1> HIDE DEF a, b
<1>7. \A w \in Survivors : w[2] \in Int
  <2> TAKE w \in Survivors
  <2>1. PICK i \in 1..Len(k) : k[i] = w
    BY <1>1
  <2> QED
    BY <1>2, <2>1
<1>8. Joined[b - 1] = Joined[a]
  <2>1. \A w \in Survivors : ~(a < w[2] /\ w[2] <= b - 1)
    <3> TAKE w \in Survivors
    <3>1. w[2] \in Int /\ (w[2] <= a \/ w[2] >= b) /\ a \in Int /\ b \in Int
      BY <1>3, <1>4, <1>5, <1>7
    <3> QED
      BY <3>1
  <2>2. b - 1 \in 0..Len(path) /\ a <= b - 1
    BY <1>3, <1>4
  <2> QED
    BY <1>4, <2>1, <2>2, JoinedFlat
<1>9. (CHOOSE w \in Survivors : w[2] = b) = k[j]
  BY <1>5, <1>6
<1>10. b # 0 /\ b \in 0..Len(path) /\ Ending(b)
  BY <1>3, <1>4, <1>6 DEF Ending
<1>11. Joined[b] = Joined[b - 1] \o Spelled(CHOOSE w \in Survivors : w[2] = b) \o << "/" >>
  BY <1>10, JoinedIs DEF JoinedAt
<1> QED
  BY <1>8, <1>9, <1>11 DEF a, b

LEMMA JoinedEnd ==
  ASSUME path \in Seq(Char), NEW k \in Seq(Nat \X Nat), Remain(k, Len(path) + 1)
  PROVE  Joined[Len(path)] = Joined[Until(k, Len(k))]
<1> DEFINE a == Until(k, Len(k))
<1>1. /\ Len(k) \in Nat /\ Len(path) \in Nat
      /\ \A i \in 1..Len(k) : k[i] \in Words
      /\ \A w \in Survivors : \E i \in 1..Len(k) : k[i] = w
      /\ \A h, i \in 1..Len(k) : h < i => k[h][2] < k[i][2]
  BY RemainEnds, WordFacts
<1>2. \A i \in 1..Len(k) : k[i][2] \in 1..Len(path)
  BY <1>1, WordFacts
<1>3. a \in 0..Len(path) /\ \A i \in 1..Len(k) : k[i][2] <= a
  <2>1. CASE Len(k) = 0
    BY <1>1, <2>1 DEF Until
  <2>2. CASE Len(k) # 0
    <3>1. Len(k) \in 1..Len(k) /\ a = k[Len(k)][2]
      BY <1>1, <2>2 DEF Until
    <3>2. \A i \in 1..Len(k) : i < Len(k) \/ i = Len(k)
      BY <1>1
    <3> HIDE DEF a
    <3> QED
      BY <1>1, <1>2, <3>1, <3>2
  <2> QED
    BY <2>1, <2>2
<1> HIDE DEF a
<1>4. \A w \in Survivors : ~(a < w[2] /\ w[2] <= Len(path))
  BY <1>1, <1>2, <1>3
<1>5. Len(path) \in 0..Len(path) /\ a <= Len(path)
  BY <1>1, <1>3
<1>6. Joined[Len(path)] = Joined[a]
  BY <1>3, <1>4, <1>5, JoinedFlat
<1> QED
  BY <1>6 DEF a

LEMMA RemainAll ==
  ASSUME path \in Seq(Char), at \in Nat \ {0}, NEW k, Remain(k, at),
         \A i \in at..Len(path) : path[i] = "/"
  PROVE  Remain(k, Len(path) + 1)
<1>1. \A w \in Words : w[1] < at /\ w[1] < Len(path) + 1
  <2> TAKE w \in Words
  <2>1. w[1] \in 1..Len(path) /\ w[1] \in w[1]..w[2] /\ Len(path) \in Nat
    BY WordFacts
  <2>2. path[w[1]] # "/"
    BY <2>1 DEF Words
  <2>3. w[1] \notin at..Len(path)
    BY <2>2
  <2> QED
    BY <2>1, <2>3
<1>2. Up \subseteq Words /\ Down \subseteq Words
  BY WordFacts
<1>3. Standing(at) = Standing(Len(path) + 1)
  BY <1>1, <1>2 DEF Standing
<1>4. \A w : After(Up, w, at) = After(Up, w, Len(path) + 1)
             /\ After(Down, w, at) = After(Down, w, Len(path) + 1)
  BY <1>1, <1>2 DEF After
<1> QED
  BY <1>3, <1>4 DEF Remain

(* What reads the buffer.                                                  *)
CString(chars) ==
  LET n == CHOOSE b \in DOMAIN chars :
             chars[b] = Nul /\ \A a \in 0..(b - 1) : chars[a] # Nul
  IN [j \in 1..n |-> chars[j - 1]]

LEMMA CStringIs ==
  ASSUME NEW n \in Nat, NEW size \in Int, NEW chars, DOMAIN chars = 0..size, n <= size,
         chars[n] = Nul, \A b \in 0..(n - 1) : chars[b] # Nul
  PROVE  CString(chars) = [j \in 1..n |-> chars[j - 1]]
<1> DEFINE Ends(b) == chars[b] = Nul /\ \A c \in 0..(b - 1) : chars[c] # Nul
<1>1. n \in DOMAIN chars /\ Ends(n)
  OBVIOUS
<1>2. ASSUME NEW b \in DOMAIN chars, Ends(b) PROVE b = n
  <2>1. b \in Nat
    OBVIOUS
  <2>2. ~(b < n)
    BY <1>2, <2>1
  <2>3. ~(n < b)
    BY <1>2, <2>1
  <2> QED
    BY <2>1, <2>2, <2>3
<1> HIDE DEF Ends
<1>3. (CHOOSE b \in DOMAIN chars : Ends(b)) = n
  BY <1>1, <1>2
<1>4. CString(chars) = [j \in 1..(CHOOSE b \in DOMAIN chars : Ends(b)) |-> chars[j - 1]]
  BY DEF CString, Ends
<1> QED
  BY <1>3, <1>4

(* The name, as far as it is there.                                        *)
Naming ==
  /\ IsPath(path)
  /\ stage = "idle" => at = 1 /\ length = 0 /\ kept = << >>
  /\ stage = "split" =>
       /\ path # << >> /\ AtBoundary /\ (at = 1 \/ length > 0)
       /\ Remain(kept, at)
  /\ stage = "copy" =>
       /\ Remain(kept, Len(path) + 1) /\ (Absolute \/ length > 0)
       /\ Joined[Until(kept, at - 1)] = [b \in 1..dest |-> buffer[b - 1]]
       /\ \A b \in 0..(dest - 1) : buffer[b] # Nul
       /\ dest = 0 => buffer[0] = Nul
  /\ Resolved

(* It depends on the path alone.                                           *)
JoinedOf(p, absolute, S) ==
  LET joined[i \in 0..Len(p)] ==
        IF i = 0 THEN IF absolute THEN << "/" >> ELSE << >>
        ELSE IF \E w \in S : w[2] = i
             THEN joined[i - 1]
                    \o SubSeq(p, (CHOOSE w \in S : w[2] = i)[1], (CHOOSE w \in S : w[2] = i)[2])
                    \o << "/" >>
             ELSE joined[i - 1]
  IN  joined

LEMMA JoinedOfIs == Joined = JoinedOf(path, Absolute, Survivors)
BY DEF Joined, JoinedOf, Spelled

LEMMA PathFixed ==
  ASSUME path' = path
  PROVE  /\ Words' = Words /\ Survivors' = Survivors /\ Absolute' = Absolute
         /\ Joined' = Joined /\ IsPath(path)' = IsPath(path)
         /\ \A k, n : Remain(k, n) => Remain(k, n)'
<1>1. Words' = Words /\ Absolute' = Absolute /\ \A w : Spelled(w)' = Spelled(w)
  BY DEF Words, Absolute, Spelled
<1>2. Up' = Up /\ Down' = Down
  BY <1>1 DEF Up, Down
<1>3. Survivors' = Survivors
  BY <1>2 DEF Survivors
<1>4. Joined' = Joined
  <2>1. Joined' = JoinedOf(path', Absolute', Survivors')
    BY DEF Joined, JoinedOf, Spelled
  <2> QED
    BY <1>1, <1>3, <2>1, JoinedOfIs
<1>5. \A n : Standing(n)' = Standing(n)
  BY <1>2 DEF Standing
<1>6. \A k, n : Remain(k, n) => Remain(k, n)'
  BY <1>2, <1>5 DEF Remain
<1> QED
  BY <1>1, <1>3, <1>4, <1>6

LEMMA EmptyResolved == path = << >> => Parent(Joined[Len(path)]) = << >>
<1> SUFFICES ASSUME path = << >> PROVE Parent(Joined[Len(path)]) = << >>
  OBVIOUS
<1>1. path \in Seq(Char) /\ Len(path) = 0
  OBVIOUS
<1>2. Joined[0] = << >>
  BY <1>1, JoinedIs DEF JoinedAt, Absolute
<1> QED
  BY <1>1, <1>2 DEF Parent

LEMMA NamingSplit == Fits /\ Naming /\ Split => Naming'
<1> SUFFICES ASSUME Fits, Naming, Split PROVE Naming'
  OBVIOUS
<1>1. /\ stage = "split" /\ stage' = "split" /\ path' = path
      /\ path # << >> /\ AtBoundary /\ Remain(kept, at) /\ IsPath(path)
  BY DEF Split, Naming
<1>2. kept \in Seq(Nat \X Nat) /\ length \in Nat /\ path \in Seq(Char) /\ Len(path) \in Nat
  BY <1>1, PathOfChars, LenProperties DEF Fits, Measured, IsPath
<1>3. PICK f \in 1..Len(path), l \in 1..Len(path) :
        /\ Component(f, l)
        /\ length' = length + (l - f + 1) /\ at' = l + 2
        /\ \/ /\ SubSeq(path, f, l) = << ".", "." >>
              /\ kept' = Parent(kept)
           \/ /\ SubSeq(path, f, l) = << "." >>
              /\ kept' = kept
           \/ /\ SubSeq(path, f, l) \notin {<< ".", "." >>, << "." >>}
              /\ kept' = Append(kept, << f, l >>)
  BY DEF Split
<1>4. PICK k : k = kept'
  OBVIOUS
<1>5. Remain(k, l + 2)
  <2>1. SubSeq(path, f, l) = Spelled(<< f, l >>)
    BY DEF Spelled
  <2>2. /\ Spelled(<< f, l >>) = << ".", "." >> => Remain(Parent(kept), l + 2)
        /\ Spelled(<< f, l >>) = << "." >> => Remain(kept, l + 2)
        /\ Spelled(<< f, l >>) \notin {<< ".", "." >>, << "." >>} =>
             Remain(Append(kept, << f, l >>), l + 2)
    BY <1>1, <1>2, <1>3, RemainNext
  <2> QED
    BY <1>3, <1>4, <2>1, <2>2, Zenon
<1>6. Remain(k, l + 2)'
  BY <1>1, <1>5, PathFixed
<1>7. length' > 0 /\ AtBoundary'
  <2>1. f <= l /\ (l < Len(path) => path[l + 1] = "/")
    BY <1>3 DEF Component
  <2>2. l + 2 \in Nat \ {0} /\ (l + 2 > Len(path) + 1 \/ path[l + 2 - 1] = "/")
    <3>1. CASE l < Len(path)
      <4>1. l + 2 - 1 = l + 1
        BY <1>2
      <4> QED
        BY <1>2, <2>1, <3>1, <4>1
    <3>2. CASE ~(l < Len(path))
      BY <1>2, <3>2
    <3> QED
      BY <3>1, <3>2
  <2> QED
    BY <1>1, <1>2, <1>3, <2>1, <2>2 DEF AtBoundary
<1>8. IsPath(path')
  BY <1>1
<1> QED
  BY <1>1, <1>3, <1>4, <1>6, <1>7, <1>8 DEF Naming, Resolved

LEMMA NamingAllocate == Fits /\ Naming /\ Allocate => Naming'
<1> SUFFICES ASSUME Fits, Naming, Allocate PROVE Naming'
  OBVIOUS
<1>1. /\ stage = "split" /\ stage' = "copy" /\ path' = path /\ kept' = kept
      /\ length' = length /\ dest' = Root /\ at' = 1
      /\ \A i \in at..Len(path) : path[i] = "/"
      /\ buffer' = [Zeroed(length + Root + Len(kept)) EXCEPT ![0] = IF Absolute THEN "/" ELSE Nul]
      /\ path # << >> /\ AtBoundary /\ Remain(kept, at) /\ IsPath(path)
      /\ (at = 1 \/ length > 0)
  BY DEF Allocate, Naming
<1>2. /\ kept \in Seq(Nat \X Nat) /\ Len(kept) \in Nat /\ length \in Nat
      /\ path \in Seq(Char) /\ Len(path) \in Nat /\ at \in Nat \ {0}
  BY <1>1, PathOfChars, LenProperties DEF Fits, Measured, IsPath, AtBoundary
<1>3. Remain(kept, Len(path) + 1)'
  <2>1. PICK k : k = kept
    OBVIOUS
  <2>2. Remain(k, Len(path) + 1)
    BY <1>1, <1>2, <2>1, RemainAll
  <2>3. PICK n : n = Len(path) + 1
    OBVIOUS
  <2>4. Remain(k, n)'
    BY <1>1, <2>2, <2>3, PathFixed
  <2> QED
    BY <1>1, <2>1, <2>3, <2>4
<1>4. Absolute \/ length > 0
  <2>1. CASE at = 1
    <3>1. Len(path) > 0
      BY <1>1, <1>2, EmptySeq
    <3> QED
      BY <1>1, <1>2, <2>1, <3>1 DEF Absolute
  <2> QED
    BY <1>1, <2>1
<1>5. Joined[0] = IF Absolute THEN << "/" >> ELSE << >>
  <2>1. 0 \in 0..Len(path)
    BY <1>2
  <2> QED
    BY <1>2, <2>1, JoinedIs DEF JoinedAt
<1>6. 0 \in 0..(length + Root + Len(kept) - 1) /\ buffer'[0] = IF Absolute THEN "/" ELSE Nul
  <2>1. PICK size : size = length + Root + Len(kept)
    OBVIOUS
  <2>2. size \in Nat /\ size >= 1
    BY <1>2, <1>4, <2>1, RootOne
  <2>3. 0 \in 0..(size - 1)
    BY <2>2
  <2>4. buffer' = [[b \in 0..(size - 1) |-> Nul] EXCEPT ![0] = IF Absolute THEN "/" ELSE Nul]
    BY <1>1, <2>1 DEF Zeroed
  <2>5. buffer'[0] = IF Absolute THEN "/" ELSE Nul
    BY <2>3, <2>4
  <2>6. 0 \in 0..(length + Root + Len(kept) - 1)
    BY <1>2, <2>1, <2>3, RootOne
  <2> QED
    BY <2>5, <2>6, Zenon
<1>7. /\ Joined[0] = [b \in 1..Root |-> buffer'[b - 1]]
      /\ \A b \in 0..(Root - 1) : buffer'[b] # Nul
      /\ Root = 0 => buffer'[0] = Nul
  <2>1. CASE Absolute
    <3>1. Root = 1
      BY <2>1 DEF Root
    <3>2. << "/" >> = [b \in 1..1 |-> "/"]
      OBVIOUS
    <3>3. \A b \in 1..1 : buffer'[b - 1] = "/"
      BY <1>6, <2>1
    <3>4. [b \in 1..1 |-> buffer'[b - 1]] = [b \in 1..1 |-> "/"]
      BY <3>3
    <3>5. "/" # Nul
      BY DEF Nul
    <3> QED
      BY <1>5, <1>6, <2>1, <3>1, <3>2, <3>4, <3>5
  <2>2. CASE ~Absolute
    <3>1. Root = 0
      BY <2>2 DEF Root
    <3>2. << >> = [b \in 1..0 |-> buffer'[b - 1]]
      OBVIOUS
    <3> QED
      BY <1>5, <1>6, <2>2, <3>1, <3>2
  <2> QED
    BY <2>1, <2>2
<1>8. Joined' = Joined /\ Absolute' = Absolute /\ Until(kept, at - 1)' = 0
  <2>1. at' - 1 = 0
    BY <1>1
  <2> QED
    BY <1>1, <2>1, PathFixed DEF Until
<1> QED
  BY <1>1, <1>3, <1>4, <1>7, <1>8 DEF Naming, Resolved

(* What Write leaves in the buffer behind what was there.                  *)
LEMMA Written ==
  ASSUME NEW S, NEW q \in Seq(S), NEW t \in Seq(S), NEW c \in S,
         NEW old, NEW size \in Int, DOMAIN old = 0..size, Len(q) + Len(t) <= size,
         \A b \in 1..Len(q) : q[b] = old[b - 1],
         NEW new,
         new = [b \in DOMAIN old |->
                  IF b \in Len(q)..(Len(q) + Len(t \o << c >>) - 1)
                  THEN (t \o << c >>)[b - Len(q) + 1] ELSE old[b]]
  PROVE  /\ q \o t \o << c >> = [b \in 1..(Len(q) + Len(t) + 1) |-> new[b - 1]]
         /\ \A b \in 0..(Len(q) + Len(t)) :
              new[b] = IF b < Len(q) THEN old[b] ELSE IF b < Len(q) + Len(t)
                       THEN t[b - Len(q) + 1] ELSE c
<1> DEFINE m == Len(q)
           n == Len(t)
           p == q \o t \o << c >>
           u == t \o << c >>
<1>1. /\ p \in Seq(S) /\ m \in Nat /\ n \in Nat /\ Len(p) = m + n + 1 /\ << c >> \in Seq(S)
      /\ \A j \in 1..(m + n + 1) :
           p[j] = IF j <= m THEN q[j] ELSE IF j <= m + n THEN t[j - m] ELSE c
  BY Pieces
<1>2. PICK d : d = << c >>
  OBVIOUS
<1>3. d \in Seq(S) /\ Len(d) = 1 /\ d[1] = c
  BY <1>1, <1>2
<1>4. /\ Len(t \o d) = n + 1
      /\ \A j \in 1..(n + 1) : (t \o d)[j] = IF j <= n THEN t[j] ELSE c
  <2>1. /\ Len(t \o d) = n + Len(d)
        /\ \A j \in 1..(n + Len(d)) : (t \o d)[j] = IF j <= n THEN t[j] ELSE d[j - n]
    BY <1>3, ConcatProperties
  <2>2. ASSUME NEW j \in 1..(n + 1)
        PROVE  (t \o d)[j] = IF j <= n THEN t[j] ELSE c
    <3>1. (t \o d)[j] = IF j <= n THEN t[j] ELSE d[j - n]
      BY <1>3, <2>1
    <3>2. j <= n \/ j - n = 1
      BY <1>1
    <3> QED
      BY <1>3, <3>1, <3>2
  <2> QED
    BY <1>3, <2>1, <2>2
<1>5. u = t \o d
  BY <1>2
<1>6. Len(u) = n + 1 /\ \A j \in 1..(n + 1) : u[j] = IF j <= n THEN t[j] ELSE c
  BY <1>4, <1>5
<1>7. new = [b \in 0..size |-> IF b \in m..(m + Len(u) - 1) THEN u[b - m + 1] ELSE old[b]]
  OBVIOUS
<1>8. m + n <= size /\ \A b \in 1..m : q[b] = old[b - 1]
  OBVIOUS
<1> HIDE DEF m, n, p, u
<1>9. ASSUME NEW b \in 0..(m + n)
      PROVE  new[b] = IF b < m THEN old[b] ELSE IF b < m + n THEN t[b - m + 1] ELSE c
  <2>1. m + Len(u) - 1 = m + n /\ b \in 0..size
    BY <1>1, <1>6, <1>8
  <2>2. new[b] = IF b \in m..(m + n) THEN u[b - m + 1] ELSE old[b]
    BY <1>7, <2>1
  <2>3. CASE b < m
    <3>1. b \notin m..(m + n)
      BY <1>1, <2>3
    <3> QED
      BY <2>2, <2>3, <3>1
  <2>4. CASE ~(b < m)
    <3>1. b \in m..(m + n) /\ b - m + 1 \in 1..(n + 1) /\ (b - m + 1 <= n <=> b < m + n)
      BY <1>1, <2>4
    <3> QED
      BY <1>6, <2>2, <2>4, <3>1
  <2> QED
    BY <2>3, <2>4
<1>10. ASSUME NEW j \in 1..(m + n + 1) PROVE p[j] = new[j - 1]
  <2>1. j - 1 \in 0..(m + n) /\ (j - 1 < m <=> j <= m) /\ (j - 1 < m + n <=> j <= m + n)
        /\ j - 1 - m + 1 = j - m
    BY <1>1
  <2>2. new[j - 1] = IF j <= m THEN old[j - 1] ELSE IF j <= m + n THEN t[j - m] ELSE c
    BY <1>9, <2>1
  <2>3. j <= m => j \in 1..m
    BY <1>1
  <2> QED
    BY <1>1, <1>8, <2>2, <2>3
<1>11. p = [b \in 1..(m + n + 1) |-> new[b - 1]]
  <2>1. p = [b \in 1..(m + n + 1) |-> p[b]]
    BY <1>1
  <2> QED
    BY <1>10, <2>1
<1> QED
  BY <1>9, <1>11 DEF m, n, p

LEMMA NamingCopy == Fits /\ Naming /\ Copy => Naming'
<1> SUFFICES ASSUME Fits, Naming, Copy PROVE Naming'
  OBVIOUS
<1>1. /\ stage = "copy" /\ stage' = "copy" /\ path' = path /\ kept' = kept
      /\ length' = length /\ at' = at + 1
      /\ Remain(kept, Len(path) + 1) /\ (Absolute \/ length > 0) /\ IsPath(path)
      /\ Joined[Until(kept, at - 1)] = [b \in 1..dest |-> buffer[b - 1]]
      /\ \A b \in 0..(dest - 1) : buffer[b] # Nul
  BY DEF Copy, Naming
<1>2. /\ kept \in Seq(Nat \X Nat) /\ path \in Seq(Char) /\ Len(path) \in Nat
      /\ DOMAIN buffer = 0..(length + Root + Len(kept) - 1) /\ length \in Nat /\ Root \in Nat
  BY <1>1, PathOfChars, LenProperties, RootOne DEF Fits, Measured, IsPath
<1>3. at \in 1..Len(kept) /\ Len(kept) \in Nat /\ dest \in Nat /\ CopyRange \subseteq DOMAIN buffer
  BY CopyPlace
<1> DEFINE w == kept[at]
           t == Spelled(w)
           q == [b \in 1..dest |-> buffer[b - 1]]
<1>4. w \in Words /\ w[1] \in 1..Len(path) /\ w[2] \in 1..Len(path) /\ w[1] <= w[2]
  BY <1>1, <1>2, <1>3, RemainEnds, WordFacts
<1>5. PICK n \in Nat : n = w[2] - w[1] + 1
  BY <1>2, <1>4
<1>6. /\ t \in Seq(Char) /\ Len(t) = n /\ \A j \in 1..n : t[j] = path[w[1] + j - 1]
  BY <1>2, <1>4, <1>5, SpelledIs
<1>7. Joined[w[2]] = q \o t \o << "/" >>
  BY <1>1, <1>2, <1>3, JoinedStep
<1>8. dest' = dest + n + 1
  <2>1. dest' = dest + (w[2] - w[1] + 1) + 1
    BY DEF Copy
  <2> QED
    BY <1>5, <2>1
<1>9. buffer' = [b \in DOMAIN buffer |->
                   IF b \in dest..(dest + Len(t \o << "/" >>) - 1)
                   THEN (t \o << "/" >>)[b - dest + 1] ELSE buffer[b]]
  BY DEF Copy, Write, Spelled
<1>10. PICK S : S = Char \cup {buffer[b] : b \in 0..(dest - 1)}
  OBVIOUS
<1>11. q \in Seq(S) /\ Len(q) = dest
  <2>1. \A b \in 1..dest : b - 1 \in 0..(dest - 1)
    BY <1>3
  <2>2. q \in [1..dest -> S]
    BY <1>10, <2>1
  <2> QED
    BY <1>3, <2>2
<1>12. t \in Seq(S) /\ "/" \in S
  <2>1. Char \subseteq S
    BY <1>10
  <2> QED
    BY <1>6, <2>1, SeqOfMore DEF Char
<1>13. PICK size \in Int : size = length + Root + Len(kept) - 1
  <2>1. length + Root + Len(kept) - 1 \in Int
    BY <1>2, <1>3
  <2> QED
    BY <2>1
<1>14. dest + n <= size
  <2>1. dest + n \in CopyRange
    BY <1>3, <1>5 DEF CopyRange
  <2> QED
    BY <1>2, <1>3, <1>13, <2>1
<1>15. \A b \in 1..dest : q[b] = buffer[b - 1]
  OBVIOUS
<1> HIDE DEF q, t
<1>16. PICK new : new = buffer'
  OBVIOUS
<1>17. /\ q \o t \o << "/" >> = [b \in 1..(dest + n + 1) |-> new[b - 1]]
       /\ \A b \in 0..(dest + n) :
            new[b] = IF b < dest THEN buffer[b]
                     ELSE IF b < dest + n THEN t[b - dest + 1] ELSE "/"
  <2>1. DOMAIN buffer = 0..size /\ Len(q) + Len(t) <= size
    BY <1>2, <1>6, <1>11, <1>13, <1>14
  <2>2. \A b \in 1..Len(q) : q[b] = buffer[b - 1]
    BY <1>11, <1>15
  <2>3. new = [b \in DOMAIN buffer |->
                 IF b \in Len(q)..(Len(q) + Len(t \o << "/" >>) - 1)
                 THEN (t \o << "/" >>)[b - Len(q) + 1] ELSE buffer[b]]
    BY <1>9, <1>11, <1>16
  <2>4. q \in Seq(S)
    BY <1>11
  <2>5. /\ q \o t \o << "/" >> = [b \in 1..(Len(q) + Len(t) + 1) |-> new[b - 1]]
        /\ \A b \in 0..(Len(q) + Len(t)) :
             new[b] = IF b < Len(q) THEN buffer[b] ELSE IF b < Len(q) + Len(t)
                      THEN t[b - Len(q) + 1] ELSE "/"
    BY <1>12, <2>1, <2>2, <2>3, <2>4, Written
  <2> QED
    BY <1>6, <1>11, <2>5
<1>18. \A b \in 0..(dest' - 1) : buffer'[b] # Nul
  <2> SUFFICES ASSUME NEW b \in 0..(dest + n) PROVE new[b] # Nul
    BY <1>3, <1>8, <1>16
  <2>1. CASE b < dest
    BY <1>1, <1>3, <1>17, <2>1
  <2>2. CASE ~(b < dest) /\ b < dest + n
    <3>1. b - dest + 1 \in 1..n
      BY <1>3, <2>2
    <3>2. PICK j \in 1..n : j = b - dest + 1
      BY <3>1
    <3>3. w[1] + j - 1 \in 1..Len(path)
      <4>1. PICK a \in Int, c \in Int : a = w[1] /\ c = w[2]
        BY <1>4
      <4>2. 1 <= a /\ c <= Len(path) /\ n = c - a + 1 /\ 1 <= j /\ j <= n
        BY <1>2, <1>4, <1>5, <3>2, <4>1
      <4>3. a + j - 1 \in 1..Len(path)
        BY <1>2, <4>2
      <4> QED
        BY <4>1, <4>3
    <3>4. path[w[1] + j - 1] # Nul
      BY <1>1, <1>2, <3>3 DEF IsPath
    <3>5. new[b] = t[j]
      BY <1>17, <2>2, <3>2
    <3> QED
      BY <1>6, <3>2, <3>4, <3>5
  <2>3. CASE ~(b < dest + n)
    <3>1. new[b] = "/"
      BY <1>3, <1>17, <2>3
    <3> QED
      BY <3>1 DEF Nul
  <2> QED
    BY <2>1, <2>2, <2>3
<1>19. Joined'[Until(kept', at' - 1)] = [b \in 1..dest' |-> buffer'[b - 1]]
  <2>1. Until(kept', at' - 1) = w[2]
    <3>1. at' - 1 = at /\ at # 0
      BY <1>1, <1>3
    <3> QED
      BY <1>1, <3>1 DEF Until
  <2>2. Joined' = Joined
    BY <1>1, PathFixed
  <2> QED
    BY <1>7, <1>8, <1>16, <1>17, <2>1, <2>2
<1>20. Remain(kept, Len(path) + 1)'
  <2>1. PICK k, m : k = kept /\ m = Len(path) + 1
    OBVIOUS
  <2>2. Remain(k, m)'
    BY <1>1, <2>1, PathFixed
  <2> QED
    BY <1>1, <2>1, <2>2
<1>21. Absolute' = Absolute /\ dest' # 0
  BY <1>1, <1>3, <1>8, PathFixed
<1> QED
  BY <1>1, <1>18, <1>19, <1>20, <1>21 DEF Naming, Resolved

LEMMA TerminatePlace ==
  ASSUME Fits, Terminate
  PROVE  /\ Len(kept) \in Nat /\ kept \in Seq(Nat \X Nat) /\ dest \in Nat
         /\ at - 1 = Len(kept)
         /\ dest <= length + Root + Len(kept)
         /\ DOMAIN buffer = 0..(length + Root + Len(kept) - 1)
         /\ length \in Nat /\ Root \in {0, 1}
         /\ dest = 0 => Len(kept) = 0
<1>1. /\ stage = "copy" /\ at > Len(kept)
  BY DEF Terminate
<1>2. /\ Measured(path, kept, used, length) /\ at \in Nat \ {0}
      /\ at <= Len(kept) + 1
      /\ dest = Root + (at - 1) + UsedBefore(at - 1)
      /\ DOMAIN buffer = 0..(length + Root + Len(kept) - 1)
  BY <1>1 DEF Fits
<1>3. Len(kept) \in Nat /\ length \in Nat /\ Root \in {0, 1} /\ at = Len(kept) + 1
      /\ kept \in Seq(Nat \X Nat)
  BY <1>1, <1>2, LenProperties, RootOne DEF Measured
<1>4. UsedBefore(Len(kept)) \in Nat /\ UsedBefore(Len(kept)) <= length
  <2>1. CASE Len(kept) = 0
    BY <1>3, <2>1 DEF UsedBefore
  <2>2. CASE Len(kept) # 0
    <3>1. Len(kept) \in 1..Len(kept)
      BY <1>3, <2>2
    <3>2. used[Len(kept)] \in Nat /\ used[Len(kept)] <= length
      BY <1>2, <3>1, ElementOfSeq DEF Measured
    <3> QED
      BY <2>2, <3>2 DEF UsedBefore
  <2> QED
    BY <2>1, <2>2
<1>5. dest = Root + Len(kept) + UsedBefore(Len(kept)) /\ at - 1 = Len(kept)
  BY <1>2, <1>3
<1> QED
  BY <1>2, <1>3, <1>4, <1>5

(* The final / is erased: what a C program reads is what was copied, but   *)
(* for it.                                                                 *)
LEMMA NamingTerminate == Fits /\ Naming /\ Terminate => Naming'
<1> SUFFICES ASSUME Fits, Naming, Terminate PROVE Naming'
  OBVIOUS
<1>1. /\ stage = "copy" /\ stage' = "done" /\ path' = path
      /\ Remain(kept, Len(path) + 1) /\ (Absolute \/ length > 0) /\ IsPath(path)
      /\ Joined[Until(kept, at - 1)] = [b \in 1..dest |-> buffer[b - 1]]
      /\ \A b \in 0..(dest - 1) : buffer[b] # Nul
      /\ dest = 0 => buffer[0] = Nul
  BY DEF Terminate, Naming
<1>2. path \in Seq(Char)
  BY <1>1, PathOfChars DEF IsPath
<1>3. PICK size \in Int : size = length + Root + Len(kept) - 1
  BY TerminatePlace
<1>4. /\ dest \in Nat /\ DOMAIN buffer = 0..size /\ dest <= size + 1 /\ at - 1 = Len(kept)
      /\ kept \in Seq(Nat \X Nat) /\ size \in Nat
  <2>1. /\ dest \in Nat /\ at - 1 = Len(kept) /\ kept \in Seq(Nat \X Nat)
        /\ dest <= length + Root + Len(kept)
        /\ DOMAIN buffer = 0..(length + Root + Len(kept) - 1)
        /\ length \in Nat /\ Len(kept) \in Nat /\ Root \in {0, 1}
    BY TerminatePlace
  <2>2. length + Root >= 1
    BY <1>1, <2>1, RootOne
  <2>3. dest <= size + 1 /\ size \in Nat
    BY <1>3, <2>1, <2>2
  <2> QED
    BY <1>3, <2>1, <2>3
<1>5. PICK read \in Seq({buffer[b] : b \in 0..(dest - 1)}) :
        /\ read = Joined[Len(path)] /\ Len(read) = dest
        /\ \A j \in 1..dest : read[j] = buffer[j - 1]
  <2>1. Joined[Len(path)] = [b \in 1..dest |-> buffer[b - 1]]
    BY <1>1, <1>2, <1>4, JoinedEnd
  <2>2. \A b \in 1..dest : b - 1 \in 0..(dest - 1)
    BY <1>4
  <2>3. PICK S : S = {buffer[b] : b \in 0..(dest - 1)}
    OBVIOUS
  <2>4. [b \in 1..dest |-> buffer[b - 1]] \in [1..dest -> S]
    BY <2>2, <2>3
  <2>5. PICK read : read = [b \in 1..dest |-> buffer[b - 1]]
    OBVIOUS
  <2>6. read \in Seq(S) /\ Len(read) = dest /\ \A j \in 1..dest : read[j] = buffer[j - 1]
    BY <1>4, <2>4, <2>5
  <2> QED
    BY <2>1, <2>3, <2>5, <2>6, Zenon
<1>6. PICK new : new = buffer'
  OBVIOUS
<1>7. new = [b \in 0..size |-> IF b = dest - 1 THEN Nul ELSE buffer[b]]
  <2>1. Len(<< Nul >>) = 1 /\ << Nul >>[1] = Nul
    OBVIOUS
  <2>2. (dest - 1)..(dest - 1 + 1 - 1) = {dest - 1}
    BY <1>4
  <2>3. buffer' = [b \in 0..size |-> IF b \in {dest - 1} THEN << Nul >>[b - (dest - 1) + 1]
                                     ELSE buffer[b]]
    BY <1>4, <2>1, <2>2 DEF Terminate, Write
  <2>4. \A b \in {dest - 1} : b - (dest - 1) + 1 = 1
    BY <1>4
  <2> QED
    BY <1>6, <2>1, <2>3, <2>4
<1>8. CString(new) = Parent(read)
  <2>1. CASE dest = 0
    <3>1. new[0] = Nul
      BY <1>1, <1>4, <1>7, <2>1
    <3>2. CString(new) = [j \in 1..0 |-> new[j - 1]]
      <4>1. DOMAIN new = 0..size /\ \A b \in 0..(0 - 1) : new[b] # Nul
        BY <1>7
      <4>2. PICK z \in Nat : z = 0
        OBVIOUS
      <4>3. new[z] = Nul /\ z <= size /\ \A b \in 0..(z - 1) : new[b] # Nul
        BY <1>4, <3>1, <4>1, <4>2
      <4>4. CString(new) = [j \in 1..z |-> new[j - 1]]
        BY <1>4, <4>1, <4>3, CStringIs
      <4> QED
        BY <4>2, <4>4
    <3>3. [j \in 1..0 |-> new[j - 1]] = << >>
      OBVIOUS
    <3>4. read = << >>
      BY <1>5, <2>1, EmptySeq
    <3> QED
      BY <3>2, <3>3, <3>4 DEF Parent
  <2>2. CASE dest # 0
    <3>1. PICK n \in Nat : n = dest - 1
      BY <1>4, <2>2
    <3>2. /\ DOMAIN new = 0..size /\ n <= size /\ new[n] = Nul
          /\ \A b \in 0..(n - 1) : new[b] = buffer[b] /\ new[b] # Nul
      BY <1>1, <1>4, <1>7, <3>1
    <3>3. CString(new) = [j \in 1..n |-> new[j - 1]]
      <4>1. \A b \in 0..(n - 1) : new[b] # Nul
        BY <3>2
      <4>2. size \in Int /\ DOMAIN new = 0..size /\ n <= size /\ new[n] = Nul
        BY <1>4, <3>2
      <4> QED
        BY <4>1, <4>2, CStringIs
    <3>4. \A j \in 1..n : new[j - 1] = read[j]
      <4> TAKE j \in 1..n
      <4>1. j - 1 \in 0..(n - 1) /\ j \in 1..dest
        BY <1>4, <3>1
      <4> QED
        BY <1>5, <3>2, <4>1
    <3>5. CString(new) = [j \in 1..n |-> read[j]]
      BY <3>3, <3>4
    <3>6. Parent(read) = SubSeq(read, 1, n)
      BY <1>5, <2>2, <3>1 DEF Parent
    <3>7. SubSeq(read, 1, n) = [j \in 1..n |-> read[j]]
      BY <1>4, <1>5, <3>1
    <3> QED
      BY <3>5, <3>6, <3>7
  <2> QED
    BY <2>1, <2>2
<1>9. Text' = CString(new)
  BY <1>6 DEF Text, CString
<1>10. Parent(Joined[Len(path)])' = Parent(read)
  <2>1. Joined' = Joined
    BY <1>1, PathFixed
  <2>2. (Joined[Len(path)])' = read
    BY <1>1, <1>5, <2>1
  <2> QED
    BY <2>2 DEF Parent
<1>11. Resolved'
  BY <1>8, <1>9, <1>10 DEF Resolved
<1> QED
  BY <1>1, <1>11 DEF Naming

(* A call begins: nothing is kept yet of the path.                         *)
LEMMA NamingBegins ==
  ASSUME Fits, Naming, NEW p, IsPath(p), NormalizePathName(p)
  PROVE  Naming'
<1>1. /\ stage = "idle" /\ path' = p /\ stage' = IF p = << >> THEN "done" ELSE "split"
      /\ buffer' = Zeroed(IF p = << >> THEN 1 ELSE 0)
      /\ UNCHANGED << at, kept, length, dest, used, stray >>
  BY DEF NormalizePathName
<1>2. at = 1 /\ length = 0 /\ kept = << >>
  BY <1>1 DEF Naming
<1>3. CASE p = << >>
  <2>1. PICK new : new = buffer'
    OBVIOUS
  <2>2. DOMAIN new = 0..0 /\ new[0] = Nul
    <3>1. 1 - 1 = 0
      OBVIOUS
    <3> QED
      BY <1>1, <1>3, <2>1, <3>1 DEF Zeroed
  <2>3. CString(new) = << >>
    <3>1. PICK z \in Nat : z = 0
      OBVIOUS
    <3>2. \A b \in 0..(z - 1) : new[b] # Nul
      BY <3>1
    <3>3. DOMAIN new = 0..z /\ new[z] = Nul /\ z <= z
      BY <2>2, <3>1
    <3>4. CString(new) = [j \in 1..z |-> new[j - 1]]
      BY <3>2, <3>3, CStringIs
    <3>5. [j \in 1..0 |-> new[j - 1]] = << >>
      OBVIOUS
    <3> QED
      BY <3>1, <3>4, <3>5
  <2>4. Text' = CString(new)
    BY <2>1 DEF Text, CString
  <2>5. (path = << >> => Parent(Joined[Len(path)]) = << >>)'
    BY EmptyResolved, PTL
  <2> QED
    BY <1>1, <1>3, <2>3, <2>4, <2>5 DEF Naming, Resolved
<1>4. CASE p # << >>
  <2>1. AtBoundary'
    BY <1>1, <1>2 DEF AtBoundary
  <2>2. Remain(<< >>, 1)'
    <3>1. \A w \in Words' : ~(w[1] < 1)
      BY DEF Words
    <3> QED
      BY <3>1 DEF Remain, Standing, Down
  <2> QED
    BY <1>1, <1>2, <1>4, <2>1, <2>2 DEF Naming, Resolved
<1> QED
  BY <1>3, <1>4

LEMMA NamingInit == Init => Naming
<1> SUFFICES ASSUME Init PROVE Naming
  OBVIOUS
<1>1. stage = "idle" /\ path = << >> /\ at = 1 /\ kept = << >> /\ length = 0
  BY DEF Init, PathInit
<1> QED
  BY <1>1 DEF Naming, Resolved, IsPath

LEMMA NamingNext == Fits /\ Naming /\ [Next]_vars => Naming'
<1> SUFFICES ASSUME Fits, Naming, [Next]_vars PROVE Naming'
  OBVIOUS
<1>1. CASE UNCHANGED pathVars
  <2>1. /\ stage' = stage /\ path' = path /\ at' = at /\ kept' = kept /\ length' = length
        /\ buffer' = buffer /\ dest' = dest
    BY <1>1 DEF pathVars
  <2>2. Joined' = Joined /\ Absolute' = Absolute
    BY <2>1, PathFixed
  <2>3. Resolved'
    <3>1. Text' = Text
      BY <2>1 DEF Text
    <3> QED
      BY <2>1, <2>2, <3>1 DEF Naming, Resolved
  <2>4. ASSUME NEW n, Remain(kept, n) PROVE Remain(kept, n)'
    <3>1. PICK k : k = kept
      OBVIOUS
    <3>2. Remain(k, n)'
      BY <2>1, <2>4, <3>1, PathFixed
    <3> QED
      BY <2>1, <3>1, <3>2
  <2>5. stage = "split" => Remain(kept, at)'
    <3>1. PICK n : n = at
      OBVIOUS
    <3>2. stage = "split" => Remain(kept, n)'
      BY <2>4, <3>1 DEF Naming
    <3> QED
      BY <2>1, <3>1, <3>2
  <2>6. stage = "copy" => Remain(kept, Len(path) + 1)'
    <3>1. PICK n : n = Len(path) + 1
      OBVIOUS
    <3>2. stage = "copy" => Remain(kept, n)'
      BY <2>4, <3>1 DEF Naming
    <3> QED
      BY <2>1, <3>1, <3>2
  <2> QED
    BY <2>1, <2>2, <2>3, <2>5, <2>6 DEF Naming, AtBoundary, Until
<1>2. CASE Return
  <2>1. stage' = "idle" /\ path' = << >> /\ at' = 1 /\ kept' = << >> /\ length' = 0
    BY <1>2 DEF Return
  <2> QED
    BY <2>1 DEF Naming, Resolved, IsPath
<1> QED
  BY <1>1, <1>2, NamingBegins, NamingSplit, NamingAllocate, NamingCopy, NamingTerminate,
     PathSteps

(* Whatever the path: the name that is read in the buffer is made of the   *)
(* components of the path that .. does not remove, each once, in order,    *)
(* with one / between two of them and in front if the path has one.        *)
THEOREM NameIsResolved == Spec => []Resolved
<1>1. Naming => Resolved
  BY DEF Naming
<1>2. Init => Fits /\ Naming
  BY FitsInit, NamingInit
<1>3. Fits /\ Naming /\ [Next]_vars => (Fits /\ Naming)'
  BY FitsNext, NamingNext
<1> QED
  BY <1>1, <1>2, <1>3, PTL DEF Spec

-----------------------------------------------------------------------------
(* The iterators.                                                          *)
IsRows(s) == \E S : s \in Seq(S)
Fields == {"query", "at", "base", "seen", "result", "first", "count", "due"}
IsIteration(x) == DOMAIN x = Fields /\ x.query \in Query /\ x.at \in Nat /\ x.first \in BOOLEAN

(* What an iterator owes is still there, and SQLite returns it.            *)
Served ==
  /\ DOMAIN tables = Table /\ \A t \in Table : IsRows(tables[t])
  /\ iter = [i \in DOMAIN iter |-> iter[i]]
  /\ \A i \in DOMAIN iter :
       /\ IsIteration(iter[i])
       /\ iter[i].at <= Len(tables[iter[i].query.table])
       /\ iter[i].due \subseteq Matching(iter[i].query)
       /\ iter[i].first /\ Scanning(i) => iter[i].due \subseteq iter[i].base
       /\ ~iter[i].first => iter[i].count = 0

LEMMA AppendRow ==
  ASSUME NEW s, IsRows(s), NEW e
  PROVE  /\ IsRows(Append(s, e)) /\ Len(s) \in Nat /\ DOMAIN s = 1..Len(s)
         /\ Len(Append(s, e)) = Len(s) + 1 /\ Append(s, e)[Len(s) + 1] = e
         /\ DOMAIN Append(s, e) = 1..(Len(s) + 1)
         /\ \A j \in 1..Len(s) : Append(s, e)[j] = s[j]
<1>1. PICK S : s \in Seq(S)
  BY DEF IsRows
<1>2. s \in Seq(S \cup {e}) /\ e \in S \cup {e}
  BY <1>1
<1>3. Append(s, e) \in Seq(S \cup {e})
  BY <1>2, AppendProperties
<1> QED
  BY <1>2, <1>3, AppendProperties, LenProperties DEF IsRows

LEMMA ExceptOne ==
  ASSUME NEW f, NEW g, NEW i \in DOMAIN f,
         f = [k \in DOMAIN f |-> f[k]], g = [k \in DOMAIN f |-> g[k]],
         \A k \in DOMAIN f \ {i} : g[k] = f[k]
  PROVE  g = [f EXCEPT ![i] = g[i]]
OBVIOUS

LEMMA SameRows ==
  /\ \A q : Contract!Matches(q) = Matching(q)
  /\ \A q, j : Contract!Found(q, j) = Columns(q, tables[q.table][j])
BY DEF Contract!Matches, Contract!Found, Contract!Columns, Matching, Predicate, Columns

LEMMA ServedInit == Init => Served /\ Contract!Init
<1> SUFFICES ASSUME Init PROVE Served /\ Contract!Init
  OBVIOUS
<1>1. iter = << >> /\ DOMAIN iter = {} /\ tables = [t \in Table |-> << >>]
  BY DEF Init
<1>2. IsRows(<< >>)
  BY EmptySeq DEF IsRows
<1>3. iter = [i \in DOMAIN iter |-> iter[i]] /\ Open = << >>
  BY <1>1 DEF Open
<1> QED
  BY <1>1, <1>2, <1>3 DEF Served, Contract!Init

(* A row more: nobody has got it, and nothing that matched has changed.    *)
LEMMA StoreStep ==
  ASSUME Served, NEW t \in Table, NEW row, Store(t, row)
  PROVE  Served' /\ Contract!Insert(t)
<1>1. tables' = [tables EXCEPT ![t] = Append(@, row)] /\ UNCHANGED << iter, database >>
  BY DEF Store
<1>2. DOMAIN tables' = Table /\ tables'[t] = Append(tables[t], row)
      /\ \A u \in Table \ {t} : tables'[u] = tables[u]
  BY <1>1 DEF Served
<1>3. IsRows(tables[t])
  BY DEF Served
<1>4. /\ IsRows(tables'[t]) /\ Len(tables[t]) \in Nat /\ DOMAIN tables[t] = 1..Len(tables[t])
      /\ Len(tables'[t]) = Len(tables[t]) + 1 /\ tables'[t][Len(tables[t]) + 1] = row
      /\ DOMAIN tables'[t] = 1..(Len(tables[t]) + 1)
      /\ \A j \in 1..Len(tables[t]) : tables'[t][j] = tables[t][j]
  BY <1>2, <1>3, AppendRow
<1>5. ASSUME NEW u \in Table
      PROVE  /\ Len(tables[u]) \in Nat /\ Len(tables[u]) <= Len(tables'[u])
             /\ DOMAIN tables[u] = 1..Len(tables[u])
             /\ DOMAIN tables[u] \subseteq DOMAIN tables'[u]
             /\ \A j \in DOMAIN tables'[u] : j \notin DOMAIN tables[u] => j = Len(tables[u]) + 1
             /\ \A j \in DOMAIN tables[u] : tables'[u][j] = tables[u][j]
  <2>1. CASE u = t
    BY <1>4, <2>1
  <2>2. CASE u # t
    BY <1>2, <2>2, AppendRow DEF Served
  <2> QED
    BY <2>1, <2>2
<1>6. ASSUME NEW q \in Query
      PROVE  /\ Matching(q) \subseteq Matching(q)'
             /\ \A j \in Matching(q)' : j \notin Matching(q) => j = Len(tables[q.table]) + 1
  BY <1>5, QueryAssumption DEF Matching, Predicate
<1>7. ASSUME NEW i \in DOMAIN iter
      PROVE  /\ iter[i].query \in Query /\ iter[i].at \in Nat
             /\ iter[i].at <= Len(tables[iter[i].query.table])
             /\ Len(tables[iter[i].query.table]) \in Nat
             /\ Len(tables[iter[i].query.table]) <= Len(tables'[iter[i].query.table])
             /\ Len(tables'[iter[i].query.table]) \in Nat
  <2>1. iter[i].query \in Query /\ iter[i].at \in Nat
    BY DEF Served, IsIteration
  <2>2. iter[i].query.table \in Table
    BY <2>1, QueryAssumption
  <2>3. Len(tables'[iter[i].query.table]) \in Nat
    BY <1>2, <1>4, <1>5, <2>2
  <2> QED
    BY <1>5, <2>1, <2>2, <2>3 DEF Served
<1>8. Served'
  <2>1. \A u \in Table : IsRows(tables'[u])
    BY <1>2, <1>4 DEF Served
  <2>2. ASSUME NEW i \in DOMAIN iter
        PROVE  /\ iter[i].at <= Len(tables'[iter[i].query.table])
               /\ iter[i].due \subseteq Matching(iter[i].query)'
    <3>1. PICK q \in Query : q = iter[i].query
      BY <1>7
    <3>2. iter[i].due \subseteq Matching(q)'
      BY <1>6, <3>1 DEF Served
    <3>3. iter'[i].query = q
      BY <1>1, <3>1
    <3>4. iter[i].at <= Len(tables[iter[i].query.table])
      BY <1>7
    <3> QED
      BY <1>7, <3>2, <3>3, <3>4 DEF Matching
  <2> QED
    BY <1>1, <1>2, <2>1, <2>2 DEF Served, Scanning
<1>9. Open' = Open
  <2>1. ASSUME NEW i \in DOMAIN iter PROVE Got(i)' = Got(i)
    <3>1. CASE database = "sqlite"
      BY <1>1, <3>1 DEF Got
    <3>2. CASE database # "sqlite"
      <4>1. PICK q \in Query : q = iter[i].query /\ iter'[i].query = q
        BY <1>1, <1>7
      <4>2. \A j \in Matching(q)' : j <= iter[i].at => j \in Matching(q)
        BY <1>6, <1>7, <4>1
      <4>3. Got(i) = {j \in Matching(q) : j <= iter[i].at}
        BY <3>2, <4>1 DEF Got
      <4>4. Got(i)' = {j \in Matching(q)' : j <= iter[i].at}
        BY <1>1, <3>2, <4>1 DEF Got, Matching
      <4> QED
        BY <1>6, <4>2, <4>3, <4>4
    <3> QED
      BY <3>1, <3>2
  <2> QED
    BY <1>1, <2>1 DEF Open
<1>10. Contract!Insert(t)
  <2>1. Len(tables'[t]) > Len(tables[t])
    BY <1>4
  <2>2. tables' = [tables EXCEPT ![t] = Append(@, tables'[t][Len(@) + 1])]
    BY <1>1, <1>4
  <2> QED
    BY <1>9, <2>1, <2>2 DEF Contract!Insert
<1> QED
  BY <1>8, <1>10

(* An iterator changes and nothing else does.                              *)
Becomes(i, y) ==
  /\ UNCHANGED << tables, database >>
  /\ DOMAIN iter' = DOMAIN iter /\ iter' = [k \in DOMAIN iter' |-> iter'[k]]
  /\ iter'[i] = y /\ \A k \in DOMAIN iter \ {i} : iter'[k] = iter[k]

GotBy(q, a, n) == IF database = "sqlite" THEN n ELSE {j \in Matching(q) : j <= a}

LEMMA Opened ==
  ASSUME Served, NEW i \in DOMAIN iter
  PROVE  /\ iter[i].query \in Query /\ iter[i].at \in Nat /\ DOMAIN iter[i] = Fields
         /\ Open[i].query = iter[i].query /\ Open[i].first = iter[i].first
         /\ Open[i].count = iter[i].count
         /\ iter[i].first => /\ Open[i].due = iter[i].due
                             /\ Open[i].got = GotBy(iter[i].query, iter[i].at, iter[i].seen)
         /\ ~iter[i].first => Open[i].due = {} /\ Open[i].got = {} /\ Open[i].count = 0
BY DEF Served, Open, Got, GotBy, IsIteration

LEMMA OneSteps ==
  ASSUME Served, NEW i \in DOMAIN iter, NEW y, Becomes(i, y),
         IsIteration(y), y.query = iter[i].query, y.due = iter[i].due,
         y.at <= Len(tables[iter[i].query.table]),
         y.first /\ y.seen # {} => y.due \subseteq y.base,
         ~y.first => y.count = 0
  PROVE  /\ Served'
         /\ Open' = [Open EXCEPT ![i] =
              [query |-> iter[i].query, first |-> y.first, count |-> y.count,
               result |-> y.result,
               due |-> IF y.first THEN iter[i].due ELSE {},
               got |-> IF y.first THEN GotBy(iter[i].query, y.at, y.seen) ELSE {}]]
<1> USE DEF Becomes
<1>1. \A q : Matching(q)' = Matching(q)
  BY DEF Matching, Predicate
<1>2. ASSUME NEW k \in DOMAIN iter
      PROVE  /\ IsIteration(iter'[k]) /\ iter'[k].at <= Len(tables'[iter'[k].query.table])
             /\ iter'[k].due \subseteq Matching(iter'[k].query)
             /\ iter'[k].first /\ iter'[k].seen # {} => iter'[k].due \subseteq iter'[k].base
             /\ ~iter'[k].first => iter'[k].count = 0
  <2>1. CASE k = i
    BY <2>1 DEF Served
  <2>2. CASE k # i
    BY <2>2 DEF Served, Scanning
  <2> QED
    BY <2>1, <2>2
<1>3. ASSUME NEW k \in DOMAIN iter PROVE Matching(iter[k].query)' = Matching(iter'[k].query)
  BY <1>1 DEF Matching, Predicate
<1>4. Served'
  BY <1>2, <1>3 DEF Served, Scanning
<1>5. ASSUME NEW k \in DOMAIN iter
      PROVE  Got(k)' = IF database = "sqlite" THEN iter'[k].seen
                       ELSE {j \in Matching(iter'[k].query) : j <= iter'[k].at}
  BY <1>3 DEF Got
<1>6. DOMAIN Open' = DOMAIN iter /\ DOMAIN Open = DOMAIN iter
      /\ Open = [k \in DOMAIN iter |-> Open[k]] /\ Open' = [k \in DOMAIN iter |-> Open'[k]]
  BY DEF Open
<1>7. ASSUME NEW k \in DOMAIN iter, k # i PROVE Open'[k] = Open[k]
  <2>1. iter'[k] = iter[k] /\ Got(k)' = Got(k)
    BY <1>5, <1>7 DEF Got
  <2> QED
    BY <2>1 DEF Open
<1>8. Open'[i] = [query |-> iter[i].query, first |-> y.first, count |-> y.count,
                  result |-> y.result,
                  due |-> IF y.first THEN iter[i].due ELSE {},
                  got |-> IF y.first THEN GotBy(iter[i].query, y.at, y.seen) ELSE {}]
  <2>1. Got(i)' = GotBy(iter[i].query, y.at, y.seen)
    BY <1>5 DEF GotBy
  <2>2. Open'[i] = [query |-> iter'[i].query, first |-> iter'[i].first, count |-> iter'[i].count,
                    result |-> iter'[i].result,
                    due |-> IF iter'[i].first THEN iter'[i].due ELSE {},
                    got |-> IF iter'[i].first THEN Got(i)' ELSE {}]
    BY DEF Open
  <2> QED
    BY <2>1, <2>2
<1>9. Open' = [Open EXCEPT ![i] = Open'[i]]
  BY <1>6, <1>7, ExceptOne
<1> QED
  BY <1>4, <1>8, <1>9

LEMMA RowReturned ==
  ASSUME Served, NEW i \in DOMAIN iter, NEW y, Becomes(i, y),
         IsIteration(y), y.query = iter[i].query, y.due = iter[i].due,
         y.at <= Len(tables[iter[i].query.table]),
         y.first /\ y.seen # {} => y.due \subseteq y.base,
         y.first = iter[i].first, y.count = Counted(i),
         NEW j \in Matching(iter[i].query), y.result = Produced(i, j),
         j \notin GotBy(iter[i].query, iter[i].at, iter[i].seen),
         GotBy(iter[i].query, y.at, y.seen) = GotBy(iter[i].query, iter[i].at, iter[i].seen) \cup {j}
  PROVE  Served' /\ (Contract!Produce(i) \/ Contract!Again(i))
<1>1. ~y.first => y.count = 0
  BY DEF Counted
<1>2. /\ Served'
      /\ Open' = [Open EXCEPT ![i] =
           [query |-> iter[i].query, first |-> y.first, count |-> y.count,
            result |-> y.result,
            due |-> IF y.first THEN iter[i].due ELSE {},
            got |-> IF y.first THEN GotBy(iter[i].query, y.at, y.seen) ELSE {}]]
  BY <1>1, OneSteps
<1>3. y.result = Contract!Found(iter[i].query, j) /\ j \in Contract!Matches(iter[i].query)
  BY SameRows DEF Produced
<1>4. UNCHANGED tables
  BY DEF Becomes
<1>5. CASE iter[i].first
  <2>1. /\ Open[i].first = TRUE /\ Open[i].query = iter[i].query /\ Open[i].due = iter[i].due
        /\ Open[i].count = iter[i].count
        /\ Open[i].got = GotBy(iter[i].query, iter[i].at, iter[i].seen)
    BY <1>5, Opened DEF Served, IsIteration
  <2>2. y.first = TRUE /\ y.count = Open[i].count + 1
    BY <1>5, <2>1 DEF Counted, IsIteration
  <2>3. Open' = [Open EXCEPT ![i] =
           [query |-> Open[i].query, due |-> Open[i].due, got |-> Open[i].got \cup {j},
            count |-> Open[i].count + 1, first |-> TRUE,
            result |-> Contract!Found(Open[i].query, j)]]
    BY <1>2, <1>3, <2>1, <2>2
  <2>4. j \in Contract!Matches(Open[i].query) \ Open[i].got
    BY <1>3, <2>1
  <2>5. Contract!Produce(i)
    BY <1>4, <2>1, <2>3, <2>4 DEF Contract!Produce
  <2> QED
    BY <1>2, <2>5
<1>6. CASE ~iter[i].first
  <2>1. ~Open[i].first /\ Open[i].query = iter[i].query
    BY <1>6, Opened
  <2>2. y.first = FALSE /\ y.count = 0
    BY <1>1, <1>6 DEF IsIteration
  <2>3. Open' = [Open EXCEPT ![i] =
           [query |-> Open[i].query, due |-> {}, got |-> {}, count |-> 0, first |-> FALSE,
            result |-> Contract!Found(Open[i].query, j)]]
    BY <1>2, <1>3, <2>1, <2>2
  <2>4. Contract!Again(i)
    BY <1>3, <1>4, <2>1, <2>3 DEF Contract!Again
  <2> QED
    BY <1>2, <2>4
<1> QED
  BY <1>5, <1>6

LEMMA PassEnds ==
  ASSUME Served, NEW i \in DOMAIN iter, NEW y, Becomes(i, y),
         IsIteration(y), y.query = iter[i].query, y.due = iter[i].due,
         y.at <= Len(tables[iter[i].query.table]),
         y.first = FALSE, y.count = 0, NEW code \in {0, -1}, y.result = << code >>,
         iter[i].first /\ code = 0 =>
           iter[i].due \subseteq GotBy(iter[i].query, iter[i].at, iter[i].seen)
  PROVE  Served' /\ (Contract!End(i) \/ Contract!Again(i))
<1>1. /\ Served'
      /\ Open' = [Open EXCEPT ![i] =
           [query |-> iter[i].query, first |-> y.first, count |-> y.count,
            result |-> y.result,
            due |-> IF y.first THEN iter[i].due ELSE {},
            got |-> IF y.first THEN GotBy(iter[i].query, y.at, y.seen) ELSE {}]]
  BY OneSteps
<1>2. Open[i].query = iter[i].query /\ Open[i].first = iter[i].first /\ UNCHANGED tables
  BY Opened DEF Becomes
<1>3. Open' = [Open EXCEPT ![i] =
         [query |-> Open[i].query, due |-> {}, got |-> {}, count |-> 0, first |-> FALSE,
          result |-> << code >>]]
  BY <1>1, <1>2
<1>4. CASE iter[i].first
  <2>1. code = 0 => Open[i].due \subseteq Open[i].got
    BY <1>4, Opened
  <2>2. Contract!End(i)
    BY <1>2, <1>3, <1>4, <2>1 DEF Contract!End
  <2> QED
    BY <1>1, <2>2
<1>5. CASE ~iter[i].first
  <2>1. << code >> \in {<< 0 >>, << -1 >>}
    OBVIOUS
  <2>2. Contract!Again(i)
    BY <1>2, <1>3, <1>5, <2>1 DEF Contract!Again
  <2> QED
    BY <1>1, <2>2
<1> QED
  BY <1>4, <1>5

LEMMA RowNumbers ==
  ASSUME Served, NEW i \in DOMAIN iter
  PROVE  /\ Len(tables[iter[i].query.table]) \in Nat
         /\ \A j \in Matching(iter[i].query) :
              j \in Nat /\ j <= Len(tables[iter[i].query.table])
<1>1. iter[i].query \in Query
  BY Opened
<1>2. IsRows(tables[iter[i].query.table])
  BY <1>1, QueryAssumption DEF Served
<1>3. /\ Len(tables[iter[i].query.table]) \in Nat
      /\ DOMAIN tables[iter[i].query.table] = 1..Len(tables[iter[i].query.table])
  BY <1>2, AppendRow
<1> QED
  BY <1>3 DEF Matching

LEMMA MemoryRow ==
  ASSUME Served, NEW i, NextInMemory(i)
  PROVE  Served' /\ i \in DOMAIN iter /\ (Contract!Produce(i) \/ Contract!Again(i))
<1>1. i \in DOMAIN iter /\ database = "memory" /\ UNCHANGED << tables, database >>
  BY DEF NextInMemory, Of
<1>2. PICK j \in Matching(iter[i].query) :
        /\ j > iter[i].at
        /\ \A k \in Matching(iter[i].query) : k <= iter[i].at \/ k >= j
        /\ iter' = [iter EXCEPT ![i].at = j, ![i].count = Counted(i),
                                ![i].result = Produced(i, j)]
  BY DEF NextInMemory
<1>3. /\ Len(tables[iter[i].query.table]) \in Nat
      /\ \A k \in Matching(iter[i].query) : k \in Nat /\ k <= Len(tables[iter[i].query.table])
  BY <1>1, RowNumbers
<1>4. iter[i].at \in Nat /\ DOMAIN iter[i] = Fields /\ IsIteration(iter[i])
  BY <1>1, Opened DEF Served
<1>5. PICK y : /\ y = iter'[i]
               /\ y = [iter[i] EXCEPT !.at = j, !.count = Counted(i), !.result = Produced(i, j)]
  BY <1>1, <1>2
<1>6. /\ DOMAIN y = Fields /\ y.at = j /\ y.count = Counted(i) /\ y.result = Produced(i, j)
      /\ y.query = iter[i].query /\ y.base = iter[i].base /\ y.seen = iter[i].seen
      /\ y.first = iter[i].first /\ y.due = iter[i].due
  BY <1>4, <1>5 DEF Fields
<1>7. Becomes(i, y)
  BY <1>1, <1>2, <1>5 DEF Becomes
<1>8. IsIteration(y) /\ y.at <= Len(tables[iter[i].query.table])
  BY <1>3, <1>4, <1>6 DEF IsIteration
<1>9. y.first /\ y.seen # {} => y.due \subseteq y.base
  BY <1>1, <1>6 DEF Served, Scanning
<1>10. j \notin GotBy(iter[i].query, iter[i].at, iter[i].seen)
  BY <1>1, <1>2, <1>3, <1>4 DEF GotBy
<1>11. GotBy(iter[i].query, y.at, y.seen) = GotBy(iter[i].query, iter[i].at, iter[i].seen) \cup {j}
  <2>1. \A k \in Matching(iter[i].query) : k <= j <=> k <= iter[i].at \/ k = j
    BY <1>2, <1>3, <1>4
  <2> QED
    BY <1>1, <1>2, <1>6, <2>1 DEF GotBy
<1> QED
  BY <1>1, <1>6, <1>7, <1>8, <1>9, <1>10, <1>11, RowReturned

LEMMA MemoryEnd ==
  ASSUME Served, NEW i, EndInMemory(i)
  PROVE  Served' /\ i \in DOMAIN iter /\ (Contract!End(i) \/ Contract!Again(i))
<1>1. i \in DOMAIN iter /\ database = "memory" /\ UNCHANGED << tables, database >>
      /\ iter' = [iter EXCEPT ![i].at = Len(tables[iter[i].query.table]),
                              ![i].result = << 0 >>, ![i].first = FALSE, ![i].count = 0]
      /\ \A j \in Matching(iter[i].query) : j <= iter[i].at
  BY DEF EndInMemory, Of
<1>2. Len(tables[iter[i].query.table]) \in Nat
  BY <1>1, RowNumbers
<1>3. DOMAIN iter[i] = Fields /\ IsIteration(iter[i])
  BY <1>1, Opened DEF Served
<1>4. PICK y : /\ y = iter'[i]
               /\ y = [iter[i] EXCEPT !.at = Len(tables[iter[i].query.table]), !.result = << 0 >>,
                          !.first = FALSE, !.count = 0]
  BY <1>1
<1>5. /\ DOMAIN y = Fields /\ y.at = Len(tables[iter[i].query.table]) /\ y.count = 0
      /\ y.result = << 0 >> /\ y.first = FALSE /\ y.query = iter[i].query
      /\ y.due = iter[i].due
  BY <1>3, <1>4 DEF Fields
<1>6. Becomes(i, y)
  BY <1>1, <1>4 DEF Becomes
<1>7. IsIteration(y) /\ y.at <= Len(tables[iter[i].query.table])
  <2>1. y.at \in Nat /\ y.at <= Len(tables[iter[i].query.table])
    BY <1>2, <1>5
  <2>2. IsIteration(y)
    BY <1>3, <1>5, <2>1 DEF IsIteration
  <2> QED
    BY <2>1, <2>2
<1>8. iter[i].due \subseteq GotBy(iter[i].query, iter[i].at, iter[i].seen)
  BY <1>1 DEF Served, GotBy
<1> QED
  BY <1>1, <1>5, <1>6, <1>7, <1>8, PassEnds

LEMMA StatementRow ==
  ASSUME Served, NEW i, StepRow(i)
  PROVE  Served' /\ i \in DOMAIN iter /\ (Contract!Produce(i) \/ Contract!Again(i))
<1>1. i \in DOMAIN iter /\ database = "sqlite" /\ UNCHANGED << tables, database >>
  BY DEF StepRow, Of
<1>2. PICK j \in Matching(iter[i].query) \ iter[i].seen :
        iter' = [iter EXCEPT ![i].base = Base(i), ![i].seen = @ \cup {j},
                             ![i].count = Counted(i), ![i].result = Produced(i, j)]
  BY DEF StepRow
<1>3. DOMAIN iter[i] = Fields /\ IsIteration(iter[i])
  BY <1>1, Opened DEF Served
<1>4. PICK y : /\ y = iter'[i]
               /\ y = [iter[i] EXCEPT !.base = Base(i), !.seen = iter[i].seen \cup {j},
                          !.count = Counted(i), !.result = Produced(i, j)]
  BY <1>1, <1>2
<1>5. /\ DOMAIN y = Fields /\ y.base = Base(i) /\ y.seen = iter[i].seen \cup {j}
      /\ y.count = Counted(i) /\ y.result = Produced(i, j)
      /\ y.query = iter[i].query /\ y.at = iter[i].at
      /\ y.first = iter[i].first /\ y.due = iter[i].due
  BY <1>3, <1>4 DEF Fields
<1>6. Becomes(i, y)
  BY <1>1, <1>2, <1>4 DEF Becomes
<1>7. IsIteration(y) /\ y.at <= Len(tables[iter[i].query.table])
  BY <1>1, <1>3, <1>5 DEF IsIteration, Served
<1>8. y.first => y.due \subseteq y.base
  BY <1>1, <1>5 DEF Base, Served
<1>9. /\ j \notin GotBy(iter[i].query, iter[i].at, iter[i].seen)
      /\ GotBy(iter[i].query, y.at, y.seen) = GotBy(iter[i].query, iter[i].at, iter[i].seen) \cup {j}
  BY <1>1, <1>2, <1>5 DEF GotBy
<1> QED
  BY <1>1, <1>2, <1>5, <1>6, <1>7, <1>8, <1>9, RowReturned

LEMMA StatementEnd ==
  ASSUME Served, NEW i, StepEnds(i)
  PROVE  Served' /\ i \in DOMAIN iter /\ (Contract!End(i) \/ Contract!Again(i))
<1>1. i \in DOMAIN iter /\ database = "sqlite" /\ UNCHANGED << tables, database >>
  BY DEF StepEnds, Of
<1>2. PICK code \in {0, -1} :
        /\ code = 0 => Base(i) \subseteq iter[i].seen
        /\ iter' = [iter EXCEPT ![i].base = {}, ![i].seen = {}, ![i].result = << code >>,
                                ![i].first = FALSE, ![i].count = 0]
  BY DEF StepEnds
<1>3. DOMAIN iter[i] = Fields /\ IsIteration(iter[i])
  BY <1>1, Opened DEF Served
<1>4. PICK y : /\ y = iter'[i]
               /\ y = [iter[i] EXCEPT !.base = {}, !.seen = {}, !.result = << code >>,
                          !.first = FALSE, !.count = 0]
  BY <1>1, <1>2
<1>5. /\ DOMAIN y = Fields /\ y.count = 0 /\ y.result = << code >> /\ y.first = FALSE
      /\ y.query = iter[i].query /\ y.at = iter[i].at /\ y.due = iter[i].due
  BY <1>3, <1>4 DEF Fields
<1>6. Becomes(i, y)
  BY <1>1, <1>2, <1>4 DEF Becomes
<1>7. IsIteration(y) /\ y.at <= Len(tables[iter[i].query.table])
  BY <1>1, <1>3, <1>5 DEF IsIteration, Served
<1>8. iter[i].first /\ code = 0 =>
        iter[i].due \subseteq GotBy(iter[i].query, iter[i].at, iter[i].seen)
  BY <1>1, <1>2 DEF Base, Served, GotBy
<1> QED
  BY <1>1, <1>5, <1>6, <1>7, <1>8, PassEnds

LEMMA Begins ==
  ASSUME Served, NEW i, NEW q \in Query, QueryRows(i, q)
  PROVE  Served' /\ Contract!Begin(i, q)
<1> DEFINE y == [query |-> q, at |-> 0, base |-> {}, seen |-> {}, result |-> << 0 >>,
                 first |-> TRUE, count |-> 0, due |-> Matching(q)]
<1>1. i \notin DOMAIN iter /\ UNCHANGED << tables, database >>
      /\ iter' = [k \in DOMAIN iter \cup {i} |-> IF k # i THEN iter[k] ELSE y]
  BY DEF QueryRows
<1>2. /\ DOMAIN iter' = DOMAIN iter \cup {i} /\ iter'[i] = y
      /\ \A k \in DOMAIN iter : iter'[k] = iter[k] /\ k # i
      /\ iter' = [k \in DOMAIN iter' |-> iter'[k]]
  BY <1>1
<1>3. /\ DOMAIN y = Fields /\ y.query = q /\ y.at = 0 /\ y.seen = {} /\ y.first = TRUE
      /\ y.count = 0 /\ y.due = Matching(q) /\ y.result = << 0 >>
  BY DEF Fields
<1> HIDE DEF y
<1>4. \A p : Matching(p)' = Matching(p)
  BY <1>1 DEF Matching, Predicate
<1>5. ASSUME NEW k \in DOMAIN iter' PROVE Matching(iter[k].query)' = Matching(iter'[k].query)
  BY <1>1, <1>4 DEF Matching, Predicate
<1>6. IsRows(tables[q.table]) /\ Len(tables[q.table]) \in Nat /\ 0 <= Len(tables[q.table])
      /\ DOMAIN tables[q.table] = 1..Len(tables[q.table])
  <2>1. IsRows(tables[q.table])
    BY QueryAssumption DEF Served
  <2>2. Len(tables[q.table]) \in Nat /\ DOMAIN tables[q.table] = 1..Len(tables[q.table])
    BY <2>1, AppendRow
  <2> QED
    BY <2>1, <2>2
<1>7. ASSUME NEW k \in DOMAIN iter'
      PROVE  /\ IsIteration(iter'[k]) /\ iter'[k].at <= Len(tables'[iter'[k].query.table])
             /\ iter'[k].due \subseteq Matching(iter'[k].query)
             /\ iter'[k].first /\ iter'[k].seen # {} => iter'[k].due \subseteq iter'[k].base
             /\ ~iter'[k].first => iter'[k].count = 0
  <2>1. CASE k = i
    <3>1. iter'[k] = y /\ tables' = tables
      BY <1>1, <1>2, <2>1
    <3>2. IsIteration(y)
      <4>1. y.at \in Nat /\ y.query \in Query
        BY <1>3
      <4> QED
        BY <1>3, <4>1, Zenon DEF IsIteration
    <3>3. y.at <= Len(tables[y.query.table])
      BY <1>3, <1>6
    <3>4. y.due \subseteq Matching(y.query)
      BY <1>3
    <3> QED
      BY <1>3, <3>1, <3>2, <3>3, <3>4
  <2>2. CASE k # i
    BY <1>1, <1>2, <2>2 DEF Served, Scanning
  <2> QED
    BY <2>1, <2>2
<1>8. Served'
  <2>1. DOMAIN tables' = Table /\ \A t \in Table : IsRows(tables'[t])
    BY <1>1 DEF Served
  <2>2. iter' = [k \in DOMAIN iter' |-> iter'[k]]
    BY <1>2
  <2>3. ASSUME NEW k \in DOMAIN iter'
        PROVE  /\ iter'[k].due \subseteq Matching(iter[k].query)'
               /\ iter'[k].first /\ Scanning(k)' => iter'[k].due \subseteq iter'[k].base
    BY <1>5, <1>7 DEF Scanning
  <2> QED
    BY <1>7, <2>1, <2>2, <2>3 DEF Served
<1>9. ASSUME NEW k \in DOMAIN iter'
      PROVE  Got(k)' = IF database = "sqlite" THEN iter'[k].seen
                       ELSE {j \in Matching(iter'[k].query) : j <= iter'[k].at}
  BY <1>1, <1>5 DEF Got
<1>10. Got(i)' = {}
  <2>1. \A j \in Matching(q) : ~(j <= 0)
    BY <1>6 DEF Matching
  <2> QED
    BY <1>2, <1>3, <1>9, <2>1
<1>11. \A k \in DOMAIN iter : Got(k)' = Got(k)
  BY <1>2, <1>9 DEF Got
<1>12. Open' = [k \in DOMAIN iter \cup {i} |->
                 IF k # i THEN Open[k]
                 ELSE [query |-> q, due |-> Matching(q), got |-> {}, count |-> 0,
                       first |-> TRUE, result |-> << 0 >>]]
  <2>1. DOMAIN Open' = DOMAIN iter \cup {i} /\ Open' = [k \in DOMAIN Open' |-> Open'[k]]
    BY <1>2 DEF Open
  <2>2. ASSUME NEW k \in DOMAIN iter PROVE Open'[k] = Open[k]
    BY <1>2, <1>11 DEF Open
  <2>3. Open'[i] = [query |-> q, due |-> Matching(q), got |-> {}, count |-> 0,
                    first |-> TRUE, result |-> << 0 >>]
    BY <1>2, <1>3, <1>10 DEF Open
  <2> QED
    BY <1>2, <2>1, <2>2, <2>3
<1>13. Contract!Begin(i, q)
  BY <1>1, <1>12, SameRows DEF Contract!Begin, Open
<1> QED
  BY <1>8, <1>13

LEMMA Deleted ==
  ASSUME Served, NEW i, Delete(i)
  PROVE  Served' /\ i \in DOMAIN iter /\ Contract!Delete(i)
<1>1. i \in DOMAIN iter /\ iter' = [k \in DOMAIN iter \ {i} |-> iter[k]]
      /\ UNCHANGED << tables, database >>
  BY DEF Delete, Of
<1>2. /\ DOMAIN iter' = DOMAIN iter \ {i} /\ iter' = [k \in DOMAIN iter' |-> iter'[k]]
      /\ \A k \in DOMAIN iter' : iter'[k] = iter[k]
  BY <1>1
<1>3. ASSUME NEW k \in DOMAIN iter' PROVE Matching(iter[k].query)' = Matching(iter[k].query)
  BY <1>1, <1>2 DEF Matching, Predicate
<1>4. Served'
  BY <1>1, <1>2, <1>3 DEF Served, Scanning
<1>5. \A k \in DOMAIN iter' : Got(k)' = Got(k)
  BY <1>1, <1>2, <1>3 DEF Got
<1>6. Open' = [k \in DOMAIN Open \ {i} |-> Open[k]]
  BY <1>1, <1>2, <1>5 DEF Open
<1> QED
  BY <1>1, <1>4, <1>6 DEF Contract!Delete

(* A step that leaves rows and iterators alone.                            *)
LEMMA Elsewhere ==
  ASSUME Served, UNCHANGED << database, tables, iter >>
  PROVE  Served' /\ UNCHANGED << tables, Open >>
<1>1. \A q : Matching(q)' = Matching(q)
  BY DEF Matching, Predicate
<1>2. ASSUME NEW k \in DOMAIN iter PROVE Matching(iter[k].query)' = Matching(iter[k].query)
  BY <1>1 DEF Matching, Predicate
<1>3. \A k \in DOMAIN iter : Got(k)' = Got(k)
  BY <1>2 DEF Got
<1> QED
  BY <1>2, <1>3 DEF Served, Scanning, Open

LEMMA ServedNext ==
  Served /\ [Next]_vars => Served' /\ [Contract!Next]_<< tables, Open >>
<1> SUFFICES ASSUME Served, [Next]_vars
             PROVE  Served' /\ (Contract!Next \/ UNCHANGED << tables, Open >>)
  OBVIOUS
<1>1. DOMAIN Open = DOMAIN iter /\ DOMAIN tables = Table
  BY DEF Open, Served
<1>2. ASSUME NEW t \in Table, NEW row, Store(t, row)
      PROVE  Served' /\ Contract!Next
  BY <1>1, <1>2, StoreStep DEF Contract!Next
<1>3. CASE TransactionBegin \/ Commit
  BY <1>3, Elsewhere DEF TransactionBegin, Commit
<1>4. ASSUME NEW x \in Row, Insert(x[1], x[2]) \/ OthersInsert(x[1], x[2])
      PROVE  Served' /\ Contract!Next
  <2>1. Store(x[1], x[2]) /\ x[1] \in Table
    BY <1>4, RowAssumption DEF Insert, OthersInsert
  <2> QED
    BY <1>2, <2>1
<1>5. ASSUME NEW row, InsertSymbol(row)
      PROVE  Served' /\ (Contract!Next \/ UNCHANGED << tables, Open >>)
  <2>1. Store("symbol", row) \/ UNCHANGED << database, tables, iter >>
    BY <1>5 DEF InsertSymbol
  <2> QED
    BY <1>2, <2>1, Elsewhere DEF Table
<1>6. CASE PathStep /\ UNCHANGED rowVars
  BY <1>6, Elsewhere DEF rowVars
<1>7. CASE InsertNormalized
  <2>1. PICK row : Store("symbol", row)
    BY <1>7 DEF InsertNormalized
  <2> QED
    BY <1>2, <2>1 DEF Table
<1>8. ASSUME NEW i \in Iterator, NEW q \in Query, QueryRows(i, q)
      PROVE  Served' /\ Contract!Next
  BY <1>8, Begins DEF Contract!Next
<1>9. ASSUME NEW i \in Iterator,
             NextInMemory(i) \/ EndInMemory(i) \/ StepRow(i) \/ StepEnds(i) \/ Delete(i)
      PROVE  Served' /\ Contract!Next
  <2>1. Served' /\ i \in DOMAIN iter
        /\ (Contract!Produce(i) \/ Contract!End(i) \/ Contract!Again(i) \/ Contract!Delete(i))
    BY <1>9, MemoryRow, MemoryEnd, StatementRow, StatementEnd, Deleted
  <2> QED
    BY <1>1, <2>1 DEF Contract!Next
<1>10. CASE UNCHANGED vars
  BY <1>10, Elsewhere DEF vars, rowVars
<1> QED
  BY <1>3, <1>4, <1>5, <1>6, <1>7, <1>8, <1>9, <1>10 DEF Next

(* The iterators of both databases keep the promise of IteratorBase, for   *)
(* any rows, queries and number of iterators: no row comes twice, and      *)
(* after the last one all that matched when the query was made have come.  *)
THEOREM IteratorsKeepPromise == Spec => ImplementsIteratorBase
<1>1. Init => Served /\ Contract!Init
  BY ServedInit
<1>2. Served /\ [Next]_vars => Served' /\ [Contract!Next]_<< tables, Open >>
  BY ServedNext
<1> QED
  BY <1>1, <1>2, PTL DEF Spec, ImplementsIteratorBase, Contract!Spec
=============================================================================
