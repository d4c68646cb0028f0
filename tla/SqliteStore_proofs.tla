-------------------------- MODULE SqliteStore_proofs --------------------------
(***************************************************************************)
(* Proofs about SqliteStore, for any number of compilers, readers, units   *)
(* and rows.                                                               *)
(***************************************************************************)
EXTENDS SqliteStore, TLAPS

Opening == {"off", "schema", "creating"}

(* How far a compiler can be at each of its places.                        *)
Places ==
  /\ \A p \in Process : pc[p] \in Opening => object[p] <= NObjects
  /\ \A c \in Compiler :
       /\ pc[c] \in Opening => unit[c] = 1 /\ row[c] = 1
       /\ pc[c] \in {"begin", "walk"} => unit[c] <= NUnits

USE DEF None, Shared, Reserved, Pending, Exclusive, NoFile
USE DEF Sound

LEMMA InitTyped == Init => TypeOK /\ Places
BY SizeAssumption DEF Init, TypeOK, Places, Opening, Process, Row, Stopped

LEMMA ThisTyped ==
  ASSUME TypeOK, Places, NEW c \in Compiler, AtInsert(c)
  PROVE  This(c) \in Row
<1>1. unit[c] \in 1..NUnits /\ row[c] \in 1..NRows
  BY SizeAssumption DEF TypeOK, Places, AtInsert
<1> QED
  BY <1>1 DEF This, Row

LEMMA OpeningTyped ==
  ASSUME TypeOK, Places, NEW p \in Process,
         \/ Open(p) \/ OpenFails(p) \/ CreateKnown(p) \/ CreateStart(p)
         \/ CreateEnd(p) \/ CreateFails(p)
  PROVE  TypeOK' /\ Places'
<1> USE SizeAssumption, ProcessAssumption
<1>1. CASE Open(p)
  BY <1>1 DEF Open, schemaUnits, TypeOK, Places, Opening, Process, Stopped
<1>2. CASE OpenFails(p) \/ CreateFails(p)
  BY <1>2 DEF OpenFails, CreateFails, Abort, schemaUnits, TypeOK, Places, Opening,
              Process, Stopped
<1>3. CASE CreateKnown(p)
  BY <1>3 DEF CreateKnown, NextObject, schemaUnits, TypeOK, Places, Opening,
              Process, Stopped
<1>4. CASE CreateStart(p)
  BY <1>4 DEF CreateStart, schemaUnits, TypeOK, Places, Opening, Process, Stopped
<1>5. CASE CreateEnd(p)
  BY <1>5 DEF CreateEnd, NextObject, schemaUnits, TypeOK, Places, Opening,
              Process, Stopped
<1> QED
  BY <1>1, <1>2, <1>3, <1>4, <1>5

LEMMA UnitTyped ==
  ASSUME TypeOK, Places, NEW c \in Compiler,
         \/ TransactionBegin(c)
         \/ Insert(c) \/ InsertAlone(c) \/ InsertBusy(c) \/ InsertFull(c)
         \/ Commit(c) \/ CommitBusy(c) \/ CommitFails(c) \/ CommitNothing(c)
         \/ Close(c) \/ Crash(c)
  PROVE  TypeOK' /\ Places'
<1> USE SizeAssumption DEF Process
<1>1. CASE TransactionBegin(c)
  BY <1>1 DEF TransactionBegin, TypeOK, Places, Opening, Stopped
<1>2. CASE Insert(c)
  <2>1. This(c) \in Row /\ AtInsert(c)
    BY <1>2, ThisTyped DEF Insert
  <2>2. PICK l \in Grown(c) : lock' = [lock EXCEPT ![c] = l]
    BY <1>2 DEF Insert
  <2>5. lock[c] \in 0..4
    BY DEF TypeOK
  <2>6. l \in 0..4
    BY <2>5 DEF Grown
  <2>3. row[c] <= NRows /\ row' = [row EXCEPT ![c] = @ + 1] /\ pc[c] = "walk"
    BY <1>2 DEF Insert, AtInsert, NextRow
  <2>4. TypeOK'
    BY <1>2, <2>1, <2>2, <2>6, <2>3 DEF Insert, TypeOK, Stopped
  <2> QED
    BY <1>2, <2>3, <2>4 DEF Insert, TypeOK, Places, Opening
<1>3. CASE InsertAlone(c) \/ InsertBusy(c) \/ InsertFull(c)
  <2>1. AtInsert(c)
    BY <1>3 DEF InsertAlone, InsertBusy, InsertFull
  <2>2. This(c) \in Row
    BY <2>1, ThisTyped
  <2>3. row[c] <= NRows /\ row' = [row EXCEPT ![c] = @ + 1] /\ pc[c] = "walk"
    BY <1>3, <2>1 DEF InsertAlone, InsertBusy, InsertFull, AtInsert, NextRow
  <2>4. CASE InsertAlone(c)
    BY <2>2, <2>3, <2>4 DEF InsertAlone, TypeOK, Places, Opening, Stopped
  <2>5. CASE InsertBusy(c)
    BY <2>2, <2>3, <2>5 DEF InsertBusy, TypeOK, Places, Opening, Stopped
  <2>6. CASE InsertFull(c)
    BY <2>2, <2>3, <2>6 DEF InsertFull, TypeOK, Places, Opening, Stopped
  <2> QED
    BY <1>3, <2>4, <2>5, <2>6
<1>4. CASE Commit(c) \/ CommitNothing(c)
  BY <1>4 DEF Commit, CommitNothing, AtCommit, NextUnit, TypeOK, Places, Opening, Stopped
<1>6. CASE CommitBusy(c) \/ CommitFails(c)
  <2>1. AtCommit(c) /\ unit[c] \in 1..NUnits
    BY <1>6 DEF CommitBusy, CommitFails, AtCommit, TypeOK, Places
  <2>2. refused' \subseteq Compiler \X (1..NUnits)
    BY <1>6, <2>1 DEF CommitBusy, CommitFails, TypeOK
  <2> QED
    BY <1>6, <2>1, <2>2 DEF CommitBusy, CommitFails, AtCommit, NextUnit,
                            TypeOK, Places, Opening, Stopped
<1>5. CASE Close(c) \/ Crash(c)
  BY <1>5 DEF Close, Crash, GoneTo, TypeOK, Places, Opening, Stopped
<1> QED
  BY <1>1, <1>2, <1>3, <1>4, <1>5, <1>6

LEMMA ReadTyped ==
  ASSUME TypeOK, Places, NEW r \in Reader, StartRead(r) \/ EndRead(r)
  PROVE  TypeOK' /\ Places'
BY ProcessAssumption DEF StartRead, EndRead, schemaUnits, TypeOK, Places, Opening,
                         Process, Stopped

LEMMA NextTyped == TypeOK /\ Places /\ [Next]_vars => TypeOK' /\ Places'
<1> SUFFICES ASSUME TypeOK, Places, [Next]_vars PROVE TypeOK' /\ Places'
  OBVIOUS
<1>1. CASE UNCHANGED vars
  BY <1>1 DEF vars, TypeOK, Places
<1>2. ASSUME NEW c \in Compiler, Open(c) \/ Build(c) \/ Crash(c)
      PROVE  TypeOK' /\ Places'
  BY <1>2, OpeningTyped, UnitTyped DEF Build, Process
<1>3. ASSUME NEW r \in Reader, Read(r)
      PROVE  TypeOK' /\ Places'
  BY <1>3, OpeningTyped, ReadTyped DEF Read, Process
<1> QED
  BY <1>1, <1>2, <1>3 DEF Next

(* Every state of the store is typed, whatever fails.                      *)
THEOREM StoreTyped == Spec => []TypeOK
<1>1. Spec => [](TypeOK /\ Places)
  BY InitTyped, NextTyped, PTL DEF Spec
<1> QED
  BY <1>1, PTL

-----------------------------------------------------------------------------
(***************************************************************************)
(* A walk of a compiler that meets no failure but BUSY is inside a         *)
(* transaction.  Its rows are then those it tried since its compiler last  *)
(* committed, without the lost ones; and as it keeps RESERVED with the     *)
(* first of them, those lost come before those it holds.                   *)
(***************************************************************************)
Tried(r) ==
  \/ r[2] < unit[r[1]]
  \/ (r[2] = unit[r[1]] /\ r[3] < row[r[1]])

SoundOnes == Compiler \ Faulty

USE DEF SoundOnes

InTransaction == \A c \in SoundOnes : pc[c] = "walk" => c \in tx

LostWasTried == \A r \in Sound(lost) : Tried(r)

Holds ==
  \A c \in SoundOnes :
    /\ done[c] < unit[c]
    /\ pc[c] \in Stopped => held[c] = {}
    /\ pc[c] \notin Stopped =>
         \A r \in Row :
           r \in held[c] <=> r[1] = c /\ done[c] < r[2] /\ Tried(r) /\ r \notin lost
    /\ held[c] # {} => lock[c] >= Reserved

LostFirst ==
  \A r \in Sound(lost) : \A i \in 1..NRows : i <= r[3] => << r[1], r[2], i >> \in lost

HeldIsOwn == \A c \in Compiler : \A r \in held[c] : r[1] = c

StoreInv ==
  TypeOK /\ Places /\ HeldIsOwn /\ InTransaction /\ LostWasTried /\ Holds /\ LostFirst

LEMMA RowParts ==
  ASSUME NEW r \in Row
  PROVE  /\ r = << r[1], r[2], r[3] >> /\ r[1] \in Compiler
         /\ r[2] \in 1..NUnits /\ r[3] \in 1..NRows
BY DEF Row

LEMMA InitStore == Init => StoreInv /\ StoreIsCommittedUnits
<1> SUFFICES ASSUME Init PROVE StoreInv /\ StoreIsCommittedUnits
  OBVIOUS
<1>1. ASSUME NEW r \in Row PROVE ~Tried(r) /\ ~(r[2] <= done[r[1]])
  BY <1>1, RowParts, SizeAssumption DEF Init, Tried
<1>2. \A c \in Compiler : done[c] = 0 /\ unit[c] = 1 /\ held[c] = {} /\ pc[c] = "off"
  BY DEF Init, Process
<1>3. Holds
  <2> SUFFICES ASSUME NEW c \in Compiler
               PROVE  /\ done[c] < unit[c] /\ held[c] = {}
                      /\ \A r \in Row : ~Tried(r)
    BY DEF Holds
  <2> QED
    BY <1>1, <1>2
<1>4. StoreIsCommittedUnits
  BY <1>1 DEF Init, StoreIsCommittedUnits
<1> QED
  BY InitTyped, <1>2, <1>3, <1>4 DEF Init, StoreInv, HeldIsOwn, InTransaction, LostWasTried, LostFirst, Process

(* A compiler that is still opening the file holds nothing.                *)
LEMMA OpeningHoldsNothing ==
  ASSUME StoreInv, NEW c \in SoundOnes, pc[c] \in Opening
  PROVE  held[c] = {}
<1>1. unit[c] = 1 /\ row[c] = 1 /\ pc[c] \notin Stopped
  BY DEF StoreInv, Places, Opening, Stopped
<1>2. ASSUME NEW r \in held[c] PROVE FALSE
  <2>1. r \in Row
    BY DEF StoreInv, TypeOK
  <2>2. r[1] = c /\ Tried(r)
    BY <1>1, <2>1 DEF StoreInv, Holds
  <2> QED
    BY <1>1, <2>1, <2>2, RowParts DEF Tried
<1> QED
  BY <1>2

LEMMA OpeningStore ==
  ASSUME StoreInv, StoreIsCommittedUnits, NEW p \in Process,
         \/ Open(p) \/ OpenFails(p) \/ CreateKnown(p) \/ CreateStart(p)
         \/ CreateEnd(p) \/ CreateFails(p)
         \/ p \in Reader /\ (StartRead(p) \/ EndRead(p))
  PROVE  /\ InTransaction' /\ LostWasTried' /\ Holds' /\ LostFirst'
         /\ StoreIsCommittedUnits' /\ UNCHANGED << stored, done >>
<1>1. UNCHANGED << stored, unit, row, tx, held, lost, refused, done >>
  BY DEF Open, OpenFails, CreateKnown, CreateStart, CreateEnd, CreateFails, Abort,
         StartRead, EndRead, schemaUnits
<1>2. \A q \in Process \ {p} : pc'[q] = pc[q] /\ lock'[q] = lock[q]
  BY DEF Open, OpenFails, CreateKnown, NextObject, CreateStart, CreateEnd, CreateFails,
         Abort, StartRead, EndRead, StoreInv, TypeOK
<1>3. ASSUME p \in Compiler
      PROVE  pc[p] \in Opening /\ pc'[p] \in Opening \cup {"begin", "aborted"}
  BY <1>3, ProcessAssumption
     DEF Open, OpenFails, CreateKnown, NextObject, CreateStart, CreateEnd, CreateFails,
         Abort, StartRead, EndRead, StoreInv, TypeOK, Opening, Process
<1>4. ASSUME p \in SoundOnes PROVE held[p] = {}
  BY <1>3, <1>4, OpeningHoldsNothing
<1>5. \A r : Tried(r)' <=> Tried(r)
  BY <1>1 DEF Tried
<1>6. InTransaction'
  BY <1>1, <1>2, <1>3 DEF StoreInv, InTransaction, Process, Opening
<1>7. ASSUME NEW c \in SoundOnes, c # p
      PROVE  /\ done'[c] < unit'[c]
             /\ pc'[c] \in Stopped => held'[c] = {}
             /\ pc'[c] \notin Stopped =>
                  \A r \in Row : r \in held'[c] <=>
                    r[1] = c /\ done'[c] < r[2] /\ Tried(r)' /\ r \notin lost'
             /\ held'[c] # {} => lock'[c] >= Reserved
  BY <1>1, <1>2, <1>5, <1>7 DEF StoreInv, Holds, Process
<1>8. ASSUME p \in SoundOnes
      PROVE  /\ done'[p] < unit'[p]
             /\ pc'[p] \in Stopped => held'[p] = {}
             /\ pc'[p] \notin Stopped =>
                  \A r \in Row : r \in held'[p] <=>
                    r[1] = p /\ done'[p] < r[2] /\ Tried(r)' /\ r \notin lost'
             /\ held'[p] # {} => lock'[p] >= Reserved
  <2>1. pc[p] \notin Stopped
    BY <1>3, <1>8 DEF Opening, Stopped
  <2> QED
    BY <1>1, <1>4, <1>5, <1>8, <2>1 DEF StoreInv, Holds
<1>9. Holds'
  BY <1>7, <1>8 DEF Holds
<1> QED
  BY <1>1, <1>5, <1>6, <1>9 DEF StoreInv, LostWasTried, LostFirst, StoreIsCommittedUnits

(* An insertion: the row goes to what is held, or to what is lost.         *)
LEMMA InsertionStore ==
  ASSUME StoreInv, StoreIsCommittedUnits, NEW c \in SoundOnes,
         Insert(c) \/ InsertAlone(c) \/ InsertBusy(c) \/ InsertFull(c)
  PROVE  /\ InTransaction' /\ LostWasTried' /\ Holds' /\ LostFirst'
         /\ StoreIsCommittedUnits' /\ UNCHANGED << stored, done >>
<1> DEFINE t == This(c)
<1>1. t \in Row /\ t[1] = c /\ t[2] = unit[c] /\ t[3] = row[c] /\ AtInsert(c)
  BY ThisTyped DEF Insert, InsertAlone, InsertBusy, InsertFull, StoreInv, This
<1>2. c \in tx /\ pc[c] = "walk"
  BY <1>1 DEF StoreInv, InTransaction, AtInsert
<1>3. /\ UNCHANGED << stored, pc, unit, tx, done >>
      /\ row' = [row EXCEPT ![c] = @ + 1]
      /\ \/ /\ Insert(c)
            /\ held' = [held EXCEPT ![c] = @ \cup {t}]
            /\ lost' = lost /\ lock'[c] >= Reserved
         \/ /\ InsertBusy(c)
            /\ held' = held /\ lost' = lost \cup {t} /\ lock' = lock
  <2>1. CASE Insert(c)
    <3>1. PICK l \in Grown(c) : lock' = [lock EXCEPT ![c] = l]
      BY <2>1 DEF Insert
    <3>2. l >= Reserved
      BY DEF Grown, StoreInv, TypeOK, Process
    <3> QED
      BY <2>1, <3>1, <3>2 DEF Insert, NextRow, StoreInv, TypeOK, Process
  <2>2. CASE InsertBusy(c)
    BY <2>2 DEF InsertBusy, NextRow
  <2> QED
    BY <1>2, <2>1, <2>2 DEF InsertAlone, InsertFull
<1>4. \A q \in Process \ {c} : lock'[q] = lock[q]
  BY DEF Insert, InsertAlone, InsertBusy, InsertFull, StoreInv, TypeOK
<1>5. ASSUME NEW r \in Row PROVE Tried(r)' <=> Tried(r) \/ r = t
  <2>1. r = << r[1], r[2], r[3] >> /\ t = << c, unit[c], row[c] >>
    BY <1>1, <1>5, RowParts DEF This
  <2>2. r[1] \in Compiler /\ r[2] \in Nat /\ r[3] \in Nat
    BY <1>5, RowParts
  <2>3. unit[r[1]] \in Nat /\ row[r[1]] \in Nat /\ row \in [Compiler -> 1..(NRows + 1)]
    BY <2>2, SizeAssumption DEF StoreInv, TypeOK
  <2>4. CASE r[1] = c
    BY <1>3, <2>1, <2>2, <2>3, <2>4 DEF Tried
  <2>5. CASE r[1] # c
    BY <1>3, <2>1, <2>2, <2>3, <2>5 DEF Tried
  <2> QED
    BY <2>4, <2>5
<1>6. ~Tried(t) /\ done[c] < t[2] /\ t \notin lost /\ t \notin held[c]
  <2>1. ~Tried(t)
    BY <1>1, SizeAssumption DEF Tried, StoreInv, TypeOK
  <2>2. done[c] < t[2] /\ pc[c] \notin Stopped
    BY <1>1, <1>2 DEF StoreInv, Holds, Stopped
  <2> QED
    BY <1>1, <2>1, <2>2 DEF StoreInv, LostWasTried, Holds
<1>7. lost \subseteq Row /\ held \in [Compiler -> SUBSET Row]
  BY DEF StoreInv, TypeOK
<1> HIDE DEF t
<1>8. InTransaction'
  BY <1>3 DEF StoreInv, InTransaction
<1>9. LostWasTried'
  BY <1>1, <1>3, <1>5, <1>7 DEF StoreInv, LostWasTried
<1>10. Holds'
  <2> SUFFICES ASSUME NEW d \in SoundOnes
               PROVE  /\ done'[d] < unit'[d]
                      /\ pc'[d] \in Stopped => held'[d] = {}
                      /\ pc'[d] \notin Stopped =>
                           \A r \in Row : r \in held'[d] <=>
                             r[1] = d /\ done'[d] < r[2] /\ Tried(r)' /\ r \notin lost'
                      /\ held'[d] # {} => lock'[d] >= Reserved
    BY DEF Holds
  <2>1. CASE d # c
    BY <1>1, <1>3, <1>4, <1>5, <1>7, <2>1 DEF StoreInv, Holds, Process
  <2>2. CASE d = c
    <3>1. pc[c] \notin Stopped
      BY <1>2 DEF Stopped
    <3> QED
      BY <1>1, <1>3, <1>5, <1>6, <1>7, <2>2, <3>1 DEF StoreInv, Holds
  <2> QED
    BY <2>1, <2>2
<1>11. LostFirst'
  <2>1. CASE lost' = lost
    BY <2>1 DEF StoreInv, LostFirst
  <2>2. CASE InsertBusy(c) /\ lost' = lost \cup {t}
    <3>1. held[c] = {}
      BY <1>2, <2>2 DEF InsertBusy, CanWrite, StoreInv, Holds
    <3>2. ASSUME NEW i \in 1..NRows, i < t[3] PROVE << t[1], t[2], i >> \in lost
      <4> DEFINE e == << t[1], t[2], i >>
      <4>1. e \in Row /\ e[1] = c /\ e[2] = unit[c] /\ e[3] < row[c]
        BY <1>1, <3>2, RowParts DEF Row
      <4>2. Tried(e) /\ done[c] < e[2] /\ pc[c] \notin Stopped
        BY <1>1, <1>2, <1>6, <4>1 DEF Tried, Stopped
      <4> QED
        BY <3>1, <4>1, <4>2 DEF StoreInv, Holds
    <3>3. t = << t[1], t[2], t[3] >> /\ t[3] \in 1..NRows
      BY <1>1, RowParts
    <3>4. ASSUME NEW r \in Sound(lost'), NEW i \in 1..NRows, i <= r[3]
          PROVE  << r[1], r[2], i >> \in lost'
      <4>1. CASE r \in lost
        BY <2>2, <3>4, <4>1 DEF StoreInv, LostFirst
      <4>2. CASE r = t
        BY <2>2, <3>2, <3>3, <3>4, <4>2
      <4> QED
        BY <2>2, <3>4, <4>1, <4>2
    <3> QED
      BY <3>4 DEF LostFirst
  <2> QED
    BY <1>3, <2>1, <2>2
<1>12. StoreIsCommittedUnits'
  <2>1. ~(t[2] <= done[t[1]])
    BY <1>1, <1>6, SizeAssumption DEF StoreInv, TypeOK
  <2> QED
    BY <1>3, <2>1 DEF StoreIsCommittedUnits
<1> QED
  BY <1>3, <1>8, <1>9, <1>10, <1>11, <1>12

(* The end of a unit.                                                      *)
LEMMA CommitStore ==
  ASSUME StoreInv, StoreIsCommittedUnits, NEW c \in SoundOnes,
         Commit(c) \/ CommitBusy(c) \/ CommitNothing(c)
  PROVE  /\ InTransaction' /\ LostWasTried' /\ Holds' /\ LostFirst'
         /\ StoreIsCommittedUnits'
         /\ \/ UNCHANGED << stored, done >>
            \/ /\ stored' = stored \cup held[c]
               /\ done' = [done EXCEPT ![c] = unit[c]]
               /\ unit[c] \in 1..NUnits
<1>1. pc[c] = "walk" /\ c \in tx /\ row[c] > NRows
  BY DEF Commit, CommitBusy, CommitNothing, AtCommit, StoreInv, InTransaction
<1>2. /\ lost' = lost /\ unit' = [unit EXCEPT ![c] = @ + 1]
      /\ row' = [row EXCEPT ![c] = 1]
      /\ pc'[c] \in {"begin", "close"}
      /\ \A q \in Process \ {c} : pc'[q] = pc[q] /\ lock'[q] = lock[q]
  BY DEF Commit, CommitBusy, CommitNothing, NextUnit, StoreInv, TypeOK, Process
<1>3. \/ /\ UNCHANGED << stored, held, done, tx >> /\ lock'[c] >= Reserved
      \/ /\ stored' = stored \cup held[c]
         /\ held' = [held EXCEPT ![c] = {}]
         /\ done' = [done EXCEPT ![c] = unit[c]]
         /\ tx' = tx \ {c}
  BY <1>1 DEF Commit, CommitBusy, CommitNothing, StoreInv, TypeOK, Process
<1>4. /\ unit[c] \in 1..NUnits /\ pc[c] \notin Stopped /\ pc'[c] \notin Stopped
      /\ done[c] < unit[c]
  BY <1>1, <1>2, SizeAssumption DEF StoreInv, Holds, Places, TypeOK, Stopped
<1>5. /\ lost \subseteq Row /\ held \in [Compiler -> SUBSET Row] /\ stored \subseteq Row
      /\ unit \in [Compiler -> 1..(NUnits + 1)] /\ row \in [Compiler -> 1..(NRows + 1)]
      /\ done \in [Compiler -> 0..NUnits]
  BY DEF StoreInv, TypeOK
<1>6. ASSUME NEW r \in Row
      PROVE  /\ Tried(r)' <=> Tried(r)
             /\ r[1] = c => (Tried(r) <=> r[2] <= unit[c])
  <2>1. r[1] \in Compiler /\ r[2] \in 1..NUnits /\ r[3] \in 1..NRows
    BY <1>6, RowParts
  <2>2. CASE r[1] = c
    BY <1>1, <1>2, <1>5, <2>1, <2>2, SizeAssumption DEF Tried
  <2>3. CASE r[1] # c
    BY <1>2, <1>5, <2>1, <2>3 DEF Tried
  <2> QED
    BY <2>2, <2>3
<1>7. InTransaction'
  BY <1>2, <1>3 DEF StoreInv, InTransaction, Process
<1>8. LostWasTried' /\ LostFirst'
  BY <1>2, <1>5, <1>6 DEF StoreInv, LostWasTried, LostFirst
<1>9. \A r \in Row : r \in held[c] <=>
        r[1] = c /\ done[c] < r[2] /\ r[2] <= unit[c] /\ r \notin lost
  BY <1>4, <1>6 DEF StoreInv, Holds
<1>10. Holds'
  <2> SUFFICES ASSUME NEW d \in SoundOnes
               PROVE  /\ done'[d] < unit'[d]
                      /\ pc'[d] \in Stopped => held'[d] = {}
                      /\ pc'[d] \notin Stopped =>
                           \A r \in Row : r \in held'[d] <=>
                             r[1] = d /\ done'[d] < r[2] /\ Tried(r)' /\ r \notin lost'
                      /\ held'[d] # {} => lock'[d] >= Reserved
    BY DEF Holds
  <2>1. CASE d # c
    <3>1. UNCHANGED << done[d], unit[d], held[d], pc[d], lock[d] >>
      BY <1>2, <1>3, <1>5, <2>1 DEF Process
    <3> QED
      BY <1>2, <1>6, <3>1 DEF StoreInv, Holds
  <2>2. CASE d = c /\ UNCHANGED << stored, held, done, tx >> /\ lock'[c] >= Reserved
    BY <1>2, <1>4, <1>5, <1>6, <2>2 DEF StoreInv, Holds
  <2>3. CASE /\ d = c /\ held' = [held EXCEPT ![c] = {}]
             /\ done' = [done EXCEPT ![c] = unit[c]]
    <3>1. done'[c] = unit[c] /\ unit'[c] = unit[c] + 1 /\ held'[c] = {}
      BY <1>2, <1>5, <2>3
    <3>2. ASSUME NEW r \in Row, r[1] = c PROVE ~(done'[c] < r[2] /\ Tried(r)')
      BY <1>4, <1>5, <1>6, <3>1, <3>2, RowParts
    <3> QED
      BY <1>4, <2>3, <3>1, <3>2
  <2> QED
    BY <1>3, <2>1, <2>2, <2>3
<1>11. StoreIsCommittedUnits'
  <2>1. CASE UNCHANGED << stored, done >>
    BY <1>2, <2>1 DEF StoreIsCommittedUnits
  <2>2. CASE /\ stored' = stored \cup held[c]
             /\ done' = [done EXCEPT ![c] = unit[c]]
    <3>1. ASSUME NEW r \in Sound(Row)
          PROVE  r \in stored' <=> r[2] <= done'[r[1]] /\ r \notin lost
      <4>1. r[1] \in Compiler /\ r[2] \in 1..NUnits /\ done[r[1]] \in 0..NUnits
        BY <1>5, <3>1, RowParts
      <4>2. r \in stored <=> r[2] <= done[r[1]] /\ r \notin lost
        BY <3>1 DEF StoreIsCommittedUnits
      <4>3. CASE r[1] = c
        BY <1>4, <1>5, <1>9, <2>2, <4>1, <4>2, <4>3
      <4>4. CASE r[1] # c
        BY <1>5, <1>9, <2>2, <4>1, <4>2, <4>4
      <4> QED
        BY <4>3, <4>4
    <3>2. stored' \subseteq Row
      BY <1>5, <2>2
    <3> QED
      BY <1>2, <3>1, <3>2 DEF StoreIsCommittedUnits
  <2> QED
    BY <1>3, <2>1, <2>2
<1> QED
  BY <1>3, <1>4, <1>7, <1>8, <1>10, <1>11

(* A unit is begun, or the compiler ends.                                  *)
LEMMA AroundStore ==
  ASSUME StoreInv, StoreIsCommittedUnits, NEW c \in SoundOnes,
         TransactionBegin(c) \/ Close(c) \/ Crash(c)
  PROVE  /\ InTransaction' /\ LostWasTried' /\ Holds' /\ LostFirst'
         /\ StoreIsCommittedUnits' /\ UNCHANGED << stored, done >>
<1>1. UNCHANGED << stored, unit, lost, done >> /\ pc[c] \notin Stopped
  BY DEF TransactionBegin, Close, Crash, GoneTo, Stopped
<1>2. \A q \in Process \ {c} : pc'[q] = pc[q] /\ lock'[q] = lock[q]
  BY DEF TransactionBegin, Close, Crash, GoneTo, StoreInv, TypeOK
<1>3. UNCHANGED row
  BY DEF TransactionBegin, Close, Crash, GoneTo
<1>4. \/ UNCHANGED << held, lock >> /\ tx' = tx \cup {c} /\ pc'[c] \notin Stopped
      \/ held' = [held EXCEPT ![c] = {}] /\ pc'[c] \in Stopped /\ tx' = tx \ {c}
  BY DEF TransactionBegin, Close, Crash, GoneTo, StoreInv, TypeOK, Process, Stopped
<1>5. \A r : Tried(r)' <=> Tried(r)
  BY <1>1, <1>3 DEF Tried
<1>6. InTransaction'
  BY <1>2, <1>4 DEF StoreInv, InTransaction, Process, Stopped
<1>7. Holds'
  <2>1. held \in [Compiler -> SUBSET Row]
    BY DEF StoreInv, TypeOK
  <2> QED
    BY <1>1, <1>2, <1>4, <1>5, <2>1 DEF StoreInv, Holds, Process
<1> QED
  BY <1>1, <1>5, <1>6, <1>7 DEF StoreInv, LostWasTried, LostFirst, StoreIsCommittedUnits

(* What a compiler with other failures does leaves the rest alone.         *)
LEMMA FaultyStore ==
  ASSUME StoreInv, StoreIsCommittedUnits, NEW c \in Compiler, c \in Faulty,
         \/ TransactionBegin(c)
         \/ Insert(c) \/ InsertAlone(c) \/ InsertBusy(c) \/ InsertFull(c)
         \/ Commit(c) \/ CommitBusy(c) \/ CommitFails(c) \/ CommitNothing(c)
         \/ Close(c) \/ Crash(c)
  PROVE  /\ InTransaction' /\ LostWasTried' /\ Holds' /\ LostFirst'
         /\ StoreIsCommittedUnits'
         /\ Sound(stored') = Sound(stored)
         /\ \A d \in SoundOnes : done'[d] = done[d]
<1>1. /\ held \in [Compiler -> SUBSET Row] /\ lost \subseteq Row /\ stored \subseteq Row
      /\ tx \subseteq Compiler /\ done \in [Compiler -> 0..NUnits]
      /\ unit \in [Compiler -> 1..(NUnits + 1)] /\ row \in [Compiler -> 1..(NRows + 1)]
      /\ c \in Process /\ \A r \in held[c] : r[1] = c
  BY DEF StoreInv, TypeOK, HeldIsOwn, Process
<1>2. PICK PC, L : pc \in [Process -> PC] /\ lock \in [Process -> L]
  BY DEF StoreInv, TypeOK
<1>3. /\ \A d \in Compiler \ {c} :
           /\ UNCHANGED << held[d], pc[d], lock[d], unit[d], row[d], done[d] >>
           /\ d \in tx' <=> d \in tx
      /\ lost' = lost \/ lost' = lost \cup {This(c)}
      /\ stored' = stored \/ stored' = stored \cup {This(c)} \/ stored' = stored \cup held[c]
  BY <1>1, <1>2
     DEF TransactionBegin, Insert, InsertAlone, InsertBusy, InsertFull, NextRow,
         Commit, CommitBusy, CommitFails, CommitNothing, NextUnit, Close, Crash, GoneTo,
         Process
<1>4. This(c)[1] = c
  BY DEF This
<1>5. Sound(lost') = Sound(lost) /\ Sound(stored') = Sound(stored)
  BY <1>1, <1>3, <1>4
<1>6. \A d \in SoundOnes :
        /\ UNCHANGED << held[d], pc[d], lock[d], unit[d], row[d], done[d] >>
        /\ d \in tx' <=> d \in tx
  BY <1>3
<1>7. \A r \in Sound(Row) :
        /\ Tried(r)' <=> Tried(r)
        /\ r \in lost' <=> r \in lost
        /\ r[1] \in SoundOnes
  BY <1>5, <1>6, RowParts DEF Tried
<1>8. InTransaction'
  BY <1>6 DEF StoreInv, InTransaction
<1>9. LostWasTried'
  BY <1>1, <1>5, <1>7 DEF StoreInv, LostWasTried
<1>10. Holds'
  <2> SUFFICES ASSUME NEW d \in SoundOnes
               PROVE  /\ done'[d] < unit'[d]
                      /\ pc'[d] \in Stopped => held'[d] = {}
                      /\ pc'[d] \notin Stopped =>
                           \A r \in Row : r \in held'[d] <=>
                             r[1] = d /\ done'[d] < r[2] /\ Tried(r)' /\ r \notin lost'
                      /\ held'[d] # {} => lock'[d] >= Reserved
    BY DEF Holds
  <2>1. \A r \in held[d] : r[1] = d
    BY DEF StoreInv, HeldIsOwn
  <2>2. ASSUME NEW r \in Row, r[1] = d
        PROVE  (Tried(r)' <=> Tried(r)) /\ (r \in lost' <=> r \in lost)
    BY <1>7, <2>2
  <2> QED
    BY <1>6, <2>1, <2>2 DEF StoreInv, Holds
<1>11. LostFirst'
  <2> SUFFICES ASSUME NEW r \in Sound(lost), NEW i \in 1..NRows, i <= r[3]
               PROVE  << r[1], r[2], i >> \in lost'
    BY <1>5 DEF LostFirst
  <2> QED
    BY <1>3 DEF StoreInv, LostFirst
<1>12. StoreIsCommittedUnits'
  BY <1>5, <1>6, <1>7 DEF StoreIsCommittedUnits
<1> QED
  BY <1>5, <1>6, <1>8, <1>9, <1>10, <1>11, <1>12

LEMMA NextOwn == TypeOK /\ HeldIsOwn /\ [Next]_vars => HeldIsOwn'
<1> SUFFICES ASSUME TypeOK, HeldIsOwn, [Next]_vars PROVE HeldIsOwn'
  OBVIOUS
<1>1. CASE held' = held
  BY <1>1 DEF HeldIsOwn
<1>2. CASE \E c \in Compiler : held' = [held EXCEPT ![c] = @ \cup {This(c)}]
                             \/ held' = [held EXCEPT ![c] = {}]
  BY <1>2 DEF TypeOK, HeldIsOwn, This
<1> QED
  BY <1>1, <1>2
     DEF Next, vars, Open, Build, Crash, Read, OpenFails, CreateKnown, CreateStart,
         CreateEnd, CreateFails, Abort, schemaUnits, TransactionBegin, Insert,
         InsertAlone, InsertBusy, InsertFull, Commit, CommitBusy, CommitFails,
         CommitNothing, Close, GoneTo, StartRead, EndRead

LEMMA OnlyFaulty ==
  ASSUME NEW c, CommitFails(c)
  PROVE  c \in Faulty
BY DEF CommitFails

LEMMA NextStore ==
  ASSUME StoreInv, StoreIsCommittedUnits, [Next]_vars
  PROVE  StoreInv' /\ StoreIsCommittedUnits'
<1>1. TypeOK' /\ Places' /\ HeldIsOwn'
  BY NextTyped, NextOwn DEF StoreInv
<1>2. CASE UNCHANGED vars
  BY <1>1, <1>2 DEF vars, StoreInv, InTransaction, LostWasTried, Holds, LostFirst, Tried,
                    StoreIsCommittedUnits
<1>3. ASSUME NEW c \in Compiler, Open(c) \/ Build(c) \/ Crash(c)
      PROVE  StoreInv' /\ StoreIsCommittedUnits'
  BY <1>1, <1>3, OpeningStore, InsertionStore, CommitStore, AroundStore, FaultyStore,
     OnlyFaulty DEF Build, StoreInv, Process
<1>4. ASSUME NEW r \in Reader, Read(r)
      PROVE  StoreInv' /\ StoreIsCommittedUnits'
  BY <1>1, <1>4, OpeningStore DEF Read, StoreInv, Process
<1> QED
  BY <1>2, <1>3, <1>4 DEF Next

(* Of the compilers that meet no failure but BUSY readers find the rows of *)
(* the committed units and no others, however compilers, readers and       *)
(* crashes interleave and whatever becomes of the others.                  *)
THEOREM StoreIsCommitted == Spec => []StoreIsCommittedUnits
<1>1. Spec => [](StoreInv /\ StoreIsCommittedUnits)
  BY InitStore, NextStore, PTL DEF Spec
<1> QED
  BY <1>1, PTL

-----------------------------------------------------------------------------
(* What is held is fit to be published: whole from its first row on.       *)
LEMMA HeldIsSuffix ==
  ASSUME StoreInv, NEW c \in SoundOnes, AtCommit(c)
  PROVE  /\ held[c] \subseteq {c} \X ((done[c] + 1)..unit[c]) \X (1..NRows)
         /\ Units!Suffixes(held[c])
<1>1. /\ pc[c] \notin Stopped /\ row[c] > NRows /\ unit[c] \in 1..NUnits
      /\ done[c] \in 0..NUnits /\ row[c] \in Nat
  BY SizeAssumption DEF AtCommit, StoreInv, TypeOK, Places, Stopped
<1>2. ASSUME NEW r \in Row
      PROVE  r \in held[c] <=>
               r[1] = c /\ done[c] < r[2] /\ r[2] <= unit[c] /\ r \notin lost
  <2>1. r[2] \in 1..NUnits /\ r[3] \in 1..NRows
    BY <1>2, RowParts
  <2>2. r[1] = c => (Tried(r) <=> r[2] <= unit[c])
    BY <1>1, <2>1, SizeAssumption DEF Tried
  <2> QED
    BY <1>1, <2>2 DEF StoreInv, Holds
<1>3. held[c] \subseteq Row
  BY DEF StoreInv, TypeOK
<1>4. ASSUME NEW r \in held[c]
      PROVE  r \in {c} \X ((done[c] + 1)..unit[c]) \X (1..NRows)
  <2>1. r \in Row /\ r = << r[1], r[2], r[3] >> /\ r[2] \in 1..NUnits /\ r[3] \in 1..NRows
    BY <1>3, <1>4, RowParts
  <2>2. r[1] = c /\ done[c] < r[2] /\ r[2] <= unit[c]
    BY <1>2, <1>4, <2>1
  <2> QED
    BY <1>1, <2>1, <2>2
<1>5. ASSUME NEW r \in held[c], NEW i \in 1..NRows, i >= r[3]
      PROVE  << r[1], r[2], i >> \in held[c]
  <2> DEFINE e == << r[1], r[2], i >>
  <2>1. r \in Row /\ r = << r[1], r[2], r[3] >> /\ r[1] \in Compiler
        /\ r[2] \in 1..NUnits /\ r[3] \in 1..NRows
    BY <1>3, <1>5, RowParts
  <2>2. e \in Row /\ e[1] = r[1] /\ e[2] = r[2] /\ e[3] = i
    BY <2>1 DEF Row
  <2>3. r \notin lost /\ r[1] = c
    BY <1>2, <1>5, <2>1
  <2>4. e \notin lost
    <3>1. ASSUME e \in lost PROVE << e[1], e[2], r[3] >> \in lost
      BY <1>5, <2>1, <2>2, <2>3, <3>1 DEF StoreInv, LostFirst
    <3> QED
      BY <2>1, <2>2, <2>3, <3>1
  <2> HIDE DEF e
  <2>5. e \in held[c]
    BY <1>2, <1>5, <2>1, <2>2, <2>4
  <2> QED
    BY <2>5 DEF e
<1> QED
  BY <1>4, <1>5 DEF Units!Suffixes

(* The variables of UnitStore.                                             *)
Seen == << Sound(stored), [c \in Compiler \ Faulty |-> done[c]] >>

LEMMA StepPublishes ==
  ASSUME StoreInv, StoreIsCommittedUnits, [Next]_vars
  PROVE  [Units!Next]_Seen
<1> USE DEF Seen
<1>1. CASE UNCHANGED vars \/ UNCHANGED << stored, done >>
  BY <1>1 DEF vars
<1>2. ASSUME NEW c \in SoundOnes, Commit(c) \/ CommitBusy(c) \/ CommitNothing(c)
      PROVE  [Units!Next]_Seen
  <2>2. CASE /\ stored' = stored \cup held[c]
             /\ done' = [done EXCEPT ![c] = unit[c]]
             /\ unit[c] \in 1..NUnits
    <3>1. AtCommit(c)
      BY <1>2 DEF Commit, CommitBusy, CommitNothing
    <3>2. done[c] < unit[c]
      BY DEF StoreInv, Holds
    <3>3. held[c] \in SUBSET ({c} \X ((done[c] + 1)..unit[c]) \X (1..NRows))
      BY <3>1, HeldIsSuffix
    <3>4. Units!Suffixes(held[c])
      BY <3>1, HeldIsSuffix
    <3>5. Sound(stored') = Sound(stored) \cup held[c]
      BY <2>2, <3>3
    <3>6. [d \in SoundOnes |-> done'[d]]
            = [[d \in SoundOnes |-> done[d]] EXCEPT ![c] = unit[c]]
      BY <2>2 DEF StoreInv, TypeOK
    <3>7. \E S \in SUBSET ({c} \X ((done[c] + 1)..unit[c]) \X (1..NRows)) :
            Units!Suffixes(S) /\ Sound(stored') = Sound(stored) \cup S
      BY <3>3, <3>4, <3>5
    <3>8. [d \in SoundOnes |-> done[d]][c] = done[c]
      OBVIOUS
    <3>9. PICK k \in 1..NUnits : k = unit[c]
      BY <2>2
    <3>10. Units!Publish(c, k)
      BY <3>2, <3>6, <3>7, <3>8, <3>9 DEF Units!Publish
    <3>11. Units!Next
      BY <3>10 DEF Units!Next
    <3> QED
      BY <3>11
  <2> QED
    BY <1>1, <1>2, <2>2, CommitStore
<1>3. ASSUME NEW c \in Compiler, c \in Faulty, Build(c) \/ Crash(c)
      PROVE  [Units!Next]_Seen
  <2>1. CASE UNCHANGED << stored, done >>
    BY <1>1, <2>1
  <2>2. CASE Sound(stored') = Sound(stored) /\ \A d \in SoundOnes : done'[d] = done[d]
    BY <2>2
  <2> QED
    BY <1>3, <2>1, <2>2, OpeningStore, FaultyStore DEF Build, Process
<1>4. ASSUME NEW c \in SoundOnes, Build(c) \/ Crash(c)
      PROVE  [Units!Next]_Seen
  BY <1>1, <1>2, <1>4, OpeningStore, InsertionStore, AroundStore, OnlyFaulty
     DEF Build, Process
<1>5. ASSUME NEW p \in Process, Open(p) \/ (p \in Reader /\ Read(p))
      PROVE  [Units!Next]_Seen
  BY <1>1, <1>5, OpeningStore DEF Read, Process
<1> QED
  BY <1>1, <1>3, <1>4, <1>5 DEF Next, Process

(* For them the file implements UnitStore.                                 *)
THEOREM StoreImplementsUnits == Spec => ImplementsUnitStore
<1>1. Init => Units!Init
  BY DEF Init, Units!Init
<1>2. Spec => [](StoreInv /\ StoreIsCommittedUnits)
  BY InitStore, NextStore, PTL DEF Spec
<1> QED
  BY <1>1, <1>2, StepPublishes, PTL DEF Spec, ImplementsUnitStore, Units!Spec, Seen

-----------------------------------------------------------------------------
(***************************************************************************)
(* Whatever fails.  What a compiler has tried is in the file, or held, or  *)
(* was lost, by its own failure or by one that came after; and what is     *)
(* held of a unit that is over is there because its COMMIT failed.         *)
(***************************************************************************)
Kept(c) ==
  /\ held[c] # {} => c \in tx
  /\ pc[c] \in {"close", "ended"} => unit[c] = NUnits + 1
  /\ pc[c] = "ended" => held[c] = {}
  /\ \A r \in held[c] : r[2] < unit[c] => FailedAfter(r)
  /\ pc[c] \notin {"crashed", "aborted"} =>
       \A r \in Row : r[1] = c /\ Tried(r) =>
         r \in stored \cup held[c] \cup lost \/ FailedAfter(r)

KeptInv == TypeOK /\ Places /\ HeldIsOwn /\ \A c \in Compiler : Kept(c)

LEMMA InitKept == Init => KeptInv
<1> SUFFICES ASSUME Init PROVE KeptInv
  OBVIOUS
<1>1. ASSUME NEW r \in Row PROVE ~Tried(r)
  BY <1>1, RowParts, SizeAssumption DEF Init, Tried
<1>2. \A c \in Compiler : held[c] = {} /\ pc[c] = "off"
  BY DEF Init, Process
<1> QED
  BY <1>1, <1>2, InitTyped DEF KeptInv, Kept, HeldIsOwn

(* A failure remains one.                                                  *)
LEMMA FailuresStay ==
  ASSUME lost \subseteq lost', refused \subseteq refused', NEW r, FailedAfter(r)
  PROVE  FailedAfter(r)'
BY DEF FailedAfter

(* A COMMIT that fails is a failure after all that was tried.              *)
LEMMA RefusedIsAfter ==
  ASSUME NEW c, NEW u \in 1..NUnits, << c, u >> \in refused',
         NEW r \in Row, r[1] = c, r[2] <= u
  PROVE  FailedAfter(r)'
<1>1. u \in r[2]..NUnits
  BY RowParts, SizeAssumption
<1> QED
  BY <1>1 DEF FailedAfter

(* What a step of one process leaves alone of the compilers' state.        *)
Apart(p) ==
  /\ stored \subseteq stored' /\ lost \subseteq lost' /\ refused \subseteq refused'
  /\ \A d \in Compiler \ {p} :
       /\ UNCHANGED << held[d], pc[d], unit[d], row[d] >>
       /\ d \in tx => d \in tx'

LEMMA OthersKept ==
  ASSUME KeptInv, NEW p, Apart(p), NEW d \in Compiler \ {p}
  PROVE  Kept(d)'
<1>1. \A r : FailedAfter(r) => FailedAfter(r)'
  BY FailuresStay DEF Apart
<1>2. \A r \in Row : r[1] = d => (Tried(r)' <=> Tried(r))
  BY DEF Tried, Apart
<1>3. /\ UNCHANGED << held[d], pc[d], unit[d], row[d] >>
      /\ d \in tx => d \in tx'
      /\ stored \subseteq stored' /\ lost \subseteq lost'
  BY DEF Apart
<1>4. Kept(d)
  BY DEF KeptInv
<1> QED
  BY <1>1, <1>2, <1>3, <1>4 DEF Kept

LEMMA OpeningKept ==
  ASSUME KeptInv, NEW p \in Process,
         \/ Open(p) \/ OpenFails(p) \/ CreateKnown(p) \/ CreateStart(p)
         \/ CreateEnd(p) \/ CreateFails(p)
         \/ p \in Reader /\ (StartRead(p) \/ EndRead(p))
  PROVE  \A c \in Compiler : Kept(c)'
<1>1. UNCHANGED << stored, unit, row, tx, held, lost, refused, done >>
  BY DEF Open, OpenFails, CreateKnown, CreateStart, CreateEnd, CreateFails, Abort,
         StartRead, EndRead, schemaUnits
<1>2. \A q \in Process \ {p} : pc'[q] = pc[q]
  BY DEF Open, OpenFails, CreateKnown, NextObject, CreateStart, CreateEnd, CreateFails,
         Abort, StartRead, EndRead, KeptInv, TypeOK
<1>3. Apart(p)
  BY <1>1, <1>2 DEF Apart, Process
<1>4. ASSUME p \in Compiler PROVE Kept(p)'
  <2>1. pc[p] \in Opening /\ pc'[p] \in Opening \cup {"begin", "aborted"}
    BY <1>4, ProcessAssumption
       DEF Open, OpenFails, CreateKnown, NextObject, CreateStart, CreateEnd, CreateFails,
           Abort, StartRead, EndRead, KeptInv, TypeOK, Opening, Process
  <2>2. \A r : Tried(r)' <=> Tried(r)
    BY <1>1 DEF Tried
  <2>3. \A r : FailedAfter(r)' <=> FailedAfter(r)
    BY <1>1 DEF FailedAfter
  <2>4. Kept(p)
    BY <1>4 DEF KeptInv
  <2> QED
    BY <1>1, <2>1, <2>2, <2>3, <2>4 DEF Kept, Opening
<1> QED
  BY <1>3, <1>4, OthersKept

LEMMA UnitKept ==
  ASSUME KeptInv, NEW c \in Compiler,
         \/ TransactionBegin(c)
         \/ Insert(c) \/ InsertAlone(c) \/ InsertBusy(c) \/ InsertFull(c)
         \/ Commit(c) \/ CommitBusy(c) \/ CommitFails(c) \/ CommitNothing(c)
         \/ Close(c) \/ Crash(c)
  PROVE  \A d \in Compiler : Kept(d)'
<1>a. PICK PC : pc \in [Process -> PC]
  BY DEF KeptInv, TypeOK
<1>0. /\ held \in [Compiler -> SUBSET Row] /\ pc \in [Process -> PC]
      /\ unit \in [Compiler -> 1..(NUnits + 1)] /\ row \in [Compiler -> 1..(NRows + 1)]
      /\ c \in Process /\ Kept(c) /\ \A r \in held[c] : r \in Row /\ r[1] = c
  BY <1>a DEF KeptInv, TypeOK, HeldIsOwn, Process
<1>1. Apart(c)
  BY <1>0 DEF TransactionBegin, Insert, InsertAlone, InsertBusy, InsertFull, NextRow,
              Commit, CommitBusy, CommitFails, CommitNothing, NextUnit, Close, Crash,
              GoneTo, Apart, Process
<1>b. \A r : FailedAfter(r) => FailedAfter(r)'
  BY <1>1, FailuresStay DEF Apart
<1>2. CASE TransactionBegin(c)
  <2>1. /\ UNCHANGED << stored, unit, row, held, lost >>
        /\ pc[c] = "begin" /\ pc'[c] = "walk" /\ tx \subseteq tx'
    BY <1>0, <1>2 DEF TransactionBegin
  <2>2. \A r : Tried(r)' <=> Tried(r)
    BY <2>1 DEF Tried
  <2>3. Kept(c)'
    BY <1>0, <1>b, <2>1, <2>2 DEF Kept
  <2> QED
    BY <1>1, <2>3, OthersKept
<1>c. ASSUME row' = [row EXCEPT ![c] = @ + 1], unit' = unit, NEW r \in Row, r[1] = c,
             Tried(r)'
      PROVE  Tried(r) \/ r = This(c)
  <2>1. r = << r[1], r[2], r[3] >> /\ r[2] \in Nat /\ r[3] \in Nat
    BY <1>c, RowParts
  <2>2. row'[c] = row[c] + 1 /\ unit'[c] = unit[c] /\ row[c] \in Nat
    BY <1>0, <1>c, SizeAssumption
  <2> QED
    BY <1>c, <2>1, <2>2 DEF Tried, This
<1>3. CASE Insert(c) \/ InsertAlone(c)
  <2>1. /\ UNCHANGED << pc, unit, tx, lost >>
        /\ row' = [row EXCEPT ![c] = @ + 1] /\ pc[c] = "walk"
        /\ \/ c \in tx /\ stored' = stored /\ held'[c] = held[c] \cup {This(c)}
           \/ held' = held /\ stored' = stored \cup {This(c)}
    BY <1>0, <1>3 DEF Insert, InsertAlone, AtInsert, NextRow
  <2>2. \A r \in Row : r[1] = c /\ Tried(r)' => Tried(r) \/ r = This(c)
    BY <1>c, <2>1
  <2>3. This(c)[2] = unit[c] /\ ~(unit[c] < unit[c])
    BY <1>0, SizeAssumption DEF This
  <2>4. \A r \in held'[c] : r[2] < unit'[c] => FailedAfter(r)'
    BY <1>0, <1>b, <2>1, <2>3 DEF Kept
  <2>5. \A r \in Row : r[1] = c /\ Tried(r)' =>
          r \in stored' \cup held'[c] \cup lost' \/ FailedAfter(r)'
    BY <1>0, <1>b, <2>1, <2>2 DEF Kept
  <2>6. Kept(c)'
    BY <1>0, <2>1, <2>4, <2>5 DEF Kept
  <2> QED
    BY <1>1, <2>6, OthersKept
<1>4. CASE InsertBusy(c) \/ InsertFull(c)
  <2>1. /\ lost' = lost \cup {This(c)} /\ UNCHANGED << stored, pc, unit >> /\ pc[c] = "walk"
        /\ row' = [row EXCEPT ![c] = @ + 1]
        /\ \/ UNCHANGED << tx, held >>
           \/ held'[c] = {}
    BY <1>0, <1>4 DEF InsertBusy, InsertFull, AtInsert, NextRow
  <2>2. ASSUME NEW r \in Row, r[1] = c, Tried(r)
        PROVE  FailedAfter(r)'
    <3>1. Later(This(c), r)
      <4>1. This(c)[1] = c /\ This(c)[2] = unit[c] /\ This(c)[3] = row[c]
        BY DEF This
      <4>2. r[2] \in Nat /\ r[3] \in Nat /\ unit[c] \in Nat /\ row[c] \in Nat
        BY <1>0, <2>2, RowParts, SizeAssumption
      <4> QED
        BY <2>2, <4>1, <4>2 DEF Tried, Later
    <3> QED
      BY <2>1, <3>1 DEF FailedAfter
  <2>3. \A r \in Row : r[1] = c /\ Tried(r)' => Tried(r) \/ r = This(c)
    BY <1>c, <2>1
  <2>4. Kept(c)'
    BY <1>0, <1>b, <2>1, <2>2, <2>3 DEF Kept
  <2> QED
    BY <1>1, <2>4, OthersKept
<1>5. CASE Commit(c) \/ CommitBusy(c) \/ CommitFails(c) \/ CommitNothing(c)
  <2>1. /\ pc[c] = "walk" /\ row[c] > NRows /\ lost' = lost
        /\ unit[c] \in 1..NUnits
        /\ unit'[c] = unit[c] + 1 /\ row'[c] = 1
        /\ pc'[c] \in {"begin", "close"} /\ (pc'[c] = "close" => unit[c] = NUnits)
    BY <1>0, <1>5, SizeAssumption
       DEF Commit, CommitBusy, CommitFails, CommitNothing, AtCommit, NextUnit, KeptInv, Places
  <2>2. \/ /\ stored' = stored \cup held[c] /\ held'[c] = {}
        \/ /\ stored' = stored /\ << c, unit[c] >> \in refused'
           /\ UNCHANGED << held, tx >> \/ held'[c] = {}
        \/ /\ UNCHANGED << held, tx, stored >> /\ held[c] = {}
    BY <1>0, <1>5 DEF Commit, CommitBusy, CommitFails, CommitNothing, Kept
  <2>3. ASSUME NEW r \in Row, r[1] = c
        PROVE  /\ Tried(r)' <=> Tried(r)
               /\ Tried(r) => r[2] <= unit[c]
    <3>1. r[2] \in 1..NUnits /\ r[3] \in 1..NRows /\ row[c] \in Nat
      BY <1>0, <2>3, RowParts, SizeAssumption
    <3> QED
      BY <2>1, <2>3, <3>1, SizeAssumption DEF Tried
  <2>4. ASSUME << c, unit[c] >> \in refused', NEW r \in Row, r[1] = c, r[2] <= unit[c]
        PROVE  FailedAfter(r)'
    BY <2>1, <2>4, RefusedIsAfter
  <2>5. held'[c] # {} => c \in tx'
    BY <1>0, <2>2 DEF Kept
  <2>6. pc'[c] \in {"close", "ended"} => unit'[c] = NUnits + 1
    BY <2>1
  <2>7. ASSUME NEW r \in held'[c], r[2] < unit'[c]
        PROVE  FailedAfter(r)'
    <3>1. held'[c] = held[c] /\ << c, unit[c] >> \in refused'
      BY <2>2, <2>7
    <3>2. r \in Row /\ r[1] = c /\ r[2] \in Nat
      BY <1>0, <2>7, <3>1, RowParts
    <3>3. r[2] <= unit[c]
      BY <2>1, <2>7, <3>2
    <3> QED
      BY <2>4, <3>1, <3>2, <3>3
  <2>8. ASSUME NEW r \in Row, r[1] = c, Tried(r)'
        PROVE  r \in stored' \cup held'[c] \cup lost' \/ FailedAfter(r)'
    <3>1. Tried(r) /\ r[2] <= unit[c]
      BY <2>3, <2>8
    <3>2. r \in stored \cup held[c] \cup lost \/ FailedAfter(r)
      BY <1>0, <2>1, <2>8, <3>1 DEF Kept
    <3> QED
      BY <1>b, <2>1, <2>2, <2>4, <2>8, <3>1, <3>2
  <2>9. Kept(c)'
    BY <2>1, <2>5, <2>6, <2>7, <2>8 DEF Kept
  <2> QED
    BY <1>1, <2>9, OthersKept
<1>6. CASE Close(c)
  <2>1. /\ UNCHANGED << stored, unit, row, lost >> /\ held'[c] = {}
        /\ pc[c] = "close" /\ pc'[c] = "ended"
    BY <1>0, <1>6 DEF Close, GoneTo
  <2>2. \A r : Tried(r)' <=> Tried(r)
    BY <2>1 DEF Tried
  <2>3. \A r \in held[c] : FailedAfter(r)'
    <3> TAKE r \in held[c]
    <3>1. r[2] < unit[c]
      BY <1>0, <2>1, RowParts, SizeAssumption DEF Kept
    <3> QED
      BY <1>0, <1>b, <3>1 DEF Kept
  <2>4. Kept(c)'
    BY <1>0, <1>b, <2>1, <2>2, <2>3 DEF Kept
  <2> QED
    BY <1>1, <2>4, OthersKept
<1>7. CASE Crash(c)
  <2>1. held'[c] = {} /\ pc'[c] = "crashed"
    BY <1>0, <1>7 DEF Crash, GoneTo
  <2>2. Kept(c)'
    BY <2>1 DEF Kept
  <2> QED
    BY <1>1, <2>2, OthersKept
<1> QED
  BY <1>2, <1>3, <1>4, <1>5, <1>6, <1>7

(* Whatever fails, in any number of compilers, a row that is missing when  *)
(* its compiler has ended was lost by its own insertion, by a later one    *)
(* that failed, or by the COMMIT of its unit or of a later one.            *)
THEOREM NothingElseIsEverLost == Spec => []NothingElseIsLost
<1>1. ASSUME KeptInv, [Next]_vars PROVE KeptInv'
  <2>1. TypeOK' /\ Places' /\ HeldIsOwn'
    BY <1>1, NextTyped, NextOwn DEF KeptInv
  <2>2. CASE UNCHANGED vars
    BY <1>1, <2>1, <2>2 DEF vars, KeptInv, Kept, FailedAfter, Tried
  <2>3. CASE \E c \in Compiler : Open(c) \/ Build(c) \/ Crash(c)
    BY <1>1, <2>1, <2>3, OpeningKept, UnitKept DEF Build, KeptInv, Process
  <2>4. CASE \E r \in Reader : Read(r)
    BY <1>1, <2>1, <2>4, OpeningKept DEF Read, KeptInv, Process
  <2> QED
    BY <1>1, <2>2, <2>3, <2>4 DEF Next
<1>2. KeptInv => NothingElseIsLost
  <2> SUFFICES ASSUME KeptInv, NEW r \in Row, pc[r[1]] = "ended", r \notin stored
               PROVE  r \in lost \/ FailedAfter(r)
    BY DEF NothingElseIsLost
  <2>1. Kept(r[1])
    BY RowParts DEF KeptInv
  <2>2. Tried(r) /\ held[r[1]] = {}
    BY <2>1, RowParts, SizeAssumption DEF Kept, Tried
  <2> QED
    BY <2>1, <2>2 DEF Kept
<1> QED
  BY InitKept, <1>1, <1>2, PTL DEF Spec

=============================================================================
