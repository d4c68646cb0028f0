------------------------------ MODULE UnitStore ------------------------------
(***************************************************************************)
(* What the database file promises to whoever reads it.  Rows are written  *)
(* by compilers, each of which walks its translation units in order.  What *)
(* one of them has written appears all at once, unit after unit: never     *)
(* less than it keeps of a unit, never a unit before an earlier one.  Of a *)
(* unit it may keep nothing, or lose rows at the front: the attempts that  *)
(* came before the one that got the file's write lock.                     *)
(***************************************************************************)
EXTENDS Naturals

CONSTANTS Compiler, NUnits, NRows

Row == Compiler \X (1..NUnits) \X (1..NRows)

VARIABLES stored, done

(* If S has a row of a unit it has all that were inserted after it.        *)
Suffixes(S) ==
  \A r \in S : \A i \in 1..NRows : i >= r[3] => << r[1], r[2], i >> \in S

Init == stored = {} /\ done = [c \in Compiler |-> 0]

Publish(c, k) ==
  /\ done[c] < k
  /\ \E S \in SUBSET ({c} \X ((done[c] + 1)..k) \X (1..NRows)) :
       /\ Suffixes(S)
       /\ stored' = stored \cup S
  /\ done' = [done EXCEPT ![c] = k]

Next == \E c \in Compiler, k \in 1..NUnits : Publish(c, k)

Spec == Init /\ [][Next]_<< stored, done >>
=============================================================================
