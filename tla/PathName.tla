------------------------------ MODULE PathName ------------------------------
(***************************************************************************)
(* NormalizePathName (include/common.h): the name a file has in the table  *)
(* symbol.  One pass over the path keeps the ranges of the components that *)
(* remain and counts characters, a second one copies them into a buffer of *)
(* the size that was counted.  A path is a sequence of characters, its     *)
(* positions from 1; the buffer is indexed from 0, and a write outside of  *)
(* it, undefined in the code, is noted in stray.                           *)
(***************************************************************************)
EXTENDS Integers, Sequences, FiniteSets

VARIABLES
  stage,      \* "idle", "split", "copy", "done"
  path,
  at,         \* the character, then the component, the loop is at
  kept,       \* RangesToReplace: << first, last >> of each
  length,     \* ResultLength
  buffer, dest,
  used,       \* history: how long the first components kept are together
  stray       \* history: the positions written that the buffer does not have

pathVars == << stage, path, at, kept, length, buffer, dest, used, stray >>

Nul == "NUL"
IsPath(p) == p \in Seq(STRING) /\ \A j \in DOMAIN p : p[j] # Nul
Zeroed(size) == [b \in 0..(size - 1) |-> Nul]
Absolute == Len(path) > 0 /\ path[1] = "/"
Root == IF Absolute THEN 1 ELSE 0

PathInit ==
  /\ stage = "idle" /\ path = << >> /\ at = 1
  /\ kept = << >> /\ length = 0 /\ used = << >>
  /\ buffer = Zeroed(0) /\ dest = 0 /\ stray = {}

NormalizePathName(p) ==
  /\ stage = "idle"
  /\ path' = p
  /\ stage' = IF p = << >> THEN "done" ELSE "split"
  /\ buffer' = Zeroed(IF p = << >> THEN 1 ELSE 0)
  /\ UNCHANGED << at, kept, length, dest, used, stray >>

(* The next component.                                                     *)
Component(first, last) ==
  /\ at <= first /\ first <= last
  /\ \A i \in at..(first - 1) : path[i] = "/"
  /\ \A i \in first..last : path[i] # "/"
  /\ last < Len(path) => path[last + 1] = "/"

Parent(s) == IF s = << >> THEN s ELSE SubSeq(s, 1, Len(s) - 1)
UsedBefore(j) == IF j = 0 THEN 0 ELSE used[j]

(* Variant: .. is a component like any other.                              *)
SplitParentKept ==
  /\ stage = "split"
  /\ \E first \in 1..Len(path), last \in 1..Len(path) :
       /\ Component(first, last)
       /\ length' = length + (last - first + 1)
       /\ at' = last + 2
       /\ IF SubSeq(path, first, last) = << "." >>
          THEN UNCHANGED << kept, used >>
          ELSE /\ kept' = Append(kept, << first, last >>)
               /\ used' = Append(used, UsedBefore(Len(used)) + (last - first + 1))
  /\ UNCHANGED << stage, path, buffer, dest, stray >>

Split ==
  /\ stage = "split"
  /\ \E first \in 1..Len(path), last \in 1..Len(path) :
       /\ Component(first, last)
       /\ length' = length + (last - first + 1)
       /\ at' = last + 2
       /\ \/ /\ SubSeq(path, first, last) = << ".", "." >>
             /\ kept' = Parent(kept) /\ used' = Parent(used)
          \/ /\ SubSeq(path, first, last) = << "." >>
             /\ UNCHANGED << kept, used >>
          \/ /\ SubSeq(path, first, last) \notin {<< ".", "." >>, << "." >>}
             /\ kept' = Append(kept, << first, last >>)
             /\ used' = Append(used, UsedBefore(Len(used)) + (last - first + 1))
  /\ UNCHANGED << stage, path, buffer, dest, stray >>

Write(from, text) ==
  LET here == from..(from + Len(text) - 1) IN
  /\ buffer' = [b \in DOMAIN buffer |->
                  IF b \in here THEN text[b - from + 1] ELSE buffer[b]]
  /\ stray' = stray \cup (here \ DOMAIN buffer)

(* Variant: the leading / is not counted.                                  *)
AllocateNoRoot ==
  /\ stage = "split" /\ \A i \in at..Len(path) : path[i] = "/"
  /\ buffer' = [Zeroed(length + Len(kept)) EXCEPT ![0] = IF Absolute THEN "/" ELSE Nul]
  /\ dest' = Root
  /\ at' = 1
  /\ stage' = "copy"
  /\ UNCHANGED << path, kept, length, used, stray >>

Allocate ==
  /\ stage = "split" /\ \A i \in at..Len(path) : path[i] = "/"
  /\ buffer' = [Zeroed(length + Root + Len(kept)) EXCEPT ![0] = IF Absolute THEN "/" ELSE Nul]
  /\ dest' = Root
  /\ at' = 1
  /\ stage' = "copy"
  /\ UNCHANGED << path, kept, length, used, stray >>

Copy ==
  /\ stage = "copy" /\ at <= Len(kept)
  /\ Write(dest, SubSeq(path, kept[at][1], kept[at][2]) \o << "/" >>)
  /\ dest' = dest + (kept[at][2] - kept[at][1] + 1) + 1
  /\ at' = at + 1
  /\ UNCHANGED << stage, path, kept, length, used >>

Terminate ==
  /\ stage = "copy" /\ at > Len(kept)
  /\ Write(dest - 1, << Nul >>)
  /\ dest' = dest - 1
  /\ stage' = "done"
  /\ UNCHANGED << path, at, kept, length, used >>

(* The call returns: what it kept is gone.                                 *)
Return ==
  /\ stage' = "idle" /\ path' = << >> /\ at' = 1
  /\ kept' = << >> /\ length' = 0 /\ used' = << >>
  /\ buffer' = Zeroed(0) /\ dest' = 0 /\ stray' = {}

PathStep == Split \/ Allocate \/ Copy \/ Terminate

(* What a C program reads in the buffer.                                   *)
Text ==
  LET n == CHOOSE b \in DOMAIN buffer :
             buffer[b] = Nul /\ \A a \in 0..(b - 1) : buffer[a] # Nul
  IN [j \in 1..n |-> buffer[j - 1]]

-----------------------------------------------------------------------------
(* The buffer is large enough, whatever components were dropped, and no    *)
(* write goes before it: but for a relative path of which nothing remains  *)
(* (a/..), where the final / that is erased is not there.                  *)
InBuffer ==
  stray # {} => stage = "done" /\ kept = << >> /\ ~Absolute /\ stray = {-1}

Words ==
  {w \in (1..Len(path)) \X (1..Len(path)) :
     /\ w[1] <= w[2] /\ \A i \in w[1]..w[2] : path[i] # "/"
     /\ w[1] = 1 \/ path[w[1] - 1] = "/"
     /\ w[2] = Len(path) \/ path[w[2] + 1] = "/"}
Spelled(w) == SubSeq(path, w[1], w[2])
Up == {w \in Words : Spelled(w) = << ".", "." >>}
Down == {w \in Words : Spelled(w) \notin {<< ".", "." >>, << "." >>}}
Between(S, v, w) == Cardinality({x \in S : v[1] < x[1] /\ x[1] <= w[1]})

(* A component is there at the end unless the .. that follow it outnumber, *)
(* up to some place, the components that follow it.                        *)
Survivors ==
  {w \in Down : \A v \in Up :
     v[1] > w[1] => Between(Up, w, v) <= Between(Down, w, v)}

(* What there is of the name when the components up to i are copied.       *)
Joined ==
  LET joined[i \in 0..Len(path)] ==
        IF i = 0 THEN IF Absolute THEN << "/" >> ELSE << >>
        ELSE IF \E w \in Survivors : w[2] = i
             THEN joined[i - 1]
                    \o Spelled(CHOOSE w \in Survivors : w[2] = i) \o << "/" >>
             ELSE joined[i - 1]
  IN  joined

(* The name is the components that survive, each once and in order, with   *)
(* one / between them and one in front when the path has one.              *)
Resolved == stage = "done" => Text = Parent(Joined[Len(path)])
=============================================================================
