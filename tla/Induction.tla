------------------------------ MODULE Induction ------------------------------
(***************************************************************************)
(* Induction on the natural numbers, and what it says of functions defined *)
(* by recursion.  The library's theorems state both for an operator        *)
(* parameter; here they are about a set and a function, which is what the  *)
(* proofs of this project can use.  Both come down to the minimal element  *)
(* of a set that is not empty.                                             *)
(***************************************************************************)
EXTENDS Naturals, NaturalsInduction, WellFoundedInduction, TLAPS

Less == {p \in Nat \X Nat : p[1] < p[2]}

LEMMA LessWellFounded == IsWellFoundedOn(Less, Nat)
<1>1. IsWellFoundedOn(OpToRel(<, Nat), Nat)
  BY NatLessThanWellFounded
<1> QED
  BY <1>1 DEF OpToRel, Less

(* A set that has 0 and with each number the next one.                     *)
THEOREM InductionOnNat ==
  ASSUME NEW S, 0 \in S, \A n \in Nat : n \in S => n + 1 \in S
  PROVE  Nat \subseteq S
<1> DEFINE T == Nat \ S
<1>1. SUFFICES ASSUME T # {} PROVE FALSE
  OBVIOUS
<1>2. PICK x \in T : \A y \in T : ~(<< y, x >> \in Less)
  BY <1>1, LessWellFounded, WFMin
<1>3. x \in Nat /\ x # 0 /\ x - 1 \in Nat /\ x - 1 + 1 = x
  OBVIOUS
<1>4. x - 1 \notin S
  BY <1>3
<1>5. << x - 1, x >> \in Less
  BY <1>3 DEF Less
<1> QED
  BY <1>2, <1>3, <1>4, <1>5

(* The sequence that begins with x0 and in which g says what comes next.   *)
Iterates(f, X, x0, g) ==
  /\ f \in [Nat -> X] /\ f[0] = x0
  /\ \A n \in Nat : f[n + 1] = g[<< n, f[n] >>]

(* Every recursion that says what comes after f[n] has a solution.         *)
THEOREM Iteration ==
  ASSUME NEW X, NEW x0 \in X, NEW g \in [Nat \X X -> X]
  PROVE  \E f : Iterates(f, X, x0, g)
<1> DEFINE Follows(h, k) ==
             /\ h \in [0..k -> X] /\ h[0] = x0
             /\ \A n \in 0..k : n < k => h[n + 1] = g[<< n, h[n] >>]
           S == {k \in Nat : \E h \in [0..k -> X] : Follows(h, k)}
<1>1. Nat \subseteq S
  <2>1. 0 \in S
    <3>1. Follows([n \in 0..0 |-> x0], 0)
      OBVIOUS
    <3> QED
      BY <3>1
  <2>2. ASSUME NEW k \in Nat, k \in S
        PROVE  k + 1 \in S
    <3>1. PICK h \in [0..k -> X] : Follows(h, k)
      BY <2>2
    <3> DEFINE e == [n \in 0..(k + 1) |-> IF n = k + 1 THEN g[<< k, h[k] >>] ELSE h[n]]
    <3>2. h[k] \in X /\ << k, h[k] >> \in Nat \X X
      OBVIOUS
    <3>3. e \in [0..(k + 1) -> X] /\ e[0] = x0
      BY <3>1, <3>2
    <3>4. ASSUME NEW n \in 0..(k + 1), n < k + 1
          PROVE  e[n + 1] = g[<< n, e[n] >>]
      <4>1. CASE n = k
        BY <4>1
      <4>2. CASE n # k
        BY <3>1, <3>4, <4>2
      <4> QED
        BY <4>1, <4>2
    <3> HIDE DEF e
    <3>5. Follows(e, k + 1)
      BY <3>3, <3>4
    <3> QED
      BY <3>3, <3>5
  <2> HIDE DEF S
  <2> QED
    BY <2>1, <2>2, InductionOnNat
<1>2. ASSUME NEW k \in Nat, NEW l \in Nat, k <= l, NEW h, NEW e,
             Follows(h, k), Follows(e, l)
      PROVE  \A n \in 0..k : h[n] = e[n]
  <2> DEFINE A == {n \in Nat : n \in 0..k => h[n] = e[n]}
  <2>1. 0 \in A
    BY <1>2
  <2>2. ASSUME NEW n \in Nat, n \in A
        PROVE  n + 1 \in A
    <3>1. SUFFICES ASSUME n + 1 \in 0..k PROVE h[n + 1] = e[n + 1]
      OBVIOUS
    <3>2. n \in 0..k /\ n < k /\ n \in 0..l /\ n < l
      BY <1>2, <3>1
    <3> QED
      BY <1>2, <2>2, <3>2
  <2>3. Nat \subseteq A
    <3> HIDE DEF A
    <3> QED
      BY <2>1, <2>2, InductionOnNat
  <2> QED
    BY <2>3
<1> DEFINE at(k) == CHOOSE h \in [0..k -> X] : Follows(h, k)
           f == [k \in Nat |-> at(k)[k]]
<1>3. ASSUME NEW k \in Nat PROVE Follows(at(k), k)
  <2>1. \E h \in [0..k -> X] : Follows(h, k)
    BY <1>1
  <2> HIDE DEF Follows
  <2> QED
    BY <2>1
<1> HIDE DEF at
<1>4. f \in [Nat -> X]
  <2>1. ASSUME NEW k \in Nat PROVE at(k)[k] \in X
    BY <1>3
  <2> QED
    BY <2>1
<1>5. f[0] = x0
  BY <1>3
<1>6. ASSUME NEW n \in Nat PROVE f[n + 1] = g[<< n, f[n] >>]
  <2>1. Follows(at(n), n) /\ Follows(at(n + 1), n + 1) /\ n <= n + 1
    BY <1>3
  <2>2. at(n)[n] = at(n + 1)[n]
    <3> HIDE DEF Follows
    <3> QED
      BY <1>2, <2>1
  <2>3. at(n + 1)[n + 1] = g[<< n, at(n + 1)[n] >>]
    BY <2>1
  <2> QED
    BY <2>2, <2>3
<1> HIDE DEF f
<1>7. Iterates(f, X, x0, g)
  BY <1>4, <1>5, <1>6 DEF Iterates
<1> QED
  BY <1>7

(* Places that take the next one, unless they are taken themselves.        *)
LEMMA Alternation ==
  ASSUME NEW len \in Nat, NEW P
  PROVE  \E h : h = [j \in 1..len |-> j > 1 /\ ~h[j - 1] /\ j - 1 \in P]
<1> DEFINE X == SUBSET {0}
           g == [p \in Nat \X X |-> IF p[1] > 0 /\ p[2] = {} /\ p[1] \in P THEN {0} ELSE {}]
<1>1. g \in [Nat \X X -> X]
  OBVIOUS
<1>2. {} \in X
  OBVIOUS
<1> HIDE DEF g, X
<1>3. PICK f : Iterates(f, X, {}, g)
  BY <1>1, <1>2, Iteration
<1>b. f \in [Nat -> X] /\ f[0] = {} /\ \A n \in Nat : f[n + 1] = g[<< n, f[n] >>]
  BY <1>3 DEF Iterates
<1> USE DEF X
<1>4. ASSUME NEW j \in 1..len
      PROVE  f[j] = {0} <=> j > 1 /\ f[j - 1] = {} /\ j - 1 \in P
  <2>1. j - 1 \in Nat /\ j - 1 + 1 = j
    OBVIOUS
  <2>2. << j - 1, f[j - 1] >> \in Nat \X X
    BY <1>b, <2>1
  <2>3. f[j] = g[<< j - 1, f[j - 1] >>]
    BY <1>b, <2>1
  <2>4. f[j] = IF j - 1 > 0 /\ f[j - 1] = {} /\ j - 1 \in P THEN {0} ELSE {}
    BY <2>2, <2>3 DEF g
  <2> QED
    BY <2>1, <2>4
<1> DEFINE h == [j \in 1..len |-> f[j] = {0}]
           Level(c, j) == j > 1 /\ ~c[j - 1] /\ j - 1 \in P
<1>5. h = [j \in 1..len |-> Level(h, j)]
  <2>1. ASSUME NEW j \in 1..len PROVE h[j] = Level(h, j)
    <3>1. CASE j = 1
      BY <1>b, <1>4, <3>1
    <3>2. CASE j # 1
      <4>1. j - 1 \in 1..len /\ j > 1
        BY <3>2
      <4>2. (h[j - 1] <=> f[j - 1] = {0}) /\ (h[j] <=> f[j] = {0})
        BY <4>1
      <4>3. f[j - 1] = {} <=> f[j - 1] # {0}
        BY <1>b, <4>1
      <4> QED
        BY <1>4, <4>1, <4>2, <4>3
    <3> QED
      BY <3>1, <3>2
  <2> HIDE DEF Level
  <2> QED
    BY <2>1
<1> HIDE DEF h
<1> QED
  BY <1>5, Zenon
=============================================================================
