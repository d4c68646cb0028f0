--------------------------- MODULE Builder_proofs ---------------------------
(***************************************************************************)
(* Proofs about Builder, for every content of the tables, every set of     *)
(* faults and every bound on stale stacks.                                 *)
(***************************************************************************)
EXTENDS Builder, Induction, SequenceTheorems

(* The stack of a declaration: those from the unit down to it.             *)
PathOf(node) == [i \in 1..Len(node) |-> Prefix(node, i)]

-----------------------------------------------------------------------------
LEMMA OuterOf ==
  ASSUME NEW S, NEW s \in Seq(S), Len(s) > 0
  PROVE  /\ Outer(s) \in Seq(S)
         /\ Len(Outer(s)) = Len(s) - 1
         /\ \A i \in 1..(Len(s) - 1) : Outer(s)[i] = s[i]
<1>1. Len(s) \in Nat
  BY LenProperties
<1>2. \A i \in 1..(Len(s) - 1) : s[i] \in S
  BY <1>1, ElementOfSeq
<1> DEFINE n == Len(s) - 1
<1>3. n \in Nat /\ 1 \in Int /\ n \in Int
  BY <1>1
<1>4. \A i \in 1..n : s[i] \in S
  BY <1>2
<1> HIDE DEF n
<1>5. /\ SubSeq(s, 1, n) \in Seq(S)
      /\ Len(SubSeq(s, 1, n)) = IF 1 <= n THEN n - 1 + 1 ELSE 0
      /\ \A i \in 1..(n - 1 + 1) : SubSeq(s, 1, n)[i] = s[1 + i - 1]
  BY <1>3, <1>4, SubSeqProperties
<1>6. n - 1 + 1 = n /\ \A i \in 1..n : 1 + i - 1 = i
  BY <1>3
<1>7. Len(SubSeq(s, 1, n)) = n /\ \A i \in 1..n : SubSeq(s, 1, n)[i] = s[i]
  BY <1>3, <1>5, <1>6
<1> QED
  BY <1>5, <1>7 DEF Outer, n

LEMMA FetchTyped ==
  ASSUME NEW d \in [namespace: SUBSET Row, class: SUBSET Row], NEW node, NEW names
  PROVE  Fetch(d, node, names) \subseteq Entry
BY DEF Fetch, Row, Entry

LEMMA RootIsNode == Root \in Seq(Entry) /\ Len(Root) = 1 /\ Root[1] = Unit
BY DEF Root, Unit, Entry, Text, Types, Contexts, Records

(* One declaration further in, the path and the names are one longer.      *)
LEMMA PathGrows ==
  ASSUME NEW node \in Seq(Entry), NEW e \in Entry
  PROVE  /\ PathOf(Append(node, e)) = Append(PathOf(node), Append(node, e))
         /\ Names(Append(node, e)) = Append(Names(node), e.member)
<1> DEFINE m == Append(node, e)
<1>1. m \in Seq(Entry) /\ Len(m) = Len(node) + 1
  OBVIOUS
<1>2. \A i \in 1..Len(node) : m[i] = node[i]
  OBVIOUS
<1>3. m[Len(node) + 1] = e
  OBVIOUS
<1>4. \A i \in 1..Len(node) : Prefix(m, i) = Prefix(node, i)
  BY <1>2 DEF Prefix
<1>5. Prefix(m, Len(node) + 1) = m
  <2>1. m \in [1..(Len(node) + 1) -> Entry]
    BY <1>1, LenProperties
  <2> HIDE DEF m
  <2> QED
    BY <2>1 DEF Prefix
<1> HIDE DEF m
<1>6. PathOf(m) = Append(PathOf(node), m)
  BY <1>1, <1>4, <1>5 DEF PathOf
<1>7. Names(m) = Append(Names(node), e.member)
  BY <1>1, <1>2, <1>3 DEF Names
<1> QED
  BY <1>6, <1>7 DEF m

(* One declaration further out, one shorter.                               *)
LEMMA PathShrinks ==
  ASSUME NEW node \in Seq(Entry), Len(node) > 1
  PROVE  LET up == Prefix(node, Len(node) - 1)
         IN  /\ up \in Seq(Entry) /\ Len(up) = Len(node) - 1
             /\ Outer(PathOf(node)) = PathOf(up)
             /\ Outer(Names(node)) = Names(up)
<1> DEFINE up == Prefix(node, Len(node) - 1)
<1>1. up \in Seq(Entry) /\ Len(up) = Len(node) - 1
  BY DEF Prefix
<1>2. \A i \in 1..Len(up) : up[i] = node[i]
  BY <1>1 DEF Prefix
<1> HIDE DEF up
<1>3. \A i \in 1..Len(up) : Prefix(up, i) = Prefix(node, i)
  BY <1>2 DEF Prefix
<1>4. Outer(PathOf(node)) = PathOf(up)
  BY <1>1, <1>3 DEF PathOf, Outer
<1>5. Outer(Names(node)) = Names(up)
  BY <1>1, <1>2 DEF Names, Outer
<1> QED
  BY <1>1, <1>4, <1>5 DEF up

LEMMA PathOfRoot == PathOf(Root) = << Root >> /\ Names(Root) = << << >> >>
BY RootIsNode DEF PathOf, Names, Prefix, Root, Unit

-----------------------------------------------------------------------------
(* The two stacks have one height.  While a build runs there is a          *)
(* declaration and a name for each statement; a failed build leaves more.  *)
Depth ==
  /\ Len(str_stack) = Len(nested_decls)
  /\ phase = "building" => Len(stmts) > 0 /\ Len(stmts) <= Len(nested_decls)

(* What the open statements have still to return is in the table of their  *)
(* declaration, under its name, and the declaration is in the tree.        *)
Open ==
  (phase = "building" /\ ~failed) =>
    \A i \in 1..Len(stmts) :
      /\ nested_decls[i] \in tree
      /\ stmts[i] \subseteq Fetch(db, nested_decls[i], Names(nested_decls[i]))

BuilderInv == TypeOK /\ Depth /\ StackIsPath /\ Open /\ TreeIsFromTables

-----------------------------------------------------------------------------
(* Type correctness. *)

LEMMA TopTyped ==
  ASSUME TypeOK, Depth, phase = "building"
  PROVE  /\ This \in Seq(Entry) /\ Rows \subseteq Entry
         /\ Len(stmts) \in Nat \ {0} /\ Len(nested_decls) \in Nat \ {0}
         /\ Len(str_stack) \in Nat \ {0}
BY DEF TypeOK, Depth, This, Rows

(* A statement that goes on, or is given up.                               *)
LEMMA RestTyped ==
  ASSUME TypeOK, Depth, phase = "building", NEW rest, rest \subseteq Rows,
         NEW s, s = [stmts EXCEPT ![Len(stmts)] = rest]
  PROVE  /\ s \in Seq(SUBSET Entry) /\ Len(s) = Len(stmts)
         /\ \A i \in 1..Len(stmts) : s[i] \subseteq stmts[i]
<1>1. rest \in SUBSET Entry /\ Len(stmts) \in 1..Len(stmts)
  BY TopTyped
<1> QED
  BY <1>1, ExceptSeq DEF TypeOK, Rows

LEMMA RecurseTyped ==
  ASSUME TypeOK, NEW node \in Seq(Entry), NEW member \in Text,
         NEW rest \in Seq(SUBSET Entry),
         Recurse(node, member, rest)
  PROVE  /\ nested_decls' \in Seq(Seq(Entry)) /\ str_stack' \in Seq(Text)
         /\ stmts' \in Seq(SUBSET Entry)
         /\ phase' \in {"building", "raised"} /\ failed' \in BOOLEAN
         /\ Len(nested_decls') = Len(nested_decls) + 1
         /\ Len(str_stack') = Len(str_stack) + 1
         /\ phase' = "building" => Len(stmts') = Len(rest) + 1
<1> DEFINE names == Append(str_stack, member)
<1>1. nested_decls' = Append(nested_decls, node) /\ str_stack' = names
  BY DEF Recurse
<1>2. nested_decls' \in Seq(Seq(Entry)) /\ Len(nested_decls') = Len(nested_decls) + 1
  BY <1>1 DEF TypeOK
<1>3. str_stack' \in Seq(Text) /\ Len(str_stack') = Len(str_stack) + 1
  BY <1>1 DEF TypeOK
<1>4. Fetch(db, node, names) \in SUBSET Entry
  BY FetchTyped DEF TypeOK
<1>5. CASE stmts' = Append(rest, Fetch(db, node, names)) /\ phase' = "building"
           /\ UNCHANGED failed
  <2>1. stmts' \in Seq(SUBSET Entry) /\ Len(stmts') = Len(rest) + 1
    BY <1>4, <1>5, AppendProperties
  <2> QED
    BY <1>2, <1>3, <1>5, <2>1 DEF TypeOK
<1>6. CASE Raise("raised")
  BY <1>2, <1>3, <1>6 DEF Raise
<1> QED
  BY <1>5, <1>6 DEF Recurse

LEMMA YieldTyped ==
  ASSUME TypeOK, Depth, phase = "building", NEW e \in Rows,
         \/ YieldTypedef(e) \/ YieldDecl(e) \/ YieldContext(e)
         \/ YieldRaises(e) \/ AssertFails(e),
         UNCHANGED << db, cut >>
  PROVE  TypeOK' /\ Depth'
<1>1. e \in Entry /\ This \in Seq(Entry)
  BY TopTyped
<1>2. Rest(e) \in Seq(SUBSET Entry) /\ Len(Rest(e)) = Len(stmts)
  <2> DEFINE rest == Rows \ {e}
  <2>1. Rest(e) = [stmts EXCEPT ![Len(stmts)] = rest]
    BY DEF Rest, Rows
  <2>2. rest \subseteq Rows
    OBVIOUS
  <2> HIDE DEF rest
  <2> QED
    BY <2>1, <2>2, RestTyped
<1>3. Append(This, e) \in Seq(Entry) /\ tree \cup {Append(This, e)} \subseteq Seq(Entry)
  <2>1. Append(This, e) \in Seq(Entry)
    BY <1>1, AppendProperties
  <2> QED
    BY <2>1 DEF TypeOK
<1>4. CASE YieldTypedef(e)
  BY <1>2, <1>4 DEF YieldTypedef, TypeOK, Depth
<1>5. CASE YieldDecl(e)
  BY <1>2, <1>3, <1>5 DEF YieldDecl, TypeOK, Depth
<1>6. CASE YieldContext(e)
  <2>1. /\ Recurse(Append(This, e), e.member, Rest(e))
        /\ tree' = tree \cup {Append(This, e)}
    BY <1>6 DEF YieldContext
  <2>2. e.member \in Text
    BY <1>1 DEF Entry
  <2>3. /\ nested_decls' \in Seq(Seq(Entry)) /\ str_stack' \in Seq(Text)
        /\ stmts' \in Seq(SUBSET Entry)
        /\ phase' \in {"building", "raised"} /\ failed' \in BOOLEAN
        /\ Len(nested_decls') = Len(nested_decls) + 1
        /\ Len(str_stack') = Len(str_stack) + 1
        /\ phase' = "building" => Len(stmts') = Len(stmts) + 1
    BY <1>2, <1>3, <2>1, <2>2, RecurseTyped
  <2>4. TypeOK'
    BY <1>3, <2>1, <2>3 DEF TypeOK
  <2>5. Depth'
    BY <2>3, TopTyped DEF Depth
  <2> QED
    BY <2>4, <2>5
<1>7. CASE YieldRaises(e)
  BY <1>7 DEF YieldRaises, Raise, TypeOK, Depth
<1>8. CASE AssertFails(e)
  BY <1>8 DEF AssertFails, Raise, TypeOK, Depth
<1> QED
  BY <1>4, <1>5, <1>6, <1>7, <1>8

LEMMA StepTyped == TypeOK /\ Depth /\ [Next]_vars => TypeOK' /\ Depth'
<1> SUFFICES ASSUME TypeOK, Depth, [Next]_vars PROVE TypeOK' /\ Depth'
  OBVIOUS
<1>1. CASE Build
  <2>1. Recurse(Root, << >>, << >>) /\ tree' = {Root} /\ cut' = FALSE /\ db' = db
    BY <1>1 DEF Build
  <2>2. PICK none \in Text, rest \in Seq(SUBSET Entry) :
          Len(rest) = 0 /\ Recurse(Root, none, rest)
    BY <2>1, EmptySeq DEF Text
  <2>3. /\ nested_decls' \in Seq(Seq(Entry)) /\ str_stack' \in Seq(Text)
        /\ stmts' \in Seq(SUBSET Entry)
        /\ phase' \in {"building", "raised"} /\ failed' \in BOOLEAN
        /\ Len(nested_decls') = Len(nested_decls) + 1
        /\ Len(str_stack') = Len(str_stack) + 1
        /\ phase' = "building" => Len(stmts') = Len(rest) + 1
    BY <2>2, RootIsNode, RecurseTyped
  <2>4. TypeOK'
    BY <2>1, <2>3, RootIsNode DEF TypeOK
  <2>5. Len(nested_decls) \in Nat
    BY LenProperties DEF TypeOK
  <2>6. phase' = "building" => Len(stmts') = 1
    BY <2>2, <2>3
  <2>7. Len(str_stack) = Len(nested_decls)
    BY DEF Depth
  <2>8. Depth'
    <3>1. Len(str_stack') = Len(nested_decls')
      BY <2>3, <2>7
    <3>2. ASSUME phase' = "building"
          PROVE  Len(stmts') > 0 /\ Len(stmts') <= Len(nested_decls')
      <4>1. Len(nested_decls') > 0 /\ Len(nested_decls') \in Nat
        <5>1. Len(nested_decls') = Len(nested_decls) + 1
          BY <2>3, Zenon
        <5> QED
          BY <5>1, <2>5
      <4>2. Len(stmts') = 1
        BY <2>6, <3>2, Zenon
      <4> QED
        BY <4>1, <4>2
    <3> QED
      BY <3>1, <3>2 DEF Depth
  <2> QED
    BY <2>4, <2>8
<1>2. CASE Yield
  BY <1>2, YieldTyped DEF Yield
<1>3. CASE StepFails
  <2>1. stmts' \in Seq(SUBSET Entry) /\ Len(stmts') = Len(stmts)
    BY <1>3, RestTyped DEF StepFails
  <2> QED
    BY <1>3, <2>1 DEF StepFails, TypeOK, Depth
<1>4. CASE Return
  <2>1. /\ nested_decls' = Outer(nested_decls) /\ str_stack' = Outer(str_stack)
        /\ stmts' = Outer(stmts) /\ phase = "building"
        /\ phase' = IF Len(stmts) = 1 THEN "done" ELSE "building"
        /\ UNCHANGED << db, tree, cut, failed >>
    BY <1>4 DEF Return
  <2>2. Len(nested_decls) > 0 /\ Len(str_stack) > 0 /\ Len(stmts) > 0
    BY <2>1, TopTyped
  <2>3. nested_decls' \in Seq(Seq(Entry)) /\ Len(nested_decls') = Len(nested_decls) - 1
    BY <2>1, <2>2, OuterOf DEF TypeOK
  <2>4. str_stack' \in Seq(Text) /\ Len(str_stack') = Len(str_stack) - 1
    BY <2>1, <2>2, OuterOf DEF TypeOK
  <2>5. stmts' \in Seq(SUBSET Entry) /\ Len(stmts') = Len(stmts) - 1
    BY <2>1, <2>2, OuterOf DEF TypeOK
  <2>6. TypeOK'
    BY <2>1, <2>3, <2>4, <2>5 DEF TypeOK
  <2>7. Depth'
    BY <2>1, <2>3, <2>4, <2>5, TopTyped DEF Depth
  <2> QED
    BY <2>6, <2>7
<1>5. CASE UNCHANGED vars
  BY <1>5 DEF vars, TypeOK, Depth
<1> QED
  BY <1>1, <1>2, <1>3, <1>4, <1>5 DEF Next

-----------------------------------------------------------------------------
(* The stacks and the tree. *)

LEMMA StackParts ==
  ASSUME TypeOK, Depth, StackIsPath, phase = "building", ~failed
  PROVE  /\ nested_decls = PathOf(This) /\ str_stack = Names(This)
         /\ Len(stmts) = Len(This) /\ Len(nested_decls) = Len(This)
         /\ This \in Seq(Entry) /\ Len(This) \in Nat \ {0}
<1>1. /\ nested_decls = PathOf(This) /\ str_stack = Names(This)
      /\ Len(stmts) = Len(This)
  BY DEF StackIsPath, PathOf
<1>2. This \in Seq(Entry) /\ Len(stmts) \in Nat \ {0}
  BY TopTyped
<1>3. Len(This) \in Nat
  BY <1>2, LenProperties
<1>4. Len(PathOf(This)) = Len(This)
  BY <1>3 DEF PathOf
<1> QED
  BY <1>1, <1>2, <1>4

(* The innermost statement returns members of the innermost declaration.   *)
LEMMA TopOpen ==
  ASSUME TypeOK, Depth, StackIsPath, Open, phase = "building", ~failed
  PROVE  This \in tree /\ Rows \subseteq Fetch(db, This, Names(This))
<1>1. Len(stmts) = Len(nested_decls) /\ Len(stmts) \in 1..Len(stmts)
  BY StackParts
<1> QED
  BY <1>1 DEF Open, This, Rows

(* A step that leaves the stacks alone and only shortens statements.       *)
LEMMA SameStacks ==
  ASSUME TypeOK, Depth, StackIsPath, Open, phase = "building",
         UNCHANGED << db, phase, nested_decls, str_stack, failed >>,
         tree \subseteq tree', Len(stmts') = Len(stmts),
         \A i \in 1..Len(stmts) : stmts'[i] \subseteq stmts[i]
  PROVE  StackIsPath' /\ Open'
<1>1. StackIsPath'
  BY DEF StackIsPath, This
<1>2. Open'
  BY DEF Open
<1> QED
  BY <1>1, <1>2

(* A step that goes in.                                                    *)
LEMMA OneIn ==
  ASSUME TypeOK, Depth, StackIsPath, Open, phase = "building", db' = db,
         NEW e \in Entry, tree' = tree \cup {Append(This, e)},
         NEW rest \in Seq(SUBSET Entry), Len(rest) = Len(stmts),
         \A i \in 1..Len(stmts) : rest[i] \subseteq stmts[i],
         Recurse(Append(This, e), e.member, rest)
  PROVE  StackIsPath' /\ Open'
<1> SUFFICES ASSUME ~failed' PROVE StackIsPath' /\ Open'
  BY DEF StackIsPath, Open
<1> DEFINE node  == Append(This, e)
           names == Append(str_stack, e.member)
<1>1. /\ nested_decls' = Append(nested_decls, node) /\ str_stack' = names
      /\ stmts' = Append(rest, Fetch(db, node, names))
      /\ phase' = "building" /\ ~failed
  BY DEF Recurse, Raise
<1>2. /\ nested_decls = PathOf(This) /\ str_stack = Names(This)
      /\ Len(stmts) = Len(This) /\ Len(nested_decls) = Len(This)
      /\ This \in Seq(Entry) /\ Len(This) \in Nat \ {0}
  BY <1>1, StackParts
<1>3. PathOf(node) = Append(PathOf(This), node) /\ names = Names(node)
  BY <1>2, PathGrows
<1>4. node \in Seq(Entry) /\ Len(node) = Len(This) + 1
  BY <1>2, AppendProperties
<1>5. Fetch(db, node, names) \in SUBSET Entry
  BY FetchTyped DEF TypeOK
<1> HIDE DEF node, names
<1>6. nested_decls \in Seq(Seq(Entry))
  BY DEF TypeOK
<1>7. /\ Len(nested_decls') = Len(This) + 1 /\ nested_decls'[Len(This) + 1] = node
      /\ \A i \in 1..Len(This) : nested_decls'[i] = nested_decls[i]
  BY <1>1, <1>2, <1>4, <1>6, AppendProperties
<1>8. /\ Len(stmts') = Len(This) + 1 /\ stmts'[Len(This) + 1] = Fetch(db, node, names)
      /\ \A i \in 1..Len(This) : stmts'[i] = rest[i]
  BY <1>1, <1>2, <1>5, AppendProperties
<1>9. This' = node
  BY <1>7 DEF This
<1>10. StackIsPath'
  <2>1. nested_decls' = PathOf(node) /\ str_stack' = Names(node)
    BY <1>1, <1>2, <1>3
  <2>2. Len(stmts') = Len(node) /\ Len(nested_decls') > 0
    BY <1>2, <1>4, <1>7, <1>8
  <2> QED
    BY <1>1, <1>9, <2>1, <2>2 DEF StackIsPath, PathOf
<1>11. Open'
  <2> SUFFICES ASSUME NEW i \in 1..Len(stmts')
               PROVE  /\ nested_decls'[i] \in tree'
                      /\ stmts'[i] \subseteq
                           Fetch(db', nested_decls'[i], Names(nested_decls'[i]))
    BY DEF Open
  <2>1. CASE i = Len(This) + 1
    BY <1>3, <1>7, <1>8, <2>1 DEF node
  <2>2. CASE i # Len(This) + 1
    <3>1. i \in 1..Len(This)
      BY <1>2, <1>8, <2>2
    <3>2. nested_decls'[i] = nested_decls[i] /\ stmts'[i] \subseteq stmts[i]
      BY <1>2, <1>7, <1>8, <3>1
    <3>3. nested_decls[i] \in tree
          /\ stmts[i] \subseteq Fetch(db, nested_decls[i], Names(nested_decls[i]))
      BY <1>1, <1>2, <3>1 DEF Open
    <3> QED
      BY <3>2, <3>3
  <2> QED
    BY <2>1, <2>2
<1> QED
  BY <1>10, <1>11

(* A step that comes out.                                                  *)
LEMMA OneOut ==
  ASSUME TypeOK, Depth, StackIsPath, Open, Return
  PROVE  StackIsPath' /\ Open'
<1>1. /\ nested_decls' = Outer(nested_decls) /\ str_stack' = Outer(str_stack)
      /\ stmts' = Outer(stmts) /\ phase = "building"
      /\ phase' = IF Len(stmts) = 1 THEN "done" ELSE "building"
      /\ UNCHANGED << db, tree, cut, failed >>
  BY DEF Return
<1> SUFFICES ASSUME ~failed PROVE StackIsPath' /\ Open'
  BY <1>1 DEF StackIsPath, Open
<1>2. /\ nested_decls = PathOf(This) /\ str_stack = Names(This)
      /\ Len(stmts) = Len(This) /\ Len(nested_decls) = Len(This)
      /\ This \in Seq(Entry) /\ Len(This) \in Nat \ {0}
  BY <1>1, StackParts
<1>3. Len(str_stack) = Len(This)
  BY <1>2 DEF Depth
<1>4. CASE Len(stmts) = 1
  <2>1. nested_decls' = << >> /\ str_stack' = << >> /\ stmts' = << >>
    BY <1>1, <1>2, <1>3, <1>4, SubSeqEmpty DEF Outer
  <2> QED
    BY <1>1, <1>4, <2>1 DEF StackIsPath, Open
<1>5. CASE Len(stmts) # 1
  <2> DEFINE up == Prefix(This, Len(This) - 1)
  <2>1. /\ up \in Seq(Entry) /\ Len(up) = Len(This) - 1
        /\ nested_decls' = PathOf(up) /\ str_stack' = Names(up)
    <3>1. Len(This) > 1
      BY <1>2, <1>5
    <3> QED
      BY <1>1, <1>2, <3>1, PathShrinks
  <2>2. /\ Len(stmts') = Len(This) - 1
        /\ \A i \in 1..(Len(This) - 1) : stmts'[i] = stmts[i]
    BY <1>1, <1>2, OuterOf DEF TypeOK
  <2>3. /\ Len(nested_decls') = Len(This) - 1
        /\ \A i \in 1..(Len(This) - 1) : nested_decls'[i] = nested_decls[i]
    BY <1>1, <1>2, OuterOf DEF TypeOK
  <2>4. This' = up
    <3>1. PathOf(up)[Len(up)] = Prefix(up, Len(up)) /\ Len(up) \in Nat \ {0}
      BY <1>2, <1>5, <2>1 DEF PathOf
    <3>2. Prefix(up, Len(up)) = up
      <4>1. up \in [1..Len(up) -> Entry]
        BY <2>1, LenProperties
      <4> HIDE DEF up
      <4> QED
        BY <4>1 DEF Prefix
    <3> QED
      BY <2>1, <2>3, <3>1, <3>2 DEF This
  <2> HIDE DEF up
  <2>5. StackIsPath'
    <3>1. Len(stmts') = Len(up) /\ Len(nested_decls') > 0
      BY <1>2, <1>5, <2>1, <2>2, <2>3
    <3> QED
      BY <1>1, <1>5, <2>1, <2>4, <3>1 DEF StackIsPath, PathOf
  <2>6. Open'
    <3> SUFFICES ASSUME NEW i \in 1..Len(stmts')
                 PROVE  /\ nested_decls'[i] \in tree'
                        /\ stmts'[i] \subseteq
                             Fetch(db', nested_decls'[i], Names(nested_decls'[i]))
      BY DEF Open
    <3>1. i \in 1..(Len(This) - 1) /\ i \in 1..Len(stmts)
      BY <1>2, <2>2
    <3>2. nested_decls'[i] = nested_decls[i] /\ stmts'[i] = stmts[i]
      BY <2>2, <2>3, <3>1
    <3>3. nested_decls[i] \in tree
          /\ stmts[i] \subseteq Fetch(db, nested_decls[i], Names(nested_decls[i]))
      BY <1>1, <3>1 DEF Open
    <3> QED
      BY <1>1, <3>2, <3>3
  <2> QED
    BY <2>5, <2>6
<1> QED
  BY <1>4, <1>5

(* A declaration is added behind one that is there.                        *)
LEMMA OneMore ==
  ASSUME TypeOK, Depth, StackIsPath, Open, TreeIsFromTables, phase = "building",
         db' = db, ~failed, NEW e \in Rows, tree' = tree \cup {Append(This, e)}
  PROVE  TreeIsFromTables'
<1> SUFFICES ASSUME NEW n \in tree'
             PROVE  n = Root \/ \E p \in tree' :
                      \E r \in Fetch(db', p, Names(p)) : n = Append(p, r)
  BY DEF TreeIsFromTables
<1>1. CASE n \in tree
  BY <1>1 DEF TreeIsFromTables
<1>2. CASE n = Append(This, e)
  BY <1>2, TopOpen
<1> QED
  BY <1>1, <1>2

LEMMA StepInv == BuilderInv /\ [Next]_vars => BuilderInv'
<1> SUFFICES ASSUME BuilderInv, [Next]_vars PROVE BuilderInv'
  OBVIOUS
<1>1. TypeOK /\ Depth /\ StackIsPath /\ Open /\ TreeIsFromTables
  BY DEF BuilderInv
<1>2. TypeOK' /\ Depth'
  BY <1>1, StepTyped
<1>3. CASE Build
  <2> SUFFICES ASSUME ~failed' PROVE StackIsPath' /\ Open' /\ TreeIsFromTables'
    BY <1>2 DEF BuilderInv, StackIsPath, Open, TreeIsFromTables
  <2>1. /\ nested_decls' = Append(nested_decls, Root)
        /\ str_stack' = Append(str_stack, << >>)
        /\ stmts' = Append(<< >>, Fetch(db, Root, Append(str_stack, << >>)))
        /\ phase' = "building" /\ ~failed /\ phase # "building"
        /\ tree' = {Root} /\ db' = db
    BY <1>3 DEF Build, Recurse, Raise
  <2>2. nested_decls = << >> /\ str_stack = << >>
    BY <1>1, <2>1 DEF StackIsPath
  <2>3. nested_decls' = PathOf(Root) /\ str_stack' = Names(Root)
    BY <2>1, <2>2, PathOfRoot
  <2>4. Len(stmts') = 1 /\ stmts'[1] = Fetch(db, Root, Names(Root))
    <3> DEFINE rows == Fetch(db, Root, Append(str_stack, << >>))
    <3>1. rows = Fetch(db, Root, Names(Root)) /\ stmts' = Append(<< >>, rows)
      BY <2>1, <2>3
    <3> HIDE DEF rows
    <3>2. stmts' = << rows >>
      BY <3>1
    <3> QED
      BY <3>1, <3>2
  <2>5. Len(nested_decls') = 1 /\ nested_decls'[1] = Root /\ This' = Root
    BY <2>1, <2>2 DEF This
  <2>6. StackIsPath'
    BY <2>1, <2>3, <2>4, <2>5, RootIsNode DEF StackIsPath, PathOf
  <2>7. Open'
    <3> SUFFICES ASSUME NEW i \in 1..Len(stmts')
                 PROVE  /\ nested_decls'[i] \in tree'
                        /\ stmts'[i] \subseteq
                             Fetch(db', nested_decls'[i], Names(nested_decls'[i]))
      BY DEF Open
    <3>1. i = 1
      BY <2>4
    <3> QED
      BY <2>1, <2>4, <2>5, <3>1
  <2>8. TreeIsFromTables'
    BY <2>1 DEF TreeIsFromTables
  <2> QED
    BY <2>6, <2>7, <2>8
<1>4. CASE Yield
  <2>1. PICK e \in Rows : \/ YieldTypedef(e) \/ YieldDecl(e) \/ YieldContext(e)
                          \/ YieldRaises(e) \/ AssertFails(e)
    BY <1>4 DEF Yield
  <2>2. phase = "building" /\ db' = db /\ e \in Entry
    BY <1>1, <1>4, TopTyped DEF Yield
  <2>3. /\ Rest(e) \in Seq(SUBSET Entry) /\ Len(Rest(e)) = Len(stmts)
        /\ \A i \in 1..Len(stmts) : Rest(e)[i] \subseteq stmts[i]
    <3> DEFINE rest == Rows \ {e}
    <3>1. Rest(e) = [stmts EXCEPT ![Len(stmts)] = rest] /\ rest \subseteq Rows
      BY DEF Rest, Rows
    <3> HIDE DEF rest
    <3> QED
      BY <1>1, <2>2, <3>1, RestTyped
  <2>4. CASE YieldTypedef(e)
    <3>1. /\ UNCHANGED << phase, nested_decls, str_stack, tree, failed >>
          /\ stmts' = Rest(e)
      BY <2>4 DEF YieldTypedef
    <3>2. StackIsPath' /\ Open'
      BY <1>1, <2>2, <2>3, <3>1, SameStacks
    <3>3. TreeIsFromTables'
      BY <1>1, <2>2, <3>1 DEF TreeIsFromTables
    <3> QED
      BY <1>2, <3>2, <3>3 DEF BuilderInv
  <2>5. CASE YieldDecl(e)
    <3>1. /\ UNCHANGED << phase, nested_decls, str_stack, failed >>
          /\ stmts' = Rest(e) /\ tree' = tree \cup {Append(This, e)}
      BY <2>5 DEF YieldDecl
    <3>2. StackIsPath' /\ Open'
      BY <1>1, <2>2, <2>3, <3>1, SameStacks
    <3>3. TreeIsFromTables'
      <4>1. CASE failed
        BY <3>1, <4>1 DEF TreeIsFromTables
      <4>2. CASE ~failed
        BY <1>1, <2>2, <3>1, <4>2, OneMore
      <4> QED
        BY <4>1, <4>2
    <3> QED
      BY <1>2, <3>2, <3>3 DEF BuilderInv
  <2>6. CASE YieldContext(e)
    <3>1. /\ Recurse(Append(This, e), e.member, Rest(e))
          /\ tree' = tree \cup {Append(This, e)}
      BY <2>6 DEF YieldContext
    <3>2. StackIsPath' /\ Open'
      BY <1>1, <2>2, <2>3, <3>1, OneIn
    <3>3. TreeIsFromTables'
      <4>1. CASE failed'
        BY <4>1 DEF TreeIsFromTables
      <4>2. CASE ~failed'
        <5>1. ~failed
          BY <3>1, <4>2 DEF Recurse, Raise
        <5> QED
          BY <1>1, <2>2, <3>1, <5>1, OneMore
      <4> QED
        BY <4>1, <4>2
    <3> QED
      BY <1>2, <3>2, <3>3 DEF BuilderInv
  <2>7. CASE YieldRaises(e) \/ AssertFails(e)
    <3>1. failed'
      BY <2>7 DEF YieldRaises, AssertFails, Raise
    <3> QED
      BY <1>2, <3>1 DEF BuilderInv, StackIsPath, Open, TreeIsFromTables
  <2> QED
    BY <2>1, <2>4, <2>5, <2>6, <2>7
<1>5. CASE StepFails
  <2>1. /\ phase = "building" /\ stmts' = [stmts EXCEPT ![Len(stmts)] = {}]
        /\ UNCHANGED << db, phase, nested_decls, str_stack, tree, failed >>
    BY <1>5 DEF StepFails
  <2>2. Len(stmts') = Len(stmts) /\ \A i \in 1..Len(stmts) : stmts'[i] \subseteq stmts[i]
    BY <1>1, <2>1, RestTyped
  <2>3. StackIsPath' /\ Open'
    BY <1>1, <2>1, <2>2, SameStacks
  <2>4. TreeIsFromTables'
    BY <1>1, <2>1 DEF TreeIsFromTables
  <2> QED
    BY <1>2, <2>3, <2>4 DEF BuilderInv
<1>6. CASE Return
  <2>1. StackIsPath' /\ Open'
    BY <1>1, <1>6, OneOut
  <2>2. TreeIsFromTables'
    BY <1>1, <1>6 DEF Return, TreeIsFromTables
  <2> QED
    BY <1>2, <2>1, <2>2 DEF BuilderInv
<1>7. CASE UNCHANGED vars
  BY <1>1, <1>2, <1>7 DEF vars, BuilderInv, StackIsPath, This, Open, TreeIsFromTables
<1> QED
  BY <1>3, <1>4, <1>5, <1>6, <1>7 DEF Next

LEMMA InitInv == Init => BuilderInv
<1> SUFFICES ASSUME Init PROVE BuilderInv
  OBVIOUS
<1>1. nested_decls = << >> /\ str_stack = << >> /\ stmts = << >> /\ tree = {}
      /\ phase = "idle" /\ ~failed
  BY DEF Init
<1>2. TypeOK
  BY <1>1, DatabaseAssumption, EmptySeq DEF Init, TypeOK
<1> QED
  BY <1>1, <1>2 DEF BuilderInv, Depth, StackIsPath, Open, TreeIsFromTables

-----------------------------------------------------------------------------
(* The variables of a Builder keep their types through failures and later  *)
(* builds: no exit of _build_recurse pops more than it pushed.             *)
THEOREM BuilderTyped == Spec => []TypeOK
<1>1. BuilderInv => TypeOK
  BY DEF BuilderInv
<1> QED
  BY <1>1, InitInv, StepInv, PTL DEF Spec

(* nested_decls and str_stack are the path of the innermost declaration at *)
(* every row, and empty behind build, as long as nothing was raised.       *)
THEOREM StacksArePaths == Spec => []StackIsPath
<1>1. BuilderInv => StackIsPath
  BY DEF BuilderInv
<1> QED
  BY <1>1, InitInv, StepInv, PTL DEF Spec

(* Whatever fails, the tree has no declaration under a parent that the     *)
(* tables do not give it.                                                  *)
THEOREM TreeComesFromTables == Spec => []TreeIsFromTables
<1>1. BuilderInv => TreeIsFromTables
  BY DEF BuilderInv
<1> QED
  BY <1>1, InitInv, StepInv, PTL DEF Spec

-----------------------------------------------------------------------------
(* Nothing is left out. *)

(* What a statement that is open has still to return.                      *)
Owed(n, e) ==
  /\ phase = "building"
  /\ \E i \in 1..Len(stmts) : nested_decls[i] = n /\ e \in stmts[i]

(* What the tables have below a declaration of the tree is there as well,  *)
(* or an open statement will return it.                                    *)
Covered ==
  (~failed /\ ~cut) =>
    \A n \in tree : Type(n) \in Contexts =>
      \A e \in Fetch(db, n, Names(n)) :
        e.type # "typedef" => Append(n, e) \in tree \/ Owed(n, e)

LEMMA LastOf ==
  ASSUME NEW node \in Seq(Entry), NEW e \in Entry
  PROVE  Type(Append(node, e)) = e.type
<1>1. /\ Len(Append(node, e)) = Len(node) + 1
      /\ Append(node, e)[Len(node) + 1] = e
  BY AppendProperties
<1> QED
  BY <1>1 DEF Type

(* Behind a row, its statement owes the others, and the statements around  *)
(* it owe what they owed.                                                  *)
LEMMA OthersOwed ==
  ASSUME TypeOK, Depth, phase = "building", NEW e \in Rows,
         NEW i \in 1..Len(stmts), NEW o \in stmts[i],
         ~(i = Len(stmts) /\ o = e)
  PROVE  o \in Rest(e)[i]
BY TopTyped DEF Rest, TypeOK

LEMMA YieldCovers ==
  ASSUME BuilderInv, Covered, BuilderInv', phase = "building", NEW e \in Rows,
         \/ YieldTypedef(e) \/ YieldDecl(e) \/ YieldContext(e)
         \/ YieldRaises(e) \/ AssertFails(e),
         UNCHANGED << db, cut >>
  PROVE  Covered'
<1> SUFFICES ASSUME ~failed', ~cut', NEW n \in tree', Type(n) \in Contexts,
                    NEW o \in Fetch(db, n, Names(n)), o.type # "typedef"
             PROVE  Append(n, o) \in tree' \/ Owed(n, o)'
  BY DEF Covered
<1>1. TypeOK /\ Depth /\ StackIsPath /\ Open
  BY DEF BuilderInv
<1>2. YieldTypedef(e) \/ YieldDecl(e) \/ YieldContext(e)
  BY DEF YieldRaises, AssertFails, Raise
<1>3. ~failed /\ ~cut /\ phase' = "building" /\ tree \subseteq tree'
  BY <1>2 DEF YieldTypedef, YieldDecl, YieldContext, Recurse, Raise
<1>4. /\ Len(stmts) = Len(This) /\ Len(nested_decls) = Len(This)
      /\ This \in Seq(Entry) /\ Len(This) \in Nat \ {0}
      /\ e \in Entry
  BY <1>1, <1>3, StackParts, TopTyped
<1>5. nested_decls \in Seq(Seq(Entry))
  BY <1>1 DEF TypeOK
<1>6. Rest(e) \in Seq(SUBSET Entry) /\ Len(Rest(e)) = Len(stmts)
  <2> DEFINE rest == Rows \ {e}
  <2>1. Rest(e) = [stmts EXCEPT ![Len(stmts)] = rest] /\ rest \subseteq Rows
    BY DEF Rest, Rows
  <2> HIDE DEF rest
  <2> QED
    BY <1>1, <2>1, RestTyped
<1> DEFINE node  == Append(This, e)
           names == Append(str_stack, e.member)
<1>7. node \in Seq(Entry)
  BY <1>4, AppendProperties
(* The statements that were open are open, each with what was left.        *)
<1>8. \A i \in 1..Len(stmts) :
        /\ i \in 1..Len(stmts')
        /\ nested_decls'[i] = nested_decls[i]
        /\ stmts'[i] = Rest(e)[i]
  <2>1. CASE YieldTypedef(e) \/ YieldDecl(e)
    BY <1>6, <2>1 DEF YieldTypedef, YieldDecl
  <2>2. CASE YieldContext(e)
    <3>1. /\ nested_decls' = Append(nested_decls, node)
          /\ stmts' = Append(Rest(e), Fetch(db, node, names))
      BY <2>2 DEF YieldContext, Recurse, Raise
    <3>2. Fetch(db, node, names) \in SUBSET Entry
      BY <1>1, FetchTyped DEF TypeOK
    <3> HIDE DEF node, names
    <3>3. \A i \in 1..Len(nested_decls) : nested_decls'[i] = nested_decls[i]
      BY <1>5, <1>7, <3>1, AppendProperties
    <3>4. /\ Len(stmts') = Len(stmts) + 1
          /\ \A i \in 1..Len(stmts) : stmts'[i] = Rest(e)[i]
      BY <1>6, <3>1, <3>2, AppendProperties
    <3> QED
      BY <1>4, <3>3, <3>4
  <2> QED
    BY <1>2, <2>1, <2>2
<1>9. CASE n \in tree
  <2>1. CASE Append(n, o) \in tree
    BY <1>3, <2>1
  <2>2. CASE Owed(n, o)
    <3>1. PICK i \in 1..Len(stmts) : nested_decls[i] = n /\ o \in stmts[i]
      BY <2>2 DEF Owed
    <3>2. CASE i = Len(stmts) /\ o = e
      <4>1. n = This
        BY <1>4, <3>1, <3>2 DEF This
      <4>2. tree' = tree \cup {Append(This, e)}
        BY <1>2, <3>2 DEF YieldTypedef, YieldDecl, YieldContext
      <4> QED
        BY <3>2, <4>1, <4>2
    <3>3. CASE ~(i = Len(stmts) /\ o = e)
      <4>1. o \in Rest(e)[i]
        BY <1>1, <3>1, <3>3, OthersOwed
      <4> QED
        BY <1>3, <1>8, <3>1, <4>1 DEF Owed
    <3> QED
      BY <3>2, <3>3
  <2> QED
    BY <1>3, <1>9, <2>1, <2>2 DEF Covered
(* A declaration that was just made is open, with all its members.         *)
<1>10. CASE n \notin tree
  <2>1. n = node /\ e.type \in Contexts /\ YieldContext(e)
    <3>1. n = node
      BY <1>2, <1>10 DEF YieldTypedef, YieldDecl, YieldContext
    <3>2. e.type \in Contexts
      BY <1>4, <3>1, LastOf
    <3> QED
      BY <1>2, <3>1, <3>2
        DEF YieldTypedef, YieldDecl, Contexts, Records
  <2>2. /\ nested_decls' = Append(nested_decls, node)
        /\ stmts' = Append(Rest(e), Fetch(db, node, names))
    BY <2>1 DEF YieldContext, Recurse, Raise
  <2>3. names = Names(node)
    BY <1>1, <1>3, <1>4, StackParts, PathGrows
  <2>4. Fetch(db, node, names) \in SUBSET Entry
    BY <1>1, FetchTyped DEF TypeOK
  <2> HIDE DEF node, names
  <2>5. /\ nested_decls'[Len(This) + 1] = node
        /\ Len(stmts') = Len(This) + 1
        /\ stmts'[Len(This) + 1] = Fetch(db, node, names)
    BY <1>4, <1>5, <1>6, <1>7, <2>2, <2>4, AppendProperties
  <2>6. Len(This) + 1 \in 1..Len(stmts')
    BY <1>4, <2>5
  <2> QED
    BY <1>3, <2>1, <2>3, <2>5, <2>6 DEF Owed
<1> QED
  BY <1>9, <1>10

LEMMA StepCovers == BuilderInv /\ BuilderInv' /\ Covered /\ [Next]_vars => Covered'
<1> SUFFICES ASSUME BuilderInv, BuilderInv', Covered, [Next]_vars, ~failed', ~cut'
             PROVE  Covered'
  BY DEF Covered
<1>1. TypeOK /\ Depth /\ StackIsPath /\ Open
  BY DEF BuilderInv
<1>2. CASE Build
  <2>1. /\ nested_decls' = Append(nested_decls, Root)
        /\ str_stack' = Append(str_stack, << >>)
        /\ stmts' = Append(<< >>, Fetch(db, Root, Append(str_stack, << >>)))
        /\ phase' = "building" /\ ~failed /\ phase # "building"
        /\ tree' = {Root} /\ db' = db
    BY <1>2 DEF Build, Recurse, Raise
  <2>2. nested_decls = << >> /\ str_stack = << >>
    BY <1>1, <2>1 DEF StackIsPath
  <2>3. str_stack' = Names(Root)
    BY <2>1, <2>2, PathOfRoot
  <2> DEFINE rows == Fetch(db, Root, Append(str_stack, << >>))
  <2>4. rows = Fetch(db, Root, Names(Root)) /\ stmts' = Append(<< >>, rows)
    BY <2>1, <2>3
  <2> HIDE DEF rows
  <2>5. Len(stmts') = 1 /\ stmts'[1] = rows /\ nested_decls'[1] = Root
    BY <2>1, <2>2, <2>4
  <2> QED
    BY <2>1, <2>4, <2>5 DEF Covered, Owed
<1>3. CASE Yield
  BY <1>3, YieldCovers DEF Yield
<1>4. CASE StepFails
  BY <1>4 DEF StepFails
<1>5. CASE Return
  <2>1. /\ nested_decls' = Outer(nested_decls) /\ stmts' = Outer(stmts)
        /\ phase = "building" /\ Rows = {}
        /\ phase' = IF Len(stmts) = 1 THEN "done" ELSE "building"
        /\ UNCHANGED << db, tree, cut, failed >>
    BY <1>5 DEF Return
  <2> SUFFICES ASSUME NEW n \in tree, Type(n) \in Contexts,
                      NEW o \in Fetch(db, n, Names(n)), o.type # "typedef",
                      Append(n, o) \notin tree
               PROVE  Owed(n, o)'
    BY <2>1 DEF Covered
  <2>2. PICK i \in 1..Len(stmts) : nested_decls[i] = n /\ o \in stmts[i]
    BY <2>1 DEF Covered, Owed
  <2>3. i # Len(stmts)
    BY <2>1, <2>2 DEF Rows
  <2>4. /\ Len(stmts) \in Nat \ {0} /\ Len(nested_decls) \in Nat \ {0}
        /\ Len(stmts) = Len(nested_decls)
    BY <1>1, <2>1, StackParts, TopTyped
  <2>5. i \in 1..(Len(stmts) - 1) /\ Len(stmts) # 1
    BY <2>2, <2>3, <2>4
  <2>6. /\ Len(stmts') = Len(stmts) - 1
        /\ \A j \in 1..(Len(stmts) - 1) : stmts'[j] = stmts[j]
    BY <1>1, <2>1, <2>4, OuterOf DEF TypeOK
  <2>7. \A j \in 1..(Len(nested_decls) - 1) : nested_decls'[j] = nested_decls[j]
    <3>1. nested_decls \in Seq(Seq(Entry)) /\ Len(nested_decls) > 0
      BY <1>1, <2>4 DEF TypeOK
    <3>2. \A j \in 1..(Len(nested_decls) - 1) : Outer(nested_decls)[j] = nested_decls[j]
      BY <3>1, OuterOf
    <3> QED
      BY <2>1, <3>2
  <2>8. /\ i \in 1..Len(stmts') /\ stmts'[i] = stmts[i]
        /\ nested_decls'[i] = nested_decls[i] /\ phase' = "building"
    BY <2>1, <2>4, <2>5, <2>6, <2>7
  <2> QED
    BY <2>2, <2>8 DEF Owed
<1>6. CASE UNCHANGED vars
  BY <1>6 DEF vars, Covered, Owed
<1> QED
  BY <1>2, <1>3, <1>4, <1>5, <1>6 DEF Next

(* A build that met no error has every declaration that the tables have    *)
(* below the unit, whatever the tables hold and however deep they nest.    *)
THEOREM TreeIsWhole == Spec => []TreeIsComplete
<1>1. Init => Covered
  BY DEF Init, Covered
<1>2. Covered => TreeIsComplete
  BY DEF Covered, Owed, TreeIsComplete
<1> QED
  BY <1>1, <1>2, InitInv, StepInv, StepCovers, PTL DEF Spec

-----------------------------------------------------------------------------
(* What a mangled name resolves to. *)

(* All the declarations around one of the tree are in the tree, and they   *)
(* are contexts: resolve_record_type looks at no others.                   *)
Lineage(node, decls) ==
  /\ node \in Seq(Entry) /\ Len(node) > 0 /\ node[1] = Unit
  /\ \A i \in 1..(Len(node) - 1) : Prefix(node, i) \in decls /\ node[i].type \in Contexts

Descends ==
  ~failed =>
    /\ \A n \in tree : Lineage(n, tree)
    /\ phase = "building" => Type(This) \in Contexts

LEMMA PrefixOfMore ==
  ASSUME NEW node \in Seq(Entry), NEW e \in Entry
  PROVE  /\ Len(Append(node, e)) = Len(node) + 1 /\ Len(node) \in Nat
         /\ \A i \in 1..Len(node) : /\ Append(node, e)[i] = node[i]
                                    /\ Prefix(Append(node, e), i) = Prefix(node, i)
         /\ Prefix(node, Len(node)) = node
<1>1. Len(Append(node, e)) = Len(node) + 1 /\ Len(node) \in Nat
  BY AppendProperties, LenProperties
<1>2. \A i \in 1..Len(node) : Append(node, e)[i] = node[i]
  BY AppendProperties
<1>3. ASSUME NEW i \in 1..Len(node) PROVE Prefix(Append(node, e), i) = Prefix(node, i)
  <2>1. \A j \in 1..i : Append(node, e)[j] = node[j]
    BY <1>1, <1>2
  <2> QED
    BY <2>1 DEF Prefix
<1>4. Prefix(node, Len(node)) = node
  <2>1. node \in [1..Len(node) -> Entry]
    BY LenProperties
  <2> QED
    BY <2>1 DEF Prefix
<1> QED
  BY <1>1, <1>2, <1>3, <1>4

LEMMA LineageGrows ==
  ASSUME NEW node, NEW decls, Lineage(node, decls), node \in decls,
         Type(node) \in Contexts, NEW e \in Entry
  PROVE  Lineage(Append(node, e), decls)
<1>1. node \in Seq(Entry) /\ Len(node) > 0 /\ node[1] = Unit
  BY DEF Lineage
<1>2. PICK m : m = Append(node, e)
  OBVIOUS
<1>3. /\ Len(m) = Len(node) + 1 /\ Len(node) \in Nat
      /\ \A i \in 1..Len(node) : m[i] = node[i] /\ Prefix(m, i) = Prefix(node, i)
      /\ Prefix(node, Len(node)) = node
  BY <1>1, <1>2, PrefixOfMore
<1>4. m \in Seq(Entry)
  BY <1>1, <1>2, AppendProperties
<1>5. ASSUME NEW i \in 1..Len(node)
      PROVE  Prefix(m, i) \in decls /\ m[i].type \in Contexts
  <2>1. CASE i = Len(node)
    BY <1>3, <2>1 DEF Type
  <2>2. CASE i # Len(node)
    <3>1. i \in 1..(Len(node) - 1)
      BY <1>3, <2>2
    <3> QED
      BY <1>3, <3>1 DEF Lineage
  <2> QED
    BY <2>1, <2>2
<1>6. 1 \in 1..Len(node) /\ Len(m) - 1 = Len(node)
  BY <1>1, <1>3
<1>7. Lineage(m, decls)
  BY <1>1, <1>3, <1>4, <1>5, <1>6 DEF Lineage
<1> QED
  BY <1>2, <1>7

LEMMA StepDescends == BuilderInv /\ Descends /\ [Next]_vars => Descends'
<1> SUFFICES ASSUME BuilderInv, Descends, [Next]_vars, ~failed' PROVE Descends'
  BY DEF Descends
<1>1. TypeOK /\ Depth /\ StackIsPath /\ Open
  BY DEF BuilderInv
<1>2. \A n, S, T : S \subseteq T /\ Lineage(n, S) => Lineage(n, T)
  BY DEF Lineage
<1>3. CASE Build
  <2>1. /\ nested_decls' = Append(nested_decls, Root) /\ ~failed /\ phase # "building"
        /\ tree' = {Root}
    BY <1>3 DEF Build, Recurse, Raise
  <2>2. This' = Root
    <3>1. nested_decls = << >>
      BY <1>1, <2>1 DEF StackIsPath
    <3> QED
      BY <2>1, <3>1 DEF This
  <2>3. Lineage(Root, {Root})
    BY RootIsNode DEF Lineage
  <2>4. Type(Root) \in Contexts
    BY RootIsNode DEF Type, Unit, Contexts
  <2> QED
    BY <2>1, <2>2, <2>3, <2>4 DEF Descends
<1>4. CASE Yield
  <2>1. PICK e \in Rows : \/ YieldTypedef(e) \/ YieldDecl(e) \/ YieldContext(e)
                          \/ YieldRaises(e) \/ AssertFails(e)
    BY <1>4 DEF Yield
  <2>2. phase = "building" /\ e \in Entry
    BY <1>1, <1>4, TopTyped DEF Yield
  <2>3. ~failed
    BY <2>1 DEF YieldTypedef, YieldDecl, YieldContext, YieldRaises, AssertFails, Recurse, Raise
  <2>4. This \in tree /\ This \in Seq(Entry) /\ Lineage(This, tree) /\ Type(This) \in Contexts
    BY <1>1, <2>2, <2>3, TopOpen, TopTyped DEF Descends
  <2>5. Lineage(Append(This, e), tree)
    BY <2>2, <2>4, LineageGrows
  <2>6. \A n \in tree \cup {Append(This, e)} : Lineage(n, tree \cup {Append(This, e)})
    <3>1. PICK m : m = Append(This, e)
      OBVIOUS
    <3>2. \A n \in tree \cup {m} : Lineage(n, tree)
      BY <2>3, <2>5, <3>1 DEF Descends
    <3>3. \A n \in tree \cup {m} : Lineage(n, tree \cup {m})
      BY <1>2, <3>2
    <3> QED
      BY <3>1, <3>3
  <2>7. CASE YieldTypedef(e)
    BY <2>2, <2>3, <2>4, <2>7 DEF YieldTypedef, Descends, This
  <2>8. CASE YieldDecl(e)
    <3>1. tree' = tree \cup {Append(This, e)} /\ nested_decls' = nested_decls
      BY <2>8 DEF YieldDecl
    <3>2. \A n \in tree' : Lineage(n, tree')
      BY <2>6, <3>1
    <3> QED
      BY <2>4, <3>1, <3>2 DEF Descends, This
  <2>9. CASE YieldContext(e)
    <3>1. tree' = tree \cup {Append(This, e)} /\ e.type \in Contexts
          /\ nested_decls' = Append(nested_decls, Append(This, e))
      BY <2>9 DEF YieldContext, Recurse
    <3>2. \A n \in tree' : Lineage(n, tree')
      BY <2>6, <3>1
    <3>3. This' = Append(This, e)
      <4>1. nested_decls \in Seq(Seq(Entry)) /\ Append(This, e) \in Seq(Entry)
        BY <1>1, <2>2, <2>4, AppendProperties DEF TypeOK
      <4>2. /\ Len(Append(nested_decls, Append(This, e))) = Len(nested_decls) + 1
            /\ Append(nested_decls, Append(This, e))[Len(nested_decls) + 1] = Append(This, e)
        BY <4>1, AppendProperties
      <4> QED
        BY <3>1, <4>2 DEF This
    <3>4. Type(Append(This, e)) = e.type
      BY <2>2, <2>4, LastOf
    <3> QED
      BY <3>1, <3>2, <3>3, <3>4 DEF Descends, Type
  <2>10. CASE YieldRaises(e) \/ AssertFails(e)
    BY <2>10 DEF YieldRaises, AssertFails, Raise
  <2> QED
    BY <2>1, <2>7, <2>8, <2>9, <2>10
<1>5. CASE StepFails
  BY <1>5 DEF StepFails, Descends, This
<1>6. CASE Return
  <2>1. /\ nested_decls' = Outer(nested_decls) /\ phase = "building"
        /\ phase' = IF Len(stmts) = 1 THEN "done" ELSE "building"
        /\ UNCHANGED << tree, failed >>
    BY <1>6 DEF Return
  <2> SUFFICES ASSUME phase' = "building" PROVE Type(This)' \in Contexts
    BY <2>1 DEF Descends
  <2>2. /\ nested_decls = PathOf(This) /\ Len(stmts) = Len(This)
        /\ This \in Seq(Entry) /\ Len(This) \in Nat \ {0, 1} /\ This \in tree
    BY <1>1, <2>1, StackParts, TopOpen
  <2>3. PICK up : up = Prefix(This, Len(This) - 1)
    OBVIOUS
  <2>4. /\ up \in Seq(Entry) /\ Len(up) = Len(This) - 1
        /\ nested_decls' = PathOf(up)
    <3>1. Len(This) > 1
      BY <2>2
    <3> QED
      BY <2>1, <2>2, <2>3, <3>1, PathShrinks
  <2>5. Len(up) \in Nat \ {0} /\ Len(PathOf(up)) = Len(up)
        /\ PathOf(up)[Len(up)] = Prefix(up, Len(up))
    BY <2>2, <2>4 DEF PathOf
  <2>6. This' = up
    <3>1. up \in [1..Len(up) -> Entry]
      BY <2>4, LenProperties
    <3>2. Prefix(up, Len(up)) = up
      BY <3>1 DEF Prefix
    <3> QED
      BY <2>4, <2>5, <3>2 DEF This
  <2>7. up[Len(up)] = This[Len(This) - 1] /\ Len(This) - 1 \in 1..(Len(This) - 1)
    <3>1. Len(This) - 1 \in 1..(Len(This) - 1)
      BY <2>2
    <3> QED
      BY <2>3, <2>4, <3>1 DEF Prefix
  <2>8. This[Len(This) - 1].type \in Contexts
    BY <2>1, <2>2, <2>7 DEF Descends, Lineage
  <2> QED
    BY <2>6, <2>7, <2>8 DEF Type
<1>7. CASE UNCHANGED vars
  BY <1>7 DEF vars, Descends, This
<1> QED
  BY <1>3, <1>4, <1>5, <1>6, <1>7 DEF Next

(* The tokens of a name of which every member behind the unit is one.      *)
FlattenAt(f, s, i) == IF i = 1 THEN s[i] ELSE f[i - 1] \o s[i]

LEMMA FlattenOnes ==
  ASSUME NEW n \in Nat \ {0}, NEW t \in Seq(Token), Len(t) = n - 1,
         NEW s, Len(s) = n, s[1] = << >>, \A i \in 2..n : s[i] = << t[i - 1] >>
  PROVE  FlattenSeq(s) = t
<1> DEFINE First(i) == [j \in 1..(i - 1) |-> t[j]]
           h == [i \in 1..n |-> First(i)]
<1>1. ASSUME NEW i \in 2..n
      PROVE  First(i - 1) \o << t[i - 1] >> = First(i)
  <2>1. PICK k \in Nat : k = i - 1
    OBVIOUS
  <2>2. PICK x, q : x = t[k] /\ q = First(k)
    OBVIOUS
  <2>3. k \in 1..(n - 1) /\ x \in Token /\ \A j \in 1..k : t[j] \in Token
    BY <2>1, <2>2
  <2>4. q = [j \in 1..(k - 1) |-> t[j]] /\ First(i) = [j \in 1..k |-> t[j]]
    BY <2>1, <2>2
  <2>5. q \in Seq(Token) /\ Len(q) = k - 1 /\ << x >> \in Seq(Token) /\ Len(<< x >>) = 1
        /\ << x >>[1] = x
    BY <2>3, <2>4
  <2> HIDE DEF First
  <2>6. /\ q \o << x >> \in Seq(Token) /\ Len(q \o << x >>) = k - 1 + 1
        /\ \A j \in 1..(k - 1 + 1) :
             (q \o << x >>)[j] = IF j <= k - 1 THEN q[j] ELSE << x >>[j - (k - 1)]
    BY <2>5, ConcatProperties
  <2>7. ASSUME NEW j \in 1..k PROVE (q \o << x >>)[j] = t[j]
    <3>1. CASE j = k
      <4>1. ~(j <= k - 1) /\ j - (k - 1) = 1 /\ k - 1 + 1 = k
        BY <2>3, <3>1
      <4> QED
        BY <2>2, <2>5, <2>6, <3>1, <4>1
    <3>2. CASE j # k
      <4>1. j <= k - 1 /\ j \in 1..(k - 1) /\ k - 1 + 1 = k
        BY <2>3, <3>2
      <4>2. q[j] = t[j]
        BY <2>4, <4>1
      <4>3. (q \o << x >>)[j] = q[j]
        <5>1. j \in 1..(k - 1 + 1)
          BY <4>1
        <5> QED
          BY <2>6, <4>1, <5>1
      <4> QED
        BY <4>2, <4>3
    <3> QED
      BY <3>1, <3>2
  <2>8. q \o << x >> = [j \in 1..k |-> t[j]]
    <3>1. PICK p : p = q \o << x >>
      OBVIOUS
    <3>2. p \in Seq(Token) /\ Len(p) = k /\ \A j \in 1..k : p[j] = t[j]
      BY <2>3, <2>6, <2>7, <3>1
    <3>3. p = [j \in 1..k |-> t[j]]
      <4>1. p \in [1..k -> Token]
        BY <3>2, LenProperties
      <4> HIDE <3>1
      <4> QED
        BY <3>2, <4>1
    <3> QED
      BY <3>1, <3>3
  <2> QED
    BY <2>1, <2>2, <2>4, <2>8
<1>2. First(1) = << >> /\ First(n) = t
  <2>1. t \in [1..(n - 1) -> Token]
    BY LenProperties
  <2> QED
    BY <2>1
<1> HIDE DEF First
<1>3. h = [i \in 1..n |-> FlattenAt(h, s, i)]
  <2>1. ASSUME NEW i \in 1..n PROVE First(i) = FlattenAt(h, s, i)
    <3>1. CASE i = 1
      BY <1>2, <3>1 DEF FlattenAt
    <3>2. CASE i # 1
      <4>1. i \in 2..n /\ i - 1 \in 1..n
        BY <3>2
      <4>2. h[i - 1] = First(i - 1)
        BY <4>1
      <4> QED
        BY <1>1, <3>2, <4>1, <4>2 DEF FlattenAt
    <3> QED
      BY <3>1, <3>2
  <2> QED
    BY <2>1
<1> HIDE DEF h
<1>4. PICK c : c = CHOOSE f : f = [i \in 1..n |-> FlattenAt(f, s, i)]
  OBVIOUS
<1>5. c = [i \in 1..n |-> FlattenAt(c, s, i)]
  BY <1>3, <1>4, Zenon
<1>6. \A i \in 1..n : c[i] = FlattenAt(c, s, i)
  <2>1. \A i \in 1..n : [j \in 1..n |-> FlattenAt(c, s, j)][i] = FlattenAt(c, s, i)
    OBVIOUS
  <2> QED
    BY <1>5, <2>1, Zenon
<1>7. FlattenSeq(s) = c[n]
  BY <1>4 DEF FlattenSeq, FlattenAt
<1>8. c[n] = First(n)
  <2> DEFINE S == {k \in Nat : k + 1 \in 1..n => c[k + 1] = First(k + 1)}
  <2>1. 0 \in S
    <3>1. 0 + 1 = 1 /\ 1 \in 1..n
      OBVIOUS
    <3> QED
      BY <1>2, <1>6, <3>1 DEF FlattenAt
  <2>2. ASSUME NEW k \in Nat, k \in S PROVE k + 1 \in S
    <3>1. CASE k + 1 + 1 \in 1..n
      <4>1. PICK i \in 2..n : i = k + 1 + 1
        BY <3>1
      <4>2. i - 1 = k + 1 /\ i - 1 \in 1..n /\ i \in 1..n /\ i # 1
        BY <4>1
      <4>3. c[i - 1] = First(i - 1)
        BY <2>2, <4>2
      <4>4. c[i] = First(i)
        BY <1>1, <1>6, <4>2, <4>3 DEF FlattenAt
      <4> QED
        BY <4>1, <4>4
    <3>2. CASE k + 1 + 1 \notin 1..n
      BY <3>2
    <3> QED
      BY <3>1, <3>2
  <2>3. Nat \subseteq S
    <3> HIDE DEF S
    <3> QED
      BY <2>1, <2>2, InductionOnNat
  <2>4. n - 1 \in S /\ n - 1 + 1 = n
    BY <2>3
  <2> QED
    BY <2>4
<1> QED
  BY <1>2, <1>7, <1>8

LEMMA MembersAreTokens ==
  ASSUME NEW node \in Seq(Entry), NEW i \in 1..Len(node)
  PROVE  node[i].member \in Seq(Token)
<1>1. node[i] \in Entry
  BY ElementOfSeq
<1> QED
  BY <1>1 DEF Entry, Text

(* A name of which only the last member may be Zero, and all have one      *)
(* token.                                                                  *)
Plain(node) ==
  /\ \A i \in 2..Len(node) : Len(node[i].member) = 1
  /\ \A i \in 2..(Len(node) - 1) : node[i].member # << Zero >>

LEMMA TokensOfPlain ==
  ASSUME NEW node, NEW decls, Lineage(node, decls), Plain(node)
  PROVE  Tokens(node) = [j \in 1..(Len(node) - 1) |-> NameOf(Prefix(node, j + 1))]
<1>1. node \in Seq(Entry) /\ Len(node) > 0 /\ node[1] = Unit
  BY DEF Lineage
<1>2. PICK n \in Nat \ {0} : n = Len(node)
  BY <1>1, LenProperties
<1>3. PICK s : s = [i \in 1..n |->
                      IF node[i].member = << Zero >> /\ i < n THEN << >> ELSE node[i].member]
  OBVIOUS
<1>4. PICK t : t = [j \in 1..(n - 1) |-> node[j + 1].member[1]]
  OBVIOUS
<1>5. ASSUME NEW i \in 2..n
      PROVE  node[i].member = << node[i].member[1] >> /\ node[i].member[1] \in Token
  <2>1. PICK m : m = node[i].member
    OBVIOUS
  <2>2. m \in Seq(Token) /\ Len(m) = 1
    <3>1. i \in 1..Len(node) /\ i \in 2..Len(node)
      BY <1>2
    <3> QED
      BY <1>1, <2>1, <3>1, MembersAreTokens DEF Plain
  <2>3. m = << m[1] >> /\ m[1] \in Token
    <3>1. m \in [1..1 -> Token]
      BY <2>2, LenProperties
    <3>2. m = [j \in 1..1 |-> m[1]]
      BY <3>1
    <3>3. [j \in 1..1 |-> m[1]] = << m[1] >>
      OBVIOUS
    <3> QED
      BY <3>1, <3>2, <3>3
  <2> QED
    BY <2>1, <2>3
<1>6. t \in Seq(Token) /\ Len(t) = n - 1
  <2>1. \A j \in 1..(n - 1) : j + 1 \in 2..n
    OBVIOUS
  <2>2. t \in [1..(n - 1) -> Token]
    BY <1>4, <1>5, <2>1
  <2> QED
    BY <1>4, <2>2
<1>7. s[1] = << >>
  <2>1. node[1].member = << >>
    BY <1>1 DEF Unit
  <2>2. << >> # << Zero >>
    OBVIOUS
  <2>3. 1 \in 1..n
    OBVIOUS
  <2> QED
    BY <1>3, <2>1, <2>3
<1>8. ASSUME NEW i \in 2..n PROVE s[i] = << t[i - 1] >>
  <2>1. i - 1 \in 1..(n - 1) /\ i - 1 + 1 = i /\ i \in 1..n
    OBVIOUS
  <2>2. t[i - 1] = node[i].member[1]
    BY <1>4, <2>1
  <2>3. i < n => node[i].member # << Zero >>
    <3>1. i < n => i \in 2..(n - 1)
      OBVIOUS
    <3> QED
      BY <1>2, <3>1 DEF Plain
  <2>4. s[i] = node[i].member
    BY <1>3, <2>1, <2>3
  <2> QED
    BY <1>5, <2>2, <2>4
<1>9. Tokens(node) = FlattenSeq(s)
  BY <1>2, <1>3 DEF Tokens
<1>10. Tokens(node) = t
  <2>1. Len(s) = n
    BY <1>3
  <2> QED
    BY <1>6, <1>7, <1>8, <1>9, <2>1, FlattenOnes
<1>11. ASSUME NEW j \in 1..(n - 1) PROVE NameOf(Prefix(node, j + 1)) = node[j + 1].member[1]
  <2>1. PICK k \in 1..n : k = j + 1
    OBVIOUS
  <2>2. Len(Prefix(node, k)) = k /\ Prefix(node, k)[k] = node[k]
    BY DEF Prefix
  <2> QED
    BY <2>1, <2>2 DEF NameOf, Last
<1>12. t = [j \in 1..(n - 1) |-> NameOf(Prefix(node, j + 1))]
  BY <1>4, <1>11
<1> QED
  BY <1>2, <1>10, <1>12

(* From one declaration of the path, the next token leads to the next one. *)
LEMMA OneFurther ==
  ASSUME TypeOK, NEW node \in tree, Lineage(node, tree), Alone(node), Type(node) \in Contexts,
         NEW i \in 1..(Len(node) - 1)
  PROVE  ResolveStep(Prefix(node, i), NameOf(Prefix(node, i + 1))) = {Prefix(node, i + 1)}
<1>1. node \in Seq(Entry) /\ Len(node) \in Nat \ {0}
  BY LenProperties DEF Lineage
<1>2. PICK up, down : up = Prefix(node, i) /\ down = Prefix(node, i + 1)
  OBVIOUS
<1>3. i \in Nat /\ i + 1 \in 1..Len(node) /\ i + 1 \in 2..Len(node) /\ i + 1 - 1 = i
  BY <1>1
<1>4. /\ Len(up) = i /\ Len(down) = i + 1
      /\ down[i + 1] = node[i + 1] /\ down \in Seq(Entry)
  BY <1>1, <1>2, <1>3 DEF Prefix
<1>5. Outer(down) = up
  <2>1. \A j \in 1..i : down[j] = node[j]
    BY <1>2, <1>3 DEF Prefix
  <2>2. /\ Outer(down) \in Seq(Entry) /\ Len(Outer(down)) = i
        /\ \A j \in 1..i : Outer(down)[j] = down[j]
    <3>1. Len(down) > 0 /\ Len(down) - 1 = i
      BY <1>3, <1>4
    <3> QED
      BY <1>4, <3>1, OuterOf
  <2>3. Outer(down) = [j \in 1..i |-> node[j]]
    <3>1. Outer(down) \in [1..i -> Entry]
      BY <2>2, LenProperties
    <3> QED
      BY <2>1, <2>2, <3>1
  <2> QED
    BY <1>2, <2>3 DEF Prefix
<1>6. down \in tree /\ node[i + 1].type \in Contexts
  <2>1. CASE i + 1 = Len(node)
    <3>1. node \in [1..Len(node) -> Entry]
      BY <1>1, LenProperties
    <3>2. down = node
      BY <1>2, <2>1, <3>1 DEF Prefix
    <3> QED
      BY <2>1, <3>2 DEF Type
  <2>2. CASE i + 1 # Len(node)
    <3>1. i + 1 \in 1..(Len(node) - 1)
      BY <1>3, <2>2
    <3> QED
      BY <1>2, <3>1 DEF Lineage
  <2> QED
    BY <2>1, <2>2
<1>7. Type(down) \in Contexts
  BY <1>4, <1>6 DEF Type
<1>8. down \in ResolveStep(up, NameOf(down))
  BY <1>4, <1>5, <1>6, <1>7 DEF ResolveStep, Children
<1>9. ASSUME NEW c \in ResolveStep(up, NameOf(down)) PROVE c = down
  BY <1>2, <1>3, <1>9 DEF ResolveStep, Alone
<1> QED
  BY <1>2, <1>8, <1>9

(* One token more.                                                         *)
ResolveAt(f, tokens, i) ==
  IF i = 0 THEN {Root}
  ELSE UNION {IF node = NoDecl \/ ResolveStep(node, tokens[i]) = {} THEN {NoDecl}
              ELSE ResolveStep(node, tokens[i]) : node \in f[i - 1]}

LEMMA ResolveAlong ==
  ASSUME TypeOK, NEW node \in tree, Lineage(node, tree), Alone(node), Type(node) \in Contexts,
         NEW t, t = [j \in 1..(Len(node) - 1) |-> NameOf(Prefix(node, j + 1))]
  PROVE  Resolve(t) = {node}
<1>1. node \in Seq(Entry) /\ Len(node) \in Nat \ {0} /\ node[1] = Unit
  BY LenProperties DEF Lineage
<1>2. PICK n \in Nat : n = Len(node) - 1
  BY <1>1
<1>3. Len(t) = n /\ \A j \in 1..n : t[j] = NameOf(Prefix(node, j + 1))
  BY <1>2
<1> DEFINE There(i) == {Prefix(node, i + 1)}
           h == [i \in 0..n |-> There(i)]
<1>4. There(0) = {Root} /\ There(n) = {node}
  <2>1. node \in [1..Len(node) -> Entry] /\ 0 + 1 = 1 /\ n + 1 = Len(node)
    BY <1>1, <1>2, LenProperties
  <2>2. Prefix(node, Len(node)) = node
    BY <2>1 DEF Prefix
  <2>3. Prefix(node, 1) = << Unit >>
    BY <1>1 DEF Prefix
  <2> QED
    BY <2>1, <2>2, <2>3 DEF Root
<1>5. ASSUME NEW i \in 1..n, NEW f, f[i - 1] = There(i - 1)
      PROVE  ResolveAt(f, t, i) = There(i)
  <2>1. i - 1 + 1 = i /\ i \in 1..(Len(node) - 1)
    BY <1>1, <1>2
  <2>2. PICK up, down : up = Prefix(node, i) /\ down = Prefix(node, i + 1)
    OBVIOUS
  <2>3. ResolveStep(up, t[i]) = {down}
    BY <1>3, <2>1, <2>2, OneFurther
  <2>4. up # NoDecl
    <3>1. Len(up) = i /\ i # 0
      BY <2>1, <2>2 DEF Prefix
    <3>2. Len(NoDecl) = 0
      BY EmptySeq DEF NoDecl
    <3> QED
      BY <3>1, <3>2
  <2>5. f[i - 1] = {up} /\ There(i) = {down}
    BY <1>5, <2>1, <2>2
  <2>6. i # 0
    OBVIOUS
  <2> HIDE DEF There
  <2>7. ResolveAt(f, t, i) = UNION {{down} : x \in {up}}
    BY <2>3, <2>4, <2>5, <2>6 DEF ResolveAt
  <2> QED
    BY <2>5, <2>7
<1> HIDE DEF There
<1>6. h = [i \in 0..n |-> ResolveAt(h, t, i)]
  <2>1. ASSUME NEW i \in 0..n PROVE There(i) = ResolveAt(h, t, i)
    <3>1. CASE i = 0
      BY <1>4, <3>1 DEF ResolveAt
    <3>2. CASE i # 0
      <4>1. i \in 1..n /\ i - 1 \in 0..n
        BY <3>2
      <4>2. h[i - 1] = There(i - 1)
        BY <4>1
      <4> HIDE DEF h
      <4> QED
        BY <1>5, <4>1, <4>2
    <3> QED
      BY <3>1, <3>2
  <2> QED
    BY <2>1
<1> HIDE DEF h
<1>7. PICK c : c = CHOOSE f : f = [i \in 0..n |-> ResolveAt(f, t, i)]
  OBVIOUS
<1>8. c = [i \in 0..n |-> ResolveAt(c, t, i)]
  BY <1>6, <1>7, Zenon
<1>9. \A i \in 0..n : c[i] = ResolveAt(c, t, i)
  <2>1. \A i \in 0..n : [j \in 0..n |-> ResolveAt(c, t, j)][i] = ResolveAt(c, t, i)
    OBVIOUS
  <2> QED
    BY <1>8, <2>1, Zenon
<1>10. Resolve(t) = c[n]
  BY <1>3, <1>7 DEF Resolve, ResolveAt
<1>11. c[n] = There(n)
  <2> DEFINE S == {k \in Nat : k \in 0..n => c[k] = There(k)}
  <2>1. 0 \in S
    <3>1. 0 \in 0..n
      OBVIOUS
    <3> QED
      BY <1>4, <1>9, <3>1 DEF ResolveAt
  <2>2. ASSUME NEW k \in Nat, k \in S PROVE k + 1 \in S
    <3> SUFFICES ASSUME k + 1 \in 0..n PROVE c[k + 1] = There(k + 1)
      OBVIOUS
    <3>1. PICK i \in 1..n : i = k + 1
      OBVIOUS
    <3>2. i - 1 = k /\ k \in 0..n
      BY <3>1
    <3>3. c[i - 1] = There(i - 1)
      BY <2>2, <3>2
    <3>4. c[i] = There(i)
      <4>1. i \in 0..n
        OBVIOUS
      <4> HIDE DEF S
      <4>2. c[i] = ResolveAt(c, t, i)
        BY <1>9, <4>1
      <4> QED
        BY <1>5, <3>3, <4>2
    <3> QED
      BY <3>1, <3>4
  <2>3. Nat \subseteq S
    <3> HIDE DEF S
    <3> QED
      BY <2>1, <2>2, InductionOnNat
  <2>4. n \in S /\ n \in 0..n
    BY <2>3
  <2> QED
    BY <2>4
<1> QED
  BY <1>4, <1>10, <1>11

(* Whatever else the tables hold: a record whose name, at each level, no   *)
(* other context has, that has no template arguments and is in nothing     *)
(* without a name, is the one that its mangled name resolves to.           *)
THEOREM RecordsAreFound == Spec => []ResolveFinds
<1>1. Init => Descends
  BY DEF Init, Descends
<1>2. TypeOK /\ Descends => ResolveFinds
  <2> SUFFICES ASSUME TypeOK, Descends, ~failed,
                      NEW n \in tree, Type(n) \in Records, Alone(n),
                      \A i \in 2..Len(n) : Len(n[i].member) = 1,
                      \A i \in 2..(Len(n) - 1) : n[i].member # << Zero >>
               PROVE  Resolve(Tokens(n)) = {n}
    BY DEF ResolveFinds
  <2>1. Lineage(n, tree) /\ Type(n) \in Contexts /\ Plain(n)
    BY DEF Descends, Contexts, Plain
  <2>2. PICK t : t = Tokens(n)
    OBVIOUS
  <2>3. t = [j \in 1..(Len(n) - 1) |-> NameOf(Prefix(n, j + 1))]
    BY <2>1, <2>2, TokensOfPlain
  <2> QED
    BY <2>1, <2>2, <2>3, ResolveAlong
<1>3. BuilderInv => TypeOK
  BY DEF BuilderInv
<1> QED
  BY <1>1, <1>2, <1>3, InitInv, StepInv, StepDescends, PTL DEF Spec
=============================================================================
