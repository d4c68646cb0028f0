------------------------------- MODULE Builder -------------------------------
(***************************************************************************)
(* The declaration tree, rebuilt from the tables: class Builder            *)
(* (clang_db/builder.py), and the lookup of a record in that tree,         *)
(* resolve_record_type.                                                    *)
(*                                                                         *)
(* _build_recurse runs one statement for a declaration, for the members of *)
(* the name it has joined from str_stack, and recurses from within the     *)
(* loop over its rows: the statements of all activations are open at once, *)
(* stmts.  One action is one row, or the return of an activation.          *)
(*                                                                         *)
(* A node of the tree is the sequence of rows that leads to it; the first  *)
(* stands for the translation unit.  The text of a type is reduced to what *)
(* yield_decl makes of it.  SQLite is external: rows come in any order, a  *)
(* statement may fail to be prepared, and step may return an error.        *)
(***************************************************************************)
EXTENDS Naturals, Sequences, FiniteSets, SequencesExt

CONSTANTS
  Token,      \* what a member is made of: identifiers, arguments
  Zero,       \* the identifier of what has no name
  Databases,  \* the contents of the two tables
  Faults,     \* what may fail: "prepare" and bind, "parse", "step"
  MaxStale    \* bound on what failed builds have left on the stacks

Text == Seq(Token)

Records  == {"struct", "class", "union", "enum"}
Contexts == {"unit", "namespace"} \cup Records
Types    == Contexts \cup {"enumerator", "function", "field", "typedef"}

Entry == [member: Text, type: Types]
Row   == [name: Text, member: Text, type: Types]

ASSUME FaultAssumption == Faults \subseteq {"prepare", "parse", "step"}
ASSUME DatabaseAssumption ==
  \A d \in Databases :
    /\ d \in [namespace: SUBSET Row, class: SUBSET Row]
    /\ \A r \in d.namespace \cup d.class : r.member # << >> /\ r.type # "unit"
ASSUME StaleAssumption == MaxStale \in Nat

Unit == [member |-> << >>, type |-> "unit"]
Root == << Unit >>

VARIABLES
  db,             \* the tables: the first statement is open, and holds its
                  \* lock, until the build is over
  phase,
  nested_decls,
  str_stack,
  stmts,          \* of each activation, the rows still to come
  tree,           \* the declarations made so far
  cut,            \* has step returned an error in this build
  failed          \* has this Builder ever raised

vars == << db, phase, nested_decls, str_stack, stmts, tree, cut, failed >>

TypeOK ==
  /\ db \in [namespace: SUBSET Row, class: SUBSET Row]
  /\ phase \in {"idle", "building", "done", "raised", "asserted"}
  /\ nested_decls \in Seq(Seq(Entry))
  /\ str_stack \in Seq(Text)
  /\ stmts \in Seq(SUBSET Entry)
  /\ tree \subseteq Seq(Entry)
  /\ cut \in BOOLEAN /\ failed \in BOOLEAN

Init ==
  /\ db \in Databases
  /\ phase = "idle"
  /\ nested_decls = << >> /\ str_stack = << >> /\ stmts = << >>
  /\ tree = {}
  /\ cut = FALSE /\ failed = FALSE

-----------------------------------------------------------------------------
Type(node) == node[Len(node)].type

Joined(names) == FlattenSeq(names)

(* Variant: SELECT *.                                                      *)
FetchAll(d, node, names) ==
  LET table == IF Type(node) \in Records THEN d.class ELSE d.namespace
  IN  {r \in table : r.name = Joined(names)}

(* The table is chosen by the declaration, the name is the joined stack.   *)
Fetch(d, node, names) ==
  LET table == IF Type(node) \in Records THEN d.class ELSE d.namespace
  IN  {[member |-> r.member, type |-> r.type] :
         r \in {r \in table : r.name = Joined(names)}}

(* An exception leaves the stacks as they are: nothing here catches one.   *)
Raise(how) == phase' = how /\ failed' = TRUE /\ stmts' = << >>

(* Variant: the statement is made before the name is pushed.               *)
RecurseTooEarly(node, member, rest) ==
  /\ nested_decls' = Append(nested_decls, node)
  /\ str_stack' = Append(str_stack, member)
  /\ stmts' = Append(rest, Fetch(db, node, str_stack))
  /\ phase' = "building"
  /\ UNCHANGED failed

(* _build_recurse up to its loop; rest are the statements open already.    *)
Recurse(node, member, rest) ==
  LET names == Append(str_stack, member)
  IN  /\ nested_decls' = Append(nested_decls, node)
      /\ str_stack' = names
      /\ \/ /\ stmts' = Append(rest, Fetch(db, node, names))
            /\ phase' = "building"
            /\ UNCHANGED failed
         \/ "prepare" \in Faults /\ Raise("raised")

Build ==
  /\ phase # "building"
  /\ Len(str_stack) <= MaxStale
  /\ tree' = {Root}
  /\ cut' = FALSE
  /\ Recurse(Root, << >>, << >>)
  /\ UNCHANGED db

This == nested_decls[Len(nested_decls)]
Rows == stmts[Len(stmts)]

(* Variant: the statement starts again after a row.                        *)
RestAgain(e) == stmts

Rest(e)  == [stmts EXCEPT ![Len(stmts)] = @ \ {e}]
Outer(s) == SubSeq(s, 1, Len(s) - 1)

(* Variant: a typedef ends the loop.                                       *)
YieldTypedefLast(e) ==
  /\ e.type = "typedef"
  /\ stmts' = [stmts EXCEPT ![Len(stmts)] = {}]
  /\ UNCHANGED << phase, nested_decls, str_stack, tree, failed >>

YieldTypedef(e) ==
  /\ e.type = "typedef"
  /\ stmts' = Rest(e)
  /\ UNCHANGED << phase, nested_decls, str_stack, tree, failed >>

(* Fields, functions, and enumerators, which must be in an enum.           *)
YieldDecl(e) ==
  /\ e.type \in {"field", "function", "enumerator"}
  /\ e.type = "enumerator" => Type(This) = "enum"
  /\ tree' = tree \cup {Append(This, e)}
  /\ stmts' = Rest(e)
  /\ UNCHANGED << phase, nested_decls, str_stack, failed >>

YieldContext(e) ==
  /\ e.type \in Contexts
  /\ tree' = tree \cup {Append(This, e)}
  /\ Recurse(Append(This, e), e.member, Rest(e))

(* The text of a namespace is not parsed.                                  *)
YieldRaises(e) ==
  /\ "parse" \in Faults
  /\ e.type # "namespace"
  /\ Raise("raised")
  /\ UNCHANGED << nested_decls, str_stack, tree >>

AssertFails(e) ==
  /\ e.type = "enumerator" /\ Type(This) # "enum"
  /\ Raise("asserted")
  /\ UNCHANGED << nested_decls, str_stack, tree >>

(* The next row of the innermost loop.                                     *)
Yield ==
  /\ phase = "building"
  /\ \E e \in Rows :
       \/ YieldTypedef(e) \/ YieldDecl(e) \/ YieldContext(e)
       \/ YieldRaises(e) \/ AssertFails(e)
  /\ UNCHANGED << db, cut >>

(* An error of step ends the loop as the last row does.                    *)
StepFails ==
  /\ phase = "building"
  /\ "step" \in Faults
  /\ Rows # {}
  /\ stmts' = [stmts EXCEPT ![Len(stmts)] = {}]
  /\ cut' = TRUE
  /\ UNCHANGED << db, phase, nested_decls, str_stack, tree, failed >>

(* Variant: only the declaration is popped.                                *)
ReturnHalf ==
  /\ phase = "building"
  /\ Rows = {}
  /\ nested_decls' = Outer(nested_decls)
  /\ stmts' = Outer(stmts)
  /\ phase' = IF Len(stmts) = 1 THEN "done" ELSE "building"
  /\ UNCHANGED << db, str_stack, tree, cut, failed >>

Return ==
  /\ phase = "building"
  /\ Rows = {}
  /\ nested_decls' = Outer(nested_decls)
  /\ str_stack' = Outer(str_stack)
  /\ stmts' = Outer(stmts)
  /\ phase' = IF Len(stmts) = 1 THEN "done" ELSE "building"
  /\ UNCHANGED << db, tree, cut, failed >>

Next == Build \/ Yield \/ StepFails \/ Return

(* A build runs to its end on the thread that called it.                   *)
Spec == Init /\ [][Next]_vars /\ WF_vars(Yield) /\ WF_vars(Return)

-----------------------------------------------------------------------------
(* resolve_record_type over the tree.  A child is found by its name alone, *)
(* the first token of its member; which of several is first among the      *)
(* children is for SQLite to say.                                          *)
NoDecl == << >>

Children(node) == {n \in tree : Len(n) = Len(node) + 1 /\ Outer(n) = node}
NameOf(node)   == Last(node).member[1]

(* Variant: any child of that name.                                        *)
ResolveAny(node, token) == {c \in Children(node) : NameOf(c) = token}

ResolveStep(node, token) ==
  {c \in Children(node) : Type(c) \in Contexts /\ NameOf(c) = token}

(* The mangled name of a record, split.  Zero is written as the length 0,  *)
(* which the length of the identifier behind it continues: it is lost.     *)
Tokens(node) ==
  FlattenSeq([i \in 1..Len(node) |->
    IF node[i].member = << Zero >> /\ i < Len(node) THEN << >> ELSE node[i].member])

Resolve(tokens) ==
  LET Step(node, token) ==
        IF node = NoDecl \/ ResolveStep(node, token) = {} THEN {NoDecl}
        ELSE ResolveStep(node, token)
      nodes[i \in 0..Len(tokens)] ==
        IF i = 0 THEN {Root} ELSE UNION {Step(node, tokens[i]) : node \in nodes[i - 1]}
  IN  nodes[Len(tokens)]

-----------------------------------------------------------------------------
Names(node)     == [i \in 1..Len(node) |-> node[i].member]
Prefix(node, i) == [j \in 1..i |-> node[j]]

(* While a build runs, the two stacks and the statements are those of the  *)
(* declarations from the unit down to the innermost one, and they are      *)
(* empty again when it is over: an exit of _build_recurse that leaves one  *)
(* of them behind gives every later declaration a wrong parent or name.    *)
StackIsPath ==
  ~failed =>
    IF phase = "building"
    THEN /\ Len(nested_decls) > 0
         /\ nested_decls = [i \in 1..Len(This) |-> Prefix(This, i)]
         /\ str_stack = Names(This)
         /\ Len(stmts) = Len(This)
    ELSE nested_decls = << >> /\ str_stack = << >> /\ stmts = << >>

(* A declaration of the tree is there because the table of its parent's    *)
(* kind has a row for it under the whole name of its parent.               *)
TreeIsFromTables ==
  ~failed => \A n \in tree :
    n = Root \/ \E p \in tree : \E e \in Fetch(db, p, Names(p)) : n = Append(p, e)

(* A finished build that met no error has every declaration that the       *)
(* tables have below the unit, whatever the nesting of its statements.     *)
TreeIsComplete ==
  (phase = "done" /\ ~failed /\ ~cut) =>
    \A n \in tree : Type(n) \in Contexts =>
      \A e \in Fetch(db, n, Names(n)) :
        e.type # "typedef" => Append(n, e) \in tree

(* The recursion over the tables ends.                                     *)
BuildEnds == (phase = "building") ~> (phase # "building")

(* A record that shares its name with no other context at any level, that  *)
(* has no template arguments and is in nothing without a name, is what its *)
(* mangled name resolves to: other declarations of that name do not hide   *)
(* it.                                                                     *)
Alone(node) ==
  \A i \in 2..Len(node) : \A c \in Children(Prefix(node, i - 1)) :
    Type(c) \in Contexts /\ NameOf(c) = NameOf(Prefix(node, i)) => c = Prefix(node, i)

ResolveFinds ==
  (phase = "done" /\ ~failed /\ ~cut) =>
    \A n \in tree :
      /\ Type(n) \in Records /\ Alone(n)
      /\ \A i \in 2..Len(n) : Len(n[i].member) = 1
      /\ \A i \in 2..(Len(n) - 1) : n[i].member # << Zero >>
      => Resolve(Tokens(n)) = {n}

(* builder.py:94 asserts that an enumerator is met in an enum only.        *)
EnumeratorsInEnum == phase # "asserted"
=============================================================================
