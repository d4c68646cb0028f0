----------------------------- MODULE MCBuilder -----------------------------
(***************************************************************************)
(* Databases with a few declarations, as walks leave them: when no         *)
(* insertion failed, the scope of a row is the unit or a row of its own,   *)
(* and that of an enumerator is an enum.                                   *)
(***************************************************************************)
EXTENDS Builder

CONSTANTS
  Decls,     \* how many declarations a database may have
  Holes      \* whether insertions may have failed

MCToken == {"0", "a", "b", "c", "d", "<T>", "(v)"}

In(scope, m, type) == [name |-> scope, member |-> m, type |-> type]

(* namespace a { struct a { int a; struct b {}; }; template struct b       *)
(*   { union a {}; }; void a(); typedef int c; }  enum b { d };  void b(); *)
(* struct { struct b {}; } x;  enum { c };                                 *)
NamespaceRows ==
  {In(<< >>, << "a" >>, "namespace"), In(<< "a" >>, << "a" >>, "struct"),
   In(<< "a" >>, << "b", "<T>" >>, "class"), In(<< "a" >>, << "a", "(v)" >>, "function"),
   In(<< >>, << "b" >>, "enum"), In(<< >>, << "b", "(v)" >>, "function"),
   In(<< "a" >>, << "c" >>, "typedef"),
   In(<< >>, << "0" >>, "struct"), In(<< >>, << "0" >>, "enum")}

ClassRows ==
  {In(<< "a", "a" >>, << "a" >>, "field"), In(<< "a", "a" >>, << "b" >>, "struct"),
   In(<< "a", "b", "<T>" >>, << "a" >>, "union"), In(<< "b" >>, << "d" >>, "enumerator"),
   In(<< "0" >>, << "b" >>, "struct"), In(<< "0" >>, << "c" >>, "enumerator")}

Declared(d, r) ==
  \/ r.name = << >>
  \/ \E q \in d.namespace \cup d.class :
       /\ q.name \o q.member = r.name
       /\ q.type \in Contexts
       /\ r.type = "enumerator" => q.type = "enum"

MCDatabases ==
  {d \in [namespace: SUBSET NamespaceRows, class: SUBSET ClassRows] :
     /\ Cardinality(d.namespace) + Cardinality(d.class) <= Decls
     /\ Holes \/ \A r \in d.namespace \cup d.class : Declared(d, r)}
=============================================================================
