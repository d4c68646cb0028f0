----------------------------- MODULE MCRetriever -----------------------------
(***************************************************************************)
(* Databases with a few declarations, as a walk leaves them: a row's scope *)
(* is itself a row or the empty one, and a declaration has a symbol unless *)
(* it has no location or its insertion failed.                             *)
(***************************************************************************)
EXTENDS Retriever

CONSTANTS
  Decls,      \* how many declarations a database may have
  Length      \* how many identifiers a query may have

Idents  == {"a", "b", "_"}
MCToken == Idents \cup {"(v)", "%", "NUL"}

(* An underscore in LIKE matches any character.                            *)
MCLike == [t \in MCToken |-> IF t = "_" THEN {"_", "a"} ELSE {t}]

Ns(scope, n)   == [table |-> "namespace", name |-> scope, member |-> << n >>, ns |-> TRUE]
Free(scope, m) == [table |-> "namespace", name |-> scope, member |-> m, ns |-> FALSE]
Of(scope, m)   == [table |-> "class", name |-> scope, member |-> m, ns |-> FALSE]

(* namespace a { struct b { int a; void b(); struct a { .. }; };           *)
(*               void b(); }  struct b { int a, b; }; void a(); int _;     *)
Universe ==
  {Ns(<< >>, "a"), Free(<< "a" >>, << "b" >>), Of(<< "a", "b" >>, << "a" >>),
   Of(<< "a", "b" >>, << "b", "(v)" >>), Of(<< "a", "b", "a" >>, << "b" >>),
   Free(<< "a" >>, << "b", "(v)" >>),
   Free(<< >>, << "b" >>), Of(<< "b" >>, << "a" >>), Of(<< "b" >>, << "b" >>),
   Free(<< >>, << "_" >>), Free(<< >>, << "a", "(v)" >>)}

Whole_(d) == d.name \o d.member

Closed(S) == \A d \in S : d.name = << >> \/ \E e \in S : Whole_(e) = d.name

Contents(S, T) ==
  [namespace |-> {[name |-> d.name, member |-> d.member, ns |-> d.ns] :
                    d \in {d \in S : d.table = "namespace"}},
   class |-> {[name |-> d.name, member |-> d.member, ns |-> FALSE] :
                    d \in {d \in S : d.table = "class"}},
   symbol |-> {[name |-> Whole_(d), at |-> Whole_(d)] : d \in T}]

MCLoc == {Whole_(d) : d \in Universe}

MCDatabases ==
  UNION {{Contents(S, T) : T \in SUBSET {d \in S : ~d.ns}} :
    S \in {S \in SUBSET Universe : Cardinality(S) <= Decls /\ Closed(S)}}

MCQueries == UNION {[1..n -> Idents] : n \in 1..Length}
=============================================================================
