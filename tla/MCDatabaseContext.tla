------------------------- MODULE MCDatabaseContext -------------------------
(***************************************************************************)
(* All syntax trees of a bounded size, as clang builds them from legal     *)
(* source: Programs is the set of sequences of declarations in source      *)
(* order, Tree turns one into the decls, definitions and semantic parents  *)
(* clang would give it.  Bounds b say which programs:                      *)
(*   size:      declarations in the source                                 *)
(*   kinds:     the kinds they may have                                    *)
(*   idents:    the identifiers they may have                              *)
(*   unnamed:   kinds that may have no name                                *)
(*   elaborate: whether a class may first be named in a type, struct b *p  *)
(***************************************************************************)
EXTENDS DatabaseContext

CONSTANT Size      \* the largest size of the bounds

(* Four declarations of the kinds that nest, and two of any kind.          *)
Nested == [size |-> 4, idents |-> {"a", "b"}, unnamed |-> {}, elaborate |-> TRUE,
           kinds |-> {"namespace", "linkage", "struct", "private", "field", "function"}]
Mixed  == [size |-> 2, idents |-> {"a", "implicit"}, unnamed |-> {"enum"},
           elaborate |-> FALSE, kinds |-> Kind \ {"tu", "body"}]

(* Those of the runs that show one declaration.                            *)
Elaborated == [size |-> 3, idents |-> {"a", "b"}, unnamed |-> {},
               elaborate |-> TRUE, kinds |-> {"namespace", "struct"}]
Anonymous  == [size |-> 3, idents |-> {"a", "b"}, unnamed |-> {"struct"},
               elaborate |-> FALSE, kinds |-> {"struct", "field"}]

ContextKinds == Scope \cup Template \cup {"struct", "class", "enum"}
ClassKinds   == Template \cup {"struct", "class"}
OnlyInScope  == Scope \cup {"builtin", "noproto"}
OnlyInClass  == Access \cup {"field"}
Nameless     == Access \cup {"linkage", "other", "guide"}
Redeclarable == ClassKinds \cup Function
Cxx          == Kind \ {"noproto", "function", "var", "typedef", "enum",
                        "enumconst", "other", "builtin"}

(* An item of a program is a record of its kind, name and signature, the   *)
(* items it is in lexically and semantically, up and sem (0 is the         *)
(* translation unit), the whole name of the latter, path, and def, whether *)
(* it is a definition.                                                     *)
Whole(it) == it.path \o it.name \o it.sig
PathIn(s, u) == IF u = 0 THEN << >>
                ELSE IF s[u].kind = "linkage" THEN s[u].path ELSE Whole(s[u])

(* The contexts still open behind the items of s.                          *)
Ancestry(s) ==
  LET Up[i \in 0..Len(s)] == IF i = 0 THEN {0} ELSE {i} \cup Up[s[i].up] IN Up
Open(s) == {u \in Ancestry(s)[Len(s)] :
              u = 0 \/ (s[u].kind \in ContextKinds /\ s[u].def)}

IsScope(s, u) == u = 0 \/ s[u].kind \in Scope

KindsIn(b, s, u) ==
  IF u # 0 /\ s[u].kind = "enum" THEN {"enumconst"}
  ELSE b.kinds \ ({"enumconst"} \cup
         (IF IsScope(s, u) THEN OnlyInClass ELSE OnlyInScope) \cup
         (IF u = 0 THEN {} ELSE {"builtin"}))

NamesOf(b, k) ==
  IF k \in Nameless THEN {<< >>}
  ELSE {<< n >> : n \in b.idents} \cup {<< n >> : n \in {"0"} \cap
          (IF k \in b.unnamed THEN {"0"} ELSE {})}

SigsOf(k) ==
  CASE k \in Template \cup {"function template"} -> {<< "<T>" >>}
    [] k \in Function -> {<< "(v)" >>}
    [] OTHER -> {<< >>}

DefsOf(k) == IF k \in Redeclarable THEN BOOLEAN ELSE {k \in ContextKinds}

(* Whether a second declaration of the same name may stand beside the      *)
(* first.                                                                  *)
Compatible(s, j, it) ==
  \/ it.name \in {<< >>, << "0" >>}
  \/ it.kind = "namespace" /\ s[j].kind = "namespace"
  \/ /\ it.kind = s[j].kind /\ it.kind \in Redeclarable
     /\ it.sig = s[j].sig
     /\ ~(it.def /\ s[j].def)
     /\ IsScope(s, it.up) \/ (it.kind \notin Function /\ ~s[j].def)

(* The last ones: "b" is taken after "a", C and C++ are not mixed, and     *)
(* there is at most one linkage specification, one declaration without a   *)
(* name and one specifier of an access.                                    *)
Legal(s, it) ==
  /\ \A j \in DOMAIN s :
       s[j].path \o s[j].name = it.path \o it.name => Compatible(s, j, it)
  /\ it.name = << "0" >> => it.def
  /\ it.name = << "b" >> => \E j \in DOMAIN s : s[j].name = << "a" >>
  /\ it.kind \in Cxx => \A j \in DOMAIN s : s[j].kind # "noproto"
  /\ it.kind = "noproto" => \A j \in DOMAIN s : s[j].kind \notin Cxx
  /\ it.kind \in {"linkage"} \cup Access => \A j \in DOMAIN s : s[j].kind # it.kind
  /\ it.name = << "0" >> => \A j \in DOMAIN s : s[j].name # it.name

(* In the braces of an open context.                                       *)
Inside(b, s) ==
  {it \in UNION {UNION {
     [kind: {k}, name: NamesOf(b, k), sig: SigsOf(k), up: {u}, sem: {u},
      path: {PathIn(s, u)}, def: DefsOf(k)]
     : k \in KindsIn(b, s, u)} : u \in Open(s)} : Legal(s, it)}

(* A member class or function declared in its class and defined behind it. *)
OutOfLine(s) ==
  {it \in {[s[j] EXCEPT !.up = u, !.def = TRUE] :
       j \in {j \in DOMAIN s : ~s[j].def /\ s[j].kind \in {"struct", "class",
              "function"} /\ s[j].sem = s[j].up /\ s[j].up # 0
              /\ s[s[j].up].kind \in {"struct", "class"}},
       u \in {u \in Open(s) : IsScope(s, u)}} :
     /\ it.up \in Ancestry(s)[it.sem]
     /\ it.sem \notin Open(s)
     /\ \A j \in DOMAIN s : Whole(s[j]) = Whole(it) /\ s[j].kind = it.kind => ~s[j].def}

(* struct b *p in a class, when no b is known: declares the b of the       *)
(* enclosing namespace, and its declaration is among those of the class.   *)
NamedInType(b, s) ==
  {it \in [kind: b.kinds \cap {"struct"}, name: {<< n >> : n \in b.idents},
           sig: {<< >>}, up: {u \in Open(s) : ~IsScope(s, u)},
           sem: {u \in Open(s) : IsScope(s, u)}, path: {PathIn(s, u) : u \in Open(s)},
           def: {FALSE}] :
     /\ b.elaborate
     /\ s[it.up].kind \in ClassKinds
     /\ it.path = PathIn(s, it.sem)
     /\ \A u \in Open(s) : IsScope(s, u) => u <= it.sem
     /\ \A j \in DOMAIN s : s[j].name # it.name}

Programs(b) ==
  LET P[n \in 0..b.size] ==
        IF n = 0 THEN {<< >>}
        ELSE UNION {{Append(s, it) : it \in
                Inside(b, s) \cup OutOfLine(s) \cup NamedInType(b, s)} : s \in P[n - 1]}
  IN  P[b.size]

-----------------------------------------------------------------------------
MCDecl  == 0..(2 * Size)
MCToken == {"a", "b", "implicit", "0", "<T>", "(v)", "NUL"}

(* The injected-class-name of item i is declaration Size + i; a class      *)
(* without a name has none.                                                *)
HasBody(it) == it.kind \in ClassKinds /\ it.def /\ it.name # << "0" >>

Definition(s, i) ==
  LET D == {j \in DOMAIN s : /\ s[i].kind \in Function \cup {"struct", "class"}
                             /\ s[j].kind = s[i].kind /\ s[j].def
                             /\ IF s[i].name = << "0" >> THEN j = i
                                ELSE Whole(s[j]) = Whole(s[i])}
  IN  IF D = {} THEN NoDecl ELSE CHOOSE j \in D : TRUE

Blank == [kind |-> "other", name |-> << >>, sig |-> << >>, kids |-> << >>,
          def |-> NoDecl, sem |-> NoDecl, loc |-> TRUE]

Kids(s, d) ==
  (IF d # 0 /\ HasBody(s[d]) THEN << Size + d >> ELSE << >>)
  \o SelectSeq([i \in 1..Len(s) |-> i], LAMBDA i : s[i].up = d)

(* "implicit" names what clang declares itself, without a location.        *)
Tree(s) ==
  [d \in MCDecl |->
     IF d = 0 THEN [Blank EXCEPT !.kind = "tu", !.kids = Kids(s, 0)]
     ELSE IF d \in DOMAIN s THEN
       [kind |-> s[d].kind, name |-> s[d].name, sig |-> s[d].sig,
        kids |-> Kids(s, d), def |-> Definition(s, d), sem |-> s[d].sem,
        loc |-> s[d].name # << "implicit" >>]
     ELSE IF d - Size \in DOMAIN s /\ HasBody(s[d - Size]) THEN
       [Blank EXCEPT !.kind = "body", !.name = s[d - Size].name,
                     !.sem = d - Size]
     ELSE Blank]

WalksOf(b, db) == {<< Tree(s), db >> : s \in Programs(b)}

MCWalks         == WalksOf(Nested, "memory") \cup WalksOf(Mixed, "sqlite")
ElaboratedWalks == WalksOf(Elaborated, "memory")
AnonymousWalks  == WalksOf(Anonymous, "memory")
=============================================================================
