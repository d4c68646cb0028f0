-------------------------- MODULE DatabaseContext --------------------------
(***************************************************************************)
(* The walk of one translation unit: struct DatabaseContext                *)
(* (include/context.h, src/context.cc) and the tables it fills through     *)
(* DatabaseInterface (include/storage.h).                                  *)
(*                                                                         *)
(* The syntax tree comes from clang and is chosen in Init, with the        *)
(* database the walk writes to: InMemoryDatabase, whose calls do not fail, *)
(* or SqliteDatabase, each of whose calls may.  The recursion VisitX ->    *)
(* IterateX -> VisitX ... is an explicit stack of activations, frames; one *)
(* action is one turn of one of the loops, with every call it makes, or    *)
(* the return of one activation.                                           *)
(*                                                                         *)
(* Text (std::string) is a sequence of tokens.  A token stands for what    *)
(* one EncodeNs or one Mangle... call appends, so that no two lists of     *)
(* tokens spell the same string.                                           *)
(***************************************************************************)
EXTENDS Naturals, Sequences, FiniteSets, SequencesExt

CONSTANTS
  Decl,     \* declarations, and the translation unit itself
  TU,       \* the translation unit
  NoDecl,   \* the null pointer
  Token,    \* what names are made of
  Nul,      \* the character std::string::resize pads with
  Walks     \* the syntax trees to walk, each with its database

Text   == Seq(Token)
Access == {"public", "protected", "private"}
Record == {"struct", "class", "body"}    \* "body": the injected-class-name
Scope  == {"namespace", "linkage"}
Template == {"struct template", "class template"}
Function == {"function", "noproto"}
Leaf   == {"var", "field", "function template", "typedef", "builtin",
           "enumconst"}
Kind   == {"tu", "namespace", "linkage", "struct", "class", "body",
           "struct template", "class template", "function", "noproto",
           "guide", "var", "field", "function template", "typedef", "builtin",
           "enum", "enumconst", "public", "protected", "private", "other"}

(***************************************************************************)
(* One declaration as the walk sees it.                                    *)
(*   name: EncodeNs(getName()), or EncodeFunctionName for a function       *)
(*   sig:  what the member column has after it: template arguments or      *)
(*         parameters, the types of the parameters                         *)
(*   kids: decls_begin() .. decls_end(), in lexical order                  *)
(*   def:  getDefinition()                                                 *)
(*   sem:  getDeclContext(), the semantic parent                           *)
(*   loc:  getLocation() and its presumed location are valid               *)
(* A ClassTemplateDecl and its templated record are one declaration.  An   *)
(* AccessSpecDecl has its access as kind; "builtin" is a typedef with one  *)
(* of the five names of ClangBuiltinTypedefs, "noproto" a function without *)
(* a FunctionProtoType, "other" any declaration no branch is about.        *)
(***************************************************************************)
DeclRec == [kind: Kind, name: Text, sig: Text, kids: Seq(Decl),
            def: Decl \cup {NoDecl}, sem: Decl \cup {NoDecl}, loc: BOOLEAN]

ASSUME DeclAssumption ==
  TU \in Decl /\ NoDecl \notin Decl /\ IsFiniteSet(Decl)
ASSUME TokenAssumption == Nul \in Token
(* The definition of a record is a record, that of a function a function;  *)
(* others have no other declaration.  The injected-class-name comes before *)
(* the members.                                                            *)
WellFormed(t) ==
  \A d \in Decl :
    /\ t[d].def # NoDecl =>
         \E K \in {Record, Function} : t[d].kind \in K /\ t[t[d].def].kind \in K
    /\ \A i \in DOMAIN t[d].kids : i > 1 => t[t[d].kids[i]].kind # "body"

(* What the C++ grammar puts where, of what a branch depends on.           *)
(* Declarations that are no contexts for the walk have no kids here, and   *)
(* the five builtin typedefs are the translation unit's: their names are   *)
(* reserved.                                                               *)
Grammatical(t) ==
  /\ t[TU].kind = "tu"
  /\ \A d \in Decl :
       LET kinds == {t[k].kind : k \in ToSet(t[d].kids)} IN
       CASE t[d].kind \in {"tu"} \cup Scope ->
              kinds \cap {"body", "field", "enumconst"} = {}
         [] t[d].kind \in Record \cup Template ->
              kinds \cap (Scope \cup {"builtin"}) = {}
         [] t[d].kind = "enum" -> kinds \subseteq {"enumconst"}
         [] OTHER -> kinds = {}

(* A declaration is in the list of at most one context, and there once:    *)
(* clang links them through the declarations themselves.                   *)
InOneList(t) ==
  /\ \A c \in Decl : TU \notin ToSet(t[c].kids)
  /\ \A c, e \in Decl : \A i \in DOMAIN t[c].kids, j \in DOMAIN t[e].kids :
       t[c].kids[i] = t[e].kids[j] => c = e /\ i = j

ASSUME WalkAssumption == Walks \subseteq [Decl -> DeclRec] \X {"memory", "sqlite"}
ASSUME TreeAssumption == \A w \in Walks : WellFormed(w[1])
ASSUME GrammarAssumption == \A w \in Walks : Grammatical(w[1])
ASSUME ListAssumption == \A w \in Walks : InOneList(w[1])

VARIABLES
  ast, database,     \* the syntax tree and the database, never written
  phase,             \* where TraverseTranslationUnitDecl is
  frames,            \* the activations of the walk
  WholeName,         \* fields of DatabaseContext, as in the code
  NameSizes,
  DeclContexts,
  VisitedClasses,
  VisitedFunctions,
  Classes,           \* the tables, in the order of insertion
  Namespaces,
  Symbols,
  InTransaction,
  lost,              \* history: the rows whose insertion failed
  errs               \* history: the other calls that failed

input   == << ast, database >>
context == << WholeName, NameSizes, DeclContexts >>
visited == << VisitedClasses, VisitedFunctions >>
rows    == << Classes, Namespaces, Symbols, lost >>
tables  == << rows, errs >>
vars    == << input, phase, frames, context, visited, tables, InTransaction >>

(***************************************************************************)
(* An activation: rest is the iterator, the declarations still to come;    *)
(* access is the local Access of IterateClass.  cur is CurrentScope() at   *)
(* the start: the local CurScope of IterateScope, and only a record of     *)
(* that value in the other two, which call CurrentScope() again each time. *)
(***************************************************************************)
ScopeFrame == [fn: {"IterateScope", "VisitEnumDecl"}, ctx: Decl,
               rest: Seq(Decl), cur: Text, access: {"none"}]
ClassFrame == [fn: {"IterateClass"}, ctx: Decl,
               rest: Seq(Decl), cur: Text, access: Access]

(* A type column is reduced to what the readers of the tables branch on.   *)
What == {"namespace", "struct", "class", "enum", "typedef", "enumconst",
         "value"}

(* Rows.  of and at name the declaration a row is about; the tables have   *)
(* the name, member and type columns and, for at, its file and line.       *)
(* EncodeAccessSpecifier must not be called without an access (ast.h:75).  *)
NamespaceRow == [name: Text, member: Text,
                 type: [what: What, access: {"none"}], of: Decl]
ClassRow     == [name: Text, member: Text,
                 type: [what: What, access: Access], of: Decl]
SymbolRow    == [name: Text, at: Decl]
ErrorRec     == [call: {"symbol", "begin", "commit"}, of: Decl]

TypeOK ==
  /\ ast \in [Decl -> DeclRec] /\ database \in {"memory", "sqlite"}
  /\ phase \in {"new", "ready", "walking", "crashed", "walked", "done"}
  /\ frames \in Seq(ScopeFrame \cup ClassFrame)
  /\ WholeName \in Text
  /\ NameSizes \in Seq(Nat)
  /\ DeclContexts \in Seq(Decl)
  /\ VisitedClasses \subseteq Decl
  /\ VisitedFunctions \subseteq Decl
  /\ Classes \in Seq(ClassRow)
  /\ Namespaces \in Seq(NamespaceRow)
  /\ Symbols \in Seq(SymbolRow)
  /\ InTransaction \in BOOLEAN
  /\ lost \subseteq NamespaceRow \cup ClassRow
  /\ errs \subseteq ErrorRec

Init ==
  /\ \E w \in Walks : ast = w[1] /\ database = w[2]
  /\ phase = "new"
  /\ frames = << >>
  /\ WholeName = << >> /\ NameSizes = << >> /\ DeclContexts = << >>
  /\ VisitedClasses = {} /\ VisitedFunctions = {}
  /\ Classes = << >> /\ Namespaces = << >> /\ Symbols = << >>
  /\ InTransaction = FALSE
  /\ lost = {} /\ errs = {}

-----------------------------------------------------------------------------
(* The columns of a declaration. *)

Member(d)  == ast[d].name \o ast[d].sig      \* what XXXMember appends
IsClass(d) == ast[d].kind \in {"class", "class template"}

TypeOf(what, access) == [what |-> what, access |-> access]

(* TypeofCXXRecordDecl, and with an access TypeofLocalCXXRecordDecl.       *)
RecordType(d, access) ==
  TypeOf(IF IsClass(d) THEN "class" ELSE "struct", access)

(* The type of a member with nothing below it; an enumerator is public     *)
(* whatever the access in force (TypeofEnumConstDecl).                     *)
LeafType(d, access) ==
  CASE ast[d].kind \in {"typedef", "builtin"} -> TypeOf("typedef", access)
    [] ast[d].kind = "enumconst"              -> TypeOf("enumconst", "public")
    [] OTHER                                  -> TypeOf("value", access)

(* The definition if there is one: the first lines of ShouldVisitX.        *)
Canonical(d) == IF ast[d].def = NoDecl THEN d ELSE ast[d].def

CurrentScope == WholeName

-----------------------------------------------------------------------------
(* The context stack. *)

(* std::string::resize: cuts, or pads with NULs.                           *)
Resize(s, n) == [i \in 1..n |-> IF i \in 1..Len(s) THEN s[i] ELSE Nul]

(* Variant: no length is kept for a name that is empty.                    *)
EnterNamedContext(d, name) ==
  /\ WholeName' = WholeName \o name
  /\ NameSizes' = IF name = << >> THEN NameSizes
                  ELSE Append(NameSizes, Len(WholeName \o name))
  /\ DeclContexts' = Append(DeclContexts, d)

(* Variant: the length of the name instead of the length of the text.      *)
EnterWithNameSize(d, name) ==
  /\ WholeName' = WholeName \o name
  /\ NameSizes' = Append(NameSizes, Len(name))
  /\ DeclContexts' = Append(DeclContexts, d)

EnterDeclContext(d, name) ==
  /\ WholeName' = WholeName \o name
  /\ NameSizes' = Append(NameSizes, Len(WholeName \o name))
  /\ DeclContexts' = Append(DeclContexts, d)

(* Variant: resizes to the length it has just popped.                      *)
LeaveToOwnSize ==
  LET Level == Len(DeclContexts) IN
  /\ NameSizes' = Front(NameSizes)
  /\ DeclContexts' = Front(DeclContexts)
  /\ WholeName' = Resize(WholeName, NameSizes[Level])

LeaveDeclContext ==
  LET Level == Len(DeclContexts) IN
  /\ NameSizes' = Front(NameSizes)
  /\ DeclContexts' = Front(DeclContexts)
  /\ WholeName' = Resize(WholeName, NameSizes[Level - 1])

Reset ==
  /\ WholeName' = << >>
  /\ NameSizes' = << >>
  /\ DeclContexts' = << >>

-----------------------------------------------------------------------------
(* The database calls. *)

CallsThatMayFail == IF database = "sqlite" THEN {"row", "symbol"} ELSE {}

(* A symbol whose declaration has no location counts as failed: the        *)
(* database is not called.  A failure is logged and the walk goes on.      *)
InsertSymbol(name, d, bad) ==
  IF "symbol" \in bad \/ ~ast[d].loc
  THEN errs' = errs \cup {[call |-> "symbol", of |-> d]} /\ UNCHANGED Symbols
  ELSE Symbols' = Append(Symbols, [name |-> name, at |-> d]) /\ UNCHANGED errs

NewRow(scope, short, type, d) ==
  [name |-> scope, member |-> short, type |-> type, of |-> d]

AddRow(table, row, bad) == IF "row" \in bad THEN table ELSE Append(table, row)
AddLost(row, bad)       == IF "row" \in bad THEN lost \cup {row} ELSE lost

(* InsertIntoNamespace: a row, then its symbol, whether or not the row     *)
(* could be inserted.                                                      *)
InsertIntoNamespace(scope, short, type, d) ==
  \E bad \in SUBSET CallsThatMayFail :
    /\ Namespaces' = AddRow(Namespaces, NewRow(scope, short, type, d), bad)
    /\ lost' = AddLost(NewRow(scope, short, type, d), bad)
    /\ InsertSymbol(scope \o short, d, bad)
    /\ UNCHANGED Classes

(* Variant: the symbol is the short name.                                  *)
InsertShortSymbol(scope, short, type, d) ==
  \E bad \in SUBSET CallsThatMayFail :
    /\ Classes' = AddRow(Classes, NewRow(CurrentScope, short, type, d), bad)
    /\ lost' = AddLost(NewRow(CurrentScope, short, type, d), bad)
    /\ InsertSymbol(short, d, bad)
    /\ UNCHANGED Namespaces

(* InsertIntoClass: the row takes CurrentScope(), the symbol the scope the *)
(* caller passes.                                                          *)
InsertIntoClass(scope, short, type, d) ==
  \E bad \in SUBSET CallsThatMayFail :
    /\ Classes' = AddRow(Classes, NewRow(CurrentScope, short, type, d), bad)
    /\ lost' = AddLost(NewRow(CurrentScope, short, type, d), bad)
    /\ InsertSymbol(scope \o short, d, bad)
    /\ UNCHANGED Namespaces

(* The row of a namespace: Database.InsertIntoNamespace called directly,   *)
(* its result dropped, no symbol.                                          *)
InsertNamespaceDecl(scope, d) ==
  \E bad \in SUBSET (CallsThatMayFail \cap {"row"}) :
    LET row == NewRow(scope, ast[d].name, TypeOf("namespace", "none"), d) IN
    /\ Namespaces' = AddRow(Namespaces, row, bad)
    /\ lost' = AddLost(row, bad)
    /\ UNCHANGED << Classes, Symbols, errs >>

-----------------------------------------------------------------------------
(* The activations. *)

Top     == Last(frames)
Cur     == Head(Top.rest)                         \* *Iter
Advance == [frames EXCEPT ![Len(frames)].rest = Tail(@)]

(* The loop of fn is running and its iterator is on a declaration of one   *)
(* of the kinds.                                                           *)
At(fn, kinds) ==
  /\ frames # << >>
  /\ Top.fn = fn /\ Top.rest # << >>
  /\ ast[Cur].kind \in kinds

(* Enter the context of d under a name and start the loop fn over rest.    *)
Visit(d, name, fn, rest, access) ==
  /\ EnterDeclContext(d, name)
  /\ frames' = Append(Advance, [fn |-> fn, ctx |-> d, rest |-> rest,
                                cur |-> WholeName \o name, access |-> access])

VisitNamespaceDecl(d) ==
  Visit(d, ast[d].name, "IterateScope", ast[d].kids, "none")

VisitLinkageSpecDecl(d) ==
  Visit(d, << >>, "IterateScope", ast[d].kids, "none")

(* IterateClass starts behind the first declaration, which it takes to be  *)
(* the class body, and with the access the class key gives.                *)
Members(d) == IF ast[d].kids = << >> THEN << >> ELSE Tail(ast[d].kids)
DefaultAccess(d) == IF IsClass(d) THEN "private" ELSE "public"

(* The context of a record is entered under the name alone, without the    *)
(* template arguments that its member column has.                          *)
VisitCXXRecordDecl(d) ==
  Visit(d, ast[d].name, "IterateClass", Members(d), DefaultAccess(d))

(* Variant: the loop over a template starts without an access.             *)
VisitTemplateAsScope(d) ==
  Visit(d, Member(d), "IterateClass", Members(d), "none")

VisitClassTemplateDecl(d) ==
  Visit(d, Member(d), "IterateClass", Members(d), DefaultAccess(d))

VisitEnumDecl(d) ==
  Visit(d, ast[d].name, "VisitEnumDecl", ast[d].kids, "none")

(* Variant: the visit is not recorded.                                     *)
ForgetVisitedFunction(d) ==
  /\ d \notin VisitedFunctions
  /\ UNCHANGED visited

(* ShouldVisitClass and ShouldVisitFunction: not for the same definition   *)
(* twice.                                                                  *)
ShouldVisitClass(d) ==
  /\ d \notin VisitedClasses
  /\ VisitedClasses' = VisitedClasses \cup {d}
  /\ UNCHANGED VisitedFunctions

ShouldVisitFunction(d) ==
  /\ d \notin VisitedFunctions
  /\ VisitedFunctions' = VisitedFunctions \cup {d}
  /\ UNCHANGED VisitedClasses

NextDecl == frames' = Advance /\ UNCHANGED context

-----------------------------------------------------------------------------
(* IterateScope, one action per branch. *)

ScopeNamespace ==
  /\ At("IterateScope", {"namespace"})
  /\ InsertNamespaceDecl(Top.cur, Cur)
  /\ VisitNamespaceDecl(Cur)
  /\ UNCHANGED << input, phase, visited, InTransaction >>

ScopeLinkage ==
  /\ At("IterateScope", {"linkage"})
  /\ VisitLinkageSpecDecl(Cur)
  /\ UNCHANGED << input, phase, visited, tables, InTransaction >>

(* Variant: a class whose row cannot be inserted is not entered.           *)
ScopeRecordIfInserted ==
  /\ At("IterateScope", Record)
  /\ LET d == Canonical(Cur) IN
       /\ ShouldVisitClass(d)
       /\ InsertIntoNamespace(Top.cur, Member(d), RecordType(d, "none"), d)
       /\ IF Namespaces' # Namespaces THEN VisitCXXRecordDecl(d) ELSE NextDecl
  /\ UNCHANGED << input, phase, InTransaction >>

ScopeRecord ==
  /\ At("IterateScope", Record)
  /\ LET d == Canonical(Cur) IN
       /\ ShouldVisitClass(d)
       /\ InsertIntoNamespace(Top.cur, Member(d), RecordType(d, "none"), d)
       /\ VisitCXXRecordDecl(d)
  /\ UNCHANGED << input, phase, InTransaction >>

ScopeTemplate ==
  /\ At("IterateScope", Template)
  /\ InsertIntoNamespace(Top.cur, Member(Cur), RecordType(Cur, "none"), Cur)
  /\ VisitClassTemplateDecl(Cur)
  /\ UNCHANGED << input, phase, visited, InTransaction >>

(* A function without a prototype is visited and gets no row.              *)
ScopeFunction ==
  /\ At("IterateScope", Function)
  /\ LET d == Canonical(Cur) IN
       /\ ShouldVisitFunction(d)
       /\ \/ /\ ast[d].kind # "noproto"
             /\ InsertIntoNamespace(Top.cur, Member(d),
                                    TypeOf("value", "none"), d)
          \/ ast[d].kind = "noproto" /\ UNCHANGED tables
  /\ NextDecl
  /\ UNCHANGED << input, phase, InTransaction >>

ScopeLeaf ==
  /\ At("IterateScope", {"function template", "var", "typedef"})
  /\ InsertIntoNamespace(Top.cur, Member(Cur), LeafType(Cur, "none"), Cur)
  /\ NextDecl
  /\ UNCHANGED << input, phase, visited, InTransaction >>

ScopeEnum ==
  /\ At("IterateScope", {"enum"})
  /\ InsertIntoNamespace(Top.cur, ast[Cur].name, TypeOf("enum", "none"), Cur)
  /\ VisitEnumDecl(Cur)
  /\ UNCHANGED << input, phase, visited, InTransaction >>

(* Deduction guides, the builtin typedefs, and what has no branch.         *)
ScopeIgnored ==
  /\ At("IterateScope",
        {"guide", "builtin", "other", "field", "enumconst"} \cup Access)
  /\ NextDecl
  /\ UNCHANGED << input, phase, visited, tables, InTransaction >>

-----------------------------------------------------------------------------
(* IterateClass. *)

ClassRecord ==
  /\ At("IterateClass", Record)
  /\ LET d == Canonical(Cur) IN
       /\ ShouldVisitClass(d)
       /\ InsertIntoClass(CurrentScope, Member(d), RecordType(d, Top.access), d)
       /\ VisitCXXRecordDecl(d)
  /\ UNCHANGED << input, phase, InTransaction >>

ClassTemplate ==
  /\ At("IterateClass", Template)
  /\ InsertIntoClass(CurrentScope, Member(Cur),
                     RecordType(Cur, Top.access), Cur)
  /\ VisitClassTemplateDecl(Cur)
  /\ UNCHANGED << input, phase, visited, InTransaction >>

ClassFunction ==
  /\ At("IterateClass", Function)
  /\ LET d == Canonical(Cur) IN
       /\ ShouldVisitFunction(d)
       /\ \/ /\ ast[d].kind # "noproto"
             /\ InsertIntoClass(CurrentScope, Member(d),
                                TypeOf("value", Top.access), d)
          \/ ast[d].kind = "noproto" /\ UNCHANGED tables
  /\ NextDecl
  /\ UNCHANGED << input, phase, InTransaction >>

(* A deduction guide is a FunctionDecl and this loop has no branch of its  *)
(* own for it: dyn_cast<CXXMethodDecl> gives a null pointer, which         *)
(* TypeofLocalCXXMethodDecl dereferences.                                  *)
ClassGuide ==
  /\ At("IterateClass", {"guide"})
  /\ ShouldVisitFunction(Canonical(Cur))
  /\ phase' = "crashed"
  /\ frames' = << >>
  /\ UNCHANGED << input, context, tables, InTransaction >>

ClassLeaf ==
  /\ At("IterateClass", Leaf)
  /\ InsertIntoClass(CurrentScope, Member(Cur), LeafType(Cur, Top.access), Cur)
  /\ NextDecl
  /\ UNCHANGED << input, phase, visited, InTransaction >>

ClassAccess ==
  /\ At("IterateClass", Access)
  /\ frames' = [Advance EXCEPT ![Len(frames)].access = ast[Cur].kind]
  /\ UNCHANGED << input, phase, context, visited, tables, InTransaction >>

ClassEnum ==
  /\ At("IterateClass", {"enum"})
  /\ InsertIntoClass(CurrentScope, ast[Cur].name,
                     TypeOf("enum", Top.access), Cur)
  /\ VisitEnumDecl(Cur)
  /\ UNCHANGED << input, phase, visited, InTransaction >>

ClassIgnored ==
  /\ At("IterateClass", Scope \cup {"other"})
  /\ NextDecl
  /\ UNCHANGED << input, phase, visited, tables, InTransaction >>

-----------------------------------------------------------------------------
(* Both loops, and the enumerators of VisitEnumDecl. *)

(* Variant: continues without advancing the iterator.                      *)
SkipVisitedInPlace ==
  /\ At("IterateScope", Record) \/ At("IterateClass", Record)
  /\ Canonical(Cur) \in VisitedClasses
  /\ UNCHANGED vars

(* ShouldVisitX returns a null pointer: the definition was seen before.    *)
SkipVisited ==
  /\ \/ /\ At("IterateScope", Record) \/ At("IterateClass", Record)
        /\ Canonical(Cur) \in VisitedClasses
     \/ /\ \/ At("IterateScope", Function)
           \/ At("IterateClass", Function \cup {"guide"})
        /\ Canonical(Cur) \in VisitedFunctions
  /\ NextDecl
  /\ UNCHANGED << input, phase, visited, tables, InTransaction >>

Enumerator ==
  /\ At("VisitEnumDecl", {"enumconst"})
  /\ InsertIntoClass(CurrentScope, ast[Cur].name,
                     TypeOf("enumconst", "public"), Cur)
  /\ NextDecl
  /\ UNCHANGED << input, phase, visited, InTransaction >>

(* Variant: one Access for all activations of IterateClass.                *)
ReturnWithAccess ==
  /\ Len(frames) > 1 /\ Top.rest = << >>
  /\ LeaveDeclContext
  /\ frames' = [Front(frames) EXCEPT ![Len(frames) - 1].access = Top.access]
  /\ UNCHANGED << input, phase, visited, tables, InTransaction >>

(* The end of a loop inside another: VisitX calls LeaveDeclContext.        *)
Return ==
  /\ Len(frames) > 1 /\ Top.rest = << >>
  /\ LeaveDeclContext
  /\ frames' = Front(frames)
  /\ UNCHANGED << input, phase, visited, tables, InTransaction >>

-----------------------------------------------------------------------------
(* TraverseTranslationUnitDecl: construct, visit, destroy.  The results of *)
(* TransactionBegin and Commit are dropped.                                *)

Fails(call) == errs' = errs \cup {[call |-> call, of |-> TU]}

(* Variant: no TransactionBegin.                                           *)
ConstructOnly ==
  /\ phase = "new"
  /\ phase' = "ready"
  /\ UNCHANGED << input, frames, context, visited, tables, InTransaction >>

Construct ==
  /\ phase = "new"
  /\ phase' = "ready"
  /\ \/ InTransaction' = TRUE /\ UNCHANGED errs
     \/ database = "sqlite" /\ Fails("begin") /\ UNCHANGED InTransaction
  /\ UNCHANGED << input, frames, context, visited, rows >>

VisitTranslationUnitDecl ==
  /\ phase = "ready"
  /\ phase' = "walking"
  /\ WholeName' = << >> /\ NameSizes' = << 0 >> /\ DeclContexts' = << TU >>
  /\ frames' = << [fn |-> "IterateScope", ctx |-> TU, rest |-> ast[TU].kids,
                   cur |-> << >>, access |-> "none"] >>
  /\ UNCHANGED << input, visited, tables, InTransaction >>

FinishTranslationUnit ==
  /\ Len(frames) = 1 /\ Top.rest = << >>
  /\ phase' = "walked"
  /\ Reset
  /\ frames' = << >>
  /\ UNCHANGED << input, visited, tables, InTransaction >>

Destroy ==
  /\ phase = "walked"
  /\ phase' = "done"
  /\ \/ InTransaction' = FALSE /\ UNCHANGED errs
     \/ database = "sqlite" /\ Fails("commit") /\ UNCHANGED InTransaction
  /\ UNCHANGED << input, frames, context, visited, rows >>

Next ==
  \/ Construct \/ VisitTranslationUnitDecl
  \/ ScopeNamespace \/ ScopeLinkage \/ ScopeRecord \/ ScopeTemplate
  \/ ScopeFunction \/ ScopeLeaf \/ ScopeEnum \/ ScopeIgnored
  \/ ClassRecord \/ ClassTemplate \/ ClassFunction \/ ClassGuide
  \/ ClassLeaf \/ ClassAccess \/ ClassEnum \/ ClassIgnored
  \/ SkipVisited \/ Enumerator \/ Return
  \/ FinishTranslationUnit \/ Destroy

(* One thread runs the walk to its end.                                    *)
Spec == Init /\ [][Next]_vars /\ WF_vars(Next)

-----------------------------------------------------------------------------
(* Properties of the context stack. *)

(* The two assertions of LeaveDeclContext (context.h:73-74) hold whenever  *)
(* an activation that ends with LeaveDeclContext is running.               *)
LeaveAsserts ==
  Len(frames) > 1 =>
    /\ Len(DeclContexts) = Len(NameSizes)
    /\ Len(DeclContexts) > 1

(* Whatever was visited in between, the scope text is again the one the    *)
(* running loop started with: the local CurScope of IterateScope and the   *)
(* CurrentScope() that IterateClass calls anew never disagree.             *)
ScopeRestored == frames # << >> => Top.cur = CurrentScope

(* The three stacks have the same height, and cutting WholeName at an      *)
(* element of NameSizes gives the text the activation at that height       *)
(* started with.  Inductive, and the reason of the two above.              *)
StackCoherent ==
  frames # << >> =>
    /\ phase = "walking"
    /\ Len(NameSizes) = Len(frames) /\ Len(DeclContexts) = Len(frames)
    /\ NameSizes[Len(frames)] = Len(WholeName)
    /\ \A i, j \in DOMAIN frames : i <= j => NameSizes[i] <= NameSizes[j]
    /\ \A i \in DOMAIN frames :
         frames[i].cur = SubSeq(WholeName, 1, NameSizes[i])

(* The scope texts of the open contexts: NameSizes cuts WholeName.         *)
OpenScopes ==
  [i \in 1..Len(NameSizes) |-> SubSeq(WholeName, 1, NameSizes[i])]

Names == INSTANCE NameStack WITH stack <- OpenScopes, text <- WholeName

(* WholeName and NameSizes implement the stack of scope texts.             *)
ImplementsNameStack == Names!Spec

-----------------------------------------------------------------------------
(* Properties of the tables. *)

Rows == ToSet(Namespaces) \cup ToSet(Classes)

(* With the rows that could not be inserted.                               *)
AllRows == Rows \cup lost

NoRepeat(table, D) ==
  \A i, j \in DOMAIN table :
    table[i].of = table[j].of /\ table[i].of \in D => i = j

(* A class or function has at most one row in the two tables, however many *)
(* times it is redeclared and wherever it is defined.                      *)
RecordedOnce ==
  LET D == {d \in Decl : ast[d].kind \in Record \cup Function} IN
  /\ NoRepeat(Namespaces, D)
  /\ NoRepeat(Classes, D)
  /\ \A i \in DOMAIN Namespaces, j \in DOMAIN Classes :
       Namespaces[i].of = Classes[j].of => Namespaces[i].of \notin D

(* What is declared in the braces of d, a class at its definition.         *)
Held(d) ==
  {Canonical(k) : k \in {k \in ToSet(ast[d].kids) : ast[k].kind # "body"}}

(* But for the rows whose insertion failed, the tables are a tree: the     *)
(* name of a row in class is the whole name of a recorded class, template  *)
(* or enumeration that holds its declaration; the name of a row in         *)
(* namespace is empty or the whole name of a recorded namespace.  Both     *)
(* retriever and builder go from a row to its members by this equation.    *)
(* Below a row that was lost, also one lost without a message              *)
(* (context.cc:32), everything stays in the tables and cannot be reached.  *)
RowsNested ==
  \A r \in AllRows :
    \/ r.type.access = "none" /\ r.name = << >>
    \/ \E q \in AllRows :
         /\ r.name = q.name \o q.member
         /\ IF r.type.access = "none" THEN q.type.what = "namespace"
                                     ELSE r.of \in Held(q.of)

(* Table symbol has the whole name of a row's declaration for every row    *)
(* whose declaration has a location, except for namespaces, and nothing    *)
(* else; a failure of either insertion does not keep the other from being  *)
(* made.                                                                   *)
SymbolsMatch ==
  ToSet(Symbols) = {[name |-> r.name \o r.member, at |-> r.of] :
    r \in {q \in AllRows : /\ q.type.what # "namespace" /\ ast[q.of].loc
                           /\ [call |-> "symbol", of |-> q.of] \notin errs}}

(* The access in force at position i of the body of class d.               *)
AccessAt(d, i) ==
  LET specs == {j \in 1..(i - 1) : ast[ast[d].kids[j]].kind \in Access}
  IN  IF specs = {} THEN DefaultAccess(d)
      ELSE ast[ast[d].kids[CHOOSE j \in specs : \A k \in specs : k <= j]].kind

(* A member has the access the class gives it where it is mentioned, also  *)
(* behind a nested class with access specifiers of its own.                *)
AccessInForce ==
  \A r \in ToSet(Classes) :
    IF r.type.what = "enumconst" THEN r.type.access = "public"
    ELSE \E d \in Decl : \E i \in DOMAIN ast[d].kids :
           /\ ast[d].kind \in Record \cup Template
           /\ Canonical(ast[d].kids[i]) = r.of
           /\ r.type.access = AccessAt(d, i)

(* The declarations the walk has to find: below the translation unit, with *)
(* every class looked into at its definition.                              *)
Found ==
  LET F[n \in Nat] == IF n = 0 THEN {TU}
                      ELSE F[n - 1] \cup UNION {Held(d) : d \in F[n - 1]}
  IN  F[Cardinality(Decl)]

Indexed(d) == ast[d].kind \in (Record \cup Template \cup Leaf \cup
                {"namespace", "function", "enum"}) \ {"builtin"}

(* When the walk has ended, the tables are about the declarations to be    *)
(* found, all of them and no others: a failed insertion leaves a hole in   *)
(* the place of its row and nothing else.                                  *)
Complete ==
  phase = "walked" => {r.of : r \in AllRows} = {d \in Found : Indexed(d)}

(* Rows are only ever added, and only inside the transaction, unless BEGIN *)
(* failed (clangdb_check_internal(InTransaction), storage.h:268 and 276,   *)
(* which the in-memory database asserts).                                  *)
WritesInTransaction ==
  [][/\ << Classes, Namespaces, Symbols >>' # << Classes, Namespaces, Symbols >>
       => InTransaction \/ [call |-> "begin", of |-> TU] \in errs
     /\ IsPrefix(Classes, Classes')
     /\ IsPrefix(Namespaces, Namespaces')
     /\ IsPrefix(Symbols, Symbols')]_vars

(* The walk ends, whichever class and function is mentioned where and      *)
(* whatever call fails, unless it dereferences the null pointer of         *)
(* ClassGuide.                                                             *)
Terminates == <>(phase \in {"done", "crashed"})

-----------------------------------------------------------------------------
(* What the documentation says and the code does not do. *)

(* typing.cc:290: the whole name of a record, from its semantic parents.   *)
MangleRecordDecl(d) ==
  LET Encoded(x) == CASE ast[x].kind = "linkage" -> << >>
                      [] ast[x].kind \in Template -> ast[x].name
                      [] OTHER -> Member(x)
      Whole[x \in Decl] == IF x = TU THEN << >>
                           ELSE Whole[ast[x].sem] \o Encoded(x)
  IN  Whole[d]

(* "the `name` column stores the mangled wholename" (ReadMe.md:64) of the  *)
(* "namespace or class it is in" (ReadMe.md:136): a record's name and      *)
(* member columns spell the whole name by which types refer to it.         *)
RecordsUnderWholeName ==
  \A r \in Rows : r.type.what \in {"struct", "class"} =>
    r.name \o r.member = MangleRecordDecl(r.of)

(* "Must skip the first one -- the struct/class body" (context.cc:89): the *)
(* declaration IterateClass skips is the body and not a member.            *)
OnlyBodySkipped ==
  \A i \in DOMAIN frames :
    LET d == frames[i].ctx IN
    frames[i].fn = "IterateClass" /\ ast[d].kids # << >> =>
      ast[Head(ast[d].kids)].kind = "body"
=============================================================================
