------------------------------ MODULE Retriever ------------------------------
(***************************************************************************)
(* The lookup of a qualified name: class Retriever (bin/retrieve.cc).      *)
(*                                                                         *)
(* A query is a sequence of identifiers.  Descend looks for the first      *)
(* below the empty scope, goes into what it finds, and looks for the rest  *)
(* there; if that finds nothing, Query starts it anew in every scope that  *)
(* has a member of the first name.  The recursion is a stack of            *)
(* activations, frames; one action is one statement with the loop that     *)
(* reads its rows, or the treatment of one member found, or one return.    *)
(*                                                                         *)
(* SQLite is external: a SELECT gives rows in no order the code relies on, *)
(* so that results are sets; a statement may fail to be prepared, and a    *)
(* loop over rows may end early, because step reports an error.            *)
(***************************************************************************)
EXTENDS StringStack, FiniteSets

CONSTANTS
  Loc,        \* file and line of a declaration
  NamespaceLine, NoResultLine,    \* the two lines that are no location
  Databases,  \* the contents of the three tables
  Queries,    \* what is asked
  Like,       \* Like[t]: the tokens that match t in LIKE
  Percent,    \* the text "%", a token for the stack
  Faults      \* the database calls that may fail

Row    == [name: Text, member: Text, ns: BOOLEAN]
Symbol == [name: Text, at: Loc]
Database == [namespace: SUBSET Row, class: SUBSET Row, symbol: SUBSET Symbol]

ASSUME DatabaseAssumption ==
  Databases \subseteq Database /\ \A d \in Databases : IsFiniteSet(d.symbol)
ASSUME NoticeAssumption == {NamespaceLine, NoResultLine} \cap Loc = {}
ASSUME QueryAssumption == Queries \subseteq Seq(Token) \ {<< >>}
ASSUME LikeAssumption == Like \in [Token -> SUBSET Token] /\ Percent \in Token
ASSUME FaultAssumption ==
  Faults \subseteq {"descend", "query", "exact", "prefix", "step"}

VARIABLES
  db,         \* the tables, opened read-only
  phase,      \* of Query
  Key,        \* its argument
  Stack,      \* its StringStack
  frames,     \* the activations of Descend
  stmts,      \* how many of its own statements Query has run
  Names,      \* rows of the last of them still to come
  NumResults,
  Output,     \* the lines printed for this query
  failed      \* a call has failed during this query

vars == << db, phase, Key, Stack, frames, stmts, Names, NumResults, Output,
           failed >>

(* An activation of Descend: idx is StartIdx, counted in tokens; stmts is  *)
(* how many of STMTs it has run, found the members still to be treated,    *)
(* cur a record of Stack.Buffer when it started.                           *)
Frame == [idx: Nat \ {0}, stmts: 0..2, cur: Text,
          found: SUBSET [member: Text, ns: BOOLEAN]]

TypeOK ==
  /\ db \in Database /\ IsFiniteSet(db.symbol)
  /\ phase \in {"idle", "precise", "vague"}
  /\ Key \in Seq(Token)
  /\ Stack \in StackRec
  /\ frames \in Seq(Frame)
  /\ stmts \in 0..2
  /\ Names \subseteq Text
  /\ NumResults \in Nat
  /\ Output \subseteq (Loc \cup {NamespaceLine, NoResultLine})
  /\ failed \in BOOLEAN

Init ==
  /\ db \in Databases
  /\ phase = "idle"
  /\ Key = << >>
  /\ Stack = NewStack
  /\ frames = << >>
  /\ stmts = 0 /\ Names = {}
  /\ NumResults = 0
  /\ Output = {}
  /\ failed = FALSE

-----------------------------------------------------------------------------
(* The statements. *)

(* member LIKE 'foo%', where foo is one encoded identifier.                *)
IsNamed(member, t) == member # << >> /\ Head(member) \in Like[t]

(* name LIKE 'foo%', where foo is a whole text.                            *)
StartsLike(name, t) ==
  Len(t) <= Len(name) /\ \A i \in DOMAIN t : name[i] \in Like[t[i]]

Table(n) == IF n = 1 THEN db.namespace ELSE db.class

(* The n-th statement of Descend.                                          *)
SelectMembers(n, scope, t) ==
  {[member |-> r.member, ns |-> r.ns] :
     r \in {r \in Table(n) : r.name = scope /\ IsNamed(r.member, t)}}

(* The n-th statement of Query.                                            *)
SelectScopes(n, t) == {r.name : r \in {r \in Table(n) : IsNamed(r.member, t)}}

SymbolsNamed(t) == {s \in db.symbol : s.name = t}
SymbolsLike(t)  == {s \in db.symbol : StartsLike(s.name, t)}

(* What a loop over rows gets to see before step is not SQLITE_ROW.        *)
Read(rows) == {rows} \cup (IF "step" \in Faults THEN SUBSET rows ELSE {})

-----------------------------------------------------------------------------
Top == Last(frames)
LastToken == Top.idx = Len(Key)        \* End >= Length

NewFrame(idx, scope) == [idx |-> idx, stmts |-> 0, cur |-> scope, found |-> {}]

(* A new query: a new StringStack, and Descend from the first character.   *)
Query ==
  /\ phase = "idle"
  /\ phase' = "precise"
  /\ Key' \in Queries
  /\ Stack' = NewStack
  /\ frames' = << NewFrame(1, << >>) >>
  /\ stmts' = 0 /\ Names' = {}
  /\ NumResults' = 0
  /\ Output' = {}
  /\ failed' = FALSE
  /\ UNCHANGED db

(* Descend runs its next statement and collects the rows.                  *)
Lookup ==
  /\ frames # << >> /\ Top.found = {} /\ Top.stmts < 2
  /\ LET n == Top.stmts + 1
         rows == SelectMembers(n, Stack.Buffer, Key[Top.idx])
     IN \E seen \in Read(rows) :
          /\ frames' = [frames EXCEPT ![Len(frames)].stmts = n,
                                      ![Len(frames)].found = seen]
          /\ failed' = (failed \/ seen # rows)
  /\ UNCHANGED << db, phase, Key, Stack, stmts, Names, NumResults, Output >>

(* Variant: only Query pops.                                               *)
ReturnToQuery ==
  /\ frames' = Front(frames)
  /\ Stack' = IF Len(frames) = 1 /\ phase = "vague" THEN pop(Stack) ELSE Stack

(* The caller pops, unless Descend was called at the start of Query.       *)
Return ==
  /\ frames' = Front(frames)
  /\ Stack' = IF Len(frames) = 1 /\ phase = "precise" THEN Stack ELSE pop(Stack)

LookupFails ==
  /\ "descend" \in Faults
  /\ frames # << >> /\ Top.found = {} /\ Top.stmts < 2
  /\ Return
  /\ failed' = TRUE
  /\ UNCHANGED << db, phase, Key, stmts, Names, NumResults, Output >>

Descended ==
  /\ frames # << >> /\ Top.found = {} /\ Top.stmts = 2
  /\ Return
  /\ UNCHANGED << db, phase, Key, stmts, Names, NumResults, Output, failed >>

(* Variant: the loop does not get on.                                      *)
Untreated(m) == frames

Treated(m) == [frames EXCEPT ![Len(frames)].found = @ \ {m}]

Emit(symbols) ==
  /\ NumResults' = NumResults + Cardinality(symbols)
  /\ Output' = Output \cup {s.at : s \in symbols}

(* A member with tokens of the query left: push and descend.               *)
Enter ==
  /\ frames # << >> /\ ~LastToken
  /\ \E m \in Top.found :
       LET s == push(Stack, m.member) IN
       /\ Stack' = s
       /\ frames' = Append(Treated(m), NewFrame(Top.idx + 1, s.Buffer))
  /\ UNCHANGED << db, phase, Key, stmts, Names, NumResults, Output, failed >>

HitNamespace ==
  /\ frames # << >> /\ LastToken
  /\ \E m \in Top.found :
       /\ m.ns
       /\ frames' = Treated(m)
       /\ Stack' = pop(push(Stack, m.member))
  /\ Output' = Output \cup {NamespaceLine}
  /\ NumResults' = NumResults + 1
  /\ UNCHANGED << db, phase, Key, stmts, Names, failed >>

(* Yield: s is the stack it is called with, and Descend pops after it.     *)
YieldExact(s) ==
  \E seen \in Read(SymbolsNamed(s.Buffer)) :
    /\ Cardinality(seen) + NumResults > 0
    /\ Emit(seen)
    /\ failed' = (failed \/ seen # SymbolsNamed(s.Buffer))
    /\ Stack' = pop(s)

YieldExactFails(s) ==
  /\ "exact" \in Faults
  /\ failed' = TRUE
  /\ Stack' = pop(s)
  /\ UNCHANGED << NumResults, Output >>

(* Variant: pops the member before it looks for prefixes.                  *)
YieldPrefixOfScope(s) ==
  /\ NumResults = 0 /\ {} \in Read(SymbolsNamed(s.Buffer))
  /\ \E seen \in Read(SymbolsLike(pop(s).Buffer)) :
       /\ Emit(seen)
       /\ failed' = (failed \/ SymbolsNamed(s.Buffer) # {}
                            \/ seen # SymbolsLike(pop(s).Buffer))
       /\ Stack' = pop(s)

(* Nothing was found yet, in the whole query.                              *)
YieldPrefix(s) ==
  LET t == push(s, << Percent >>) IN
  /\ NumResults = 0 /\ {} \in Read(SymbolsNamed(s.Buffer))
  /\ \E seen \in Read(SymbolsLike(s.Buffer)) :
       /\ Emit(seen)
       /\ failed' = (failed \/ SymbolsNamed(s.Buffer) # {}
                            \/ seen # SymbolsLike(s.Buffer))
       /\ Stack' = pop(pop(t))

(* Returns with the "%" still on the stack.                                *)
YieldPrefixFails(s) ==
  LET t == push(s, << Percent >>) IN
  /\ "prefix" \in Faults
  /\ NumResults = 0 /\ {} \in Read(SymbolsNamed(s.Buffer))
  /\ failed' = TRUE
  /\ Stack' = pop(t)
  /\ UNCHANGED << NumResults, Output >>

HitSymbol ==
  /\ frames # << >> /\ LastToken
  /\ \E m \in Top.found :
       LET s == push(Stack, m.member) IN
       /\ ~m.ns
       /\ frames' = Treated(m)
       /\ \/ YieldExact(s) \/ YieldExactFails(s)
          \/ YieldPrefix(s) \/ YieldPrefixFails(s)
  /\ UNCHANGED << db, phase, Key, stmts, Names >>

-----------------------------------------------------------------------------
(* Query, after its first Descend. *)

PreciseFound ==
  /\ phase = "precise" /\ frames = << >> /\ NumResults > 0
  /\ phase' = "idle"
  /\ UNCHANGED << db, Key, Stack, frames, stmts, Names, NumResults, Output,
                  failed >>

StartVague ==
  /\ phase = "precise" /\ frames = << >> /\ NumResults = 0
  /\ phase' = "vague"
  /\ Stack' = reset(Stack)
  /\ UNCHANGED << db, Key, frames, stmts, Names, NumResults, Output, failed >>

LookupScopes ==
  /\ phase = "vague" /\ frames = << >> /\ Names = {} /\ stmts < 2
  /\ stmts' = stmts + 1
  /\ \E seen \in Read(SelectScopes(stmts + 1, Key[1])) :
       /\ Names' = seen
       /\ failed' = (failed \/ seen # SelectScopes(stmts + 1, Key[1]))
  /\ UNCHANGED << db, phase, Key, Stack, frames, NumResults, Output >>

(* Returns without a word on the standard output.                          *)
LookupScopesFails ==
  /\ "query" \in Faults
  /\ phase = "vague" /\ frames = << >> /\ Names = {} /\ stmts < 2
  /\ phase' = "idle"
  /\ failed' = TRUE
  /\ UNCHANGED << db, Key, Stack, frames, stmts, Names, NumResults, Output >>

DescendFrom ==
  /\ phase = "vague" /\ frames = << >>
  /\ \E name \in Names :
       /\ Names' = Names \ {name}
       /\ Stack' = push(Stack, name)
       /\ frames' = << NewFrame(1, Stack'.Buffer) >>
  /\ UNCHANGED << db, phase, Key, stmts, NumResults, Output, failed >>

(* Variant: the test for no result is forgotten.                           *)
EndVagueSilently ==
  /\ phase = "vague" /\ frames = << >> /\ Names = {} /\ stmts = 2
  /\ phase' = "idle"
  /\ UNCHANGED << db, Key, Stack, frames, stmts, Names, NumResults, Output,
                  failed >>

EndVague ==
  /\ phase = "vague" /\ frames = << >> /\ Names = {} /\ stmts = 2
  /\ phase' = "idle"
  /\ Output' = Output \cup {l \in {NoResultLine} : NumResults = 0}
  /\ UNCHANGED << db, Key, Stack, frames, stmts, Names, NumResults, failed >>

Work ==
  \/ Lookup \/ LookupFails \/ Descended
  \/ Enter \/ HitNamespace \/ HitSymbol
  \/ PreciseFound \/ StartVague
  \/ LookupScopes \/ LookupScopesFails \/ DescendFrom \/ EndVague

Next == Query \/ Work

(* One thread: what was begun is done before the next query is read, which *)
(* the user may or may not type.                                           *)
Spec == Init /\ [][Next]_vars /\ WF_vars(Work)

-----------------------------------------------------------------------------
(* Properties of the stack. *)

(* The invariant of StringStack's comment, whatever fails.                 *)
StackTopIsLength == Coherent(Stack)

(* A loop over members goes on under the scope it started with, whatever   *)
(* was looked up in between: "gradually descend into nested scopes"        *)
(* (retrieve.cc:10).                                                       *)
DescendsInScope == frames # << >> => Stack.Buffer = Top.cur

StackOfNames == INSTANCE NameStack WITH stack <- Texts(Stack), text <- Stack.Buffer

(* Each query uses its StringStack as a stack of scope names.              *)
ImplementsNameStack == StackOfNames!Spec

-----------------------------------------------------------------------------
(* Properties of the answer.  They are stated breadth first, over the rows *)
(* alone.                                                                  *)

Rows == db.namespace \cup db.class
Whole(r) == r.name \o r.member

(* The rows that the identifiers of the query lead to from scope.          *)
Leads(scope) ==
  {p \in [DOMAIN Key -> Rows] :
     /\ p[1].name = scope
     /\ \A i \in DOMAIN Key : IsNamed(p[i].member, Key[i])
     /\ \A i \in DOMAIN Key : i > 1 => p[i].name = Whole(p[i - 1])}

Matches(scope) == {p[Len(Key)] : p \in Leads(scope)}

(* What is printed for them at least, and at most.                         *)
Exact(scope) ==
  {NamespaceLine : r \in {r \in Matches(scope) : r.ns}} \cup
  {s.at : s \in {s \in db.symbol :
     \E r \in Matches(scope) : ~r.ns /\ s.name = Whole(r)}}
Loose(scope) ==
  Exact(scope) \cup {s.at : s \in {s \in db.symbol :
    \E r \in Matches(scope) : ~r.ns /\ StartsLike(s.name, Whole(r))}}

Starts == {r.name : r \in {r \in Rows : IsNamed(r.member, Key[1])}}

(* Without failures the answer is what the query says: the declarations of *)
(* that whole name, or if there are none, those of a whole name that ends  *)
(* so; those whose whole name begins with it only if no other was found    *)
(* before; and "No result found" only if there are none at all.            *)
Answered ==
  phase = "idle" /\ Key # << >> /\ ~failed =>
    LET AnyExact == UNION {Exact(n) : n \in Starts}
        AnyLoose == UNION {Loose(n) : n \in Starts}
    IN
    IF Loose(<< >>) # {} THEN
      /\ Exact(<< >>) \subseteq Output /\ Output \subseteq Loose(<< >>)
      /\ Output # {}
    ELSE IF AnyLoose # {} THEN
      /\ AnyExact \subseteq Output /\ Output \subseteq AnyLoose
      /\ Output # {}
    ELSE Output = {NoResultLine}

(* Even if calls fail, no line is about another declaration: every         *)
(* location is that of a symbol the query leads to from some scope.        *)
Sound ==
  Key # << >> =>
    Output \cap Loc \subseteq UNION {Loose(n) : n \in {<< >>} \cup {r.name : r \in Rows}}

(* Every query is answered, and the next one can be read.                  *)
Answers == phase # "idle" ~> phase = "idle"
=============================================================================
