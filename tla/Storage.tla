------------------------------- MODULE Storage -------------------------------
(***************************************************************************)
(* The two databases behind DatabaseInterface (include/storage.h) as their *)
(* caller sees them: insertions, and the iterators that QuerySymbol,       *)
(* QueryClass and QueryNamespace return (src/iterator.cc).  A row is the   *)
(* sequence of its columns, a query the table and the first one or two of  *)
(* them.  The calls of one program come one after the other; InsertSymbol  *)
(* normalizes the path (PathName) in the course of one.                    *)
(*                                                                         *)
(* SQLite is external: an iterator is a statement.  It returns what        *)
(* matched when it was first stepped, in any order; rows that are inserted *)
(* meanwhile may or may not be seen; stepped after the end or an error it  *)
(* starts again; and other connections commit only between scans.          *)
(***************************************************************************)
EXTENDS PathName

CONSTANTS
  Iterator,
  Query,          \* records of table and keys
  Row,            \* pairs of a table and a row, the ones that are inserted
  Single,         \* bound: rows of symbol that are only inserted in an empty
                  \* database that nobody queries
  NRows           \* bound: rows of all tables together

Table == {"class", "namespace", "symbol"}

ASSUME QueryAssumption == \A q \in Query : q.table \in Table
ASSUME RowAssumption ==
  /\ \A x \in Row : x[1] \in Table /\ (x[1] = "symbol" => IsPath(x[2][2]))
  /\ \A x \in Single : IsPath(x[2])

VARIABLES
  database,       \* "memory" or "sqlite"
  tables,
  inserting,      \* the row that InsertSymbol was called with, while it runs
  inTransaction,
  iter            \* the iterators in use

rowVars == << database, tables, inserting, inTransaction, iter >>
vars == << pathVars, rowVars >>

Init ==
  /\ PathInit
  /\ database \in {"memory", "sqlite"}
  /\ tables = [t \in Table |-> << >>]
  /\ inserting = << >> /\ inTransaction = FALSE
  /\ iter = << >>

Idle == inserting = << >> /\ UNCHANGED pathVars

TransactionBegin ==
  /\ Idle
  /\ inTransaction' = TRUE
  /\ UNCHANGED << database, tables, inserting, iter >>

Commit ==
  /\ Idle
  /\ inTransaction' = FALSE
  /\ UNCHANGED << database, tables, inserting, iter >>

Store(t, row) ==
  /\ tables' = [tables EXCEPT ![t] = Append(@, row)]
  /\ UNCHANGED << database, inTransaction, iter >>

Room == Len(tables["class"]) + Len(tables["namespace"]) + Len(tables["symbol"]) < NRows

Empty == iter = << >> /\ \A t \in Table : tables[t] = << >>

(* InsertIntoClass, InsertIntoNamespace: in memory only in a transaction.  *)
(* What SQLite refuses is not there, and nothing else has changed.         *)
Insert(t, row) ==
  /\ Idle /\ Room
  /\ t # "symbol"
  /\ database = "memory" => inTransaction
  /\ Store(t, row)
  /\ UNCHANGED inserting

InsertSymbol(row) ==
  /\ inserting = << >> /\ Room
  /\ \/ /\ database = "memory"
        /\ Store("symbol", row)
        /\ UNCHANGED << inserting, pathVars >>
     \/ /\ database = "sqlite"
        /\ NormalizePathName(row[2])
        /\ inserting' = row
        /\ UNCHANGED << database, tables, inTransaction, iter >>

InsertNormalized ==
  /\ inserting # << >> /\ stage = "done"
  /\ Store("symbol", << inserting[1], Text, inserting[3] >>)
  /\ inserting' = << >>
  /\ Return

Scanning(i) == iter[i].seen # {}

(* Another connection commits a row.  A transaction of ours keeps it out   *)
(* from its first statement on; here from its BEGIN.                       *)
OthersInsert(t, row) ==
  /\ Idle /\ Room
  /\ database = "sqlite" /\ ~inTransaction
  /\ \A i \in DOMAIN iter : ~Scanning(i)
  /\ Store(t, row)
  /\ UNCHANGED inserting

-----------------------------------------------------------------------------
(* Of an iterator: its query; at, Index in memory; base and seen, what     *)
(* SQLite is to return and has returned in the current scan; the result of *)
(* the last next; and as history, first, whether the first pass is on,     *)
(* count, how many rows it has returned, and due, what matched when the    *)
(* query was made.                                                         *)
Predicate(q, row) == SubSeq(row, 1, Len(q.keys)) = q.keys
Matching(q) == {j \in DOMAIN tables[q.table] : Predicate(q, tables[q.table][j])}
Columns(q, row) == << 1, SubSeq(row, Len(q.keys) + 1, Len(row)) >>
Produced(i, j) == Columns(iter[i].query, tables[iter[i].query.table][j])

Counted(i) == IF iter[i].first THEN iter[i].count + 1 ELSE 0

Of(i) == Idle /\ i \in DOMAIN iter /\ UNCHANGED << database, tables, inserting, inTransaction >>

QueryRows(i, q) ==
  /\ Idle /\ i \notin DOMAIN iter
  /\ iter' = [k \in DOMAIN iter \cup {i} |->
                IF k # i THEN iter[k]
                ELSE [query |-> q, at |-> 0, base |-> {}, seen |-> {},
                      result |-> << 0 >>, first |-> TRUE, count |-> 0,
                      due |-> Matching(q)]]
  /\ UNCHANGED << database, tables, inserting, inTransaction >>

(* Variant: Index stays at the row that is returned.                       *)
NextInMemoryStays(i) ==
  /\ Of(i) /\ database = "memory"
  /\ \E j \in Matching(iter[i].query) :
       /\ j >= iter[i].at
       /\ \A k \in Matching(iter[i].query) : k < iter[i].at \/ k >= j
       /\ iter' = [iter EXCEPT ![i].at = j, ![i].count = Counted(i),
                               ![i].result = Produced(i, j)]

NextInMemory(i) ==
  /\ Of(i) /\ database = "memory"
  /\ \E j \in Matching(iter[i].query) :
       /\ j > iter[i].at
       /\ \A k \in Matching(iter[i].query) : k <= iter[i].at \/ k >= j
       /\ iter' = [iter EXCEPT ![i].at = j, ![i].count = Counted(i),
                               ![i].result = Produced(i, j)]

EndInMemory(i) ==
  /\ Of(i) /\ database = "memory"
  /\ \A j \in Matching(iter[i].query) : j <= iter[i].at
  /\ iter' = [iter EXCEPT ![i].at = Len(tables[iter[i].query.table]),
                          ![i].result = << 0 >>, ![i].first = FALSE, ![i].count = 0]

Base(i) == IF Scanning(i) THEN iter[i].base ELSE Matching(iter[i].query)

StepRow(i) ==
  /\ Of(i) /\ database = "sqlite"
  /\ \E j \in Matching(iter[i].query) \ iter[i].seen :
       iter' = [iter EXCEPT ![i].base = Base(i), ![i].seen = @ \cup {j},
                            ![i].count = Counted(i), ![i].result = Produced(i, j)]

(* SQLITE_DONE, or an error: BUSY, when another process holds the lock.    *)
StepEnds(i) ==
  /\ Of(i) /\ database = "sqlite"
  /\ \E code \in {0, -1} :
       /\ code = 0 => Base(i) \subseteq iter[i].seen
       /\ iter' = [iter EXCEPT ![i].base = {}, ![i].seen = {},
                               ![i].result = << code >>, ![i].first = FALSE,
                               ![i].count = 0]

Delete(i) ==
  /\ Of(i)
  /\ iter' = [k \in DOMAIN iter \ {i} |-> iter[k]]

Next ==
  \/ TransactionBegin \/ Commit
  \/ \E x \in Row : \/ Insert(x[1], x[2]) \/ OthersInsert(x[1], x[2])
                    \/ x[1] = "symbol" /\ InsertSymbol(x[2])
  \/ Empty /\ \E x \in Single : InsertSymbol(x)
  \/ PathStep /\ UNCHANGED rowVars
  \/ InsertNormalized
  \/ \E i \in Iterator : \/ \E q \in Query : QueryRows(i, q)
                         \/ NextInMemory(i) \/ EndInMemory(i)
                         \/ StepRow(i) \/ StepEnds(i) \/ Delete(i)

Spec == Init /\ [][Next]_vars

-----------------------------------------------------------------------------
Got(i) ==
  IF database = "sqlite" THEN iter[i].seen
  ELSE {j \in Matching(iter[i].query) : j <= iter[i].at}

Open ==
  [i \in DOMAIN iter |->
     [query |-> iter[i].query, first |-> iter[i].first,
      count |-> iter[i].count, result |-> iter[i].result,
      due |-> IF iter[i].first THEN iter[i].due ELSE {},
      got |-> IF iter[i].first THEN Got(i) ELSE {}]]

Contract == INSTANCE IteratorBase WITH open <- Open

(* The iterators of both databases keep the promise of IteratorBase, while *)
(* the program goes on inserting, and other processes too.                 *)
ImplementsIteratorBase == Contract!Spec
=============================================================================
