----------------------------- MODULE IteratorBase -----------------------------
(***************************************************************************)
(* What an iterator promises to the loop that collects its rows, whatever  *)
(* the database: what it produces are rows that match its query; in its    *)
(* first pass none of them comes twice, and when it says that there are no *)
(* more it has produced all that matched when the query was made.  A pass  *)
(* may end in an error instead, and a call after the end may produce       *)
(* anything that matches.                                                  *)
(***************************************************************************)
EXTENDS Integers, Sequences

CONSTANTS Iterator, Query

VARIABLES
  tables,     \* the rows of each table, in the order of insertion
  open        \* the iterators in use: query, due, got, count,
              \* first, result

Matches(q) ==
  {j \in DOMAIN tables[q.table] :
     SubSeq(tables[q.table][j], 1, Len(q.keys)) = q.keys}
Columns(q, j) ==
  SubSeq(tables[q.table][j], Len(q.keys) + 1, Len(tables[q.table][j]))
Found(q, j) == << 1, Columns(q, j) >>

Init == (\A t \in DOMAIN tables : tables[t] = << >>) /\ open = << >>

Insert(t) ==
  /\ Len(tables'[t]) > Len(tables[t])
  /\ tables' = [tables EXCEPT ![t] = Append(@, tables'[t][Len(@) + 1])]
  /\ UNCHANGED open

Begin(i, q) ==
  /\ i \notin DOMAIN open
  /\ open' = [k \in DOMAIN open \cup {i} |->
                IF k # i THEN open[k]
                ELSE [query |-> q, due |-> Matches(q), got |-> {}, count |-> 0,
                      first |-> TRUE, result |-> << 0 >>]]
  /\ UNCHANGED tables

Produce(i) ==
  /\ open[i].first
  /\ \E j \in Matches(open[i].query) \ open[i].got :
       open' = [open EXCEPT ![i] =
                  [query |-> @.query, due |-> @.due, got |-> @.got \cup {j},
                   count |-> @.count + 1, first |-> TRUE, result |-> Found(@.query, j)]]
  /\ UNCHANGED tables

End(i) ==
  /\ open[i].first
  /\ \E code \in {0, -1} :
       /\ code = 0 => open[i].due \subseteq open[i].got
       /\ open' = [open EXCEPT ![i] =
                     [query |-> @.query, due |-> {}, got |-> {}, count |-> 0,
                      first |-> FALSE, result |-> << code >>]]
  /\ UNCHANGED tables

Again(i) ==
  /\ ~open[i].first
  /\ \E r \in {<< 0 >>, << -1 >>} \cup {Found(open[i].query, j) : j \in Matches(open[i].query)} :
       open' = [open EXCEPT ![i] =
                  [query |-> @.query, due |-> {}, got |-> {}, count |-> 0,
                   first |-> FALSE, result |-> r]]
  /\ UNCHANGED tables

Delete(i) ==
  /\ open' = [k \in DOMAIN open \ {i} |-> open[k]]
  /\ UNCHANGED tables

Next ==
  \/ \E t \in DOMAIN tables : Insert(t)
  \/ \E i \in Iterator, q \in Query : Begin(i, q)
  \/ \E i \in DOMAIN open : Produce(i) \/ End(i) \/ Again(i) \/ Delete(i)

Spec == Init /\ [][Next]_<< tables, open >>
=============================================================================
