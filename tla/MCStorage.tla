------------------------------ MODULE MCStorage ------------------------------
(***************************************************************************)
(* Storage on a small instance: two iterators over three rows of class and *)
(* one of symbol, and every path of at most MaxPath characters.            *)
(***************************************************************************)
EXTENDS Storage, TLC

CONSTANT MaxPath

Paths == {p \in UNION {[1..n -> {"/", ".", "c"}] : n \in 0..MaxPath} :
            p = << >> \/ p[Len(p)] # "/"}
Short == << "c" >>

MCRow ==
  {<< "class", << "a", "m", "t" >> >>, << "class", << "a", "n", "t" >> >>,
   << "class", << "b", "m", "t" >> >>, << "symbol", << "a", Short, 1 >> >>}
MCSingle == {<< "a", p, 1 >> : p \in Paths \ {Short}}

MCQuery ==
  {[table |-> "class", keys |-> << "a" >>], [table |-> "class", keys |-> << "a", "m" >>],
   [table |-> "symbol", keys |-> << "a" >>]}

Iterators == Permutations(Iterator)

(* Nothing comes after a row of Single.                                    *)
Bounded == \A j \in DOMAIN tables["symbol"] : tables["symbol"][j][2] = Short
=============================================================================
