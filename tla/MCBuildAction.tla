---------------------------- MODULE MCBuildAction ----------------------------
(***************************************************************************)
(* BuildAction with every command line of at most MaxArgs arguments, and   *)
(* at most two inputs of the plugin.                                       *)
(***************************************************************************)
EXTENDS BuildAction

CONSTANT MaxArgs

UpTo(n, S) == UNION {[1..m -> S] : m \in 0..n}
Is(what, values) == {[is |-> what, value |-> v] : v \in values}

MCPluginArgs ==
  UpTo(MaxArgs, Is("help", {"-h"}) \cup Is("output", {"", "f", "g"}) \cup Is("other", {"-v"}))

(* c is a file, and the name of a language too.                            *)
MCArgvs ==
  UpTo(MaxArgs, Is("input", {"a.cc", "c"}) \cup Is("x", {"", "c++"}) \cup Is("I", {"", "d"})
                  \cup Is("std", {"", "c99", "c++11"}) \cup Is("other", {"-"}))

MCInputs == UpTo(2, {<< "a.cc", "c++" >>, << "c", "c" >>}) \ {<< >>}
=============================================================================
