---------------------------- MODULE MCSqliteStore ----------------------------
(***************************************************************************)
(* Two compilers and a reader.                                             *)
(***************************************************************************)
EXTENDS SqliteStore, TLC

(* For runs without a liveness property.                                   *)
Alike == Permutations(Compiler)
=============================================================================
