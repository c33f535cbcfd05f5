------------------------------- MODULE MC_Grid -------------------------------
(***************************************************************************)
(* A small instance of GridSearch: two rates and a PCA list that repeats   *)
(* a value (-p 8,8), so the cross product has four tasks of which two are  *)
(* equal; two worker threads, so completions interleave.                   *)
(***************************************************************************)
EXTENDS GridSearch

CONSTANTS w1, w2

MCRates == <<1, 2>>
MCMomentums == <<1>>
MCPcaDims == <<8, 8>>
MCHiddenDims == <<10>>
MCWorkers == {w1, w2}

=============================================================================
