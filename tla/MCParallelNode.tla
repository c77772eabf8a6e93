--------------------------- MODULE MCParallelNode ---------------------------
(* Small instances of ParallelNode. *)
EXTENDS ParallelNode

CONSTANTS w1, w2

\* Two modes and both ways to treat a failure; "all" is min_success with every
\* branch.
AnyAndMinimum == {[mode |-> "any", fail |-> "fast"], [mode |-> "min_success", fail |-> "wait"]}
WaitForAll == {[mode |-> "all", fail |-> "wait"]}
=============================================================================
