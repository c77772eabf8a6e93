-------------------------- MODULE MCFileStateStore --------------------------
(* Small instances of FileStateStore. *)
EXTENDS FileStateStore, TLC

CONSTANTS p1, p2

Symmetry == Permutations(Procs)
=============================================================================
