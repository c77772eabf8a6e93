--------------------------- MODULE MCNodeBinding ---------------------------
(* Instances of NodeBinding are given by their configurations. *)
EXTENDS NodeBinding

CONSTANTS r1, r2, r3
=============================================================================
