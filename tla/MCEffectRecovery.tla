-------------------------- MODULE MCEffectRecovery --------------------------
(* Small instances of EffectRecovery.  "read" has no effect, "put" is an     *)
(* idempotent write, "send" must not be repeated and runs synchronously,     *)
(* "undo" must not be repeated and runs asynchronously.                      *)
EXTENDS EffectRecovery, TLC

CONSTANTS p1, p2

\* read, then put, then send; a failed send goes on to undo.
ReadPutSend == "read" :> "put" @@ "put" :> "send"
                   @@ [n \in {"send", "undo"} |-> End]
UndoOnError == "send" :> "undo" @@ [n \in {"read", "put", "undo"} |-> End]

\* One node and nothing after it.
Alone == [n \in Nodes |-> End]

Symmetry == Permutations(Procs)
=============================================================================
