---------------------------- MODULE MCRunDriver ----------------------------
(* Small instances of RunDriver for TLC. *)
EXTENDS RunDriver, TLC

CONSTANTS n1, n2, c1

MCNodes == {n1, n2}

\* An asynchronous node with a timeout and two attempts, then a human node.
HumanKind == n1 :> "async" @@ n2 :> "human"
HumanNext == n1 :> {n2} @@ n2 :> {Done}
HumanError == n1 :> {n2, Done} @@ n2 :> {Done}

\* A subflow, then an asynchronous node, then the subflow again or the end.
SubflowKind == n1 :> "async" @@ n2 :> "subflow"
SubflowNext == n2 :> {n1} @@ n1 :> {n2, Done}
SubflowError == n1 :> {Done} @@ n2 :> {n1}

TwoAttempts == n1 :> 2 @@ n2 :> 1
FirstTimed == n1 :> TRUE @@ n2 :> FALSE
=============================================================================
