---------------------------- MODULE MCTraceReplay ----------------------------
(* Small instances of TraceReplay for TLC. *)
EXTENDS TraceReplay

CONSTANTS r1, r2

\* Two branches that meet in node x, and the join, where the Run ends.
Branching ==
    [roots |-> {r1}, faults |-> 2, crashes |-> 1, steps |-> 3, entry |-> "p",
     kind |-> "p" :> "parallel" @@ "b" :> "executor" @@ "x" :> "executor" @@ "e" :> "executor",
     next |-> "p" :> ("ok" :> "e") @@ "b" :> ("ok" :> "x" @@ "fail" :> Done)
              @@ "x" :> ("ok" :> "e" @@ "fail" :> "e") @@ "e" :> ("ok" :> Done),
     branches |-> "p" :> {"b", "x"}, join |-> "p" :> "e"]

\* A human node before the same branches.
Suspending ==
    [Branching EXCEPT !.faults = 1, !.steps = 4, !.entry = "h",
                      !.kind = @ @@ "h" :> "human", !.next = @ @@ "h" :> ("ok" :> "p")]

\* Two Runs of a Workflow with a loop write to the same sink.
Looping ==
    [roots |-> {r1, r2}, faults |-> 1, crashes |-> 1, steps |-> 2, entry |-> "a",
     kind |-> "a" :> "executor",
     next |-> "a" :> ("ok" :> Done @@ "again" :> "a" @@ "fail" :> Done),
     branches |-> <<>>, join |-> <<>>]

\* A node with an effect and one without, and room for a crash and two lost
\* events.
Effects ==
    [roots |-> {r1}, faults |-> 3, crashes |-> 3, steps |-> 4, entry |-> "a",
     kind |-> "a" :> "effect" @@ "b" :> "executor",
     next |-> "a" :> ("ok" :> "b" @@ "fail" :> "b") @@ "b" :> ("ok" :> Done @@ "fail" :> Done),
     branches |-> <<>>, join |-> <<>>]

MCWorkflows == {Branching, Suspending, Looping, Effects}
==============================================================================
