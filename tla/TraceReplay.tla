----------------------------- MODULE TraceReplay -----------------------------
(***************************************************************************)
(* Runs that record a Full trace, the validation that turns the events a   *)
(* sink delivered into a replay plan, and the Run that executes the        *)
(* Workflow again with the recorded outcomes instead of its Executors.     *)
(*                                                                         *)
(* A Run is <<root, invocation>>: the events of a root and its children    *)
(* share the root's trace id, and an invocation is the sequence of the     *)
(* <<node, step, branch>> that led to it.  The Runs of one replay have the *)
(* root Replayed.  Of the events of a node, node_started stands for those  *)
(* before the outcome; payloads are reduced to the outcome they hold.      *)
(*                                                                         *)
(* A Workflow is [roots, faults, crashes, steps, entry, kind, next,        *)
(* branches, join]: faults bounds the lost events and the crashes          *)
(* together, crashes the latter, steps is the quota of a Run, and next     *)
(* leads from a node and an outcome ("fail" is one) to a node, or to Done; *)
(* a node that fails and has no such edge ends the Run.                    *)
(***************************************************************************)
EXTENDS Naturals, FiniteSets, SequencesExt, TLC

CONSTANTS
    Workflows,    \* the Workflows tried
    Done, Replayed, None

VARIABLES
    wf,
    runs,         \* the Runs so far: where they stand and what they got
    trace,        \* the events delivered, in order
    lost,         \* the events lost
    crashes,
    plan          \* the TraceReplayPlan, once prepared; its outcomes are the replay state

vars == <<wf, runs, trace, lost, crashes, plan>>

\* recounted: the step of some node is counted twice; late: of a branch, its
\* Run had been recounted when it was launched; misread: of a branch, its failure
\* was taken for a success when its Run was restored.
NewRun(node, stop, late) ==
    [node |-> node, stop |-> stop, status |-> "new", step |-> 0, seq |-> 0, children |-> <<>>,
     result |-> "none", got |-> <<>>, recounted |-> FALSE, late |-> late, misread |-> FALSE]

Reading ==
    [verdict |-> "reading", source |-> None, previous |-> <<>>, outcomes |-> <<>>,
     expected |-> None]

Init ==
    /\ wf \in Workflows
    /\ runs = [r \in wf.roots \X {<<>>} |-> NewRun(wf.entry, None, FALSE)]
    /\ trace = <<>> /\ lost = {} /\ crashes = 0 /\ plan = Reading

\* While a plan is replayed the recorded Runs have nothing to do with it.
Replaying == plan.verdict # "reading"
Ready(r, status) ==
    runs[r].status = status /\ (r[1] = Replayed <=> Replaying)
-----------------------------------------------------------------------------
(* Recording. *)

Event(name, node, out) == [event |-> name, node |-> node, out |-> out]
Numbered(r, events) ==
    [i \in DOMAIN events |-> [run |-> r, seq |-> runs[r].seq + i, body |-> events[i]]]
Picked(s, kept) == [i \in 1..Cardinality(kept) |-> s[SetToSortSeq(kept, <)[i]]]

\* The sink may lose some of the events.
Sink(all, faults) ==
    \E kept \in SUBSET DOMAIN all :
        /\ Cardinality(lost) + Len(all) - Cardinality(kept) + faults <= wf.faults
        /\ trace' = trace \o Picked(all, kept)
        /\ lost' = lost \cup {all[i] : i \in DOMAIN all \ kept}

\* emit numbers every event.  What a replay emits is not read.
Emit(r, events) ==
    IF Replaying THEN UNCHANGED <<trace, lost>> ELSE Sink(Numbered(r, events), crashes)

\* A Run's first execute_step.
Start(r) ==
    /\ Ready(r, "new") /\ Emit(r, <<Event("run_started", None, None)>>)
    /\ runs' = [runs EXCEPT ![r].status = "ready", ![r].seq = @ + 1]
    /\ UNCHANGED <<wf, crashes, plan>>

IsExecutor(node) == wf.kind[node] \in {"executor", "effect", "human"}
Succeeded(out) == out \notin {"fail", "missing"}
Target(node, out) ==
    LET label == IF Succeeded(out) THEN out ELSE "fail"
    IN IF label \in DOMAIN wf.next[node] THEN wf.next[node][label] ELSE Done

\* The outcome event, and run_completed where no edge leads on.
OutcomeEvents(node, out) ==
    <<Event(IF Succeeded(out) THEN "node_succeeded" ELSE "node_failed", node, out)>>
        \o (IF Target(node, out) = Done THEN <<Event("run_completed", node, out)>> ELSE <<>>)

\* The Run has got out at its node and moves on.  A branch that arrives at the
\* join returns what its last node gave, without an event.
Moved(r, out, events) ==
    LET x == runs[r]
        to == Target(x.node, out)
    IN [x EXCEPT !.node = to, !.seq = @ + Len(events), !.result = out,
                 !.status = IF to \in {Done, x.stop} THEN "over" ELSE "ready",
                 !.got = IF IsExecutor(x.node) THEN Append(@, <<x.node, out>>) ELSE @]

\* The recorded outcome of a node in an invocation: the first not yet used.
\* In a mutant the invocation does not count.
RecordedByNode(r, node) == SelectInSeq(plan.outcomes, LAMBDA o : o.node = node)
Recorded(r, node) ==
    SelectInSeq(plan.outcomes, LAMBDA o : o.invocation = r[2] /\ o.node = node)

\* An Executor answers, or the recorded outcome does for it.  The step was
\* counted when the node was entered.
Execute(r) ==
    /\ Ready(r, "ready") /\ IsExecutor(runs[r].node) /\ runs[r].step < wf.steps
    /\ LET node == runs[r].node
           i == Recorded(r, node)
       IN \E out \in IF ~Replaying THEN DOMAIN wf.next[node]
                     ELSE IF i = 0 THEN {"missing"} ELSE {plan.outcomes[i].out} :
            LET events == <<Event("node_started", node, None)>> \o OutcomeEvents(node, out)
            IN /\ Emit(r, events)
               /\ runs' = [runs EXCEPT ![r] = [Moved(r, out, events) EXCEPT !.step = @ + 1]]
               /\ plan' = IF Replaying /\ i # 0
                          THEN [plan EXCEPT !.outcomes = RemoveAt(@, i)] ELSE plan
    /\ UNCHANGED <<wf, crashes>>

\* A human node whose Executor suspends the Run: it stays at the node.
Suspend(r) ==
    /\ Ready(r, "ready") /\ ~Replaying /\ runs[r].step < wf.steps
    /\ wf.kind[runs[r].node] = "human"
    /\ Emit(r, <<Event("node_started", runs[r].node, None),
                 Event("run_suspended", runs[r].node, None)>>)
    /\ runs' = [runs EXCEPT ![r].status = "suspended", ![r].recounted = TRUE,
                            ![r].seq = @ + 2, ![r].step = @ + 1]
    /\ UNCHANGED <<wf, crashes, plan>>

\* resume enters the node again, as a further step, with the host's output.
Resume(r) ==
    /\ Ready(r, "suspended") /\ runs[r].step < wf.steps
    /\ \E out \in DOMAIN wf.next[runs[r].node] \ {"fail"} :
        LET node == runs[r].node
            events == <<Event("node_started", node, None)>> \o OutcomeEvents(node, out)
        IN /\ Emit(r, events)
           /\ runs' = [runs EXCEPT ![r] = [Moved(r, out, events) EXCEPT !.step = @ + 1]]
    /\ UNCHANGED <<wf, crashes, plan>>

Branches(r) == {runs[r].children[b] : b \in DOMAIN runs[r].children}

\* A branch that has a record goes on from it.  One that was at its end has
\* nothing left to do there and succeeds, whatever its result was.
TakenUp(c) ==
    IF runs[c].node \notin {Done, runs[c].stop} THEN [runs[c] EXCEPT !.status = "ready"]
    ELSE [runs[c] EXCEPT !.status = "over", !.result = "ok", !.misread = ~Succeeded(runs[c].result)]

\* The invocation of a branch names the node, the step and the branch; one with
\* a record has the invocation it had.
Fork(r) ==
    /\ Ready(r, "ready") /\ wf.kind[runs[r].node] = "parallel" /\ runs[r].step < wf.steps
    /\ Emit(r, <<Event("node_started", runs[r].node, None)>>)
    /\ LET x == runs[r]
           kept == {b \in DOMAIN x.children : runs[x.children[b]].status = "kept"}
           child == [b \in wf.branches[x.node] |->
                       IF b \in kept THEN x.children[b]
                       ELSE <<r[1], Append(r[2], <<x.node, x.step + 1, b>>)>>]
       IN runs' = [c \in {child[b] : b \in kept} |-> TakenUp(c)]
                  @@ [runs EXCEPT ![r].status = "waiting", ![r].seq = @ + 1, ![r].step = @ + 1,
                                  ![r].children = child]
                  @@ [c \in {child[b] : b \in DOMAIN child \ kept} |->
                        NewRun(c[2][Len(c[2])][3], wf.join[x.node], x.recounted)]
    /\ UNCHANGED <<wf, crashes, plan>>

\* Every branch has returned: with one of them failed, the node fails.
Returned(r) == \A c \in Branches(r) : runs[c].status = "over"
Joined(r) == IF \A c \in Branches(r) : Succeeded(runs[c].result) THEN "ok" ELSE "fail"
Join(r) ==
    /\ Ready(r, "waiting") /\ Returned(r)
    /\ LET events == OutcomeEvents(runs[r].node, Joined(r))
       IN /\ Emit(r, events)
          /\ runs' = [runs EXCEPT ![r] = [Moved(r, Joined(r), events) EXCEPT !.children = <<>>]]
    /\ UNCHANGED <<wf, crashes, plan>>

\* MAX_STEPS ends the Run without an event.
OutOfSteps(r) ==
    /\ Ready(r, "ready") \/ Ready(r, "suspended")
    /\ runs[r].step = wf.steps
    /\ runs' = [runs EXCEPT ![r].status = "over", ![r].result = "fail"]
    /\ UNCHANGED <<wf, trace, lost, crashes, plan>>

\* The events of a visit of a node up to the save that ends it.
Visits(r) ==
    LET node == runs[r].node
        started == Event("node_started", node, None)
    IN CASE runs[r].status \in {"ready", "suspended"} /\ runs[r].step < wf.steps ->
              IF ~IsExecutor(node) THEN {<<started>>}
              ELSE {<<started, OutcomeEvents(node, out)[1]>> : out \in DOMAIN wf.next[node]}
                   \cup (IF wf.kind[node] # "human" THEN {}
                          ELSE {<<started, Event("run_suspended", node, None)>>})
         [] runs[r].status = "waiting" /\ Returned(r) ->
              {<<OutcomeEvents(node, Joined(r))[1]>>}
         [] OTHER -> {<<>>}

\* What a process that dies leaves of a Run: the first events of the visit, and
\* the last save, which at a node with an effect may be one inside the visit
\* (saved = 1), with the node started and counted.
Remains(r) ==
    {x \in [events : UNION {Prefixes(v) : v \in Visits(r)}, saved : 0..1] :
        x.saved = 1 => /\ runs[r].status = "ready" /\ wf.kind[runs[r].node] = "effect"
                       /\ x.events # <<>>}

\* The Run as it was saved.
Saved(r, x) ==
    [runs[r] EXCEPT !.seq = @ + x.saved, !.step = @ + x.saved, !.recounted = @ \/ x.saved = 1]

\* The process dies, and restore_run goes on from the last save of the root,
\* where there is one.  The root was saved in the node whose branches it waits
\* for; a branch is kept if it was saved too.
CrashAndRestore(r) ==
    /\ ~Replaying /\ r[2] = <<>> /\ crashes < wf.crashes
    /\ runs[r].status \in {"ready", "suspended", "waiting"}
    /\ LET all == {r} \cup Branches(r)
       IN \E remains \in [all -> UNION {Remains(c) : c \in all}] :
            LET left == [c \in all |-> Saved(c, remains[c])]
                root == [left[r] EXCEPT !.seq = @ + 1,
                                        !.status = IF @ = "waiting" THEN "ready" ELSE @,
                                        !.recounted = @ \/ runs[r].status = "waiting"]
                emitted == {Numbered(c, remains[c].events) : c \in all}
                restored == [run |-> r, seq |-> root.seq,
                             body |-> Event("run_restored", runs[r].node, None)]
            IN /\ \A c \in all : remains[c] \in Remains(c)
               /\ root.step > 0
               /\ Sink(Append(FlattenSeq(SetToSeq(emitted)), restored), crashes + 1)
               /\ runs' = (r :> root)
                    @@ [c \in Branches(r) |->
                          [left[c] EXCEPT !.status = IF left[c].step > 0 THEN "kept" ELSE "dead"]]
                    @@ runs
    /\ crashes' = crashes + 1
    /\ UNCHANGED <<wf, plan>>
-----------------------------------------------------------------------------
(* prepare_trace_replay. *)

Refused(p, why) == [p EXCEPT !.verdict = why]

\* An event of a Run that is known, which has to be the next of its Run.
Accepted(p, e) ==
    [p EXCEPT
        !.previous[e.run] = e.seq,
        !.outcomes = IF e.body.event \in {"node_succeeded", "node_failed"}
                          /\ IsExecutor(e.body.node)
                     THEN Append(@, [invocation |-> e.run[2], node |-> e.body.node,
                                     out |-> e.body.out])
                     ELSE @,
        !.expected = IF e.body.event = "run_completed" /\ e.run = p.source
                     THEN e.body.out ELSE @]

\* In a mutant all Runs of the trace share one sequence.
IsNextOfAll(p, e) == \A r \in DOMAIN p.previous : e.seq > p.previous[r]
IsNext(p, e) == e.seq = p.previous[e.run] + 1

ReadEvent(p, e) ==
    LET known == e.run \in DOMAIN p.previous
        starts == e.body.event = "run_started"
    IN CASE p.verdict # "reading" -> p
         [] p.verdict = "reading" /\ p.source = None ->
              IF starts THEN [p EXCEPT !.source = e.run, !.previous = e.run :> e.seq] ELSE p
         [] OTHER ->
              IF e.run[1] # p.source[1] THEN p
              ELSE IF ~known /\ starts THEN [p EXCEPT !.previous = (e.run :> e.seq) @@ @]
              ELSE IF known /\ IsNext(p, e) THEN Accepted(p, e)
              ELSE Refused(p, IF known /\ e.seq <= p.previous[e.run]
                              THEN "sequence_invalid" ELSE "trace_incomplete")

Prepared ==
    LET p == FoldLeft(ReadEvent, Reading, trace)
    IN CASE p.verdict # "reading" -> p
         [] p.verdict = "reading" /\ p.source = None -> Refused(p, "run_not_found")
         [] p.verdict = "reading" /\ p.source # None /\ p.expected = None ->
              Refused(p, "trace_incomplete")
         [] OTHER -> [p EXCEPT !.verdict = "accepted"]

\* The host prepares a plan at any time, and creates and executes its Run.
Prepare ==
    /\ ~Replaying /\ plan' = Prepared
    /\ runs' = IF plan'.verdict = "accepted"
               THEN (<<Replayed, <<>>>> :> NewRun(wf.entry, None, FALSE)) @@ runs ELSE runs
    /\ UNCHANGED <<wf, trace, lost, crashes>>
-----------------------------------------------------------------------------
Next ==
    \/ Prepare
    \/ \E r \in DOMAIN runs :
        \/ Start(r) \/ Execute(r) \/ Suspend(r) \/ Resume(r) \/ Fork(r) \/ Join(r)
        \/ OutOfSteps(r) \/ CrashAndRestore(r)

Spec == Init /\ [][Next]_vars
-----------------------------------------------------------------------------
Final(r) == runs[r].status = "over" /\ runs[r].node = Done

\* A replay Run gives each node the outcome that the same visit of it had in
\* the same invocation of the source Run, and it ends as the source did.
Reproduces ==
    plan.verdict = "accepted" => \A r \in DOMAIN runs : r[1] = Replayed =>
        LET source == <<plan.source[1], r[2]>>
        IN /\ source \in DOMAIN runs /\ IsPrefix(runs[r].got, runs[source].got)
           /\ runs[r].status = "over" /\ r[2] = <<>> =>
                runs[r].result = runs[source].result

\* A trace that lost the end of a branch (a branch has no last event that
\* would be missed).
ChildTailLost == \E l \in lost :
    /\ l.run[2] # <<>>
    /\ \A i \in DOMAIN trace : trace[i].run = l.run => trace[i].seq < l.seq

\* One that lost the start of the root, so that a branch is taken for the root.
SourceIsBranch == plan.source # None /\ plan.source[2] # <<>>

\* A Run that launched a branch after it had counted the step of a node twice,
\* because it was resumed or restored inside that node: a replay counts it
\* once, and looks for the outcomes of the branch under another invocation.
BranchAfterRecount == \E c \in DOMAIN runs : runs[c].late

\* A Run restored after one of its branches had failed, which then passed for
\* a success.
FailureMisread == \E c \in DOMAIN runs : runs[c].misread

\* A trace with an outcome of a process that died, whose number a lost event
\* of the restored Run has too.
OutcomeOfTheDead == \E l \in lost : \E i \in DOMAIN trace :
    /\ trace[i].run = l.run /\ trace[i].seq = l.seq
    /\ trace[i].body.event \in {"node_succeeded", "node_failed"}

\* What prepare_trace_replay accepts can be replayed: apart from those five
\* cases, a plan reproduces the source Run, whichever events were lost, where
\* ever the process died, whatever other Runs wrote to the same sink, and in
\* whatever order branches were and are executed.
AcceptedReproduces ==
    \/ ChildTailLost \/ SourceIsBranch \/ BranchAfterRecount \/ FailureMisread
    \/ OutcomeOfTheDead \/ Reproduces

\* The validation is no stricter than it has to be: the trace of a Run that
\* completed without a crash, delivered whole, is accepted.
CompleteAccepted ==
    plan.verdict \notin {"reading", "accepted"} /\ lost = {} /\ crashes = 0 =>
        plan.source = None \/ ~Final(plan.source)
==============================================================================
