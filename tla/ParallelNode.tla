---------------------------- MODULE ParallelNode ----------------------------
(***************************************************************************)
(* One parallel node of a Run: its branches run as child Runs, in batches  *)
(* of at most max_parallel, each with a record of its own in the           *)
(* StateStore; the last child of a batch wakes the parent, which folds the *)
(* results, starts the next batch or applies the success policy, saves the *)
(* merged state and erases the child records.                              *)
(*                                                                         *)
(* The threads are the workers of the Scheduler, on which drives of the    *)
(* parent run, the children, a canceller and the host.  The process may    *)
(* crash; the host then restores the parent from its record.  What the     *)
(* nodes after the join do is one step; a single node stands for a branch. *)
(***************************************************************************)
EXTENDS Integers, FiniteSets

CONSTANTS
    N,            \* number of branches, launched in the order 1..N
    MaxParallel,  \* max_parallel after the cap by max_in_flight_tasks
    Policies,     \* the policies of the node tried
    Minimum,      \* min_success of the policy
    Workers,      \* worker threads of the Scheduler
    MaxExecutes,  \* bound on the execute calls of the host
    MaxFaults     \* bound on store and quota errors, refusals, crashes and cancels

ASSUME ParallelAssumption ==
    /\ N \in Nat \ {0} /\ MaxParallel \in Nat \ {0} /\ Minimum \in Nat
    /\ Policies \subseteq [mode : {"all", "any", "min_success"}, fail : {"wait", "fast"}]
    /\ MaxExecutes \in Nat /\ MaxFaults \in Nat

Branches == 1..N
InStep == {"loop", "launch", "commit", "erase", "join"}   \* inside execute_step

VARIABLES
    mode, fail,     \* the node's policy
    where, saved,   \* position of the Run in memory, and in its record
    cont,           \* parallel_continuation is set
    nextIndex, end, inFlight, launching, ready, batch,   \* its fields: batch_results,
    successes, failures, terminal,                       \* the counts so far
    child,          \* branch -> state of its child Run
    outcome,        \* branch -> result the child Run has in memory
    record,         \* branch -> what the child's record holds
    stopped,        \* branches whose child Run was cancelled
    pc, result,     \* worker -> step of its drive, and the result it returns
    queued,         \* continuations of the parent in the Scheduler's queue
    driving, answered, resumable,   \* driving, callback_delivered, resume_drive set
    erasing,        \* child records still to be erased after the commit
    cancel,         \* progress of the cancel call
    told,           \* what the host heard last
    executes, faults,
    truth,          \* history: branch -> what its last execution came to
    torn,           \* history: a launch was given up half way
    misread,        \* history: a failed child record was taken up as a success
    dropped,        \* history: a wake-up was refused and no drive has begun since
    unsaved,        \* history: the save of the Run's result failed
    kept            \* history: branches the erasing of whose record was given up

policy == <<mode, fail>>
fields == <<nextIndex, end, inFlight, launching, ready, batch, successes, failures, terminal>>
children == <<child, outcome, stopped>>
wake == <<queued, driving, answered, resumable>>
bounds == <<executes, faults>>
history == <<truth, torn, misread, dropped, unsaved, kept>>
vars == <<policy, where, saved, cont, fields, children, record, pc, result, wake, erasing,
          cancel, told, bounds, history>>

EmptyFields ==
    /\ nextIndex = 1 /\ end = 0 /\ inFlight = 0 /\ launching = FALSE /\ ready = FALSE
    /\ batch = {} /\ successes = 0 /\ failures = 0 /\ terminal = FALSE
NoFields ==
    /\ nextIndex' = 1 /\ end' = 0 /\ inFlight' = 0 /\ launching' = FALSE /\ ready' = FALSE
    /\ batch' = {} /\ successes' = 0 /\ failures' = 0 /\ terminal' = FALSE

Init ==
    /\ \E p \in Policies : mode = p.mode /\ fail = p.fail
    /\ where = "node" /\ saved = "none" /\ cont = FALSE /\ EmptyFields
    /\ child = [b \in Branches |-> "none"] /\ outcome = [b \in Branches |-> "none"]
    /\ record = [b \in Branches |-> "none"] /\ stopped = {}
    /\ pc = [w \in Workers |-> "idle"] /\ result = [w \in Workers |-> "none"]
    /\ queued = 0 /\ driving = FALSE /\ answered = TRUE /\ resumable = FALSE
    /\ erasing = {} /\ cancel = "ready" /\ told = "none"
    /\ executes = 0 /\ faults = 0
    /\ truth = [b \in Branches |-> "none"]
    /\ torn = FALSE /\ misread = FALSE /\ dropped = FALSE
    /\ unsaved = FALSE /\ kept = {}

Goto(w, step) == pc' = [pc EXCEPT ![w] = step]
Return(w, r) == Goto(w, "deliver") /\ result' = [result EXCEPT ![w] = r]
Fault == faults < MaxFaults /\ faults' = faults + 1 /\ UNCHANGED executes

\* A wake-up of the parent: schedule_continuation, whose refusal is swallowed.
WakeUp == queued' = queued + 1 /\ UNCHANGED dropped
WakeUpRefused == dropped' = TRUE /\ UNCHANGED queued
NoWakeUp == UNCHANGED <<queued, dropped>>

\* execute_async by the host, again after an error: install the drive and
\* submit it.
Execute ==
    /\ answered /\ executes < MaxExecutes /\ cancel = "ready" /\ told # "done"
    /\ executes' = executes + 1
    /\ answered' = FALSE /\ resumable' = TRUE /\ queued' = queued + 1
    /\ UNCHANGED <<policy, where, saved, cont, fields, children, record, pc, result, driving,
                   erasing, cancel, told, faults, history>>

\* A worker takes a continuation and marks the Run as driven.
DriveStart(w) ==
    /\ pc[w] = "idle" /\ queued > 0
    /\ queued' = queued - 1 /\ driving' = TRUE /\ dropped' = FALSE
    /\ Goto(w, "start")
    /\ UNCHANGED <<policy, where, saved, cont, fields, children, record, result, answered,
                   resumable, erasing, cancel, told, bounds, truth, torn, misread, unsaved, kept>>

\* execute_step, under drive_mutex, up to the parallel node: a completed Run
\* answers again, a cancelled one stops, the first entry saves the child ids.
EnterStep(w) ==
    /\ pc[w] = "start" /\ \A v \in Workers : pc[v] \notin InStep
    /\ \/ /\ where \in {"done", "failed"}
          /\ Return(w, where) /\ UNCHANGED <<saved, cont, bounds>>
       \/ /\ where \in {"node", "joined"} /\ cancel # "ready"
          /\ Return(w, "cancelled") /\ UNCHANGED <<saved, cont, bounds>>
       \/ /\ where = "joined" /\ cancel = "ready"
          /\ Goto(w, "join") /\ UNCHANGED <<result, saved, cont, bounds>>
       \/ /\ where = "node" /\ cancel = "ready" /\ ~cont
          /\ Return(w, "store_error") /\ Fault /\ UNCHANGED <<saved, cont>>
       \/ /\ where = "node" /\ cancel = "ready"
          /\ Goto(w, "loop") /\ cont' = TRUE
          /\ saved' = IF cont THEN saved ELSE "node"
          /\ UNCHANGED <<result, bounds>>
    /\ UNCHANGED <<policy, where, fields, children, record, wake, erasing, cancel, told, history>>

\* The results of a finished batch, folded into the counts; a failed branch
\* ends the node at once when the policy says fast.  In a mutant the results
\* are copied and not swapped out.
FoldCopies ==
    LET done == IF ready THEN batch ELSE {}
        good == {r.branch : r \in {x \in done : x.ok}}
        bad  == {r.branch : r \in {x \in done : ~x.ok}}
    IN /\ successes' = successes + Cardinality(good)
       /\ failures' = failures + Cardinality(bad)
       /\ terminal' = (terminal \/ (fail = "fast" /\ bad # {}))
       /\ batch' = batch /\ ready' = FALSE
Fold ==
    LET done == IF ready THEN batch ELSE {}
        good == {r.branch : r \in {x \in done : x.ok}}
        bad  == {r.branch : r \in {x \in done : ~x.ok}}
    IN /\ successes' = successes + Cardinality(good)
       /\ failures' = failures + Cardinality(bad)
       /\ terminal' = (terminal \/ (fail = "fast" /\ bad # {}))
       /\ batch' = batch \ done /\ ready' = FALSE

\* Nothing more is to be launched.
Decided == terminal' \/ (mode = "any" /\ successes' > 0) \/ nextIndex > N

\* The loop of the node.  Children in flight: give the worker back.
LoopPending(w) ==
    /\ pc[w] = "loop" /\ inFlight > 0 /\ ~ready
    /\ Goto(w, "post1")
    /\ UNCHANGED <<policy, where, saved, cont, fields, children, record, result, wake, erasing,
                   cancel, told, bounds, history>>

\* Otherwise the batch is folded, and the next one is begun unless the node is
\* decided.
BatchEnd(first) == IF N <= first + MaxParallel - 1 THEN N ELSE first + MaxParallel - 1
LoopBatch(w) ==
    /\ pc[w] = "loop" /\ (inFlight = 0 \/ ready)
    /\ Fold
    /\ IF Decided
         THEN Goto(w, "commit") /\ UNCHANGED <<end, launching>>
         ELSE /\ Goto(w, "launch") /\ launching' = TRUE
              /\ end' = BatchEnd(nextIndex)
    /\ UNCHANGED <<policy, where, saved, cont, nextIndex, inFlight, children, record, result,
                   wake, erasing, cancel, told, bounds, history>>

\* The next branch of the batch.  Its child Run is created, from its record
\* where there is one: a child whose record is final has nothing left to do.
\* In a mutant the record is not looked for.
LaunchChildAnew(w) ==
    /\ pc[w] = "launch" /\ nextIndex <= end
    /\ nextIndex' = nextIndex + 1 /\ inFlight' = inFlight + 1
    /\ child' = [child EXCEPT ![nextIndex] = "running"]
    /\ UNCHANGED <<policy, where, saved, cont, end, launching, ready, batch, successes, failures,
                   terminal, outcome, stopped, record, pc, result, wake, erasing, cancel, told,
                   bounds, history>>
LaunchChild(w) ==
    /\ pc[w] = "launch" /\ nextIndex <= end
    /\ nextIndex' = nextIndex + 1 /\ inFlight' = inFlight + 1
    /\ child' = [child EXCEPT ![nextIndex] =
                    IF record[nextIndex] = "none" THEN "running" ELSE "finished"]
    /\ outcome' = [outcome EXCEPT ![nextIndex] =
                    IF record[nextIndex] = "none" THEN "none" ELSE "ok"]
    /\ misread' = (misread \/ record[nextIndex] = "fail")
    /\ UNCHANGED <<policy, where, saved, cont, end, launching, ready, batch, successes, failures,
                   terminal, stopped, record, pc, result, wake, erasing, cancel, told, bounds,
                   truth, torn, dropped, unsaved, kept>>

\* Its submission is refused: execute_async answers on the launching thread.
\* A branch that has a record keeps what that came to.
LaunchRefused(w) ==
    /\ pc[w] = "launch" /\ nextIndex <= end /\ Fault
    /\ nextIndex' = nextIndex + 1
    /\ batch' = batch \cup {[branch |-> nextIndex, ok |-> FALSE]}
    /\ truth' = [truth EXCEPT ![nextIndex] =
                    IF record[nextIndex] = "none" THEN "refused" ELSE @]
    /\ UNCHANGED <<policy, where, saved, cont, end, inFlight, launching, ready, successes, failures,
                   terminal, children, record, pc, result, wake, erasing, cancel, told, torn,
                   misread, dropped, unsaved, kept>>

\* Its record cannot be read: the step returns in the middle of the launch.
LaunchTorn(w) ==
    /\ pc[w] = "launch" /\ nextIndex <= end /\ Fault
    /\ nextIndex' = nextIndex + 1
    /\ Return(w, "store_error") /\ torn' = TRUE
    /\ UNCHANGED <<policy, where, saved, cont, end, inFlight, launching, ready, batch, successes,
                   failures, terminal, children, record, wake, erasing, cancel, told, truth,
                   misread, dropped, unsaved, kept>>

\* The batch is out; if every child has answered already, it is complete.
LaunchEnd(w) ==
    /\ pc[w] = "launch" /\ nextIndex > end
    /\ launching' = FALSE /\ Goto(w, "loop") /\ end' = 0
    /\ ready' = (ready \/ inFlight = 0)
    /\ UNCHANGED <<policy, where, saved, cont, nextIndex, inFlight, batch, successes, failures,
                   terminal, children, record, result, wake, erasing, cancel, told, bounds, history>>

\* The success policy.  In a mutant min_success is off by one.
EnoughLess ==
    CASE mode = "any" -> successes > 0
      [] mode = "min_success" -> successes + 1 >= Minimum
      [] OTHER -> successes = N
Enough ==
    CASE mode = "any" -> successes > 0
      [] mode = "min_success" -> successes >= Minimum
      [] OTHER -> successes = N
Succeeds == ~terminal /\ Enough

\* The failure injector strikes between the children and the commit: the step
\* returns with the continuation still set.
Injected(w) ==
    /\ pc[w] = "commit" /\ Succeeds /\ Fault
    /\ Return(w, "injected")
    /\ UNCHANGED <<policy, where, saved, cont, fields, children, record, wake, erasing, cancel,
                   told, history>>

\* The outputs or the state exceed their quota: the step returns with the
\* continuation dropped, the position at the node and nothing saved.
QuotaExceeded(w) ==
    /\ pc[w] = "commit" /\ Fault
    /\ cont' = FALSE /\ NoFields /\ Return(w, "quota")
    /\ UNCHANGED <<policy, where, saved, children, record, wake, erasing, cancel, told, history>>

Records == {b \in Branches : record[b] # "none"}

\* The node is over: the continuation is dropped, the merged state and the
\* next position are saved in one compare_exchange.  An output above its quota
\* fails the node.  After a save that fails the Run goes on from the join in
\* memory, and nobody erases the child records.
Commit(w) ==
    /\ pc[w] = "commit"
    /\ where' \in (IF Succeeds THEN {"joined", "failed"} ELSE {"failed"})
    /\ cont' = FALSE /\ NoFields
    /\ \/ /\ saved' = where' /\ UNCHANGED <<bounds, kept>>
          /\ IF where' = "joined"
               THEN Goto(w, "erase") /\ erasing' = Records /\ UNCHANGED result
               ELSE Return(w, "failed") /\ UNCHANGED erasing
       \/ /\ Fault /\ Return(w, "store_error") /\ UNCHANGED <<saved, erasing>>
          /\ kept' = IF where' = "joined" THEN Records ELSE kept
    /\ UNCHANGED <<policy, children, record, wake, cancel, told, truth, torn, misread, dropped,
                   unsaved>>

\* DeleteOnParentCommit: one record after the other.  In a mutant the loop
\* ends with the last but one.
EraseChildShort(w) ==
    /\ pc[w] = "erase"
    /\ \/ /\ Cardinality(erasing) <= 1 /\ Goto(w, "join")
          /\ UNCHANGED <<result, record, erasing, bounds>>
       \/ \E b \in erasing :
            /\ erasing' = erasing \ {b} /\ record' = [record EXCEPT ![b] = "none"]
            /\ UNCHANGED <<pc, result, bounds>>
    /\ UNCHANGED <<policy, where, saved, cont, fields, children, wake, cancel, told, history>>
EraseChild(w) ==
    /\ pc[w] = "erase"
    /\ \/ /\ erasing = {} /\ Goto(w, "join")
          /\ UNCHANGED <<result, record, erasing, bounds, kept>>
       \/ /\ erasing = {} /\ Fault /\ Return(w, "injected")
          /\ UNCHANGED <<record, erasing, kept>>
       \/ \E b \in erasing :
            /\ erasing' = erasing \ {b} /\ record' = [record EXCEPT ![b] = "none"]
            /\ UNCHANGED <<pc, result, bounds, kept>>
       \/ /\ erasing # {} /\ Fault
          /\ Return(w, "store_error") /\ erasing' = {} /\ kept' = kept \cup erasing
          /\ UNCHANGED record
    /\ UNCHANGED <<policy, where, saved, cont, fields, children, wake, cancel, told, truth, torn,
                   misread, dropped, unsaved>>

\* The join and what follows it, up to the end of the Run.  The Run is marked
\* as completed before the save, which may fail; after it the failure injector
\* may strike.
Join(w) ==
    /\ pc[w] = "join"
    /\ \/ /\ where' = "done" /\ saved' = "done" /\ UNCHANGED unsaved
          /\ \/ Return(w, "done") /\ UNCHANGED bounds
             \/ Return(w, "injected") /\ Fault
       \/ /\ where' = "done" /\ unsaved' = TRUE /\ UNCHANGED saved
          /\ Return(w, "store_error") /\ Fault
       \/ /\ cancel # "ready" /\ Return(w, "cancelled")
          /\ UNCHANGED <<where, saved, bounds, unsaved>>
    /\ UNCHANGED <<policy, cont, fields, children, record, wake, erasing, cancel, told, truth, torn,
                   misread, dropped, kept>>

\* A drive that found children in flight: driving is given up first; then the
\* continuation is looked for, without a lock, and its batch_ready is read.
\* In a mutant driving is left set.
PostDrivingOn(w) ==
    /\ pc[w] = "post1" /\ Goto(w, "post2")
    /\ UNCHANGED <<policy, where, saved, cont, fields, children, record, result, wake, erasing,
                   cancel, told, bounds, history>>
PostDriving(w) ==
    /\ pc[w] = "post1" /\ Goto(w, "post2") /\ driving' = FALSE
    /\ UNCHANGED <<policy, where, saved, cont, fields, children, record, result, queued, answered,
                   resumable, erasing, cancel, told, bounds, history>>

PostLook(w) ==
    /\ pc[w] = "post2" /\ Goto(w, IF cont THEN "post3" ELSE "idle")
    /\ UNCHANGED <<policy, where, saved, cont, fields, children, record, result, wake, erasing,
                   cancel, told, bounds, history>>

\* Another drive may have dropped the continuation meanwhile: then the flag
\* read is anything (or the process crashes, which it may at any time).
PostReady(w) ==
    /\ pc[w] = "post3" /\ Goto(w, "idle")
    /\ \E seen \in IF cont THEN {ready} ELSE BOOLEAN :
        \/ (IF seen THEN WakeUp ELSE NoWakeUp) /\ UNCHANGED bounds
        \/ seen /\ WakeUpRefused /\ Fault
    /\ UNCHANGED <<policy, where, saved, cont, fields, children, record, result, driving, answered,
                   resumable, erasing, cancel, told, truth, torn, misread, unsaved, kept>>

\* The drive is over: the host is answered, unless it was answered already.
Deliver(w) ==
    /\ pc[w] = "deliver" /\ Goto(w, "idle")
    /\ driving' = FALSE /\ answered' = TRUE /\ resumable' = (resumable /\ answered)
    /\ result' = [result EXCEPT ![w] = "none"]
    /\ told' = IF answered THEN told ELSE result[w]
    /\ UNCHANGED <<policy, where, saved, cont, fields, children, record, queued, erasing, cancel,
                   bounds, history>>

\* A child Run executes its node, saves its record and completes; a child
\* that was cancelled, or whose save fails, completes without a record.
ChildRuns(b) ==
    /\ child[b] = "running"
    /\ \E r \in {"ok", "fail"} :
        /\ outcome' = [outcome EXCEPT ![b] = r] /\ truth' = [truth EXCEPT ![b] = r]
    /\ child' = [child EXCEPT ![b] = "ran"]
    /\ UNCHANGED <<policy, where, saved, cont, fields, stopped, record, pc, result, wake, erasing,
                   cancel, told, bounds, torn, misread, dropped, unsaved, kept>>

ChildSaves(b) ==
    /\ \/ /\ child[b] = "ran" /\ record' = [record EXCEPT ![b] = outcome[b]]
          /\ UNCHANGED <<outcome, truth, bounds>>
       \/ /\ child[b] = "ran" /\ Fault
          /\ outcome' = [outcome EXCEPT ![b] = "fail"] /\ UNCHANGED <<record, truth>>
       \/ /\ child[b] = "running" /\ b \in stopped
          /\ outcome' = [outcome EXCEPT ![b] = "fail"]
          /\ truth' = [truth EXCEPT ![b] = "cancelled"] /\ UNCHANGED <<record, bounds>>
    /\ child' = [child EXCEPT ![b] = "finished"]
    /\ UNCHANGED <<policy, where, saved, cont, fields, stopped, pc, result, wake, erasing, cancel,
                   told, torn, misread, dropped, unsaved, kept>>

\* The completion of a child: add the result, and find out whether it is the
\* last of a batch that is completely launched.
ChildCompletes(b) ==
    /\ child[b] = "finished"
    /\ batch' = batch \cup {[branch |-> b, ok |-> outcome[b] = "ok"]}
    /\ inFlight' = inFlight - 1
    /\ ready' = (ready \/ (inFlight = 1 /\ ~launching))
    /\ child' = [child EXCEPT ![b] = IF ready' THEN "waking" ELSE "none"]
    /\ outcome' = [outcome EXCEPT ![b] = "none"]
    /\ UNCHANGED <<policy, where, saved, cont, nextIndex, end, launching, successes, failures,
                   terminal, stopped, record, pc, result, wake, erasing, cancel, told,
                   bounds, history>>

\* The last one wakes the parent, unless a drive is under way that will look.
ChildWakes(b) ==
    /\ child[b] = "waking" /\ child' = [child EXCEPT ![b] = "none"]
    /\ \/ (IF ~driving /\ resumable THEN WakeUp ELSE NoWakeUp) /\ UNCHANGED bounds
       \/ ~driving /\ resumable /\ WakeUpRefused /\ Fault
    /\ UNCHANGED <<policy, where, saved, cont, fields, outcome, stopped, record, pc, result,
                   driving, answered, resumable, erasing, cancel, told, truth, torn, misread,
                   unsaved, kept>>

\* Run::cancel: the flag, then the children of the present batch, then a drive.
Cancel ==
    /\ \/ /\ cancel = "ready" /\ ~answered /\ cancel' = "flagged" /\ Fault
          /\ NoWakeUp /\ UNCHANGED stopped
       \/ /\ cancel = "flagged" /\ cancel' = "children" /\ NoWakeUp /\ UNCHANGED bounds
          /\ stopped' = stopped \cup {b \in Branches : cont /\ child[b] \in {"running", "ran"}}
       \/ /\ cancel = "children" /\ cancel' = "done" /\ UNCHANGED <<stopped, bounds>>
          /\ IF resumable THEN WakeUp \/ WakeUpRefused ELSE NoWakeUp
    /\ UNCHANGED <<policy, where, saved, cont, fields, child, outcome, record, pc, result, driving,
                   answered, resumable, erasing, told, truth, torn, misread, unsaved, kept>>

\* The process ends; the Run restored from the store stands where its record
\* says, and a Run that was never saved starts from the beginning.
Crash ==
    /\ Fault
    /\ where' = IF saved = "none" THEN "node" ELSE saved
    /\ cont' = FALSE /\ NoFields /\ stopped' = {}
    /\ child' = [b \in Branches |-> "none"] /\ outcome' = [b \in Branches |-> "none"]
    /\ pc' = [w \in Workers |-> "idle"] /\ result' = [w \in Workers |-> "none"]
    /\ queued' = 0 /\ driving' = FALSE /\ answered' = TRUE /\ resumable' = FALSE
    /\ erasing' = {} /\ cancel' = "ready" /\ told' = "none"
    /\ torn' = FALSE /\ dropped' = FALSE /\ unsaved' = FALSE
    /\ kept' = IF where' = "node" THEN {} ELSE kept \cup erasing
    /\ UNCHANGED <<policy, saved, record, truth, misread>>

Step(w) ==
    \/ DriveStart(w) \/ EnterStep(w) \/ LoopPending(w) \/ LoopBatch(w)
    \/ LaunchChild(w) \/ LaunchRefused(w) \/ LaunchTorn(w) \/ LaunchEnd(w)
    \/ Injected(w) \/ QuotaExceeded(w) \/ Commit(w) \/ EraseChild(w) \/ Join(w)
    \/ PostDriving(w) \/ PostLook(w) \/ PostReady(w) \/ Deliver(w)

ChildStep(b) == ChildRuns(b) \/ ChildSaves(b) \/ ChildCompletes(b) \/ ChildWakes(b)

Next ==
    \/ Execute \/ Cancel \/ Crash
    \/ \E w \in Workers : Step(w)
    \/ \E b \in Branches : ChildStep(b)

Spec == Init /\ [][Next]_vars

\* As long as a worker has something to do, a child has not completed (its
\* executor answers or times out) or a cancel call has not returned, one of
\* them goes on.  Nothing is assumed about which.
Progress ==
    \/ \E w \in Workers : Step(w)
    \/ \E b \in Branches : ChildStep(b)
    \/ cancel # "ready" /\ Cancel

FairSpec == Spec /\ WF_vars(Progress)
-----------------------------------------------------------------------------
\* Every branch launched so far is counted exactly once: as a success, as a
\* failure, in the finished results of the batch, or in flight.
EachBranchCountedOnce ==
    cont /\ ~torn =>
        successes + failures + Cardinality(batch) + inFlight = nextIndex - 1

\* A branch whose outcome is in its child record is not executed again, after
\* any crash of the parent: its effects are not repeated.
RecordedNotRerun ==
    [][\A b \in Branches :
         record[b] # "none" => ~(child[b] = "running" /\ child'[b] = "ran")]_vars

Satisfies(good) ==
    CASE mode = "any" -> good # {}
      [] mode = "min_success" -> Cardinality(good) >= Minimum
      [] OTHER -> good = Branches

\* The merged result is published only if the branches that really succeeded
\* satisfy the policy.
MergeFollowsPolicy ==
    saved \in {"joined", "done"} => Satisfies({b \in Branches : truth[b] = "ok"})

\* The same as long as no crash made the node take up a failed child record,
\* which LaunchChild turns into a success.
MergeFollowsPolicyUnlessMisread == ~misread => MergeFollowsPolicy

\* A Run that answered with success is saved as complete, and has left no child
\* record behind, whatever store errors, refusals, cancels and crashes came
\* before.  Excepted is a result whose save failed (called again, the Run
\* answers with it from memory), and the record of a branch whose erasing was
\* given up: by a failed erase, by a crash between the commit and the erase, or
\* by a commit that could not be saved.
SuccessIsMerged ==
    told = "done" =>
        /\ saved = "done" \/ unsaved
        /\ Records \subseteq kept

\* Every execute is answered: no completion of a child is lost between the
\* launching thread, the drive that gives up driving and the last child.  The
\* exceptions are a launch given up half way, whose batch never becomes ready,
\* and a wake-up that the Scheduler refused when no drive has begun since.
EventuallyAnswered == ~answered ~> answered \/ torn \/ dropped
=============================================================================
