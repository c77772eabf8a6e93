----------------------------- MODULE NodeBinding -----------------------------
(***************************************************************************)
(* The Node.js binding over the C interface: Runs on worker threads, the   *)
(* control that an AbortSignal uses, the Executor that JavaScript answers  *)
(* through a one-shot completion, and the handles the C interface frees.   *)
(*                                                                         *)
(* One thread runs JavaScript (its steps need main = Free); libuv has      *)
(* PoolThreads threads for the workers; the engine has threads of its own. *)
(* A Run has one asynchronous node; what the driver does with it is in     *)
(* RunDriver, and here a Run only waits for an answer or a cancellation.   *)
(***************************************************************************)
EXTENDS Naturals, FiniteSets

CONSTANTS Runs, PoolThreads, Free

ASSUME BindingAssumption == Free \notin Runs

VARIABLES
    engine,       \* open or destroyed
    main,         \* the Run whose cancel the JavaScript thread is in, or Free
    worker,       \* what the RunWorker does next
    control,      \* [run, requested]: RunControl's handle and flag
    handle,       \* the dage_run_handle: none, live, freed
    run,          \* [state, cancelled, result]
    pending,      \* the Run handle has_pending_output
    completion,   \* [wrapper, handle]: Completion's pointer, and the C handle
    call,         \* the JavaScript callback: none, queued, called, settled
    promise,      \* the Promise of engine.run
    misused       \* a freed handle was passed to the C interface

vars == <<engine, main, worker, control, handle, run, pending, completion, call, promise,
          misused>>

Init ==
    /\ engine = "open" /\ main = Free /\ misused = FALSE
    /\ worker = [r \in Runs |-> "none"]
    /\ control = [r \in Runs |-> [run |-> FALSE, requested |-> FALSE]]
    /\ handle = [r \in Runs |-> "none"]
    /\ run = [r \in Runs |-> [state |-> "none", cancelled |-> FALSE, result |-> "none"]]
    /\ pending = [r \in Runs |-> FALSE]
    /\ completion = [r \in Runs |-> [wrapper |-> FALSE, handle |-> "none"]]
    /\ call = [r \in Runs |-> "none"] /\ promise = [r \in Runs |-> "none"]

Uses(valid) == misused' = (misused \/ ~valid)
Active == {r \in Runs : promise[r] = "pending"}
Goto(r, pc) == worker' = [worker EXCEPT ![r] = pc]
Ended(r, result) == run' = [run EXCEPT ![r].state = "done", ![r].result = result]
-----------------------------------------------------------------------------
(* JavaScript. *)

StartRun(r) ==
    /\ main = Free /\ engine = "open" /\ promise[r] = "none"
    /\ promise' = [promise EXCEPT ![r] = "pending"] /\ Goto(r, "queued")
    /\ UNCHANGED <<engine, main, control, handle, run, pending, completion, call, misused>>

\* RunControl::cancel keeps its mutex while it is in the C interface.
AbortBegin(r) ==
    /\ main = Free /\ promise[r] = "pending" /\ ~control[r].requested
    /\ control' = [control EXCEPT ![r].requested = TRUE]
    /\ main' = IF control[r].run THEN r ELSE Free
    /\ UNCHANGED <<engine, worker, handle, run, pending, completion, call, promise, misused>>

AbortEnd(r) ==
    /\ main = r /\ main' = Free
    /\ Uses(handle[r] = "live") /\ run' = [run EXCEPT ![r].cancelled = TRUE]
    /\ UNCHANGED <<engine, worker, control, handle, pending, completion, call, promise>>

\* dage_executor_complete frees the handle and offers the result, which a Run
\* that is over does not take.
ExecutorComplete(r, result) ==
    /\ Uses(completion[r].handle = "live")
    /\ IF run[r].state = "waiting" THEN Ended(r, result) ELSE UNCHANGED run

\* Completion::take empties the pointer, so that only the first answer counts.
Complete(r, result) ==
    IF completion[r].wrapper
    THEN /\ ExecutorComplete(r, result)
         /\ completion' = [completion EXCEPT ![r] = [wrapper |-> FALSE, handle |-> "freed"]]
    ELSE UNCHANGED <<completion, run, misused>>

\* dispatch_invocation: the callback throws, answers, or returns a Promise.
Dispatch(r) ==
    /\ main = Free /\ call[r] = "queued"
    /\ \/ /\ \E result \in {"success", "failure"} : Complete(r, result)
          /\ call' = [call EXCEPT ![r] = "settled"]
       \/ /\ call' = [call EXCEPT ![r] = "called"]
          /\ UNCHANGED <<completion, run, misused>>
    /\ UNCHANGED <<engine, main, worker, control, handle, pending, promise>>

Settle(r) ==
    /\ main = Free /\ call[r] = "called"
    /\ \E result \in {"success", "failure"} : Complete(r, result)
    /\ call' = [call EXCEPT ![r] = "settled"]
    /\ UNCHANGED <<engine, main, worker, control, handle, pending, promise>>

\* isCancelled and commitEffect, which the callback may keep and call later.
Probe(r) ==
    /\ main = Free /\ call[r] \in {"called", "settled"}
    /\ completion[r].wrapper /\ Uses(completion[r].handle = "live")
    /\ UNCHANGED <<engine, main, worker, control, handle, run, pending, completion, call,
                   promise>>

\* OnOK and OnError; WorkerFinished follows in the same callback.
Finish(r) ==
    /\ main = Free /\ worker[r] \in {"resolve", "reject"}
    /\ promise' = [promise EXCEPT ![r] = IF worker[r] = "resolve" THEN "resolved" ELSE "rejected"]
    /\ Goto(r, "none")
    /\ UNCHANGED <<engine, main, control, handle, run, pending, completion, call, misused>>

Close ==
    /\ main = Free /\ engine = "open" /\ Active = {} /\ engine' = "destroyed"
    /\ UNCHANGED <<main, worker, control, handle, run, pending, completion, call, promise,
                   misused>>
-----------------------------------------------------------------------------
(* The worker thread: RunWorker::Execute and its guards. *)

Busy == {r \in Runs : worker[r] \notin {"none", "queued", "resolve", "reject"}}

\* dage_engine_load and dage_run_create, either of which may refuse.
Load(r) ==
    /\ worker[r] = "queued" /\ Cardinality(Busy) < PoolThreads
    /\ Uses(engine = "open") /\ (Goto(r, "create") \/ Goto(r, "reject"))
    /\ UNCHANGED <<engine, main, control, handle, run, pending, completion, call, promise>>

Create(r) ==
    /\ worker[r] = "create" /\ Uses(engine = "open")
    /\ \/ Goto(r, "set") /\ handle' = [handle EXCEPT ![r] = "live"]
       \/ Goto(r, "reject") /\ UNCHANGED handle
    /\ UNCHANGED <<engine, main, control, run, pending, completion, call, promise>>

\* RunControl::set: a cancellation that came first is passed on.  In a mutant
\* it is not.
SetForgets(r) == FALSE
SetCancels(r) == control[r].requested
Set(r) ==
    /\ worker[r] = "set" /\ main # r
    /\ control' = [control EXCEPT ![r].run = TRUE]
    /\ IF SetCancels(r)
       THEN Uses(handle[r] = "live") /\ run' = [run EXCEPT ![r].cancelled = TRUE]
       ELSE UNCHANGED <<run, misused>>
    /\ Goto(r, "execute")
    /\ UNCHANGED <<engine, main, handle, pending, completion, call, promise>>

\* dage_run_execute starts the Run and waits; with an output that was too
\* large for the buffer it returns that instead.
Execute(r) ==
    /\ worker[r] = "execute" /\ Uses(handle[r] = "live" /\ engine = "open")
    /\ IF pending[r]
       THEN /\ pending' = [pending EXCEPT ![r] = FALSE] /\ Goto(r, "clear")
            /\ UNCHANGED run
       ELSE /\ run' = [run EXCEPT ![r].state = "driving"] /\ Goto(r, "wait")
            /\ UNCHANGED pending
    /\ UNCHANGED <<engine, main, control, handle, completion, call, promise>>

\* The first call has no buffer: a success stays with the handle.
Return(r) ==
    /\ worker[r] = "wait" /\ run[r].state = "done"
    /\ IF run[r].result = "success"
       THEN pending' = [pending EXCEPT ![r] = TRUE] /\ Goto(r, "execute")
       ELSE Goto(r, "clear") /\ UNCHANGED pending
    /\ UNCHANGED <<engine, main, control, handle, run, completion, call, promise, misused>>

\* RunGuard: the control forgets the Run, under its mutex, before it is freed.
\* In a mutant it is freed at once.
ClearAtOnce(r) == TRUE
ClearWaits(r) == main # r
Clear(r) ==
    /\ worker[r] = "clear" /\ ClearWaits(r)
    /\ control' = [control EXCEPT ![r].run = FALSE]
    /\ Goto(r, "destroy")
    /\ UNCHANGED <<engine, main, handle, run, pending, completion, call, promise, misused>>

Destroy(r) ==
    /\ worker[r] = "destroy" /\ handle' = [handle EXCEPT ![r] = "freed"]
    /\ Goto(r, IF run[r].result = "success" THEN "resolve" ELSE "reject")
    /\ UNCHANGED <<engine, main, control, run, pending, completion, call, promise, misused>>
-----------------------------------------------------------------------------
(* The engine's threads. *)

\* async_executor queues the invocation for JavaScript.
Queued(r) ==
    /\ completion' = [completion EXCEPT ![r] = [wrapper |-> TRUE, handle |-> "live"]]
    /\ call' = [call EXCEPT ![r] = "queued"]

\* The executor that the C interface registers: it makes a completion handle
\* and calls async_executor; when that cannot queue the invocation the node
\* fails and the handle is freed.
StartExecutor(r) ==
    \/ Queued(r) /\ run' = [run EXCEPT ![r].state = "waiting"]
    \/ /\ Ended(r, "failure")
       /\ completion' = [completion EXCEPT ![r] = [wrapper |-> FALSE, handle |-> "freed"]]
       /\ UNCHANGED call

\* A cancelled Run ends; another one starts its Executor.
Drive(r) ==
    /\ run[r].state = "driving"
    /\ IF run[r].cancelled
       THEN Ended(r, "cancelled") /\ UNCHANGED <<completion, call>>
       ELSE StartExecutor(r)
    /\ UNCHANGED <<engine, main, worker, control, handle, pending, promise, misused>>

CancelEnds(r) ==
    /\ run[r].state = "waiting" /\ run[r].cancelled
    /\ Ended(r, "cancelled")
    /\ UNCHANGED <<engine, main, worker, control, handle, pending, completion, call, promise,
                   misused>>
-----------------------------------------------------------------------------
\* What threads do by themselves; JavaScript need not start, abort or settle.
Progress == \E r \in Runs :
    \/ AbortEnd(r) \/ Dispatch(r) \/ Finish(r)
    \/ Load(r) \/ Create(r) \/ Set(r) \/ Execute(r) \/ Return(r) \/ Clear(r) \/ Destroy(r)
    \/ Drive(r) \/ CancelEnds(r)

Next ==
    \/ Progress \/ Close
    \/ \E r \in Runs : StartRun(r) \/ AbortBegin(r) \/ Settle(r) \/ Probe(r)

Spec == Init /\ [][Next]_vars /\ WF_vars(Progress)
-----------------------------------------------------------------------------
\* No call into the C interface uses an engine, a Run or a completion handle
\* that was destroyed: not an abort that races the end of the Run, not a late
\* settlement or probe, not a worker behind a close.
HandlesLive == ~misused

WaitsForJs(r) == call[r] = "called" /\ run[r].state = "waiting" /\ ~control[r].requested
Starved(r) ==
    worker[r] = "queued" /\ Cardinality({q \in Runs : WaitsForJs(q)}) >= PoolThreads

\* The Promise of every Run settles, and that of an aborted one even if the
\* JavaScript Executor never answers, also when the abort came before the Run
\* was created.  What may wait is a Run whose Executor has not answered, and
\* one that such Runs keep from every worker thread.
RunsSettle == []<>(\A r \in Active : WaitsForJs(r) \/ Starved(r))
==============================================================================
