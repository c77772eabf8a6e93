----------------------------- MODULE RunDriver -----------------------------
(***************************************************************************)
(* How one Run is driven: Run::execute_async, the drive closure it submits *)
(* to the Scheduler, Run::execute_step, the completion callbacks of        *)
(* asynchronous executors and subflow children, the timers of the          *)
(* TimerCoordinator, and Run::cancel.                                      *)
(*                                                                         *)
(* A drive is one submitted copy of the drive closure.  Every critical     *)
(* section of continuation_mutex is one atomic step; drive_mutex is held   *)
(* by the drive that is inside execute_step.  Executor results, edge       *)
(* conditions, StateStore failures, quotas and deadlines are choices.      *)
(***************************************************************************)
EXTENDS Integers, FiniteSets

CONSTANTS
    Nodes,          \* node ids of the workflow
    Entry,          \* the entry node
    Done,           \* the empty control position: no successor was selected
    Kind,           \* Kind[n]: "async", "subflow", "sync" or "human"
    NextOf,         \* NextOf[n]: the successors a success of n may select
    ErrorOf,        \* ErrorOf[n]: the successors a failure of n may select
    MaxAttempts,    \* MaxAttempts[n]: retry.max_attempts
    NodeTimeout,    \* NodeTimeout[n]: a timeout or deadline applies to n
    MaxSteps,       \* limits.max_steps
    RetryBudget,    \* RunOptions.retry_budget
    MaxDrives,      \* bound: copies of the drive closure alive at once
    Cancellers,     \* bound: threads that call Run::cancel, once each
    MaxExecutes,    \* bound: calls of Run::execute_async
    MayReject,      \* the Scheduler may refuse a task (full queue, shutdown)
    StoreMayFail,   \* a StateStore save may fail
    EarlyReturns,   \* quotas, deadline, effect fence or injected failure strike
    LeaseMayFail    \* the ResourceLeaseProvider may deny a lease

ASSUME GraphAssumption ==
    /\ Entry \in Nodes /\ Done \notin Nodes
    /\ Kind \in [Nodes -> {"async", "subflow", "sync", "human"}]
    /\ NextOf \in [Nodes -> (SUBSET (Nodes \cup {Done})) \ {{}}]
    /\ ErrorOf \in [Nodes -> (SUBSET (Nodes \cup {Done})) \ {{}}]
    /\ MaxAttempts \in [Nodes -> Nat \ {0}]

ASSUME BoundAssumption ==
    /\ MaxSteps \in Nat /\ RetryBudget \in Nat /\ MaxExecutes \in Nat
    /\ MaxDrives \in Nat

ASSUME FlagAssumption ==
    /\ NodeTimeout \in [Nodes -> BOOLEAN]
    /\ MayReject \in BOOLEAN /\ StoreMayFail \in BOOLEAN
    /\ EarlyReturns \in BOOLEAN /\ LeaseMayFail \in BOOLEAN

Drives == 1..MaxDrives
NoDrive == 0        \* drive_mutex is free

VARIABLES
    \* control state of the Run, written by the holder of drive_mutex
    current, completed, run_result, step, retry_remaining, is_suspended,
    has_resume, drive_mutex,
    \* the atomic flag that Run::cancel sets
    cancelled,
    \* the asynchronous attempt, guarded by continuation_mutex
    async_pending, async_ready, async_generation, async_attempt, async_node,
    async_result, async_attempt_cancellation, async_timer, async_lease,
    \* the subflow child, guarded by continuation_mutex
    subflow_pending, subflow_ready, subflow_node, subflow_child_state,
    subflow_result, subflow_starts,
    \* the completion callback, guarded by continuation_mutex
    resume_drive, run_completion, callback_delivered, emptied, driving,
    \* the world: host operations, child Runs, tokens and timers
    ops, children, cancelled_tokens, cancelled_children, armed, firing,
    \* threads: drives, callers of execute_async, callers of cancel
    pc, res, own, caller, executes, cpc, c_attempt, c_timer,
    \* history: callbacks per execute_async, continuations that were refused
    delivered, dropped

controlVars == <<current, completed, run_result, step, retry_remaining,
                 is_suspended, has_resume>>
asyncVars == <<async_pending, async_ready, async_generation, async_attempt,
               async_node, async_result, async_attempt_cancellation,
               async_timer, async_lease>>
subflowVars == <<subflow_pending, subflow_ready, subflow_node,
                 subflow_child_state, subflow_result, subflow_starts>>
callbackVars == <<resume_drive, run_completion, callback_delivered, emptied>>
worldVars == <<ops, children, cancelled_tokens, cancelled_children, armed,
               firing>>
callerVars == <<caller, executes>>
cancelVars == <<cpc, c_attempt, c_timer>>
historyVars == <<delivered, dropped>>
vars == <<controlVars, drive_mutex, cancelled, asyncVars, subflowVars,
          callbackVars, driving, worldVars, pc, res, own, callerVars,
          cancelVars, historyVars>>

\* What callbacks leave alone, and a drive that only moves inside execute_step.
sharedVars == <<cancelled, callbackVars, driving, callerVars, cancelVars,
                historyVars>>
outsideVars == <<sharedVars, own>>

Outcomes == {"ok", "fail", "retryable"}
AsyncOutcomes == Outcomes \cup {"timeout", "retry_ready"}
Results == {"none", "ok", "fail", "error", "cancelled", "suspended", "pending"}
DrivePoints == {"idle", "held", "queued", "enter", "top", "fresh", "retry",
                "consume", "joined", "arm", "invoke", "launch", "check",
                "record", "post", "post2"}
\* The points at which a drive is inside execute_step.
InStep == {"top", "fresh", "retry", "consume", "joined", "arm", "invoke",
           "launch", "check", "record"}

Init ==
    /\ current = Entry /\ completed = FALSE /\ run_result = "none"
    /\ step = 0 /\ retry_remaining = RetryBudget
    /\ is_suspended = FALSE /\ has_resume = FALSE
    /\ drive_mutex = NoDrive /\ cancelled = FALSE
    /\ async_pending = FALSE /\ async_ready = FALSE /\ async_generation = 0
    /\ async_attempt = 0 /\ async_node = Done
    /\ async_result = [gen |-> 0, out |-> "fail"]
    /\ async_attempt_cancellation = 0 /\ async_timer = 0 /\ async_lease = FALSE
    /\ subflow_pending = FALSE /\ subflow_ready = FALSE /\ subflow_node = Done
    /\ subflow_child_state = 0 /\ subflow_starts = 0
    /\ subflow_result = [child |-> 0, out |-> "fail"]
    /\ resume_drive = 0 /\ run_completion = 0 /\ emptied = {}
    /\ callback_delivered = FALSE /\ driving = FALSE
    /\ ops = {} /\ children = {} /\ cancelled_tokens = {}
    /\ cancelled_children = {} /\ armed = {} /\ firing = {}
    /\ pc = [d \in Drives |-> "idle"] /\ res = [d \in Drives |-> "none"]
    /\ own = [d \in Drives |-> 0]
    /\ caller = "out" /\ executes = 0
    /\ cpc = [c \in Cancellers |-> "ready"]
    /\ c_attempt = [c \in Cancellers |-> 0] /\ c_timer = [c \in Cancellers |-> 0]
    /\ delivered = [e \in 1..MaxExecutes |-> 0] /\ dropped = FALSE

\* A new copy of the drive closure that the x-th execute_async made, in the
\* first free slot.
Spawn(point, x) ==
    \E d \in Drives :
        /\ pc[d] = "idle" /\ \A e \in Drives : e < d => pc[e] # "idle"
        /\ pc' = [pc EXCEPT ![d] = point] /\ own' = [own EXCEPT ![d] = x]

Retire(d) ==
    pc' = [pc EXCEPT ![d] = "idle"] /\ own' = [own EXCEPT ![d] = 0]

\* async_lease.reset(), and a mutant that forgets it.
KeepLease == UNCHANGED async_lease
ReleaseLease == async_lease' = FALSE

-----------------------------------------------------------------------------
(* Run::execute_async and Run::resume, on the host's thread.               *)

\* Installs the completion callback; resume() first hands over the output
\* of the suspended human node.  The drive closure is installed by a second
\* critical section, and submitted after it.
ExecuteAsync ==
    /\ caller = "out" /\ executes < MaxExecutes
    /\ ~(run_completion # 0 /\ ~callback_delivered)
    /\ UNCHANGED has_resume \/ (is_suspended /\ has_resume' = TRUE)
    /\ executes' = executes + 1 /\ run_completion' = executes + 1
    /\ callback_delivered' = FALSE /\ caller' = "install"
    /\ UNCHANGED <<current, completed, run_result, step, retry_remaining,
                   is_suspended, drive_mutex, cancelled, asyncVars, subflowVars,
                   resume_drive, emptied, driving, worldVars, pc, res, own,
                   cancelVars, historyVars>>

InstallDrive ==
    /\ caller = "install"
    /\ resume_drive' = executes /\ caller' = "submit"
    /\ UNCHANGED <<controlVars, drive_mutex, cancelled, asyncVars, subflowVars,
                   run_completion, callback_delivered, emptied, driving, worldVars,
                   pc, res, own, executes, cancelVars, historyVars>>

SubmitDrive ==
    /\ caller = "submit" /\ caller' = "out"
    /\ Spawn("queued", executes)
    /\ UNCHANGED <<controlVars, drive_mutex, cancelled, asyncVars, subflowVars,
                   callbackVars, driving, worldVars, res, executes, cancelVars,
                   historyVars>>

\* Mutant: the report of a refused submission is not marked as delivered.
SubmitRejectedUnmarked ==
    /\ MayReject /\ caller = "submit" /\ caller' = "out"
    /\ run_completion' = 0 /\ resume_drive' = 0 /\ UNCHANGED callback_delivered
    /\ emptied' = emptied \cup {executes}
    /\ delivered' = [delivered EXCEPT ![executes] = @ + 1]
    /\ UNCHANGED <<controlVars, drive_mutex, cancelled, asyncVars, subflowVars,
                   driving, worldVars, pc, res, own, executes, cancelVars, dropped>>

\* A refused first submission is reported through the callback at once.
SubmitRejected ==
    /\ MayReject /\ caller = "submit" /\ caller' = "out"
    /\ callback_delivered' = TRUE /\ run_completion' = 0 /\ resume_drive' = 0
    /\ emptied' = emptied \cup {executes}
    /\ delivered' = [delivered EXCEPT ![executes] = @ + 1]
    /\ UNCHANGED <<controlVars, drive_mutex, cancelled, asyncVars, subflowVars,
                   driving, worldVars, pc, res, own, executes, cancelVars, dropped>>

-----------------------------------------------------------------------------
(* The drive closure up to the body of execute_step.                       *)

\* schedule_continuation of a copy that some thread took of resume_drive.
Enqueue(d) ==
    /\ pc[d] = "held" /\ pc' = [pc EXCEPT ![d] = "queued"]
    /\ UNCHANGED <<controlVars, drive_mutex, asyncVars, subflowVars, worldVars, res,
                   outsideVars>>

\* The Scheduler throws and the catch-all drops the continuation.
EnqueueRejected(d) ==
    /\ MayReject /\ pc[d] = "held" /\ Retire(d) /\ dropped' = TRUE
    /\ UNCHANGED <<controlVars, drive_mutex, cancelled, asyncVars, subflowVars,
                   callbackVars, driving, worldVars, res, callerVars, cancelVars,
                   delivered>>

DriveStart(d) ==
    /\ pc[d] = "queued" /\ pc' = [pc EXCEPT ![d] = "enter"]
    /\ driving' = TRUE
    /\ UNCHANGED <<controlVars, drive_mutex, cancelled, asyncVars, subflowVars,
                   callbackVars, worldVars, res, own, callerVars, cancelVars,
                   historyVars>>

\* A return from execute_step: drive_mutex is released.
Return(d, r) ==
    /\ pc' = [pc EXCEPT ![d] = "post"] /\ res' = [res EXCEPT ![d] = r]
    /\ drive_mutex' = NoDrive

Goto(d, point) ==
    /\ pc' = [pc EXCEPT ![d] = point]
    /\ UNCHANGED <<res, drive_mutex>>

\* A node result goes to the bookkeeping at the end of the loop body.
Finish(d, r) ==
    /\ pc' = [pc EXCEPT ![d] = "record"] /\ res' = [res EXCEPT ![d] = r]
    /\ UNCHANGED drive_mutex

EnterStep(d) ==
    /\ pc[d] = "enter" /\ drive_mutex = NoDrive
    /\ IF completed
         THEN Return(d, run_result)
         ELSE /\ pc' = [pc EXCEPT ![d] = "top"] /\ drive_mutex' = d
              /\ UNCHANGED res
    /\ UNCHANGED <<controlVars, asyncVars, subflowVars, worldVars, outsideVars>>

-----------------------------------------------------------------------------
(* The head of the loop of execute_step.  The read of the cancelled flag   *)
(* and the continuation check are one step: the flag alone is written      *)
(* between them, and a write that comes in between may as well come after. *)

AsyncHere == async_pending /\ async_node = current
SubflowHere == subflow_pending /\ subflow_node = current

Waiting == (AsyncHere /\ ~async_ready) \/ (SubflowHere /\ ~subflow_ready)

Continuation ==
    IF AsyncHere
      THEN IF async_result.out = "retry_ready" THEN "retry" ELSE "consume"
      ELSE IF SubflowHere THEN "joined" ELSE "fresh"

\* The read of the flag, and a mutant without it.
CancelUnseen == FALSE
CancelSeen == cancelled

TopCancelled(d) ==
    /\ pc[d] = "top" /\ CancelSeen
    /\ Return(d, "cancelled")
    /\ UNCHANGED <<controlVars, asyncVars, subflowVars, worldVars, outsideVars>>

TopPending(d) ==
    /\ pc[d] = "top" /\ ~CancelSeen /\ Waiting
    /\ Return(d, "pending")
    /\ UNCHANGED <<controlVars, asyncVars, subflowVars, worldVars, outsideVars>>

\* An elapsed retry delay is taken note of before any further check.
TakeRetry ==
    /\ IF Continuation = "retry"
         THEN /\ async_pending' = FALSE /\ async_ready' = FALSE
              /\ async_timer' = 0 /\ async_attempt' = async_attempt + 1
         ELSE UNCHANGED <<async_pending, async_ready, async_timer, async_attempt>>
    /\ UNCHANGED <<async_generation, async_node, async_result,
                   async_attempt_cancellation, async_lease>>

\* MAX_EVENTS strikes before the step is counted, WORKFLOW_TIMEOUT and the
\* failure injector after it.
TopError(d) ==
    /\ EarlyReturns /\ pc[d] = "top" /\ ~CancelSeen /\ ~Waiting
    /\ TakeRetry
    /\ step' \in {step, IF Continuation = "fresh" THEN step + 1 ELSE step}
    /\ Return(d, "error")
    /\ UNCHANGED <<current, completed, run_result, retry_remaining, is_suspended,
                   has_resume, subflowVars, worldVars, outsideVars>>

TopContinue(d) ==
    /\ pc[d] = "top" /\ ~CancelSeen /\ ~Waiting /\ Continuation # "fresh"
    /\ TakeRetry
    /\ Goto(d, Continuation)
    /\ UNCHANGED <<controlVars, subflowVars, worldVars, outsideVars>>

TopFresh(d) ==
    /\ pc[d] = "top" /\ ~CancelSeen /\ ~Waiting /\ Continuation = "fresh"
    /\ step' = step + 1
    /\ IF step + 1 > MaxSteps THEN Return(d, "error") ELSE Goto(d, "fresh")
    /\ UNCHANGED <<current, completed, run_result, retry_remaining, is_suspended,
                   has_resume, asyncVars, subflowVars, worldVars, outsideVars>>

-----------------------------------------------------------------------------
(* Starting an attempt of an asynchronous executor.                        *)

StartsAttempt(d) ==
    \/ pc[d] = "fresh" /\ Kind[current] = "async"
    \/ pc[d] = "retry"

\* A fresh start is attempt 1; a retry was counted when its delay elapsed.
AttemptNumber(d) == IF pc[d] = "fresh" THEN 1 ELSE async_attempt

LeaseDenied(d) ==
    /\ LeaseMayFail /\ StartsAttempt(d)
    /\ async_attempt' = AttemptNumber(d)
    /\ Finish(d, "fail")
    /\ UNCHANGED <<controlVars, async_pending, async_ready, async_generation,
                   async_node, async_result, async_attempt_cancellation,
                   async_timer, async_lease, subflowVars, worldVars, outsideVars>>

\* The lease is acquired; then the attempt is published with a token of its
\* own and the next generation.
StartAttempt(d) ==
    /\ StartsAttempt(d)
    /\ async_attempt' = AttemptNumber(d) /\ async_lease' = TRUE
    /\ async_pending' = TRUE /\ async_ready' = FALSE /\ async_node' = current
    /\ async_generation' = async_generation + 1
    /\ async_attempt_cancellation' = async_generation + 1
    /\ Goto(d, "arm")
    /\ UNCHANGED <<controlVars, async_result, async_timer, subflowVars, worldVars,
                   outsideVars>>

\* schedule_after of the timeout, assigned without continuation_mutex.  When
\* the deadline of the workflow has just passed, no time remains and no timer
\* is armed.
ArmTimeout(d) ==
    /\ pc[d] = "arm"
    /\ \/ /\ NodeTimeout[current]
          /\ armed' = armed \cup {[gen |-> async_generation, kind |-> "timeout"]}
          /\ async_timer' = async_generation
       \/ (NodeTimeout[current] => EarlyReturns) /\ UNCHANGED <<armed, async_timer>>
    /\ Goto(d, "invoke")
    /\ UNCHANGED <<controlVars, async_pending, async_ready, async_generation,
                   async_attempt, async_node, async_result,
                   async_attempt_cancellation, async_lease, subflowVars, ops,
                   children, cancelled_tokens, cancelled_children, firing,
                   outsideVars>>

\* The executor is called.  It may complete before it returns, and one that
\* throws is completed with ASYNC_START_FAILED: both are HostComplete steps
\* taken before this drive leaves "post".
Invoke(d) ==
    /\ pc[d] = "invoke"
    /\ ops' = ops \cup {[gen |-> async_generation, timed |-> NodeTimeout[current]]}
    /\ Return(d, "pending")
    /\ UNCHANGED <<controlVars, asyncVars, subflowVars, children, cancelled_tokens,
                   cancelled_children, armed, firing, outsideVars>>

-----------------------------------------------------------------------------
(* Consuming the result of an attempt.                                     *)

Retryable == async_result.out \in {"retryable", "timeout"}
WantsRetry == Retryable /\ async_attempt < MaxAttempts[current]

\* The budget of the Run, with a mutant that does not charge it.
BudgetLeft == retry_remaining > 0
FreeRetry == UNCHANGED retry_remaining
ChargeRetry == retry_remaining' = retry_remaining - 1

\* The attempt is given up and a timer for the next one takes its place,
\* under a generation of its own.
ConsumeRetry(d) ==
    /\ pc[d] = "consume" /\ WantsRetry /\ BudgetLeft
    /\ ChargeRetry
    /\ async_generation' = async_generation + 1 /\ async_ready' = FALSE
    /\ async_attempt_cancellation' = 0 /\ ReleaseLease
    /\ async_timer' = async_generation + 1
    /\ armed' = armed \cup {[gen |-> async_generation + 1, kind |-> "retry"]}
    /\ Return(d, "pending")
    /\ UNCHANGED <<current, completed, run_result, step, is_suspended, has_resume,
                   async_pending, async_attempt, async_node, async_result,
                   subflowVars, ops, children, cancelled_tokens,
                   cancelled_children, firing, outsideVars>>

\* Success, a failure that is not retried, an exhausted retry budget, or
\* (after the budget was charged) a delay longer than the deadline.
ConsumeFinish(d) ==
    /\ pc[d] = "consume"
    /\ IF WantsRetry /\ BudgetLeft
         THEN EarlyReturns /\ ChargeRetry
         ELSE UNCHANGED retry_remaining
    /\ async_pending' = FALSE /\ async_ready' = FALSE /\ async_node' = Done
    /\ ReleaseLease /\ async_attempt_cancellation' = 0
    /\ async_timer' = 0 /\ async_attempt' = 0
    /\ Finish(d, IF async_result.out = "ok" THEN "ok" ELSE "fail")
    /\ UNCHANGED <<current, completed, run_result, step, is_suspended, has_resume,
                   async_generation, async_result, subflowVars, worldVars,
                   outsideVars>>

-----------------------------------------------------------------------------
(* Subflow nodes.                                                          *)

StartSubflow(d) ==
    /\ pc[d] = "fresh" /\ Kind[current] = "subflow"
    /\ subflow_pending' = TRUE /\ subflow_ready' = FALSE
    /\ subflow_node' = current /\ subflow_starts' = subflow_starts + 1
    /\ subflow_child_state' = subflow_starts + 1
    /\ Goto(d, "launch")
    /\ UNCHANGED <<controlVars, asyncVars, subflow_result, worldVars, outsideVars>>

\* execute_async of the child; a child that ends inside the call (inline
\* execution, refused submission) is a ChildComplete step before "check".
LaunchSubflow(d) ==
    /\ pc[d] = "launch"
    /\ children' = children \cup {subflow_starts}
    /\ Goto(d, "check")
    /\ UNCHANGED <<controlVars, asyncVars, subflowVars, ops, cancelled_tokens,
                   cancelled_children, armed, firing, outsideVars>>

JoinSubflow ==
    /\ subflow_pending' = FALSE /\ subflow_ready' = FALSE
    /\ subflow_node' = Done /\ subflow_child_state' = 0
    /\ UNCHANGED <<subflow_result, subflow_starts>>

\* Mutant: the child is not waited for, and may end when the next one runs.
CheckSubflowUnready(d) ==
    /\ pc[d] = "check"
    /\ JoinSubflow /\ Finish(d, subflow_result.out)
    /\ UNCHANGED <<controlVars, asyncVars, worldVars, outsideVars>>

CheckSubflow(d) ==
    /\ pc[d] = "check"
    /\ IF subflow_ready
         THEN JoinSubflow /\ Finish(d, subflow_result.out)
         ELSE Return(d, "pending") /\ UNCHANGED subflowVars
    /\ UNCHANGED <<controlVars, asyncVars, worldVars, outsideVars>>

ContinueSubflow(d) ==
    /\ pc[d] = "joined"
    /\ JoinSubflow /\ Finish(d, subflow_result.out)
    /\ UNCHANGED <<controlVars, asyncVars, worldVars, outsideVars>>

-----------------------------------------------------------------------------
(* Nodes that are executed inside execute_step.                            *)

\* A denied or unregistered executor, an unregistered subflow.  The policy is
\* asked again when an attempt is retried or consumed; the host is taken to
\* answer as before, so only the first answer can be a refusal.
NotDispatched(d) ==
    /\ pc[d] = "fresh"
    /\ Finish(d, "fail")
    /\ UNCHANGED <<controlVars, asyncVars, subflowVars, worldVars, outsideVars>>

\* A synchronous executor with its r retries; each retry is charged to the
\* budget.  A timeout of a synchronous node cancels the whole Run.
RunSync(d) ==
    /\ pc[d] = "fresh"
    /\ \/ Kind[current] = "sync"
       \/ Kind[current] = "human" /\ ~has_resume
    /\ \E r \in 0..MaxAttempts[current] - 1 :
          r <= retry_remaining /\ retry_remaining' = retry_remaining - r
    /\ UNCHANGED cancelled \/ (NodeTimeout[current] /\ cancelled' = TRUE)
    /\ \E r \in {"ok", "fail"} : Finish(d, r)
    /\ UNCHANGED <<current, completed, run_result, step, is_suspended, has_resume,
                   asyncVars, subflowVars, worldVars, callbackVars, driving, own,
                   callerVars, cancelVars, historyVars>>

SuspendHuman(d) ==
    /\ pc[d] = "fresh" /\ Kind[current] = "human" /\ ~has_resume
    /\ is_suspended' = TRUE
    /\ \/ Return(d, "suspended")
       \/ StoreMayFail /\ Return(d, "error")
    /\ UNCHANGED <<current, completed, run_result, step, retry_remaining,
                   has_resume, asyncVars, subflowVars, worldVars, outsideVars>>

ResumeHuman(d) ==
    /\ pc[d] = "fresh" /\ Kind[current] = "human" /\ has_resume
    /\ has_resume' = FALSE /\ is_suspended' = FALSE
    /\ Finish(d, "ok")
    /\ UNCHANGED <<current, completed, run_result, step, retry_remaining,
                   asyncVars, subflowVars, worldVars, outsideVars>>

-----------------------------------------------------------------------------
(* The end of the loop body: the result is recorded, an edge is selected,  *)
(* the new position is saved.                                              *)

\* The output or state quota is exceeded after the node ran: the position
\* is left as it was.
RecordQuota(d) ==
    /\ EarlyReturns /\ pc[d] = "record"
    /\ Return(d, "error")
    /\ UNCHANGED <<controlVars, asyncVars, subflowVars, worldVars, outsideVars>>

\* The position moves in memory before it is saved, and stays moved when
\* the save (or the injected failure after it) makes execute_step return.
Record(d) ==
    /\ pc[d] = "record"
    /\ \E next \in (IF res[d] = "ok" THEN NextOf[current] ELSE ErrorOf[current]) :
         /\ current' = next /\ completed' = (next = Done)
         /\ run_result' = IF next = Done THEN res[d] ELSE run_result
         /\ \/ IF next = Done THEN Return(d, res[d]) ELSE Goto(d, "top")
            \/ StoreMayFail /\ Return(d, "error")
    /\ UNCHANGED <<step, retry_remaining, is_suspended, has_resume, asyncVars,
                   subflowVars, worldVars, outsideVars>>

-----------------------------------------------------------------------------
(* The drive closure after execute_step.                                   *)

\* The drive submits itself again.  An execution that was answered has
\* emptied *drive, and the Scheduler throws at an empty task.
Resubmit(d) ==
    \/ /\ own[d] \notin emptied /\ pc' = [pc EXCEPT ![d] = "held"]
       /\ UNCHANGED <<own, dropped>>
    \/ own[d] \in emptied /\ Retire(d) /\ dropped' = TRUE

\* Mutant: driving is given up without a look at async_ready.
PostPendingBlind(d) ==
    /\ pc[d] = "post" /\ res[d] = "pending"
    /\ res' = [res EXCEPT ![d] = "none"]
    /\ driving' = FALSE
    /\ pc' = [pc EXCEPT ![d] = "post2"]
    /\ UNCHANGED <<controlVars, drive_mutex, cancelled, asyncVars, subflowVars,
                   callbackVars, worldVars, own, callerVars, cancelVars,
                   historyVars>>

\* ASYNC_PENDING: give up driving and, in the same critical section, look
\* whether the result has arrived meanwhile.
PostPending(d) ==
    /\ pc[d] = "post" /\ res[d] = "pending"
    /\ res' = [res EXCEPT ![d] = "none"]
    /\ driving' = FALSE
    /\ IF async_ready
         THEN Resubmit(d)
         ELSE pc' = [pc EXCEPT ![d] = "post2"] /\ UNCHANGED <<own, dropped>>
    /\ UNCHANGED <<controlVars, drive_mutex, cancelled, asyncVars, subflowVars,
                   callbackVars, worldVars, callerVars, cancelVars, delivered>>

\* Mutant: the child that completed meanwhile is not noticed.
PostSubflowBlind(d) ==
    /\ pc[d] = "post2" /\ Retire(d)
    /\ UNCHANGED <<controlVars, drive_mutex, cancelled, asyncVars, subflowVars,
                   callbackVars, driving, worldVars, res, callerVars, cancelVars,
                   historyVars>>

\* The subflow is looked at in a critical section of its own.
PostSubflow(d) ==
    /\ pc[d] = "post2"
    /\ IF subflow_ready
         THEN Resubmit(d)
         ELSE Retire(d) /\ UNCHANGED dropped
    /\ UNCHANGED <<controlVars, drive_mutex, cancelled, asyncVars, subflowVars,
                   callbackVars, driving, worldVars, res, callerVars, cancelVars,
                   delivered>>

\* A drive that finds the callback delivered has nothing left to do.
DeliverNothing(d) ==
    /\ pc[d] = "post" /\ res[d] # "pending" /\ callback_delivered
    /\ res' = [res EXCEPT ![d] = "none"]
    /\ driving' = FALSE /\ Retire(d)
    /\ UNCHANGED <<controlVars, drive_mutex, cancelled, asyncVars, subflowVars,
                   callbackVars, worldVars, callerVars, cancelVars,
                   historyVars>>

Deliver(d) ==
    /\ pc[d] = "post" /\ res[d] # "pending" /\ ~callback_delivered
    /\ res' = [res EXCEPT ![d] = "none"]
    /\ driving' = FALSE /\ Retire(d)
    /\ async_pending' = FALSE /\ async_ready' = FALSE /\ async_node' = Done
    /\ armed' = {t \in armed : t.gen # async_timer}
    /\ ReleaseLease /\ async_attempt_cancellation' = 0 /\ async_timer' = 0
    /\ subflow_pending' = FALSE /\ subflow_ready' = FALSE
    /\ subflow_child_state' = 0
    /\ callback_delivered' = TRUE /\ run_completion' = 0 /\ resume_drive' = 0
    /\ emptied' = emptied \cup {own[d]}
    /\ delivered' = [delivered EXCEPT ![run_completion] = @ + 1]
    /\ UNCHANGED <<controlVars, drive_mutex, cancelled, async_generation,
                   async_attempt, async_result, subflow_node, subflow_result,
                   subflow_starts, ops, children, cancelled_tokens,
                   cancelled_children, firing, callerVars, cancelVars,
                   dropped>>

-----------------------------------------------------------------------------
(* Callbacks of the host, of child Runs and of the timer thread.           *)

\* Mutant: driving is not looked at.
WakeAlways ==
    IF resume_drive # 0 THEN Spawn("held", resume_drive) ELSE UNCHANGED <<pc, own>>

\* Whoever makes a result ready wakes the Run, unless a drive is under way.
WakeUnlessDriving ==
    IF ~driving /\ resume_drive # 0
      THEN Spawn("held", resume_drive)
      ELSE UNCHANGED <<pc, own>>

\* Mutant: a result of any generation is accepted.
AcceptsAny(g) == async_pending /\ ~async_ready

\* The generation fence.
Accepts(g) == async_pending /\ ~async_ready /\ async_generation = g

\* AsyncExecutorCompletion::complete, at most once for each attempt.
HostComplete(op, out) ==
    /\ op \in ops /\ ops' = ops \ {op}
    /\ IF Accepts(op.gen)
         THEN /\ async_result' = [gen |-> op.gen, out |-> out]
              /\ async_ready' = TRUE
              /\ armed' = {t \in armed : t.gen # async_timer}
              /\ WakeUnlessDriving
         ELSE UNCHANGED <<async_result, async_ready, armed, pc, own>>
    /\ UNCHANGED <<controlVars, drive_mutex, async_pending, async_generation,
                   async_attempt, async_node, async_attempt_cancellation,
                   async_timer, async_lease, subflowVars, children,
                   cancelled_tokens, cancelled_children, firing, res, sharedVars>>

\* The completion callback of a subflow child; it is not fenced.
ChildComplete(c, out) ==
    /\ c \in children /\ children' = children \ {c}
    /\ IF subflow_pending /\ ~subflow_ready
         THEN /\ subflow_result' = [child |-> c, out |-> out]
              /\ subflow_ready' = TRUE
              /\ WakeUnlessDriving
         ELSE UNCHANGED <<subflow_result, subflow_ready, pc, own>>
    /\ UNCHANGED <<controlVars, drive_mutex, asyncVars, subflow_pending,
                   subflow_node, subflow_child_state, subflow_starts, ops,
                   cancelled_tokens, cancelled_children, armed, firing, res,
                   sharedVars>>

\* The one timer thread pops a timer, leaves the lock, finds it not cancelled
\* and runs its callback; a cancel after that last look is too late.
TimerPop(t) ==
    /\ t \in armed /\ firing = {}
    /\ armed' = armed \ {t} /\ firing' = {t}
    /\ UNCHANGED <<controlVars, drive_mutex, asyncVars, subflowVars, ops, children,
                   cancelled_tokens, cancelled_children, pc, res, outsideVars>>

\* The token a timer cancels, and a mutant that cancels none.
NoToken(t) == {}
TokenOf(t) == IF t.kind = "timeout" THEN {t.gen} ELSE {}

TimerFire(t) ==
    /\ t \in firing /\ firing' = {}
    /\ IF Accepts(t.gen)
         THEN /\ async_result' = [gen |-> t.gen, out |->
                   IF t.kind = "timeout" THEN "timeout" ELSE "retry_ready"]
              /\ async_ready' = TRUE
              /\ cancelled_tokens' = cancelled_tokens \cup TokenOf(t)
              /\ WakeUnlessDriving
         ELSE UNCHANGED <<async_result, async_ready, cancelled_tokens, pc, own>>
    /\ UNCHANGED <<controlVars, drive_mutex, async_pending, async_generation,
                   async_attempt, async_node, async_attempt_cancellation,
                   async_timer, async_lease, subflowVars, ops, children,
                   cancelled_children, armed, res, sharedVars>>

-----------------------------------------------------------------------------
(* Run::cancel.                                                            *)

CancelFlag(c) ==
    /\ cpc[c] = "ready" /\ cpc' = [cpc EXCEPT ![c] = "copy"]
    /\ cancelled' = TRUE
    /\ UNCHANGED <<controlVars, drive_mutex, asyncVars, subflowVars, callbackVars,
                   driving, worldVars, pc, res, own, callerVars, c_attempt, c_timer,
                   historyVars>>

CancelCopy(c) ==
    /\ cpc[c] = "copy" /\ cpc' = [cpc EXCEPT ![c] = "attempt"]
    /\ c_attempt' = [c_attempt EXCEPT ![c] = async_attempt_cancellation]
    /\ c_timer' = [c_timer EXCEPT ![c] = async_timer]
    /\ UNCHANGED <<controlVars, drive_mutex, cancelled, asyncVars, subflowVars,
                   callbackVars, driving, worldVars, pc, res, own, callerVars,
                   historyVars>>

CancelAttempt(c) ==
    /\ cpc[c] = "attempt" /\ cpc' = [cpc EXCEPT ![c] = "subflow"]
    /\ cancelled_tokens' = cancelled_tokens \cup ({c_attempt[c]} \ {0})
    /\ armed' = {t \in armed : t.gen # c_timer[c]}
    /\ c_attempt' = [c_attempt EXCEPT ![c] = 0] /\ c_timer' = [c_timer EXCEPT ![c] = 0]
    /\ UNCHANGED <<controlVars, drive_mutex, cancelled, asyncVars, subflowVars,
                   callbackVars, driving, ops, children, cancelled_children,
                   firing, pc, res, own, callerVars, historyVars>>

CancelSubflow(c) ==
    /\ cpc[c] = "subflow" /\ cpc' = [cpc EXCEPT ![c] = "wake"]
    /\ cancelled_children' = cancelled_children \cup ({subflow_child_state} \ {0})
    /\ UNCHANGED <<controlVars, drive_mutex, cancelled, asyncVars, subflowVars,
                   callbackVars, driving, ops, children, cancelled_tokens, armed,
                   firing, pc, res, own, callerVars, c_attempt, c_timer, historyVars>>

\* cancel() schedules the drive whether or not one is under way.
CancelWake(c) ==
    /\ cpc[c] = "wake" /\ cpc' = [cpc EXCEPT ![c] = "done"]
    /\ IF resume_drive # 0
         THEN Spawn("held", resume_drive)
         ELSE UNCHANGED <<pc, own>>
    /\ UNCHANGED <<controlVars, drive_mutex, cancelled, asyncVars, subflowVars,
                   callbackVars, driving, worldVars, res, callerVars, c_attempt,
                   c_timer, historyVars>>

-----------------------------------------------------------------------------

CallerStep == ExecuteAsync \/ InstallDrive \/ SubmitDrive \/ SubmitRejected

DriveStep(d) ==
    \/ Enqueue(d) \/ EnqueueRejected(d) \/ DriveStart(d) \/ EnterStep(d)
    \/ TopCancelled(d) \/ TopPending(d) \/ TopError(d) \/ TopContinue(d)
    \/ TopFresh(d) \/ LeaseDenied(d) \/ StartAttempt(d) \/ ArmTimeout(d)
    \/ Invoke(d) \/ ConsumeRetry(d) \/ ConsumeFinish(d) \/ StartSubflow(d)
    \/ LaunchSubflow(d) \/ CheckSubflow(d) \/ ContinueSubflow(d)
    \/ NotDispatched(d) \/ RunSync(d) \/ SuspendHuman(d) \/ ResumeHuman(d)
    \/ RecordQuota(d) \/ Record(d) \/ PostPending(d) \/ PostSubflow(d)
    \/ DeliverNothing(d) \/ Deliver(d)

HostStep == \E op \in ops, out \in Outcomes : HostComplete(op, out)
ChildStep == \E c \in children, out \in {"ok", "fail"} : ChildComplete(c, out)
TimerStep == (\E t \in armed : TimerPop(t)) \/ (\E t \in firing : TimerFire(t))

CancelStep(c) ==
    CancelFlag(c) \/ CancelCopy(c) \/ CancelAttempt(c) \/ CancelSubflow(c)
    \/ CancelWake(c)

Next ==
    \/ CallerStep
    \/ \E d \in Drives : DriveStep(d)
    \/ HostStep \/ ChildStep \/ TimerStep
    \/ \E c \in Cancellers : CancelStep(c)

Spec == Init /\ [][Next]_vars

\* Scheduler workers (some drive moves while one can), the timer thread and a
\* thread inside execute_async or cancel keep running.  A host operation must
\* complete only when no timeout stands in for it; a child Run delivers its
\* own callback.
Fairness ==
    /\ WF_vars(InstallDrive) /\ WF_vars(SubmitDrive \/ SubmitRejected)
    /\ WF_vars(\E d \in Drives : DriveStep(d))
    /\ WF_vars(TimerStep) /\ WF_vars(ChildStep)
    /\ WF_vars(\E op \in {o \in ops : ~o.timed}, out \in Outcomes :
                  HostComplete(op, out))
    /\ \A c \in Cancellers :
          WF_vars(CancelCopy(c) \/ CancelAttempt(c) \/ CancelSubflow(c)
                  \/ CancelWake(c))

FairSpec == Spec /\ Fairness

-----------------------------------------------------------------------------
(* Correctness.                                                            *)

Timers == [gen : Nat, kind : {"timeout", "retry"}]

BoolTypes ==
    /\ completed \in BOOLEAN /\ is_suspended \in BOOLEAN
    /\ has_resume \in BOOLEAN /\ cancelled \in BOOLEAN
    /\ async_pending \in BOOLEAN /\ async_ready \in BOOLEAN
    /\ async_lease \in BOOLEAN
    /\ subflow_pending \in BOOLEAN /\ subflow_ready \in BOOLEAN
    /\ callback_delivered \in BOOLEAN
    /\ driving \in BOOLEAN /\ dropped \in BOOLEAN

ControlTypes ==
    /\ current \in Nodes \cup {Done} /\ run_result \in {"none", "ok", "fail"}
    /\ step \in Nat /\ retry_remaining \in Nat
    /\ drive_mutex \in Drives \cup {NoDrive}
    /\ pc \in [Drives -> DrivePoints] /\ res \in [Drives -> Results]

ContinuationTypes ==
    /\ async_generation \in Nat /\ async_attempt \in Nat
    /\ async_node \in Nodes \cup {Done}
    /\ async_result \in [gen : Nat, out : AsyncOutcomes]
    /\ async_attempt_cancellation \in Nat /\ async_timer \in Nat
    /\ subflow_node \in Nodes \cup {Done} /\ subflow_child_state \in Nat
    /\ subflow_result \in [child : Nat, out : {"ok", "fail"}]
    /\ subflow_starts \in Nat

WorldTypes ==
    /\ ops \subseteq [gen : Nat, timed : BOOLEAN] /\ children \subseteq Nat
    /\ cancelled_tokens \subseteq Nat /\ cancelled_children \subseteq Nat
    /\ armed \subseteq Timers /\ firing \subseteq Timers

CallTypes ==
    /\ caller \in {"out", "install", "submit"}
    /\ executes \in 0..MaxExecutes /\ run_completion \in 0..MaxExecutes
    /\ resume_drive \in 0..MaxExecutes /\ emptied \subseteq 0..MaxExecutes
    /\ delivered \in [1..MaxExecutes -> Nat]

OwnTypes == own \in [Drives -> 0..MaxExecutes]

CancelTypes ==
    /\ cpc \in [Cancellers ->
                {"ready", "copy", "attempt", "subflow", "wake", "done"}]
    /\ c_attempt \in [Cancellers -> Nat] /\ c_timer \in [Cancellers -> Nat]

\* Every variable has its type.
TypeOK ==
    BoolTypes /\ ControlTypes /\ ContinuationTypes /\ WorldTypes /\ CallTypes
    /\ OwnTypes /\ CancelTypes

Live == {d \in Drives : pc[d] # "idle"}
UsesSubflow == \E n \in Nodes : Kind[n] = "subflow"

\* The result a drive is about to consume is the one of the attempt the Run
\* waits for: neither a late completion nor a timer of an abandoned attempt
\* passes the generation fence of the callbacks.
ResultFence ==
    async_pending /\ async_ready => async_result.gen = async_generation

\* The result of a subflow node comes from the child that was started for
\* it, although the child's callback carries no generation, until the Run is
\* answered for the first time.  (An error that is reported while a
\* superfluous drive starts a child leaves that child behind, and the child
\* of the next execution may be mistaken for it.)
SubflowFence ==
    emptied = {} /\ subflow_pending /\ subflow_ready =>
        subflow_result.child = subflow_child_state

Unanswered == run_completion # 0 /\ ~callback_delivered /\ caller = "out"

\* A drive exists, or something that will wake one up is outstanding.
Moving ==
    \/ Live # {}
    \/ /\ async_pending /\ ~async_ready
       /\ \/ \E op \in ops : op.gen = async_generation
          \/ \E t \in armed \cup firing : t.gen = async_generation
    \/ subflow_pending /\ ~subflow_ready /\ children # {}
    \/ \E c \in Cancellers : cpc[c] \notin {"ready", "done"}

\* Nobody waits for nobody: while an execute_async is unanswered, a drive, a
\* completion, a timer, a child or a cancel is under way that moves the Run.
\* The handshake between driving and async_ready loses no wakeup, as long as
\* the Scheduler refused no continuation.
NeverStranded == Unanswered /\ ~dropped => Moving

\* Every execute_async is answered exactly once, whatever wins the race
\* between completions, timeouts, cancels and superfluous drives.  (Where
\* superfluous drives exist, one left over from an earlier execution may
\* answer the next execute_async before its own submission is refused and
\* answered again.)
CallbackOnce ==
    ~(MayReject /\ (cancelled \/ UsesSubflow)) => \A e \in 1..MaxExecutes :
        delivered[e] = IF e < executes \/ (e = executes /\ callback_delivered)
                         THEN 1 ELSE 0

\* Without a cancel and without subflows, no two drives of a Run are ever
\* under way together (one that has given up driving does not count), across
\* execute_async calls as well.
SingleDriver ==
    ~cancelled /\ ~UsesSubflow =>
        \A d, e \in Live : pc[d] # "post2" /\ pc[e] # "post2" => d = e

\* An operation the Run does not wait for any more was told to stop through
\* its cancellation token, as long as the Run itself was not cancelled.
\* (With subflows, a superfluous drive may start one while another drive
\* reports an error and forgets it.)
AbandonedIsCancelled ==
    ~cancelled /\ ~UsesSubflow => \A op \in ops :
        \/ async_pending /\ op.gen = async_generation
        \/ op.gen \in cancelled_tokens

\* Retries are charged to one budget of the whole Run: beyond one attempt or
\* child for each counted step, every attempt (and the wait before it) has
\* been paid for.
RetryBudgetShared ==
    async_generation + subflow_starts + 2 * retry_remaining
        <= step + 2 * RetryBudget

\* Once the callback was called no lease is held, whichever drive, cancel or
\* refused submission led to the call.  (With subflows, a superfluous drive
\* may take one for an attempt it starts after the call.)
NoLeaseLeak ==
    callback_delivered /\ ~UsesSubflow => ~async_lease

\* No executor and no child is started after the result was reported.
NoStartAfterDelivery ==
    [][~UsesSubflow /\ callback_delivered => ops' \subseteq ops]_vars

\* Every execute_async is eventually answered.
EventuallyDelivered ==
    \A e \in 1..MaxExecutes : (executes >= e) ~> (delivered[e] >= 1)
=============================================================================
