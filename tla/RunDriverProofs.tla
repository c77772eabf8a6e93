-------------------------- MODULE RunDriverProofs ---------------------------
(***************************************************************************)
(* What each step of RunDriver may change, and its type correctness, for   *)
(* every workflow, every number of drives, cancels and executions, and     *)
(* every choice of the failure flags.                                      *)
(*                                                                         *)
(* The result a drive consumes belongs to the attempt it started; a pending*)
(* continuation always has a source that will make it ready; no wake-up of *)
(* a suspended Run is lost.  One drive at a time, one answer for each      *)
(* execution, and nothing held or started after it.                        *)
(*                                                                         *)
(* What the attempts of a Run leave behind: retries and the budget they    *)
(* are charged to, operations the Run has given up, children of subflow    *)
(* nodes.                                                                  *)
(***************************************************************************)
EXTENDS RunDriver, TLAPS

\* The drive inside execute_step is the owner of drive_mutex.
Mutex ==
    \A d \in Drives : pc[d] \in InStep <=> drive_mutex = d

\* execute_step works on a node; a Run without a position is completed; the
\* result that is recorded is a success or a failure.
Position ==
    /\ completed <=> current = Done
    /\ \A d \in Drives : pc[d] \in InStep => current \in Nodes
    /\ \A d \in Drives : pc[d] = "record" => res[d] \in {"ok", "fail"}

ControlInv == ControlTypes /\ Mutex /\ Position

TypeInv == TypeOK /\ Mutex /\ Position

USE DEF controlVars, asyncVars, subflowVars, callbackVars,
        worldVars, callerVars, cancelVars, historyVars, sharedVars, outsideVars,
        CancelSeen, ReleaseLease, BudgetLeft, ChargeRetry, TokenOf

-----------------------------------------------------------------------------
(* Frames: which steps change which group of variables.                     *)

\* Who changes the asynchronous attempt.
LEMMA AsyncFrame ==
  ASSUME [Next]_vars
  PROVE  \/ UNCHANGED asyncVars
         \/ \E d \in Drives :
              TopError(d) \/ TopContinue(d) \/ LeaseDenied(d) \/
              StartAttempt(d) \/ ArmTimeout(d) \/ ConsumeRetry(d) \/
              ConsumeFinish(d) \/ Deliver(d)
         \/ HostStep
         \/ \E t \in firing : TimerFire(t)
<1>1. ASSUME CallerStep PROVE UNCHANGED asyncVars
  BY <1>1, ZenonT(60) DEF CallerStep, ExecuteAsync, InstallDrive, SubmitDrive,
  SubmitRejected
<1>2. ASSUME NEW d \in Drives, DriveStep(d)
       PROVE  UNCHANGED asyncVars \/ TopError(d) \/ TopContinue(d) \/
              LeaseDenied(d) \/ StartAttempt(d) \/ ArmTimeout(d) \/
              ConsumeRetry(d) \/ ConsumeFinish(d) \/ Deliver(d)
  BY <1>2, ZenonT(60) DEF DriveStep, Enqueue, EnqueueRejected, DriveStart, EnterStep,
  TopCancelled, TopPending, TopFresh, Invoke, StartSubflow, LaunchSubflow,
  CheckSubflow, ContinueSubflow, NotDispatched, RunSync, SuspendHuman,
  ResumeHuman, RecordQuota, Record, PostPending, PostSubflow, DeliverNothing
<1>3. CASE ChildStep
  BY <1>3, ZenonT(60) DEF ChildStep, ChildComplete
<1>4. CASE \E t \in armed : TimerPop(t)
  BY <1>4, ZenonT(60) DEF TimerPop
<1>5. ASSUME NEW c \in Cancellers, CancelStep(c)
       PROVE  UNCHANGED asyncVars
  BY <1>5, ZenonT(60) DEF CancelStep, CancelFlag, CancelCopy, CancelAttempt,
  CancelSubflow, CancelWake
<1>6. CASE UNCHANGED vars
  BY <1>6, ZenonT(60) DEF vars
<1> HIDE DEF controlVars, asyncVars, subflowVars, callbackVars, worldVars,
         callerVars, cancelVars, historyVars, sharedVars, outsideVars
<1> QED
  BY <1>1, <1>2, <1>3, <1>4, <1>5, <1>6, ZenonT(60) DEF Next, TimerStep

\* Who changes the subflow child.
LEMMA SubflowFrame ==
  ASSUME [Next]_vars
  PROVE  \/ UNCHANGED subflowVars
         \/ \E d \in Drives :
              StartSubflow(d) \/ CheckSubflow(d) \/ ContinueSubflow(d) \/
              Deliver(d)
         \/ ChildStep
<1>1. ASSUME CallerStep PROVE UNCHANGED subflowVars
  BY <1>1, ZenonT(60) DEF CallerStep, ExecuteAsync, InstallDrive, SubmitDrive,
  SubmitRejected
<1>2. ASSUME NEW d \in Drives, DriveStep(d)
       PROVE  UNCHANGED subflowVars \/ StartSubflow(d) \/ CheckSubflow(d) \/
              ContinueSubflow(d) \/ Deliver(d)
  BY <1>2, ZenonT(60) DEF DriveStep, Enqueue, EnqueueRejected, DriveStart, EnterStep,
  TopCancelled, TopPending, TopError, TopContinue, TopFresh, LeaseDenied,
  StartAttempt, ArmTimeout, Invoke, ConsumeRetry, ConsumeFinish,
  LaunchSubflow, NotDispatched, RunSync, SuspendHuman, ResumeHuman,
  RecordQuota, Record, PostPending, PostSubflow, DeliverNothing
<1>3. CASE HostStep
  BY <1>3, ZenonT(60) DEF HostStep, HostComplete
<1>4. CASE \E t \in armed : TimerPop(t)
  BY <1>4, ZenonT(60) DEF TimerPop
<1>5. CASE \E t \in firing : TimerFire(t)
  BY <1>5, ZenonT(60) DEF TimerFire
<1>6. ASSUME NEW c \in Cancellers, CancelStep(c)
       PROVE  UNCHANGED subflowVars
  BY <1>6, ZenonT(60) DEF CancelStep, CancelFlag, CancelCopy, CancelAttempt,
  CancelSubflow, CancelWake
<1>7. CASE UNCHANGED vars
  BY <1>7, ZenonT(60) DEF vars
<1> HIDE DEF controlVars, asyncVars, subflowVars, callbackVars, worldVars,
         callerVars, cancelVars, historyVars, sharedVars, outsideVars
<1> QED
  BY <1>1, <1>2, <1>3, <1>4, <1>5, <1>6, <1>7, ZenonT(60) DEF Next, TimerStep

\* Who changes operations, children, tokens and timers.
LEMMA WorldFrame ==
  ASSUME [Next]_vars
  PROVE  \/ UNCHANGED worldVars
         \/ \E d \in Drives :
              ArmTimeout(d) \/ Invoke(d) \/ ConsumeRetry(d) \/
              LaunchSubflow(d) \/ Deliver(d)
         \/ HostStep
         \/ ChildStep
         \/ \E t \in armed : TimerPop(t)
         \/ \E t \in firing : TimerFire(t)
         \/ \E c \in Cancellers : CancelAttempt(c) \/ CancelSubflow(c)
<1>1. ASSUME CallerStep PROVE UNCHANGED worldVars
  BY <1>1, ZenonT(60) DEF CallerStep, ExecuteAsync, InstallDrive, SubmitDrive,
  SubmitRejected
<1>2. ASSUME NEW d \in Drives, DriveStep(d)
       PROVE  UNCHANGED worldVars \/ ArmTimeout(d) \/ Invoke(d) \/
              ConsumeRetry(d) \/ LaunchSubflow(d) \/ Deliver(d)
  BY <1>2, ZenonT(60) DEF DriveStep, Enqueue, EnqueueRejected, DriveStart, EnterStep,
  TopCancelled, TopPending, TopError, TopContinue, TopFresh, LeaseDenied,
  StartAttempt, ConsumeFinish, StartSubflow, CheckSubflow, ContinueSubflow,
  NotDispatched, RunSync, SuspendHuman, ResumeHuman, RecordQuota, Record,
  PostPending, PostSubflow, DeliverNothing
<1>3. ASSUME NEW c \in Cancellers, CancelStep(c)
       PROVE  UNCHANGED worldVars \/ CancelAttempt(c) \/ CancelSubflow(c)
  BY <1>3, ZenonT(60) DEF CancelStep, CancelFlag, CancelCopy, CancelWake
<1>4. CASE UNCHANGED vars
  BY <1>4, ZenonT(60) DEF vars
<1> HIDE DEF controlVars, asyncVars, subflowVars, callbackVars, worldVars,
         callerVars, cancelVars, historyVars, sharedVars, outsideVars
<1> QED
  BY <1>1, <1>2, <1>3, <1>4, ZenonT(60) DEF Next, TimerStep

\* Who changes callers and callbacks.
LEMMA CallFrame ==
  ASSUME [Next]_vars
  PROVE  \/ UNCHANGED <<callerVars, callbackVars, delivered>>
         \/ CallerStep
         \/ \E d \in Drives :
              Deliver(d)
<1>1. ASSUME NEW d \in Drives, DriveStep(d)
       PROVE  UNCHANGED <<callerVars, callbackVars, delivered>> \/ Deliver(d)
  BY <1>1, ZenonT(60) DEF DriveStep, Enqueue, EnqueueRejected, DriveStart, EnterStep,
  TopCancelled, TopPending, TopError, TopContinue, TopFresh, LeaseDenied,
  StartAttempt, ArmTimeout, Invoke, ConsumeRetry, ConsumeFinish,
  StartSubflow, LaunchSubflow, CheckSubflow, ContinueSubflow, NotDispatched,
  RunSync, SuspendHuman, ResumeHuman, RecordQuota, Record, PostPending,
  PostSubflow, DeliverNothing
<1>2. CASE HostStep
  BY <1>2, ZenonT(60) DEF HostStep, HostComplete
<1>3. CASE ChildStep
  BY <1>3, ZenonT(60) DEF ChildStep, ChildComplete
<1>4. CASE \E t \in armed : TimerPop(t)
  BY <1>4, ZenonT(60) DEF TimerPop
<1>5. CASE \E t \in firing : TimerFire(t)
  BY <1>5, ZenonT(60) DEF TimerFire
<1>6. ASSUME NEW c \in Cancellers, CancelStep(c)
       PROVE  UNCHANGED <<callerVars, callbackVars, delivered>>
  BY <1>6, ZenonT(60) DEF CancelStep, CancelFlag, CancelCopy, CancelAttempt,
  CancelSubflow, CancelWake
<1>7. CASE UNCHANGED vars
  BY <1>7, ZenonT(60) DEF vars
<1> HIDE DEF controlVars, asyncVars, subflowVars, callbackVars, worldVars,
         callerVars, cancelVars, historyVars, sharedVars, outsideVars
<1> QED
  BY <1>1, <1>2, <1>3, <1>4, <1>5, <1>6, <1>7, ZenonT(60) DEF Next, TimerStep

\* Who makes or ends a drive.
LEMMA OwnFrame ==
  ASSUME [Next]_vars
  PROVE  \/ UNCHANGED own
         \/ SubmitDrive
         \/ \E d \in Drives :
              EnqueueRejected(d) \/ PostPending(d) \/ PostSubflow(d) \/
              DeliverNothing(d) \/ Deliver(d)
         \/ HostStep
         \/ ChildStep
         \/ \E t \in firing : TimerFire(t)
         \/ \E c \in Cancellers : CancelWake(c)
<1>1. ASSUME CallerStep PROVE UNCHANGED own \/ SubmitDrive
  BY <1>1, ZenonT(60) DEF CallerStep, ExecuteAsync, InstallDrive, SubmitRejected
<1>2. ASSUME NEW d \in Drives, DriveStep(d)
       PROVE  UNCHANGED own \/ EnqueueRejected(d) \/ PostPending(d) \/
              PostSubflow(d) \/ DeliverNothing(d) \/ Deliver(d)
  BY <1>2, ZenonT(60) DEF DriveStep, Enqueue, DriveStart, EnterStep, TopCancelled,
  TopPending, TopError, TopContinue, TopFresh, LeaseDenied, StartAttempt,
  ArmTimeout, Invoke, ConsumeRetry, ConsumeFinish, StartSubflow,
  LaunchSubflow, CheckSubflow, ContinueSubflow, NotDispatched, RunSync,
  SuspendHuman, ResumeHuman, RecordQuota, Record
<1>3. CASE \E t \in armed : TimerPop(t)
  BY <1>3, ZenonT(60) DEF TimerPop
<1>4. ASSUME NEW c \in Cancellers, CancelStep(c)
       PROVE  UNCHANGED own \/ CancelWake(c)
  BY <1>4, ZenonT(60) DEF CancelStep, CancelFlag, CancelCopy, CancelAttempt,
  CancelSubflow
<1>5. CASE UNCHANGED vars
  BY <1>5, ZenonT(60) DEF vars
<1> HIDE DEF controlVars, asyncVars, subflowVars, callbackVars, worldVars,
         callerVars, cancelVars, historyVars, sharedVars, outsideVars
<1> QED
  BY <1>1, <1>2, <1>3, <1>4, <1>5, ZenonT(60) DEF Next, TimerStep

\* Who cancels.
LEMMA CancelFrame ==
  ASSUME [Next]_vars
  PROVE  \/ UNCHANGED <<cancelled, cancelVars>>
         \/ \E d \in Drives :
              RunSync(d)
         \/ \E c \in Cancellers : CancelStep(c)
<1>1. ASSUME CallerStep PROVE UNCHANGED <<cancelled, cancelVars>>
  BY <1>1, ZenonT(60) DEF CallerStep, ExecuteAsync, InstallDrive, SubmitDrive,
  SubmitRejected
<1>2. ASSUME NEW d \in Drives, DriveStep(d)
       PROVE  UNCHANGED <<cancelled, cancelVars>> \/ RunSync(d)
  BY <1>2, ZenonT(60) DEF DriveStep, Enqueue, EnqueueRejected, DriveStart, EnterStep,
  TopCancelled, TopPending, TopError, TopContinue, TopFresh, LeaseDenied,
  StartAttempt, ArmTimeout, Invoke, ConsumeRetry, ConsumeFinish,
  StartSubflow, LaunchSubflow, CheckSubflow, ContinueSubflow, NotDispatched,
  SuspendHuman, ResumeHuman, RecordQuota, Record, PostPending, PostSubflow,
  DeliverNothing, Deliver
<1>3. CASE HostStep
  BY <1>3, ZenonT(60) DEF HostStep, HostComplete
<1>4. CASE ChildStep
  BY <1>4, ZenonT(60) DEF ChildStep, ChildComplete
<1>5. CASE \E t \in armed : TimerPop(t)
  BY <1>5, ZenonT(60) DEF TimerPop
<1>6. CASE \E t \in firing : TimerFire(t)
  BY <1>6, ZenonT(60) DEF TimerFire
<1>7. CASE UNCHANGED vars
  BY <1>7, ZenonT(60) DEF vars
<1> HIDE DEF controlVars, asyncVars, subflowVars, callbackVars, worldVars,
         callerVars, cancelVars, historyVars, sharedVars, outsideVars
<1> QED
  BY <1>1, <1>2, <1>3, <1>4, <1>5, <1>6, <1>7, ZenonT(60) DEF Next, TimerStep

-----------------------------------------------------------------------------
(* Types.  The provers do not mix Boolean variables with arithmetic: the    *)
(* groups of variables are treated one after the other.                     *)

\* Counting a callback keeps the counters natural numbers.
LEMMA Bump ==
  ASSUME NEW N \in Nat, NEW f \in [1..N -> Nat], NEW e \in Nat,
         NEW g, g = [f EXCEPT ![e] = @ + 1]
  PROVE  g \in [1..N -> Nat]
<1>1. CASE e \in 1..N
  <2>1. f[e] + 1 \in Nat
    BY <1>1
  <2> QED
    BY <1>1, <2>1
<1>2. CASE e \notin 1..N
  <2>1. g = f
    BY <1>2
  <2> QED
    BY <2>1, ZenonT(60)
<1> QED
  BY <1>1, <1>2

\* Every flag is in the set B.
FlagsIn(B) ==
    /\ completed \in B /\ is_suspended \in B /\ has_resume \in B /\ cancelled \in B
    /\ async_pending \in B /\ async_ready \in B /\ async_lease \in B
    /\ subflow_pending \in B /\ subflow_ready \in B
    /\ callback_delivered \in B /\ driving \in B /\ dropped \in B

\* A flag keeps its value or is set to TRUE or FALSE: whatever set holds the
\* flags and the two truth values holds the flags after the step.
LEMMA FlagStep ==
  ASSUME NEW B, TRUE \in B, FALSE \in B, FlagsIn(B), [Next]_vars
  PROVE  FlagsIn(B)'
<1> USE DEF FlagsIn
<1>1. CASE ExecuteAsync
  <2>1. CASE UNCHANGED has_resume
    BY <1>1, <2>1, ZenonT(60) DEF ExecuteAsync
  <2>2. CASE ~(UNCHANGED has_resume)
    BY <1>1, <2>2, ZenonT(60) DEF ExecuteAsync
  <2> QED
    BY <2>1, <2>2
<1>2. CASE InstallDrive
  BY <1>2, ZenonT(60) DEF InstallDrive
<1>3. CASE SubmitDrive
  BY <1>3, ZenonT(60) DEF SubmitDrive, Spawn
<1>4. CASE SubmitRejected
  BY <1>4, ZenonT(60) DEF SubmitRejected
<1>5. ASSUME NEW d \in Drives, Enqueue(d) PROVE FlagsIn(B)'
  BY <1>5, ZenonT(60) DEF Enqueue
<1>6. ASSUME NEW d \in Drives, EnqueueRejected(d) PROVE FlagsIn(B)'
  BY <1>6, ZenonT(60) DEF EnqueueRejected, Retire
<1>7. ASSUME NEW d \in Drives, DriveStart(d) PROVE FlagsIn(B)'
  BY <1>7, ZenonT(60) DEF DriveStart
<1>8. ASSUME NEW d \in Drives, EnterStep(d) PROVE FlagsIn(B)'
  BY <1>8, ZenonT(60) DEF EnterStep, Return
<1>9. ASSUME NEW d \in Drives, TopCancelled(d) PROVE FlagsIn(B)'
  BY <1>9, ZenonT(60) DEF TopCancelled, Return
<1>10. ASSUME NEW d \in Drives, TopPending(d) PROVE FlagsIn(B)'
  BY <1>10, ZenonT(60) DEF TopPending, Return, Waiting, AsyncHere, SubflowHere
<1>11. ASSUME NEW d \in Drives, TopError(d) PROVE FlagsIn(B)'
  <2>1. CASE Continuation = "retry"
    BY <1>11, <2>1, ZenonT(60) DEF TopError, TakeRetry
  <2>2. CASE ~(Continuation = "retry")
    BY <1>11, <2>2, ZenonT(60) DEF TopError, TakeRetry
  <2> QED
    BY <2>1, <2>2
<1>12. ASSUME NEW d \in Drives, TopContinue(d) PROVE FlagsIn(B)'
  <2>1. CASE Continuation = "retry"
    BY <1>12, <2>1, ZenonT(60) DEF TopContinue, TakeRetry
  <2>2. CASE ~(Continuation = "retry")
    BY <1>12, <2>2, ZenonT(60) DEF TopContinue, TakeRetry
  <2> QED
    BY <2>1, <2>2
<1>13. ASSUME NEW d \in Drives, TopFresh(d) PROVE FlagsIn(B)'
  BY <1>13, ZenonT(60) DEF TopFresh, Return, Goto, Continuation, Waiting, AsyncHere,
  SubflowHere
<1>14. ASSUME NEW d \in Drives, LeaseDenied(d) PROVE FlagsIn(B)'
  BY <1>14, ZenonT(60) DEF LeaseDenied, Finish, StartsAttempt, AttemptNumber
<1>15. ASSUME NEW d \in Drives, StartAttempt(d) PROVE FlagsIn(B)'
  BY <1>15, ZenonT(60) DEF StartAttempt, Goto, StartsAttempt, AttemptNumber
<1>16. ASSUME NEW d \in Drives, ArmTimeout(d) PROVE FlagsIn(B)'
  BY <1>16, ZenonT(60) DEF ArmTimeout, Goto, Timers
<1>17. ASSUME NEW d \in Drives, Invoke(d) PROVE FlagsIn(B)'
  BY <1>17, ZenonT(60) DEF Invoke, Return
<1>18. ASSUME NEW d \in Drives, ConsumeRetry(d) PROVE FlagsIn(B)'
  BY <1>18, ZenonT(60) DEF ConsumeRetry, Return, WantsRetry, Retryable, Timers
<1>19. ASSUME NEW d \in Drives, ConsumeFinish(d) PROVE FlagsIn(B)'
  BY <1>19, ZenonT(60) DEF ConsumeFinish, Finish
<1>20. ASSUME NEW d \in Drives, StartSubflow(d) PROVE FlagsIn(B)'
  BY <1>20, ZenonT(60) DEF StartSubflow, Goto
<1>21. ASSUME NEW d \in Drives, LaunchSubflow(d) PROVE FlagsIn(B)'
  BY <1>21, ZenonT(60) DEF LaunchSubflow, Goto
<1>22. ASSUME NEW d \in Drives, CheckSubflow(d) PROVE FlagsIn(B)'
  <2>1. CASE subflow_ready
    BY <1>22, <2>1, ZenonT(60) DEF CheckSubflow, JoinSubflow
  <2>2. CASE ~(subflow_ready)
    BY <1>22, <2>2, ZenonT(60) DEF CheckSubflow, JoinSubflow
  <2> QED
    BY <2>1, <2>2
<1>23. ASSUME NEW d \in Drives, ContinueSubflow(d) PROVE FlagsIn(B)'
  BY <1>23, ZenonT(60) DEF ContinueSubflow, JoinSubflow, Finish
<1>24. ASSUME NEW d \in Drives, NotDispatched(d) PROVE FlagsIn(B)'
  BY <1>24, ZenonT(60) DEF NotDispatched, Finish
<1>25. ASSUME NEW d \in Drives, RunSync(d) PROVE FlagsIn(B)'
  <2>1. CASE UNCHANGED cancelled
    BY <1>25, <2>1, ZenonT(60) DEF RunSync
  <2>2. CASE ~(UNCHANGED cancelled)
    BY <1>25, <2>2, ZenonT(60) DEF RunSync
  <2> QED
    BY <2>1, <2>2
<1>26. ASSUME NEW d \in Drives, SuspendHuman(d) PROVE FlagsIn(B)'
  BY <1>26, ZenonT(60) DEF SuspendHuman, Return
<1>27. ASSUME NEW d \in Drives, ResumeHuman(d) PROVE FlagsIn(B)'
  BY <1>27, ZenonT(60) DEF ResumeHuman, Finish
<1>28. ASSUME NEW d \in Drives, RecordQuota(d) PROVE FlagsIn(B)'
  BY <1>28, ZenonT(60) DEF RecordQuota, Return
<1>29. ASSUME NEW d \in Drives, Record(d) PROVE FlagsIn(B)'
  BY <1>29, ZenonT(60) DEF Record, Return, Goto
<1>30. ASSUME NEW d \in Drives, PostPending(d) PROVE FlagsIn(B)'
  <2>1. CASE UNCHANGED dropped
    BY <1>30, <2>1, ZenonT(60) DEF PostPending, Resubmit
  <2>2. CASE ~(UNCHANGED dropped)
    BY <1>30, <2>2, ZenonT(60) DEF PostPending, Resubmit
  <2> QED
    BY <2>1, <2>2
<1>31. ASSUME NEW d \in Drives, PostSubflow(d) PROVE FlagsIn(B)'
  <2>1. CASE UNCHANGED dropped
    BY <1>31, <2>1, ZenonT(60) DEF PostSubflow, Resubmit
  <2>2. CASE ~(UNCHANGED dropped)
    BY <1>31, <2>2, ZenonT(60) DEF PostSubflow, Resubmit
  <2> QED
    BY <2>1, <2>2
<1>32. ASSUME NEW d \in Drives, DeliverNothing(d) PROVE FlagsIn(B)'
  BY <1>32, ZenonT(60) DEF DeliverNothing, Retire
<1>33. ASSUME NEW d \in Drives, Deliver(d) PROVE FlagsIn(B)'
  BY <1>33, ZenonT(60) DEF Deliver, Retire
<1>34. ASSUME NEW op \in ops, NEW out \in Outcomes, HostComplete(op, out)
       PROVE  FlagsIn(B)'
  <2>1. CASE Accepts(op.gen)
    BY <1>34, <2>1, ZenonT(60) DEF HostComplete
  <2>2. CASE ~(Accepts(op.gen))
    BY <1>34, <2>2, ZenonT(60) DEF HostComplete
  <2> QED
    BY <2>1, <2>2
<1>35. ASSUME NEW c \in children, NEW out \in {"ok", "fail"}, ChildComplete(c, out)
       PROVE  FlagsIn(B)'
  <2>1. CASE subflow_pending /\ ~subflow_ready
    BY <1>35, <2>1, ZenonT(60) DEF ChildComplete
  <2>2. CASE ~(subflow_pending /\ ~subflow_ready)
    BY <1>35, <2>2, ZenonT(60) DEF ChildComplete
  <2> QED
    BY <2>1, <2>2
<1>36. ASSUME NEW t \in armed, TimerPop(t)
       PROVE  FlagsIn(B)'
  BY <1>36, ZenonT(60) DEF TimerPop
<1>37. ASSUME NEW t \in firing, TimerFire(t)
       PROVE  FlagsIn(B)'
  <2>1. CASE Accepts(t.gen)
    BY <1>37, <2>1, ZenonT(60) DEF TimerFire
  <2>2. CASE ~(Accepts(t.gen))
    BY <1>37, <2>2, ZenonT(60) DEF TimerFire
  <2> QED
    BY <2>1, <2>2
<1>38. ASSUME NEW c \in Cancellers, CancelFlag(c) PROVE FlagsIn(B)'
  BY <1>38, ZenonT(60) DEF CancelFlag
<1>39. ASSUME NEW c \in Cancellers, CancelCopy(c) PROVE FlagsIn(B)'
  BY <1>39, ZenonT(60) DEF CancelCopy
<1>40. ASSUME NEW c \in Cancellers, CancelAttempt(c) PROVE FlagsIn(B)'
  BY <1>40, ZenonT(60) DEF CancelAttempt
<1>41. ASSUME NEW c \in Cancellers, CancelSubflow(c) PROVE FlagsIn(B)'
  BY <1>41, ZenonT(60) DEF CancelSubflow
<1>42. ASSUME NEW c \in Cancellers, CancelWake(c) PROVE FlagsIn(B)'
  BY <1>42, ZenonT(60) DEF CancelWake, Spawn
<1>43. CASE UNCHANGED vars
  BY <1>43, ZenonT(60) DEF vars
<1> HIDE DEF FlagsIn
<1> QED
  BY <1>1, <1>2, <1>3, <1>4, <1>5, <1>6, <1>7, <1>8, <1>9, <1>10, <1>11,
  <1>12, <1>13, <1>14, <1>15, <1>16, <1>17, <1>18, <1>19, <1>20, <1>21,
  <1>22, <1>23, <1>24, <1>25, <1>26, <1>27, <1>28, <1>29, <1>30, <1>31,
  <1>32, <1>33, <1>34, <1>35, <1>36, <1>37, <1>38, <1>39, <1>40, <1>41,
  <1>42, <1>43, ZenonT(60) DEF Next, CallerStep, DriveStep, HostStep, ChildStep,
  TimerStep, CancelStep

\* The flags stay Booleans.
LEMMA BoolStep == BoolTypes /\ [Next]_vars => BoolTypes'
<1>1. BoolTypes <=> FlagsIn(BOOLEAN)
  BY Zenon DEF BoolTypes, FlagsIn
<1>2. BoolTypes' <=> FlagsIn(BOOLEAN)'
  BY Zenon DEF BoolTypes, FlagsIn
<1>3. TRUE \in BOOLEAN /\ FALSE \in BOOLEAN
  BY Zenon
<1> QED
  BY <1>1, <1>2, <1>3, FlagStep, Zenon

-----------------------------------------------------------------------------
\* The attempt and the child the Run waits for keep their types.
LEMMA ContinuationStep == TypeInv /\ [Next]_vars => ContinuationTypes'
<1> SUFFICES ASSUME TypeInv, [Next]_vars PROVE ContinuationTypes'
  BY Zenon
<1> USE GraphAssumption, BoundAssumption DEF TypeInv, TypeOK, ControlTypes,
    ContinuationTypes, WorldTypes, Position, AsyncOutcomes, Outcomes, InStep,
    Timers
<1>1. ASSUME NEW d \in Drives, TopError(d) PROVE ContinuationTypes'
  BY <1>1, SMTT(30) DEF TopError, Return, TakeRetry, Continuation, Waiting,
  AsyncHere, SubflowHere
<1>2. ASSUME NEW d \in Drives, TopContinue(d) PROVE ContinuationTypes'
  BY <1>2, SMTT(30) DEF TopContinue, Goto, TakeRetry, Continuation, Waiting,
  AsyncHere, SubflowHere
<1>3. ASSUME NEW d \in Drives, LeaseDenied(d) PROVE ContinuationTypes'
  BY <1>3, Zenon DEF LeaseDenied, Finish, StartsAttempt, AttemptNumber
<1>4. ASSUME NEW d \in Drives, StartAttempt(d) PROVE ContinuationTypes'
  BY <1>4, SMTT(30) DEF StartAttempt, Goto, StartsAttempt, AttemptNumber
<1>5. ASSUME NEW d \in Drives, ArmTimeout(d) PROVE ContinuationTypes'
  BY <1>5, Zenon DEF ArmTimeout, Goto, Timers
<1>6. ASSUME NEW d \in Drives, ConsumeRetry(d) PROVE ContinuationTypes'
  BY <1>6, SMTT(30) DEF ConsumeRetry, Return, WantsRetry, Retryable, Timers
<1>7. ASSUME NEW d \in Drives, ConsumeFinish(d) PROVE ContinuationTypes'
  BY <1>7, Zenon DEF ConsumeFinish, Finish
<1>8. ASSUME NEW d \in Drives, StartSubflow(d) PROVE ContinuationTypes'
  BY <1>8, SMTT(30) DEF StartSubflow, Goto
<1>9. ASSUME NEW d \in Drives, CheckSubflow(d) PROVE ContinuationTypes'
  BY <1>9, SMTT(30) DEF CheckSubflow, JoinSubflow, Finish, Return
<1>10. ASSUME NEW d \in Drives, ContinueSubflow(d) PROVE ContinuationTypes'
  BY <1>10, Zenon DEF ContinueSubflow, JoinSubflow, Finish
<1>11. ASSUME NEW d \in Drives, Deliver(d) PROVE ContinuationTypes'
  BY <1>11, ZenonT(60) DEF Deliver, Retire
<1>12. ASSUME NEW op \in ops, NEW out \in Outcomes, HostComplete(op, out)
       PROVE  ContinuationTypes'
  BY <1>12, SMTT(30) DEF HostComplete, Accepts, WakeUnlessDriving, Spawn
<1>13. ASSUME NEW c \in children, NEW out \in {"ok", "fail"}, ChildComplete(c, out)
       PROVE  ContinuationTypes'
  BY <1>13, SMTT(30) DEF ChildComplete, WakeUnlessDriving, Spawn
<1>14. ASSUME NEW t \in firing, TimerFire(t)
       PROVE  ContinuationTypes'
  BY <1>14, SMTT(30) DEF TimerFire, Accepts, WakeUnlessDriving, Spawn
<1>15. CASE UNCHANGED <<asyncVars, subflowVars>>
  BY <1>15, ZenonT(60)
<1> HIDE GraphAssumption, BoundAssumption DEF TypeInv, TypeOK, ControlTypes,
    ContinuationTypes, WorldTypes, Position, AsyncOutcomes, Outcomes, InStep,
    Timers
<1> QED
  BY <1>1, <1>2, <1>3, <1>4, <1>5, <1>6, <1>7, <1>8, <1>9, <1>10, <1>11, <1>12,
  <1>13, <1>14, <1>15, AsyncFrame, SubflowFrame, Zenon DEF HostStep, ChildStep

\* Operations, children, tokens and timers keep their types.
LEMMA WorldStep == TypeInv /\ [Next]_vars => WorldTypes'
<1> SUFFICES ASSUME TypeInv, [Next]_vars PROVE WorldTypes'
  BY Zenon
<1> USE GraphAssumption DEF TypeInv, TypeOK, ControlTypes, ContinuationTypes,
    WorldTypes, Position, InStep, Timers
<1>1. ASSUME NEW d \in Drives, ArmTimeout(d) PROVE WorldTypes'
  BY <1>1, SMTT(30) DEF ArmTimeout, Goto, Timers
<1>2. ASSUME NEW d \in Drives, Invoke(d) PROVE WorldTypes'
  BY <1>2, FlagAssumption, SMTT(30) DEF Invoke, Return
<1>3. ASSUME NEW d \in Drives, ConsumeRetry(d) PROVE WorldTypes'
  BY <1>3, SMTT(30) DEF ConsumeRetry, Return, WantsRetry, Retryable, Timers
<1>4. ASSUME NEW d \in Drives, LaunchSubflow(d) PROVE WorldTypes'
  BY <1>4, ZenonT(60) DEF LaunchSubflow, Goto
<1>5. ASSUME NEW d \in Drives, Deliver(d) PROVE WorldTypes'
  BY <1>5, Zenon DEF Deliver, Retire
<1>6. ASSUME NEW op \in ops, NEW out \in Outcomes, HostComplete(op, out)
       PROVE  WorldTypes'
  BY <1>6, SMTT(30) DEF HostComplete, Accepts, WakeUnlessDriving, Spawn
<1>7. ASSUME NEW c \in children, NEW out \in {"ok", "fail"}, ChildComplete(c, out)
       PROVE  WorldTypes'
  BY <1>7, Zenon DEF ChildComplete, WakeUnlessDriving, Spawn
<1>8. ASSUME NEW t \in armed, TimerPop(t)
       PROVE  WorldTypes'
  BY <1>8, SMTT(30) DEF TimerPop
<1>9. ASSUME NEW t \in firing, TimerFire(t)
       PROVE  WorldTypes'
  <2>1. t.gen \in Nat
    BY Zenon
  <2>2. cancelled_tokens' \subseteq cancelled_tokens \cup {t.gen}
    BY <1>9, SMTT(30) DEF TimerFire
  <2>3. firing' = {}
    BY <1>9, Zenon DEF TimerFire
  <2>4. cancelled_tokens' \subseteq Nat
    BY <2>1, <2>2, ZenonT(60)
  <2> QED
    BY <1>9, <2>3, <2>4, ZenonT(60) DEF TimerFire
<1>10. ASSUME NEW c \in Cancellers, CancelAttempt(c) PROVE WorldTypes'
  <2>1. c_attempt[c] \in Nat
    BY ZenonT(60) DEF CancelTypes
  <2>2. cancelled_tokens' \subseteq Nat
    BY <1>10, <2>1, ZenonT(60) DEF CancelAttempt
  <2> QED
    BY <1>10, <2>2, Zenon DEF CancelAttempt
<1>11. ASSUME NEW c \in Cancellers, CancelSubflow(c) PROVE WorldTypes'
  BY <1>11, ZenonT(60) DEF CancelSubflow
<1>12. CASE UNCHANGED worldVars
  BY <1>12, Zenon
<1> HIDE GraphAssumption DEF TypeInv, TypeOK, ControlTypes,
    ContinuationTypes, WorldTypes, Position, InStep, Timers
<1> QED
  BY <1>1, <1>2, <1>3, <1>4, <1>5, <1>6, <1>7, <1>8, <1>9, <1>10, <1>11, <1>12,
  WorldFrame, ZenonT(60) DEF HostStep, ChildStep, CancelStep

\* The callers and the counters of callbacks keep their types.
LEMMA CallStep == TypeInv /\ [Next]_vars => CallTypes'
<1> SUFFICES ASSUME TypeInv, [Next]_vars PROVE CallTypes'
  BY Zenon
<1> USE BoundAssumption DEF TypeInv, TypeOK, CallTypes, OwnTypes
<1>1. CASE ExecuteAsync
  BY <1>1, SMTT(30) DEF ExecuteAsync
<1>2. CASE InstallDrive
  BY <1>2, Zenon DEF InstallDrive
<1>3. CASE SubmitDrive
  BY <1>3, Zenon DEF SubmitDrive, Spawn
<1>4. CASE SubmitRejected
  <2>1. /\ MaxExecutes \in Nat /\ delivered \in [1..MaxExecutes -> Nat]
        /\ executes \in Nat /\ delivered' = [delivered EXCEPT ![executes] = @ + 1]
    BY <1>4, SMTT(30) DEF SubmitRejected
  <2>2. delivered' \in [1..MaxExecutes -> Nat]
    <3> HIDE BoundAssumption DEF TypeInv, TypeOK, CallTypes, OwnTypes
    <3> QED
      BY <2>1, Bump, Zenon
  <2> QED
    BY <1>4, <2>2, SMTT(30) DEF SubmitRejected
<1>5. ASSUME NEW d \in Drives, Deliver(d) PROVE CallTypes'
  <2>1. /\ MaxExecutes \in Nat /\ delivered \in [1..MaxExecutes -> Nat]
        /\ run_completion \in Nat
        /\ delivered' = [delivered EXCEPT ![run_completion] = @ + 1]
    BY <1>5, SMTT(30) DEF Deliver
  <2>2. delivered' \in [1..MaxExecutes -> Nat]
    <3> HIDE BoundAssumption DEF TypeInv, TypeOK, CallTypes, OwnTypes
    <3> QED
      BY <2>1, Bump, Zenon
  <2>3. emptied' \subseteq 0..MaxExecutes
    BY <1>5, ZenonT(60) DEF Deliver
  <2> QED
    BY <1>5, <2>2, <2>3, SMTT(30) DEF Deliver
<1>6. CASE UNCHANGED <<callerVars, callbackVars, delivered>>
  BY <1>6, ZenonT(60)
<1> HIDE BoundAssumption DEF TypeInv, TypeOK, CallTypes, OwnTypes
<1> QED
  BY <1>1, <1>2, <1>3, <1>4, <1>5, <1>6, CallFrame, ZenonT(60) DEF CallerStep

\* A drive belongs to an execution.
LEMMA OwnStep == TypeInv /\ [Next]_vars => OwnTypes'
<1> SUFFICES ASSUME TypeInv, [Next]_vars PROVE OwnTypes'
  BY Zenon
<1> USE BoundAssumption DEF TypeInv, TypeOK, CallTypes, OwnTypes
<1>1. CASE SubmitDrive
  BY <1>1, Zenon DEF SubmitDrive, Spawn
<1>2. ASSUME NEW d \in Drives, EnqueueRejected(d) PROVE OwnTypes'
  BY <1>2, SMTT(30) DEF EnqueueRejected, Retire
<1>3. ASSUME NEW d \in Drives, PostPending(d) PROVE OwnTypes'
  BY <1>3, SMTT(30) DEF PostPending, Resubmit, Retire
<1>4. ASSUME NEW d \in Drives, PostSubflow(d) PROVE OwnTypes'
  BY <1>4, SMTT(30) DEF PostSubflow, Resubmit, Retire
<1>5. ASSUME NEW d \in Drives, DeliverNothing(d) PROVE OwnTypes'
  BY <1>5, SMTT(30) DEF DeliverNothing, Retire
<1>6. ASSUME NEW d \in Drives, Deliver(d) PROVE OwnTypes'
  BY <1>6, SMTT(30) DEF Deliver, Retire
<1>7. ASSUME NEW op \in ops, NEW out \in Outcomes, HostComplete(op, out)
       PROVE  OwnTypes'
  BY <1>7, Zenon DEF HostComplete, WakeUnlessDriving, Spawn
<1>8. ASSUME NEW c \in children, NEW out \in {"ok", "fail"}, ChildComplete(c, out)
       PROVE  OwnTypes'
  BY <1>8, Zenon DEF ChildComplete, WakeUnlessDriving, Spawn
<1>9. ASSUME NEW t \in firing, TimerFire(t)
       PROVE  OwnTypes'
  BY <1>9, Zenon DEF TimerFire, WakeUnlessDriving, Spawn
<1>10. ASSUME NEW c \in Cancellers, CancelWake(c) PROVE OwnTypes'
  BY <1>10, ZenonT(60) DEF CancelWake, Spawn
<1>11. CASE UNCHANGED own
  BY <1>11, ZenonT(60)
<1> HIDE BoundAssumption DEF TypeInv, TypeOK, CallTypes, OwnTypes
<1> QED
  BY <1>1, <1>2, <1>3, <1>4, <1>5, <1>6, <1>7, <1>8, <1>9, <1>10, <1>11,
  OwnFrame, ZenonT(60) DEF CallerStep, HostStep, ChildStep, CancelStep

\* The cancels keep their types.
LEMMA CancelStepTypes == TypeInv /\ [Next]_vars => CancelTypes'
<1> SUFFICES ASSUME TypeInv, [Next]_vars PROVE CancelTypes'
  BY Zenon
<1> USE DEF TypeInv, TypeOK, CancelTypes, ContinuationTypes
<1>1. ASSUME NEW d \in Drives, RunSync(d) PROVE CancelTypes'
  BY <1>1, ZenonT(60) DEF RunSync, Finish
<1>2. ASSUME NEW c \in Cancellers, CancelFlag(c) PROVE CancelTypes'
  BY <1>2, ZenonT(60) DEF CancelFlag
<1>3. ASSUME NEW c \in Cancellers, CancelCopy(c) PROVE CancelTypes'
  BY <1>3, ZenonT(60) DEF CancelCopy
<1>4. ASSUME NEW c \in Cancellers, CancelAttempt(c) PROVE CancelTypes'
  BY <1>4, Zenon DEF CancelAttempt
<1>5. ASSUME NEW c \in Cancellers, CancelSubflow(c) PROVE CancelTypes'
  BY <1>5, ZenonT(60) DEF CancelSubflow
<1>6. ASSUME NEW c \in Cancellers, CancelWake(c) PROVE CancelTypes'
  BY <1>6, ZenonT(60) DEF CancelWake, Spawn
<1>7. CASE UNCHANGED <<cancelled, cancelVars>>
  BY <1>7, ZenonT(60)
<1> HIDE DEF TypeInv, TypeOK, CancelTypes, ContinuationTypes
<1> QED
  BY <1>1, <1>2, <1>3, <1>4, <1>5, <1>6, <1>7, CancelFrame, ZenonT(60) DEF
  CancelStep

-----------------------------------------------------------------------------
\* What a step does with drives: the moves below keep ControlInv.
SameRun == UNCHANGED <<current, completed, run_result>>
Counters == step' \in Nat /\ retry_remaining' \in Nat

\* A step that leaves the position, the drives and drive_mutex alone keeps it.
LEMMA StayKeeps ==
  ASSUME TypeInv, SameRun, Counters, UNCHANGED <<drive_mutex, pc, res>>
  PROVE  ControlInv'
  BY ZenonT(60) DEF TypeInv, TypeOK, ControlInv, ControlTypes, Mutex, Position,
  SameRun, Counters

\* A drive returns from execute_step.
LEMMA ReturnKeeps ==
  ASSUME TypeInv, SameRun, Counters, NEW d \in Drives,
         pc[d] \in InStep \/ drive_mutex = NoDrive,
         NEW r \in Results, Return(d, r)
  PROVE  ControlInv'
<1> USE DEF TypeInv, TypeOK, SameRun, Return
<1>1. ControlTypes'
  BY Zenon DEF ControlTypes, Counters, DrivePoints
<1>2. Mutex'
  BY SMTT(30) DEF Mutex, ControlTypes, InStep, Drives, NoDrive
<1>3. Position'
  BY Zenon DEF Position, ControlTypes, InStep
<1> QED
  BY <1>1, <1>2, <1>3, Zenon DEF ControlInv

\* A drive moves inside execute_step.
LEMMA GotoKeeps ==
  ASSUME TypeInv, SameRun, Counters, NEW d \in Drives, pc[d] \in InStep,
         NEW p \in InStep \ {"record"}, Goto(d, p)
  PROVE  ControlInv'
<1> USE DEF TypeInv, TypeOK, SameRun, Goto
<1>1. ControlTypes'
  BY ZenonT(60) DEF ControlTypes, Counters, DrivePoints, InStep
<1>2. Mutex'
  BY ZenonT(60) DEF Mutex, ControlTypes, InStep
<1>3. Position'
  BY Zenon DEF Position, ControlTypes, InStep
<1> QED
  BY <1>1, <1>2, <1>3, Zenon DEF ControlInv

\* A drive comes to the bookkeeping with a success or a failure.
LEMMA FinishKeeps ==
  ASSUME TypeInv, SameRun, Counters, NEW d \in Drives, pc[d] \in InStep,
         NEW r \in {"ok", "fail"}, Finish(d, r)
  PROVE  ControlInv'
<1> USE DEF TypeInv, TypeOK, SameRun, Finish
<1>1. ControlTypes'
  BY ZenonT(60) DEF ControlTypes, Counters, DrivePoints, Results
<1>2. Mutex'
  BY Zenon DEF Mutex, ControlTypes, InStep
<1>3. Position'
  BY ZenonT(60) DEF Position, ControlTypes, InStep
<1> QED
  BY <1>1, <1>2, <1>3, ZenonT(60) DEF ControlInv

\* A drive moves outside execute_step.
LEMMA OutsideKeeps ==
  ASSUME TypeInv, SameRun, Counters, UNCHANGED drive_mutex,
         NEW d \in Drives, pc[d] \notin InStep,
         NEW p \in DrivePoints \ InStep, pc' = [pc EXCEPT ![d] = p],
         UNCHANGED res \/ res' = [res EXCEPT ![d] = "none"]
  PROVE  ControlInv'
<1> USE DEF TypeInv, TypeOK, SameRun
<1>1. ControlTypes'
  BY ZenonT(60) DEF ControlTypes, Counters, Results
<1>2. Mutex'
  BY ZenonT(60) DEF Mutex, ControlTypes
<1>3. Position'
  BY ZenonT(60) DEF Position, ControlTypes, InStep
<1> QED
  BY <1>1, <1>2, <1>3, Zenon DEF ControlInv

\* A new drive.
LEMMA SpawnKeeps ==
  ASSUME TypeInv, SameRun, Counters, UNCHANGED <<drive_mutex, res>>,
         NEW p \in DrivePoints \ InStep, NEW x, Spawn(p, x)
  PROVE  ControlInv'
<1>1. PICK d \in Drives : pc[d] = "idle" /\ pc' = [pc EXCEPT ![d] = p]
  BY ZenonT(60) DEF Spawn
<1> QED
  BY <1>1, OutsideKeeps, Zenon DEF InStep

\* The position and the drives keep their types; drive_mutex has one owner.
LEMMA ControlStep == TypeInv /\ [Next]_vars => ControlInv'
<1> SUFFICES ASSUME TypeInv, [Next]_vars PROVE ControlInv'
  BY Zenon
<1> USE DEF SameRun, Counters
<1>0. /\ step \in Nat /\ retry_remaining \in Nat
      /\ subflow_result.out \in {"ok", "fail"}
      /\ run_result \in {"none", "ok", "fail"}
      /\ \A n \in Nodes : MaxAttempts[n] \in Nat
  BY GraphAssumption, ZenonT(60) DEF TypeInv, TypeOK, ControlTypes,
  ContinuationTypes
<1> USE <1>0
<1>1. CASE ExecuteAsync
  BY <1>1, StayKeeps, ZenonT(60) DEF ExecuteAsync
<1>2. CASE InstallDrive
  BY <1>2, StayKeeps, ZenonT(60) DEF InstallDrive
<1>3. CASE SubmitDrive
  BY <1>3, StayKeeps, SpawnKeeps, ZenonT(60) DEF SubmitDrive, DrivePoints,
  InStep
<1>4. CASE SubmitRejected
  BY <1>4, StayKeeps, ZenonT(60) DEF SubmitRejected
<1>5. ASSUME NEW d \in Drives, Enqueue(d) PROVE ControlInv'
  BY <1>5, OutsideKeeps, ZenonT(60) DEF Enqueue, DrivePoints, InStep
<1>6. ASSUME NEW d \in Drives, EnqueueRejected(d) PROVE ControlInv'
  BY <1>6, OutsideKeeps, ZenonT(60) DEF EnqueueRejected, Retire, DrivePoints,
  InStep
<1>7. ASSUME NEW d \in Drives, DriveStart(d) PROVE ControlInv'
  BY <1>7, OutsideKeeps, ZenonT(60) DEF DriveStart, DrivePoints, InStep
<1>8. ASSUME NEW d \in Drives, EnterStep(d) PROVE ControlInv'
  <2>1. CASE completed
    BY <1>8, <2>1, ReturnKeeps, ZenonT(60) DEF EnterStep, Results
  <2>2. CASE ~completed
    <3> USE <1>8, <2>2 DEF EnterStep, TypeInv, TypeOK
    <3>1. ControlTypes'
      BY ZenonT(60) DEF ControlTypes, DrivePoints
    <3>2. Mutex'
      <4>1. \A e \in Drives : pc[e] \notin InStep
        BY SMTT(30) DEF Mutex, Drives, NoDrive
      <4>2. "top" \in InStep /\ pc' = [pc EXCEPT ![d] = "top"] /\ drive_mutex' = d
        BY Zenon DEF InStep
      <4> QED
        BY <4>1, <4>2, Zenon DEF ControlTypes, Mutex
    <3>3. Position'
      BY Zenon DEF ControlTypes, Position, InStep
    <3> QED
      BY <3>1, <3>2, <3>3, ZenonT(60) DEF ControlInv
  <2> QED
    BY <2>1, <2>2, Zenon
<1>9. ASSUME NEW d \in Drives, TopCancelled(d) PROVE ControlInv'
  BY <1>9, ReturnKeeps, Zenon DEF TopCancelled, InStep, Results
<1>10. ASSUME NEW d \in Drives, TopPending(d) PROVE ControlInv'
  BY <1>10, ReturnKeeps, Zenon DEF TopPending, InStep, Results
<1>11. ASSUME NEW d \in Drives, TopError(d) PROVE ControlInv'
  BY <1>11, ReturnKeeps, SMTT(30) DEF TopError, InStep, Results
<1>12. ASSUME NEW d \in Drives, TopContinue(d) PROVE ControlInv'
  BY <1>12, GotoKeeps, Zenon DEF TopContinue, Continuation, InStep
<1>13. ASSUME NEW d \in Drives, TopFresh(d) PROVE ControlInv'
  BY <1>13, ReturnKeeps, GotoKeeps, SMTT(30) DEF TopFresh, InStep, Results
<1>14. ASSUME NEW d \in Drives, LeaseDenied(d) PROVE ControlInv'
  BY <1>14, FinishKeeps, ZenonT(60) DEF LeaseDenied, StartsAttempt, InStep
<1>15. ASSUME NEW d \in Drives, StartAttempt(d) PROVE ControlInv'
  BY <1>15, GotoKeeps, ZenonT(60) DEF StartAttempt, StartsAttempt, InStep
<1>16. ASSUME NEW d \in Drives, ArmTimeout(d) PROVE ControlInv'
  BY <1>16, GotoKeeps, ZenonT(60) DEF ArmTimeout, InStep
<1>17. ASSUME NEW d \in Drives, Invoke(d) PROVE ControlInv'
  BY <1>17, ReturnKeeps, ZenonT(60) DEF Invoke, InStep, Results
<1>18. ASSUME NEW d \in Drives, ConsumeRetry(d) PROVE ControlInv'
  BY <1>18, ReturnKeeps, SMTT(30) DEF ConsumeRetry, InStep, Results
<1>19. ASSUME NEW d \in Drives, ConsumeFinish(d) PROVE ControlInv'
  BY <1>19, FinishKeeps, SMTT(30) DEF ConsumeFinish, InStep
<1>20. ASSUME NEW d \in Drives, StartSubflow(d) PROVE ControlInv'
  BY <1>20, GotoKeeps, ZenonT(60) DEF StartSubflow, InStep
<1>21. ASSUME NEW d \in Drives, LaunchSubflow(d) PROVE ControlInv'
  BY <1>21, GotoKeeps, ZenonT(60) DEF LaunchSubflow, InStep
<1>22. ASSUME NEW d \in Drives, CheckSubflow(d) PROVE ControlInv'
  BY <1>22, ReturnKeeps, FinishKeeps, ZenonT(60) DEF CheckSubflow, InStep,
  Results
<1>23. ASSUME NEW d \in Drives, ContinueSubflow(d) PROVE ControlInv'
  BY <1>23, FinishKeeps, ZenonT(60) DEF ContinueSubflow, InStep
<1>24. ASSUME NEW d \in Drives, NotDispatched(d) PROVE ControlInv'
  BY <1>24, FinishKeeps, ZenonT(60) DEF NotDispatched, InStep
<1>25. ASSUME NEW d \in Drives, RunSync(d) PROVE ControlInv'
  BY <1>25, FinishKeeps, SMTT(30) DEF RunSync, InStep
<1>26. ASSUME NEW d \in Drives, SuspendHuman(d) PROVE ControlInv'
  BY <1>26, ReturnKeeps, ZenonT(60) DEF SuspendHuman, InStep, Results
<1>27. ASSUME NEW d \in Drives, ResumeHuman(d) PROVE ControlInv'
  BY <1>27, FinishKeeps, ZenonT(60) DEF ResumeHuman, InStep
<1>28. ASSUME NEW d \in Drives, RecordQuota(d) PROVE ControlInv'
  BY <1>28, ReturnKeeps, ZenonT(60) DEF RecordQuota, InStep, Results
<1>29. ASSUME NEW d \in Drives, Record(d) PROVE ControlInv'
  <2> USE GraphAssumption DEF TypeInv, TypeOK, ControlTypes, Position, InStep
  <2>1. PICK next \in Nodes \cup {Done} :
          /\ current' = next /\ completed' = (next = Done)
          /\ run_result' = IF next = Done THEN res[d] ELSE run_result
          /\ \/ next = Done /\ Return(d, res[d])
             \/ next # Done /\ Goto(d, "top")
             \/ Return(d, "error")
    BY <1>29, ZenonT(60) DEF Record
  <2>2. completed' <=> current' = Done
    BY <2>1, Zenon
  <2>3. ControlTypes'
    <3>1. pc[d] = "record" /\ res[d] \in {"ok", "fail"} /\ UNCHANGED <<step, retry_remaining>>
      BY <1>29, ZenonT(60) DEF Record
    <3>2. current' \in Nodes \cup {Done} /\ run_result' \in {"none", "ok", "fail"}
      BY <2>1, <3>1, ZenonT(60)
    <3>3. pc' \in [Drives -> DrivePoints]
      BY <2>1, ZenonT(60) DEF Return, Goto, DrivePoints
    <3>4. res' \in [Drives -> Results] /\ drive_mutex' \in Drives \cup {NoDrive}
      BY <2>1, <3>1, ZenonT(60) DEF Return, Goto, Results
    <3> QED
      BY <3>1, <3>2, <3>3, <3>4, ZenonT(60)
  <2>4. Mutex'
    <3>1. pc[d] \in InStep /\ drive_mutex = d /\ pc' \in [Drives -> DrivePoints]
      BY <1>29, <2>3, ZenonT(60) DEF Record, Mutex
    <3>2. CASE \E r \in Results : Return(d, r)
      BY <3>1, <3>2, SMTT(30) DEF Return, Mutex, Drives, NoDrive
    <3>3. CASE Goto(d, "top")
      BY <3>1, <3>3, ZenonT(60) DEF Goto, Mutex
    <3> QED
      BY <1>29, <2>1, <3>2, <3>3, ZenonT(60) DEF Record, Results
  <2>5. Position'
    <3>1. pc[d] \in InStep
      BY <1>29, ZenonT(60) DEF Record
    <3>2. \A e \in Drives : e # d => pc'[e] = pc[e] /\ pc[e] \notin InStep
      <4>1. \A e \in Drives : e # d => pc'[e] = pc[e]
        BY <2>1, ZenonT(60) DEF Return, Goto
      <4>2. \A e \in Drives : e # d => pc[e] \notin InStep
        BY <3>1, ZenonT(60) DEF Mutex
      <4> QED
        BY <4>1, <4>2, Zenon
    <3>3. pc'[d] = "post" \/ (pc'[d] = "top" /\ current' \in Nodes)
      BY <2>1, ZenonT(60) DEF Return, Goto
    <3> QED
      BY <2>2, <3>2, <3>3, ZenonT(60)
  <2> QED
    BY <2>3, <2>4, <2>5, ZenonT(60) DEF ControlInv
<1>30. ASSUME NEW d \in Drives, PostPending(d) PROVE ControlInv'
  BY <1>30, OutsideKeeps, Zenon DEF PostPending, Resubmit, Retire, DrivePoints,
  InStep
<1>31. ASSUME NEW d \in Drives, PostSubflow(d) PROVE ControlInv'
  BY <1>31, OutsideKeeps, ZenonT(60) DEF PostSubflow, Resubmit, Retire,
  DrivePoints, InStep
<1>32. ASSUME NEW d \in Drives, DeliverNothing(d) PROVE ControlInv'
  BY <1>32, OutsideKeeps, ZenonT(60) DEF DeliverNothing, Retire, DrivePoints,
  InStep
<1>33. ASSUME NEW d \in Drives, Deliver(d) PROVE ControlInv'
  BY <1>33, OutsideKeeps, ZenonT(60) DEF Deliver, Retire, DrivePoints, InStep
<1>34. ASSUME NEW op \in ops, NEW out \in Outcomes, HostComplete(op, out)
       PROVE  ControlInv'
  BY <1>34, StayKeeps, SpawnKeeps, ZenonT(60) DEF HostComplete,
  WakeUnlessDriving, DrivePoints, InStep
<1>35. ASSUME NEW c \in children, NEW out \in {"ok", "fail"}, ChildComplete(c, out)
       PROVE  ControlInv'
  BY <1>35, StayKeeps, SpawnKeeps, ZenonT(60) DEF ChildComplete,
  WakeUnlessDriving, DrivePoints, InStep
<1>36. ASSUME NEW t \in armed, TimerPop(t)
       PROVE  ControlInv'
  BY <1>36, StayKeeps, ZenonT(60) DEF TimerPop
<1>37. ASSUME NEW t \in firing, TimerFire(t)
       PROVE  ControlInv'
  BY <1>37, StayKeeps, SpawnKeeps, ZenonT(60) DEF TimerFire, WakeUnlessDriving,
  DrivePoints, InStep
<1>38. ASSUME NEW c \in Cancellers, CancelFlag(c) PROVE ControlInv'
  BY <1>38, StayKeeps, ZenonT(60) DEF CancelFlag
<1>39. ASSUME NEW c \in Cancellers, CancelCopy(c) PROVE ControlInv'
  BY <1>39, StayKeeps, ZenonT(60) DEF CancelCopy
<1>40. ASSUME NEW c \in Cancellers, CancelAttempt(c) PROVE ControlInv'
  BY <1>40, StayKeeps, ZenonT(60) DEF CancelAttempt
<1>41. ASSUME NEW c \in Cancellers, CancelSubflow(c) PROVE ControlInv'
  BY <1>41, StayKeeps, ZenonT(60) DEF CancelSubflow
<1>42. ASSUME NEW c \in Cancellers, CancelWake(c) PROVE ControlInv'
  BY <1>42, StayKeeps, SpawnKeeps, ZenonT(60) DEF CancelWake, DrivePoints,
  InStep
<1>43. CASE UNCHANGED vars
  BY <1>43, StayKeeps, ZenonT(60) DEF vars
<1> HIDE <1>0 DEF SameRun, Counters
<1> QED
  BY <1>1, <1>2, <1>3, <1>4, <1>5, <1>6, <1>7, <1>8, <1>9, <1>10, <1>11, <1>12,
  <1>13, <1>14, <1>15, <1>16, <1>17, <1>18, <1>19, <1>20, <1>21, <1>22, <1>23,
  <1>24, <1>25, <1>26, <1>27, <1>28, <1>29, <1>30, <1>31, <1>32, <1>33, <1>34,
  <1>35, <1>36, <1>37, <1>38, <1>39, <1>40, <1>41, <1>42, <1>43, ZenonT(60) DEF
  Next, CallerStep, DriveStep, HostStep, ChildStep, TimerStep, CancelStep

\* A run that has just been created is well typed.
LEMMA TypeInit == Init => TypeInv
<1> SUFFICES ASSUME Init PROVE TypeInv
  BY Zenon
<1>1. BoolTypes
  BY Zenon DEF Init, BoolTypes
<1>2. ControlTypes
  BY GraphAssumption, BoundAssumption, ZenonT(60) DEF Init, ControlTypes,
  Drives, NoDrive, DrivePoints, Results
<1>3. ContinuationTypes
  BY Zenon DEF Init, ContinuationTypes, AsyncOutcomes, Outcomes
<1>4. WorldTypes
  BY Zenon DEF Init, WorldTypes
<1>5. CallTypes /\ OwnTypes /\ CancelTypes
  BY BoundAssumption, SMTT(30) DEF Init, CallTypes, OwnTypes, CancelTypes
<1>6. Mutex
  BY SMTT(30) DEF Init, Mutex, InStep, Drives, NoDrive
<1>7. Position
  BY GraphAssumption, ZenonT(60) DEF Init, Position, InStep
<1> QED
  BY <1>1, <1>2, <1>3, <1>4, <1>5, <1>6, <1>7, ZenonT(60) DEF TypeInv, TypeOK

\* Every step keeps the types.
LEMMA TypeStep == TypeInv /\ [Next]_vars => TypeInv'
  BY BoolStep, ContinuationStep, WorldStep, CallStep, OwnStep, CancelStepTypes,
  ControlStep, ZenonT(60) DEF TypeInv, TypeOK, ControlInv

\* Every reachable state of every instance is well typed, and execute_step is
\* executed by the owner of drive_mutex on an existing node.
THEOREM TypeInvariant == Spec => []TypeInv
<1>1. Init => TypeInv
  BY TypeInit, ZenonT(60)
<1>2. TypeInv /\ [Next]_vars => TypeInv'
  BY TypeStep, ZenonT(60)
<1> QED
  BY <1>1, <1>2, PTL DEF Spec

\* Every reachable state satisfies the type invariant that the runs check.
THEOREM TypeCorrect == Spec => []TypeOK
<1>1. TypeInv => TypeOK
  BY Zenon DEF TypeInv
<1> QED
  BY <1>1, TypeInvariant, PTL

-----------------------------------------------------------------------------
\* driving is only set while the drive that set it is under way.
DrivingInv ==
    driving => \E d \in Drives : pc[d] \in InStep \cup {"enter", "post"}

\* An unanswered execution can be resumed; executions are numbered from 1.
ResumeInv ==
    /\ ~callback_delivered /\ run_completion # 0 /\ caller # "install"
         => resume_drive # 0
    /\ caller # "out" => executes # 0

\* A cancel that has begun has set the flag.
CancelInv == \A c \in Cancellers : cpc[c] # "ready" => cancelled

\* A pending attempt or child belongs to the current node, and none is
\* pending while that node is started, continued or recorded.
PendingInv ==
    /\ async_ready => async_pending
    /\ subflow_ready => subflow_pending
    /\ ~(async_pending /\ subflow_pending)
    /\ async_pending => async_node = current
    /\ subflow_pending => subflow_node = current
    /\ \A d \in Drives :
         pc[d] \in {"fresh", "retry", "joined", "launch", "check", "record"}
           => ~async_pending
    /\ \A d \in Drives :
         pc[d] \in {"fresh", "retry", "consume", "arm", "invoke", "record"}
           => ~subflow_pending

AttemptOutstanding ==
    \/ \E op \in ops : op.gen = async_generation
    \/ \E t \in armed \cup firing : t.gen = async_generation

\* Whatever the Run waits for is outstanding, unless it was cancelled or the
\* drive is about to start it; the one timer thread runs one callback.
SourceInv ==
    /\ async_pending /\ ~async_ready /\ ~cancelled
         /\ (\A d \in Drives : pc[d] \notin {"arm", "invoke"})
         => AttemptOutstanding
    /\ subflow_pending /\ ~subflow_ready
         /\ (\A d \in Drives : pc[d] # "launch")
         => children # {}
    /\ \A s, t \in firing : s = t

\* A drive that will report, wait for something outstanding, or be followed
\* by a drive that does.
Useful(d) ==
    \/ pc[d] \in {"held", "queued", "enter", "top", "fresh", "retry", "joined",
                  "record"}
    \/ pc[d] \in {"arm", "invoke", "consume"} /\ async_pending
    \/ pc[d] \in {"launch", "check"} /\ subflow_pending
    \/ pc[d] = "post" /\ (res[d] # "pending" \/ async_ready \/ subflow_ready)
    \/ pc[d] = "post2" /\ subflow_ready

\* NeverStranded, made inductive: the drive that counts is a useful one.
StrandedInv ==
    Unanswered /\ ~dropped =>
        \/ \E d \in Drives : Useful(d)
        \/ async_pending /\ ~async_ready /\ AttemptOutstanding
        \/ subflow_pending /\ ~subflow_ready /\ children # {}
        \/ \E c \in Cancellers : cpc[c] \notin {"ready", "done"}

Inv ==
    TypeInv /\ DrivingInv /\ ResumeInv /\ CancelInv /\ PendingInv /\ SourceInv
    /\ StrandedInv

-----------------------------------------------------------------------------
(* The generation fence.                                                    *)

\* Only a callback of the current generation makes a result ready.
LEMMA FenceStep == ResultFence /\ [Next]_vars => ResultFence'
<1> SUFFICES ASSUME ResultFence, [Next]_vars PROVE ResultFence'
  BY Zenon
<1> USE DEF ResultFence
<1>1. ASSUME NEW d \in Drives, TopError(d) PROVE ResultFence'
  BY <1>1, Zenon DEF TopError, Return, TakeRetry, Continuation, Waiting,
  AsyncHere, SubflowHere
<1>2. ASSUME NEW d \in Drives, TopContinue(d) PROVE ResultFence'
  BY <1>2, Zenon DEF TopContinue, Goto, TakeRetry, Continuation, Waiting,
  AsyncHere, SubflowHere
<1>3. ASSUME NEW d \in Drives, LeaseDenied(d) PROVE ResultFence'
  BY <1>3, Zenon DEF LeaseDenied, Finish, StartsAttempt, AttemptNumber
<1>4. ASSUME NEW d \in Drives, StartAttempt(d) PROVE ResultFence'
  BY <1>4, Zenon DEF StartAttempt, Goto, StartsAttempt, AttemptNumber
<1>5. ASSUME NEW d \in Drives, ArmTimeout(d) PROVE ResultFence'
  BY <1>5, Zenon DEF ArmTimeout, Goto, Timers
<1>6. ASSUME NEW d \in Drives, ConsumeRetry(d) PROVE ResultFence'
  BY <1>6, Zenon DEF ConsumeRetry, Return, WantsRetry, Retryable, Timers
<1>7. ASSUME NEW d \in Drives, ConsumeFinish(d) PROVE ResultFence'
  BY <1>7, Zenon DEF ConsumeFinish, Finish
<1>8. ASSUME NEW d \in Drives, Deliver(d) PROVE ResultFence'
  BY <1>8, Zenon DEF Deliver, Retire
<1>9. ASSUME NEW op \in ops, NEW out \in Outcomes, HostComplete(op, out)
       PROVE  ResultFence'
  <2>1. CASE Accepts(op.gen)
    BY <1>9, <2>1, SMTT(30) DEF HostComplete, Accepts
  <2>2. CASE ~Accepts(op.gen)
    BY <1>9, <2>2, Zenon DEF HostComplete
  <2> QED
    BY <1>9, <2>1, <2>2, Zenon DEF HostComplete
<1>10. ASSUME NEW t \in firing, TimerFire(t)
       PROVE  ResultFence'
  <2>1. CASE Accepts(t.gen)
    BY <1>10, <2>1, SMTT(30) DEF TimerFire, Accepts
  <2>2. CASE ~Accepts(t.gen)
    BY <1>10, <2>2, Zenon DEF TimerFire
  <2> QED
    BY <1>10, <2>1, <2>2, Zenon DEF TimerFire
<1>11. CASE UNCHANGED asyncVars
  BY <1>11, Zenon
<1> HIDE DEF ResultFence
<1> QED
  BY <1>1, <1>2, <1>3, <1>4, <1>5, <1>6, <1>7, <1>8, <1>9, <1>10, <1>11,
  AsyncFrame, ZenonT(60) DEF HostStep

\* A drive never consumes the result of an attempt the Run has abandoned.
THEOREM ResultIsCurrent == Spec => []ResultFence
<1>1. Init => ResultFence
  BY Zenon DEF Init, ResultFence
<1>2. ResultFence /\ [Next]_vars => ResultFence'
  BY FenceStep, Zenon
<1> QED
  BY <1>1, <1>2, PTL DEF Spec

-----------------------------------------------------------------------------
(* No lost wakeup.                                                          *)

\* driving is reset by the drive that set it.
LEMMA DrivingStep == TypeInv /\ DrivingInv /\ [Next]_vars => DrivingInv'
<1> SUFFICES ASSUME TypeInv /\ DrivingInv, [Next]_vars PROVE DrivingInv'
  BY Zenon
<1> USE DEF TypeInv, TypeOK, ControlTypes, DrivingInv, Mutex, InStep
<1>1. CASE ExecuteAsync
  BY <1>1, Zenon DEF ExecuteAsync
<1>2. CASE InstallDrive
  BY <1>2, Zenon DEF InstallDrive
<1>3. CASE SubmitDrive
  BY <1>3, Zenon DEF SubmitDrive, Spawn
<1>4. CASE SubmitRejected
  BY <1>4, Zenon DEF SubmitRejected
<1>5. ASSUME NEW d \in Drives, Enqueue(d) PROVE DrivingInv'
  BY <1>5, Zenon DEF Enqueue
<1>6. ASSUME NEW d \in Drives, EnqueueRejected(d) PROVE DrivingInv'
  BY <1>6, Zenon DEF EnqueueRejected, Retire
<1>7. ASSUME NEW d \in Drives, DriveStart(d) PROVE DrivingInv'
  BY <1>7, Zenon DEF DriveStart
<1>8. ASSUME NEW d \in Drives, EnterStep(d) PROVE DrivingInv'
  BY <1>8, Zenon DEF EnterStep, Return
<1>9. ASSUME NEW d \in Drives, TopCancelled(d) PROVE DrivingInv'
  BY <1>9, Zenon DEF TopCancelled, Return
<1>10. ASSUME NEW d \in Drives, TopPending(d) PROVE DrivingInv'
  BY <1>10, Zenon DEF TopPending, Return, Waiting, AsyncHere, SubflowHere
<1>11. ASSUME NEW d \in Drives, TopError(d) PROVE DrivingInv'
  BY <1>11, Zenon DEF TopError, Return, TakeRetry, Continuation, Waiting,
  AsyncHere, SubflowHere
<1>12. ASSUME NEW d \in Drives, TopContinue(d) PROVE DrivingInv'
  BY <1>12, Zenon DEF TopContinue, Goto, TakeRetry, Continuation, Waiting,
  AsyncHere, SubflowHere
<1>13. ASSUME NEW d \in Drives, TopFresh(d) PROVE DrivingInv'
  BY <1>13, Zenon DEF TopFresh, Return, Goto, Continuation, Waiting, AsyncHere,
  SubflowHere
<1>14. ASSUME NEW d \in Drives, LeaseDenied(d) PROVE DrivingInv'
  BY <1>14, Zenon DEF LeaseDenied, Finish, StartsAttempt, AttemptNumber
<1>15. ASSUME NEW d \in Drives, StartAttempt(d) PROVE DrivingInv'
  BY <1>15, Zenon DEF StartAttempt, Goto, StartsAttempt, AttemptNumber
<1>16. ASSUME NEW d \in Drives, ArmTimeout(d) PROVE DrivingInv'
  BY <1>16, Zenon DEF ArmTimeout, Goto, Timers
<1>17. ASSUME NEW d \in Drives, Invoke(d) PROVE DrivingInv'
  BY <1>17, Zenon DEF Invoke, Return
<1>18. ASSUME NEW d \in Drives, ConsumeRetry(d) PROVE DrivingInv'
  BY <1>18, Zenon DEF ConsumeRetry, Return, WantsRetry, Retryable, Timers
<1>19. ASSUME NEW d \in Drives, ConsumeFinish(d) PROVE DrivingInv'
  BY <1>19, Zenon DEF ConsumeFinish, Finish
<1>20. ASSUME NEW d \in Drives, StartSubflow(d) PROVE DrivingInv'
  BY <1>20, Zenon DEF StartSubflow, Goto
<1>21. ASSUME NEW d \in Drives, LaunchSubflow(d) PROVE DrivingInv'
  BY <1>21, Zenon DEF LaunchSubflow, Goto
<1>22. ASSUME NEW d \in Drives, CheckSubflow(d) PROVE DrivingInv'
  BY <1>22, Zenon DEF CheckSubflow, JoinSubflow, Finish, Return
<1>23. ASSUME NEW d \in Drives, ContinueSubflow(d) PROVE DrivingInv'
  BY <1>23, Zenon DEF ContinueSubflow, JoinSubflow, Finish
<1>24. ASSUME NEW d \in Drives, NotDispatched(d) PROVE DrivingInv'
  BY <1>24, Zenon DEF NotDispatched, Finish
<1>25. ASSUME NEW d \in Drives, RunSync(d) PROVE DrivingInv'
  BY <1>25, ZenonT(60) DEF RunSync, Finish
<1>26. ASSUME NEW d \in Drives, SuspendHuman(d) PROVE DrivingInv'
  BY <1>26, Zenon DEF SuspendHuman, Return
<1>27. ASSUME NEW d \in Drives, ResumeHuman(d) PROVE DrivingInv'
  BY <1>27, Zenon DEF ResumeHuman, Finish
<1>28. ASSUME NEW d \in Drives, RecordQuota(d) PROVE DrivingInv'
  BY <1>28, ZenonT(60) DEF RecordQuota, Return
<1>29. ASSUME NEW d \in Drives, Record(d) PROVE DrivingInv'
  BY <1>29, SMTT(30) DEF Record, Return, Goto
<1>30. ASSUME NEW d \in Drives, PostPending(d) PROVE DrivingInv'
  BY <1>30, Zenon DEF PostPending, Resubmit, Retire
<1>31. ASSUME NEW d \in Drives, PostSubflow(d) PROVE DrivingInv'
  BY <1>31, Zenon DEF PostSubflow, Resubmit, Retire
<1>32. ASSUME NEW d \in Drives, DeliverNothing(d) PROVE DrivingInv'
  BY <1>32, Zenon DEF DeliverNothing, Retire
<1>33. ASSUME NEW d \in Drives, Deliver(d) PROVE DrivingInv'
  BY <1>33, Zenon DEF Deliver, Retire
<1>34. ASSUME NEW op \in ops, NEW out \in Outcomes, HostComplete(op, out)
       PROVE  DrivingInv'
  BY <1>34, Zenon DEF HostComplete, Accepts, WakeUnlessDriving, Spawn
<1>35. ASSUME NEW c \in children, NEW out \in {"ok", "fail"}, ChildComplete(c, out)
       PROVE  DrivingInv'
  BY <1>35, Zenon DEF ChildComplete, WakeUnlessDriving, Spawn
<1>36. ASSUME NEW t \in armed, TimerPop(t)
       PROVE  DrivingInv'
  BY <1>36, Zenon DEF TimerPop
<1>37. ASSUME NEW t \in firing, TimerFire(t)
       PROVE  DrivingInv'
  BY <1>37, Zenon DEF TimerFire, Accepts, WakeUnlessDriving, Spawn
<1>38. ASSUME NEW c \in Cancellers, CancelFlag(c) PROVE DrivingInv'
  BY <1>38, Zenon DEF CancelFlag
<1>39. ASSUME NEW c \in Cancellers, CancelCopy(c) PROVE DrivingInv'
  BY <1>39, Zenon DEF CancelCopy
<1>40. ASSUME NEW c \in Cancellers, CancelAttempt(c) PROVE DrivingInv'
  BY <1>40, Zenon DEF CancelAttempt
<1>41. ASSUME NEW c \in Cancellers, CancelSubflow(c) PROVE DrivingInv'
  BY <1>41, Zenon DEF CancelSubflow
<1>42. ASSUME NEW c \in Cancellers, CancelWake(c) PROVE DrivingInv'
  BY <1>42, Zenon DEF CancelWake, Spawn
<1>43. CASE UNCHANGED vars
  BY <1>43, Zenon DEF vars
<1> HIDE DEF TypeInv, TypeOK, ControlTypes, DrivingInv, Mutex, InStep
<1> QED
  BY <1>1, <1>2, <1>3, <1>4, <1>5, <1>6, <1>7, <1>8, <1>9, <1>10, <1>11, <1>12,
  <1>13, <1>14, <1>15, <1>16, <1>17, <1>18, <1>19, <1>20, <1>21, <1>22, <1>23,
  <1>24, <1>25, <1>26, <1>27, <1>28, <1>29, <1>30, <1>31, <1>32, <1>33, <1>34,
  <1>35, <1>36, <1>37, <1>38, <1>39, <1>40, <1>41, <1>42, <1>43, ZenonT(60) DEF
  Next, CallerStep, DriveStep, HostStep, ChildStep, TimerStep, CancelStep

\* resume_drive is reset together with the callback.
LEMMA ResumeStep == TypeInv /\ ResumeInv /\ [Next]_vars => ResumeInv'
<1> SUFFICES ASSUME TypeInv, ResumeInv, [Next]_vars PROVE ResumeInv'
  BY Zenon
<1> USE DEF TypeInv, TypeOK, CallTypes, ResumeInv
<1>1. CASE ExecuteAsync
  BY <1>1, SMTT(30) DEF ExecuteAsync
<1>2. CASE InstallDrive
  BY <1>2, Zenon DEF InstallDrive
<1>3. CASE SubmitDrive
  BY <1>3, Zenon DEF SubmitDrive, Spawn
<1>4. CASE SubmitRejected
  BY <1>4, Zenon DEF SubmitRejected
<1>5. ASSUME NEW d \in Drives, Deliver(d) PROVE ResumeInv'
  BY <1>5, Zenon DEF Deliver, Retire
<1>6. CASE UNCHANGED <<callerVars, callbackVars, delivered>>
  BY <1>6, Zenon
<1> HIDE DEF TypeInv, TypeOK, CallTypes, ResumeInv
<1> QED
  BY <1>1, <1>2, <1>3, <1>4, <1>5, <1>6, CallFrame, Zenon DEF CallerStep

\* A cancel sets the flag first.
LEMMA CancelledStep == TypeInv /\ CancelInv /\ [Next]_vars => CancelInv'
<1> SUFFICES ASSUME TypeInv, CancelInv, [Next]_vars PROVE CancelInv'
  BY Zenon
<1> USE DEF TypeInv, TypeOK, CancelTypes, CancelInv
<1>1. ASSUME NEW d \in Drives, RunSync(d) PROVE CancelInv'
  <2>1. CASE UNCHANGED cancelled
    BY <1>1, <2>1, Zenon DEF RunSync
  <2>2. CASE cancelled' = TRUE
    BY <1>1, <2>2, Zenon DEF RunSync
  <2> QED
    BY <1>1, <2>1, <2>2, Zenon DEF RunSync
<1>2. ASSUME NEW c \in Cancellers, CancelFlag(c) PROVE CancelInv'
  BY <1>2, Zenon DEF CancelFlag
<1>3. ASSUME NEW c \in Cancellers, CancelCopy(c) PROVE CancelInv'
  BY <1>3, Zenon DEF CancelCopy
<1>4. ASSUME NEW c \in Cancellers, CancelAttempt(c) PROVE CancelInv'
  BY <1>4, Zenon DEF CancelAttempt
<1>5. ASSUME NEW c \in Cancellers, CancelSubflow(c) PROVE CancelInv'
  BY <1>5, Zenon DEF CancelSubflow
<1>6. ASSUME NEW c \in Cancellers, CancelWake(c) PROVE CancelInv'
  BY <1>6, Zenon DEF CancelWake, Spawn
<1>7. CASE UNCHANGED <<cancelled, cancelVars>>
  BY <1>7, ZenonT(60)
<1> HIDE DEF TypeInv, TypeOK, CancelTypes, CancelInv
<1> QED
  BY <1>1, <1>2, <1>3, <1>4, <1>5, <1>6, <1>7, CancelFrame, ZenonT(60) DEF
  CancelStep

-----------------------------------------------------------------------------
\* A pending continuation belongs to the position.
LEMMA PendingStep == TypeInv /\ PendingInv /\ [Next]_vars => PendingInv'
<1> SUFFICES ASSUME TypeInv /\ PendingInv, [Next]_vars PROVE PendingInv'
  BY Zenon
<1> USE DEF TypeInv, TypeOK, ControlTypes, PendingInv, Mutex, InStep
<1>1. CASE ExecuteAsync
  BY <1>1, Zenon DEF ExecuteAsync
<1>2. CASE InstallDrive
  BY <1>2, Zenon DEF InstallDrive
<1>3. CASE SubmitDrive
  BY <1>3, ZenonT(60) DEF SubmitDrive, Spawn
<1>4. CASE SubmitRejected
  BY <1>4, Zenon DEF SubmitRejected
<1>5. ASSUME NEW d \in Drives, Enqueue(d) PROVE PendingInv'
  BY <1>5, Zenon DEF Enqueue
<1>6. ASSUME NEW d \in Drives, EnqueueRejected(d) PROVE PendingInv'
  BY <1>6, Zenon DEF EnqueueRejected, Retire
<1>7. ASSUME NEW d \in Drives, DriveStart(d) PROVE PendingInv'
  BY <1>7, Zenon DEF DriveStart
<1>8. ASSUME NEW d \in Drives, EnterStep(d) PROVE PendingInv'
  BY <1>8, SMTT(30) DEF EnterStep, Return
<1>9. ASSUME NEW d \in Drives, TopCancelled(d) PROVE PendingInv'
  BY <1>9, Zenon DEF TopCancelled, Return
<1>10. ASSUME NEW d \in Drives, TopPending(d) PROVE PendingInv'
  BY <1>10, Zenon DEF TopPending, Return, Waiting, AsyncHere, SubflowHere
<1>11. ASSUME NEW d \in Drives, TopError(d) PROVE PendingInv'
  BY <1>11, Zenon DEF TopError, Return, TakeRetry, Continuation, Waiting,
  AsyncHere, SubflowHere
<1>12. ASSUME NEW d \in Drives, TopContinue(d) PROVE PendingInv'
  <2>1. CASE AsyncHere /\ Continuation = "retry"
    BY <1>12, <2>1, Zenon DEF TopContinue, Goto, TakeRetry, AsyncHere
  <2>2. CASE AsyncHere /\ Continuation = "consume"
    BY <1>12, <2>2, Zenon DEF TopContinue, Goto, TakeRetry, AsyncHere
  <2>3. CASE ~AsyncHere /\ SubflowHere /\ Continuation = "joined"
    BY <1>12, <2>3, Zenon DEF TopContinue, Goto, TakeRetry, AsyncHere
  <2> QED
    BY <1>12, <2>1, <2>2, <2>3, Zenon DEF TopContinue, Continuation
<1>13. ASSUME NEW d \in Drives, TopFresh(d) PROVE PendingInv'
  BY <1>13, Zenon DEF TopFresh, Return, Goto, Continuation, Waiting, AsyncHere,
  SubflowHere
<1>14. ASSUME NEW d \in Drives, LeaseDenied(d) PROVE PendingInv'
  BY <1>14, Zenon DEF LeaseDenied, Finish, StartsAttempt, AttemptNumber
<1>15. ASSUME NEW d \in Drives, StartAttempt(d) PROVE PendingInv'
  BY <1>15, Zenon DEF StartAttempt, Goto, StartsAttempt, AttemptNumber
<1>16. ASSUME NEW d \in Drives, ArmTimeout(d) PROVE PendingInv'
  BY <1>16, Zenon DEF ArmTimeout, Goto, Timers
<1>17. ASSUME NEW d \in Drives, Invoke(d) PROVE PendingInv'
  BY <1>17, Zenon DEF Invoke, Return
<1>18. ASSUME NEW d \in Drives, ConsumeRetry(d) PROVE PendingInv'
  BY <1>18, Zenon DEF ConsumeRetry, Return, WantsRetry, Retryable, Timers
<1>19. ASSUME NEW d \in Drives, ConsumeFinish(d) PROVE PendingInv'
  BY <1>19, Zenon DEF ConsumeFinish, Finish
<1>20. ASSUME NEW d \in Drives, StartSubflow(d) PROVE PendingInv'
  BY <1>20, ZenonT(60) DEF StartSubflow, Goto
<1>21. ASSUME NEW d \in Drives, LaunchSubflow(d) PROVE PendingInv'
  BY <1>21, Zenon DEF LaunchSubflow, Goto
<1>22. ASSUME NEW d \in Drives, CheckSubflow(d) PROVE PendingInv'
  BY <1>22, Zenon DEF CheckSubflow, JoinSubflow, Finish, Return
<1>23. ASSUME NEW d \in Drives, ContinueSubflow(d) PROVE PendingInv'
  BY <1>23, Zenon DEF ContinueSubflow, JoinSubflow, Finish
<1>24. ASSUME NEW d \in Drives, NotDispatched(d) PROVE PendingInv'
  BY <1>24, Zenon DEF NotDispatched, Finish
<1>25. ASSUME NEW d \in Drives, RunSync(d) PROVE PendingInv'
  BY <1>25, Zenon DEF RunSync, Finish
<1>26. ASSUME NEW d \in Drives, SuspendHuman(d) PROVE PendingInv'
  BY <1>26, Zenon DEF SuspendHuman, Return
<1>27. ASSUME NEW d \in Drives, ResumeHuman(d) PROVE PendingInv'
  BY <1>27, Zenon DEF ResumeHuman, Finish
<1>28. ASSUME NEW d \in Drives, RecordQuota(d) PROVE PendingInv'
  BY <1>28, Zenon DEF RecordQuota, Return
<1>29. ASSUME NEW d \in Drives, Record(d) PROVE PendingInv'
  BY <1>29, ZenonT(60) DEF Record, Return, Goto
<1>30. ASSUME NEW d \in Drives, PostPending(d) PROVE PendingInv'
  BY <1>30, SMTT(30) DEF PostPending, Resubmit, Retire
<1>31. ASSUME NEW d \in Drives, PostSubflow(d) PROVE PendingInv'
  BY <1>31, ZenonT(60) DEF PostSubflow, Resubmit, Retire
<1>32. ASSUME NEW d \in Drives, DeliverNothing(d) PROVE PendingInv'
  BY <1>32, Zenon DEF DeliverNothing, Retire
<1>33. ASSUME NEW d \in Drives, Deliver(d) PROVE PendingInv'
  BY <1>33, Zenon DEF Deliver, Retire
<1>34. ASSUME NEW op \in ops, NEW out \in Outcomes, HostComplete(op, out)
       PROVE  PendingInv'
  BY <1>34, ZenonT(60) DEF HostComplete, Accepts, WakeUnlessDriving, Spawn
<1>35. ASSUME NEW c \in children, NEW out \in {"ok", "fail"}, ChildComplete(c, out)
       PROVE  PendingInv'
  BY <1>35, Zenon DEF ChildComplete, WakeUnlessDriving, Spawn
<1>36. ASSUME NEW t \in armed, TimerPop(t)
       PROVE  PendingInv'
  BY <1>36, Zenon DEF TimerPop
<1>37. ASSUME NEW t \in firing, TimerFire(t)
       PROVE  PendingInv'
  BY <1>37, Zenon DEF TimerFire, Accepts, WakeUnlessDriving, Spawn
<1>38. ASSUME NEW c \in Cancellers, CancelFlag(c) PROVE PendingInv'
  BY <1>38, Zenon DEF CancelFlag
<1>39. ASSUME NEW c \in Cancellers, CancelCopy(c) PROVE PendingInv'
  BY <1>39, Zenon DEF CancelCopy
<1>40. ASSUME NEW c \in Cancellers, CancelAttempt(c) PROVE PendingInv'
  BY <1>40, Zenon DEF CancelAttempt
<1>41. ASSUME NEW c \in Cancellers, CancelSubflow(c) PROVE PendingInv'
  BY <1>41, Zenon DEF CancelSubflow
<1>42. ASSUME NEW c \in Cancellers, CancelWake(c) PROVE PendingInv'
  BY <1>42, SMTT(30) DEF CancelWake, Spawn
<1>43. CASE UNCHANGED vars
  BY <1>43, Zenon DEF vars
<1> HIDE DEF TypeInv, TypeOK, ControlTypes, PendingInv, Mutex, InStep
<1> QED
  BY <1>1, <1>2, <1>3, <1>4, <1>5, <1>6, <1>7, <1>8, <1>9, <1>10, <1>11, <1>12,
  <1>13, <1>14, <1>15, <1>16, <1>17, <1>18, <1>19, <1>20, <1>21, <1>22, <1>23,
  <1>24, <1>25, <1>26, <1>27, <1>28, <1>29, <1>30, <1>31, <1>32, <1>33, <1>34,
  <1>35, <1>36, <1>37, <1>38, <1>39, <1>40, <1>41, <1>42, <1>43, ZenonT(60) DEF
  Next, CallerStep, DriveStep, HostStep, ChildStep, TimerStep, CancelStep

\* An attempt or a child that is waited for is outstanding.
LEMMA SourceStep == TypeInv /\ CancelInv /\ PendingInv /\ SourceInv /\ [Next]_vars => SourceInv'
<1> SUFFICES ASSUME TypeInv /\ CancelInv /\ PendingInv /\ SourceInv, [Next]_vars PROVE SourceInv'
  BY Zenon
<1> USE DEF TypeInv, TypeOK, ControlTypes, CancelInv, PendingInv, SourceInv,
    AttemptOutstanding, Mutex, InStep
<1>1. CASE ExecuteAsync
  BY <1>1, Zenon DEF ExecuteAsync
<1>2. CASE InstallDrive
  BY <1>2, Zenon DEF InstallDrive
<1>3. CASE SubmitDrive
  BY <1>3, Zenon DEF SubmitDrive, Spawn
<1>4. CASE SubmitRejected
  BY <1>4, Zenon DEF SubmitRejected
<1>5. ASSUME NEW d \in Drives, Enqueue(d) PROVE SourceInv'
  BY <1>5, Zenon DEF Enqueue
<1>6. ASSUME NEW d \in Drives, EnqueueRejected(d) PROVE SourceInv'
  BY <1>6, Zenon DEF EnqueueRejected, Retire
<1>7. ASSUME NEW d \in Drives, DriveStart(d) PROVE SourceInv'
  BY <1>7, Zenon DEF DriveStart
<1>8. ASSUME NEW d \in Drives, EnterStep(d) PROVE SourceInv'
  BY <1>8, ZenonT(60) DEF EnterStep, Return
<1>9. ASSUME NEW d \in Drives, TopCancelled(d) PROVE SourceInv'
  BY <1>9, Zenon DEF TopCancelled, Return
<1>10. ASSUME NEW d \in Drives, TopPending(d) PROVE SourceInv'
  BY <1>10, Zenon DEF TopPending, Return, Waiting, AsyncHere, SubflowHere
<1>11. ASSUME NEW d \in Drives, TopError(d) PROVE SourceInv'
  BY <1>11, Zenon DEF TopError, Return, TakeRetry, Continuation, Waiting,
  AsyncHere, SubflowHere
<1>12. ASSUME NEW d \in Drives, TopContinue(d) PROVE SourceInv'
  BY <1>12, Zenon DEF TopContinue, Goto, TakeRetry, Continuation, Waiting,
  AsyncHere, SubflowHere
<1>13. ASSUME NEW d \in Drives, TopFresh(d) PROVE SourceInv'
  BY <1>13, Zenon DEF TopFresh, Return, Goto, Continuation, Waiting, AsyncHere,
  SubflowHere
<1>14. ASSUME NEW d \in Drives, LeaseDenied(d) PROVE SourceInv'
  BY <1>14, Zenon DEF LeaseDenied, Finish, StartsAttempt, AttemptNumber
<1>15. ASSUME NEW d \in Drives, StartAttempt(d) PROVE SourceInv'
  BY <1>15, Zenon DEF StartAttempt, Goto, StartsAttempt, AttemptNumber
<1>16. ASSUME NEW d \in Drives, ArmTimeout(d) PROVE SourceInv'
  BY <1>16, Zenon DEF ArmTimeout, Goto, Timers
<1>17. ASSUME NEW d \in Drives, Invoke(d) PROVE SourceInv'
  <2> DEFINE new == [gen |-> async_generation, timed |-> NodeTimeout[current]]
  <2>1. new \in ops' /\ new.gen = async_generation'
    BY <1>17, Zenon DEF Invoke
  <2>2. AttemptOutstanding'
    BY <2>1, Zenon
  <2> QED
    BY <1>17, <2>2, Zenon DEF Invoke, Return
<1>18. ASSUME NEW d \in Drives, ConsumeRetry(d) PROVE SourceInv'
  <2> DEFINE new == [gen |-> async_generation + 1, kind |-> "retry"]
  <2>1. new \in armed' /\ new.gen = async_generation'
    BY <1>18, Zenon DEF ConsumeRetry
  <2>2. AttemptOutstanding'
    BY <2>1, Zenon
  <2> QED
    BY <1>18, <2>2, Zenon DEF ConsumeRetry, Return
<1>19. ASSUME NEW d \in Drives, ConsumeFinish(d) PROVE SourceInv'
  BY <1>19, Zenon DEF ConsumeFinish, Finish
<1>20. ASSUME NEW d \in Drives, StartSubflow(d) PROVE SourceInv'
  BY <1>20, Zenon DEF StartSubflow, Goto
<1>21. ASSUME NEW d \in Drives, LaunchSubflow(d) PROVE SourceInv'
  BY <1>21, Zenon DEF LaunchSubflow, Goto
<1>22. ASSUME NEW d \in Drives, CheckSubflow(d) PROVE SourceInv'
  BY <1>22, Zenon DEF CheckSubflow, JoinSubflow, Finish, Return
<1>23. ASSUME NEW d \in Drives, ContinueSubflow(d) PROVE SourceInv'
  BY <1>23, Zenon DEF ContinueSubflow, JoinSubflow, Finish
<1>24. ASSUME NEW d \in Drives, NotDispatched(d) PROVE SourceInv'
  BY <1>24, Zenon DEF NotDispatched, Finish
<1>25. ASSUME NEW d \in Drives, RunSync(d) PROVE SourceInv'
  BY <1>25, Zenon DEF RunSync, Finish
<1>26. ASSUME NEW d \in Drives, SuspendHuman(d) PROVE SourceInv'
  BY <1>26, Zenon DEF SuspendHuman, Return
<1>27. ASSUME NEW d \in Drives, ResumeHuman(d) PROVE SourceInv'
  BY <1>27, Zenon DEF ResumeHuman, Finish
<1>28. ASSUME NEW d \in Drives, RecordQuota(d) PROVE SourceInv'
  BY <1>28, Zenon DEF RecordQuota, Return
<1>29. ASSUME NEW d \in Drives, Record(d) PROVE SourceInv'
  BY <1>29, Zenon DEF Record, Return, Goto
<1>30. ASSUME NEW d \in Drives, PostPending(d) PROVE SourceInv'
  BY <1>30, Zenon DEF PostPending, Resubmit, Retire
<1>31. ASSUME NEW d \in Drives, PostSubflow(d) PROVE SourceInv'
  BY <1>31, Zenon DEF PostSubflow, Resubmit, Retire
<1>32. ASSUME NEW d \in Drives, DeliverNothing(d) PROVE SourceInv'
  BY <1>32, Zenon DEF DeliverNothing, Retire
<1>33. ASSUME NEW d \in Drives, Deliver(d) PROVE SourceInv'
  BY <1>33, Zenon DEF Deliver, Retire
<1>34. ASSUME NEW op \in ops, NEW out \in Outcomes, HostComplete(op, out)
       PROVE  SourceInv'
  BY <1>34, ZenonT(60) DEF HostComplete, Accepts, WakeUnlessDriving, Spawn
<1>35. ASSUME NEW c \in children, NEW out \in {"ok", "fail"}, ChildComplete(c, out)
       PROVE  SourceInv'
  BY <1>35, SMTT(30) DEF ChildComplete, WakeUnlessDriving, Spawn
<1>36. ASSUME NEW t \in armed, TimerPop(t)
       PROVE  SourceInv'
  BY <1>36, Zenon DEF TimerPop
<1>37. ASSUME NEW t \in firing, TimerFire(t)
       PROVE  SourceInv'
  <2>1. CASE Accepts(t.gen)
    BY <1>37, <2>1, Zenon DEF TimerFire, WakeUnlessDriving, Spawn
  <2>2. CASE ~Accepts(t.gen)
    BY <1>37, <2>2, Zenon DEF TimerFire, Accepts
  <2> QED
    BY <1>37, <2>1, <2>2, Zenon DEF TimerFire
<1>38. ASSUME NEW c \in Cancellers, CancelFlag(c) PROVE SourceInv'
  BY <1>38, Zenon DEF CancelFlag
<1>39. ASSUME NEW c \in Cancellers, CancelCopy(c) PROVE SourceInv'
  BY <1>39, Zenon DEF CancelCopy
<1>40. ASSUME NEW c \in Cancellers, CancelAttempt(c) PROVE SourceInv'
  BY <1>40, Zenon DEF CancelAttempt
<1>41. ASSUME NEW c \in Cancellers, CancelSubflow(c) PROVE SourceInv'
  BY <1>41, Zenon DEF CancelSubflow
<1>42. ASSUME NEW c \in Cancellers, CancelWake(c) PROVE SourceInv'
  BY <1>42, Zenon DEF CancelWake, Spawn
<1>43. CASE UNCHANGED vars
  BY <1>43, Zenon DEF vars
<1> HIDE DEF TypeInv, TypeOK, ControlTypes, CancelInv, PendingInv, SourceInv,
    AttemptOutstanding, Mutex, InStep
<1> QED
  BY <1>1, <1>2, <1>3, <1>4, <1>5, <1>6, <1>7, <1>8, <1>9, <1>10, <1>11, <1>12,
  <1>13, <1>14, <1>15, <1>16, <1>17, <1>18, <1>19, <1>20, <1>21, <1>22, <1>23,
  <1>24, <1>25, <1>26, <1>27, <1>28, <1>29, <1>30, <1>31, <1>32, <1>33, <1>34,
  <1>35, <1>36, <1>37, <1>38, <1>39, <1>40, <1>41, <1>42, <1>43, ZenonT(60) DEF
  Next, CallerStep, DriveStep, HostStep, ChildStep, TimerStep, CancelStep

\* The two halves of DriveStep.
EarlyStep(d) ==
    \/ Enqueue(d) \/ EnqueueRejected(d) \/ DriveStart(d)
    \/ EnterStep(d) \/ TopCancelled(d) \/ TopPending(d) \/ TopError(d)
    \/ TopContinue(d) \/ TopFresh(d) \/ LeaseDenied(d)
    \/ StartAttempt(d) \/ ArmTimeout(d) \/ Invoke(d)
    \/ ConsumeRetry(d)
LateStep(d) ==
    \/ ConsumeFinish(d) \/ StartSubflow(d) \/ LaunchSubflow(d)
    \/ CheckSubflow(d) \/ ContinueSubflow(d) \/ NotDispatched(d)
    \/ RunSync(d) \/ SuspendHuman(d) \/ ResumeHuman(d)
    \/ RecordQuota(d) \/ Record(d) \/ PostPending(d) \/ PostSubflow(d)
    \/ DeliverNothing(d) \/ Deliver(d)

\* A useful drive is enough for a Run not to be stranded; a copy of the drive
\* that was just taken is useful.
LEMMA UsefulSuffices ==
  /\ \A d \in Drives : Useful(d)' => StrandedInv'
  /\ \A x : pc \in [Drives -> DrivePoints] /\ Spawn("held", x) => StrandedInv'
  /\ \A x : pc \in [Drives -> DrivePoints] /\ Spawn("queued", x) => StrandedInv'
<1>1. \A d \in Drives : Useful(d)' => StrandedInv'
  BY Zenon DEF StrandedInv
<1>2. ASSUME NEW x, NEW p \in {"held", "queued"},
             pc \in [Drives -> DrivePoints], Spawn(p, x)
      PROVE  StrandedInv'
  <2>1. PICK d \in Drives : pc' = [pc EXCEPT ![d] = p]
    BY <1>2, Zenon DEF Spawn
  <2>2. pc'[d] = p
    BY <1>2, <2>1, Zenon
  <2> QED
    BY <1>1, <2>2, Zenon DEF Useful
<1> QED
  BY <1>1, <1>2, Zenon

\* A step of a drive that was not useful, and that gives up nothing the Run
\* waits for, strands nobody.
LEMMA StrandedKept ==
  ASSUME StrandedInv, NEW d \in Drives, ~Useful(d),
         \A e \in Drives : e # d => pc'[e] = pc[e] /\ res'[e] = res[e],
         UNCHANGED <<run_completion, callback_delivered, caller, dropped, cpc,
                     async_pending, async_ready, async_generation,
                     subflow_pending, subflow_ready, firing>>,
         ops \subseteq ops', armed \subseteq armed', children \subseteq children'
  PROVE  StrandedInv'
<1>1. ASSUME NEW e \in Drives, Useful(e) PROVE Useful(e)'
  <2>1. pc'[e] = pc[e] /\ res'[e] = res[e]
    BY <1>1, Zenon
  <2> QED
    BY <1>1, <2>1, Zenon DEF Useful
<1>2. AttemptOutstanding => AttemptOutstanding'
  BY Zenon DEF AttemptOutstanding
<1>3. children # {} => children' # {}
  BY Zenon
<1> QED
  BY <1>1, <1>2, <1>3, Zenon DEF StrandedInv, Unanswered

\* Whoever makes a result ready finds a useful drive or wakes one.
LEMMA ReadyWakes ==
  ASSUME Inv, WakeUnlessDriving,
         \/ /\ async_pending /\ async_pending' /\ async_ready'
            /\ UNCHANGED <<subflow_pending, subflow_ready>>
         \/ /\ subflow_pending /\ subflow_pending' /\ subflow_ready'
            /\ UNCHANGED <<async_pending, async_ready>>,
         UNCHANGED <<run_completion, callback_delivered, caller, res>>
  PROVE  StrandedInv'
<1>1. CASE ~driving /\ resume_drive # 0
  BY <1>1, UsefulSuffices, Zenon DEF WakeUnlessDriving, Inv, TypeInv, TypeOK, ControlTypes
<1>2. CASE driving
  <2>1. pc' = pc
    BY <1>2, Zenon DEF WakeUnlessDriving
  <2>2. PICK d \in Drives : pc[d] \in InStep \cup {"enter", "post"}
    BY <1>2, Zenon DEF Inv, DrivingInv
  <2>3. async_pending => pc[d] \notin {"launch", "check"}
    BY Zenon DEF Inv, PendingInv
  <2>4. subflow_pending => pc[d] \notin {"consume", "arm", "invoke"}
    BY Zenon DEF Inv, PendingInv
  <2>5. Useful(d)'
    BY <2>1, <2>2, <2>3, <2>4, Zenon DEF Useful, InStep
  <2> QED
    BY <2>5, UsefulSuffices, Zenon
<1>3. CASE resume_drive = 0
  BY <1>3, Zenon DEF Inv, ResumeInv, StrandedInv, Unanswered
<1> QED
  BY <1>1, <1>2, <1>3, Zenon

\* A drive from its submission to the start of an attempt keeps a Run from being
\* stranded.
LEMMA StrandedEarly ==
  ASSUME Inv, NEW d \in Drives, EarlyStep(d) PROVE StrandedInv'
<1>0. pc \in [Drives -> DrivePoints] /\ res \in [Drives -> Results] /\ Mutex
  BY ZenonT(60) DEF Inv, TypeInv, TypeOK, ControlTypes
<1>r. run_result # "pending"
  BY ZenonT(60) DEF Inv, TypeInv, TypeOK, ControlTypes
<1>p. \A x : [pc EXCEPT ![d] = x][d] = x /\ [res EXCEPT ![d] = x][d] = x
  BY <1>0, Zenon
<1>q. \A x, e : e \in Drives /\ e # d =>
        [pc EXCEPT ![d] = x][e] = pc[e] /\ [res EXCEPT ![d] = x][e] = res[e]
  BY <1>0, Zenon
<1>u. Useful(d)' => StrandedInv'
  BY UsefulSuffices, Zenon
<1>f. \A r : Finish(d, r) => StrandedInv'
  BY <1>p, <1>u, ZenonT(60) DEF Finish, Useful
<1>g. \A r : Return(d, r) /\ r # "pending" => StrandedInv'
  BY <1>p, <1>u, Zenon DEF Return, Useful
<1>1. CASE Enqueue(d)
  BY <1>1, <1>p, <1>u, Zenon DEF Enqueue, Useful
<1>2. CASE EnqueueRejected(d)
  BY <1>2, Zenon DEF EnqueueRejected, StrandedInv
<1>3. CASE DriveStart(d)
  BY <1>3, <1>p, <1>u, Zenon DEF DriveStart, Useful
<1>4. CASE EnterStep(d)
  BY <1>4, <1>r, <1>p, <1>u, <1>g, Zenon DEF EnterStep, Useful
<1>5. CASE TopCancelled(d)
  BY <1>5, <1>g, Zenon DEF TopCancelled
<1>6. CASE TopPending(d)
  <2>1. \A e \in Drives : pc[e] \notin {"arm", "invoke", "launch"}
    BY <1>0, <1>6, Zenon DEF TopPending, Mutex, InStep
  <2>2. CASE AsyncHere /\ ~async_ready
    <3>1. async_pending /\ ~async_ready /\ AttemptOutstanding
      BY <1>6, <2>1, <2>2, Zenon DEF Inv, SourceInv, TopPending, AsyncHere
    <3> QED
      BY <1>6, <3>1, Zenon DEF TopPending, AttemptOutstanding, StrandedInv
  <2>3. CASE SubflowHere /\ ~subflow_ready
    <3>1. subflow_pending /\ ~subflow_ready /\ children # {}
      BY <2>1, <2>3, Zenon DEF Inv, SourceInv, SubflowHere
    <3> QED
      BY <1>6, <3>1, Zenon DEF TopPending, StrandedInv
  <2> QED
    BY <1>6, <2>2, <2>3, Zenon DEF TopPending, Waiting
<1>7. CASE TopError(d)
  BY <1>7, <1>g, Zenon DEF TopError
<1>8. CASE TopContinue(d)
  <2>1. Continuation \in {"retry", "joined"} \/ (Continuation = "consume" /\ async_pending)
    BY <1>8, Zenon DEF TopContinue, Continuation, AsyncHere
  <2>2. pc'[d] = Continuation
    BY <1>8, <1>p, Zenon DEF TopContinue, Goto
  <2>3. Continuation # "retry" => async_pending' = async_pending
    BY <1>8, Zenon DEF TopContinue, TakeRetry
  <2> QED
    BY <1>u, <2>1, <2>2, <2>3, Zenon DEF Useful
<1>9. CASE TopFresh(d)
  BY <1>9, <1>p, <1>u, <1>g, Zenon DEF TopFresh, Goto, Useful
<1>10. CASE LeaseDenied(d)
  BY <1>10, <1>f, Zenon DEF LeaseDenied
<1>11. CASE StartAttempt(d)
  BY <1>11, <1>p, <1>u, Zenon DEF StartAttempt, Goto, Useful
<1>12. CASE ArmTimeout(d)
  <2>1. CASE async_pending
    BY <1>12, <1>p, <1>u, <2>1, Zenon DEF ArmTimeout, Goto, Useful
  <2>2. CASE ~async_pending
    <3>1. ~Useful(d)
      BY <1>12, <2>2, Zenon DEF ArmTimeout, Useful
    <3>2. armed \subseteq armed'
      BY <1>12, Zenon DEF ArmTimeout
    <3> QED
      BY <1>12, <1>q, <3>1, <3>2, StrandedKept, Zenon DEF Inv, ArmTimeout, Goto
  <2> QED
    BY <2>1, <2>2, Zenon
<1>13. CASE Invoke(d)
  <2> DEFINE new == [gen |-> async_generation, timed |-> NodeTimeout[current]]
  <2>1. new \in ops' /\ new.gen = async_generation'
    BY <1>13, Zenon DEF Invoke
  <2>2. AttemptOutstanding'
    BY <2>1, Zenon DEF AttemptOutstanding
  <2>3. CASE async_pending /\ async_ready
    BY <1>13, <1>p, <1>u, <2>3, Zenon DEF Invoke, Return, Useful
  <2>4. CASE async_pending /\ ~async_ready
    BY <1>13, <2>2, <2>4, Zenon DEF Invoke, StrandedInv
  <2>5. CASE ~async_pending
    <3>1. ~Useful(d)
      BY <1>13, <2>5, Zenon DEF Invoke, Useful
    <3>2. ops \subseteq ops'
      BY <1>13, Zenon DEF Invoke
    <3> QED
      BY <1>13, <1>q, <3>1, <3>2, StrandedKept, Zenon DEF Inv, Invoke, Return
  <2> QED
    BY <2>3, <2>4, <2>5, Zenon
<1>14. CASE ConsumeRetry(d)
  <2> DEFINE new == [gen |-> async_generation + 1, kind |-> "retry"]
  <2>1. new \in armed' /\ new.gen = async_generation'
    BY <1>14, Zenon DEF ConsumeRetry
  <2>2. AttemptOutstanding'
    BY <2>1, Zenon DEF AttemptOutstanding
  <2>3. CASE async_pending
    BY <1>14, <2>2, <2>3, Zenon DEF ConsumeRetry, StrandedInv
  <2>4. CASE ~async_pending
    <3>1. ~Useful(d)
      BY <1>14, <2>4, Zenon DEF ConsumeRetry, Useful
    <3>2. \A e \in Drives : Useful(e) => Useful(e)'
      <4> SUFFICES ASSUME NEW e \in Drives, Useful(e) PROVE Useful(e)'
        BY Zenon
      <4>1. e # d
        BY <3>1, Zenon
      <4>2. pc'[e] = pc[e] /\ res'[e] = res[e]
        BY <1>14, <1>q, <4>1, Zenon DEF ConsumeRetry, Return
      <4>3. ~async_ready
        BY <2>4, Zenon DEF Inv, PendingInv
      <4> QED
        BY <1>14, <4>2, <4>3, Zenon DEF ConsumeRetry, Useful
    <3> QED
      BY <1>14, <2>4, <3>2, Zenon DEF ConsumeRetry, Inv, StrandedInv, Unanswered
  <2> QED
    BY <2>3, <2>4, Zenon
<1> QED
  BY <1>1, <1>2, <1>3, <1>4, <1>5, <1>6, <1>7, <1>8, <1>9, <1>10, <1>11,
  <1>12, <1>13, <1>14, Zenon DEF EarlyStep

\* So does a drive from the end of an attempt to its report.
LEMMA StrandedLate ==
  ASSUME Inv, NEW d \in Drives, LateStep(d) PROVE StrandedInv'
<1>0. pc \in [Drives -> DrivePoints] /\ res \in [Drives -> Results] /\ Mutex
  BY ZenonT(60) DEF Inv, TypeInv, TypeOK, ControlTypes
<1>r. \A e \in Drives : pc[e] = "record" => res[e] \in {"ok", "fail"}
  BY Zenon DEF Inv, TypeInv, Position
<1>p. \A x : [pc EXCEPT ![d] = x][d] = x /\ [res EXCEPT ![d] = x][d] = x
  BY <1>0, Zenon
<1>q. \A x, e : e \in Drives /\ e # d =>
        [pc EXCEPT ![d] = x][e] = pc[e] /\ [res EXCEPT ![d] = x][e] = res[e]
  BY <1>0, Zenon
<1>u. Useful(d)' => StrandedInv'
  BY UsefulSuffices, Zenon
<1>f. \A r : Finish(d, r) => StrandedInv'
  BY <1>p, <1>u, Zenon DEF Finish, Useful
<1>g. \A r : Return(d, r) /\ r # "pending" => StrandedInv'
  BY <1>p, <1>u, Zenon DEF Return, Useful
<1>1. CASE ConsumeFinish(d)
  BY <1>1, <1>f, Zenon DEF ConsumeFinish
<1>2. CASE StartSubflow(d)
  BY <1>2, <1>p, <1>u, Zenon DEF StartSubflow, Goto, Useful
<1>3. CASE LaunchSubflow(d)
  <2>1. CASE subflow_pending
    BY <1>3, <1>p, <1>u, <2>1, Zenon DEF LaunchSubflow, Goto, Useful
  <2>2. CASE ~subflow_pending
    <3>1. ~Useful(d)
      BY <1>3, <2>2, Zenon DEF LaunchSubflow, Useful
    <3>2. children \subseteq children'
      BY <1>3, Zenon DEF LaunchSubflow
    <3> QED
      BY <1>3, <1>q, <3>1, <3>2, StrandedKept, Zenon DEF Inv, LaunchSubflow, Goto
  <2> QED
    BY <2>1, <2>2, Zenon
<1>4. CASE CheckSubflow(d)
  <2>1. CASE subflow_ready
    BY <1>4, <1>f, <2>1, Zenon DEF CheckSubflow
  <2>2. CASE subflow_pending /\ ~subflow_ready
    <3>1. \A e \in Drives : pc[e] # "launch"
      BY <1>0, <1>4, Zenon DEF CheckSubflow, Mutex, InStep
    <3>2. children # {}
      BY <2>2, <3>1, Zenon DEF Inv, SourceInv
    <3> QED
      BY <1>4, <2>2, <3>2, Zenon DEF CheckSubflow, StrandedInv
  <2>3. CASE ~subflow_pending /\ ~subflow_ready
    <3>1. ~Useful(d)
      BY <1>4, <2>3, Zenon DEF CheckSubflow, Useful
    <3>2. ops' = ops /\ armed' = armed /\ children' = children
      BY <1>4, Zenon DEF CheckSubflow
    <3>3. \A e \in Drives : e # d => pc'[e] = pc[e] /\ res'[e] = res[e]
      <4>1. Return(d, "pending")
        BY <1>4, <2>3, Zenon DEF CheckSubflow
      <4> QED
        BY <1>q, <4>1, Zenon DEF Return
    <3>4. UNCHANGED <<run_completion, callback_delivered, caller, dropped, cpc,
                      async_pending, async_ready, async_generation,
                      subflow_pending, subflow_ready, firing>>
      BY <1>4, <2>3, Zenon DEF CheckSubflow
    <3>5. ops \subseteq ops' /\ armed \subseteq armed' /\ children \subseteq children'
      BY <3>2, Zenon
    <3>6. StrandedInv
      BY Zenon DEF Inv
    <3> QED
      BY ONLY <3>1, <3>3, <3>4, <3>5, <3>6, StrandedKept, d \in Drives, Zenon
  <2> QED
    BY <2>1, <2>2, <2>3, Zenon
<1>5. CASE ContinueSubflow(d)
  BY <1>5, <1>f, Zenon DEF ContinueSubflow
<1>6. CASE NotDispatched(d)
  BY <1>6, <1>f, Zenon DEF NotDispatched
<1>7. CASE RunSync(d)
  BY <1>7, <1>f, Zenon DEF RunSync
<1>8. CASE SuspendHuman(d)
  BY <1>8, <1>g, Zenon DEF SuspendHuman
<1>9. CASE ResumeHuman(d)
  BY <1>9, <1>f, Zenon DEF ResumeHuman
<1>10. CASE RecordQuota(d)
  BY <1>10, <1>g, Zenon DEF RecordQuota
<1>11. CASE Record(d)
  <2>1. \/ Goto(d, "top")
        \/ \E r \in {"ok", "fail", "error"} : Return(d, r)
    BY <1>11, <1>r, Zenon DEF Record
  <2> QED
    BY <2>1, <1>p, <1>u, <1>g, Zenon DEF Goto, Useful
<1>w. ASSUME Resubmit(d) PROVE StrandedInv'
  BY <1>w, <1>p, <1>u, Zenon DEF Resubmit, Useful, StrandedInv
<1>12. CASE PostPending(d)
  <2>1. CASE async_ready
    BY <1>12, <1>w, <2>1, Zenon DEF PostPending
  <2>2. CASE ~async_ready /\ subflow_ready
    BY <1>12, <1>p, <1>u, <2>2, Zenon DEF PostPending, Useful
  <2>3. CASE ~async_ready /\ ~subflow_ready
    <3>1. ~Useful(d)
      BY <1>12, <2>3, Zenon DEF PostPending, Useful
    <3>2. ops' = ops /\ armed' = armed /\ children' = children
      BY <1>12, Zenon DEF PostPending
    <3>3. \A e \in Drives : e # d => pc'[e] = pc[e] /\ res'[e] = res[e]
      <4>1. /\ pc' = [pc EXCEPT ![d] = "post2"]
            /\ res' = [res EXCEPT ![d] = "none"]
        BY <1>12, <2>3, Zenon DEF PostPending
      <4> QED
        BY <1>q, <4>1, Zenon
    <3>4. UNCHANGED <<run_completion, callback_delivered, caller, dropped, cpc,
                      async_pending, async_ready, async_generation,
                      subflow_pending, subflow_ready, firing>>
      BY <1>12, <2>3, Zenon DEF PostPending
    <3>5. ops \subseteq ops' /\ armed \subseteq armed' /\ children \subseteq children'
      BY <3>2, Zenon
    <3>6. StrandedInv
      BY Zenon DEF Inv
    <3> QED
      BY ONLY <3>1, <3>3, <3>4, <3>5, <3>6, StrandedKept, d \in Drives, Zenon
  <2> QED
    BY <2>1, <2>2, <2>3, Zenon
<1>13. CASE PostSubflow(d)
  <2>1. CASE subflow_ready
    BY <1>13, <1>w, <2>1, Zenon DEF PostSubflow
  <2>2. CASE ~subflow_ready
    <3>1. ~Useful(d)
      BY <1>13, <2>2, Zenon DEF PostSubflow, Useful
    <3>2. ops' = ops /\ armed' = armed /\ children' = children
      BY <1>13, Zenon DEF PostSubflow
    <3>3. \A e \in Drives : e # d => pc'[e] = pc[e] /\ res'[e] = res[e]
      <4>1. pc' = [pc EXCEPT ![d] = "idle"] /\ res' = res
        BY <1>13, <2>2, Zenon DEF PostSubflow, Retire
      <4> QED
        BY <1>q, <4>1, Zenon
    <3>4. UNCHANGED <<run_completion, callback_delivered, caller, dropped, cpc,
                      async_pending, async_ready, async_generation,
                      subflow_pending, subflow_ready, firing>>
      BY <1>13, <2>2, Zenon DEF PostSubflow
    <3>5. ops \subseteq ops' /\ armed \subseteq armed' /\ children \subseteq children'
      BY <3>2, Zenon
    <3>6. StrandedInv
      BY Zenon DEF Inv
    <3> QED
      BY ONLY <3>1, <3>3, <3>4, <3>5, <3>6, StrandedKept, d \in Drives, Zenon
  <2> QED
    BY <2>1, <2>2, Zenon
<1>14. CASE DeliverNothing(d)
  BY <1>14, Zenon DEF DeliverNothing, StrandedInv, Unanswered
<1>15. CASE Deliver(d)
  BY <1>15, Zenon DEF Deliver, StrandedInv, Unanswered
<1> QED
  BY <1>1, <1>2, <1>3, <1>4, <1>5, <1>6, <1>7, <1>8, <1>9, <1>10, <1>11,
  <1>12, <1>13, <1>14, <1>15, Zenon DEF LateStep

\* So do the caller, completions, children, timers and cancels.
LEMMA StrandedOutside ==
  ASSUME Inv,
         \/ CallerStep \/ HostStep \/ ChildStep \/ TimerStep
         \/ (\E c \in Cancellers : CancelStep(c)) \/ UNCHANGED vars
  PROVE  StrandedInv'
<1>0. pc \in [Drives -> DrivePoints] /\ StrandedInv
  BY ZenonT(60) DEF Inv, TypeInv, TypeOK, ControlTypes
<1>1. CASE ExecuteAsync
  BY <1>1, Zenon DEF ExecuteAsync, StrandedInv, Unanswered
<1>2. CASE InstallDrive
  BY <1>2, Zenon DEF InstallDrive, StrandedInv, Unanswered
<1>3. CASE SubmitDrive
  BY <1>0, <1>3, UsefulSuffices, Zenon DEF SubmitDrive
<1>4. CASE SubmitRejected
  BY <1>4, Zenon DEF SubmitRejected, StrandedInv, Unanswered
<1>5. ASSUME NEW op \in ops, NEW out \in Outcomes, HostComplete(op, out)
       PROVE  StrandedInv'
  <2>1. CASE Accepts(op.gen)
    BY <1>5, <2>1, ReadyWakes, Zenon DEF HostComplete, Accepts
  <2>2. CASE ~Accepts(op.gen)
    <3>1. \A d \in Drives : Useful(d) => Useful(d)'
      BY <1>5, <2>2, Zenon DEF HostComplete, Useful
    <3>2. async_pending /\ ~async_ready /\ AttemptOutstanding => AttemptOutstanding'
      BY <1>5, <2>2, Zenon DEF HostComplete, Accepts, AttemptOutstanding
    <3> QED
      BY <1>0, <1>5, <2>2, <3>1, <3>2, Zenon DEF HostComplete, StrandedInv, Unanswered
  <2> QED
    BY <2>1, <2>2, Zenon
<1>6. ASSUME NEW c \in children, NEW out \in {"ok", "fail"}, ChildComplete(c, out)
       PROVE  StrandedInv'
  <2>1. CASE subflow_pending /\ ~subflow_ready
    BY <1>6, <2>1, ReadyWakes, Zenon DEF ChildComplete
  <2>2. CASE ~(subflow_pending /\ ~subflow_ready)
    <3>1. \A d \in Drives : Useful(d) => Useful(d)'
      BY <1>6, <2>2, Zenon DEF ChildComplete, Useful
    <3>2. AttemptOutstanding => AttemptOutstanding'
      BY <1>6, Zenon DEF ChildComplete, AttemptOutstanding
    <3> QED
      BY <1>0, <1>6, <2>2, <3>1, <3>2, Zenon DEF ChildComplete, StrandedInv, Unanswered
  <2> QED
    BY <2>1, <2>2, Zenon
<1>7. ASSUME NEW t \in armed, TimerPop(t)
       PROVE  StrandedInv'
  <2>1. \A d \in Drives : Useful(d) => Useful(d)'
    BY <1>7, Zenon DEF TimerPop, Useful
  <2>2. AttemptOutstanding => AttemptOutstanding'
    BY <1>7, Zenon DEF TimerPop, AttemptOutstanding
  <2> QED
    BY <1>0, <1>7, <2>1, <2>2, Zenon DEF TimerPop, StrandedInv, Unanswered
<1>8. ASSUME NEW t \in firing, TimerFire(t)
       PROVE  StrandedInv'
  <2>1. CASE Accepts(t.gen)
    BY <1>8, <2>1, ReadyWakes, Zenon DEF TimerFire, Accepts
  <2>2. CASE ~Accepts(t.gen)
    <3>1. \A d \in Drives : Useful(d) => Useful(d)'
      BY <1>8, <2>2, Zenon DEF TimerFire, Useful
    <3>2. \A s \in firing : s = t
      BY <1>8, Zenon DEF Inv, SourceInv
    <3>3. async_pending /\ ~async_ready /\ AttemptOutstanding => AttemptOutstanding'
      BY <1>8, <2>2, <3>2, Zenon DEF TimerFire, Accepts, AttemptOutstanding
    <3> QED
      BY <1>0, <1>8, <2>2, <3>1, <3>3, Zenon DEF TimerFire, StrandedInv, Unanswered
  <2> QED
    BY <2>1, <2>2, Zenon
<1>9. ASSUME NEW c \in Cancellers,
             CancelFlag(c) \/ CancelCopy(c) \/ CancelAttempt(c) \/ CancelSubflow(c)
      PROVE  StrandedInv'
  <2>1. cpc \in [Cancellers -> {"ready", "copy", "attempt", "subflow", "wake", "done"}]
    BY ZenonT(60) DEF Inv, TypeInv, TypeOK, CancelTypes
  <2>2. \E p \in {"copy", "attempt", "subflow", "wake"} : cpc' = [cpc EXCEPT ![c] = p]
    BY <1>9, Zenon DEF CancelFlag, CancelCopy, CancelAttempt, CancelSubflow
  <2>3. cpc'[c] \notin {"ready", "done"}
    BY <2>1, <2>2, Zenon
  <2> QED
    BY <2>3, Zenon DEF StrandedInv
<1>10. ASSUME NEW c \in Cancellers, CancelWake(c) PROVE StrandedInv'
  <2>1. CASE resume_drive # 0
    BY <1>0, <1>10, <2>1, UsefulSuffices, Zenon DEF CancelWake
  <2>2. CASE resume_drive = 0
    BY <1>10, <2>2, Zenon DEF CancelWake, Inv, ResumeInv, StrandedInv, Unanswered
  <2> QED
    BY <2>1, <2>2, Zenon
<1>11. CASE UNCHANGED vars
  <2>1. \A d \in Drives : Useful(d) => Useful(d)'
    BY <1>11, Zenon DEF vars, Useful
  <2>2. AttemptOutstanding => AttemptOutstanding'
    BY <1>11, Zenon DEF vars, AttemptOutstanding
  <2> QED
    BY <1>0, <1>11, <2>1, <2>2, Zenon DEF vars, StrandedInv, Unanswered
<1> QED
  BY <1>1, <1>2, <1>3, <1>4, <1>5, <1>6, <1>7, <1>8, <1>9, <1>10, <1>11, Zenon
  DEF CallerStep, HostStep, ChildStep, TimerStep, CancelStep

-----------------------------------------------------------------------------
\* No step leaves the caller waiting for nothing: a drive stops being useful only
\* by reporting, or where something it waits for is outstanding, and a callback
\* that finds nobody driving makes a new drive.
LEMMA StrandedStep == Inv /\ [Next]_vars => StrandedInv'
<1>1. ASSUME NEW d \in Drives, DriveStep(d) PROVE EarlyStep(d) \/ LateStep(d)
  BY <1>1, ZenonT(60) DEF DriveStep, EarlyStep, LateStep
<1> QED
  BY <1>1, StrandedEarly, StrandedLate, StrandedOutside, ZenonT(60) DEF Next

\* The invariant holds of a run that has just been created.
LEMMA InvInit == Init => Inv
<1> SUFFICES ASSUME Init PROVE Inv
  BY Zenon
<1>1. TypeInv
  BY TypeInit, ZenonT(60)
<1>2. DrivingInv /\ ResumeInv /\ CancelInv
  BY Zenon DEF Init, DrivingInv, ResumeInv, CancelInv
<1>3. PendingInv /\ SourceInv /\ StrandedInv
  BY Zenon DEF Init, PendingInv, SourceInv, StrandedInv, Unanswered
<1> QED
  BY <1>1, <1>2, <1>3, Zenon DEF Inv

\* Every step of the driver, of an executor and of the pool keeps the invariant.
LEMMA InvStep == Inv /\ [Next]_vars => Inv'
  BY TypeStep, DrivingStep, ResumeStep, CancelledStep, PendingStep, SourceStep,
  StrandedStep, ZenonT(60) DEF Inv

\* The handshake between drives, completions, timers, children and cancels
\* loses no wakeup: while an execute_async is unanswered and no continuation
\* was refused by the Scheduler, somebody is bound to move the Run.
THEOREM NoLostWakeup == Spec => []NeverStranded
<1>1. Init => Inv
  BY InvInit, Zenon
<1>2. Inv /\ [Next]_vars => Inv'
  BY InvStep, Zenon
<1>3. Inv => NeverStranded
  BY Zenon DEF Inv, StrandedInv, NeverStranded, Moving, Useful,
  AttemptOutstanding, Live
<1> QED
  BY <1>1, <1>2, <1>3, PTL DEF Spec
-----------------------------------------------------------------------------
(* Who drives a Run, and how it is answered. *)

\* A drive under way; one past the head of the loop; one that will report.
Active(d) == pc[d] \notin {"idle", "post2"}
Past(d) == pc[d] \in InStep \ {"top"}
Reporting(d) == pc[d] = "post" /\ res[d] # "pending"

\* An execution is under way: its caller has returned, nothing was reported.
Open == caller = "out" /\ run_completion # 0 /\ ~callback_delivered

\* Without subflows: no child is waited for; no attempt is pending and no lease
\* is held between two executions; nothing is started while a drive reports.
NoSubflow == ~subflow_pending /\ ~subflow_ready
Quiet == ~Open => ~async_pending /\ ~async_lease
Inside == \A d \in Drives : Past(d) => Open /\ \A e \in Drives : ~Reporting(e)

\* Before a cancel one drive at most is under way, in an open execution.  It
\* waits in the Scheduler only when there is something for it to do, and has
\* driving set from then on.
Alone ==
    ~cancelled =>
        /\ \A d, e \in Drives : Active(d) /\ Active(e) => d = e
        /\ \A d \in Drives : Active(d) => Open
        /\ \A d \in Drives :
             pc[d] \in {"held", "queued"} => ~(async_pending /\ ~async_ready)
        /\ \A d \in Drives : pc[d] \in InStep \cup {"enter", "post"} => driving
        /\ caller # "out" => run_completion # 0 /\ ~callback_delivered

SoloInv == ~UsesSubflow => NoSubflow /\ Quiet /\ Inside /\ Alone

-----------------------------------------------------------------------------
(* A drive is moved by its own steps, once it was made.                     *)

\* The steps of one drive leave the others where they are.
LEMMA OthersStay ==
  ASSUME pc \in [Drives -> DrivePoints], res \in [Drives -> Results],
         NEW d \in Drives, NEW e \in Drives, DriveStep(e), d # e
  PROVE  pc'[d] = pc[d] /\ res'[d] = res[d]
BY ZenonT(60) DEF DriveStep, Return, Goto, Finish, Retire, Resubmit, Enqueue,
   EnqueueRejected, DriveStart, EnterStep, TopCancelled, TopPending, TopError,
   TopContinue, TopFresh, LeaseDenied, StartAttempt, ArmTimeout, Invoke,
   ConsumeRetry, ConsumeFinish, StartSubflow, LaunchSubflow, CheckSubflow,
   ContinueSubflow, NotDispatched, RunSync, SuspendHuman, ResumeHuman, RecordQuota,
   Record, PostPending, PostSubflow, DeliverNothing, Deliver

\* A drive that is made takes an idle slot and leaves the others alone.
LEMMA SpawnOne ==
  ASSUME pc \in [Drives -> DrivePoints], NEW point, NEW x, Spawn(point, x)
  PROVE  \E s \in Drives :
           /\ pc[s] = "idle" /\ pc'[s] = point
           /\ \A d \in Drives : d # s => pc'[d] = pc[d]
BY ZenonT(60) DEF Spawn

\* What wakes a Run, and when it makes a drive.
AttemptWakes == async_pending /\ ~async_ready /\ async_ready' /\ ~driving
ChildWakes == subflow_pending /\ ~subflow_ready /\ ~driving
CancelWakes == \E c \in Cancellers : cpc[c] # "ready"

\* A step outside the drives moves no drive that exists, and makes one only as
\* the submission of execute_async or to wake the Run.
LEMMA Outside ==
  ASSUME pc \in [Drives -> DrivePoints],
         \/ CallerStep \/ HostStep \/ ChildStep \/ TimerStep
         \/ (\E c \in Cancellers : CancelStep(c)) \/ UNCHANGED vars
  PROVE  /\ res' = res
         /\ \/ pc' = pc
            \/ \E s \in Drives :
                 /\ pc[s] = "idle"
                 /\ \A d \in Drives : d # s => pc'[d] = pc[d]
                 /\ \/ SubmitDrive /\ pc'[s] = "queued"
                    \/ AttemptWakes /\ pc'[s] = "held"
                    \/ ChildWakes /\ pc'[s] = "held"
                    \/ CancelWakes /\ pc'[s] = "held"
<1> DEFINE P == /\ res' = res
                /\ \/ pc' = pc
                   \/ \E s \in Drives :
                        /\ pc[s] = "idle"
                        /\ \A d \in Drives : d # s => pc'[d] = pc[d]
                        /\ \/ SubmitDrive /\ pc'[s] = "queued"
                           \/ AttemptWakes /\ pc'[s] = "held"
                           \/ ChildWakes /\ pc'[s] = "held"
                           \/ CancelWakes /\ pc'[s] = "held"
<1>1. CASE ExecuteAsync \/ InstallDrive \/ SubmitRejected
  BY <1>1, ZenonT(60) DEF ExecuteAsync, InstallDrive, SubmitRejected
<1>2. CASE SubmitDrive
  BY <1>2, SpawnOne, ZenonT(60) DEF SubmitDrive
<1>3. ASSUME NEW op \in ops, NEW out \in Outcomes, HostComplete(op, out)
       PROVE  P
  BY <1>3, SpawnOne, ZenonT(60) DEF HostComplete, Accepts, WakeUnlessDriving,
  AttemptWakes
<1>4. ASSUME NEW c \in children, NEW out \in {"ok", "fail"}, ChildComplete(c, out)
       PROVE  P
  BY <1>4, SpawnOne, ZenonT(60) DEF ChildComplete, WakeUnlessDriving, ChildWakes
<1>5. CASE \E t \in armed : TimerPop(t)
  BY <1>5, ZenonT(60) DEF TimerPop
<1>6. ASSUME NEW t \in firing, TimerFire(t)
       PROVE  P
  BY <1>6, SpawnOne, ZenonT(60) DEF TimerFire, Accepts, WakeUnlessDriving,
  AttemptWakes
<1>7. ASSUME NEW c \in Cancellers, CancelWake(c)
       PROVE  P
  BY <1>7, SpawnOne, ZenonT(60) DEF CancelWake, CancelWakes
<1>8. ASSUME NEW c \in Cancellers,
             CancelFlag(c) \/ CancelCopy(c) \/ CancelAttempt(c) \/ CancelSubflow(c)
       PROVE  P
  BY <1>8, ZenonT(60) DEF CancelFlag, CancelCopy, CancelAttempt, CancelSubflow
<1>9. CASE UNCHANGED vars
  BY <1>9, ZenonT(60) DEF vars
<1> QED
  BY <1>1, <1>2, <1>3, <1>4, <1>5, <1>6, <1>7, <1>8, <1>9, ZenonT(60)
  DEF CallerStep, HostStep, ChildStep, TimerStep, CancelStep

\* No step moves two drives.
LEMMA OneMoves ==
  ASSUME pc \in [Drives -> DrivePoints], res \in [Drives -> Results],
         [Next]_vars, NEW d \in Drives, NEW e \in Drives, d # e
  PROVE  \/ pc'[d] = pc[d] /\ res'[d] = res[d]
         \/ pc'[e] = pc[e] /\ res'[e] = res[e]
<1>1. ASSUME NEW x \in Drives, DriveStep(x)
       PROVE  \/ pc'[d] = pc[d] /\ res'[d] = res[d]
              \/ pc'[e] = pc[e] /\ res'[e] = res[e]
  BY <1>1, OthersStay, ZenonT(60)
<1>2. CASE ~ \E x \in Drives : DriveStep(x)
  <2>1. \/ res' = res /\ pc' = pc
        \/ res' = res /\ \E s \in Drives : \A x \in Drives : x # s => pc'[x] = pc[x]
    BY <1>2, Outside, ZenonT(60) DEF Next
  <2>2. ASSUME NEW s \in Drives, \A x \in Drives : x # s => pc'[x] = pc[x]
         PROVE  pc'[d] = pc[d] \/ pc'[e] = pc[e]
    <3>1. d # s \/ e # s
      OBVIOUS
    <3> QED
      BY <2>2, <3>1
  <2> QED
    BY <2>1, <2>2
<1> QED
  BY <1>1, <1>2, ZenonT(60)

\* Who moves a drive.
LEMMA Mover ==
  ASSUME pc \in [Drives -> DrivePoints], res \in [Drives -> Results],
         [Next]_vars, NEW d \in Drives
  PROVE  \/ pc'[d] = pc[d] /\ res'[d] = res[d]
         \/ DriveStep(d)
         \/ /\ pc[d] = "idle"
            /\ \/ SubmitDrive /\ pc'[d] = "queued"
               \/ AttemptWakes /\ pc'[d] = "held"
               \/ ChildWakes /\ pc'[d] = "held"
               \/ CancelWakes /\ pc'[d] = "held"
<1>1. ASSUME NEW x \in Drives, DriveStep(x)
       PROVE  (pc'[d] = pc[d] /\ res'[d] = res[d]) \/ DriveStep(d)
  BY <1>1, OthersStay, ZenonT(60)
<1>2. CASE ~ \E x \in Drives : DriveStep(x)
  BY <1>2, Outside, ZenonT(60) DEF Next
<1> QED
  BY <1>1, <1>2, ZenonT(60)

\* The points a drive goes through, and the steps that take it there.
OnPath(d) ==
    \/ Enqueue(d) /\ pc[d] = "held" /\ pc'[d] = "queued"
    \/ EnqueueRejected(d) /\ pc'[d] = "idle"
    \/ DriveStart(d) /\ pc[d] = "queued" /\ pc'[d] = "enter"
    \/ EnterStep(d) /\ pc[d] = "enter" /\ pc'[d] \in {"top", "post"}
    \/ TopContinue(d) /\ pc[d] = "top" /\ pc'[d] \in {"retry", "consume", "joined"}
    \/ TopFresh(d) /\ pc[d] = "top" /\ pc'[d] \in {"fresh", "post"}
    \/ StartAttempt(d) /\ pc[d] \in {"fresh", "retry"} /\ pc'[d] = "arm"
    \/ ArmTimeout(d) /\ pc[d] = "arm" /\ pc'[d] = "invoke"
    \/ StartSubflow(d) /\ pc[d] = "fresh" /\ pc'[d] = "launch"
    \/ LaunchSubflow(d) /\ pc[d] = "launch" /\ pc'[d] = "check"
    \/ pc[d] \in InStep \ {"top"} /\ pc'[d] = "record"
    \/ Record(d) /\ pc[d] = "record" /\ pc'[d] \in {"top", "post"}
    \/ pc[d] \in InStep /\ pc'[d] = "post"
    \/ PostPending(d) /\ pc[d] = "post" /\ pc'[d] \in {"held", "post2", "idle"}
    \/ PostSubflow(d) /\ pc[d] = "post2" /\ pc'[d] \in {"held", "idle"}
    \/ (DeliverNothing(d) \/ Deliver(d)) /\ pc[d] = "post" /\ pc'[d] = "idle"

\* Every step of a drive is on its path.
LEMMA Path ==
  ASSUME pc \in [Drives -> DrivePoints], NEW d \in Drives, DriveStep(d)
  PROVE  OnPath(d)
<1>1. ASSUME Enqueue(d) PROVE OnPath(d)
  <2>1. pc[d] = "held" /\ pc'[d] = "queued"
    BY <1>1, ZenonT(60) DEF Enqueue
  <2> QED
    BY <1>1, <2>1, Zenon DEF OnPath
<1>2. ASSUME EnqueueRejected(d) PROVE OnPath(d)
  <2>1. pc'[d] = "idle"
    BY <1>2, ZenonT(60) DEF EnqueueRejected, Retire
  <2> QED
    BY <1>2, <2>1, Zenon DEF OnPath
<1>3. ASSUME DriveStart(d) PROVE OnPath(d)
  <2>1. pc[d] = "queued" /\ pc'[d] = "enter"
    BY <1>3, ZenonT(60) DEF DriveStart
  <2> QED
    BY <1>3, <2>1, Zenon DEF OnPath
<1>4. ASSUME EnterStep(d) PROVE OnPath(d)
  <2>1. pc[d] = "enter" /\ pc'[d] \in {"top", "post"}
    BY <1>4, ZenonT(60) DEF EnterStep, Return
  <2> QED
    BY <1>4, <2>1, Zenon DEF OnPath
<1>5. ASSUME TopCancelled(d) \/ TopPending(d) \/ TopError(d) PROVE OnPath(d)
  <2>1. pc[d] \in InStep /\ pc'[d] = "post"
    BY <1>5, ZenonT(60) DEF TopCancelled, TopPending, TopError, Return, InStep
  <2> QED
    BY <1>5, <2>1, Zenon DEF OnPath
<1>6. ASSUME TopContinue(d) PROVE OnPath(d)
  <2>1. pc[d] = "top" /\ pc'[d] \in {"retry", "consume", "joined"}
    BY <1>6, ZenonT(60) DEF TopContinue, Goto, Continuation
  <2> QED
    BY <1>6, <2>1, Zenon DEF OnPath
<1>7. ASSUME TopFresh(d) PROVE OnPath(d)
  <2>1. pc[d] = "top" /\ pc'[d] \in {"fresh", "post"}
    BY <1>7, ZenonT(60) DEF TopFresh, Goto, Return
  <2> QED
    BY <1>7, <2>1, Zenon DEF OnPath
<1>8. ASSUME StartAttempt(d) PROVE OnPath(d)
  <2>1. pc[d] \in {"fresh", "retry"} /\ pc'[d] = "arm"
    BY <1>8, ZenonT(60) DEF StartAttempt, StartsAttempt, Goto
  <2> QED
    BY <1>8, <2>1, Zenon DEF OnPath
<1>9. ASSUME ArmTimeout(d) PROVE OnPath(d)
  <2>1. pc[d] = "arm" /\ pc'[d] = "invoke"
    BY <1>9, ZenonT(60) DEF ArmTimeout, Goto
  <2> QED
    BY <1>9, <2>1, Zenon DEF OnPath
<1>10. ASSUME StartSubflow(d) PROVE OnPath(d)
  <2>1. pc[d] = "fresh" /\ pc'[d] = "launch"
    BY <1>10, ZenonT(60) DEF StartSubflow, Goto
  <2> QED
    BY <1>10, <2>1, Zenon DEF OnPath
<1>11. ASSUME LaunchSubflow(d) PROVE OnPath(d)
  <2>1. pc[d] = "launch" /\ pc'[d] = "check"
    BY <1>11, ZenonT(60) DEF LaunchSubflow, Goto
  <2> QED
    BY <1>11, <2>1, Zenon DEF OnPath
<1>12. ASSUME LeaseDenied(d) \/ ConsumeFinish(d) \/ ContinueSubflow(d) \/
             NotDispatched(d) \/ RunSync(d) \/ ResumeHuman(d)
       PROVE  OnPath(d)
  <2>1. pc[d] \in InStep \ {"top"} /\ pc'[d] = "record"
    BY <1>12, ZenonT(60) DEF LeaseDenied, StartsAttempt, ConsumeFinish, ContinueSubflow,
    NotDispatched, RunSync, ResumeHuman, Finish, InStep
  <2> QED
    BY <1>12, <2>1, Zenon DEF OnPath
<1>13. ASSUME CheckSubflow(d) PROVE OnPath(d)
  <2>1. pc[d] \in InStep \ {"top"} /\ pc'[d] \in {"record", "post"}
    BY <1>13, ZenonT(60) DEF CheckSubflow, Finish, Return, InStep
  <2> QED
    BY <1>13, <2>1, Zenon DEF OnPath
<1>14. ASSUME Invoke(d) \/ ConsumeRetry(d) \/ SuspendHuman(d) \/ RecordQuota(d)
       PROVE  OnPath(d)
  <2>1. pc[d] \in InStep /\ pc'[d] = "post"
    BY <1>14, ZenonT(60) DEF Invoke, ConsumeRetry, SuspendHuman, RecordQuota, Return, InStep
  <2> QED
    BY <1>14, <2>1, Zenon DEF OnPath
<1>15. ASSUME Record(d) PROVE OnPath(d)
  <2>1. pc[d] = "record" /\ pc'[d] \in {"top", "post"}
    BY <1>15, ZenonT(60) DEF Record, Return, Goto
  <2> QED
    BY <1>15, <2>1, Zenon DEF OnPath
<1>16. ASSUME PostPending(d) PROVE OnPath(d)
  <2>1. pc[d] = "post" /\ pc'[d] \in {"held", "post2", "idle"}
    BY <1>16, ZenonT(60) DEF PostPending, Resubmit, Retire
  <2> QED
    BY <1>16, <2>1, Zenon DEF OnPath
<1>17. ASSUME PostSubflow(d) PROVE OnPath(d)
  <2>1. pc[d] = "post2" /\ pc'[d] \in {"held", "idle"}
    BY <1>17, ZenonT(60) DEF PostSubflow, Resubmit, Retire
  <2> QED
    BY <1>17, <2>1, Zenon DEF OnPath
<1>18. ASSUME DeliverNothing(d) \/ Deliver(d) PROVE OnPath(d)
  <2>1. pc[d] = "post" /\ pc'[d] = "idle"
    BY <1>18, ZenonT(60) DEF DeliverNothing, Deliver, Retire
  <2> QED
    BY <1>18, <2>1, Zenon DEF OnPath
<1> QED
  BY <1>1, <1>2, <1>3, <1>4, <1>5, <1>6, <1>7, <1>8, <1>9, <1>10, <1>11, <1>12,
  <1>13, <1>14, <1>15, <1>16, <1>17, <1>18, Zenon DEF DriveStep

\* The steps that lead to each point.
LEMMA Arrivals ==
  ASSUME pc \in [Drives -> DrivePoints], res \in [Drives -> Results],
         [Next]_vars, NEW d \in Drives
  PROVE  /\ pc'[d] = "fresh" => pc[d] = "fresh" \/ TopFresh(d)
         /\ pc'[d] \in {"retry", "consume", "joined"} =>
              pc'[d] = pc[d] \/ TopContinue(d)
         /\ pc'[d] = "arm" => pc[d] = "arm" \/ StartAttempt(d)
         /\ pc'[d] = "invoke" => pc[d] = "invoke" \/ ArmTimeout(d)
         /\ pc'[d] = "launch" => pc[d] = "launch" \/ StartSubflow(d)
         /\ pc'[d] = "check" => pc[d] = "check" \/ LaunchSubflow(d)
         /\ pc'[d] = "record" => pc[d] \in InStep \ {"top"}
         /\ pc'[d] = "top" => pc[d] = "top" \/ EnterStep(d) \/ Record(d)
         /\ pc'[d] = "post" => \/ pc'[d] = pc[d] /\ res'[d] = res[d]
                               \/ pc[d] \in InStep
                               \/ EnterStep(d)
         /\ pc'[d] = "enter" => pc[d] = "enter" \/ DriveStart(d)
         /\ pc'[d] = "held" =>
              \/ pc[d] = "held" \/ PostPending(d) \/ PostSubflow(d)
              \/ AttemptWakes \/ ChildWakes \/ CancelWakes
         /\ pc'[d] = "queued" => pc[d] = "queued" \/ Enqueue(d) \/ SubmitDrive
BY Mover, Path, ZenonT(60) DEF OnPath, InStep

-----------------------------------------------------------------------------
(* Without subflows.                                                        *)

\* The types of the program counter and of the results.
LEMMA Typed ==
  ASSUME TypeInv
  PROVE  pc \in [Drives -> DrivePoints] /\ res \in [Drives -> Results]
BY Zenon DEF TypeInv, TypeOK, ControlTypes

\* No child is ever waited for.
LEMMA NoSubflowStep ==
  ASSUME ~UsesSubflow, TypeInv, NoSubflow, [Next]_vars
  PROVE  NoSubflow'
<1>1. CASE UNCHANGED subflowVars
  BY <1>1, ZenonT(60) DEF NoSubflow
<1>2. ASSUME NEW d \in Drives, StartSubflow(d) PROVE FALSE
  BY <1>2, ZenonT(60) DEF StartSubflow, UsesSubflow, TypeInv, Position, InStep
<1>3. ASSUME NEW d \in Drives, CheckSubflow(d) \/ ContinueSubflow(d) \/ Deliver(d)
      PROVE  NoSubflow'
  BY <1>3, ZenonT(60) DEF CheckSubflow, ContinueSubflow, Deliver, JoinSubflow,
  NoSubflow
<1>4. ASSUME NEW c \in children, NEW out \in {"ok", "fail"}, ChildComplete(c, out)
      PROVE  NoSubflow'
  BY <1>4, ZenonT(60) DEF ChildComplete, NoSubflow
<1> QED
  BY <1>1, <1>2, <1>3, <1>4, SubflowFrame, ZenonT(60) DEF ChildStep

\* An execution stays open until a drive reports.
LEMMA OpenStep ==
  ASSUME Open, [Next]_vars, \A d \in Drives : ~Deliver(d)
  PROVE  Open'
<1>1. CASE UNCHANGED <<callerVars, callbackVars, delivered>>
  BY <1>1, ZenonT(60) DEF Open
<1>2. CASE CallerStep
  BY <1>2, ZenonT(60) DEF CallerStep, ExecuteAsync, InstallDrive, SubmitDrive,
  SubmitRejected, Open
<1> QED
  BY <1>1, <1>2, CallFrame, ZenonT(60)

\* An attempt is published, and its lease taken, past the head of the loop.
LEMMA Published ==
  ASSUME [Next]_vars, (async_pending' \/ async_lease'), ~(async_pending \/ async_lease)
  PROVE  \E d \in Drives : StartAttempt(d)
<1>1. CASE UNCHANGED asyncVars
  BY <1>1, ZenonT(60)
<1>2. ASSUME NEW d \in Drives, TopError(d) \/ TopContinue(d) PROVE FALSE
  BY <1>2, ZenonT(60) DEF TopError, TopContinue, TakeRetry
<1>3. ASSUME NEW d \in Drives, LeaseDenied(d) \/ ArmTimeout(d) \/ ConsumeRetry(d)
                                 \/ ConsumeFinish(d) \/ Deliver(d)
      PROVE  FALSE
  BY <1>3, ZenonT(60) DEF LeaseDenied, ArmTimeout, ConsumeRetry, ConsumeFinish,
  Deliver
<1>4. ASSUME NEW op \in ops, NEW out \in Outcomes, HostComplete(op, out)
      PROVE  FALSE
  BY <1>4, ZenonT(60) DEF HostComplete
<1>5. ASSUME NEW t \in firing, TimerFire(t)
      PROVE  FALSE
  BY <1>5, ZenonT(60) DEF TimerFire
<1> QED
  BY <1>1, <1>2, <1>3, <1>4, <1>5, AsyncFrame, ZenonT(60) DEF HostStep

\* Between two executions no attempt is pending and no lease is held.
LEMMA QuietStep ==
  ASSUME TypeInv, Quiet, Inside, [Next]_vars
  PROVE  Quiet'
<1> SUFFICES ASSUME ~Open' PROVE ~async_pending' /\ ~async_lease'
  BY ZenonT(60) DEF Quiet
<1>1. CASE \E d \in Drives : Deliver(d)
  BY <1>1, ZenonT(60) DEF Deliver
<1>2. CASE ~ \E d \in Drives : Deliver(d)
  <2>1. ~Open
    BY <1>2, OpenStep, ZenonT(60)
  <2>2. ~ \E d \in Drives : StartAttempt(d)
    BY <2>1, ZenonT(60) DEF StartAttempt, StartsAttempt, Inside, Past, InStep
  <2> QED
    BY <2>1, <2>2, Published, ZenonT(60) DEF Quiet
<1> QED
  BY <1>1, <1>2, ZenonT(60)

\* Nothing is started while a drive reports, nor between two executions.
LEMMA InsideStep ==
  ASSUME ~UsesSubflow, TypeInv, NoSubflow, Quiet, Inside, Alone, [Next]_vars
  PROVE  Inside'
<1> SUFFICES ASSUME NEW d \in Drives, Past(d)'
             PROVE  Open' /\ \A e \in Drives : ~Reporting(e)'
  BY ZenonT(60) DEF Inside
<1>0. pc \in [Drives -> DrivePoints] /\ res \in [Drives -> Results]
  BY Typed
<1>1. Past(d) \/ TopContinue(d) \/ TopFresh(d)
  BY <1>0, Arrivals, ZenonT(60) DEF Past, InStep, StartAttempt, StartsAttempt,
  ArmTimeout, StartSubflow, LaunchSubflow
<1>2. pc[d] \in InStep
  BY <1>1, ZenonT(60) DEF Past, TopContinue, TopFresh, InStep
<1>3. ASSUME TopContinue(d) \/ TopFresh(d)
      PROVE  Open /\ \A e \in Drives : ~Reporting(e)
  <2>1. ~cancelled /\ Active(d) /\ pc[d] = "top"
    BY <1>3, ZenonT(60) DEF TopContinue, TopFresh, Active
  <2> QED
    BY <2>1, ZenonT(60) DEF Alone, Reporting, Active
<1>4. Open /\ \A e \in Drives : ~Reporting(e)
  BY <1>1, <1>3, ZenonT(60) DEF Inside
<1>5. Open'
  BY <1>4, OpenStep, ZenonT(60) DEF Deliver, Reporting
<1>6. ASSUME NEW e \in Drives, Reporting(e)' PROVE FALSE
  <2>1. pc[e] \in InStep \/ EnterStep(e)
    BY <1>0, <1>4, <1>6, Arrivals, ZenonT(60) DEF Reporting
  <2>2. drive_mutex = d /\ d # NoDrive
    BY <1>2, SMTT(30) DEF TypeInv, Mutex, Drives, NoDrive
  <2>3. pc[e] \in InStep
    BY <2>1, <2>2, ZenonT(60) DEF EnterStep
  <2>4. e = d
    BY <2>2, <2>3, ZenonT(60) DEF TypeInv, Mutex
  <2> QED
    BY <1>6, <2>4, ZenonT(60) DEF Past, Reporting, InStep
<1> QED
  BY <1>5, <1>6, ZenonT(60)

\* A cancelled Run stays cancelled.
LEMMA CancelStays ==
  ASSUME cancelled, [Next]_vars
  PROVE  cancelled'
<1>1. ASSUME NEW d \in Drives, RunSync(d) PROVE cancelled'
  BY <1>1, ZenonT(60) DEF RunSync
<1>2. ASSUME NEW c \in Cancellers, CancelStep(c) PROVE cancelled'
  BY <1>2, ZenonT(60) DEF CancelStep, CancelFlag, CancelCopy, CancelAttempt,
  CancelSubflow, CancelWake
<1> QED
  BY <1>1, <1>2, CancelFrame, ZenonT(60)

\* Before a cancel a drive is made when no other is under way.
LEMMA Newcomer ==
  ASSUME TypeInv, CancelInv, NoSubflow, Quiet, Alone, ~cancelled, [Next]_vars,
         NEW d \in Drives, ~Active(d), Active(d)'
  PROVE  /\ pc[d] = "idle"
         /\ \/ SubmitDrive /\ pc'[d] = "queued"
            \/ AttemptWakes /\ pc'[d] = "held"
         /\ \A e \in Drives : ~Active(e)
<1>0. pc \in [Drives -> DrivePoints] /\ res \in [Drives -> Results]
  BY Typed
<1>1. ~CancelWakes /\ ~ChildWakes
  BY ZenonT(60) DEF CancelWakes, ChildWakes, CancelInv, NoSubflow
<1>2. ~DriveStep(d)
  <2>1. ASSUME PostSubflow(d) PROVE pc'[d] = "idle"
    BY <1>0, <2>1, ZenonT(60) DEF PostSubflow, Retire, NoSubflow
  <2>2. pc[d] \in {"idle", "post2"} /\ pc'[d] \notin {"idle", "post2"}
    BY ZenonT(60) DEF Active
  <2> QED
    BY <1>0, <2>1, <2>2, Path, ZenonT(60) DEF OnPath, InStep
<1>3. /\ pc[d] = "idle"
      /\ \/ SubmitDrive /\ pc'[d] = "queued"
         \/ AttemptWakes /\ pc'[d] = "held"
  BY <1>0, <1>1, <1>2, Mover, ZenonT(60) DEF Active
<1>4. ASSUME SubmitDrive, NEW e \in Drives PROVE ~Active(e)
  BY <1>4, ZenonT(60) DEF SubmitDrive, Alone, Open
<1>5. ASSUME AttemptWakes, NEW e \in Drives, Active(e) PROVE FALSE
  <2>1. pc[e] \in {"held", "queued"} \/ pc[e] \in InStep \cup {"enter", "post"}
    BY <1>0, <1>5, ZenonT(60) DEF Active, DrivePoints, InStep
  <2> QED
    BY <1>5, <2>1, ZenonT(60) DEF AttemptWakes, Alone
<1> QED
  BY <1>3, <1>4, <1>5, ZenonT(60)

\* An attempt begins to be waited for by a step of a drive inside execute_step.
LEMMA WaitsBegin ==
  ASSUME [Next]_vars, async_pending' /\ ~async_ready', ~(async_pending /\ ~async_ready)
  PROVE  \E d \in Drives : StartAttempt(d) \/ ConsumeRetry(d)
<1>1. CASE UNCHANGED asyncVars
  BY <1>1, ZenonT(60)
<1>2. ASSUME NEW d \in Drives, TopError(d) \/ TopContinue(d) PROVE FALSE
  BY <1>2, ZenonT(60) DEF TopError, TopContinue, TakeRetry
<1>3. ASSUME NEW d \in Drives, LeaseDenied(d) \/ ArmTimeout(d)
                                 \/ ConsumeFinish(d) \/ Deliver(d)
      PROVE  FALSE
  BY <1>3, ZenonT(60) DEF LeaseDenied, ArmTimeout, ConsumeFinish, Deliver
<1>4. ASSUME NEW op \in ops, NEW out \in Outcomes, HostComplete(op, out)
      PROVE  FALSE
  BY <1>4, ZenonT(60) DEF HostComplete
<1>5. ASSUME NEW t \in firing, TimerFire(t)
      PROVE  FALSE
  BY <1>5, ZenonT(60) DEF TimerFire
<1> QED
  BY <1>1, <1>2, <1>3, <1>4, <1>5, AsyncFrame, ZenonT(60) DEF HostStep

\* driving is reset at the end of a drive only.
LEMMA DrivingEnds ==
  ASSUME [Next]_vars, driving, ~driving'
  PROVE  \E d \in Drives : PostPending(d) \/ DeliverNothing(d) \/ Deliver(d)
<1>1. CASE CallerStep
  BY <1>1, ZenonT(60) DEF CallerStep, ExecuteAsync, InstallDrive, SubmitDrive,
  SubmitRejected
<1>2. ASSUME NEW d \in Drives, DriveStep(d)
       PROVE  PostPending(d) \/ DeliverNothing(d) \/ Deliver(d)
  BY <1>2, ZenonT(60) DEF DriveStep, Enqueue, EnqueueRejected, DriveStart,
  EnterStep,
  TopCancelled, TopPending, TopError, TopContinue, TopFresh, LeaseDenied,
  StartAttempt, ArmTimeout, Invoke, ConsumeRetry, ConsumeFinish,
  StartSubflow, LaunchSubflow, CheckSubflow, ContinueSubflow, NotDispatched,
  RunSync, SuspendHuman, ResumeHuman, RecordQuota, Record, PostSubflow
<1>3. CASE HostStep \/ ChildStep \/ TimerStep
  BY <1>3, ZenonT(60) DEF HostStep, HostComplete, ChildStep, ChildComplete,
  TimerStep,
  TimerPop, TimerFire
<1>4. ASSUME NEW c \in Cancellers, CancelStep(c) PROVE FALSE
  BY <1>4, ZenonT(60) DEF CancelStep, CancelFlag, CancelCopy, CancelAttempt,
  CancelSubflow, CancelWake
<1>5. CASE UNCHANGED vars
  BY <1>5, ZenonT(60) DEF vars
<1> QED
  BY <1>1, <1>2, <1>3, <1>4, <1>5, ZenonT(60) DEF Next

\* Before a cancel one drive at most is under way.
LEMMA AloneStep ==
  ASSUME TypeInv, CancelInv, NoSubflow, Quiet, Alone, [Next]_vars
  PROVE  Alone'
<1> SUFFICES ASSUME ~cancelled'
             PROVE  /\ \A d, e \in Drives : Active(d)' /\ Active(e)' => d = e
                    /\ \A d \in Drives : Active(d)' => Open'
                    /\ \A d \in Drives :
                         pc'[d] \in {"held", "queued"} =>
                           ~(async_pending' /\ ~async_ready')
                    /\ \A d \in Drives :
                         pc'[d] \in InStep \cup {"enter", "post"} => driving'
                    /\ caller' # "out" => run_completion' # 0 /\ ~callback_delivered'
  BY ZenonT(60) DEF Alone
<1>0. pc \in [Drives -> DrivePoints] /\ res \in [Drives -> Results] /\ ~cancelled
  BY Typed, CancelStays, ZenonT(60)
<1>1. ASSUME NEW d \in Drives, NEW e \in Drives, Active(d)', Active(e)', d # e
      PROVE  FALSE
  <2>1. ASSUME NEW x \in Drives, NEW y \in Drives, Active(x)', Active(y)', x # y,
               pc'[y] = pc[y]
        PROVE  FALSE
    <3>1. Active(y)
      BY <2>1, ZenonT(60) DEF Active
    <3>2. ~Active(x)
      BY <1>0, <2>1, <3>1, ZenonT(60) DEF Alone
    <3> QED
      BY <1>0, <2>1, <3>1, <3>2, Newcomer, ZenonT(60)
  <2>2. pc'[d] = pc[d] \/ pc'[e] = pc[e]
    BY <1>0, <1>1, OneMoves, ZenonT(60)
  <2> QED
    BY <1>1, <2>1, <2>2, ZenonT(60)
<1>2. ASSUME NEW d \in Drives, Active(d)' PROVE Open'
  <2>1. ASSUME NEW x \in Drives, Deliver(x) PROVE Active(x) /\ pc'[x] = "idle"
    BY <1>0, <2>1, ZenonT(60) DEF Deliver, Retire, Active
  <2>2. CASE Active(d)
    <3>1. \A x \in Drives : ~Deliver(x)
      BY <1>0, <1>2, <2>1, <2>2, ZenonT(60) DEF Alone, Active
    <3>2. Open
      BY <1>0, <2>2, ZenonT(60) DEF Alone
    <3> QED
      BY <3>1, <3>2, OpenStep, ZenonT(60)
  <2>3. CASE ~Active(d)
    <3>1. (SubmitDrive \/ AttemptWakes) /\ \A e \in Drives : ~Active(e)
      BY <1>0, <1>2, <2>3, Newcomer, ZenonT(60)
    <3>2. CASE SubmitDrive
      BY <1>0, <3>2, ZenonT(60) DEF SubmitDrive, Alone, Open
    <3>3. CASE AttemptWakes
      <4>1. Open
        BY <3>3, ZenonT(60) DEF AttemptWakes, Quiet
      <4> QED
        BY <2>1, <3>1, <4>1, OpenStep, ZenonT(60)
    <3> QED
      BY <3>1, <3>2, <3>3, ZenonT(60)
  <2> QED
    BY <2>2, <2>3, ZenonT(60)
<1>3. ASSUME NEW d \in Drives, pc'[d] \in {"held", "queued"},
             async_pending', ~async_ready'
      PROVE  FALSE
  <2>1. CASE async_pending /\ ~async_ready
    <3>1. pc[d] \notin {"held", "queued"}
      BY <1>0, <2>1, ZenonT(60) DEF Alone
    <3>2. ~SubmitDrive
      BY <2>1, ZenonT(60) DEF SubmitDrive, Quiet, Open
    <3>3. ~CancelWakes /\ ~ChildWakes /\ ~AttemptWakes
      BY <1>0, <1>3, ZenonT(60) DEF CancelWakes, ChildWakes, AttemptWakes,
      CancelInv, NoSubflow
    <3>4. ~Enqueue(d)
      BY <3>1, ZenonT(60) DEF Enqueue
    <3>5. PostPending(d) \/ PostSubflow(d)
      BY <1>0, <1>3, <3>1, <3>2, <3>3, <3>4, Arrivals, ZenonT(60)
    <3>6. pc'[d] \in {"post2", "idle"}
      BY <1>0, <2>1, <3>5, ZenonT(60) DEF PostPending, PostSubflow, Retire,
      NoSubflow
    <3> QED
      BY <1>3, <3>6, ZenonT(60)
  <2>2. CASE ~(async_pending /\ ~async_ready)
    <3>1. PICK x \in Drives : StartAttempt(x) \/ ConsumeRetry(x)
      BY <1>3, <2>2, WaitsBegin, ZenonT(60)
    <3>2. pc'[x] \in {"arm", "post"}
      BY <1>0, <3>1, ZenonT(60) DEF StartAttempt, ConsumeRetry, Goto, Return
    <3>3. Active(x)' /\ Active(d)'
      BY <1>3, <3>2, ZenonT(60) DEF Active
    <3>4. x = d
      BY <1>1, <3>3, ZenonT(60)
    <3> QED
      BY <1>3, <3>2, <3>4, ZenonT(60)
  <2> QED
    BY <2>1, <2>2, ZenonT(60)
<1>4. ASSUME NEW d \in Drives, pc'[d] \in InStep \cup {"enter", "post"}, ~driving'
      PROVE  FALSE
  <2>1. CASE driving
    <3>1. PICK x \in Drives : PostPending(x) \/ DeliverNothing(x) \/ Deliver(x)
      BY <1>4, <2>1, DrivingEnds, ZenonT(60)
    <3>2. pc[x] = "post" /\ pc'[x] \in {"held", "post2", "idle"}
      BY <1>0, <3>1, ZenonT(60) DEF PostPending, Resubmit, DeliverNothing,
      Deliver, Retire
    <3>3. d # x
      BY <1>4, <3>2, ZenonT(60) DEF InStep
    <3>4. pc'[d] = pc[d]
      BY <1>0, <3>1, <3>3, OthersStay, ZenonT(60) DEF DriveStep
    <3>5. Active(d) /\ Active(x)
      BY <1>4, <3>2, <3>4, ZenonT(60) DEF Active, InStep
    <3> QED
      BY <1>0, <3>3, <3>5, ZenonT(60) DEF Alone
  <2>2. CASE ~driving
    <3>1. pc[d] \notin InStep \cup {"enter", "post"}
      BY <1>0, <2>2, ZenonT(60) DEF Alone
    <3>2. ~DriveStart(d)
      BY <1>4, ZenonT(60) DEF DriveStart
    <3>3. pc'[d] \in {"idle", "held", "queued", "post2"}
      BY <1>0, <1>4, <3>1, <3>2, Mover, Path, ZenonT(60) DEF OnPath, InStep
    <3> QED
      BY <1>4, <3>3, ZenonT(60) DEF InStep
  <2> QED
    BY <2>1, <2>2, ZenonT(60)
<1>5. ASSUME caller' # "out" PROVE run_completion' # 0 /\ ~callback_delivered'
  <2>1. CASE UNCHANGED <<callerVars, callbackVars, delivered>>
    BY <1>0, <1>5, <2>1, ZenonT(60) DEF Alone
  <2>2. CASE ExecuteAsync
    <3>1. executes + 1 # 0
      BY SMTT(30) DEF TypeInv, TypeOK, CallTypes
    <3> QED
      BY <2>2, <3>1, ZenonT(60) DEF ExecuteAsync
  <2>3. CASE InstallDrive
    BY <1>0, <2>3, ZenonT(60) DEF InstallDrive, Alone
  <2>4. CASE SubmitDrive \/ SubmitRejected
    BY <1>5, <2>4, ZenonT(60) DEF SubmitDrive, SubmitRejected
  <2>5. ASSUME NEW d \in Drives, Deliver(d) PROVE FALSE
    <3>1. Active(d) /\ caller # "out"
      BY <1>5, <2>5, ZenonT(60) DEF Deliver, Active
    <3> QED
      BY <1>0, <3>1, ZenonT(60) DEF Alone, Open
  <2> QED
    BY <2>1, <2>2, <2>3, <2>4, <2>5, CallFrame, ZenonT(60) DEF CallerStep
<1> QED
  BY <1>1, <1>2, <1>3, <1>4, <1>5, ZenonT(60)

\* SoloInv is inductive, on top of Inv.
LEMMA SoloStep == Inv /\ SoloInv /\ [Next]_vars => SoloInv'
<1> SUFFICES ASSUME Inv, SoloInv, [Next]_vars, ~UsesSubflow
             PROVE  NoSubflow' /\ Quiet' /\ Inside' /\ Alone'
  BY Zenon DEF SoloInv
<1>1. TypeInv /\ CancelInv /\ NoSubflow /\ Quiet /\ Inside /\ Alone
  BY Zenon DEF Inv, SoloInv
<1> QED
  BY <1>1, NoSubflowStep, QuietStep, InsideStep, AloneStep, Zenon

\* Before the first execution no drive exists.
LEMMA SoloInit == Init => SoloInv
BY ZenonT(60) DEF Init, SoloInv, NoSubflow, Quiet, Inside, Alone, Past, Reporting,
   Active, InStep

\* Both inductive invariants hold throughout.
LEMMA SoloInvariant == Spec => [](Inv /\ SoloInv)
<1>1. Init => Inv /\ SoloInv
  BY InvInit, SoloInit, Zenon
<1>2. (Inv /\ SoloInv) /\ [Next]_vars => (Inv /\ SoloInv)'
  BY InvStep, SoloStep, Zenon
<1> QED
  BY <1>1, <1>2, PTL DEF Spec

\* Without subflows and before a cancel, a Run is never driven twice at a time.
THEOREM OneDriveAtATime == Spec => []SingleDriver
<1>1. Inv /\ SoloInv => SingleDriver
  BY Zenon DEF SoloInv, Alone, Active, SingleDriver, Live
<1> QED
  BY <1>1, SoloInvariant, PTL

\* Without subflows, the lease of an attempt is back when the result of the
\* Run is reported, and none is taken until the next execution.
THEOREM LeasesAreReturned == Spec => []NoLeaseLeak
<1>1. Inv /\ SoloInv => NoLeaseLeak
  BY Zenon DEF SoloInv, Quiet, Open, NoLeaseLeak
<1> QED
  BY <1>1, SoloInvariant, PTL

\* Only the call of an executor makes an operation.
LEMMA OpsGrow ==
  ASSUME [Next]_vars, \A d \in Drives : ~Invoke(d)
  PROVE  ops' \subseteq ops
<1>1. CASE UNCHANGED worldVars
  BY <1>1, Zenon
<1>2. ASSUME NEW d \in Drives,
             ArmTimeout(d) \/ ConsumeRetry(d) \/ LaunchSubflow(d) \/ Deliver(d)
      PROVE  ops' \subseteq ops
  BY <1>2, ZenonT(60) DEF ArmTimeout, ConsumeRetry, LaunchSubflow, Deliver
<1>3. CASE HostStep \/ ChildStep
  BY <1>3, ZenonT(60) DEF HostStep, HostComplete, ChildStep, ChildComplete
<1>4. CASE TimerStep
  BY <1>4, ZenonT(60) DEF TimerStep, TimerPop, TimerFire
<1>5. ASSUME NEW c \in Cancellers, CancelAttempt(c) \/ CancelSubflow(c)
      PROVE  ops' \subseteq ops
  BY <1>5, ZenonT(60) DEF CancelAttempt, CancelSubflow
<1> QED
  BY <1>1, <1>2, <1>3, <1>4, <1>5, WorldFrame, ZenonT(60) DEF TimerStep

\* Without subflows, no executor is called once the result was reported.
THEOREM NothingStartsLate == Spec => NoStartAfterDelivery
<1>1. ASSUME Inv /\ SoloInv, [Next]_vars
      PROVE  [~UsesSubflow /\ callback_delivered => ops' \subseteq ops]_vars
  <2> SUFFICES ASSUME ~UsesSubflow, callback_delivered PROVE ops' \subseteq ops
    BY Zenon
  <2>1. \A d \in Drives : ~Invoke(d)
    BY <1>1, ZenonT(60) DEF SoloInv, Inside, Past, Open, InStep, Invoke
  <2> QED
    BY <1>1, <2>1, OpsGrow, Zenon
<1> QED
  BY <1>1, SoloInvariant, PTL DEF Spec, NoStartAfterDelivery

-----------------------------------------------------------------------------
(* Every execute_async is answered once.                                    *)

\* The execution under way is the last one.
DeliveredInv == ~callback_delivered => run_completion = executes

\* The callback that is kept is that of the last execution.
LEMMA DeliveredStep == DeliveredInv /\ [Next]_vars => DeliveredInv'
<1> SUFFICES ASSUME DeliveredInv, [Next]_vars PROVE DeliveredInv'
  BY Zenon
<1>1. CASE UNCHANGED <<callerVars, callbackVars, delivered>>
  BY <1>1, Zenon DEF DeliveredInv
<1>2. CASE ExecuteAsync
  BY <1>2, Zenon DEF ExecuteAsync, DeliveredInv
<1>3. CASE InstallDrive \/ SubmitDrive
  BY <1>3, Zenon DEF InstallDrive, SubmitDrive, DeliveredInv
<1>4. CASE SubmitRejected \/ \E d \in Drives : Deliver(d)
  BY <1>4, Zenon DEF SubmitRejected, Deliver, DeliveredInv
<1> QED
  BY <1>1, <1>2, <1>3, <1>4, CallFrame, Zenon DEF CallerStep

\* No step answers an execution a second time.
LEMMA OnceStep ==
  ASSUME TypeInv, SoloInv, DeliveredInv, CallbackOnce, [Next]_vars
  PROVE  CallbackOnce'
<1> DEFINE Answers(e, x, b) == IF e < x \/ (e = x /\ b) THEN 1 ELSE 0
<1> SUFFICES ASSUME ~(MayReject /\ (cancelled' \/ UsesSubflow)),
                    NEW e \in 1..MaxExecutes
             PROVE  delivered'[e] = Answers(e, executes', callback_delivered')
  BY Zenon DEF CallbackOnce
<1>1. ~(MayReject /\ (cancelled \/ UsesSubflow))
  BY CancelStays, Zenon
<1>2. delivered[e] = Answers(e, executes, callback_delivered)
  BY <1>1, Zenon DEF CallbackOnce
<1>3. executes \in Nat /\ delivered \in [1..MaxExecutes -> Nat]
  BY SMTT(30) DEF TypeInv, TypeOK, CallTypes
<1>4. CASE UNCHANGED <<callerVars, callbackVars, delivered>>
  BY <1>2, <1>4, Zenon
<1>5. CASE ExecuteAsync
  <2>1. callback_delivered \/ executes = 0
    BY <1>5, Zenon DEF ExecuteAsync, DeliveredInv
  <2>2. executes' = executes + 1 /\ ~callback_delivered' /\ delivered' = delivered
    BY <1>5, Zenon DEF ExecuteAsync
  <2> QED
    BY <1>2, <1>3, <2>1, <2>2, SMTT(30)
<1>6. CASE InstallDrive \/ SubmitDrive
  <2>1. UNCHANGED <<executes, callback_delivered, delivered>>
    BY <1>6, Zenon DEF InstallDrive, SubmitDrive
  <2> QED
    BY <1>2, <2>1, Zenon
<1>7. CASE SubmitRejected
  <2>1. ~callback_delivered
    BY <1>1, <1>7, Zenon DEF SubmitRejected, SoloInv, Alone
  <2>2. /\ executes' = executes /\ callback_delivered'
        /\ delivered' = [delivered EXCEPT ![executes] = @ + 1]
    BY <1>7, Zenon DEF SubmitRejected
  <2> QED
    BY <1>2, <1>3, <2>1, <2>2, SMTT(30)
<1>8. ASSUME NEW d \in Drives, Deliver(d)
      PROVE  delivered'[e] = Answers(e, executes', callback_delivered')
  <2>1. ~callback_delivered /\ run_completion = executes
    BY <1>8, Zenon DEF Deliver, DeliveredInv
  <2>2. /\ executes' = executes /\ callback_delivered'
        /\ delivered' = [delivered EXCEPT ![run_completion] = @ + 1]
    BY <1>8, Zenon DEF Deliver
  <2> QED
    BY <1>2, <1>3, <2>1, <2>2, SMTT(30)
<1> QED
  BY <1>4, <1>5, <1>6, <1>7, <1>8, CallFrame, Zenon DEF CallerStep

\* Every execute_async before the last one was answered exactly once, and so
\* was the last one if its callback was delivered.
THEOREM AnsweredOnce == Spec => []CallbackOnce
<1> DEFINE OnceInv == DeliveredInv /\ CallbackOnce
<1>1. Init => OnceInv
  BY BoundAssumption, SMTT(30) DEF Init, DeliveredInv, CallbackOnce
<1>2. Inv /\ SoloInv /\ OnceInv /\ [Next]_vars => OnceInv'
  BY DeliveredStep, OnceStep, Zenon DEF Inv
<1> QED
  BY <1>1, <1>2, SoloInvariant, PTL DEF Spec

-----------------------------------------------------------------------------
\* A drive is about to start an attempt or a child; the delay before a retry
\* has elapsed; the timer of that delay is armed or firing.
Starting == \E d \in Drives : pc[d] \in {"fresh", "retry"}
Elapsed == async_pending /\ async_ready /\ async_result.out = "retry_ready"
Delayed == \E t \in armed \cup firing : t.kind = "retry" /\ t.gen = async_generation

Spent == async_generation + subflow_starts + 2 * retry_remaining
Paid == step + 2 * RetryBudget

\* RetryBudgetShared, made inductive: an attempt that is about to be started
\* and one that waits for its delay have been paid for already.
TimerInv ==
    /\ \A t \in armed \cup firing : t.gen <= async_generation
    /\ \A t \in armed \cap firing : t.kind # "retry"
    /\ ~(Elapsed /\ Delayed)
BudgetInv ==
    /\ Spent <= Paid
    /\ Starting => Spent + 1 <= Paid
    /\ Elapsed \/ Delayed => Spent + 1 <= Paid
    /\ Starting /\ (Elapsed \/ Delayed) => Spent + 2 <= Paid

-----------------------------------------------------------------------------
(* Timers.                                                                  *)

\* The types of the counters and of the timers.
LEMMA Counted ==
  ASSUME TypeInv
  PROVE  /\ step \in Nat /\ retry_remaining \in Nat
         /\ async_generation \in Nat /\ subflow_starts \in Nat
         /\ \A t \in armed \cup firing :
              t.gen \in Nat /\ t.kind \in {"timeout", "retry"}
         /\ \A t, u \in armed \cup firing : t.gen = u.gen /\ t.kind = u.kind => t = u
<1>1. armed \cup firing \subseteq Timers
  BY Zenon DEF TypeInv, TypeOK, WorldTypes
<1>2. \A t \in Timers : t.gen \in Nat /\ t.kind \in {"timeout", "retry"}
  BY SMTT(30) DEF Timers
<1>3. \A t, u \in Timers : t.gen = u.gen /\ t.kind = u.kind => t = u
  BY SMTT(30) DEF Timers
<1> QED
  BY <1>1, <1>2, <1>3, Zenon DEF TypeInv, TypeOK, ControlTypes, ContinuationTypes

\* The generation grows by one, when an attempt or a delay begins.
LEMMA GenerationGrows ==
  ASSUME [Next]_vars
  PROVE  \/ UNCHANGED async_generation
         \/ /\ \E d \in Drives : StartAttempt(d) \/ ConsumeRetry(d)
            /\ async_generation' = async_generation + 1
<1>1. ASSUME NEW d \in Drives, TopError(d) \/ TopContinue(d)
      PROVE  UNCHANGED async_generation
  BY <1>1, Zenon DEF TopError, TopContinue, TakeRetry
<1>2. ASSUME NEW d \in Drives, LeaseDenied(d) \/ ArmTimeout(d) \/ ConsumeFinish(d)
                                 \/ Deliver(d)
      PROVE  UNCHANGED async_generation
  BY <1>2, Zenon DEF LeaseDenied, ArmTimeout, ConsumeFinish, Deliver
<1>3. ASSUME NEW d \in Drives, StartAttempt(d) \/ ConsumeRetry(d)
      PROVE  async_generation' = async_generation + 1
  BY <1>3, Zenon DEF StartAttempt, ConsumeRetry
<1>4. CASE HostStep \/ \E t \in firing : TimerFire(t)
  BY <1>4, Zenon DEF HostStep, HostComplete, TimerFire
<1> QED
  BY <1>1, <1>2, <1>3, <1>4, AsyncFrame, Zenon

\* Timers are armed for an attempt and for a delay, and fire after they were
\* popped.
LEMMA TimersFrom ==
  ASSUME [Next]_vars
  PROVE  /\ \A t \in armed' : \/ t \in armed
                              \/ /\ \E d \in Drives : ArmTimeout(d)
                                 /\ t = [gen |-> async_generation, kind |-> "timeout"]
                              \/ /\ \E d \in Drives : ConsumeRetry(d)
                                 /\ t = [gen |-> async_generation + 1, kind |-> "retry"]
         /\ \A t \in firing' : t \in firing \/ (t \in armed /\ TimerPop(t))
<1>1. CASE UNCHANGED worldVars
  BY <1>1, Zenon
<1>2. ASSUME NEW d \in Drives, Invoke(d) \/ LaunchSubflow(d) \/ Deliver(d)
      PROVE  armed' \subseteq armed /\ firing' = firing
  BY <1>2, Zenon DEF Invoke, LaunchSubflow, Deliver
<1>3. ASSUME NEW d \in Drives, ArmTimeout(d)
      PROVE  /\ armed' \subseteq
                  armed \cup {[gen |-> async_generation, kind |-> "timeout"]}
             /\ firing' = firing
  BY <1>3, Zenon DEF ArmTimeout
<1>4. ASSUME NEW d \in Drives, ConsumeRetry(d)
      PROVE  /\ armed' = armed \cup {[gen |-> async_generation + 1, kind |-> "retry"]}
             /\ firing' = firing
  BY <1>4, Zenon DEF ConsumeRetry
<1>5. ASSUME NEW op \in ops, NEW out \in Outcomes, HostComplete(op, out)
      PROVE  armed' \subseteq armed /\ firing' = firing
  BY <1>5, Zenon DEF HostComplete
<1>6. CASE ChildStep
  BY <1>6, Zenon DEF ChildStep, ChildComplete
<1>7. ASSUME NEW t \in armed, TimerPop(t)
      PROVE  armed' \subseteq armed /\ firing' = {t}
  BY <1>7, Zenon DEF TimerPop
<1>8. ASSUME NEW t \in firing, TimerFire(t)
      PROVE  armed' = armed /\ firing' = {}
  BY <1>8, Zenon DEF TimerFire
<1>9. ASSUME NEW c \in Cancellers, CancelAttempt(c) \/ CancelSubflow(c)
      PROVE  armed' \subseteq armed /\ firing' = firing
  BY <1>9, Zenon DEF CancelAttempt, CancelSubflow
<1> QED
  BY <1>1, <1>2, <1>3, <1>4, <1>5, <1>6, <1>7, <1>8, <1>9, WorldFrame, ZenonT(60)
  DEF HostStep

\* A delay elapses when its timer fires.
LEMMA ElapsedFrom ==
  ASSUME TypeInv, [Next]_vars, Elapsed', ~Elapsed
  PROVE  \E t \in firing : TimerFire(t) /\ t.kind = "retry" /\ t.gen = async_generation
<1>1. CASE UNCHANGED asyncVars
  BY <1>1, Zenon DEF Elapsed
<1>2. ASSUME NEW d \in Drives, TopError(d) \/ TopContinue(d)
      PROVE  FALSE
  BY <1>2, Zenon DEF TopError, TopContinue, TakeRetry, Elapsed
<1>3. ASSUME NEW d \in Drives, LeaseDenied(d) \/ ArmTimeout(d) \/ ConsumeFinish(d)
                                 \/ Deliver(d) \/ StartAttempt(d) \/ ConsumeRetry(d)
      PROVE  FALSE
  BY <1>3, Zenon DEF LeaseDenied, ArmTimeout, ConsumeFinish, Deliver, StartAttempt,
  ConsumeRetry, Elapsed
<1>4. ASSUME NEW op \in ops, NEW out \in Outcomes, HostComplete(op, out)
      PROVE  FALSE
  <2>1. CASE Accepts(op.gen)
    <3>1. async_result' = [gen |-> op.gen, out |-> out]
      BY <1>4, <2>1, Zenon DEF HostComplete
    <3> QED
      BY <3>1, SMTT(30) DEF Elapsed, Outcomes
  <2>2. CASE ~Accepts(op.gen)
    BY <1>4, <2>2, Zenon DEF HostComplete, Elapsed
  <2> QED
    BY <2>1, <2>2, Zenon
<1>5. ASSUME NEW t \in firing, TimerFire(t)
      PROVE  t.kind = "retry" /\ t.gen = async_generation
  <2>1. CASE Accepts(t.gen)
    <3>1. /\ t.kind \in {"timeout", "retry"}
          /\ async_result' = [gen |-> t.gen, out |->
                   IF t.kind = "timeout" THEN "timeout" ELSE "retry_ready"]
      BY <1>5, <2>1, Counted, Zenon DEF TimerFire, Timers
    <3> QED
      BY <2>1, <3>1, SMTT(30) DEF Elapsed, Accepts
  <2>2. CASE ~Accepts(t.gen)
    BY <1>5, <2>2, Zenon DEF TimerFire, Elapsed
  <2> QED
    BY <2>1, <2>2, Zenon
<1> QED
  BY <1>1, <1>2, <1>3, <1>4, <1>5, AsyncFrame, Zenon DEF HostStep

\* A delay that is waited for was waited for before, or begins.
LEMMA DelayedFrom ==
  ASSUME TypeInv, TimerInv, [Next]_vars, Delayed'
  PROVE  \/ Delayed /\ UNCHANGED async_generation
         \/ \E d \in Drives : ConsumeRetry(d)
<1> SUFFICES ASSUME ~ \E d \in Drives : ConsumeRetry(d)
             PROVE  Delayed /\ UNCHANGED async_generation
  BY Zenon
<1>1. PICK t \in armed' \cup firing' : t.kind = "retry" /\ t.gen = async_generation'
  BY Zenon DEF Delayed
<1>2. t \in armed \cup firing
  <2>1. ASSUME t = [gen |-> async_generation, kind |-> "timeout"] PROVE FALSE
    BY <1>1, <2>1, SMTT(30)
  <2> QED
    BY <1>1, <2>1, TimersFrom, Zenon
<1>3. t.gen <= async_generation /\ t.gen \in Nat
  BY <1>2, Counted, Zenon DEF TimerInv
<1>4. async_generation' = async_generation \/ async_generation' = async_generation + 1
  BY GenerationGrows, Zenon
<1>5. UNCHANGED async_generation
  BY <1>1, <1>3, <1>4, Counted, SMTT(30)
<1> QED
  BY <1>1, <1>2, <1>5, Zenon DEF Delayed

\* The generation of a timer was handed out, and no delay is waited for twice.
LEMMA TimersStep ==
  ASSUME TypeInv, TimerInv, [Next]_vars
  PROVE  TimerInv'
<1>1. ASSUME NEW t \in armed' \cup firing' PROVE t.gen <= async_generation'
  <2>0. async_generation' = async_generation \/ async_generation' = async_generation + 1
    BY GenerationGrows, Zenon
  <2>1. CASE t \in armed \cup firing
    BY <2>0, <2>1, Counted, SMTT(30) DEF TimerInv
  <2>2. CASE t = [gen |-> async_generation, kind |-> "timeout"]
    BY <2>0, <2>2, Counted, SMTT(30)
  <2>3. CASE /\ \E d \in Drives : ConsumeRetry(d)
             /\ t = [gen |-> async_generation + 1, kind |-> "retry"]
    <3>1. async_generation' = async_generation + 1
      BY <2>3, Zenon DEF ConsumeRetry
    <3> QED
      BY <2>3, <3>1, Counted, SMTT(30)
  <2> QED
    BY <2>1, <2>2, <2>3, TimersFrom, Zenon
<1>2. ASSUME NEW t \in armed' \cap firing', t.kind = "retry" PROVE FALSE
  <2>1. CASE t \in firing
    <3>1. t \notin armed
      BY <1>2, <2>1, Zenon DEF TimerInv
    <3>2. ASSUME t = [gen |-> async_generation, kind |-> "timeout"] PROVE FALSE
      BY <1>2, <3>2, SMTT(30)
    <3>3. ASSUME t = [gen |-> async_generation + 1, kind |-> "retry"] PROVE FALSE
      <4>1. t.gen <= async_generation
        BY <2>1, Zenon DEF TimerInv
      <4> QED
        BY <3>3, <4>1, Counted, SMTT(30)
    <3> QED
      BY <1>2, <3>1, <3>2, <3>3, TimersFrom, Zenon
  <2>2. CASE t \in armed /\ TimerPop(t)
    BY <1>2, <2>2, Zenon DEF TimerPop
  <2> QED
    BY <1>2, <2>1, <2>2, TimersFrom, Zenon
<1>3. ASSUME Elapsed', Delayed' PROVE FALSE
  <2>1. ASSUME NEW d \in Drives, ConsumeRetry(d) PROVE FALSE
    BY <1>3, <2>1, Zenon DEF ConsumeRetry, Elapsed
  <2>2. Delayed /\ UNCHANGED async_generation
    BY <1>3, <2>1, DelayedFrom, Zenon
  <2>3. PICK t \in firing : TimerFire(t) /\ t.kind = "retry" /\ t.gen = async_generation
    BY <1>3, <2>2, ElapsedFrom, Zenon DEF TimerInv
  <2>4. armed' = armed /\ firing' = {}
    BY <2>3, Zenon DEF TimerFire
  <2>5. PICK u \in armed : u.kind = "retry" /\ u.gen = async_generation
    BY <1>3, <2>2, <2>4, Zenon DEF Delayed
  <2>6. t = u
    BY <2>3, <2>5, Counted, Zenon
  <2> QED
    BY <2>3, <2>5, <2>6, Zenon DEF TimerInv
<1> QED
  BY <1>1, <1>2, <1>3, Zenon DEF TimerInv

-----------------------------------------------------------------------------
(* The budget.                                                              *)

\* Who counts steps, attempts, children and retries.
LEMMA CounterFrame ==
  ASSUME [Next]_vars
  PROVE  \/ UNCHANGED <<step, retry_remaining, async_generation, subflow_starts>>
         \/ \E d \in Drives :
              TopError(d) \/ TopFresh(d) \/ StartAttempt(d) \/ ConsumeRetry(d) \/
              ConsumeFinish(d) \/ StartSubflow(d) \/ RunSync(d)
<1> DEFINE Same ==
      UNCHANGED <<step, retry_remaining, async_generation, subflow_starts>>
<1>1. ASSUME CallerStep PROVE Same
  BY <1>1, Zenon DEF CallerStep, ExecuteAsync, InstallDrive, SubmitDrive,
  SubmitRejected
<1>2. ASSUME NEW d \in Drives, DriveStep(d)
      PROVE  Same \/ TopError(d) \/ TopFresh(d) \/ StartAttempt(d) \/
             ConsumeRetry(d) \/ ConsumeFinish(d) \/ StartSubflow(d) \/ RunSync(d)
  BY <1>2, ZenonT(60) DEF DriveStep, Enqueue, EnqueueRejected, DriveStart, EnterStep,
  TopCancelled, TopPending, TopContinue, TakeRetry, LeaseDenied, ArmTimeout, Invoke,
  LaunchSubflow, CheckSubflow, ContinueSubflow, JoinSubflow, NotDispatched,
  SuspendHuman, ResumeHuman, RecordQuota, Record, PostPending, PostSubflow,
  DeliverNothing, Deliver
<1>3. ASSUME NEW op \in ops, NEW out \in Outcomes, HostComplete(op, out) PROVE Same
  BY <1>3, Zenon DEF HostComplete
<1>4. ASSUME NEW c \in children, NEW out \in {"ok", "fail"}, ChildComplete(c, out)
      PROVE  Same
  BY <1>4, Zenon DEF ChildComplete
<1>5. ASSUME TimerStep PROVE Same
  BY <1>5, Zenon DEF TimerStep, TimerPop, TimerFire
<1>6. ASSUME NEW c \in Cancellers, CancelStep(c) PROVE Same
  BY <1>6, Zenon DEF CancelStep, CancelFlag, CancelCopy, CancelAttempt,
  CancelSubflow, CancelWake
<1>7. CASE UNCHANGED vars
  BY <1>7, Zenon DEF vars
<1> QED
  BY <1>1, <1>2, <1>3, <1>4, <1>5, <1>6, <1>7, ZenonT(60) DEF Next, HostStep, ChildStep

\* A drive in execute_step that goes on to something else leaves nobody who is
\* about to start an attempt or a child.
LEMMA NoneStarts ==
  ASSUME TypeInv, NEW d \in Drives, DriveStep(d), pc[d] \in InStep,
         pc'[d] \notin {"fresh", "retry"}
  PROVE  ~Starting'
<1>1. pc \in [Drives -> DrivePoints] /\ res \in [Drives -> Results]
  BY Typed, Zenon
<1>2. \A e \in Drives : e # d => pc'[e] = pc[e]
  BY <1>1, OthersStay, Zenon
<1>3. \A e \in Drives : e # d => pc[e] \notin {"fresh", "retry"}
  BY Zenon DEF TypeInv, Mutex, InStep
<1> QED
  BY <1>2, <1>3, Zenon DEF Starting

\* Nobody is about to start an attempt unless it is fresh or its delay elapsed.
LEMMA StartingFrom ==
  ASSUME TypeInv, [Next]_vars, Starting', ~Starting
  PROVE  \E d \in Drives : TopFresh(d) \/ (TopContinue(d) /\ Elapsed /\ ~Elapsed')
<1>1. PICK d \in Drives : pc'[d] \in {"fresh", "retry"}
  BY Zenon DEF Starting
<1>2. pc[d] \notin {"fresh", "retry"}
  BY Zenon DEF Starting
<1>3. TopFresh(d) \/ TopContinue(d)
  BY <1>1, <1>2, Typed, Arrivals, Zenon
<1>4. ASSUME TopContinue(d) PROVE Elapsed /\ ~Elapsed'
  <2>1. pc'[d] = Continuation
    BY <1>4, Typed, Zenon DEF TopContinue, Goto
  <2>2. Continuation = "retry"
    BY <1>1, <1>4, <2>1, Zenon DEF TopContinue
  <2>3. AsyncHere /\ async_result.out = "retry_ready"
    BY <2>2, SMTT(30) DEF Continuation
  <2> QED
    BY <1>4, <2>2, <2>3, Zenon DEF TopContinue, TakeRetry, Waiting, AsyncHere, Elapsed
<1> QED
  BY <1>3, <1>4, Zenon

\* An attempt that waits for its delay waited before, or begins to.
LEMMA WaitsFrom ==
  ASSUME TypeInv, TimerInv, [Next]_vars, Elapsed' \/ Delayed',
         ~ \E d \in Drives : ConsumeRetry(d)
  PROVE  Elapsed \/ Delayed
BY ElapsedFrom, DelayedFrom, Zenon DEF Delayed

\* Every attempt and every child is paid for by a step or by the retry budget.
LEMMA BudgetStep ==
  ASSUME TypeInv, TypeInv', TimerInv, BudgetInv, [Next]_vars
  PROVE  BudgetInv'
<1> DEFINE Waits == Elapsed \/ Delayed
<1>0. /\ step \in Nat /\ retry_remaining \in Nat
      /\ async_generation \in Nat /\ subflow_starts \in Nat
  BY Counted, Zenon
<1>1. RetryBudget \in Nat
  BY BoundAssumption, Zenon
<1>2. ASSUME ~ \E d \in Drives : ConsumeRetry(d), Waits' PROVE Waits
  BY <1>2, WaitsFrom, Zenon
<1>3. /\ Spent <= Paid /\ (Starting => Spent + 1 <= Paid)
      /\ (Waits => Spent + 1 <= Paid)
      /\ (Starting /\ Waits => Spent + 2 <= Paid)
  BY Zenon DEF BudgetInv
<1> SUFFICES /\ (Spent <= Paid)' /\ (Starting' => (Spent + 1 <= Paid)')
             /\ (Waits' => (Spent + 1 <= Paid)')
             /\ (Starting' /\ Waits' => (Spent + 2 <= Paid)')
  BY Zenon DEF BudgetInv
<1> HIDE DEF Waits
<1>4. ASSUME NEW d \in Drives, TopError(d) \/ ConsumeFinish(d) \/ RunSync(d)
      PROVE  /\ ~Starting' /\ (Waits' => Waits) /\ step' >= step /\ step' \in Nat
             /\ retry_remaining' <= retry_remaining /\ retry_remaining' \in Nat
             /\ UNCHANGED <<async_generation, subflow_starts>>
  <2>1. DriveStep(d) /\ pc[d] \in InStep
    BY <1>4, Zenon DEF DriveStep, TopError, ConsumeFinish, RunSync, InStep
  <2>2. pc'[d] \in {"post", "record"}
    BY <1>4, Typed, Zenon DEF TopError, ConsumeFinish, RunSync, Return, Finish
  <2>3. ~Starting'
    BY <2>1, <2>2, NoneStarts, Zenon
  <2>4. ~ \E e \in Drives : ConsumeRetry(e)
    <3>1. ASSUME NEW e \in Drives, ConsumeRetry(e)
          PROVE  async_generation' # async_generation
      BY <1>0, <3>1, SMTT(30) DEF ConsumeRetry
    <3>2. async_generation' = async_generation
      BY <1>4, Zenon DEF TopError, TakeRetry, ConsumeFinish, RunSync
    <3> QED
      BY <3>1, <3>2, Zenon
  <2>5. Waits' => Waits
    BY <1>2, <2>4, Zenon
  <2>6. UNCHANGED <<async_generation, subflow_starts>>
    BY <1>4, Zenon DEF TopError, TakeRetry, ConsumeFinish, RunSync
  <2>7. step' \in {step, step + 1}
    BY <1>4, Zenon DEF TopError, ConsumeFinish, RunSync
  <2>8. retry_remaining' <= retry_remaining /\ retry_remaining' \in Nat
    <3>1. \/ retry_remaining' = retry_remaining
          \/ retry_remaining > 0 /\ retry_remaining' = retry_remaining - 1
          \/ \E r \in 0..MaxAttempts[current] - 1 :
               r <= retry_remaining /\ retry_remaining' = retry_remaining - r
      BY <1>4, Zenon DEF TopError, ConsumeFinish, RunSync
    <3> QED
      BY ONLY <1>0, <3>1, SMT
  <2> QED
    BY <1>0, <2>3, <2>5, <2>6, <2>7, <2>8, SMTT(30)
<1>5. ASSUME NEW d \in Drives, TopFresh(d)
      PROVE  /\ (Waits' => Waits) /\ step' = step + 1
             /\ UNCHANGED <<retry_remaining, async_generation, subflow_starts>>
  <2>1. /\ step' = step + 1
        /\ UNCHANGED <<retry_remaining, async_generation, subflow_starts>>
    BY <1>5, Zenon DEF TopFresh
  <2>2. ASSUME NEW e \in Drives, ConsumeRetry(e) PROVE FALSE
    <3>1. async_generation' = async_generation + 1
      BY <2>2, Zenon DEF ConsumeRetry
    <3> QED
      BY <1>0, <2>1, <3>1, SMTT(30)
  <2> QED
    BY <1>2, <2>1, <2>2, Zenon
<1>6. ASSUME NEW d \in Drives, StartAttempt(d)
      PROVE  /\ Starting /\ ~Starting' /\ ~Waits'
             /\ async_generation' = async_generation + 1
             /\ UNCHANGED <<step, retry_remaining, subflow_starts>>
  <2>1. DriveStep(d) /\ pc[d] \in InStep /\ pc[d] \in {"fresh", "retry"}
    BY <1>6, Zenon DEF DriveStep, StartAttempt, StartsAttempt, InStep
  <2>2. pc'[d] = "arm"
    BY <1>6, Typed, Zenon DEF StartAttempt, Goto
  <2>3. /\ async_generation' = async_generation + 1
        /\ UNCHANGED <<step, retry_remaining, subflow_starts, armed>>
        /\ async_ready' = FALSE
    BY <1>6, Zenon DEF StartAttempt
  <2>4. ASSUME NEW e \in Drives, ConsumeRetry(e) PROVE FALSE
    BY <2>3, <2>4, <1>0, SMTT(30) DEF ConsumeRetry
  <2>5. ~Delayed'
    <3>1. async_generation' # async_generation
      BY <1>0, <2>3, SMTT(30)
    <3> QED
      BY <2>4, <3>1, DelayedFrom, Zenon
  <2>6. ~Starting'
    BY <2>1, <2>2, NoneStarts, Zenon
  <2>7. Starting
    BY <2>1, Zenon DEF Starting
  <2> QED
    BY <2>3, <2>5, <2>6, <2>7, Zenon DEF Waits, Elapsed
<1>7. ASSUME NEW d \in Drives, ConsumeRetry(d)
      PROVE  /\ ~Starting' /\ async_generation' = async_generation + 1
             /\ retry_remaining' = retry_remaining - 1
             /\ UNCHANGED <<step, subflow_starts>>
  <2>1. DriveStep(d) /\ pc[d] \in InStep
    BY <1>7, Zenon DEF DriveStep, ConsumeRetry, InStep
  <2>2. pc'[d] = "post"
    BY <1>7, Typed, Zenon DEF ConsumeRetry, Return
  <2> QED
    BY <1>7, <2>1, <2>2, NoneStarts, Zenon DEF ConsumeRetry
<1>8. ASSUME NEW d \in Drives, StartSubflow(d)
      PROVE  /\ Starting /\ ~Starting' /\ (Waits' => Waits)
             /\ subflow_starts' = subflow_starts + 1
             /\ UNCHANGED <<step, retry_remaining, async_generation>>
  <2>1. DriveStep(d) /\ pc[d] \in InStep /\ pc[d] \in {"fresh", "retry"}
    BY <1>8, Zenon DEF DriveStep, StartSubflow, InStep
  <2>2. pc'[d] = "launch"
    BY <1>8, Typed, Zenon DEF StartSubflow, Goto
  <2>3. /\ subflow_starts' = subflow_starts + 1
        /\ UNCHANGED <<step, retry_remaining, async_generation>>
    BY <1>8, Zenon DEF StartSubflow
  <2>4. ASSUME NEW e \in Drives, ConsumeRetry(e) PROVE FALSE
    BY <2>3, <2>4, <1>0, SMTT(30) DEF ConsumeRetry
  <2>5. ~Starting'
    BY <2>1, <2>2, NoneStarts, ZenonT(60)
  <2>6. Starting
    BY <2>1, Zenon DEF Starting
  <2> QED
    BY <1>2, <2>3, <2>4, <2>5, <2>6, Zenon
<1>9. CASE UNCHANGED <<step, retry_remaining, async_generation, subflow_starts>>
           /\ ~ \E d \in Drives : TopFresh(d)
  <2>1. ASSUME NEW e \in Drives, ConsumeRetry(e) PROVE FALSE
    BY <1>9, <2>1, <1>0, SMTT(30) DEF ConsumeRetry
  <2>2. Waits' => Waits
    BY <1>2, <2>1, Zenon
  <2>3. ASSUME Starting', ~Starting PROVE Waits /\ ~Waits'
    <3>1. Elapsed /\ ~Elapsed'
      BY <1>9, <2>3, StartingFrom, Zenon
    <3>2. ~Delayed'
      BY <2>1, <3>1, DelayedFrom, Zenon DEF TimerInv
    <3> QED
      BY <3>1, <3>2, Zenon DEF Waits
  <2> QED
    BY ONLY <1>0, <1>1, <1>3, <1>9, <2>2, <2>3, SMTT(30) DEF Spent, Paid
<1>10. CASE \E d \in Drives : TopError(d) \/ ConsumeFinish(d) \/ RunSync(d)
  <2>1. ~Starting' /\ (Waits' => Waits)
    BY <1>4, <1>10, Zenon
  <2>0. /\ step' >= step /\ step' \in Nat
        /\ retry_remaining' <= retry_remaining /\ retry_remaining' \in Nat
        /\ async_generation' = async_generation /\ subflow_starts' = subflow_starts
    BY <1>4, <1>10, Zenon
  <2>2. /\ Spent \in Int /\ Spent' \in Int /\ Paid \in Int /\ Paid' \in Int
        /\ Spent' <= Spent /\ Paid <= Paid'
        /\ Spent + 1 \in Int /\ Spent' + 1 \in Int
    <3>1. \A g, s, r, q \in Nat : q <= r =>
            /\ g + s + 2 * r \in Int /\ g + s + 2 * q \in Int
            /\ g + s + 2 * r + 1 \in Int /\ g + s + 2 * q + 1 \in Int
            /\ g + s + 2 * q <= g + s + 2 * r
      BY ONLY SMT
    <3>2. \A s, t, b \in Nat : s <= t =>
            /\ s + 2 * b \in Int /\ t + 2 * b \in Int /\ s + 2 * b <= t + 2 * b
      BY ONLY SMT
    <3>3. step <= step'
      BY ONLY <1>0, <2>0, SMT
    <3> QED
      BY ONLY <1>0, <1>1, <2>0, <3>1, <3>2, <3>3, Zenon DEF Spent, Paid
  <2>3. \A a, b, c, e \in Int : a <= b /\ c <= a /\ b <= e => c <= e
    BY ONLY SMT
  <2>4. \A a, b, c, e \in Int : a + 1 <= b /\ c <= a /\ b <= e => c + 1 <= e
    BY ONLY SMT
  <2>5. (Spent <= Paid)' /\ (Waits' => (Spent + 1 <= Paid)')
    BY ONLY <1>3, <2>1, <2>2, <2>3, <2>4, Zenon
  <2> QED
    BY ONLY <2>1, <2>5, Zenon
<1>11. CASE \E d \in Drives : TopFresh(d)
  <2>1. /\ (Waits' => Waits) /\ step' = step + 1
        /\ UNCHANGED <<retry_remaining, async_generation, subflow_starts>>
    BY <1>5, <1>11, Zenon
  <2> QED
    BY ONLY <1>0, <1>1, <1>3, <2>1, SMTT(30) DEF Spent, Paid
<1>12. CASE \E d \in Drives : StartAttempt(d)
  <2>1. /\ Starting /\ ~Starting' /\ ~Waits'
        /\ async_generation' = async_generation + 1
        /\ UNCHANGED <<step, retry_remaining, subflow_starts>>
    BY <1>6, <1>12, Zenon
  <2> QED
    BY ONLY <1>0, <1>1, <1>3, <2>1, SMTT(30) DEF Spent, Paid
<1>13. CASE \E d \in Drives : ConsumeRetry(d)
  <2>1. /\ ~Starting' /\ async_generation' = async_generation + 1
        /\ retry_remaining' = retry_remaining - 1
        /\ UNCHANGED <<step, subflow_starts>>
    BY <1>7, <1>13, Zenon
  <2> QED
    BY ONLY <1>0, <1>1, <1>3, <2>1, SMTT(30) DEF Spent, Paid
<1>14. CASE \E d \in Drives : StartSubflow(d)
  <2>1. /\ Starting /\ ~Starting' /\ (Waits' => Waits)
        /\ subflow_starts' = subflow_starts + 1
        /\ UNCHANGED <<step, retry_remaining, async_generation>>
    BY <1>8, <1>14, Zenon
  <2> QED
    BY ONLY <1>0, <1>1, <1>3, <2>1, SMTT(30) DEF Spent, Paid
<1> QED
  BY <1>9, <1>10, <1>11, <1>12, <1>13, <1>14, CounterFrame, Zenon

\* At the start the whole budget is left.
LEMMA BudgetInit == Init => TimerInv /\ BudgetInv
<1> SUFFICES ASSUME Init PROVE TimerInv /\ BudgetInv
  BY Zenon
<1>1. armed = {} /\ firing = {} /\ async_pending = FALSE /\ step = 0
      /\ retry_remaining = RetryBudget /\ async_generation = 0
      /\ subflow_starts = 0 /\ pc = [d \in Drives |-> "idle"]
  BY Zenon DEF Init
<1>2. ~Starting /\ ~Elapsed /\ ~Delayed
  BY <1>1, SMTT(30) DEF Starting, Elapsed, Delayed
<1>3. Spent <= Paid
  BY <1>1, BoundAssumption, SMTT(30) DEF Spent, Paid
<1> QED
  BY <1>1, <1>2, <1>3, SMTT(30) DEF TimerInv, BudgetInv

\* The retry budget is shared by all attempts and children of a Run
\* (execute_step, execute_with_retry): whatever was started, waited for and is
\* left of the budget never exceeds the counted steps and the budget the Run
\* was given, however completions, timers and drives interleave.
THEOREM BudgetIsShared == Spec => []RetryBudgetShared
<1>1. Init => TypeInv /\ TimerInv /\ BudgetInv
  BY TypeInit, BudgetInit
<1>2. TypeInv /\ TimerInv /\ BudgetInv /\ [Next]_vars
        => (TypeInv /\ TimerInv /\ BudgetInv)'
  BY TypeStep, TimersStep, BudgetStep
<1>3. TypeInv /\ TimerInv /\ BudgetInv => RetryBudgetShared
  BY DEF BudgetInv, Spent, Paid, RetryBudgetShared
<1> QED
  BY <1>1, <1>2, <1>3, PTL DEF Spec

-----------------------------------------------------------------------------
(* Children of subflow nodes.                                               *)

\* SubflowFence, made inductive.  Until the Run is answered, one child at most
\* is alive, it is the one that is waited for, and none is when the next one is
\* launched or the last one is joined.
SubflowInv ==
    emptied = {} =>
        /\ \A c \in children : c = subflow_child_state
        /\ children # {} => subflow_pending /\ ~subflow_ready
        /\ \A d \in Drives : pc[d] = "launch" =>
             /\ children = {} /\ subflow_pending /\ ~subflow_ready
             /\ subflow_child_state = subflow_starts
        /\ \A d \in Drives : pc[d] = "joined" => children = {}
        /\ subflow_ready => subflow_result.child = subflow_child_state

\* While one drive is in execute_step no other is.
LEMMA OthersOut ==
  ASSUME TypeInv, NEW d \in Drives, DriveStep(d), pc[d] \in InStep
  PROVE  \A e \in Drives : e # d => pc'[e] \notin InStep
<1>1. \A e \in Drives : e # d => pc'[e] = pc[e]
  BY Typed, OthersStay, Zenon
<1>2. \A e \in Drives : e # d => pc[e] \notin InStep
  BY Zenon DEF TypeInv, Mutex
<1> QED
  BY <1>1, <1>2, Zenon

\* An answered execution stays answered, and an answer empties a closure.
LEMMA EmptiedGrows ==
  ASSUME [Next]_vars, emptied' = {}
  PROVE  emptied = {} /\ \A d \in Drives : ~Deliver(d)
<1>1. ASSUME NEW d \in Drives, Deliver(d) PROVE FALSE
  BY <1>1, Zenon DEF Deliver
<1>2. CASE UNCHANGED <<callerVars, callbackVars, delivered>>
  BY <1>1, <1>2, Zenon
<1>3. CASE CallerStep
  BY <1>1, <1>3, Zenon DEF CallerStep, ExecuteAsync, InstallDrive, SubmitDrive,
  SubmitRejected
<1> QED
  BY <1>1, <1>2, <1>3, CallFrame, Zenon

\* Only launching and completing a child change the set of children.
LEMMA ChildrenFrame ==
  ASSUME [Next]_vars
  PROVE  UNCHANGED children \/ (\E d \in Drives : LaunchSubflow(d)) \/ ChildStep
<1>1. ASSUME NEW d \in Drives,
             ArmTimeout(d) \/ Invoke(d) \/ ConsumeRetry(d) \/ Deliver(d)
      PROVE  UNCHANGED children
  BY <1>1, Zenon DEF ArmTimeout, Invoke, ConsumeRetry, Deliver
<1>2. ASSUME NEW op \in ops, NEW out \in Outcomes, HostComplete(op, out)
      PROVE  UNCHANGED children
  BY <1>2, Zenon DEF HostComplete
<1>3. CASE (\E t \in armed : TimerPop(t)) \/ (\E t \in firing : TimerFire(t))
  BY <1>3, Zenon DEF TimerPop, TimerFire
<1>4. ASSUME NEW c \in Cancellers, CancelAttempt(c) \/ CancelSubflow(c)
      PROVE  UNCHANGED children
  BY <1>4, Zenon DEF CancelAttempt, CancelSubflow
<1> QED
  BY <1>1, <1>2, <1>3, <1>4, WorldFrame, Zenon DEF HostStep

\* The child that completes is the one that is waited for.
LEMMA SubflowStep ==
  ASSUME TypeInv, PendingInv, SubflowInv, [Next]_vars
  PROVE  SubflowInv'
<1> SUFFICES ASSUME emptied' = {}
             PROVE  /\ \A c \in children' : c = subflow_child_state'
                    /\ children' # {} => subflow_pending' /\ ~subflow_ready'
                    /\ \A d \in Drives : pc'[d] = "launch" =>
                         /\ children' = {} /\ subflow_pending' /\ ~subflow_ready'
                         /\ subflow_child_state' = subflow_starts'
                    /\ \A d \in Drives : pc'[d] = "joined" => children' = {}
                    /\ subflow_ready' => subflow_result'.child = subflow_child_state'
  BY Zenon DEF SubflowInv
<1>0. pc \in [Drives -> DrivePoints] /\ res \in [Drives -> Results]
  BY Typed, Zenon
<1>1. /\ \A c \in children : c = subflow_child_state
      /\ children # {} => subflow_pending /\ ~subflow_ready
      /\ \A d \in Drives : pc[d] = "launch" =>
           /\ children = {} /\ subflow_pending /\ ~subflow_ready
           /\ subflow_child_state = subflow_starts
      /\ \A d \in Drives : pc[d] = "joined" => children = {}
      /\ subflow_ready => subflow_result.child = subflow_child_state
  BY EmptiedGrows, Zenon DEF SubflowInv
<1>2. \A d \in Drives : ~Deliver(d)
  BY EmptiedGrows, Zenon
<1>3. ASSUME NEW d \in Drives, StartSubflow(d)
      PROVE  /\ children' = {} /\ subflow_pending' /\ ~subflow_ready'
             /\ subflow_child_state' = subflow_starts'
  <2>1. children = {}
    BY <1>1, <1>3, Zenon DEF StartSubflow, PendingInv
  <2> QED
    BY <1>3, <2>1, Zenon DEF StartSubflow
<1>4. ASSUME UNCHANGED subflowVars, UNCHANGED children,
             NEW d \in Drives, pc'[d] = "launch", ~StartSubflow(d)
      PROVE  /\ children' = {} /\ subflow_pending' /\ ~subflow_ready'
             /\ subflow_child_state' = subflow_starts'
  BY <1>0, <1>1, <1>4, Arrivals, Zenon
<1>5. ASSUME UNCHANGED subflowVars, UNCHANGED children,
             NEW d \in Drives, pc'[d] = "joined"
      PROVE  children' = {}
  <2>1. CASE pc[d] = "joined"
    BY <1>1, <1>5, <2>1, Zenon
  <2>2. CASE TopContinue(d)
    <3>1. pc'[d] = Continuation
      BY <1>0, <2>2, Zenon DEF TopContinue, Goto
    <3>2. SubflowHere
      BY <1>5, <3>1, SMTT(30) DEF Continuation
    <3>3. subflow_ready
      BY <2>2, <3>2, Zenon DEF TopContinue, Waiting, SubflowHere
    <3> QED
      BY <1>1, <1>5, <3>3, Zenon
  <2> QED
    BY <1>0, <1>5, <2>1, <2>2, Arrivals, Zenon
<1>6. CASE UNCHANGED subflowVars /\ UNCHANGED children
  BY <1>1, <1>3, <1>4, <1>5, <1>6, Zenon
<1>7. CASE \E d \in Drives : StartSubflow(d)
  BY <1>3, <1>7, Zenon
<1>8. ASSUME NEW d \in Drives, JoinSubflow, children' = {}, pc[d] \in InStep,
             DriveStep(d), pc'[d] = "record"
      PROVE  /\ ~subflow_ready' /\ children' = {}
             /\ \A e \in Drives : pc'[e] # "launch"
  BY <1>8, OthersOut, Zenon DEF JoinSubflow, InStep
<1>9. ASSUME NEW d \in Drives, CheckSubflow(d), ~UNCHANGED subflowVars
      PROVE  /\ ~subflow_ready' /\ children' = {}
             /\ \A e \in Drives : pc'[e] # "launch"
  <2>1. subflow_ready /\ JoinSubflow /\ children' = children /\ pc'[d] = "record"
    BY <1>0, <1>9, Zenon DEF CheckSubflow, Finish
  <2>2. children' = {}
    BY <1>1, <2>1, Zenon
  <2>3. pc[d] \in InStep /\ DriveStep(d)
    BY <1>9, Zenon DEF CheckSubflow, InStep, DriveStep
  <2> QED
    BY <1>8, <2>1, <2>2, <2>3, Zenon
<1>10. ASSUME NEW d \in Drives, ContinueSubflow(d)
       PROVE  /\ ~subflow_ready' /\ children' = {}
              /\ \A e \in Drives : pc'[e] # "launch"
  <2>1. JoinSubflow /\ children' = children /\ pc'[d] = "record" /\ pc[d] = "joined"
    BY <1>0, <1>10, Zenon DEF ContinueSubflow, Finish
  <2>2. children' = {}
    BY <1>1, <2>1, Zenon
  <2>3. pc[d] \in InStep /\ DriveStep(d)
    BY <1>10, Zenon DEF ContinueSubflow, InStep, DriveStep
  <2> QED
    BY <1>8, <2>1, <2>2, <2>3, Zenon
<1>11. CASE \E d \in Drives : \/ CheckSubflow(d) /\ ~UNCHANGED subflowVars
                              \/ ContinueSubflow(d)
  BY <1>9, <1>10, <1>11, Zenon
<1>12. ASSUME NEW d \in Drives, CheckSubflow(d) PROVE UNCHANGED children
  BY <1>12, Zenon DEF CheckSubflow
<1>13. ASSUME NEW d \in Drives, LaunchSubflow(d)
       PROVE  /\ children' = {subflow_child_state'}
              /\ subflow_pending' /\ ~subflow_ready'
              /\ \A e \in Drives : pc'[e] \notin {"launch", "joined"}
  <2>1. /\ children = {} /\ subflow_pending /\ ~subflow_ready
        /\ subflow_child_state = subflow_starts
    BY <1>1, <1>13, Zenon DEF LaunchSubflow
  <2>2. children' = {subflow_child_state'} /\ subflow_pending' /\ ~subflow_ready'
    BY <1>13, <2>1, Zenon DEF LaunchSubflow
  <2>3. pc'[d] = "check" /\ pc[d] \in InStep /\ DriveStep(d)
    BY <1>0, <1>13, Zenon DEF LaunchSubflow, Goto, InStep, DriveStep
  <2> QED
    BY <2>2, <2>3, OthersOut, Zenon DEF InStep
<1>14. CASE \E d \in Drives : LaunchSubflow(d)
  BY <1>13, <1>14, Zenon
<1>15. ASSUME NEW c \in children, NEW out \in {"ok", "fail"}, ChildComplete(c, out)
       PROVE  /\ children' = {} /\ \A d \in Drives : pc'[d] # "launch"
              /\ subflow_result'.child = subflow_child_state'
  <2>1. subflow_pending /\ ~subflow_ready /\ c = subflow_child_state
    BY <1>1, Zenon
  <2>2. /\ children' = {} /\ subflow_child_state' = subflow_child_state
        /\ subflow_result' = [child |-> c, out |-> out]
    BY <1>1, <1>15, <2>1, ZenonT(60) DEF ChildComplete
  <2>3. subflow_result'.child = subflow_child_state'
    BY <2>1, <2>2, SMTT(30)
  <2>4. ASSUME NEW d \in Drives, pc'[d] = "launch" PROVE FALSE
    <3>1. ~StartSubflow(d)
      BY <1>15, Zenon DEF StartSubflow, ChildComplete
    <3>2. pc[d] = "launch"
      BY <1>0, <2>4, <3>1, Arrivals, ZenonT(60)
    <3> QED
      BY <1>1, <3>2, Zenon
  <2> QED
    BY <2>2, <2>3, <2>4, Zenon
<1>16. CASE ChildStep
  BY <1>15, <1>16, Zenon DEF ChildStep
<1> QED
  BY <1>2, <1>6, <1>7, <1>11, <1>12, <1>14, <1>16, SubflowFrame, ChildrenFrame, ZenonT(60)

\* Until the Run is answered for the first time, the result a subflow node takes
\* is the one of the child that was started for it (start_subflow): the callback
\* of a child needs no generation, as no second child lives beside it.
THEOREM ChildIsCurrent == Spec => []SubflowFence
<1>1. Init => SubflowInv
  BY Zenon DEF Init, SubflowInv
<1>2. Inv /\ SoloInv /\ SubflowInv /\ [Next]_vars => SubflowInv'
  BY SubflowStep, Zenon DEF Inv
<1>3. SubflowInv => SubflowFence
  BY Zenon DEF SubflowInv, SubflowFence
<1> QED
  BY <1>1, <1>2, <1>3, SoloInvariant, PTL DEF Spec

-----------------------------------------------------------------------------
(* Operations the Run has given up.                                         *)

Expecting == async_pending /\ ~async_ready
RetryTimers == {t \in armed \cup firing : t.kind = "retry"}

\* Every generation belongs to one operation or to one delay, and to none while
\* its attempt is being started; no result is consumed while one is expected; a
\* completed Run expects none.
OpsInv ==
    /\ \A op \in ops : op.gen <= async_generation
    /\ \A o, p \in ops : o.gen = p.gen => o = p
    /\ \A op \in ops, t \in RetryTimers : op.gen # t.gen
    /\ \A d \in Drives : pc[d] \in {"arm", "invoke"} =>
         ~Delayed /\ \A op \in ops : op.gen # async_generation
    /\ \A d \in Drives : pc[d] = "consume" => ~Expecting
    /\ async_pending => ~completed

\* AbandonedIsCancelled, made inductive: an operation and an attempt that is
\* being started are expected or were told to stop; nothing is expected by a
\* drive that reports.
ExpectedInv ==
    ~cancelled /\ ~UsesSubflow =>
        /\ \A d \in Drives : pc[d] \in {"arm", "invoke"} =>
             Expecting \/ async_generation \in cancelled_tokens
        /\ \A d \in Drives : Reporting(d) => ~Expecting
        /\ \A op \in ops : \/ op.gen \in cancelled_tokens
                           \/ Expecting /\ op.gen = async_generation

\* A new operation has the current generation.
LEMMA OpsFrom ==
  ASSUME [Next]_vars, NEW op \in ops', op \notin ops
  PROVE  \E d \in Drives :
           Invoke(d) /\ op = [gen |-> async_generation, timed |-> NodeTimeout[current]]
<1>1. PICK d \in Drives : Invoke(d)
  BY OpsGrow, Zenon
<1> QED
  BY <1>1, Zenon DEF Invoke

\* No token is taken back.
LEMMA TokensGrow ==
  ASSUME [Next]_vars
  PROVE  cancelled_tokens \subseteq cancelled_tokens'
<1>1. CASE UNCHANGED worldVars
  BY <1>1, Zenon
<1>2. ASSUME NEW d \in Drives, ArmTimeout(d) \/ Invoke(d) \/ ConsumeRetry(d)
                                 \/ LaunchSubflow(d) \/ Deliver(d)
      PROVE  cancelled_tokens' = cancelled_tokens
  BY <1>2, Zenon DEF ArmTimeout, Invoke, ConsumeRetry, LaunchSubflow, Deliver
<1>3. CASE HostStep \/ ChildStep
  BY <1>3, Zenon DEF HostStep, HostComplete, ChildStep, ChildComplete
<1>4. CASE (\E t \in armed : TimerPop(t)) \/ (\E t \in firing : TimerFire(t))
  BY <1>4, Zenon DEF TimerPop, TimerFire
<1>5. ASSUME NEW c \in Cancellers, CancelAttempt(c) \/ CancelSubflow(c)
      PROVE  cancelled_tokens \subseteq cancelled_tokens'
  BY <1>5, Zenon DEF CancelAttempt, CancelSubflow
<1> QED
  BY <1>1, <1>2, <1>3, <1>4, <1>5, WorldFrame, ZenonT(60)

\* An attempt becomes pending when it is started.
LEMMA PendingBegins ==
  ASSUME [Next]_vars, async_pending', ~async_pending
  PROVE  \E d \in Drives : StartAttempt(d)
<1>1. CASE UNCHANGED asyncVars
  BY <1>1, Zenon
<1>2. ASSUME NEW d \in Drives, TopError(d) \/ TopContinue(d) PROVE FALSE
  BY <1>2, Zenon DEF TopError, TopContinue, TakeRetry
<1>3. ASSUME NEW d \in Drives, LeaseDenied(d) \/ ArmTimeout(d) \/ ConsumeRetry(d)
                                 \/ ConsumeFinish(d) \/ Deliver(d)
      PROVE  FALSE
  BY <1>3, Zenon DEF LeaseDenied, ArmTimeout, ConsumeRetry, ConsumeFinish, Deliver
<1>4. ASSUME NEW op \in ops, NEW out \in Outcomes, HostComplete(op, out)
      PROVE  FALSE
  BY <1>4, Zenon DEF HostComplete
<1>5. ASSUME NEW t \in firing, TimerFire(t) PROVE FALSE
  BY <1>5, Zenon DEF TimerFire
<1> QED
  BY <1>1, <1>2, <1>3, <1>4, <1>5, AsyncFrame, Zenon DEF HostStep

\* How a Run stops expecting a result.
LEMMA ExpectingEnds ==
  ASSUME [Next]_vars, Expecting, ~Expecting'
  PROVE  \/ \E d \in Drives :
              TopError(d) \/ TopContinue(d) \/ ConsumeFinish(d) \/ Deliver(d)
         \/ \E op \in ops, out \in Outcomes : HostComplete(op, out) /\ Accepts(op.gen)
         \/ \E t \in firing : TimerFire(t) /\ Accepts(t.gen)
<1>1. CASE UNCHANGED asyncVars
  BY <1>1, Zenon DEF Expecting
<1>2. ASSUME NEW d \in Drives, LeaseDenied(d) \/ ArmTimeout(d) \/ ConsumeRetry(d)
                                 \/ StartAttempt(d)
      PROVE  FALSE
  BY <1>2, Zenon DEF LeaseDenied, ArmTimeout, ConsumeRetry, StartAttempt, Expecting
<1>3. ASSUME NEW op \in ops, NEW out \in Outcomes, HostComplete(op, out)
      PROVE  Accepts(op.gen)
  BY <1>3, Zenon DEF HostComplete, Expecting
<1>4. ASSUME NEW t \in firing, TimerFire(t) PROVE Accepts(t.gen)
  BY <1>4, Zenon DEF TimerFire, Expecting
<1> QED
  BY <1>1, <1>2, <1>3, <1>4, AsyncFrame, Zenon DEF HostStep

\* A Run is completed when the result of its last node is recorded.
LEMMA CompletedBy ==
  ASSUME [Next]_vars, completed' # completed
  PROVE  \E d \in Drives : Record(d)
<1>1. ASSUME CallerStep PROVE FALSE
  BY <1>1, ZenonT(60) DEF CallerStep, ExecuteAsync, InstallDrive, SubmitDrive,
  SubmitRejected
<1>2. ASSUME NEW d \in Drives, DriveStep(d) PROVE Record(d)
  BY <1>2, ZenonT(60) DEF DriveStep, Enqueue, EnqueueRejected, DriveStart, EnterStep,
  TopCancelled, TopPending, TopError, TopContinue, TopFresh, LeaseDenied,
  StartAttempt, ArmTimeout, Invoke, ConsumeRetry, ConsumeFinish, StartSubflow,
  LaunchSubflow, CheckSubflow, ContinueSubflow, NotDispatched, RunSync,
  SuspendHuman, ResumeHuman, RecordQuota, PostPending, PostSubflow,
  DeliverNothing, Deliver
<1>3. ASSUME HostStep \/ ChildStep \/ TimerStep PROVE FALSE
  BY <1>3, Zenon DEF HostStep, HostComplete, ChildStep, ChildComplete, TimerStep,
  TimerPop, TimerFire
<1>4. ASSUME NEW c \in Cancellers, CancelStep(c) PROVE FALSE
  BY <1>4, Zenon DEF CancelStep, CancelFlag, CancelCopy, CancelAttempt,
  CancelSubflow, CancelWake
<1>5. ASSUME UNCHANGED vars PROVE FALSE
  BY <1>5, ZenonT(60) DEF vars
<1> QED
  BY <1>1, <1>2, <1>3, <1>4, <1>5, Zenon DEF Next

\* Where execute_step returns something to report.
LEMMA ReportsFrom ==
  ASSUME pc \in [Drives -> DrivePoints], res \in [Drives -> Results],
         NEW d \in Drives, DriveStep(d), pc[d] \in InStep,
         pc'[d] = "post", res'[d] # "pending"
  PROVE  \/ pc[d] \notin {"top", "arm", "invoke"}
         \/ pc[d] = "top" /\ (cancelled \/ ~Waiting)
BY ZenonT(60) DEF DriveStep, Return, Goto, Finish, Enqueue, EnqueueRejected,
   DriveStart, EnterStep, TopCancelled, TopPending, TopError, TopContinue, TopFresh,
   LeaseDenied, StartAttempt, StartsAttempt, ArmTimeout, Invoke, ConsumeRetry,
   ConsumeFinish, StartSubflow, LaunchSubflow, CheckSubflow, ContinueSubflow,
   NotDispatched, RunSync, SuspendHuman, ResumeHuman, RecordQuota, Record,
   PostPending, PostSubflow, DeliverNothing, Deliver, InStep

\* While an attempt is being started its generation stays.
LEMMA StartingStays ==
  ASSUME TypeInv, [Next]_vars, NEW d \in Drives,
         pc[d] \in {"arm", "invoke"}, pc'[d] \in {"arm", "invoke"}
  PROVE  /\ UNCHANGED async_generation
         /\ \A e \in Drives : ~Invoke(e) /\ ~StartAttempt(e) /\ ~ConsumeRetry(e)
<1>1. pc \in [Drives -> DrivePoints]
  BY Typed, Zenon
<1>2. \A e \in Drives : pc[e] \in InStep => e = d
  <2>1. pc[d] \in InStep
    BY Zenon DEF InStep
  <2> QED
    BY <2>1, Zenon DEF TypeInv, Mutex
<1>3. ASSUME NEW e \in Drives, Invoke(e) PROVE FALSE
  BY <1>1, <1>2, <1>3, Zenon DEF Invoke, Return, InStep
<1>4. ASSUME NEW e \in Drives, StartAttempt(e) \/ ConsumeRetry(e) PROVE FALSE
  BY <1>2, <1>4, Zenon DEF StartAttempt, StartsAttempt, ConsumeRetry, InStep
<1> QED
  BY <1>3, <1>4, GenerationGrows, Zenon

\* An operation has a generation of its own.
LEMMA OpsStep ==
  ASSUME TypeInv, PendingInv, TimerInv, OpsInv, [Next]_vars
  PROVE  OpsInv'
<1>0. pc \in [Drives -> DrivePoints] /\ res \in [Drives -> Results]
  BY Typed, Zenon
<1>1. /\ async_generation \in Nat
      /\ \/ async_generation' = async_generation
         \/ async_generation' = async_generation + 1
  BY Counted, GenerationGrows, Zenon
<1>2. \A op \in ops : op.gen \in Nat /\ op.gen <= async_generation
  <2>1. \A op \in [gen : Nat, timed : BOOLEAN] : op.gen \in Nat
    BY SMTT(30)
  <2> QED
    BY <2>1, Zenon DEF TypeInv, TypeOK, WorldTypes, OpsInv
<1>3. ASSUME NEW op \in ops', op \notin ops
      PROVE  /\ op.gen = async_generation
             /\ op = [gen |-> async_generation, timed |-> NodeTimeout[current]]
             /\ UNCHANGED async_generation /\ ~Delayed
             /\ \A o \in ops : o.gen # async_generation
  <2>1. PICK d \in Drives :
          Invoke(d) /\ op = [gen |-> async_generation, timed |-> NodeTimeout[current]]
    BY <1>3, OpsFrom, Zenon
  <2>2. op.gen = async_generation
    BY <2>1, SMTT(30)
  <2> QED
    BY <2>1, <2>2, Zenon DEF Invoke, OpsInv
<1>4. ASSUME NEW op \in ops' PROVE op.gen <= async_generation'
  <2>1. CASE op \in ops
    BY <1>1, <1>2, <2>1, SMTT(30)
  <2>2. CASE op \notin ops
    BY <1>1, <1>3, <2>2, SMTT(30)
  <2> QED
    BY <2>1, <2>2, Zenon
<1>5. ASSUME NEW o \in ops', NEW p \in ops', o.gen = p.gen PROVE o = p
  <2>1. CASE o \in ops /\ p \in ops
    BY <1>5, <2>1, Zenon DEF OpsInv
  <2> QED
    BY <1>3, <1>5, <2>1, Zenon
<1>6. ASSUME NEW op \in ops', NEW t \in RetryTimers', op.gen = t.gen PROVE FALSE
  <2>1. t \in armed' \cup firing' /\ t.kind = "retry"
    BY Zenon DEF RetryTimers
  <2>2. ASSUME t = [gen |-> async_generation, kind |-> "timeout"] PROVE FALSE
    BY <2>1, <2>2, SMTT(30)
  <2>3. ASSUME NEW d \in Drives, ConsumeRetry(d),
               t = [gen |-> async_generation + 1, kind |-> "retry"]
        PROVE  FALSE
    <3>1. async_generation' = async_generation + 1 /\ ops' = ops
      BY <2>3, Zenon DEF ConsumeRetry
    <3>2. op.gen \in Nat /\ op.gen <= async_generation
      BY <1>2, <3>1, Zenon
    <3> QED
      BY <1>1, <1>6, <2>3, <3>2, SMTT(30)
  <2>4. t \in RetryTimers
    BY <2>1, <2>2, <2>3, TimersFrom, Zenon DEF RetryTimers
  <2>5. CASE op \in ops
    BY <1>6, <2>4, <2>5, Zenon DEF OpsInv
  <2>6. CASE op \notin ops
    BY <1>3, <1>6, <2>4, <2>6, Zenon DEF RetryTimers, Delayed
  <2> QED
    BY <2>5, <2>6, Zenon
<1>7. ASSUME NEW d \in Drives, pc'[d] \in {"arm", "invoke"}
      PROVE  ~Delayed' /\ \A op \in ops' : op.gen # async_generation'
  <2>1. CASE StartAttempt(d)
    <3>1. async_generation' = async_generation + 1 /\ ops' = ops
      BY <2>1, Zenon DEF StartAttempt
    <3>2. \A op \in ops' : op.gen # async_generation'
      BY <1>1, <1>2, <3>1, SMTT(30)
    <3>3. \A e \in Drives : ~ConsumeRetry(e)
      BY <2>1, Zenon DEF StartAttempt, ConsumeRetry
    <3>4. async_generation' # async_generation
      BY <1>1, <3>1, SMTT(30)
    <3> QED
      BY <3>2, <3>3, <3>4, DelayedFrom, Zenon
  <2>2. CASE pc[d] \in {"arm", "invoke"}
    <3>1. /\ UNCHANGED async_generation
          /\ \A e \in Drives : ~Invoke(e) /\ ~ConsumeRetry(e)
      BY <1>7, <2>2, StartingStays, Zenon
    <3>2. ~Delayed /\ \A op \in ops : op.gen # async_generation
      BY <2>2, Zenon DEF OpsInv
    <3> QED
      BY <3>1, <3>2, OpsFrom, DelayedFrom, Zenon
  <2> QED
    BY <1>0, <1>7, <2>1, <2>2, Arrivals, Zenon DEF ArmTimeout
<1>8. ASSUME NEW d \in Drives, pc'[d] = "consume", Expecting' PROVE FALSE
  <2>1. CASE pc[d] = "consume"
    <3>1. ~Expecting
      BY <2>1, Zenon DEF OpsInv
    <3>2. PICK e \in Drives : StartAttempt(e) \/ ConsumeRetry(e)
      BY <1>8, <3>1, WaitsBegin, Zenon DEF Expecting
    <3>3. e = d
      <4>1. pc[d] \in InStep /\ pc[e] \in InStep
        BY <2>1, <3>2, Zenon DEF InStep, StartAttempt, StartsAttempt, ConsumeRetry
      <4> QED
        BY <4>1, Zenon DEF TypeInv, Mutex
    <3> QED
      BY <1>0, <1>8, <2>1, <3>2, <3>3, ZenonT(60) DEF StartAttempt, StartsAttempt,
      ConsumeRetry, Return
  <2>2. CASE TopContinue(d)
    <3>1. Continuation = "consume"
      BY <1>0, <1>8, <2>2, Zenon DEF TopContinue, Goto
    <3>2. AsyncHere
      BY <3>1, SMTT(30) DEF Continuation
    <3> QED
      BY <1>8, <2>2, <3>1, <3>2, Zenon DEF TopContinue, TakeRetry, Waiting, Expecting
  <2> QED
    BY <1>0, <1>8, <2>1, <2>2, Arrivals, Zenon
<1>9. ASSUME async_pending', completed' PROVE FALSE
  <2>1. ASSUME NEW d \in Drives, StartAttempt(d) PROVE FALSE
    <3>1. completed
      BY <1>9, <2>1, Zenon DEF StartAttempt
    <3> QED
      BY <2>1, <3>1, GraphAssumption, Zenon DEF TypeInv, Position, InStep,
      StartAttempt, StartsAttempt
  <2>2. async_pending
    BY <1>9, <2>1, PendingBegins, Zenon
  <2>3. ~completed
    BY <2>2, Zenon DEF OpsInv
  <2>4. PICK d \in Drives : Record(d)
    BY <1>9, <2>3, CompletedBy, Zenon
  <2> QED
    BY <2>2, <2>4, Zenon DEF Record, PendingInv
<1> QED
  BY <1>4, <1>5, <1>6, <1>7, <1>8, <1>9, ZenonT(60) DEF OpsInv

\* What a Run does not expect any more was told to stop.
LEMMA ExpectedStep ==
  ASSUME TypeInv, PendingInv, SoloInv, TimerInv, OpsInv, ExpectedInv, [Next]_vars
  PROVE  ExpectedInv'
<1> SUFFICES ASSUME ~cancelled', ~UsesSubflow
             PROVE  /\ \A d \in Drives : pc'[d] \in {"arm", "invoke"} =>
                         Expecting' \/ async_generation' \in cancelled_tokens'
                    /\ \A d \in Drives : Reporting(d)' => ~Expecting'
                    /\ \A op \in ops' : \/ op.gen \in cancelled_tokens'
                                        \/ Expecting' /\ op.gen = async_generation'
  BY Zenon DEF ExpectedInv, UsesSubflow
<1>0. pc \in [Drives -> DrivePoints] /\ res \in [Drives -> Results]
  BY Typed, Zenon
<1>1. ~cancelled
  BY CancelStays, Zenon
<1>2. /\ \A d \in Drives : pc[d] \in {"arm", "invoke"} =>
           Expecting \/ async_generation \in cancelled_tokens
      /\ \A d \in Drives : Reporting(d) => ~Expecting
      /\ \A op \in ops : \/ op.gen \in cancelled_tokens
                         \/ Expecting /\ op.gen = async_generation
  BY <1>1, Zenon DEF ExpectedInv
<1>3. \A d \in Drives : Past(d) => \A e \in Drives : ~Reporting(e)
  BY Zenon DEF SoloInv, Inside
<1>4. \A d, e \in Drives : pc[d] \in InStep /\ pc[e] \in InStep => d = e
  BY Zenon DEF TypeInv, Mutex
<1>5. ASSUME Expecting, NEW d \in Drives,
             TopError(d) \/ TopContinue(d) \/ TopFresh(d) \/ ConsumeFinish(d)
               \/ ConsumeRetry(d) \/ StartAttempt(d) \/ Deliver(d)
      PROVE  FALSE
  <2>1. Waiting /\ async_pending
    BY <1>5, Zenon DEF Expecting, Waiting, AsyncHere, PendingInv
  <2>2. CASE TopError(d) \/ TopContinue(d) \/ TopFresh(d)
    BY <2>1, <2>2, Zenon DEF TopError, TopContinue, TopFresh
  <2>3. CASE ConsumeFinish(d) \/ ConsumeRetry(d)
    BY <1>5, <2>3, Zenon DEF ConsumeFinish, ConsumeRetry, OpsInv
  <2>4. CASE StartAttempt(d)
    BY <2>1, <2>4, Zenon DEF StartAttempt, StartsAttempt, PendingInv
  <2>5. CASE Deliver(d)
    BY <1>2, <1>5, <2>5, Zenon DEF Deliver, Reporting
  <2> QED
    BY <1>5, <2>2, <2>3, <2>4, <2>5, Zenon
<1>6. ASSUME Expecting PROVE UNCHANGED async_generation
  BY <1>5, <1>6, GenerationGrows, Zenon
<1>7. ASSUME NEW t \in firing, TimerFire(t), Accepts(t.gen), ~Delayed
      PROVE  async_generation \in cancelled_tokens'
  <2>1. t.gen = async_generation /\ t.kind \in {"timeout", "retry"}
    BY <1>7, Counted, Zenon DEF Accepts
  <2>2. t.kind = "timeout"
    BY <1>7, <2>1, Zenon DEF Delayed
  <2> QED
    BY <1>7, <2>1, <2>2, Zenon DEF TimerFire
<1>8. ASSUME NEW d \in Drives, pc'[d] \in {"arm", "invoke"}
      PROVE  Expecting' \/ async_generation' \in cancelled_tokens'
  <2>1. CASE StartAttempt(d)
    BY <2>1, Zenon DEF StartAttempt, Expecting
  <2>2. CASE pc[d] \in {"arm", "invoke"}
    <3>1. UNCHANGED async_generation
      BY <1>8, <2>2, StartingStays, Zenon
    <3>2. CASE async_generation \in cancelled_tokens
      BY <3>1, <3>2, TokensGrow, Zenon
    <3>3. CASE Expecting /\ ~Expecting'
      <4>1. ~Delayed /\ \A op \in ops : op.gen # async_generation
        BY <2>2, Zenon DEF OpsInv
      <4>2. PICK t \in firing : TimerFire(t) /\ Accepts(t.gen)
        BY <1>5, <3>3, <4>1, ExpectingEnds, Zenon DEF Accepts
      <4> QED
        BY <1>7, <3>1, <4>1, <4>2, Zenon
    <3> QED
      BY <1>2, <2>2, <3>2, <3>3, Zenon
  <2> QED
    BY <1>0, <1>8, <2>1, <2>2, Arrivals, Zenon DEF ArmTimeout
<1>9. ASSUME NEW d \in Drives, Reporting(d)', Expecting' PROVE FALSE
  <2>1. pc'[d] = "post" /\ res'[d] # "pending"
    BY <1>9, Zenon DEF Reporting
  <2>2. ASSUME ~Expecting
        PROVE  \E e \in Drives : /\ StartAttempt(e) \/ ConsumeRetry(e)
                                 /\ pc[e] \in InStep /\ Past(e)
    <3>1. PICK e \in Drives : StartAttempt(e) \/ ConsumeRetry(e)
      BY <1>9, <2>2, WaitsBegin, Zenon DEF Expecting
    <3> QED
      BY <3>1, Zenon DEF StartAttempt, StartsAttempt, ConsumeRetry, Past, InStep
  <2>3. CASE Reporting(d)
    BY <1>2, <1>3, <2>2, <2>3, Zenon
  <2>4. CASE pc[d] \in InStep
    <3>1. DriveStep(d)
      <4>1. pc[d] # "post" /\ pc[d] # "idle"
        BY <2>4, Zenon DEF InStep
      <4> QED
        BY <1>0, <2>1, <4>1, Mover, Zenon
    <3>2. CASE Expecting
      <4>1. Waiting /\ async_pending
        BY <3>2, Zenon DEF Expecting, Waiting, AsyncHere, PendingInv
      <4>2. pc[d] \notin {"top", "arm", "invoke"}
        BY <1>0, <1>1, <2>1, <2>4, <3>1, <4>1, ReportsFrom, ZenonT(60)
      <4>3. pc[d] # "consume"
        BY <3>2, Zenon DEF OpsInv
      <4>4. pc[d] \notin {"fresh", "retry", "joined", "launch", "check", "record"}
        BY <4>1, Zenon DEF PendingInv
      <4> QED
        BY <2>4, <4>2, <4>3, <4>4, Zenon DEF InStep
    <3>3. CASE ~Expecting
      <4>1. StartAttempt(d) \/ ConsumeRetry(d)
        BY <1>4, <2>2, <2>4, <3>3, Zenon
      <4> QED
        BY <1>0, <2>1, <4>1, ZenonT(60) DEF StartAttempt, ConsumeRetry, Goto, Return
    <3> QED
      BY <3>2, <3>3, Zenon
  <2>5. CASE EnterStep(d)
    <3>1. completed /\ async_pending
      BY <1>0, <1>9, <2>1, <2>5, Zenon DEF EnterStep, Expecting
    <3> QED
      BY <3>1, Zenon DEF OpsInv
  <2> QED
    BY <1>0, <2>1, <2>3, <2>4, <2>5, Arrivals, ZenonT(60) DEF Reporting
<1>10. ASSUME NEW op \in ops'
       PROVE  \/ op.gen \in cancelled_tokens'
              \/ Expecting' /\ op.gen = async_generation'
  <2>1. CASE op \notin ops
    <3>1. PICK d \in Drives :
            Invoke(d) /\ op = [gen |-> async_generation, timed |-> NodeTimeout[current]]
      BY <2>1, OpsFrom, Zenon
    <3>2. op.gen = async_generation
      BY <3>1, SMTT(30)
    <3> QED
      BY <1>2, <3>1, <3>2, Zenon DEF Invoke, Expecting
  <2>2. CASE op \in ops /\ op.gen \in cancelled_tokens
    BY <2>2, TokensGrow, Zenon
  <2>3. CASE op \in ops /\ Expecting /\ op.gen = async_generation
    <3>1. ASSUME NEW o \in ops, NEW out \in Outcomes, HostComplete(o, out),
                 Accepts(o.gen)
          PROVE  FALSE
      <4>1. o = op
        BY <2>3, <3>1, Zenon DEF Accepts, OpsInv
      <4> QED
        BY <3>1, <4>1, Zenon DEF HostComplete
    <3>2. ~Delayed
      BY <2>3, Zenon DEF OpsInv, RetryTimers, Delayed
    <3>3. CASE ~Expecting'
      <4>1. PICK t \in firing : TimerFire(t) /\ Accepts(t.gen)
        BY <1>5, <2>3, <3>1, <3>3, ExpectingEnds, Zenon
      <4> QED
        BY <1>7, <2>3, <3>2, <4>1, Zenon
    <3> QED
      BY <1>6, <2>3, <3>3, Zenon
  <2> QED
    BY <1>2, <2>1, <2>2, <2>3, ZenonT(60)
<1> QED
  BY <1>8, <1>9, <1>10, Zenon

\* Without subflows and before a cancel, an operation of an executor that the
\* Run does not wait for any more had its token cancelled when the timeout gave
\* it up (start_async_attempt): no operation is left running unawares.
THEOREM NothingIsForgotten == Spec => []AbandonedIsCancelled
<1>1. Init => TimerInv /\ OpsInv /\ ExpectedInv
  <2>1. ASSUME Init PROVE OpsInv /\ ExpectedInv
    BY <2>1, Zenon DEF Init, OpsInv, ExpectedInv, RetryTimers, Reporting
  <2> QED
    BY <2>1, BudgetInit, Zenon
<1>2. Inv /\ SoloInv /\ (TimerInv /\ OpsInv /\ ExpectedInv) /\ [Next]_vars
        => (TimerInv /\ OpsInv /\ ExpectedInv)'
  BY TimersStep, OpsStep, ExpectedStep, Zenon DEF Inv
<1>3. ExpectedInv => AbandonedIsCancelled
  BY Zenon DEF ExpectedInv, AbandonedIsCancelled, Expecting
<1> QED
  BY <1>1, <1>2, <1>3, SoloInvariant, PTL DEF Spec
=============================================================================
