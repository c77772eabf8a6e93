--------------------------- MODULE RuntimeServices --------------------------
(***************************************************************************)
(* The services a Run uses, working together: tasks on a ThreadPool        *)
(* acquire leases, which blocks the worker they are on, emit trace events, *)
(* which may block it too, and submit further tasks.                       *)
(***************************************************************************)
EXTENDS ThreadPool, TraceSink, LeaseProvider

CONSTANT Setups    \* the combinations of policies and of submitted tasks tried

ASSUME ServicesAssumption ==
    /\ NoEvent \notin Tasks
    /\ \A s \in Setups : s.todo \in [Hosts -> Seq(Tasks)]

\* The tasks that ask for a lease say for what; a lease given back is a task's.
Asking == {t \in Tasks : \E i \in DOMAIN Program[t] : Program[t][i].op = "acquire"}
ASSUME LeaseAssumption ==
    /\ LeaseCapacity \in [Resources -> Nat \ {0}] /\ Ttl \in Nat \ {0}
    /\ \A t \in Asking : Requests[t].units \in [Resources -> Nat]
    /\ \A t \in Tasks : \A i \in DOMAIN Program[t] :
        Program[t][i].op = "release" => Program[t][i].of \in Tasks

VARIABLE todo      \* host thread -> the tasks it still has to submit

vars == <<poolVars, traceVars, leaseVars, todo>>

Init ==
    /\ \E s \in Setups : full = s.pool /\ tracePolicy = s.trace /\ todo = s.todo
    /\ PoolInit /\ TraceInit /\ LeaseInit(Tasks)

HostSubmits(h) ==
    /\ frames[h] = <<>> /\ waiting[h] = None /\ todo[h] # <<>>
    /\ Submit(h, Head(todo[h]), FALSE)
    /\ todo' = [todo EXCEPT ![h] = Tail(@)] /\ UNCHANGED <<traceVars, leaseVars>>

TaskSubmits(th) ==
    /\ \/ At(th, "continue") /\ Submit(th, Op(th).task, TRUE)
       \/ At(th, "nest") /\ Submit(th, Op(th).task, FALSE)
    /\ UNCHANGED <<traceVars, leaseVars, todo>>

PoolStep(th) ==
    /\ SpaceFound(th) \/ Finish(th) \/ Shutdown(th) \/ (th \in Workers /\ (Take(th) \/ Exit(th)))
    /\ UNCHANGED <<traceVars, leaseVars, todo>>

\* A call that changes nothing of the pool but the frame of its thread.
Call(th) ==
    UNCHANGED <<full, queue, stopping, waiting, exited, joined, accepted, refused, finished, todo>>

TaskEmits(th) ==
    /\ At(th, "emit") /\ Emit(Top(th).task)
    /\ Step(th) /\ Call(th) /\ UNCHANGED leaseVars

TaskFlushes(th) ==
    /\ At(th, "flush") /\ Flushed
    /\ Step(th) /\ Call(th) /\ UNCHANGED <<traceVars, leaseVars>>

\* acquire, from the task's turn in the loop: a granted task goes on, one whose
\* request failed is over, and the others keep their thread and try again.
TaskAcquires(th) ==
    /\ At(th, "acquire")
    /\ LET t == Top(th).task
           ws == IF t \in Range(waiters) THEN waiters ELSE Append(waiters, t)
           outcome == IF Possible(t) THEN Turn(t, ws) ELSE "failed"
       IN /\ IF Possible(t) THEN Acquire(t, ws, outcome) ELSE UNCHANGED leaseVars
          /\ CASE outcome = "granted" -> Step(th)
               [] outcome = "failed" -> Leave(th)
               [] OTHER -> UNCHANGED frames
    /\ Call(th) /\ UNCHANGED traceVars

TaskReleases(th) ==
    /\ At(th, "release") /\ Release(Op(th).of)
    /\ Step(th) /\ Call(th) /\ UNCHANGED traceVars

Exporter == (ExportStart \/ ExportEnd \/ ExporterLeaves) /\ UNCHANGED <<poolVars, leaseVars, todo>>

\* The last user is gone: every thread is idle and nothing is queued.
Close ==
    /\ queue = <<>> /\ \A th \in Threads : frames[th] = <<>> /\ waiting[th] = None
    /\ \A h \in Hosts : todo[h] = <<>>
    /\ CloseSink /\ UNCHANGED <<poolVars, leaseVars, todo>>

Time == Tick /\ UNCHANGED <<poolVars, traceVars, todo>>

\* Executors renew their leases, the host asks what is free, and a Run that
\* waits may be cancelled.
Outside ==
    /\ AskAvailable \/ \E t \in Tasks : Renew(t) \/ RequestCancel(t)
    /\ UNCHANGED <<poolVars, traceVars, todo>>

ThreadStep(th) ==
    \/ th \in Hosts /\ HostSubmits(th)
    \/ TaskSubmits(th) \/ PoolStep(th) \/ TaskEmits(th) \/ TaskFlushes(th)
    \/ TaskAcquires(th) \/ TaskReleases(th)

Next ==
    \/ \E th \in Threads : ThreadStep(th)
    \/ Exporter \/ Close \/ Time \/ Outside

\* As long as a thread can go on, or time matters, one of them does.  Nothing
\* is assumed about which.
Progress == (\E th \in Threads : ThreadStep(th)) \/ Exporter \/ Time

Spec == Init /\ [][Next]_vars /\ WF_vars(Progress)
-----------------------------------------------------------------------------
\* A lease that has expired or was destroyed is never valid again, unless its
\* task asks for another: renew loses every race with expiry, whether or not a
\* sweep has seen it.
NoResurrection ==
    [][\A t \in Tasks :
         left[t] = 0 /\ ~(\E th \in Threads : At(th, "acquire") /\ Top(th).task = t)
             => left'[t] = 0]_vars

\* Every task the pool accepted comes to its end, however its threads wait for
\* leases, for the trace queue and for each other: a lease whose holder is
\* stuck behind the waiters expires.  The one exception is a pool whose
\* workers all wait for space in their own queue.
AcceptedTasksEnd == []<>(accepted \subseteq finished \/ Starved)
=============================================================================
