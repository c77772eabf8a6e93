----------------------------- MODULE ThreadPool -----------------------------
(***************************************************************************)
(* ThreadPoolScheduler: a bounded queue, worker threads, the three ways to *)
(* treat a full queue, nested submissions run inline, and the shutdown.    *)
(*                                                                         *)
(* A task is a program: a sequence of calls on the services.  A thread     *)
(* keeps a frame for every task it is inside of, the innermost last: more  *)
(* than one when a submission is executed by its caller.                   *)
(***************************************************************************)
EXTENDS Integers, Sequences, FiniteSets, Functions

CONSTANTS
    Workers,         \* threads of the pool
    Hosts,           \* other threads that submit tasks
    Tasks,
    Program,         \* task -> sequence of calls
    QueueCapacity, MaxInlineDepth,
    None

Threads == Workers \cup Hosts

\* A host thread is not of the pool, and what a task submits is a task.
ASSUME PoolAssumption ==
    /\ Workers \cap Hosts = {} /\ None \notin Tasks
    /\ \A t \in Tasks :
        /\ Len(Program[t]) \in Nat /\ DOMAIN Program[t] = 1..Len(Program[t])
        /\ \A i \in DOMAIN Program[t] :
            Program[t][i].op \in {"continue", "nest"} => Program[t][i].task \in Tasks

VARIABLES
    full,                \* QueueFullPolicy: "reject", "block" or "caller_runs"
    queue, stopping,     \* of the pool
    frames,              \* thread -> the tasks it is inside of
    waiting,             \* thread -> the task it waits to enqueue, for space
    exited, joined,      \* workers that left; shutdown returned
    accepted, refused, finished   \* tasks

poolVars == <<full, queue, stopping, frames, waiting, exited, joined, accepted, refused, finished>>

Inner(s) == s[Len(s)]
Outer(s) == SubSeq(s, 1, Len(s) - 1)
Top(th) == Inner(frames[th])
Running(th) == frames[th] # <<>> /\ waiting[th] = None
Op(th) == Program[Top(th).task][Top(th).ip]
\* The thread is about to make a call of this kind.
At(th, kind) == Running(th) /\ Top(th).ip <= Len(Program[Top(th).task]) /\ Op(th).op = kind
Advanced(th) ==
    IF frames[th] = <<>> THEN <<>>
    ELSE Append(Outer(frames[th]), [Top(th) EXCEPT !.ip = @ + 1])
Step(th) == frames' = [frames EXCEPT ![th] = Advanced(th)]
\* The task gives up: what is left of its program is skipped.
Leave(th) ==
    frames' = [frames EXCEPT ![th] =
                 Append(Outer(@), [Top(th) EXCEPT !.ip = Len(Program[Top(th).task]) + 1])]

PoolInit ==
    /\ queue = <<>> /\ stopping = FALSE /\ exited = {} /\ joined = FALSE
    /\ frames = [th \in Threads |-> <<>>] /\ waiting = [th \in Threads |-> None]
    /\ accepted = {} /\ refused = {} /\ finished = {}

Enqueue(t) == queue' = Append(queue, t) /\ accepted' = accepted \cup {t} /\ UNCHANGED refused
Refuse(t) == refused' = refused \cup {t} /\ UNCHANGED <<queue, accepted>>
Inline(th, t, nested) ==
    /\ frames' = [frames EXCEPT ![th] =
                    Append(Advanced(th), [task |-> t, ip |-> 1, nested |-> nested])]
    /\ accepted' = accepted \cup {t} /\ UNCHANGED <<queue, refused>>

InlineDepth(th) == Cardinality({i \in DOMAIN frames[th] : frames[th][i].nested})
MayNest(th) == full = "caller_runs" /\ InlineDepth(th) < MaxInlineDepth

\* schedule and schedule_continuation, called by a thread.
Submit(th, t, continuation) ==
    LET nested == th \in Workers /\ ~continuation
        isFull == Len(queue) >= QueueCapacity
    IN /\ \/ /\ nested /\ MayNest(th) /\ Inline(th, t, TRUE) /\ UNCHANGED waiting
          \/ /\ nested /\ ~MayNest(th) /\ Refuse(t) /\ Step(th) /\ UNCHANGED waiting
          \/ /\ ~nested /\ stopping /\ Refuse(t) /\ Step(th) /\ UNCHANGED waiting
          \/ /\ ~nested /\ ~stopping /\ ~isFull /\ Enqueue(t) /\ Step(th) /\ UNCHANGED waiting
          \/ /\ ~nested /\ ~stopping /\ isFull /\ full = "block"
             /\ waiting' = [waiting EXCEPT ![th] = t] /\ Step(th)
             /\ UNCHANGED <<queue, accepted, refused>>
          \/ /\ ~nested /\ ~stopping /\ isFull /\ full = "caller_runs"
             /\ Inline(th, t, FALSE) /\ UNCHANGED waiting
          \/ /\ ~nested /\ ~stopping /\ isFull /\ full = "reject"
             /\ Refuse(t) /\ Step(th) /\ UNCHANGED waiting
       /\ UNCHANGED <<full, stopping, exited, joined, finished>>

\* The wait for space is over.
SpaceFound(th) ==
    /\ waiting[th] # None
    /\ \/ stopping /\ Refuse(waiting[th])
       \/ ~stopping /\ Len(queue) < QueueCapacity /\ Enqueue(waiting[th])
    /\ waiting' = [waiting EXCEPT ![th] = None]
    /\ UNCHANGED <<full, stopping, frames, exited, joined, finished>>

\* worker_loop: take the next task, or leave once the pool stops and the queue
\* is empty.  In a mutant a worker leaves as soon as the pool stops.
Take(w) ==
    /\ frames[w] = <<>> /\ w \notin exited /\ queue # <<>>
    /\ queue' = Tail(queue)
    /\ frames' = [frames EXCEPT ![w] = <<[task |-> Head(queue), ip |-> 1, nested |-> FALSE]>>]
    /\ UNCHANGED <<full, stopping, waiting, exited, joined, accepted, refused, finished>>

ExitEarly(w) ==
    /\ frames[w] = <<>> /\ w \notin exited /\ stopping
    /\ exited' = exited \cup {w}
    /\ UNCHANGED <<full, queue, stopping, frames, waiting, joined, accepted, refused, finished>>
Exit(w) ==
    /\ frames[w] = <<>> /\ w \notin exited /\ stopping /\ queue = <<>>
    /\ exited' = exited \cup {w}
    /\ UNCHANGED <<full, queue, stopping, frames, waiting, joined, accepted, refused, finished>>

Finish(th) ==
    /\ Running(th) /\ Top(th).ip > Len(Program[Top(th).task])
    /\ finished' = finished \cup {Top(th).task}
    /\ frames' = [frames EXCEPT ![th] = Outer(@)]
    /\ UNCHANGED <<full, queue, stopping, waiting, exited, joined, accepted, refused>>

\* shutdown, by the thread that drops the pool: stop, then join the workers,
\* except the calling one, which is detached.
Shutdown(th) ==
    /\ At(th, "shutdown")
    /\ \/ ~stopping /\ stopping' = TRUE /\ UNCHANGED <<frames, joined>>
       \/ /\ stopping /\ Workers \ {th} \subseteq exited
          /\ joined' = TRUE /\ Step(th) /\ UNCHANGED stopping
    /\ UNCHANGED <<full, queue, waiting, exited, accepted, refused, finished>>
-----------------------------------------------------------------------------
InFrames(th) == {frames[th][i].task : i \in DOMAIN frames[th]}

\* When the destructor of the pool has joined its workers, every task it ever
\* accepted has run to its end, except those that threads outside the pool and
\* the joining thread itself are still inside of.  Only a pool whose single
\* worker drops it leaves its queue behind, to that worker, which is detached.
JoinedIsDrained ==
    joined => \E joiner \in Threads :
        accepted \subseteq finished \cup (UNION {InFrames(th) : th \in Hosts \cup {joiner}})
                              \cup (IF Workers \subseteq {joiner} THEN Range(queue) ELSE {})

\* Nothing can take a task any more: each worker left waits for space, which
\* only a worker makes.  A worker that submits a continuation to a full queue
\* under the Block policy gets there.
Starved == \A w \in Workers : w \in exited \/ waiting[w] # None
=============================================================================
