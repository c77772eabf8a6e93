------------------------ MODULE RuntimeServicesProofs ------------------------
(***************************************************************************)
(* The pool drains, the trace adds up and no unit of a resource is lost or *)
(* granted twice, for any threads, programs, requests and capacities,      *)
(* while tasks block their threads in the lease provider and in the trace  *)
(* queue.                                                                  *)
(***************************************************************************)
EXTENDS RuntimeServices, FiniteSetTheorems, TLAPS

Frame == [task : Tasks, ip : Nat \ {0}, nested : BOOLEAN]
TasksOf(s) == {s[i].task : i \in DOMAIN s}

Types ==
    /\ queue \in Seq(Tasks) /\ todo \in [Hosts -> Seq(Tasks)]
    /\ frames \in [Threads -> Seq(Frame)] /\ waiting \in [Threads -> Tasks \cup {None}]
    /\ exited \subseteq Workers

\* A worker that left has nothing to do, and left a pool that takes no more.
ExitInv ==
    /\ \A w \in exited : frames[w] = <<>>
    /\ exited # {} => stopping /\ queue = <<>>
JoinInv == joined => \E joiner \in Threads : Workers \ {joiner} \subseteq exited

\* No accepted task is lost.
KeptInv == \A t \in accepted :
    t \in finished \/ t \in Range(queue) \/ \E th \in Threads : t \in TasksOf(frames[th])

\* The destructor of the sink begins when nobody is left who could emit.
IdleInv == closing =>
    /\ queue = <<>> /\ \A th \in Threads : frames[th] = <<>> /\ waiting[th] = None
    /\ \A h \in Hosts : todo[h] = <<>>

TraceInv ==
    /\ events \in Seq(Tasks) /\ active \in Tasks \cup {NoEvent}
    /\ taken \in Nat /\ dropped \in Nat /\ exported \in Nat
    /\ closed => closing

\* The leases held were possible to grant, and are finitely many.
Granted == {t \in Asking : Possible(t)}
LeaseInv ==
    /\ lease \in [Tasks -> {"none", "held", "reclaimed", "destroyed"}]
    /\ left \in [Tasks -> Nat] /\ available \in [Resources -> Nat]
    /\ Held \subseteq Granted /\ IsFiniteSet(Held)

Inv ==
    /\ Types /\ ExitInv /\ JoinInv /\ KeptInv /\ IdleInv
    /\ TraceInv /\ EventsConserved
    /\ LeaseInv /\ CapacityConserved
-----------------------------------------------------------------------------
(* The frames of a thread and the queue, as sets of tasks. *)

\* Outer and Inner take the frames of a thread apart.
LEMMA OuterInner ==
    ASSUME NEW s \in Seq(Frame), s # <<>>
    PROVE  /\ Outer(s) \in Seq(Frame) /\ Inner(s) \in Frame
           /\ TasksOf(s) = TasksOf(Outer(s)) \cup {Inner(s).task}
<1>0. Len(s) \in Nat \ {0} /\ DOMAIN s = 1..Len(s) /\ \A i \in 1..Len(s) : s[i] \in Frame
  BY SMTT(30)
<1>1. /\ Outer(s) \in Seq(Frame) /\ Len(Outer(s)) = Len(s) - 1
      /\ Inner(s) \in Frame
  <2>1. Outer(s) \in Seq(Frame)
    BY <1>0, SMTT(30) DEF Outer
  <2>2. Len(Outer(s)) = Len(s) - 1
    BY <1>0, SMTT(30) DEF Outer
  <2>3. Inner(s) \in Frame
    BY <1>0, SMTT(30) DEF Inner
  <2> QED  BY <2>1, <2>2, <2>3, Zenon
<1>2. \A i \in 1..(Len(s) - 1) : Outer(s)[i] = s[i]
  BY SMTT(30) DEF Outer
<1>3. DOMAIN s = 1..Len(s) /\ DOMAIN Outer(s) = 1..(Len(s) - 1) /\ Len(s) \in Nat \ {0}
  BY <1>1, SMTT(30)
<1>4. DOMAIN s = DOMAIN Outer(s) \cup {Len(s)}
  BY <1>3, SMTT(30)
<1> QED  BY <1>1, <1>2, <1>3, <1>4, ZenonT(30) DEF TasksOf, Inner

\* A frame pushed on top adds its task.
LEMMA AppendFrame ==
    ASSUME NEW s \in Seq(Frame), NEW f \in Frame
    PROVE  Append(s, f) \in Seq(Frame) /\ TasksOf(Append(s, f)) = TasksOf(s) \cup {f.task}
<1>1. Append(s, f) \in Seq(Frame) /\ Append(s, f)[Len(s) + 1] = f
  BY SMTT(30)
<1>2. \A i \in DOMAIN s : Append(s, f)[i] = s[i]
  BY SMTT(30)
<1>3. DOMAIN Append(s, f) = DOMAIN s \cup {Len(s) + 1}
  BY SMTT(30)
<1> QED  BY <1>1, <1>2, <1>3, ZenonT(30) DEF TasksOf

\* A task put into the queue, and one taken out.
LEMMA QueueEnds ==
    ASSUME NEW q \in Seq(Tasks), NEW t \in Tasks
    PROVE  /\ Append(q, t) \in Seq(Tasks) /\ Range(Append(q, t)) = Range(q) \cup {t}
           /\ q # <<>> => /\ Head(q) \in Tasks /\ Tail(q) \in Seq(Tasks)
                          /\ Range(q) = Range(Tail(q)) \cup {Head(q)}
<1>1. Append(q, t) \in Seq(Tasks) /\ Append(q, t)[Len(q) + 1] = t
  BY SMTT(30)
<1>2. \A i \in DOMAIN q : Append(q, t)[i] = q[i]
  BY SMTT(30)
<1>3. DOMAIN Append(q, t) = DOMAIN q \cup {Len(q) + 1}
  BY SMTT(30)
<1>4. Range(Append(q, t)) = Range(q) \cup {t}
  BY <1>1, <1>2, <1>3, ZenonT(30) DEF Range
<1>5. ASSUME q # <<>>
      PROVE  /\ Head(q) \in Tasks /\ Tail(q) \in Seq(Tasks)
             /\ Range(q) = Range(Tail(q)) \cup {Head(q)}
  <2>1. Head(q) \in Tasks /\ Tail(q) \in Seq(Tasks) /\ Len(q) \in Nat \ {0}
    BY <1>5, SMTT(30)
  <2>2. \A i \in DOMAIN Tail(q) : i + 1 \in DOMAIN q /\ Tail(q)[i] = q[i + 1]
    BY <1>5, SMTT(30)
  <2>3. \A i \in DOMAIN q : i = 1 \/ (i - 1 \in DOMAIN Tail(q) /\ q[i] = Tail(q)[i - 1])
    BY <1>5, SMTT(30)
  <2>4. 1 \in DOMAIN q /\ Head(q) = q[1]
    BY <1>5, SMTT(30)
  <2>5. Range(q) \subseteq Range(Tail(q)) \cup {Head(q)}
    BY <2>3, <2>4, ZenonT(30) DEF Range
  <2>6. Range(Tail(q)) \cup {Head(q)} \subseteq Range(q)
    <3>1. \A j \in DOMAIN q : q[j] \in Range(q)
      BY Zenon DEF Range
    <3>2. \A i \in DOMAIN Tail(q) : Tail(q)[i] \in Range(q)
      BY <2>2, <3>1, Zenon
    <3> QED  BY <2>4, <3>1, <3>2, Zenon DEF Range
  <2> QED  BY <2>1, <2>5, <2>6, Zenon
<1> QED  BY <1>1, <1>4, <1>5, Zenon

\* The frames of a thread that went on, or that gave its task up, are those of
\* the same tasks.
Given(th) == Append(Outer(frames[th]), [Top(th) EXCEPT !.ip = Len(Program[Top(th).task]) + 1])

\* A call that returned.
LEMMA AdvancedKeeps ==
    ASSUME Types, NEW th \in Threads
    PROVE  Advanced(th) \in Seq(Frame) /\ TasksOf(Advanced(th)) = TasksOf(frames[th])
<1>1. frames[th] \in Seq(Frame)
  BY Zenon DEF Types
<1>2. CASE frames[th] = <<>>
  BY <1>1, <1>2, Zenon DEF Advanced
<1>3. CASE frames[th] # <<>>
  <2> DEFINE f == [Top(th) EXCEPT !.ip = @ + 1]
  <2>1. Top(th) \in Frame
    BY <1>1, <1>3, OuterInner, Zenon DEF Top
  <2>2. f \in Frame /\ f.task = Top(th).task
    BY <2>1, SMTT(30) DEF Frame
  <2>3. Advanced(th) = Append(Outer(frames[th]), f)
    BY <1>3, Zenon DEF Advanced
  <2> HIDE DEF f
  <2>6. /\ Outer(frames[th]) \in Seq(Frame)
        /\ TasksOf(frames[th]) = TasksOf(Outer(frames[th])) \cup {Top(th).task}
    BY <1>1, <1>3, OuterInner, Zenon DEF Top
  <2>7. /\ Append(Outer(frames[th]), f) \in Seq(Frame)
        /\ TasksOf(Append(Outer(frames[th]), f)) = TasksOf(Outer(frames[th])) \cup {f.task}
    BY <2>2, <2>6, AppendFrame, Zenon
  <2> QED  BY <2>2, <2>3, <2>6, <2>7, Zenon
<1> QED  BY <1>2, <1>3, Zenon

\* A request for a lease that failed.
LEMMA GivenKeeps ==
    ASSUME Types, NEW th \in Threads, frames[th] # <<>>
    PROVE  Given(th) \in Seq(Frame) /\ TasksOf(Given(th)) = TasksOf(frames[th])
<1> DEFINE n == Len(Program[Top(th).task]) + 1
<1>1. frames[th] \in Seq(Frame)
  BY Zenon DEF Types
<1>2. Top(th) \in Frame
  BY <1>1, OuterInner, Zenon DEF Top
<1>3. n \in Nat \ {0}
  BY <1>2, PoolAssumption, SMTT(30) DEF Frame
<1> HIDE DEF n
<1> DEFINE f == [Top(th) EXCEPT !.ip = n]
<1>4. f \in Frame /\ f.task = Top(th).task
  BY <1>2, <1>3, SMTT(30) DEF Frame
<1>5. Given(th) = Append(Outer(frames[th]), f)
  BY Zenon DEF Given, n
<1> HIDE DEF f
<1>6. /\ Outer(frames[th]) \in Seq(Frame)
      /\ TasksOf(frames[th]) = TasksOf(Outer(frames[th])) \cup {Top(th).task}
  BY <1>1, OuterInner, Zenon DEF Top
<1>7. /\ Append(Outer(frames[th]), f) \in Seq(Frame)
      /\ TasksOf(Append(Outer(frames[th]), f)) = TasksOf(Outer(frames[th])) \cup {f.task}
  BY <1>4, <1>6, AppendFrame, Zenon
<1> QED  BY <1>4, <1>5, <1>6, <1>7, Zenon

\* The frame of a task that is only beginning.
LEMMA BegunFrame ==
    ASSUME NEW t \in Tasks, NEW nested \in BOOLEAN
    PROVE  /\ [task |-> t, ip |-> 1, nested |-> nested] \in Frame
           /\ [task |-> t, ip |-> 1, nested |-> nested].task = t
BY SMTT(30) DEF Frame
-----------------------------------------------------------------------------
(* What a thread does to the pool. *)

\* A step of a thread changes its own frames only.  No task gets lost from
\* them, from the queue or from those accepted; a worker that left stays out;
\* and once the sink is being closed there is nothing left to do.
Effect(th, fr) ==
    /\ frames' = [frames EXCEPT ![th] = fr]
    /\ queue' \in Seq(Tasks) /\ waiting' \in [Threads -> Tasks \cup {None}]
    /\ todo' \in [Hosts -> Seq(Tasks)]
    /\ exited \subseteq exited' /\ exited' \subseteq Workers /\ exited' \subseteq exited \cup {th}
    /\ th \in exited' => fr = <<>>
    /\ exited' # {} => stopping' /\ queue' = <<>>
    /\ joined' => joined \/ Workers \ {th} \subseteq exited'
    /\ accepted' \subseteq accepted \cup Range(queue') \cup TasksOf(fr)
    /\ Range(queue) \subseteq Range(queue') \cup TasksOf(fr)
    /\ TasksOf(frames[th]) \subseteq TasksOf(fr) \cup finished' /\ finished \subseteq finished'
    /\ closing => UNCHANGED <<frames, queue, waiting, todo>>
Move(th) == \E fr \in Seq(Frame) : Effect(th, fr)

\* A thread at a call is inside a task.
LEMMA AtCall ==
    ASSUME Inv, NEW th \in Threads, Running(th)
    PROVE  /\ frames[th] # <<>> /\ frames[th] \in Seq(Frame) /\ Top(th) \in Frame
           /\ Top(th).task \in Tasks
           /\ th \notin exited /\ ~closing
<1>1. frames[th] # <<>> /\ frames[th] \in Seq(Frame)
  BY Zenon DEF Running, Inv, Types
<1>2. Top(th) \in Frame
  BY <1>1, OuterInner, Zenon DEF Top
<1>3. Top(th).task \in Tasks
  BY <1>2, SMTT(30) DEF Frame
<1> QED  BY <1>1, <1>2, <1>3, Zenon DEF Inv, ExitInv, IdleInv

\* Frames that change, while the pool stays: the calls of a task.
LEMMA CallMoves ==
    ASSUME Inv, NEW th \in Threads, Running(th), Call(th),
           Step(th) \/ Leave(th) \/ UNCHANGED frames
    PROVE  Move(th)
<1>1. /\ frames[th] # <<>> /\ frames[th] \in Seq(Frame) /\ th \notin exited /\ ~closing
  BY AtCall, Zenon
<1>2. PICK fr \in Seq(Frame) : /\ frames' = [frames EXCEPT ![th] = fr]
                               /\ TasksOf(fr) = TasksOf(frames[th])
  <2>1. CASE Step(th)
    BY <2>1, AdvancedKeeps, Zenon DEF Step, Inv
  <2>2. CASE Leave(th)
    BY <1>1, <2>2, GivenKeeps, Zenon DEF Leave, Given, Inv
  <2>3. CASE UNCHANGED frames
    BY <1>1, <2>3, Zenon DEF Inv, Types
  <2> QED  BY <2>1, <2>2, <2>3, Zenon
<1>3. Effect(th, fr)
  BY <1>1, <1>2, ZenonT(30) DEF Effect, Call, Inv, Types, ExitInv
<1> QED  BY <1>3, Zenon DEF Move

\* A submission: the task is refused, queued, waits for space, or is run by
\* the thread itself.
LEMMA SubmitMoves ==
    ASSUME Inv, NEW th \in Threads, NEW t \in Tasks, NEW continuation \in BOOLEAN,
           Submit(th, t, continuation), th \notin exited, ~closing,
           todo' \in [Hosts -> Seq(Tasks)]
    PROVE  Move(th)
<1>1. /\ Advanced(th) \in Seq(Frame) /\ TasksOf(Advanced(th)) = TasksOf(frames[th])
  BY AdvancedKeeps, Zenon DEF Inv
<1>2. UNCHANGED <<full, stopping, exited, joined, finished>>
  BY Zenon DEF Submit
<1>3. ASSUME NEW nested \in BOOLEAN, Inline(th, t, nested), UNCHANGED waiting
      PROVE  Move(th)
  <2> DEFINE f == [task |-> t, ip |-> 1, nested |-> nested]
  <2>1. f \in Frame /\ f.task = t
    BY BegunFrame, Zenon
  <2>2. frames' = [frames EXCEPT ![th] = Append(Advanced(th), f)]
    BY <1>3, Zenon DEF Inline
  <2> HIDE DEF f
  <2>3. /\ Append(Advanced(th), f) \in Seq(Frame)
        /\ TasksOf(Append(Advanced(th), f)) = TasksOf(frames[th]) \cup {t}
    BY <1>1, <2>1, AppendFrame, Zenon
  <2>4. Effect(th, Append(Advanced(th), f))
    BY <1>2, <1>3, <2>2, <2>3, ZenonT(30) DEF Effect, Inline, Inv, Types, ExitInv
  <2> QED  BY <2>3, <2>4, Zenon DEF Move
<1>4. ASSUME Step(th), Refuse(t), UNCHANGED waiting PROVE Move(th)
  <2>1. Effect(th, Advanced(th))
    BY <1>1, <1>2, <1>4, ZenonT(30) DEF Effect, Step, Refuse, Inv, Types, ExitInv
  <2> QED  BY <1>1, <2>1, Zenon DEF Move
<1>5. ASSUME Step(th), Enqueue(t), ~stopping, UNCHANGED waiting PROVE Move(th)
  <2>1. /\ queue' \in Seq(Tasks) /\ Range(queue') = Range(queue) \cup {t}
        /\ accepted' = accepted \cup {t} /\ exited = {}
    BY <1>5, QueueEnds, Zenon DEF Enqueue, Inv, Types, ExitInv
  <2>2. Effect(th, Advanced(th))
    BY <1>1, <1>2, <1>5, <2>1, ZenonT(30) DEF Effect, Step, Inv, Types
  <2> QED  BY <1>1, <2>2, Zenon DEF Move
<1>6. ASSUME Step(th), waiting' = [waiting EXCEPT ![th] = t],
             UNCHANGED <<queue, accepted, refused>>
      PROVE  Move(th)
  <2>1. waiting' \in [Threads -> Tasks \cup {None}]
    BY <1>6, Zenon DEF Inv, Types
  <2>2. Effect(th, Advanced(th))
    BY <1>1, <1>2, <1>6, <2>1, ZenonT(30) DEF Effect, Step, Inv, Types, ExitInv
  <2> QED  BY <1>1, <2>2, Zenon DEF Move
<1> QED  BY <1>3, <1>4, <1>5, <1>6, ZenonT(30) DEF Submit

\* The wait for space ends.
LEMMA SpaceMoves ==
    ASSUME Inv, NEW th \in Threads, SpaceFound(th), UNCHANGED todo
    PROVE  Move(th)
<1>1. /\ frames[th] \in Seq(Frame) /\ frames' = [frames EXCEPT ![th] = frames[th]]
  BY Zenon DEF SpaceFound, Inv, Types
<1>2. /\ waiting[th] \in Tasks /\ ~closing
      /\ waiting' \in [Threads -> Tasks \cup {None}]
  BY Zenon DEF SpaceFound, Inv, Types, IdleInv
<1>3. UNCHANGED <<stopping, exited, joined, finished>>
  BY Zenon DEF SpaceFound
<1>4. CASE Refuse(waiting[th])
  <2>1. Effect(th, frames[th])
    BY <1>1, <1>2, <1>3, <1>4, ZenonT(30) DEF Effect, Refuse, Inv, Types, ExitInv
  <2> QED  BY <1>1, <2>1, Zenon DEF Move
<1>5. CASE ~stopping /\ Enqueue(waiting[th])
  <2>1. /\ queue' \in Seq(Tasks) /\ Range(queue') = Range(queue) \cup {waiting[th]}
        /\ accepted' = accepted \cup {waiting[th]} /\ exited = {}
    BY <1>2, <1>5, QueueEnds, Zenon DEF Enqueue, Inv, Types, ExitInv
  <2>2. Effect(th, frames[th])
    BY <1>1, <1>2, <1>3, <2>1, ZenonT(30) DEF Effect, Inv, Types
  <2> QED  BY <1>1, <2>2, Zenon DEF Move
<1> QED  BY <1>4, <1>5, Zenon DEF SpaceFound

\* A worker takes the oldest task.
LEMMA TakeMoves ==
    ASSUME Inv, NEW th \in Workers, Take(th), UNCHANGED todo
    PROVE  Move(th)
<1> DEFINE f == [task |-> Head(queue), ip |-> 1, nested |-> FALSE]
<1>1. /\ th \in Threads /\ th \notin exited /\ queue # <<>> /\ frames[th] = <<>> /\ ~closing
      /\ exited = {} /\ queue \in Seq(Tasks)
  BY Zenon DEF Take, Threads, Inv, Types, ExitInv, IdleInv
<1>2. /\ Head(queue) \in Tasks /\ queue' \in Seq(Tasks)
      /\ Range(queue) = Range(queue') \cup {Head(queue)}
  <2>1. Head(queue) \in Tasks
    BY <1>1, SMTT(30)
  <2> QED  BY <1>1, <2>1, QueueEnds, Zenon DEF Take
<1>3. f \in Frame /\ f.task = Head(queue)
  BY <1>2, BegunFrame, Zenon
<1>4. frames' = [frames EXCEPT ![th] = <<f>>]
  BY Zenon DEF Take
<1> HIDE DEF f
<1>5. <<f>> \in Seq(Frame) /\ DOMAIN <<f>> = {1} /\ <<f>>[1] = f
  BY <1>3, SMTT(30)
<1>6. TasksOf(<<f>>) = {Head(queue)}
  BY <1>3, <1>5, Zenon DEF TasksOf
<1>7. TasksOf(frames[th]) = {}
  <2>1. DOMAIN frames[th] = {}
    BY <1>1, SMTT(30)
  <2> QED  BY <2>1, Zenon DEF TasksOf
<1>8. Effect(th, <<f>>)
  BY <1>1, <1>2, <1>4, <1>6, <1>7, ZenonT(30) DEF Effect, Take, Inv, Types
<1> QED  BY <1>5, <1>8, Zenon DEF Move

\* A worker leaves a pool that stops, with the queue empty.
LEMMA ExitMoves ==
    ASSUME Inv, NEW th \in Workers, Exit(th), UNCHANGED todo
    PROVE  Move(th)
<1>1. /\ th \in Threads /\ frames[th] = <<>> /\ frames[th] \in Seq(Frame)
      /\ frames' = [frames EXCEPT ![th] = frames[th]]
  BY Zenon DEF Exit, Threads, Inv, Types
<1>2. Effect(th, frames[th])
  BY <1>1, ZenonT(30) DEF Effect, Exit, Inv, Types, ExitInv
<1> QED  BY <1>1, <1>2, Zenon DEF Move

\* A task ends.
LEMMA FinishMoves ==
    ASSUME Inv, NEW th \in Threads, Finish(th), UNCHANGED todo
    PROVE  Move(th)
<1>1. frames[th] # <<>> /\ frames[th] \in Seq(Frame) /\ th \notin exited /\ ~closing
  BY AtCall, Zenon DEF Finish
<1>2. /\ Outer(frames[th]) \in Seq(Frame)
      /\ TasksOf(frames[th]) = TasksOf(Outer(frames[th])) \cup {Top(th).task}
  BY <1>1, OuterInner, Zenon DEF Top
<1>3. /\ frames' = [frames EXCEPT ![th] = Outer(frames[th])]
      /\ finished' = finished \cup {Top(th).task}
      /\ UNCHANGED <<queue, stopping, waiting, exited, joined, accepted>>
  BY Zenon DEF Finish
<1>4. Effect(th, Outer(frames[th]))
  BY <1>1, <1>2, <1>3, ZenonT(30) DEF Effect, Inv, Types, ExitInv
<1> QED  BY <1>2, <1>4, Zenon DEF Move

\* shutdown returns when all other workers left.
LEMMA ShutdownMoves ==
    ASSUME Inv, NEW th \in Threads, Shutdown(th), UNCHANGED todo
    PROVE  Move(th)
<1>1. frames[th] # <<>> /\ frames[th] \in Seq(Frame) /\ th \notin exited /\ ~closing
  BY AtCall, Zenon DEF Shutdown, At
<1>2. UNCHANGED <<queue, waiting, exited, accepted, finished>>
  BY Zenon DEF Shutdown
<1>3. CASE stopping' = TRUE /\ UNCHANGED <<frames, joined>>
  <2>1. frames' = [frames EXCEPT ![th] = frames[th]]
    BY <1>3, Zenon DEF Inv, Types
  <2>2. Effect(th, frames[th])
    BY <1>1, <1>2, <1>3, <2>1, ZenonT(30) DEF Effect, Inv, Types, ExitInv
  <2> QED  BY <1>1, <2>2, Zenon DEF Move
<1>4. CASE Workers \ {th} \subseteq exited /\ Step(th) /\ UNCHANGED stopping
  <2>1. /\ Advanced(th) \in Seq(Frame) /\ TasksOf(Advanced(th)) = TasksOf(frames[th])
    BY AdvancedKeeps, Zenon DEF Inv
  <2>2. Effect(th, Advanced(th))
    BY <1>1, <1>2, <1>4, <2>1, ZenonT(30) DEF Effect, Step, Inv, Types, ExitInv
  <2> QED  BY <2>1, <2>2, Zenon DEF Move
<1> QED  BY <1>3, <1>4, Zenon DEF Shutdown

\* Every step of a thread is such a move.
LEMMA ThreadMoves ==
    ASSUME Inv, NEW th \in Threads, ThreadStep(th)
    PROVE  Move(th)
<1>1. CASE th \in Hosts /\ HostSubmits(th)
  <2>1. /\ todo[th] \in Seq(Tasks) /\ todo[th] # <<>> /\ th \notin exited /\ ~closing
    BY <1>1, PoolAssumption, Zenon DEF HostSubmits, Inv, Types, IdleInv
  <2>2. Head(todo[th]) \in Tasks /\ Tail(todo[th]) \in Seq(Tasks)
    BY <2>1, SMTT(30)
  <2>3. todo' \in [Hosts -> Seq(Tasks)]
    BY <1>1, <2>2, Zenon DEF HostSubmits, Inv, Types
  <2> QED  BY <1>1, <2>1, <2>2, <2>3, SubmitMoves, Zenon DEF HostSubmits
<1>2. CASE TaskSubmits(th)
  <2>1. PICK kind \in {"continue", "nest"}, c \in BOOLEAN :
          At(th, kind) /\ Submit(th, Op(th).task, c)
    BY <1>2, Zenon DEF TaskSubmits
  <2>2. /\ Top(th) \in Frame /\ Top(th).task \in Tasks /\ th \notin exited /\ ~closing
    BY <2>1, AtCall, Zenon DEF At
  <2>3. Top(th).ip \in Nat /\ Top(th).ip > 0
    BY <2>2, SMTT(30) DEF Frame
  <2>4. Op(th).task \in Tasks
    BY <2>1, <2>2, <2>3, PoolAssumption, SMTT(30) DEF At, Op
  <2>5. todo' \in [Hosts -> Seq(Tasks)]
    BY <1>2, Zenon DEF TaskSubmits, Inv, Types
  <2> QED  BY <2>1, <2>2, <2>4, <2>5, SubmitMoves, Zenon
<1>3. CASE PoolStep(th)
  BY <1>3, SpaceMoves, FinishMoves, ShutdownMoves, TakeMoves, ExitMoves, Zenon DEF PoolStep
<1>4. CASE TaskEmits(th) \/ TaskFlushes(th) \/ TaskReleases(th)
  BY <1>4, CallMoves, Zenon DEF TaskEmits, TaskFlushes, TaskReleases, At
<1>5. CASE TaskAcquires(th)
  <2>1. At(th, "acquire") /\ Call(th)
    BY <1>5, Zenon DEF TaskAcquires
  <2>2. Step(th) \/ Leave(th) \/ UNCHANGED frames
    BY <1>5, SMTT(30) DEF TaskAcquires
  <2> QED  BY <2>1, <2>2, CallMoves, Zenon DEF At
<1> QED  BY <1>1, <1>2, <1>3, <1>4, <1>5, Zenon DEF ThreadStep

\* A move keeps what the invariant says of the pool.
PoolInv == Types /\ ExitInv /\ JoinInv /\ KeptInv /\ IdleInv

\* No thread, whatever it does, loses a task or wakes a closed service.
LEMMA MoveKeeps ==
    ASSUME Inv, NEW th \in Threads, Move(th), UNCHANGED closing
    PROVE  PoolInv'
<1>1. PICK fr \in Seq(Frame) : Effect(th, fr)
  BY Zenon DEF Move
<1>2. /\ frames'[th] = fr /\ \A x \in Threads \ {th} : frames'[x] = frames[x]
      /\ frames' \in [Threads -> Seq(Frame)]
  BY <1>1, Zenon DEF Effect, Inv, Types
<1>3. Types'
  BY <1>1, <1>2, Zenon DEF Effect, Types
<1>4. ExitInv'
  <2>1. \A w \in exited' : w \in Threads
    BY <1>3, Zenon DEF Types, Threads
  <2> QED  BY <1>1, <1>2, <2>1, ZenonT(30) DEF Effect, Inv, ExitInv
<1>5. JoinInv'
  BY <1>1, ZenonT(30) DEF Effect, Inv, JoinInv
<1>6. KeptInv'
  <2> SUFFICES ASSUME NEW t \in accepted'
               PROVE  \/ t \in finished' \/ t \in Range(queue')
                      \/ \E x \in Threads : t \in TasksOf(frames'[x])
    BY Zenon DEF KeptInv, TasksOf
  <2>1. CASE t \in Range(queue') \cup TasksOf(fr)
    BY <1>2, <2>1, Zenon
  <2>2. CASE t \in accepted /\ t \notin Range(queue') \cup TasksOf(fr)
    <3>1. t \notin Range(queue) /\ (t \in TasksOf(frames[th]) => t \in finished')
      BY <1>1, <2>2, Zenon DEF Effect
    <3>2. CASE t \in finished
      BY <1>1, <3>2, Zenon DEF Effect
    <3>3. CASE \E x \in Threads : t \in TasksOf(frames[x])
      BY <1>2, <3>1, <3>3, Zenon
    <3> QED  BY <2>2, <3>1, <3>2, <3>3, Zenon DEF Inv, KeptInv
  <2> QED  BY <1>1, <2>1, <2>2, Zenon DEF Effect
<1>7. IdleInv'
  BY <1>1, ZenonT(30) DEF Effect, Inv, IdleInv
<1> QED  BY <1>3, <1>4, <1>5, <1>6, <1>7, Zenon DEF PoolInv

\* The steps of the others leave the pool alone.
LEMMA PoolStays ==
    ASSUME Inv, UNCHANGED <<poolVars, todo>>, closing' <=> closing
    PROVE  PoolInv'
<1>1. UNCHANGED <<queue, stopping, frames, waiting, exited, joined, accepted, finished, todo>>
  BY Zenon DEF poolVars
<1>2. Types' /\ ExitInv' /\ JoinInv' /\ IdleInv'
  BY <1>1, ZenonT(30) DEF Inv, Types, ExitInv, JoinInv, IdleInv
<1>3. KeptInv'
  <2> SUFFICES ASSUME NEW t \in accepted'
               PROVE  \/ t \in finished' \/ t \in Range(queue')
                      \/ \E x \in Threads : t \in TasksOf(frames'[x])
    BY Zenon DEF KeptInv, TasksOf
  <2> QED  BY <1>1, Zenon DEF Inv, KeptInv
<1> QED  BY <1>2, <1>3, Zenon DEF PoolInv
-----------------------------------------------------------------------------
(* The trace. *)

\* Emitters put tasks into the queue of the sink, and only while it is open.
LEMMA EmitKeeps ==
    ASSUME Inv, NEW e \in Tasks, Emit(e), ~closing
    PROVE  TraceInv' /\ EventsConserved'
<1>1. /\ events \in Seq(Tasks) /\ active \in Tasks \cup {NoEvent} /\ ~closed
      /\ taken \in Nat /\ dropped \in Nat /\ exported \in Nat
  BY Zenon DEF Inv, TraceInv
<1> DEFINE busy == IF active = NoEvent THEN 0 ELSE 1
<1>2. /\ Len(events) \in Nat /\ busy \in Nat
      /\ taken = exported + Len(events) + busy
                   + (IF tracePolicy = "drop_oldest" THEN dropped ELSE 0)
  BY <1>1, SMTT(30) DEF Inv, EventsConserved
<1>3. UNCHANGED <<tracePolicy, active, closing, closed, exported>>
  BY Zenon DEF Emit
<1>4. /\ Append(events, e) \in Seq(Tasks) /\ Len(Append(events, e)) = Len(events) + 1
  BY <1>1, SMTT(30)
<1>5. CASE /\ Len(events) < TraceCapacity /\ events' = Append(events, e) /\ taken' = taken + 1
           /\ UNCHANGED dropped
  BY <1>1, <1>2, <1>3, <1>4, <1>5, SMTT(30) DEF TraceInv, EventsConserved
<1>6. CASE /\ tracePolicy = "drop_newest" /\ dropped' = dropped + 1 /\ UNCHANGED <<events, taken>>
  BY <1>1, <1>2, <1>3, <1>6, SMTT(30) DEF TraceInv, EventsConserved
<1>7. CASE /\ Len(events) >= TraceCapacity /\ tracePolicy = "drop_oldest"
           /\ dropped' = dropped + 1
           /\ events' = Append(Tail(events), e) /\ taken' = taken + 1
  <2>1. /\ Append(Tail(events), e) \in Seq(Tasks)
        /\ Len(Append(Tail(events), e)) = Len(events)
    BY <1>1, <1>7, TraceAssumption, SMTT(30)
  <2> QED  BY <1>1, <1>2, <1>3, <1>7, <2>1, SMTT(30) DEF TraceInv, EventsConserved
<1> QED  BY <1>5, <1>6, <1>7, Zenon DEF Emit, Put

\* The exporter moves an event on, or leaves an empty queue.
LEMMA ExporterKeeps ==
    ASSUME Inv, ExportStart \/ ExportEnd \/ ExporterLeaves
    PROVE  TraceInv' /\ EventsConserved'
<1>1. /\ events \in Seq(Tasks) /\ active \in Tasks \cup {NoEvent} /\ (closed => closing)
      /\ taken \in Nat /\ dropped \in Nat /\ exported \in Nat
  BY Zenon DEF Inv, TraceInv
<1>2. /\ Len(events) \in Nat /\ (closed => events = <<>> /\ active = NoEvent)
      /\ taken = exported + Len(events) + (IF active = NoEvent THEN 0 ELSE 1)
                   + (IF tracePolicy = "drop_oldest" THEN dropped ELSE 0)
  BY <1>1, SMTT(30) DEF Inv, EventsConserved, Flushed
<1>3. CASE ExportStart
  <2>1. /\ active = NoEvent /\ active' = Head(events) /\ events' = Tail(events) /\ ~closed
        /\ UNCHANGED <<tracePolicy, closing, closed, taken, dropped, exported>>
    BY <1>2, <1>3, Zenon DEF ExportStart
  <2>2. /\ Head(events) \in Tasks /\ Tail(events) \in Seq(Tasks)
        /\ Len(Tail(events)) = Len(events) - 1
    BY <1>1, <1>3, SMTT(30) DEF ExportStart
  <2>3. active' # NoEvent
    BY <2>1, <2>2, ServicesAssumption, Zenon
  <2>4. TraceInv'
    BY <1>1, <2>1, <2>2, Zenon DEF TraceInv
  <2>5. EventsConserved'
    BY <1>1, <1>2, <2>1, <2>2, <2>3, SMTT(30) DEF EventsConserved
  <2> QED  BY <2>4, <2>5, Zenon
<1>4. CASE ExportEnd
  BY <1>1, <1>2, <1>4, SMTT(30) DEF ExportEnd, TraceInv, EventsConserved
<1>5. CASE ExporterLeaves
  BY <1>1, <1>2, <1>5, SMTT(30) DEF ExporterLeaves, TraceInv, EventsConserved, Flushed
<1> QED  BY <1>3, <1>4, <1>5, Zenon

\* The steps of the others leave the trace alone.
LEMMA TraceStays ==
    ASSUME Inv, UNCHANGED traceVars
    PROVE  TraceInv' /\ EventsConserved'
BY ZenonT(30) DEF Inv, traceVars, TraceInv, EventsConserved, Flushed
-----------------------------------------------------------------------------
(* The leases. *)

\* Finitely many leases hold finitely many units: none more than the capacity.
LEMMA SlotsOf ==
    ASSUME NEW S \in SUBSET Granted, IsFiniteSet(S), NEW r \in Resources
    PROVE  IsFiniteSet(Slots(S, r)) /\ Units(S, r) \in Nat
<1>1. LeaseCapacity[r] \in Nat
  BY LeaseAssumption, Zenon
<1>2. \A t \in S : /\ Requests[t].units[r] \in Nat
                   /\ Requests[t].units[r] <= LeaseCapacity[r]
  BY LeaseAssumption, Zenon DEF Granted, Possible
<1>3. \A t \in S : 1..Requests[t].units[r] \subseteq 1..LeaseCapacity[r]
  BY <1>1, <1>2, SMTT(30)
<1>4. Slots(S, r) \in SUBSET (S \X (1..LeaseCapacity[r]))
  <2> SUFFICES ASSUME NEW x \in Slots(S, r) PROVE x \in S \X (1..LeaseCapacity[r])
    BY Zenon
  <2>1. PICK t \in S : x \in {t} \X (1..Requests[t].units[r])
    BY Zenon DEF Slots
  <2> QED  BY <1>3, <2>1, SMTT(30)
<1>5. IsFiniteSet(1..LeaseCapacity[r])
  BY <1>1, FS_Interval, SMTT(30)
<1>6. IsFiniteSet(S \X (1..LeaseCapacity[r]))
  BY <1>5, FS_Product, Zenon
<1>7. IsFiniteSet(Slots(S, r))
  BY <1>4, <1>6, FS_Subset, Zenon
<1> QED  BY <1>7, FS_CardinalityType, Zenon DEF Units

\* What leases hold adds up: each unit is in one of them.
LEMMA UnitsAdd ==
    ASSUME NEW S \in SUBSET Granted, NEW T \in SUBSET Granted, IsFiniteSet(S), IsFiniteSet(T),
           S \cap T = {}, NEW r \in Resources
    PROVE  Units(S \cup T, r) = Units(S, r) + Units(T, r)
<1>1. IsFiniteSet(Slots(S, r)) /\ IsFiniteSet(Slots(T, r))
  BY SlotsOf, Zenon
<1>2. Slots(S \cup T, r) = Slots(S, r) \cup Slots(T, r)
  BY ZenonT(30) DEF Slots
<1>3. Slots(S, r) \cap Slots(T, r) = {}
  <2> SUFFICES ASSUME NEW x \in Slots(S, r), x \in Slots(T, r) PROVE FALSE
    BY Zenon
  <2>1. PICK s \in S : x \in {s} \X (1..Requests[s].units[r])
    BY Zenon DEF Slots
  <2>2. PICK t \in T : x \in {t} \X (1..Requests[t].units[r])
    BY Zenon DEF Slots
  <2> QED  BY <2>1, <2>2, SMTT(30)
<1>4. Cardinality(Slots(S, r) \cap Slots(T, r)) = 0
  BY <1>3, FS_EmptySet, Zenon
<1>5. Cardinality(Slots(S, r)) \in Nat /\ Cardinality(Slots(T, r)) \in Nat
  BY <1>1, FS_CardinalityType, Zenon
<1>6. Cardinality(Slots(S, r) \cup Slots(T, r))
        = Cardinality(Slots(S, r)) + Cardinality(Slots(T, r))
            - Cardinality(Slots(S, r) \cap Slots(T, r))
  BY <1>1, FS_Union, Zenon
<1>7. Cardinality(Slots(S, r) \cup Slots(T, r))
        = Cardinality(Slots(S, r)) + Cardinality(Slots(T, r))
  BY <1>4, <1>5, <1>6, SMTT(30)
<1> QED  BY <1>2, <1>7, Zenon DEF Units

\* One lease holds what was asked for.
LEMMA UnitsOfOne ==
    ASSUME NEW t \in Granted, NEW r \in Resources
    PROVE  Units({t}, r) = Requests[t].units[r] /\ Requests[t].units[r] \in Nat
<1> DEFINE n == Requests[t].units[r]
<1>1. n \in Nat
  BY LeaseAssumption, Zenon DEF Granted
<1>2. Slots({t}, r) = {t} \X (1..n)
  BY Zenon DEF Slots
<1> HIDE DEF n
<1>3. IsFiniteSet(1..n) /\ Cardinality(1..n) = n
  BY <1>1, FS_Interval, SMTT(30)
<1>4. IsFiniteSet({t}) /\ Cardinality({t}) = 1
  BY FS_Singleton, Zenon
<1>5. Cardinality({t} \X (1..n)) = Cardinality({t}) * Cardinality(1..n)
  BY <1>3, <1>4, FS_Product, Zenon
<1>6. Cardinality({t} \X (1..n)) = n
  BY <1>1, <1>3, <1>4, <1>5, SMTT(30)
<1> QED  BY <1>1, <1>2, <1>6, Zenon DEF Units, n

\* Leases that are given back make their units free, and the others keep theirs.
LEMMA BackUnits ==
    ASSUME LeaseInv, CapacityConserved, NEW G \in SUBSET Held, NEW r \in Resources
    PROVE  /\ IsFiniteSet(Held \ G) /\ Held \ G \in SUBSET Granted
           /\ Units(Held \ G, r) \in Nat /\ Units(G, r) \in Nat
           /\ Returned(G)[r] = available[r] + Units(G, r)
           /\ Returned(G)[r] + Units(Held \ G, r) = LeaseCapacity[r]
<1>1. /\ IsFiniteSet(G) /\ IsFiniteSet(Held \ G)
      /\ G \in SUBSET Granted /\ Held \ G \in SUBSET Granted
  <2>1. IsFiniteSet(Held) /\ Held \ G \in SUBSET Held /\ Held \subseteq Granted
    BY Zenon DEF LeaseInv
  <2> QED  BY <2>1, FS_Subset, Zenon
<1>2. Units(G, r) \in Nat /\ Units(Held \ G, r) \in Nat
  BY <1>1, SlotsOf, Zenon
<1>3. Units(Held, r) = Units(G, r) + Units(Held \ G, r)
  <2>1. Held = G \cup (Held \ G) /\ G \cap (Held \ G) = {}
    BY Zenon
  <2>2. Units(G \cup (Held \ G), r) = Units(G, r) + Units(Held \ G, r)
    BY <1>1, <2>1, UnitsAdd, Zenon
  <2> QED  BY <2>1, <2>2, Zenon
<1>4. available[r] \in Nat /\ LeaseCapacity[r] \in Nat
      /\ available[r] + Units(Held, r) = LeaseCapacity[r]
  BY LeaseAssumption, Zenon DEF LeaseInv, CapacityConserved
<1>5. Returned(G)[r] = available[r] + Units(G, r)
  BY Zenon DEF Returned
<1>6. Returned(G)[r] + Units(Held \ G, r) = LeaseCapacity[r]
  BY <1>2, <1>3, <1>4, <1>5, SMTT(30)
<1> QED  BY <1>1, <1>2, <1>5, <1>6, Zenon

\* CapacityConserved after a step, from the leases held then.
LEMMA ConservedNext ==
    ASSUME NEW H, Held' = H, \A r \in Resources : available'[r] + Units(H, r) = LeaseCapacity[r]
    PROVE  CapacityConserved'
BY Zenon DEF CapacityConserved, Units, Slots

\* A step that gives leases back, each once.
LEMMA GiveBack ==
    ASSUME LeaseInv, CapacityConserved, NEW G \in SUBSET Held,
           available' = Returned(G), Held' = Held \ G
    PROVE  /\ available' \in [Resources -> Nat] /\ CapacityConserved'
           /\ Held' \subseteq Granted /\ IsFiniteSet(Held')
<1>1. \A r \in Resources : /\ available'[r] + Units(Held \ G, r) = LeaseCapacity[r]
                           /\ available'[r] = available[r] + Units(G, r) /\ Units(G, r) \in Nat
  BY BackUnits, Zenon
<1>2. available' = [r \in Resources |-> available'[r]]
  BY Zenon DEF Returned
<1>3. \A r \in Resources : available'[r] \in Nat
  <2>1. \A r \in Resources : available[r] \in Nat
    BY Zenon DEF LeaseInv
  <2> QED  BY <1>1, <2>1, SMTT(30)
<1>4. CapacityConserved'
  <2> DEFINE H == Held \ G
  <2>1. Held' = H /\ \A r \in Resources : available'[r] + Units(H, r) = LeaseCapacity[r]
    BY <1>1, Zenon
  <2> HIDE DEF H
  <2> QED  BY <2>1, ConservedNext, Zenon
<1>5. IsFiniteSet(Held \ G) /\ Held \ G \subseteq Granted
  BY FS_Subset, Zenon DEF LeaseInv
<1> QED  BY <1>2, <1>3, <1>4, <1>5, Zenon

\* A step that gives leases back and grants another one.
LEMMA Grant ==
    ASSUME LeaseInv, CapacityConserved, NEW G \in SUBSET Held, NEW t \in Granted, t \notin Held \ G,
           \A r \in Resources : Requests[t].units[r] <= Returned(G)[r],
           available' = [r \in Resources |-> Returned(G)[r] - Requests[t].units[r]],
           Held' = (Held \ G) \cup {t}
    PROVE  /\ available' \in [Resources -> Nat] /\ CapacityConserved'
           /\ Held' \subseteq Granted /\ IsFiniteSet(Held')
<1>1. \A r \in Resources : /\ available'[r] \in Nat
                           /\ available'[r] + Units((Held \ G) \cup {t}, r) = LeaseCapacity[r]
  <2> TAKE r \in Resources
  <2>1. /\ IsFiniteSet(Held \ G) /\ Held \ G \in SUBSET Granted
        /\ Units(Held \ G, r) \in Nat /\ Units(G, r) \in Nat
        /\ Returned(G)[r] = available[r] + Units(G, r)
        /\ Returned(G)[r] + Units(Held \ G, r) = LeaseCapacity[r]
    BY BackUnits, Zenon
  <2>2. Units({t}, r) = Requests[t].units[r] /\ Requests[t].units[r] \in Nat
    BY UnitsOfOne, Zenon
  <2>3. Units((Held \ G) \cup {t}, r) = Units(Held \ G, r) + Units({t}, r)
    <3>1. IsFiniteSet({t}) /\ {t} \in SUBSET Granted /\ (Held \ G) \cap {t} = {}
      BY FS_Singleton, Zenon
    <3> QED  BY <2>1, <3>1, UnitsAdd, Zenon
  <2>4. available[r] \in Nat /\ Requests[t].units[r] <= Returned(G)[r]
        /\ available'[r] = Returned(G)[r] - Requests[t].units[r]
    BY Zenon DEF LeaseInv
  <2> QED  BY <2>1, <2>2, <2>3, <2>4, SMTT(30)
<1>2. available' = [r \in Resources |-> available'[r]]
  BY Zenon
<1>3. CapacityConserved'
  <2> DEFINE H == (Held \ G) \cup {t}
  <2>1. Held' = H /\ \A r \in Resources : available'[r] + Units(H, r) = LeaseCapacity[r]
    BY <1>1, Zenon
  <2> HIDE DEF H
  <2> QED  BY <2>1, ConservedNext, Zenon
<1>4. IsFiniteSet((Held \ G) \cup {t})
  <2>1. IsFiniteSet(Held \ G)
    BY FS_Subset, Zenon DEF LeaseInv
  <2> QED  BY <2>1, FS_AddElement, Zenon
<1>5. (Held \ G) \cup {t} \subseteq Granted
  BY Zenon DEF LeaseInv
<1> QED  BY <1>1, <1>2, <1>3, <1>4, <1>5, Zenon

\* sweep takes back leases that are held, and no other is touched.
LEMMA SweepHolds ==
    ASSUME LeaseInv
    PROVE  /\ Sweep \subseteq Held /\ DOMAIN lease = Tasks
           /\ Swept \in [Tasks -> {"none", "held", "reclaimed", "destroyed"}]
           /\ \A u \in Tasks : Swept[u] = "held" <=> u \in Held \ Sweep
<1>1. DOMAIN lease = Tasks
  BY Zenon DEF LeaseInv
<1>2. Sweep \subseteq Held
  BY Zenon DEF Sweep, Expired
<1>3. ASSUME NEW u \in Tasks
      PROVE  /\ Swept[u] \in {"none", "held", "reclaimed", "destroyed"}
             /\ Swept[u] = "held" <=> u \in Held \ Sweep
  <2>1. Swept[u] = IF u \in Sweep THEN "reclaimed" ELSE lease[u]
    BY <1>1, Zenon DEF Swept
  <2>2. lease[u] \in {"none", "held", "reclaimed", "destroyed"}
    BY Zenon DEF LeaseInv
  <2>3. u \in Held <=> lease[u] = "held"
    BY <1>1, Zenon DEF Held
  <2> QED  BY <2>1, <2>2, <2>3, SMTT(30)
<1>4. Swept = [u \in Tasks |-> Swept[u]]
  BY <1>1, Zenon DEF Swept
<1> QED  BY <1>1, <1>2, <1>3, <1>4, Zenon

\* A step that changes no lease.
LEMMA LeaseStays ==
    ASSUME LeaseInv, CapacityConserved, UNCHANGED <<lease, available>>, left' \in [Tasks -> Nat]
    PROVE  LeaseInv' /\ CapacityConserved'
<1>1. Held' = Held
  BY Zenon DEF Held
<1>2. CapacityConserved'
  BY <1>1, Zenon DEF CapacityConserved, Units, Slots
<1> QED  BY <1>1, <1>2, Zenon DEF LeaseInv

\* A turn in acquire: what is expired comes back, and a lease that is granted
\* fits into what is free.
LEMMA AcquireKeeps ==
    ASSUME LeaseInv, CapacityConserved, NEW t \in Granted, NEW ws, NEW outcome,
           outcome = "granted" => Fits(t, Returned(Sweep)), Acquire(t, ws, outcome)
    PROVE  LeaseInv' /\ CapacityConserved'
<1>1. /\ Sweep \subseteq Held /\ DOMAIN lease = Tasks
      /\ Swept \in [Tasks -> {"none", "held", "reclaimed", "destroyed"}]
      /\ \A u \in Tasks : Swept[u] = "held" <=> u \in Held \ Sweep
  BY SweepHolds, Zenon
<1>2. t \in Tasks /\ Held \subseteq Tasks
  BY <1>1, Zenon DEF Granted, Asking, Held
<1>3. CASE outcome # "granted"
  <2>1. lease' = Swept /\ available' = Returned(Sweep \cup {}) /\ UNCHANGED left
    BY <1>3, SMTT(30) DEF Acquire
  <2>2. available' = Returned(Sweep)
    <3>1. Sweep \cup {} = Sweep
      BY Zenon
    <3> QED  BY <2>1, <3>1, Zenon
  <2>3. Held' = Held \ Sweep
    BY <1>1, <1>2, <2>1, ZenonT(30) DEF Held
  <2>4. /\ available' \in [Resources -> Nat] /\ CapacityConserved'
        /\ Held' \subseteq Granted /\ IsFiniteSet(Held')
    BY <1>1, <2>2, <2>3, GiveBack, Zenon
  <2> QED  BY <1>1, <2>1, <2>4, Zenon DEF LeaseInv
<1>4. CASE outcome = "granted"
  <2> DEFINE G == Sweep \cup ({t} \cap Held)
  <2>1. /\ lease' = [Swept EXCEPT ![t] = "held"] /\ left' = [left EXCEPT ![t] = Ttl]
        /\ available' = [r \in Resources |-> Returned(G)[r] - Requests[t].units[r]]
    BY <1>4, SMTT(30) DEF Acquire
  <2>2. G \in SUBSET Held /\ Sweep \subseteq G /\ t \notin Held \ G
        /\ Held \ Sweep \subseteq (Held \ G) \cup {t} /\ (Held \ G) \subseteq Held \ Sweep
    BY <1>1, Zenon
  <2> HIDE DEF G
  <2>3. lease' \in [Tasks -> {"none", "held", "reclaimed", "destroyed"}]
    BY <1>1, <1>2, <2>1, Zenon
  <2>4. DOMAIN lease' = Tasks /\ \A u \in Tasks : lease'[u] = "held" <=> u = t \/ u \in Held \ Sweep
    BY <1>1, <1>2, <2>1, Zenon
  <2>5. Held' = (Held \ G) \cup {t}
    <3>1. \A u \in Tasks : u = t \/ u \in Held \ Sweep <=> u \in (Held \ G) \cup {t}
      BY <2>2, Zenon
    <3>2. Held' = {u \in Tasks : u \in (Held \ G) \cup {t}}
      BY <2>4, <3>1, Zenon DEF Held
    <3> QED  BY <1>2, <3>2, Zenon
  <2>6. \A r \in Resources : Requests[t].units[r] <= Returned(G)[r]
    <3> TAKE r \in Resources
    <3>1. Requests[t].units[r] <= Returned(Sweep)[r]
      BY <1>4, Zenon DEF Fits
    <3>2. /\ Returned(Sweep)[r] = available[r] + Units(Sweep, r) /\ Units(Sweep, r) \in Nat
          /\ Returned(G)[r] = available[r] + Units(G, r) /\ Units(G, r) \in Nat
      BY <1>1, <2>2, BackUnits, Zenon
    <3>3. Units(Sweep, r) <= Units(G, r)
      <4>1. /\ IsFiniteSet(Held) /\ Sweep \in SUBSET Granted /\ G \ Sweep \in SUBSET Granted
            /\ Sweep \in SUBSET Held /\ G \ Sweep \in SUBSET Held
        BY <1>1, <2>2, Zenon DEF LeaseInv
      <4>2. IsFiniteSet(Sweep) /\ IsFiniteSet(G \ Sweep)
        BY <4>1, FS_Subset, Zenon
      <4>3. Sweep \cup (G \ Sweep) = G /\ Sweep \cap (G \ Sweep) = {}
        BY <2>2, Zenon
      <4>4. Units(Sweep \cup (G \ Sweep), r) = Units(Sweep, r) + Units(G \ Sweep, r)
        BY <4>1, <4>2, <4>3, UnitsAdd, Zenon
      <4>5. Units(G \ Sweep, r) \in Nat
        BY <4>1, <4>2, SlotsOf, Zenon
      <4>6. Units(G, r) = Units(Sweep, r) + Units(G \ Sweep, r)
        BY <4>3, <4>4, Zenon
      <4> QED  BY <3>2, <4>5, <4>6, SMTT(30)
    <3>4. Requests[t].units[r] \in Nat /\ available[r] \in Nat
      BY LeaseAssumption, Zenon DEF Granted, LeaseInv
    <3> QED  BY <3>1, <3>2, <3>3, <3>4, SMTT(30)
  <2>7. /\ available' \in [Resources -> Nat] /\ CapacityConserved'
        /\ Held' \subseteq Granted /\ IsFiniteSet(Held')
    BY <2>1, <2>2, <2>5, <2>6, Grant, Zenon
  <2>8. left' \in [Tasks -> Nat]
    <3>1. Ttl \in Nat
      BY LeaseAssumption, Zenon
    <3> QED  BY <1>2, <2>1, <3>1, Zenon DEF LeaseInv
  <2> QED  BY <2>3, <2>7, <2>8, Zenon DEF LeaseInv
<1> QED  BY <1>3, <1>4, Zenon

\* One lease is given back if it was held, and changes its state.
LEMMA OneGivenBack ==
    ASSUME LeaseInv, CapacityConserved, NEW t \in Tasks,
           NEW state \in {"none", "held", "reclaimed", "destroyed"},
           NEW G \in SUBSET ({t} \cap Held),
           state = "held" <=> lease[t] = "held" /\ t \notin G,
           available' = Returned(G), left' \in [Tasks -> Nat],
           lease' = [lease EXCEPT ![t] = state]
    PROVE  LeaseInv' /\ CapacityConserved'
<1>1. DOMAIN lease = Tasks /\ Held = {u \in Tasks : lease[u] = "held"} /\ G \in SUBSET Held
  BY Zenon DEF LeaseInv, Held
<1>2. /\ lease' \in [Tasks -> {"none", "held", "reclaimed", "destroyed"}] /\ lease'[t] = state
      /\ \A u \in Tasks \ {t} : lease'[u] = lease[u]
  BY <1>1, Zenon DEF LeaseInv
<1>3. Held' = {u \in Tasks : lease'[u] = "held"}
  BY <1>2, Zenon DEF Held
<1>4. Held' = Held \ G
  BY <1>1, <1>2, <1>3, ZenonT(30)
<1>5. /\ available' \in [Resources -> Nat] /\ CapacityConserved'
      /\ Held' \subseteq Granted /\ IsFiniteSet(Held')
  BY <1>1, <1>4, GiveBack, Zenon
<1> QED  BY <1>2, <1>5, Zenon DEF LeaseInv

\* renew gives an expired lease back, if sweep has not.
LEMMA RenewKeeps ==
    ASSUME LeaseInv, CapacityConserved, NEW t \in Tasks, Renew(t)
    PROVE  LeaseInv' /\ CapacityConserved'
<1> DEFINE G == {t} \cap Expired
           state == IF t \in Expired THEN "reclaimed" ELSE lease[t]
<1>1. G \in SUBSET ({t} \cap Held) /\ available' = Returned(G) /\ (t \in G <=> t \in Expired)
  BY Zenon DEF Renew, Expired
<1>2. lease' = [lease EXCEPT ![t] = state]
  BY Zenon DEF Renew
<1>3. left' \in [Tasks -> Nat]
  <2>1. left' = [left EXCEPT ![t] = Ttl] \/ left' = left
    BY Zenon DEF Renew
  <2>2. Ttl \in Nat
    BY LeaseAssumption, Zenon
  <2> QED  BY <2>1, <2>2, Zenon DEF LeaseInv
<1>4. /\ state \in {"none", "held", "reclaimed", "destroyed"}
      /\ state = "held" <=> lease[t] = "held" /\ t \notin G
  <2>1. lease[t] \in {"none", "held", "reclaimed", "destroyed"}
    BY Zenon DEF LeaseInv
  <2> HIDE DEF G
  <2> QED  BY <1>1, <2>1, SMTT(30)
<1> HIDE DEF G, state
<1> QED  BY <1>1, <1>2, <1>3, <1>4, OneGivenBack, Zenon

\* The destructor of a lease gives it back, if expiry has not.
LEMMA ReleaseKeeps ==
    ASSUME LeaseInv, CapacityConserved, NEW t \in Tasks, Release(t)
    PROVE  LeaseInv' /\ CapacityConserved'
<1> DEFINE G == {t} \cap Held
           state == IF lease[t] = "none" THEN lease[t] ELSE "destroyed"
<1>1. G \in SUBSET ({t} \cap Held) /\ available' = Returned(G) /\ (t \in G <=> lease[t] = "held")
  BY Zenon DEF Release, LeaseInv, Held
<1>2. lease' = [lease EXCEPT ![t] = state]
  BY Zenon DEF Release
<1>3. left' \in [Tasks -> Nat]
  <2>1. left' = [left EXCEPT ![t] = 0]
    BY Zenon DEF Release
  <2> QED  BY <2>1, SMTT(30) DEF LeaseInv
<1>4. /\ state \in {"none", "held", "reclaimed", "destroyed"}
      /\ state = "held" <=> lease[t] = "held" /\ t \notin G
  <2> HIDE DEF G
  <2> QED  BY <1>1, SMTT(30)
<1> HIDE DEF G, state
<1> QED  BY <1>1, <1>2, <1>3, <1>4, OneGivenBack, Zenon

\* Renewals, cancels, looks at what is available, and time.
LEMMA OutsideKeeps ==
    ASSUME LeaseInv, CapacityConserved, Outside \/ Time
    PROVE  LeaseInv' /\ CapacityConserved'
<1>1. CASE AskAvailable
  <2>1. /\ Sweep \subseteq Held /\ DOMAIN lease = Tasks
        /\ Swept \in [Tasks -> {"none", "held", "reclaimed", "destroyed"}]
        /\ \A u \in Tasks : Swept[u] = "held" <=> u \in Held \ Sweep
    BY SweepHolds, Zenon
  <2>2. lease' = Swept /\ available' = Returned(Sweep) /\ UNCHANGED left
    BY <1>1, Zenon DEF AskAvailable
  <2>3. Held' = Held \ Sweep
    <3>1. Held \subseteq Tasks
      BY <2>1, Zenon DEF Held
    <3> QED  BY <2>1, <2>2, <3>1, ZenonT(30) DEF Held
  <2>4. /\ available' \in [Resources -> Nat] /\ CapacityConserved'
        /\ Held' \subseteq Granted /\ IsFiniteSet(Held')
    BY <2>1, <2>2, <2>3, GiveBack, Zenon
  <2> QED  BY <2>1, <2>2, <2>4, Zenon DEF LeaseInv
<1>2. CASE \E t \in Tasks : Renew(t)
  BY <1>2, RenewKeeps, Zenon
<1>3. CASE \E t \in Tasks : RequestCancel(t)
  BY <1>3, LeaseStays, Zenon DEF RequestCancel, LeaseInv
<1>4. CASE Tick
  <2>1. left' = [t \in Tasks |-> IF left[t] > 0 THEN left[t] - 1 ELSE 0]
        /\ UNCHANGED <<lease, available>>
    BY <1>4, Zenon DEF Tick, LeaseInv
  <2>2. \A t \in Tasks : left[t] \in Nat
    BY Zenon DEF LeaseInv
  <2>3. left' \in [Tasks -> Nat]
    BY <2>1, <2>2, SMTT(30)
  <2> QED  BY <2>1, <2>3, LeaseStays, Zenon
<1> QED  BY <1>1, <1>2, <1>3, <1>4, Zenon DEF Outside, Time

\* A task at a call of acquire or release.
LEMMA AtLeaseCall ==
    ASSUME Inv, NEW th \in Threads
    PROVE  /\ At(th, "acquire") => Top(th).task \in Asking
           /\ At(th, "release") => Op(th).of \in Tasks
<1> SUFFICES ASSUME NEW kind \in {"acquire", "release"}, At(th, kind)
             PROVE  /\ kind = "acquire" => Top(th).task \in Asking
                    /\ kind = "release" => Op(th).of \in Tasks
  BY Zenon
<1>1. Top(th) \in Frame /\ Top(th).task \in Tasks
  BY AtCall, Zenon DEF At
<1>2. Top(th).ip \in Nat /\ Top(th).ip > 0
  BY <1>1, SMTT(30) DEF Frame
<1>3. Top(th).ip \in DOMAIN Program[Top(th).task]
  BY <1>1, <1>2, PoolAssumption, SMTT(30) DEF At
<1>4. Program[Top(th).task][Top(th).ip].op = kind
  BY Zenon DEF At, Op
<1> QED  BY <1>1, <1>3, <1>4, LeaseAssumption, Zenon DEF Asking, Op

\* The steps of a thread.
LEMMA ThreadKeepsLeases ==
    ASSUME Inv, NEW th \in Threads, ThreadStep(th)
    PROVE  LeaseInv' /\ CapacityConserved'
<1>1. CASE UNCHANGED leaseVars
  BY <1>1, LeaseStays, Zenon DEF leaseVars, Inv, LeaseInv
<1>2. CASE TaskAcquires(th)
  <2> DEFINE t == Top(th).task
             ws == IF t \in Range(waiters) THEN waiters ELSE Append(waiters, t)
  <2>1. At(th, "acquire") /\ t \in Asking
    BY <1>2, AtLeaseCall, Zenon DEF TaskAcquires
  <2>2. CASE Possible(t)
    <3>1. Acquire(t, ws, Turn(t, ws))
      BY <1>2, <2>2, SMTT(30) DEF TaskAcquires
    <3>2. Turn(t, ws) = "granted" => Fits(t, Returned(Sweep))
      BY SMTT(30) DEF Turn
    <3>3. t \in Granted
      BY <2>1, <2>2, Zenon DEF Granted
    <3> HIDE DEF t, ws
    <3> QED  BY <3>1, <3>2, <3>3, AcquireKeeps, Zenon DEF Inv
  <2>3. CASE ~Possible(t)
    BY <1>1, <1>2, <2>3, SMTT(30) DEF TaskAcquires
  <2> QED  BY <2>2, <2>3, Zenon
<1>3. CASE TaskReleases(th)
  BY <1>3, AtLeaseCall, ReleaseKeeps, Zenon DEF TaskReleases, Inv
<1> QED  BY <1>1, <1>2, <1>3, Zenon DEF ThreadStep, HostSubmits, TaskSubmits, PoolStep,
            TaskEmits, TaskFlushes
-----------------------------------------------------------------------------
\* Nothing has been submitted yet.
LEMMA InvInit == Init => Inv
<1> SUFFICES ASSUME Init PROVE Inv
  OBVIOUS
<1>1. Types
  <2>1. <<>> \in Seq(Tasks) /\ <<>> \in Seq(Frame)
    BY SMTT(30)
  <2> QED  BY <2>1, ServicesAssumption, Zenon DEF Init, PoolInit, Types
<1>2. ExitInv /\ JoinInv /\ KeptInv /\ IdleInv
  BY Zenon DEF Init, PoolInit, TraceInit, ExitInv, JoinInv, KeptInv, IdleInv
<1>3. TraceInv /\ EventsConserved
  BY SMTT(30) DEF Init, TraceInit, TraceInv, EventsConserved, Flushed
<1>4. LeaseInv /\ CapacityConserved
  <2>1. /\ lease = [t \in Tasks |-> "none"] /\ left = [t \in Tasks |-> 0]
        /\ available = LeaseCapacity
    BY Zenon DEF Init, LeaseInit
  <2>2. Held = {}
    BY <2>1, SMTT(30) DEF Held
  <2>3. LeaseInv
    <3>1. left \in [Tasks -> Nat] /\ available \in [Resources -> Nat]
      BY <2>1, LeaseAssumption, SMTT(30)
    <3> QED  BY <2>1, <2>2, <3>1, FS_EmptySet, Zenon DEF LeaseInv
  <2>4. \A r \in Resources : Units(Held, r) = 0
    <3>1. \A r \in Resources : Slots({}, r) = {}
      BY Zenon DEF Slots
    <3> QED  BY <2>2, <3>1, FS_EmptySet, Zenon DEF Units
  <2>5. \A r \in Resources : available[r] \in Nat /\ available[r] = LeaseCapacity[r]
    BY <2>1, LeaseAssumption, Zenon
  <2>6. \A r \in Resources : available[r] + Units(Held, r) = LeaseCapacity[r]
    BY <2>4, <2>5, SMTT(30)
  <2> QED  BY <2>3, <2>6, Zenon DEF CapacityConserved
<1> QED  BY <1>1, <1>2, <1>3, <1>4, Zenon DEF Inv

\* Threads, the exporter, the destructor of the sink and time keep the invariant.
LEMMA InvStep ==
    ASSUME Inv, [Next]_vars
    PROVE  Inv'
<1>1. ASSUME NEW th \in Threads, ThreadStep(th) PROVE Inv'
  <2>1. UNCHANGED closing /\ TraceInv' /\ EventsConserved'
    <3>1. CASE TaskEmits(th)
      <4>1. Top(th).task \in Tasks /\ ~closing
        BY <3>1, AtCall, Zenon DEF TaskEmits, At
      <4> QED  BY <3>1, <4>1, EmitKeeps, Zenon DEF TaskEmits, Emit
    <3>2. CASE UNCHANGED traceVars
      BY <3>2, TraceStays, Zenon DEF traceVars
    <3> QED  BY <1>1, <3>1, <3>2, Zenon DEF ThreadStep, HostSubmits, TaskSubmits, PoolStep,
                TaskFlushes, TaskAcquires, TaskReleases
  <2>2. LeaseInv' /\ CapacityConserved'
    BY <1>1, ThreadKeepsLeases, Zenon
  <2> QED  BY <1>1, <2>1, <2>2, ThreadMoves, MoveKeeps, Zenon DEF PoolInv, Inv
<1>0. ASSUME UNCHANGED leaseVars PROVE LeaseInv' /\ CapacityConserved'
  BY <1>0, LeaseStays, Zenon DEF leaseVars, Inv, LeaseInv
<1>2. CASE Exporter
  <2>1. UNCHANGED <<poolVars, todo>> /\ UNCHANGED closing
    BY <1>2, Zenon DEF Exporter, ExportStart, ExportEnd, ExporterLeaves
  <2> QED  BY <1>0, <1>2, <2>1, PoolStays, ExporterKeeps, Zenon DEF Exporter, PoolInv, Inv
<1>3. CASE Close
  <2>1. /\ UNCHANGED <<queue, stopping, frames, waiting, exited, joined, accepted, finished, todo>>
        /\ UNCHANGED <<tracePolicy, events, active, closed, taken, dropped, exported>>
        /\ closing'
    BY <1>3, Zenon DEF Close, CloseSink, poolVars
  <2>2. Types' /\ ExitInv' /\ JoinInv'
    BY <2>1, ZenonT(30) DEF Inv, Types, ExitInv, JoinInv
  <2>3. KeptInv'
    <3> SUFFICES ASSUME NEW t \in accepted'
                 PROVE  \/ t \in finished' \/ t \in Range(queue')
                        \/ \E x \in Threads : t \in TasksOf(frames'[x])
      BY Zenon DEF KeptInv, TasksOf
    <3> QED  BY <2>1, Zenon DEF Inv, KeptInv
  <2>4. IdleInv'
    BY <1>3, <2>1, Zenon DEF Close, IdleInv
  <2>5. TraceInv' /\ EventsConserved'
    BY <2>1, ZenonT(30) DEF Inv, TraceInv, EventsConserved, Flushed
  <2> QED  BY <1>0, <1>3, <2>2, <2>3, <2>4, <2>5, Zenon DEF Close, Inv
<1>4. CASE Time \/ Outside \/ UNCHANGED vars
  <2>1. UNCHANGED <<poolVars, traceVars, todo>>
    BY <1>4, Zenon DEF Time, Outside, vars
  <2>2. closing' <=> closing
    BY <2>1, Zenon DEF traceVars
  <2>3. LeaseInv' /\ CapacityConserved'
    BY <1>0, <1>4, OutsideKeeps, Zenon DEF vars, Inv
  <2> QED  BY <2>1, <2>2, <2>3, PoolStays, TraceStays, Zenon DEF PoolInv, Inv
<1> QED  BY <1>1, <1>2, <1>3, <1>4, Zenon DEF Next

\* The invariant of the services holds in every behaviour.
THEOREM Invariance == Spec => []Inv
<1>1. Inv /\ [Next]_vars => Inv'
  BY InvStep
<1> QED  BY InvInit, <1>1, PTL DEF Spec

\* When shutdown has joined the workers, no accepted task is left but those
\* that other threads and the joiner are inside of: a worker leaves only an
\* empty queue, and a pool that a worker has left takes nothing any more.
THEOREM PoolDrains == Spec => []JoinedIsDrained
<1>1. Inv => JoinedIsDrained
  <2> SUFFICES ASSUME Inv, joined PROVE JoinedIsDrained
    BY Zenon DEF JoinedIsDrained
  <2>1. PICK joiner \in Threads : Workers \ {joiner} \subseteq exited
    BY Zenon DEF Inv, JoinInv
  <2>2. ASSUME NEW t \in accepted, t \notin finished
        PROVE  \/ \E th \in Hosts \cup {joiner} : t \in InFrames(th)
               \/ Workers \subseteq {joiner} /\ t \in Range(queue)
    <3>1. CASE t \in Range(queue)
      <4>1. exited = {}
        <5>1. CASE queue = <<>>
          <6>1. DOMAIN queue = {}
            BY <5>1, SMTT(30)
          <6> QED  BY <3>1, <6>1, Zenon DEF Range
        <5> QED  BY <5>1, Zenon DEF Inv, ExitInv
      <4> QED  BY <2>1, <3>1, <4>1, Zenon
    <3>2. ASSUME NEW th \in Threads, t \in TasksOf(frames[th])
          PROVE  th \in Hosts \cup {joiner}
      <4>1. CASE th \in exited
        <5>1. frames[th] = <<>>
          BY <4>1, Zenon DEF Inv, ExitInv
        <5>2. DOMAIN frames[th] = {}
          BY <5>1, SMTT(30)
        <5> QED  BY <3>2, <5>2, Zenon DEF TasksOf
      <4> QED  BY <2>1, <4>1, Zenon DEF Threads
    <3> QED  BY <2>2, <3>1, <3>2, Zenon DEF Inv, KeptInv, InFrames, TasksOf
  <2> DEFINE behind == IF Workers \subseteq {joiner} THEN Range(queue) ELSE {}
  <2>3. Workers \subseteq {joiner} => behind = Range(queue)
    BY SMT
  <2> HIDE DEF behind
  <2>4. accepted \subseteq finished \cup (UNION {InFrames(th) : th \in Hosts \cup {joiner}})
                              \cup behind
    <3> SUFFICES ASSUME NEW t \in accepted
                 PROVE  t \in finished \cup (UNION {InFrames(th) : th \in Hosts \cup {joiner}})
                                      \cup behind
      BY Zenon
    <3>1. CASE t \in finished
      BY <3>1, Zenon
    <3>2. CASE \E th \in Hosts \cup {joiner} : t \in InFrames(th)
      BY <3>2, Zenon
    <3>3. CASE Workers \subseteq {joiner} /\ t \in Range(queue)
      BY <2>3, <3>3, Zenon
    <3> QED  BY <2>2, <3>1, <3>2, <3>3, Zenon
  <2> QED  BY <2>4, Zenon DEF JoinedIsDrained, behind
<1> QED  BY Invariance, <1>1, PTL

\* The statistics of the sink add up at every moment, and nothing is left in
\* it when its destructor returns, which no emitter outlives.
THEOREM TraceAddsUp == Spec => []EventsConserved
<1>1. Inv => EventsConserved
  BY Zenon DEF Inv
<1> QED  BY Invariance, <1>1, PTL

\* Each unit of a resource is free or in exactly one lease that is held: sweep,
\* renew and the destructor give a lease back once between them, and acquire
\* grants nothing beyond the capacity.
THEOREM UnitsAddUp == Spec => []CapacityConserved
<1>1. Inv => CapacityConserved
  BY Zenon DEF Inv
<1> QED  BY Invariance, <1>1, PTL

\* A lease that has run out is not valid again before its task asks for another.
THEOREM LeasesEnd == Spec => NoResurrection
<1> DEFINE Asks(t) == \E th \in Threads : At(th, "acquire") /\ Top(th).task = t
           A == \A t \in Tasks : left[t] = 0 /\ ~Asks(t) => left'[t] = 0
<1>1. ASSUME Inv, [Next]_vars PROVE A
  <2> SUFFICES ASSUME NEW t \in Tasks, left[t] = 0, ~Asks(t) PROVE left'[t] = 0
    BY Zenon
  <2>0. left \in [Tasks -> Nat]
    BY <1>1, Zenon DEF Inv, LeaseInv
  <2>1. CASE UNCHANGED left
    BY <2>1, Zenon
  <2>2. ASSUME NEW th \in Threads, TaskAcquires(th) PROVE left'[t] = 0
    <3>1. At(th, "acquire") /\ Top(th).task # t
      BY <2>2, Zenon DEF TaskAcquires
    <3>2. left' = [left EXCEPT ![Top(th).task] = Ttl] \/ left' = left
      BY <2>2, SMTT(30) DEF TaskAcquires, Acquire, leaseVars
    <3> QED  BY <2>0, <3>1, <3>2, Zenon
  <2>3. ASSUME NEW u, Release(u) PROVE left'[t] = 0
    BY <2>0, <2>3, Zenon DEF Release
  <2>4. ASSUME NEW u \in Tasks, Renew(u) PROVE left'[t] = 0
    <3>1. left' = left \/ (left[u] > 0 /\ left' = [left EXCEPT ![u] = Ttl])
      BY <2>4, Zenon DEF Renew
    <3>2. ~(left[t] > 0)
      BY SMT
    <3> QED  BY <2>0, <3>1, <3>2, Zenon
  <2>5. CASE Tick
    <3>1. left'[t] = IF left[t] > 0 THEN left[t] - 1 ELSE 0
      BY <2>0, <2>5, Zenon DEF Tick
    <3> QED  BY <3>1, SMT
  <2>6. ASSUME NEW th \in Threads, ThreadStep(th) PROVE left'[t] = 0
    BY <2>1, <2>2, <2>3, <2>6, Zenon DEF ThreadStep, HostSubmits, TaskSubmits, PoolStep,
       TaskEmits, TaskFlushes, TaskReleases, leaseVars
  <2>7. CASE Exporter \/ Close \/ UNCHANGED vars
    BY <2>1, <2>7, Zenon DEF Exporter, Close, vars, leaseVars
  <2>8. CASE Time \/ Outside
    BY <2>1, <2>4, <2>5, <2>8, Zenon DEF Time, Outside, AskAvailable, RequestCancel
  <2> QED  BY <1>1, <2>6, <2>7, <2>8, Zenon DEF Next
<1>2. Inv /\ [Next]_vars => [A]_vars
  BY <1>1
<1>3. Spec => [][A]_vars
  <2> HIDE DEF A
  <2> QED  BY Invariance, <1>2, PTL DEF Spec
<1> QED  BY <1>3 DEF NoResurrection
=============================================================================
