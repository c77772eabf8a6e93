------------------------ MODULE EffectRecoveryProofs ------------------------
(***************************************************************************)
(* What EffectRecovery promises for every workflow, every set of processes *)
(* and any number of crashes, restores and I/O errors: stale writers are   *)
(* fenced off, a committed effect stays committed, a success is stored,    *)
(* and a guarded effect happens at most once.                              *)
(***************************************************************************)
EXTENDS EffectRecovery, TLAPS

\* The shape of the record and the types of the versions.
Versions ==
    /\ ver \in [Procs -> Nat]
    /\ pc \in [Procs -> {"none", "idle", "head", "exec", "applied", "consume",
                         "record"}]
    /\ {"version", "epoch", "owner", "checkpoint"} \subseteq DOMAIN record
    /\ record.version \in Nat
    /\ calls \in Nat

\* No object is ahead of the record; an object that is gone has no version;
\* the record is claimed only after the run was started.
Behind ==
    /\ \A p \in Procs : ver[p] <= record.version
    /\ \A p \in Procs : pc[p] = "none" => ver[p] = 0
    /\ calls = 0 => record.owner = NoProc

WriterInv == Versions /\ Behind /\ SingleWriter

USE DEF storage, run, Goto, Answer, AnswerStoreError

\* What CompareExchange leaves in the record.
LEMMA SavedRecord ==
  ASSUME Versions, NEW v, NEW m, CompareExchange(v, m)
  PROVE  /\ v = record.version /\ record'.version = record.version + 1
         /\ record'.owner = record.owner
         /\ {"version", "epoch", "owner", "checkpoint"} \subseteq DOMAIN record'
  BY Zenon DEF Versions, CompareExchange

\* What a claim leaves in the record.
LEMMA ClaimedRecord ==
  ASSUME Versions, NEW v, NEW p, Claim(v, p)
  PROVE  /\ v = record.version /\ record'.version = record.version + 1
         /\ record'.owner = p
         /\ {"version", "epoch", "owner", "checkpoint"} \subseteq DOMAIN record'
  BY Zenon DEF Versions, Claim

\* A step that neither starts nor restores an object and leaves the record to
\* a save of its process keeps the invariant.
LEMMA QuietKeeps ==
  ASSUME WriterInv, NEW p \in Procs, pc[p] # "none",
         NEW l \in {"idle", "head", "exec", "applied", "consume", "record"},
         pc' = [pc EXCEPT ![p] = l], calls' \in {calls, calls + 1},
         UNCHANGED <<record, ver>>
  PROVE  WriterInv'
  BY SMTT(30) DEF WriterInv, Versions, Behind, SingleWriter, Alive

\* A save that succeeds was made by the object that is current, which stays
\* the only one.
LEMMA SaveOkKeeps ==
  ASSUME WriterInv, NEW p \in Procs, pc[p] # "none", NEW m,
         NEW l \in {"idle", "head", "exec", "applied", "consume", "record"},
         pc' = [pc EXCEPT ![p] = l], UNCHANGED calls,
         SaveOk(p, m)
  PROVE  WriterInv'
  BY SavedRecord, SMTT(30) DEF WriterInv, Versions, Behind, SingleWriter,
  Alive, SaveOk

\* A save that fails leaves the record, or replaces it and leaves its object
\* behind the record.
LEMMA SaveFailsKeeps ==
  ASSUME WriterInv, NEW p \in Procs, pc[p] # "none", NEW m,
         NEW l \in {"idle", "head", "exec", "applied", "consume", "record"},
         pc' = [pc EXCEPT ![p] = l], UNCHANGED calls,
         SaveFails(p, m)
  PROVE  WriterInv'
<1>1. CASE UNCHANGED record
  BY <1>1, Zenon DEF WriterInv, Versions, Behind, SingleWriter, Alive,
  SaveFails
<1>2. CASE CompareExchange(ver[p], m)
  BY <1>2, SavedRecord, SMTT(30) DEF WriterInv, Versions, Behind, SingleWriter,
  Alive, SaveFails
<1> QED
  BY <1>1, <1>2, Zenon DEF SaveFails

\* restore_run leaves the claimant as the only current object, or, when it
\* fails after the claim, none.
LEMMA RestoreKeeps ==
  ASSUME WriterInv, NEW p \in Procs, Restore(p)
  PROVE  WriterInv'
<1> DEFINE cp == held[p]
<1>1. CASE /\ Claim(cp.state_version, p)
           /\ ver' = [ver EXCEPT ![p] = record'.version]
           /\ pc' = [pc EXCEPT ![p] = "idle"]
  BY <1>1, ClaimedRecord, SMTT(30) DEF WriterInv, Versions, Behind,
  SingleWriter, Alive, Restore, Call
<1>2. CASE Claim(cp.state_version, p) /\ UNCHANGED <<ver, pc>>
  BY <1>2, ClaimedRecord, SMTT(30) DEF WriterInv, Versions, Behind,
  SingleWriter, Alive, Restore, Call
<1>3. CASE UNCHANGED <<record, ver, pc>>
  BY <1>3, SMTT(30) DEF WriterInv, Versions, Behind, SingleWriter, Alive,
  Restore, Call
<1> QED
  BY <1>1, <1>2, <1>3, Zenon DEF Restore

\* No object is alive at the start.
LEMMA WriterInit == Init => WriterInv
  BY RecoveryAssumption, SMTT(30) DEF Init, WriterInv, Versions, Behind,
  SingleWriter, Alive

\* Every step leaves at most the last claimant current.
LEMMA WriterStep == WriterInv /\ [Next]_vars => WriterInv'
<1> SUFFICES ASSUME WriterInv, [Next]_vars PROVE WriterInv'
  BY Zenon
<1>1. ASSUME NEW p \in Procs,
             \/ Completed(p) \/ Interrupted(p) \/ NodeBlocked(p)
             \/ ManualRequired(p)
             \/ Enter(p) \/ Apply(p) \/ Return(p) \/ Retry(p)
             \/ QuotaExceeded(p) \/ Execute(p)
             \/ \E n \in Nodes : SelectiveRerun(p, n)
      PROVE  WriterInv'
  <2>1. \E l \in {"idle", "head", "exec", "applied", "consume", "record"} :
           pc' = [pc EXCEPT ![p] = l]
    BY <1>1, Zenon DEF Completed, Interrupted, NodeBlocked, ManualRequired,
    Enter, Apply, Return, Retry, QuotaExceeded, Execute, SelectiveRerun
  <2>2. pc[p] # "none" /\ calls' \in {calls, calls + 1}
        /\ UNCHANGED <<record, ver>>
    BY <1>1, Zenon DEF Completed, Interrupted, NodeBlocked, ManualRequired,
    Enter, Apply, Return, Retry, QuotaExceeded, Execute, SelectiveRerun, Call
  <2> QED
    BY <2>1, <2>2, QuietKeeps, Zenon
<1>2. ASSUME NEW p \in Procs, Prepare(p) \/ RecordNode(p) PROVE WriterInv'
  <2>1. /\ pc[p] # "none" /\ UNCHANGED calls
        /\ SaveOk(p, mem'[p]) \/ SaveFails(p, mem'[p])
    BY <1>2, Zenon DEF Prepare, RecordNode
  <2>2. \E l \in {"idle", "head", "exec", "applied", "consume", "record"} :
           pc' = [pc EXCEPT ![p] = l]
    BY <1>2, Zenon DEF Prepare, RecordNode
  <2> QED
    BY <2>1, <2>2, SaveOkKeeps, SaveFailsKeeps, Zenon
<1>3. ASSUME NEW p \in Procs, Consume(p) PROVE WriterInv'
  <2>1. \E l \in {"idle", "head", "exec", "applied", "consume", "record"} :
           pc' = [pc EXCEPT ![p] = l]
    BY <1>3, Zenon DEF Consume
  <2>2. /\ pc[p] # "none" /\ UNCHANGED calls
        /\ \/ UNCHANGED <<record, ver>>
           \/ SaveOk(p, mem'[p])
           \/ SaveFails(p, mem'[p])
    BY <1>3, Zenon DEF Consume
  <2> QED
    BY <2>1, <2>2, QuietKeeps, SaveOkKeeps, SaveFailsKeeps, Zenon
<1>4. ASSUME NEW p \in Procs, Start(p) PROVE WriterInv'
  BY <1>4, SMTT(30) DEF WriterInv, Versions, Behind, SingleWriter, Alive,
  Start, Call
<1>5. ASSUME NEW p \in Procs, Crash(p) PROVE WriterInv'
  BY <1>5, SMTT(30) DEF WriterInv, Versions, Behind, SingleWriter, Alive, Crash
<1>6. ASSUME NEW p \in Procs, Fetch(p) PROVE WriterInv'
  BY <1>6, Zenon DEF WriterInv, Versions, Behind, SingleWriter, Alive, Fetch
<1>7. CASE UNCHANGED vars
  BY <1>7, Zenon DEF vars, WriterInv, Versions, Behind, SingleWriter, Alive
<1> QED
  BY <1>1, <1>2, <1>3, <1>4, <1>5, <1>6, <1>7, RestoreKeeps, Zenon DEF Next,
  Step, Host

-----------------------------------------------------------------------------
(* What the record and the objects say about each other.  A checkpoint text *)
(* that a host holds is the stored one or an older one, so a claim that goes *)
(* through restores the stored one; the object that can still save has every *)
(* effect as committed that the stored checkpoint has.                       *)

\* A position is a node until the run is completed, and only a completed run
\* has succeeded.
Images == {m \in Image : /\ m.completed \/ m.current \in Nodes
                         /\ m.success => m.completed}
Texts == [image : Images, state_version : Nat]

Working == {"exec", "applied", "consume", "record"}
Tellings == {"nothing", "restored", "success", "failure", "manual"}

Committed(m) == {n \in Nodes : m.effects[n] = "committed"}

Shapes ==
    /\ mem \in [Procs -> Images] /\ outcome \in [Procs -> Outcome]
    /\ told \in [Procs -> Tellings] /\ warned \in [Procs -> BOOLEAN]
    /\ held \in [Procs -> Texts \cup {NoCheckpoint}]
    /\ record.checkpoint \in Texts \cup {NoCheckpoint}

\* An object inside execute_step is not completed, and the effect it is about
\* to have is not committed; one that answered success has succeeded.
Progress(p) ==
    /\ pc[p] \in Working => ~mem[p].completed
    /\ pc[p] \in {"exec", "applied", "consume"} /\ node(p) \in Effectful
        => Fence(p) # "committed"
    /\ told[p] = "success" => mem[p].success /\ pc[p] = "idle"

\* The object that can still save knows every effect the record has as
\* committed, unless it reruns on request.
Follows(p) ==
    /\ Alive(p) /\ ver[p] = record.version /\ record.checkpoint # NoCheckpoint
    /\ mem[p].mode = "normal"
    => Committed(record.checkpoint.image) \subseteq Committed(mem[p])

\* A held text is not newer than the stored one, and as new only if it is it.
Older(p) ==
    held[p] # NoCheckpoint =>
        /\ record.checkpoint # NoCheckpoint
        /\ held[p].state_version <= record.checkpoint.state_version
        /\ held[p].state_version = record.checkpoint.state_version
            => held[p] = record.checkpoint

\* Nothing is stored before the run was started, and the text of a checkpoint
\* never names a version the record has not reached.
Stored ==
    /\ calls = 0 => record.checkpoint = NoCheckpoint /\ \A p \in Procs : ~Alive(p)
    /\ record.checkpoint # NoCheckpoint =>
           record.checkpoint.state_version <= record.version

RecordInv ==
    Shapes /\ Stored /\ \A p \in Procs : Progress(p) /\ Follows(p) /\ Older(p)

\* What CompareExchange makes of the record.
LEMMA SavedText ==
  ASSUME Versions, NEW v, NEW m, CompareExchange(v, m)
  PROVE  /\ v = record.version
         /\ record'.checkpoint = [image |-> m, state_version |-> record.version + 1]
  BY Zenon DEF Versions, CompareExchange

\* A claim leaves the checkpoint text alone.
LEMMA ClaimedText ==
  ASSUME Versions, NEW v, NEW p, Claim(v, p)
  PROVE  record'.checkpoint = record.checkpoint
  BY Zenon DEF Versions, Claim

\* An update of a function keeps its type, wherever the argument lies.
LEMMA UpdateType ==
  ASSUME NEW S, NEW T, NEW g \in [S -> T], NEW x, NEW y \in T
  PROVE  [g EXCEPT ![x] = y] \in [S -> T]
  BY Zenon

\* The value of an updated function.
LEMMA UpdateValue ==
  ASSUME NEW S, NEW T, NEW g \in [S -> T], NEW x, NEW y \in T, NEW n \in S
  PROVE  [g EXCEPT ![x] = y][n] = IF n = x THEN y ELSE g[n]
  BY Zenon

\* Marking a node keeps an image well formed and touches one fence.
LEMMA MarkedImage ==
  ASSUME Shapes, NEW p \in Procs, NEW st \in NodeStatus, NEW f \in EffectStatus
  PROVE  /\ Marked(p, st, f) \in Images
         /\ Marked(p, st, f).current = mem[p].current
         /\ Marked(p, st, f).mode = mem[p].mode
         /\ Marked(p, st, f).completed = mem[p].completed
         /\ Marked(p, st, f).success = mem[p].success
         /\ \A n \in Nodes : Marked(p, st, f).effects[n] =
               IF n = node(p) THEN f ELSE mem[p].effects[n]
  <1> DEFINE m == mem[p]
             status == [m.status EXCEPT ![node(p)] = st]
             effects == [m.effects EXCEPT ![node(p)] = f]
  <1>1. m \in Images
    BY Zenon DEF Shapes
  <1>2. /\ m.effects \in [Nodes -> EffectStatus] /\ m.status \in [Nodes -> NodeStatus]
        /\ m.completed \in BOOLEAN /\ m.success \in BOOLEAN
        /\ m.completed \/ m.current \in Nodes
        /\ m.success => m.completed
    BY <1>1, Zenon DEF Images, Image
  <1>3. Marked(p, st, f) = [m EXCEPT !.status = status, !.effects = effects]
    BY <1>1, Zenon DEF Marked, Images, Image
  <1>4. /\ status \in [Nodes -> NodeStatus] /\ effects \in [Nodes -> EffectStatus]
        /\ \A n \in Nodes : effects[n] = IF n = node(p) THEN f ELSE m.effects[n]
    BY <1>2, UpdateType, UpdateValue, Zenon
  <1> HIDE DEF m, status, effects
  <1>5. /\ Marked(p, st, f) \in Image
        /\ Marked(p, st, f).current = m.current
        /\ Marked(p, st, f).mode = m.mode
        /\ Marked(p, st, f).completed = m.completed
        /\ Marked(p, st, f).success = m.success
        /\ Marked(p, st, f).effects = effects
    <2>1. m \in Image
      BY <1>1, Zenon DEF Images
    <2>2. Marked(p, st, f) \in Image
      BY <2>1, <1>3, <1>4, ZenonT(60) DEF Image
    <2>3. /\ Marked(p, st, f).current = m.current
          /\ Marked(p, st, f).mode = m.mode
          /\ Marked(p, st, f).effects = effects
      BY <2>1, <1>3, <1>4, Zenon DEF Image
    <2>4. /\ Marked(p, st, f).completed = m.completed
          /\ Marked(p, st, f).success = m.success
      BY <2>1, <1>3, <1>4, ZenonT(60) DEF Image
    <2> QED
      BY <2>2, <2>3, <2>4, ZenonT(60)
  <1>6. Marked(p, st, f) \in Images
    BY <1>2, <1>5, Zenon DEF Images
  <1> QED
    BY <1>4, <1>5, <1>6, Zenon DEF m

\* Recording a result moves the position and touches no fence.
LEMMA RecordedImage ==
  ASSUME Shapes, NEW p \in Procs, NEW ok \in BOOLEAN, node(p) \in Nodes
  PROVE  /\ Recorded(p, ok) \in Images
         /\ Recorded(p, ok).effects = mem[p].effects
         /\ Recorded(p, ok).mode = mem[p].mode
  <1> DEFINE to == IF ok THEN NextOf[node(p)] ELSE ErrorOf[node(p)]
  <1>1. mem[p] \in Images
    BY Zenon DEF Shapes
  <1>2. to \in Nodes \cup {End}
    BY GraphAssumption, Zenon
  <1>3. StatusOf(ok) \in NodeStatus
    BY Zenon DEF StatusOf, NodeStatus
  <1> DEFINE m == mem[p]
             status == [m.status EXCEPT ![node(p)] = StatusOf(ok)]
             completed == to = End
             success == to = End /\ ok
  <1>4. completed \in BOOLEAN /\ success \in BOOLEAN
    BY Zenon
  <1>5. (completed \/ to \in Nodes) /\ (success => completed)
    BY <1>2, Zenon
  <1>6. m.status \in [Nodes -> NodeStatus]
    BY <1>1, Zenon DEF Images, Image
  <1>7. status \in [Nodes -> NodeStatus]
    BY <1>3, <1>6, Zenon
  <1>8. Recorded(p, ok) = [m EXCEPT !.status = status, !.current = to,
                                    !.completed = completed, !.success = success]
    BY <1>1, Zenon DEF Recorded, Images, Image
  <1> HIDE DEF m, to, status, completed, success
  <1>9. /\ Recorded(p, ok) \in Image
        /\ Recorded(p, ok).current = to
        /\ Recorded(p, ok).mode = m.mode
        /\ Recorded(p, ok).effects = m.effects
        /\ Recorded(p, ok).completed = completed
        /\ Recorded(p, ok).success = success
    <2>1. m \in Image
      BY <1>1, Zenon DEF Images, m
    <2>2. Recorded(p, ok) \in Image
      BY <2>1, <1>2, <1>4, <1>7, <1>8, ZenonT(60) DEF Image
    <2>3. /\ Recorded(p, ok).current = to
          /\ Recorded(p, ok).mode = m.mode
          /\ Recorded(p, ok).effects = m.effects
      BY <2>1, <1>2, <1>4, <1>7, <1>8, ZenonT(60) DEF Image
    <2>4. /\ Recorded(p, ok).completed = completed
          /\ Recorded(p, ok).success = success
      BY <2>1, <1>2, <1>4, <1>7, <1>8, ZenonT(60) DEF Image
    <2> QED
      BY <2>2, <2>3, <2>4, Zenon
  <1> QED
    BY <1>5, <1>9, Zenon DEF Images, m

\* The step of an object inside execute_step: nobody else's object changes,
\* no committed fence is given up, and an object that has succeeded without
\* a warning had done so before or saves just that.
ObjectStep(p) ==
    /\ Alive(p) /\ pc'[p] # "none" /\ UNCHANGED <<held, calls>>
    /\ mem' \in [Procs -> Images] /\ outcome' \in [Procs -> Outcome]
    /\ told' \in [Procs -> Tellings] /\ warned' \in [Procs -> BOOLEAN]
    /\ \A q \in Procs \ {p} :
           /\ mem'[q] = mem[q] /\ pc'[q] = pc[q] /\ told'[q] = told[q]
           /\ warned'[q] = warned[q]
    /\ mem'[p].mode = mem[p].mode
    /\ Committed(mem[p]) \subseteq Committed(mem'[p])
    /\ Progress(p)'
    /\ mem'[p].success /\ ~warned'[p] =>
           \/ mem[p].success /\ ~warned[p] /\ UNCHANGED ver
           \/ SaveOk(p, mem'[p])

\* Only the program counter, the answer and the result of the turn change.
LEMMA PlainStep ==
  ASSUME WriterInv, RecordInv, NEW p \in Procs, Alive(p),
         UNCHANGED <<mem, ver, warned, held, calls>>,
         outcome' \in [Procs -> Outcome], told' \in [Procs -> Tellings],
         \A q \in Procs \ {p} : pc'[q] = pc[q] /\ told'[q] = told[q],
         pc'[p] # "none", Progress(p)'
  PROVE  ObjectStep(p)
  BY Zenon DEF ObjectStep, RecordInv, Shapes

\* A host gets the stored result of a completed object.
LEMMA CompletedStep ==
  ASSUME WriterInv, RecordInv, NEW p \in Procs, Completed(p) PROVE ObjectStep(p)
  <1>1. /\ Alive(p) /\ UNCHANGED <<mem, ver, warned, held, calls, outcome>>
        /\ told' = [told EXCEPT ![p] = IF mem[p].success THEN "success" ELSE "failure"]
        /\ pc' = [pc EXCEPT ![p] = "idle"]
    BY Zenon DEF Completed, Alive
  <1>2. /\ pc'[p] = "idle"
        /\ told'[p] = "success" => mem[p].success
        /\ told' \in [Procs -> Tellings] /\ outcome' \in [Procs -> Outcome]
        /\ \A q \in Procs \ {p} : pc'[q] = pc[q] /\ told'[q] = told[q]
    BY <1>1, ZenonT(60) DEF WriterInv, Versions, RecordInv, Shapes, Tellings
  <1>3. mem' = mem /\ (told'[p] = "success" => mem'[p].success)
    BY <1>1, <1>2, Zenon
  <1>4. Progress(p)'
    BY <1>2, <1>3, Zenon DEF Progress, Working
  <1> QED
    BY <1>1, <1>2, <1>4, PlainStep, ZenonT(60)

\* An interrupted call answers with a failure.
LEMMA InterruptedStep ==
  ASSUME WriterInv, RecordInv, NEW p \in Procs, Interrupted(p) PROVE ObjectStep(p)
  <1>1. /\ Alive(p) /\ UNCHANGED <<mem, ver, warned, held, calls>>
        /\ told' = [told EXCEPT ![p] = "failure"] /\ pc' = [pc EXCEPT ![p] = "idle"]
        /\ outcome' = [outcome EXCEPT ![p] = NoOutcome]
    BY Zenon DEF Interrupted, Alive, DropResult
  <1>2. /\ pc'[p] = "idle" /\ told'[p] = "failure"
        /\ told' \in [Procs -> Tellings] /\ outcome' \in [Procs -> Outcome]
        /\ \A q \in Procs \ {p} : pc'[q] = pc[q] /\ told'[q] = told[q]
    BY <1>1, ZenonT(60) DEF WriterInv, Versions, RecordInv, Shapes, Tellings,
    Outcome, NoOutcome
  <1>3. Progress(p)'
    BY <1>2, Zenon DEF Progress, Working
  <1> QED
    BY <1>1, <1>2, <1>3, PlainStep, ZenonT(60)

\* The executor writes, returns or is tried again.
LEMMA ExecutorStep ==
  ASSUME WriterInv, RecordInv, NEW p \in Procs, Apply(p) \/ Return(p) \/ Retry(p)
  PROVE  ObjectStep(p)
  <1>1. /\ Alive(p) /\ UNCHANGED <<mem, ver, warned, held, calls, told>>
        /\ pc[p] \in {"exec", "applied", "consume"}
        /\ \E l \in {"exec", "applied", "consume"} : pc' = [pc EXCEPT ![p] = l]
    BY Zenon DEF Apply, Return, Retry, Alive
  <1>2. outcome' \in [Procs -> Outcome]
    <2>1. CASE Apply(p)
      BY <2>1, Zenon DEF Apply, RecordInv, Shapes
    <2>2. CASE Return(p)
      <3>1. PICK c \in BOOLEAN, s \in BOOLEAN :
              outcome' = [outcome EXCEPT ![p] = [committed |-> c, success |-> s]]
        BY <2>2, Zenon DEF Return
      <3>2. [committed |-> c, success |-> s] \in Outcome
        BY Zenon DEF Outcome
      <3> QED
        BY <3>1, <3>2, Zenon DEF RecordInv, Shapes
    <2>3. CASE Retry(p)
      BY <2>3, Zenon DEF Retry, DropResult, NoOutcome, Outcome, RecordInv,
      Shapes
    <2> QED
      BY <2>1, <2>2, <2>3, Zenon
  <1>3. /\ pc'[p] \in {"exec", "applied", "consume"}
        /\ \A q \in Procs \ {p} : pc'[q] = pc[q]
    BY <1>1, Zenon DEF WriterInv, Versions
  <1>4. told[p] # "success" /\ told' \in [Procs -> Tellings]
    BY <1>1, Zenon DEF RecordInv, Progress, Shapes, Tellings
  <1>5. Progress(p)'
    BY <1>1, <1>3, <1>4, ZenonT(60) DEF RecordInv, Progress, Working, node,
    Fence
  <1> QED
    BY <1>1, <1>2, <1>3, <1>4, <1>5, PlainStep, ZenonT(60)

\* Marking the current node keeps the committed fences, unless it takes one
\* back.
LEMMA MarkedStep ==
  ASSUME WriterInv, RecordInv, NEW p \in Procs, Alive(p), pc[p] = "head",
         ~mem[p].completed, NEW st \in NodeStatus, NEW f \in EffectStatus,
         f = "committed" \/ Fence(p) # "committed",
         mem' = [mem EXCEPT ![p] = Marked(p, st, f)]
  PROVE  /\ mem' \in [Procs -> Images]
         /\ \A q \in Procs \ {p} : mem'[q] = mem[q]
         /\ mem'[p].mode = mem[p].mode
         /\ Committed(mem[p]) \subseteq Committed(mem'[p])
         /\ ~mem'[p].completed /\ ~mem'[p].success
         /\ node(p)' = node(p) /\ node(p) \in Nodes /\ Fence(p)' = f
         /\ told[p] # "success"
  <1>1. Shapes /\ mem[p] \in Images /\ mem'[p] = Marked(p, st, f)
    BY Zenon DEF RecordInv, Shapes
  <1>2. /\ mem[p].completed \in BOOLEAN /\ mem[p].success \in BOOLEAN
        /\ node(p) \in Nodes /\ ~mem[p].success
    BY <1>1, Zenon DEF Images, Image, node
  <1>3. /\ mem'[p] \in Images /\ mem'[p].current = mem[p].current
        /\ mem'[p].mode = mem[p].mode
        /\ \A n \in Nodes : mem'[p].effects[n] =
              IF n = node(p) THEN f ELSE mem[p].effects[n]
    BY <1>1, MarkedImage, SMTT(30)
  <1>4. ~mem'[p].completed /\ ~mem'[p].success
    BY <1>1, <1>2, MarkedImage, SMTT(30)
  <1>5. Committed(mem[p]) \subseteq Committed(mem'[p])
    BY <1>2, <1>3, SMTT(30) DEF Committed, Fence, node
  <1>6. node(p)' = node(p) /\ Fence(p)' = f
    BY <1>2, <1>3, Zenon DEF Fence, node
  <1>7. mem' \in [Procs -> Images] /\ \A q \in Procs \ {p} : mem'[q] = mem[q]
    BY <1>1, <1>3, ZenonT(60) DEF Shapes
  <1>8. told[p] # "success"
    BY Zenon DEF RecordInv, Progress
  <1> QED
    BY <1>2, <1>3, <1>4, <1>5, <1>6, <1>7, <1>8, ZenonT(60)

\* A node that may not be entered is marked and the call ends.
LEMMA StoppedStep ==
  ASSUME WriterInv, RecordInv, NEW p \in Procs, NodeBlocked(p) \/ ManualRequired(p)
  PROVE  ObjectStep(p)
  <1>1. /\ Alive(p) /\ pc[p] = "head" /\ ~mem[p].completed
        /\ UNCHANGED <<ver, warned, held, calls, outcome>>
        /\ pc' = [pc EXCEPT ![p] = "idle"]
        /\ \E t \in {"failure", "manual"} : told' = [told EXCEPT ![p] = t]
        /\ \E st \in {"blocked", "running"} :
               mem' = [mem EXCEPT ![p] = Marked(p, st, Fence(p))]
    BY Zenon DEF NodeBlocked, ManualRequired, Alive
  <1>2. Fence(p) \in EffectStatus /\ {"blocked", "running"} \subseteq NodeStatus
    <2>1. mem[p] \in Images
      BY Zenon DEF RecordInv, Shapes
    <2>2. node(p) \in Nodes /\ mem[p].effects \in [Nodes -> EffectStatus]
      BY <1>1, <2>1, Zenon DEF Images, Image, node
    <2> QED
      BY <2>2, Zenon DEF Fence, NodeStatus
  <1>3. /\ mem' \in [Procs -> Images]
        /\ \A q \in Procs \ {p} : mem'[q] = mem[q]
        /\ mem'[p].mode = mem[p].mode
        /\ Committed(mem[p]) \subseteq Committed(mem'[p])
        /\ ~mem'[p].success
    <2>1. PICK st \in NodeStatus : mem' = [mem EXCEPT ![p] = Marked(p, st, Fence(p))]
      BY <1>1, <1>2, Zenon
    <2>2. Fence(p) = "committed" \/ Fence(p) # "committed"
      BY Zenon
    <2> QED
      BY <1>1, <1>2, <2>1, <2>2, MarkedStep, ZenonT(60)
  <1>4. /\ pc'[p] = "idle" /\ told'[p] # "success"
        /\ told' \in [Procs -> Tellings]
        /\ \A q \in Procs \ {p} : pc'[q] = pc[q] /\ told'[q] = told[q]
    BY <1>1, SMTT(30) DEF WriterInv, Versions, RecordInv, Shapes, Tellings
  <1>5. Progress(p)'
    BY <1>4, Zenon DEF Progress, Working
  <1>6. outcome' \in [Procs -> Outcome] /\ warned' \in [Procs -> BOOLEAN] /\ warned' = warned
    BY <1>1, Zenon DEF RecordInv, Shapes
  <1> QED
    BY <1>1, <1>3, <1>4, <1>5, <1>6, ZenonT(60) DEF ObjectStep

\* An effect's fence is prepared before its executor runs.
LEMMA PrepareStep ==
  ASSUME WriterInv, RecordInv, NEW p \in Procs, Prepare(p) PROVE ObjectStep(p)
  <1>1. /\ Alive(p) /\ pc[p] = "head" /\ ~mem[p].completed
        /\ UNCHANGED <<held, calls, outcome>>
        /\ node(p) \in Effectful /\ Fence(p) # "committed"
        /\ mem' = [mem EXCEPT ![p] = Marked(p, "running", "prepared")]
        /\ \/ pc' = [pc EXCEPT ![p] = "exec"] /\ UNCHANGED <<told, warned>>
           \/ /\ pc' = [pc EXCEPT ![p] = "idle"]
              /\ told' = [told EXCEPT ![p] = "failure"]
              /\ warned' = [warned EXCEPT ![p] = TRUE]
    BY Zenon DEF Prepare, Alive, AlreadyCommitted
  <1>2. "running" \in NodeStatus /\ "prepared" \in EffectStatus
    BY Zenon DEF NodeStatus, EffectStatus
  <1>3. /\ mem' \in [Procs -> Images]
        /\ \A q \in Procs \ {p} : mem'[q] = mem[q]
        /\ mem'[p].mode = mem[p].mode
        /\ Committed(mem[p]) \subseteq Committed(mem'[p])
        /\ ~mem'[p].completed /\ ~mem'[p].success
        /\ Fence(p)' = "prepared" /\ told[p] # "success"
    <2> DEFINE st == "running"
               f == "prepared"
    <2>1. /\ st \in NodeStatus /\ f \in EffectStatus
          /\ f = "committed" \/ Fence(p) # "committed"
          /\ mem' = [mem EXCEPT ![p] = Marked(p, st, f)]
          /\ pc[p] = "head" /\ Alive(p) /\ ~mem[p].completed
      BY <1>1, <1>2, Zenon
    <2>2. f = "prepared"
      BY Zenon
    <2> HIDE DEF st, f
    <2> QED
      BY <2>1, <2>2, MarkedStep, ZenonT(60)
  <1>4. /\ pc'[p] # "none" /\ told'[p] # "success"
        /\ told' \in [Procs -> Tellings] /\ warned' \in [Procs -> BOOLEAN]
        /\ \A q \in Procs \ {p} : /\ pc'[q] = pc[q] /\ told'[q] = told[q]
                                  /\ warned'[q] = warned[q]
    BY <1>1, <1>3, ZenonT(60) DEF WriterInv, Versions, RecordInv, Shapes,
    Tellings
  <1>5. Progress(p)'
    BY <1>3, <1>4, Zenon DEF Progress
  <1>6. outcome' \in [Procs -> Outcome]
    BY <1>1, Zenon DEF RecordInv, Shapes
  <1> QED
    BY <1>1, <1>3, <1>4, <1>5, <1>6, Zenon DEF ObjectStep

\* A node without an effect, or with a committed one, is entered.
LEMMA EnterStep ==
  ASSUME WriterInv, RecordInv, NEW p \in Procs, Enter(p) PROVE ObjectStep(p)
  <1>1. /\ Alive(p) /\ pc[p] = "head" /\ ~mem[p].completed
        /\ UNCHANGED <<ver, held, calls, told, warned>>
        /\ mem' = [mem EXCEPT ![p] = Marked(p, "running", Fence(p))]
        /\ \/ /\ node(p) \in Effectful /\ pc' = [pc EXCEPT ![p] = "record"]
              /\ outcome' = [outcome EXCEPT ![p] = [committed |-> TRUE, success |-> TRUE]]
           \/ /\ node(p) \notin Effectful /\ pc' = [pc EXCEPT ![p] = "exec"]
              /\ UNCHANGED outcome
    BY Zenon DEF Enter, Alive
  <1>2. Fence(p) \in EffectStatus /\ "running" \in NodeStatus
    <2>1. mem[p] \in Images
      BY Zenon DEF RecordInv, Shapes
    <2>2. node(p) \in Nodes /\ mem[p].effects \in [Nodes -> EffectStatus]
      BY <1>1, <2>1, ZenonT(60) DEF Images, Image, node
    <2> QED
      BY <2>2, Zenon DEF Fence, NodeStatus
  <1>3. /\ mem' \in [Procs -> Images]
        /\ \A q \in Procs \ {p} : mem'[q] = mem[q]
        /\ mem'[p].mode = mem[p].mode
        /\ Committed(mem[p]) \subseteq Committed(mem'[p])
        /\ ~mem'[p].completed /\ ~mem'[p].success
        /\ node(p)' = node(p) /\ told[p] # "success"
    <2>1. Fence(p) = "committed" \/ Fence(p) # "committed"
      BY Zenon
    <2> QED
      BY <1>1, <1>2, <2>1, MarkedStep, ZenonT(60)
  <1>4. /\ pc'[p] \in {"record", "exec"}
        /\ pc'[p] = "exec" => node(p) \notin Effectful
        /\ told' = told /\ warned' = warned
        /\ \A q \in Procs \ {p} : pc'[q] = pc[q]
    BY <1>1, ZenonT(60) DEF WriterInv, Versions
  <1>5. Progress(p)'
    BY <1>3, <1>4, Zenon DEF Progress
  <1>6. told' \in [Procs -> Tellings] /\ warned' \in [Procs -> BOOLEAN]
    BY <1>4, Zenon DEF RecordInv, Shapes
  <1>7. outcome' \in [Procs -> Outcome]
    <2>1. [committed |-> TRUE, success |-> TRUE] \in Outcome
      BY Zenon DEF Outcome
    <2> QED
      BY <1>1, <2>1, Zenon DEF RecordInv, Shapes
  <1> QED
    BY <1>1, <1>3, <1>4, <1>5, <1>6, <1>7, ZenonT(60) DEF ObjectStep

\* A change of one status touches no fence.
LEMMA StatusUpdate ==
  ASSUME NEW m \in Images, NEW x, NEW s \in NodeStatus,
         NEW w, w = [m EXCEPT !.status[x] = s]
  PROVE  /\ w \in Images /\ w.effects = m.effects /\ w.mode = m.mode
         /\ w.current = m.current /\ w.completed = m.completed /\ w.success = m.success
  <1> DEFINE status == [m.status EXCEPT ![x] = s]
  <1>1. /\ m \in Image /\ m.status \in [Nodes -> NodeStatus]
        /\ m.completed \/ m.current \in Nodes
        /\ m.success => m.completed
    BY Zenon DEF Images, Image
  <1>2. status \in [Nodes -> NodeStatus]
    BY <1>1, UpdateType, Zenon
  <1>3. w = [m EXCEPT !.status = status]
    BY <1>1, Zenon DEF Image
  <1> HIDE DEF status
  <1>4. w \in Image
    BY <1>1, <1>2, <1>3, ZenonT(60) DEF Image
  <1>5. w.effects = m.effects /\ w.mode = m.mode /\ w.current = m.current
    BY <1>1, <1>2, <1>3, ZenonT(60) DEF Image
  <1>6. w.completed = m.completed /\ w.success = m.success
    BY <1>1, <1>2, <1>3, ZenonT(60) DEF Image
  <1>7. w \in Images
    BY <1>1, <1>4, <1>5, <1>6, ZenonT(60) DEF Images
  <1> QED
    BY <1>5, <1>6, <1>7, Zenon

\* A change of one fence touches nothing else.
LEMMA FenceUpdate ==
  ASSUME NEW m \in Images, NEW x, NEW f \in EffectStatus,
         NEW w, w = [m EXCEPT !.effects[x] = f]
  PROVE  /\ w \in Images /\ w.mode = m.mode /\ w.current = m.current
         /\ w.completed = m.completed /\ w.success = m.success
  <1> DEFINE effects == [m.effects EXCEPT ![x] = f]
  <1>1. /\ m \in Image /\ m.effects \in [Nodes -> EffectStatus]
        /\ m.completed \/ m.current \in Nodes
        /\ m.success => m.completed
    BY Zenon DEF Images, Image
  <1>2. effects \in [Nodes -> EffectStatus]
    BY <1>1, UpdateType, Zenon
  <1>3. w = [m EXCEPT !.effects = effects]
    BY <1>1, Zenon DEF Image
  <1> HIDE DEF effects
  <1>4. w \in Image
    BY <1>1, <1>2, <1>3, ZenonT(60) DEF Image
  <1>5. w.mode = m.mode /\ w.current = m.current
    BY <1>1, <1>2, <1>3, ZenonT(60) DEF Image
  <1>6. w.completed = m.completed /\ w.success = m.success
    BY <1>1, <1>2, <1>3, ZenonT(60) DEF Image
  <1>7. w \in Images
    BY <1>1, <1>4, <1>5, <1>6, ZenonT(60) DEF Images
  <1> QED
    BY <1>5, <1>6, <1>7, ZenonT(60)

\* An object at work is at a node and has not succeeded.
LEMMA AtWork ==
  ASSUME RecordInv, NEW p \in Procs, pc[p] \in Working
  PROVE  /\ mem[p] \in Images /\ node(p) \in Nodes
         /\ ~mem[p].completed /\ ~mem[p].success /\ told[p] # "success"
  <1>1. mem[p] \in Images /\ ~mem[p].completed
    BY Zenon DEF RecordInv, Shapes, Progress
  <1>2. mem[p].completed \in BOOLEAN /\ mem[p].success \in BOOLEAN
    BY <1>1, Zenon DEF Images, Image
  <1>3. node(p) \in Nodes /\ ~mem[p].success
    BY <1>1, <1>2, Zenon DEF Images, node
  <1>4. told[p] # "success"
    BY Zenon DEF RecordInv, Progress, Working
  <1> QED
    BY <1>1, <1>3, <1>4, Zenon

\* The quota error after a node leaves its fence.
LEMMA QuotaStep ==
  ASSUME WriterInv, RecordInv, NEW p \in Procs, QuotaExceeded(p) PROVE ObjectStep(p)
  <1>1. /\ Alive(p) /\ pc[p] = "record" /\ UNCHANGED <<ver, held, calls, warned>>
        /\ told' = [told EXCEPT ![p] = "failure"] /\ pc' = [pc EXCEPT ![p] = "idle"]
        /\ outcome' = [outcome EXCEPT ![p] = NoOutcome]
    BY Zenon DEF QuotaExceeded, Alive, DropResult
  <1>2. mem[p] \in Images /\ ~mem[p].success
    BY <1>1, AtWork, ZenonT(60) DEF Working
  <1>3. \E s \in NodeStatus : mem' = [mem EXCEPT ![p].status[node(p)] = s]
    BY Zenon DEF QuotaExceeded, StatusOf, NodeStatus
  <1>4. PICK s \in NodeStatus : mem'[p] = [mem[p] EXCEPT !.status[node(p)] = s]
    BY <1>3, Zenon DEF RecordInv, Shapes
  <1>5. /\ mem'[p] \in Images /\ mem'[p].effects = mem[p].effects
        /\ mem'[p].mode = mem[p].mode /\ ~mem'[p].success
    BY <1>2, <1>4, StatusUpdate, SMTT(30)
  <1>6. mem' \in [Procs -> Images] /\ \A q \in Procs \ {p} : mem'[q] = mem[q]
    BY <1>3, <1>5, Zenon DEF RecordInv, Shapes
  <1>7. /\ pc'[p] = "idle" /\ told'[p] = "failure"
        /\ told' \in [Procs -> Tellings] /\ outcome' \in [Procs -> Outcome]
        /\ \A q \in Procs \ {p} : pc'[q] = pc[q] /\ told'[q] = told[q]
    BY <1>1, ZenonT(60) DEF WriterInv, Versions, RecordInv, Shapes, Tellings,
    Outcome, NoOutcome
  <1>8. Progress(p)'
    BY <1>7, ZenonT(60) DEF Progress, Working
  <1>9. warned' = warned /\ warned' \in [Procs -> BOOLEAN]
    BY <1>1, Zenon DEF RecordInv, Shapes
  <1> QED
    BY <1>1, <1>5, <1>6, <1>7, <1>8, <1>9, ZenonT(60) DEF ObjectStep, Committed

\* The result of an executor is consumed: the fence it moves was not
\* committed.
LEMMA ConsumeStep ==
  ASSUME WriterInv, RecordInv, NEW p \in Procs, Consume(p) PROVE ObjectStep(p)
  <1>1. Alive(p) /\ pc[p] = "consume" /\ UNCHANGED <<held, calls, warned>>
    BY Zenon DEF Consume, Alive
  <1>2. /\ mem[p] \in Images /\ node(p) \in Nodes
        /\ ~mem[p].completed /\ ~mem[p].success /\ told[p] # "success"
    BY <1>1, AtWork, Zenon DEF Working
  <1>3. \/ UNCHANGED mem
        \/ /\ node(p) \in Effectful
           /\ \E f \in EffectStatus : mem' = [mem EXCEPT ![p].effects[node(p)] = f]
    BY Zenon DEF Consume, EffectStatus
  <1>4. /\ mem' \in [Procs -> Images] /\ \A q \in Procs \ {p} : mem'[q] = mem[q]
        /\ mem'[p].mode = mem[p].mode /\ Committed(mem[p]) \subseteq Committed(mem'[p])
        /\ ~mem'[p].completed /\ ~mem'[p].success
    <2>1. CASE UNCHANGED mem
      BY <1>2, <2>1, ZenonT(60) DEF RecordInv, Shapes
    <2>2. CASE /\ node(p) \in Effectful
               /\ \E f \in EffectStatus : mem' = [mem EXCEPT ![p].effects[node(p)] = f]
      <3>1. PICK f \in EffectStatus : mem' = [mem EXCEPT ![p].effects[node(p)] = f]
        BY <2>2, Zenon
      <3>2. /\ mem'[p] = [mem[p] EXCEPT !.effects[node(p)] = f]
            /\ \A q \in Procs \ {p} : mem'[q] = mem[q]
        BY <3>1, ZenonT(60) DEF RecordInv, Shapes
      <3>3. /\ mem'[p] \in Images /\ mem'[p].mode = mem[p].mode
            /\ \A n \in Nodes : mem'[p].effects[n] =
                  IF n = node(p) THEN f ELSE mem[p].effects[n]
        <4> DEFINE m == mem[p]
                   w == mem'[p]
                   x == node(p)
        <4>1. m \in Images /\ w = [m EXCEPT !.effects[x] = f]
          BY <1>2, <3>2, ZenonT(60)
        <4> HIDE DEF m, w, x
        <4>2. w \in Images /\ w.mode = m.mode
          BY <4>1, FenceUpdate, SMTT(30)
        <4>3. m.effects \in [Nodes -> EffectStatus] /\ w.effects = [m.effects EXCEPT ![x] = f]
          BY <4>1, Zenon DEF Images, Image
        <4>4. \A n \in Nodes : w.effects[n] = IF n = x THEN f ELSE m.effects[n]
          BY <4>3, UpdateValue, ZenonT(60)
        <4> QED
          BY <4>2, <4>4, ZenonT(60) DEF m, w, x
      <3>4. ~mem'[p].completed /\ ~mem'[p].success
        BY <1>2, <3>2, FenceUpdate, SMTT(30)
      <3>5. Fence(p) # "committed"
        BY <1>1, <2>2, Zenon DEF RecordInv, Progress
      <3>6. Committed(mem[p]) \subseteq Committed(mem'[p])
        BY <3>3, <3>5, Zenon DEF Committed, Fence, node
      <3>7. mem' \in [Procs -> Images]
        BY <3>1, <3>2, <3>3, ZenonT(60) DEF RecordInv, Shapes
      <3> QED
        BY <3>2, <3>3, <3>4, <3>6, <3>7, ZenonT(60)
    <2> QED
      BY <1>3, <2>1, <2>2, ZenonT(60)
  <1>5. outcome' \in [Procs -> Outcome]
    <2>1. outcome \in [Procs -> Outcome] /\ outcome[p].committed \in BOOLEAN
      BY Zenon DEF RecordInv, Shapes, Outcome
    <2>2. CASE UNCHANGED outcome \/ DropResult(p)
      <3>1. NoOutcome \in Outcome
        BY Zenon DEF NoOutcome, Outcome
      <3> QED
        BY <2>1, <2>2, <3>1, ZenonT(60) DEF DropResult
    <2>3. CASE Failed(p)
      BY <2>1, <2>3, ZenonT(60) DEF Failed, Outcome
    <2> QED
      BY <2>2, <2>3, ZenonT(60) DEF Consume
  <1>6. /\ \/ pc' = [pc EXCEPT ![p] = "idle"] /\ told' = [told EXCEPT ![p] = "manual"]
           \/ pc' = [pc EXCEPT ![p] = "record"] /\ UNCHANGED told
    BY Zenon DEF Consume
  <1>7. /\ pc'[p] \in {"idle", "record"} /\ told'[p] # "success"
        /\ told' \in [Procs -> Tellings]
        /\ \A q \in Procs \ {p} : pc'[q] = pc[q] /\ told'[q] = told[q]
    BY <1>2, <1>6, ZenonT(60) DEF WriterInv, Versions, RecordInv, Shapes,
    Tellings
  <1>8. Progress(p)'
    BY <1>4, <1>7, Zenon DEF Progress, Working
  <1>9. warned' = warned /\ warned' \in [Procs -> BOOLEAN]
    BY <1>1, Zenon DEF RecordInv, Shapes
  <1> QED
    BY <1>1, <1>4, <1>5, <1>7, <1>8, <1>9, ZenonT(60) DEF ObjectStep

\* The node is recorded and the position moves.
LEMMA RecordStep ==
  ASSUME WriterInv, RecordInv, NEW p \in Procs, RecordNode(p) PROVE ObjectStep(p)
  <1>1. /\ Alive(p) /\ pc[p] = "record" /\ UNCHANGED <<held, calls>>
        /\ outcome' = [outcome EXCEPT ![p] = NoOutcome]
    BY Zenon DEF RecordNode, Alive, DropResult
  <1>2. mem[p] \in Images /\ node(p) \in Nodes /\ told[p] # "success"
    BY <1>1, AtWork, ZenonT(60) DEF Working
  <1>3. outcome[p].success \in BOOLEAN
    BY Zenon DEF RecordInv, Shapes, Outcome
  <1>4. PICK ok \in BOOLEAN : mem' = [mem EXCEPT ![p] = Recorded(p, ok)]
    BY <1>3, ZenonT(60) DEF RecordNode, Verdicts
  <1>5. mem'[p] = Recorded(p, ok) /\ \A q \in Procs \ {p} : mem'[q] = mem[q]
    BY <1>4, ZenonT(60) DEF RecordInv, Shapes
  <1>6. /\ mem'[p] \in Images /\ mem'[p].mode = mem[p].mode
        /\ mem'[p].effects = mem[p].effects
    BY <1>2, <1>5, RecordedImage, ZenonT(60) DEF RecordInv
  <1>7. mem' \in [Procs -> Images]
    BY <1>4, <1>5, <1>6, ZenonT(60) DEF RecordInv, Shapes
  <1>8. Committed(mem[p]) \subseteq Committed(mem'[p])
    BY <1>6, Zenon DEF Committed
  <1>9. outcome' \in [Procs -> Outcome]
    BY <1>1, ZenonT(60) DEF RecordInv, Shapes, NoOutcome, Outcome
  <1>10. CASE SaveOk(p, mem'[p]) /\ UNCHANGED warned /\ mem'[p].completed
              /\ Answer(p, IF mem'[p].success THEN "success" ELSE "failure")
    <2>1. /\ pc'[p] = "idle" /\ told' \in [Procs -> Tellings]
          /\ told'[p] = IF mem'[p].success THEN "success" ELSE "failure"
          /\ \A q \in Procs \ {p} : pc'[q] = pc[q] /\ told'[q] = told[q]
      BY <1>10, ZenonT(60) DEF WriterInv, Versions, RecordInv, Shapes, Tellings
    <2>2. Progress(p)'
      BY <2>1, Zenon DEF Progress, Working
    <2>3. warned' = warned /\ warned' \in [Procs -> BOOLEAN]
      BY <1>10, ZenonT(60) DEF RecordInv, Shapes
    <2> QED
      BY <1>1, <1>5, <1>6, <1>7, <1>8, <1>9, <1>10, <2>1, <2>2, <2>3,
      ZenonT(60) DEF ObjectStep
  <1>11. CASE SaveOk(p, mem'[p]) /\ UNCHANGED <<warned, told>>
              /\ pc' = [pc EXCEPT ![p] = "head"]
    <2>1. /\ pc'[p] = "head" /\ told' \in [Procs -> Tellings] /\ told'[p] # "success"
          /\ \A q \in Procs \ {p} : pc'[q] = pc[q] /\ told'[q] = told[q]
      BY <1>2, <1>11, ZenonT(60) DEF WriterInv, Versions, RecordInv, Shapes,
      Tellings
    <2>2. Progress(p)'
      BY <2>1, Zenon DEF Progress, Working
    <2>3. warned' = warned /\ warned' \in [Procs -> BOOLEAN]
      BY <1>11, ZenonT(60) DEF RecordInv, Shapes
    <2> QED
      BY <1>1, <1>5, <1>6, <1>7, <1>8, <1>9, <1>11, <2>1, <2>2, <2>3,
      ZenonT(60) DEF ObjectStep
  <1>12. CASE AnswerStoreError(p)
    <2>1. /\ pc'[p] = "idle" /\ told' \in [Procs -> Tellings] /\ told'[p] # "success"
          /\ warned'[p] /\ warned' \in [Procs -> BOOLEAN]
          /\ \A q \in Procs \ {p} : /\ pc'[q] = pc[q] /\ told'[q] = told[q]
                                    /\ warned'[q] = warned[q]
      BY <1>12, ZenonT(60) DEF WriterInv, Versions, RecordInv, Shapes, Tellings
    <2>2. Progress(p)'
      BY <2>1, Zenon DEF Progress, Working
    <2> QED
      BY <1>1, <1>5, <1>6, <1>7, <1>8, <1>9, <2>1, <2>2, ZenonT(60) DEF
      ObjectStep
  <1> QED
    BY <1>10, <1>11, <1>12, ZenonT(60) DEF RecordNode

\* How a step of p may touch the record.
Storing(p) ==
    \/ UNCHANGED <<record, ver, finished>>
    \/ SaveOk(p, mem'[p])
    \/ SaveFails(p, mem'[p])

\* Every step of execute_step is one of an object, with at most one save.
LEMMA StepShape ==
  ASSUME WriterInv, RecordInv, NEW p \in Procs, Step(p)
  PROVE  ObjectStep(p) /\ Storing(p)
  <1>1. ObjectStep(p)
    BY CompletedStep, InterruptedStep, StoppedStep, PrepareStep, EnterStep,
    ExecutorStep, ConsumeStep, QuotaStep, RecordStep, ZenonT(60) DEF Step
  <1>2. CASE Completed(p) \/ Interrupted(p) \/ NodeBlocked(p) \/ ManualRequired(p)
             \/ Enter(p) \/ Apply(p) \/ Return(p) \/ Retry(p) \/ QuotaExceeded(p)
    BY <1>1, <1>2, ZenonT(60) DEF Completed, Interrupted, NodeBlocked,
    ManualRequired, Enter, Apply, Return, Retry, QuotaExceeded, Storing
  <1>3. CASE Prepare(p) \/ Consume(p) \/ RecordNode(p)
    BY <1>1, <1>3, ZenonT(60) DEF Prepare, Consume, RecordNode, Storing
  <1> QED
    BY <1>1, <1>2, <1>3, ZenonT(60) DEF Step

-----------------------------------------------------------------------------
\* Of all live objects of a run only the last claimant can save, for every
\* workflow and every number of processes, crashes and I/O errors.
THEOREM StaleWritersFenced == Spec => []SingleWriter
<1>1. Init => WriterInv
  BY WriterInit, Zenon
<1>2. WriterInv /\ [Next]_vars => WriterInv'
  BY WriterStep, Zenon
<1>3. WriterInv => SingleWriter
  BY Zenon DEF WriterInv
<1> QED
  BY <1>1, <1>2, <1>3, PTL DEF Spec

-----------------------------------------------------------------------------
\* A text is not the absence of one.
LEMMA TextPresent == NoCheckpoint \notin Texts
  BY TextAssumption, Zenon DEF Texts, Checkpoint, Images

\* A save writes a well-formed text that is newer than all there are.
LEMMA SavedNewer ==
  ASSUME WriterInv, RecordInv, NEW p \in Procs, ObjectStep(p),
         CompareExchange(ver[p], mem'[p])
  PROVE  /\ record'.checkpoint \in Texts
         /\ record'.checkpoint.image = mem'[p]
         /\ record'.checkpoint.state_version = record.version + 1
         /\ ver[p] = record.version /\ record'.version = record.version + 1
         /\ calls # 0
         /\ record.checkpoint # NoCheckpoint =>
              record.checkpoint.state_version < record'.checkpoint.state_version
         /\ \A q \in Procs : held[q] # NoCheckpoint =>
              held[q].state_version < record'.checkpoint.state_version
  <1>1. Versions /\ record.version \in Nat /\ mem'[p] \in Images
    BY Zenon DEF WriterInv, Versions, ObjectStep
  <1>2. /\ record'.checkpoint = [image |-> mem'[p], state_version |-> record.version + 1]
        /\ ver[p] = record.version /\ record'.version = record.version + 1
    BY <1>1, SavedText, SavedRecord, ZenonT(60)
  <1>3. record'.checkpoint \in Texts
    BY <1>1, <1>2, SMTT(30) DEF Texts
  <1>4. calls # 0
    BY Zenon DEF ObjectStep, RecordInv, Stored
  <1>5. record.checkpoint # NoCheckpoint =>
          /\ record.checkpoint.state_version \in Nat
          /\ record.checkpoint.state_version < record.version + 1
    BY <1>1, SMTT(30) DEF RecordInv, Stored, Shapes, Texts
  <1>6. ASSUME NEW q \in Procs, held[q] # NoCheckpoint
        PROVE  held[q].state_version < record.version + 1
    <2>1. held[q].state_version \in Nat
      BY <1>6, Zenon DEF RecordInv, Shapes, Texts
    <2>2. /\ record.checkpoint # NoCheckpoint
          /\ held[q].state_version <= record.checkpoint.state_version
      BY <1>6, Zenon DEF RecordInv, Older
    <2> QED
      BY <1>1, <1>5, <2>1, <2>2, SMTT(30)
  <1> QED
    BY <1>2, <1>3, <1>4, <1>5, <1>6, SMTT(30)

\* A step of an object keeps the relation between record, objects and texts.
LEMMA StepRecord ==
  ASSUME WriterInv, RecordInv, NEW p \in Procs, ObjectStep(p), Storing(p)
  PROVE  RecordInv'
  <1>1. /\ \A q \in Procs : Progress(q) /\ Follows(q) /\ Older(q)
        /\ Progress(p)' /\ Alive(p) /\ Alive(p)' /\ UNCHANGED <<held, calls>>
        /\ \A q \in Procs \ {p} :
             mem'[q] = mem[q] /\ pc'[q] = pc[q] /\ told'[q] = told[q]
    BY Zenon DEF RecordInv, ObjectStep, Alive
  <1>2. \A q \in Procs : Progress(q)'
    BY <1>1, SMTT(30) DEF Progress, node, Fence
  <1>3. /\ mem' \in [Procs -> Images] /\ outcome' \in [Procs -> Outcome]
        /\ told' \in [Procs -> Tellings] /\ warned' \in [Procs -> BOOLEAN]
        /\ held' \in [Procs -> Texts \cup {NoCheckpoint}]
    BY Zenon DEF ObjectStep, RecordInv, Shapes
  <1>4. calls' # 0
    BY <1>1, Zenon DEF RecordInv, Stored
  <1>5. CASE UNCHANGED <<record, ver>>
    <2>1. Shapes' /\ Stored'
      BY <1>3, <1>4, <1>5, Zenon DEF Shapes, Stored, RecordInv
    <2>2. \A q \in Procs : Older(q)'
      BY <1>1, <1>5, ZenonT(60) DEF Older
    <2>3. Follows(p)'
      BY <1>1, <1>5, ZenonT(60) DEF Follows, ObjectStep
    <2>4. \A q \in Procs \ {p} : Follows(q)'
      BY <1>1, <1>5, ZenonT(60) DEF Follows, Alive
    <2> QED
      BY <1>2, <2>1, <2>2, <2>3, <2>4, Zenon DEF RecordInv
  <1>6. CASE /\ CompareExchange(ver[p], mem'[p])
             /\ UNCHANGED ver \/ ver' = [ver EXCEPT ![p] = @ + 1]
    <2>1. /\ record'.checkpoint \in Texts /\ record'.checkpoint.image = mem'[p]
          /\ record'.checkpoint.state_version = record'.version
          /\ \A q \in Procs : held[q] # NoCheckpoint =>
               held[q].state_version < record'.checkpoint.state_version
          /\ record'.version = record.version + 1
      BY <1>6, SavedNewer, Zenon
    <2>2. record'.checkpoint # NoCheckpoint
      BY <2>1, TextPresent, ZenonT(60)
    <2>3. record.version \in Nat
      BY Zenon DEF WriterInv, Versions
    <2>4. Shapes' /\ Stored'
      BY <1>3, <1>4, <2>1, <2>3, SMTT(30) DEF Shapes, Stored
    <2>5. ASSUME NEW q \in Procs PROVE Older(q)'
      <3>1. held[q] # NoCheckpoint => held[q].state_version \in Nat
        BY Zenon DEF RecordInv, Shapes, Texts
      <3>2. held'[q] = held[q]
        BY <1>1, Zenon
      <3> QED
        BY <2>1, <2>2, <2>3, <3>1, <3>2, SMTT(30) DEF Older
    <2>6. Follows(p)'
      BY <2>1, Zenon DEF Follows
    <2>7. ASSUME NEW q \in Procs \ {p} PROVE Follows(q)'
      <3>1. ver'[q] = ver[q] /\ ver[q] <= record.version /\ ver[q] \in Nat
        BY <1>6, Zenon DEF WriterInv, Versions, Behind
      <3>2. ver'[q] # record'.version
        BY <2>1, <2>3, <3>1, SMTT(30)
      <3> QED
        BY <3>2, Zenon DEF Follows
    <2> QED
      BY <1>2, <2>4, <2>5, <2>6, <2>7, Zenon DEF RecordInv
  <1> QED
    BY <1>5, <1>6, Zenon DEF Storing, SaveOk, SaveFails

\* A rerun forgets fences only in Replay mode.
LEMMA RerunRecord ==
  ASSUME WriterInv, RecordInv, NEW p \in Procs, NEW n \in Nodes, SelectiveRerun(p, n)
  PROVE  RecordInv' /\ ~mem'[p].success
  <1> DEFINE m == Cleared(mem[p], n, RerunMode)
  <1>1. /\ Alive(p) /\ UNCHANGED <<record, ver, outcome, held, warned>>
        /\ mem' = [mem EXCEPT ![p] = m] /\ pc' = [pc EXCEPT ![p] = "head"]
        /\ told' = [told EXCEPT ![p] = "nothing"] /\ calls' = calls + 1
    BY Zenon DEF SelectiveRerun, Call, Alive
  <1>2. mem[p] \in Images /\ mem[p].effects \in [Nodes -> EffectStatus]
        /\ mem[p].status \in [Nodes -> NodeStatus]
    BY Zenon DEF RecordInv, Shapes, Images, Image
  <1>3. m \in Images /\ m.mode = "replay" /\ ~m.success
    <2> DEFINE effects == [k \in Nodes |->
                   IF k \in Reachable(n) THEN "none" ELSE mem[p].effects[k]]
               status == [k \in Nodes |->
                   IF k \in Reachable(n) THEN "pending" ELSE mem[p].status[k]]
    <2>1. effects \in [Nodes -> EffectStatus] /\ status \in [Nodes -> NodeStatus]
      BY <1>2, Zenon DEF EffectStatus, NodeStatus
    <2>2. m = [current |-> n, completed |-> FALSE, success |-> FALSE, mode |-> "replay",
               effects |-> effects, status |-> status]
      BY Zenon DEF Cleared, RerunMode
    <2> HIDE DEF m, effects, status
    <2>3. m \in Image /\ m.current = n /\ m.mode = "replay" /\ ~m.success
      BY <2>1, <2>2, ZenonT(60) DEF Image
    <2> QED
      BY <2>3, Zenon DEF Images
  <1> HIDE DEF m
  <1>4. /\ mem' \in [Procs -> Images] /\ mem'[p] = m
        /\ pc'[p] = "head" /\ told'[p] = "nothing" /\ told' \in [Procs -> Tellings]
        /\ \A q \in Procs \ {p} : mem'[q] = mem[q] /\ pc'[q] = pc[q] /\ told'[q] = told[q]
    BY <1>1, <1>3, ZenonT(60) DEF WriterInv, Versions, RecordInv, Shapes,
    Tellings
  <1>5. calls' # 0
    BY <1>1, SMTT(30) DEF WriterInv, Versions
  <1>6. Shapes' /\ Stored'
    BY <1>1, <1>4, <1>5, ZenonT(60) DEF RecordInv, Shapes, Stored
  <1>7. Progress(p)' /\ Follows(p)'
    BY <1>3, <1>4, ZenonT(60) DEF Progress, Follows, Working
  <1>8. ASSUME NEW q \in Procs \ {p} PROVE Progress(q)' /\ Follows(q)'
    <2>1. Progress(q) /\ Follows(q)
      BY Zenon DEF RecordInv
    <2> QED
      BY <1>1, <1>4, <2>1, SMTT(30) DEF Progress, Follows, Alive, node, Fence
  <1>9. \A q \in Procs : Older(q)'
    BY <1>1, Zenon DEF RecordInv, Older
  <1> QED
    BY <1>3, <1>4, <1>6, <1>7, <1>8, <1>9, ZenonT(60) DEF RecordInv

\* Starting or calling an object again changes no image.
LEMMA CallRecord ==
  ASSUME WriterInv, RecordInv, NEW p \in Procs, Start(p) \/ Execute(p)
  PROVE  RecordInv'
  <1>1. /\ UNCHANGED <<record, ver, outcome, held, warned, mem>>
        /\ pc' = [pc EXCEPT ![p] = "head"]
        /\ UNCHANGED told \/ told' = [told EXCEPT ![p] = "nothing"]
    BY Zenon DEF Start, Execute
  <1>2. told'[p] # "success"
    <2>1. CASE Start(p)
      <3>1. pc[p] = "none" /\ UNCHANGED told
        BY <2>1, Zenon DEF Start, RecordInv, Stored, Alive
      <3> QED
        BY <3>1, Zenon DEF RecordInv, Progress
    <2>2. CASE Execute(p)
      BY <2>2, Zenon DEF Execute, RecordInv, Shapes
    <2> QED
      BY <2>1, <2>2, ZenonT(60)
  <1>3. /\ pc'[p] = "head" /\ told' \in [Procs -> Tellings]
        /\ \A q \in Procs \ {p} : pc'[q] = pc[q] /\ told'[q] = told[q]
    BY <1>1, SMTT(30) DEF WriterInv, Versions, RecordInv, Shapes, Tellings
  <1>4. calls' # 0
    BY SMTT(30) DEF Start, Execute, Call, WriterInv, Versions, RecordInv,
    Stored, Alive
  <1>5. Shapes' /\ Stored'
    BY <1>1, <1>3, <1>4, Zenon DEF RecordInv, Shapes, Stored
  <1>6. Follows(p)'
    <2>1. Follows(p) /\ (Alive(p) \/ record.checkpoint = NoCheckpoint)
      BY Zenon DEF Start, Execute, RecordInv, Stored, Alive
    <2> QED
      BY <1>1, <2>1, ZenonT(60) DEF Follows
  <1>7. Progress(p)'
    BY <1>2, <1>3, ZenonT(60) DEF Progress, Working
  <1>8. ASSUME NEW q \in Procs \ {p} PROVE Progress(q)' /\ Follows(q)'
    <2>1. Progress(q) /\ Follows(q)
      BY Zenon DEF RecordInv
    <2> QED
      BY <1>1, <1>3, <2>1, ZenonT(60) DEF Progress, Follows, Alive, node, Fence
  <1>9. \A q \in Procs : Older(q)'
    BY <1>1, Zenon DEF RecordInv, Older
  <1> QED
    BY <1>5, <1>6, <1>7, <1>8, <1>9, ZenonT(60) DEF RecordInv

\* A new Run object is well formed.
LEMMA FreshImage == Fresh \in Images /\ ~Fresh.success
  <1>1. Fresh \in Image
    BY GraphAssumption, Zenon DEF Fresh, Image, EffectStatus, NodeStatus
  <1> QED
    BY <1>1, GraphAssumption, ZenonT(60) DEF Fresh, Images

\* What restore_run makes of a text keeps its fences, mode and result.
LEMMA RestoredImage ==
  ASSUME NEW m \in Images
  PROVE  /\ Restored(m) \in Images /\ Restored(m).effects = m.effects
         /\ Restored(m).mode = m.mode /\ Restored(m).success = m.success
         /\ Restored(m).completed = m.completed /\ Restored(m).current = m.current
  <1> DEFINE status == [n \in Nodes |->
                 IF n \in InFlight(m) THEN "pending" ELSE m.status[n]]
             w == Restored(m)
  <1>1. /\ m \in Image /\ m.status \in [Nodes -> NodeStatus]
        /\ m.completed \/ m.current \in Nodes
        /\ m.success => m.completed
    BY Zenon DEF Images, Image
  <1>2. status \in [Nodes -> NodeStatus] /\ w = [m EXCEPT !.status = status]
    BY <1>1, Zenon DEF NodeStatus, Restored
  <1> HIDE DEF status, w
  <1>3. w \in Image
    BY <1>1, <1>2, ZenonT(60) DEF Image
  <1>4. w.effects = m.effects /\ w.mode = m.mode /\ w.current = m.current
    BY <1>1, <1>2, ZenonT(60) DEF Image
  <1>5. w.completed = m.completed /\ w.success = m.success
    BY <1>1, <1>2, ZenonT(60) DEF Image
  <1>6. w \in Images
    BY <1>1, <1>3, <1>4, <1>5, ZenonT(60) DEF Images
  <1> QED
    BY <1>4, <1>5, <1>6, ZenonT(60) DEF w

\* A process that dies takes only its object with it.
LEMMA CrashRecord ==
  ASSUME WriterInv, RecordInv, NEW p \in Procs, Crash(p) PROVE RecordInv'
  <1>1. /\ UNCHANGED <<record, held, calls>> /\ Alive(p)
        /\ mem' = [mem EXCEPT ![p] = Fresh] /\ pc' = [pc EXCEPT ![p] = "none"]
        /\ ver' = [ver EXCEPT ![p] = 0] /\ outcome' = [outcome EXCEPT ![p] = NoOutcome]
        /\ told' = [told EXCEPT ![p] = "nothing"] /\ warned' = [warned EXCEPT ![p] = FALSE]
    BY Zenon DEF Crash, Alive
  <1>2. NoOutcome \in Outcome
    BY Zenon DEF NoOutcome, Outcome
  <1>3. /\ mem' \in [Procs -> Images] /\ outcome' \in [Procs -> Outcome]
        /\ told' \in [Procs -> Tellings]
    BY <1>1, <1>2, FreshImage, ZenonT(60) DEF RecordInv, Shapes, Tellings
  <1>4. warned' \in [Procs -> BOOLEAN]
    BY <1>1, Zenon DEF RecordInv, Shapes
  <1>5. /\ pc'[p] = "none" /\ told'[p] = "nothing"
        /\ \A q \in Procs \ {p} : /\ mem'[q] = mem[q] /\ pc'[q] = pc[q]
                                  /\ told'[q] = told[q] /\ ver'[q] = ver[q]
    BY <1>1, ZenonT(60) DEF WriterInv, Versions, RecordInv, Shapes
  <1>6. calls' # 0
    BY <1>1, Zenon DEF RecordInv, Stored
  <1>7. Shapes' /\ Stored'
    BY <1>1, <1>3, <1>4, <1>6, ZenonT(60) DEF RecordInv, Shapes, Stored
  <1>8. Progress(p)' /\ Follows(p)'
    BY <1>5, ZenonT(60) DEF Progress, Follows, Alive, Working
  <1>9. ASSUME NEW q \in Procs \ {p} PROVE Progress(q)' /\ Follows(q)'
    <2>1. Progress(q) /\ Follows(q)
      BY Zenon DEF RecordInv
    <2> QED
      BY <1>1, <1>5, <2>1, SMTT(30) DEF Progress, Follows, Alive, node, Fence
  <1>10. \A q \in Procs : Older(q)'
    BY <1>1, Zenon DEF RecordInv, Older
  <1> QED
    BY <1>7, <1>8, <1>9, <1>10, ZenonT(60) DEF RecordInv

\* A text that is read is the stored one.
LEMMA FetchRecord ==
  ASSUME WriterInv, RecordInv, NEW p \in Procs, Fetch(p) PROVE RecordInv'
  <1>1. /\ UNCHANGED <<record, pc, mem, ver, outcome, told, warned, calls>>
        /\ record.checkpoint # NoCheckpoint
        /\ held' = [held EXCEPT ![p] = record.checkpoint]
    BY Zenon DEF Fetch
  <1>2. /\ held' \in [Procs -> Texts \cup {NoCheckpoint}]
        /\ held'[p] = record.checkpoint
        /\ \A q \in Procs \ {p} : held'[q] = held[q]
    BY <1>1, Zenon DEF RecordInv, Shapes
  <1>3. Shapes' /\ Stored'
    BY <1>1, <1>2, ZenonT(60) DEF RecordInv, Shapes, Stored, Alive
  <1>4. \A q \in Procs : Progress(q)' /\ Follows(q)'
    BY <1>1, ZenonT(60) DEF RecordInv, Progress, Follows, Alive, node, Fence
  <1>5. record.checkpoint.state_version \in Nat
    BY <1>1, Zenon DEF RecordInv, Shapes, Texts
  <1>6. Older(p)'
    BY <1>1, <1>2, <1>5, SMTT(30) DEF Older
  <1>7. \A q \in Procs \ {p} : Older(q)'
    BY <1>1, <1>2, Zenon DEF RecordInv, Older
  <1> QED
    BY <1>3, <1>4, <1>6, <1>7, ZenonT(60) DEF RecordInv

\* A claim that goes through was made with the stored text.
LEMMA ClaimedCurrent ==
  ASSUME WriterInv, RecordInv, NEW p \in Procs, held[p] # NoCheckpoint,
         Claim(held[p].state_version, p)
  PROVE  /\ held[p] = record.checkpoint /\ held[p] \in Texts
         /\ record'.checkpoint = record.checkpoint
         /\ held[p].state_version = record.version
         /\ record'.version = record.version + 1
  <1>1. Versions /\ record.version \in Nat
    BY Zenon DEF WriterInv, Versions
  <1>2. /\ held[p].state_version = record.version
        /\ record'.version = record.version + 1
        /\ record'.checkpoint = record.checkpoint
    BY <1>1, ClaimedText, ClaimedRecord, ZenonT(60)
  <1>3. /\ record.checkpoint # NoCheckpoint /\ held[p] \in Texts
        /\ held[p].state_version <= record.checkpoint.state_version
        /\ held[p].state_version = record.checkpoint.state_version
             => held[p] = record.checkpoint
        /\ record.checkpoint.state_version <= record.version
    BY SMTT(30) DEF RecordInv, Shapes, Stored, Older
  <1>4. record.checkpoint.state_version \in Nat
    BY <1>3, Zenon DEF RecordInv, Shapes, Texts
  <1> QED
    BY <1>1, <1>2, <1>3, <1>4, SMTT(30)

\* Restoring keeps the relation between record, objects and texts.
LEMMA RestoreRecord ==
  ASSUME WriterInv, RecordInv, NEW p \in Procs, Restore(p) PROVE RecordInv'
  <1> DEFINE cp == held[p]
  <1>1. /\ pc[p] = "none" /\ held[p] # NoCheckpoint /\ calls' = calls + 1
        /\ held' = [held EXCEPT ![p] = NoCheckpoint] /\ UNCHANGED <<outcome, warned>>
    BY Zenon DEF Restore, Call
  <1>2. /\ held' \in [Procs -> Texts \cup {NoCheckpoint}] /\ held'[p] = NoCheckpoint
        /\ \A q \in Procs \ {p} : held'[q] = held[q]
    BY <1>1, Zenon DEF RecordInv, Shapes
  <1>3. calls' # 0 /\ record.version \in Nat
    BY <1>1, SMTT(30) DEF WriterInv, Versions
  <1>4. \A q \in Procs : Progress(q) /\ Follows(q) /\ Older(q)
    BY Zenon DEF RecordInv
  <1>5. ASSUME record'.checkpoint = record.checkpoint,
               UNCHANGED record \/ record'.version = record.version + 1
        PROVE  Stored' /\ \A q \in Procs : Older(q)'
    <2>1. record.checkpoint # NoCheckpoint => record.checkpoint.state_version \in Nat
      BY Zenon DEF RecordInv, Shapes, Texts
    <2>2. Stored'
      BY <1>3, <1>5, <2>1, SMTT(30) DEF RecordInv, Stored
    <2>3. \A q \in Procs : Older(q)'
      BY <1>2, <1>4, <1>5, ZenonT(60) DEF Older
    <2> QED
      BY <2>2, <2>3, ZenonT(60)
  <1>6. CASE /\ Claim(cp.state_version, p) /\ mem' = [mem EXCEPT ![p] = Restored(cp.image)]
             /\ ver' = [ver EXCEPT ![p] = record'.version] /\ Answer(p, "restored")
    <2>1. /\ cp = record.checkpoint /\ cp \in Texts
          /\ record'.checkpoint = record.checkpoint
          /\ record'.version = record.version + 1
      BY <1>1, <1>6, ClaimedCurrent, Zenon
    <2>2. cp.image \in Images
      BY <2>1, Zenon DEF Texts
    <2>3. /\ Restored(cp.image) \in Images
          /\ Restored(cp.image).effects = cp.image.effects
      BY <2>2, RestoredImage, Zenon
    <2>4. /\ mem' \in [Procs -> Images] /\ mem'[p] = Restored(cp.image)
          /\ told' \in [Procs -> Tellings] /\ told'[p] = "restored" /\ pc'[p] = "idle"
          /\ \A q \in Procs \ {p} : /\ mem'[q] = mem[q] /\ pc'[q] = pc[q]
                                    /\ told'[q] = told[q] /\ ver'[q] = ver[q]
      BY <1>6, <2>3, ZenonT(60) DEF WriterInv, Versions, RecordInv, Shapes, Tellings
    <2>5. Shapes'
      BY <1>1, <1>2, <2>1, <2>4, Zenon DEF RecordInv, Shapes
    <2>6. Progress(p)' /\ Follows(p)'
      BY <2>1, <2>3, <2>4, SMTT(30) DEF Progress, Follows, Working, Committed
    <2>7. ASSUME NEW q \in Procs \ {p} PROVE Progress(q)' /\ Follows(q)'
      <3>1. ver[q] <= record.version /\ ver[q] \in Nat
        BY Zenon DEF WriterInv, Versions, Behind
      <3>2. ver'[q] # record'.version
        BY <1>3, <2>1, <2>4, <3>1, SMTT(30)
      <3> QED
        BY <1>4, <2>4, <3>2, ZenonT(60) DEF Progress, Follows, node, Fence
    <2> QED
      BY <1>5, <2>1, <2>5, <2>6, <2>7, Zenon DEF RecordInv
  <1>7. CASE /\ UNCHANGED <<mem, ver, pc, told>>
             /\ UNCHANGED record \/ Claim(cp.state_version, p)
    <2>1. /\ record'.checkpoint = record.checkpoint
          /\ UNCHANGED record \/ record'.version = record.version + 1
      BY <1>1, <1>7, ClaimedCurrent, Zenon
    <2>2. Shapes'
      BY <1>1, <1>2, <1>7, <2>1, Zenon DEF RecordInv, Shapes
    <2>3. ASSUME NEW q \in Procs PROVE Progress(q)' /\ Follows(q)'
      <3>1. ver[q] <= record.version /\ ver[q] \in Nat
        BY Zenon DEF WriterInv, Versions, Behind
      <3>2. ver'[q] = record'.version => UNCHANGED record
        BY <1>3, <1>7, <2>1, <3>1, SMTT(30)
      <3> QED
        BY <1>4, <1>7, <2>1, <3>2, Zenon DEF Progress, Follows, Alive, node,
        Fence
    <2> QED
      BY <1>5, <2>1, <2>2, <2>3, Zenon DEF RecordInv
  <1> QED
    BY <1>6, <1>7, Zenon DEF Restore

\* At the start there is nothing stored and nobody alive.
LEMMA InitRecord == Init => RecordInv
  <1> SUFFICES ASSUME Init PROVE RecordInv
    BY Zenon
  <1>1. NoOutcome \in Outcome /\ record.checkpoint = NoCheckpoint
    BY Zenon DEF Init, NoOutcome, Outcome
  <1>2. Shapes
    BY <1>1, FreshImage, Zenon DEF Init, Shapes, Tellings
  <1>3. Stored /\ \A p \in Procs : Progress(p) /\ Follows(p) /\ Older(p)
    BY <1>1, Zenon DEF Init, Stored, Alive, Progress, Follows, Older, Working
  <1> QED
    BY <1>2, <1>3, Zenon DEF RecordInv

\* Every step keeps the relation.
LEMMA NextRecord == WriterInv /\ RecordInv /\ [Next]_vars => RecordInv'
  <1> SUFFICES ASSUME WriterInv, RecordInv, [Next]_vars PROVE RecordInv'
    BY Zenon
  <1>1. ASSUME NEW p \in Procs, Step(p) PROVE RecordInv'
    BY <1>1, StepShape, StepRecord, Zenon
  <1>2. ASSUME NEW p \in Procs, Host(p) PROVE RecordInv'
    BY <1>2, CallRecord, RerunRecord, CrashRecord, FetchRecord, RestoreRecord,
    Zenon DEF Host
  <1>3. CASE UNCHANGED vars
    BY <1>3, ZenonT(60) DEF vars, RecordInv, Shapes, Stored, Progress, Follows,
    Older, Alive, node, Fence
  <1> QED
    BY <1>1, <1>2, <1>3, Zenon DEF Next

\* The step of CommittedStays.
CommittedKept ==
    \A n \in Nodes :
        /\ record.checkpoint # NoCheckpoint
        /\ record.checkpoint.image.effects[n] = "committed"
        /\ record'.checkpoint.image.mode = "normal"
        => record'.checkpoint.image.effects[n] = "committed"

\* Whoever can save knows what is committed, so no save takes it back.
LEMMA NextKept == WriterInv /\ RecordInv /\ [Next]_vars => CommittedKept
  <1> SUFFICES ASSUME WriterInv, RecordInv, [Next]_vars PROVE CommittedKept
    BY Zenon
  <1>1. ASSUME record'.checkpoint = record.checkpoint PROVE CommittedKept
    BY <1>1, Zenon DEF CommittedKept
  <1>2. ASSUME NEW p \in Procs, ObjectStep(p), CompareExchange(ver[p], mem'[p])
        PROVE  CommittedKept
    <2>1. record'.checkpoint.image = mem'[p] /\ ver[p] = record.version
      BY <1>2, SavedNewer, Zenon
    <2>2. /\ Alive(p) /\ mem'[p].mode = mem[p].mode
          /\ Committed(mem[p]) \subseteq Committed(mem'[p])
      BY <1>2, Zenon DEF ObjectStep
    <2>3. Follows(p)
      BY Zenon DEF RecordInv
    <2> QED
      BY <2>1, <2>2, <2>3, ZenonT(60) DEF Follows, Committed, CommittedKept
  <1>3. ASSUME NEW p \in Procs, Step(p) PROVE CommittedKept
    BY <1>1, <1>2, <1>3, StepShape, Zenon DEF Storing, SaveOk, SaveFails
  <1>4. ASSUME NEW p \in Procs, Restore(p) PROVE CommittedKept
    <2>1. held[p] # NoCheckpoint /\ (UNCHANGED record \/ Claim(held[p].state_version, p))
      BY <1>4, Zenon DEF Restore
    <2> QED
      BY <1>1, <2>1, ClaimedCurrent, Zenon
  <1>5. ASSUME NEW p \in Procs, Start(p) \/ Execute(p) \/ Crash(p) \/ Fetch(p)
                                \/ \E n \in Nodes : SelectiveRerun(p, n)
        PROVE  UNCHANGED record
    BY <1>5, Zenon DEF Start, Execute, Crash, Fetch, SelectiveRerun
  <1>6. CASE UNCHANGED vars
    BY <1>1, <1>6, Zenon DEF vars
  <1> QED
    BY <1>1, <1>3, <1>4, <1>5, <1>6, Zenon DEF Next, Host

\* Recovery never takes back a committed effect: once a stored checkpoint has
\* a node's effect as committed, every later checkpoint of a normal run has,
\* whatever processes crash, restore, save late or meet I/O errors.
THEOREM CommittedEffectsStay == Spec => CommittedStays
  <1>1. Spec => [](WriterInv /\ RecordInv)
    BY WriterInit, WriterStep, InitRecord, NextRecord, PTL DEF Spec
  <1>2. WriterInv /\ RecordInv /\ [Next]_vars => [CommittedKept]_vars
    BY NextKept, Zenon
  <1>3. Spec => [][CommittedKept]_vars
    BY <1>1, <1>2, PTL DEF Spec
  <1> QED
    BY <1>3, Zenon DEF CommittedStays, CommittedKept

\* A successful result that is in memory without a warning, in the record or
\* in a text that a host holds was stored.
Durable ==
    /\ \A p \in Procs : mem[p].success /\ ~warned[p] =>
           ver[p] \in finished \/ ver[p] - 1 \in finished
    /\ record.checkpoint # NoCheckpoint /\ record.checkpoint.image.success
           => record.checkpoint.state_version \in finished
    /\ \A p \in Procs : held[p] # NoCheckpoint /\ held[p].image.success
           => held[p].state_version \in finished

\* A save notes the version of a completed run that succeeded.
LEMMA SavedFinished ==
  ASSUME WriterInv, RecordInv, NEW p \in Procs, ObjectStep(p),
         CompareExchange(ver[p], mem'[p])
  PROVE  /\ finished \subseteq finished'
         /\ mem'[p].success => ver[p] + 1 \in finished'
         /\ ver[p] = record.version
  <1>1. mem'[p].success \in BOOLEAN
    BY Zenon DEF ObjectStep, Images, Image
  <1> QED
    BY <1>1, Zenon DEF CompareExchange

\* A step of an object keeps successful results durable.
LEMMA StepDurable ==
  ASSUME WriterInv, RecordInv, Durable, NEW p \in Procs, ObjectStep(p), Storing(p)
  PROVE  Durable'
  <1>1. /\ UNCHANGED held
        /\ \A q \in Procs \ {p} : mem'[q] = mem[q] /\ warned'[q] = warned[q]
        /\ mem'[p].success /\ ~warned'[p] =>
             \/ mem[p].success /\ ~warned[p] /\ UNCHANGED ver
             \/ SaveOk(p, mem'[p])
        /\ finished \subseteq finished'
        /\ \A q \in Procs \ {p} : ver'[q] = ver[q]
    <2>1. finished \subseteq finished'
      BY SavedFinished, Zenon DEF Storing, SaveOk, SaveFails
    <2>2. \A q \in Procs \ {p} : ver'[q] = ver[q]
      BY Zenon DEF Storing, SaveOk, SaveFails, WriterInv, Versions
    <2> QED
      BY <2>1, <2>2, Zenon DEF ObjectStep
  <1>2. \A q \in Procs : held'[q] # NoCheckpoint /\ held'[q].image.success
           => held'[q].state_version \in finished'
    BY <1>1, Zenon DEF Durable
  <1>3. ASSUME NEW q \in Procs \ {p}, mem'[q].success, ~warned'[q]
        PROVE  ver'[q] \in finished' \/ ver'[q] - 1 \in finished'
    BY <1>1, <1>3, Zenon DEF Durable
  <1>4. ASSUME mem'[p].success, ~warned'[p]
        PROVE  ver'[p] \in finished' \/ ver'[p] - 1 \in finished'
    <2>1. CASE mem[p].success /\ ~warned[p] /\ UNCHANGED ver
      BY <1>1, <2>1, Zenon DEF Durable
    <2>2. CASE SaveOk(p, mem'[p])
      <3>1. CompareExchange(ver[p], mem'[p]) /\ ver'[p] = ver[p] + 1
        BY <2>2, Zenon DEF SaveOk, WriterInv, Versions
      <3> QED
        BY <1>4, <3>1, SavedFinished, Zenon
    <2> QED
      BY <1>1, <1>4, <2>1, <2>2, Zenon
  <1>5. record'.checkpoint # NoCheckpoint /\ record'.checkpoint.image.success
           => record'.checkpoint.state_version \in finished'
    <2>1. CASE UNCHANGED record
      BY <1>1, <2>1, Zenon DEF Durable
    <2>2. CASE CompareExchange(ver[p], mem'[p])
      BY <2>2, SavedFinished, SavedNewer, SMTT(30)
    <2> QED
      BY <2>1, <2>2, Zenon DEF Storing, SaveOk, SaveFails
  <1> QED
    BY <1>2, <1>3, <1>4, <1>5, Zenon DEF Durable

\* Every step keeps successful results durable.
LEMMA NextDurable == WriterInv /\ RecordInv /\ Durable /\ [Next]_vars => Durable'
  <1> SUFFICES ASSUME WriterInv, RecordInv, Durable, [Next]_vars PROVE Durable'
    BY Zenon
  <1>1. ASSUME NEW p \in Procs, Step(p) PROVE Durable'
    BY <1>1, StepShape, StepDurable, Zenon
  <1>2. ASSUME NEW p \in Procs, Start(p) \/ Execute(p) PROVE Durable'
    <2>1. UNCHANGED <<record, mem, ver, held, warned, finished>>
      BY <1>2, Zenon DEF Start, Execute
    <2> QED
      BY <2>1, Zenon DEF Durable
  <1>3. ASSUME NEW p \in Procs, NEW n \in Nodes, SelectiveRerun(p, n) PROVE Durable'
    <2>1. /\ UNCHANGED <<record, ver, held, warned, finished>> /\ ~mem'[p].success
          /\ \A q \in Procs \ {p} : mem'[q] = mem[q]
      BY <1>3, RerunRecord, Zenon DEF SelectiveRerun, RecordInv, Shapes
    <2> QED
      BY <2>1, Zenon DEF Durable
  <1>4. ASSUME NEW p \in Procs, Crash(p) PROVE Durable'
    <2>1. /\ UNCHANGED <<record, held, finished>> /\ mem'[p] = Fresh
          /\ \A q \in Procs \ {p} :
               mem'[q] = mem[q] /\ ver'[q] = ver[q] /\ warned'[q] = warned[q]
      BY <1>4, Zenon DEF Crash, WriterInv, Versions, RecordInv, Shapes
    <2> QED
      BY <2>1, FreshImage, Zenon DEF Durable
  <1>5. ASSUME NEW p \in Procs, Fetch(p) PROVE Durable'
    <2>1. /\ UNCHANGED <<record, mem, ver, warned, finished>>
          /\ held'[p] = record.checkpoint
          /\ \A q \in Procs \ {p} : held'[q] = held[q]
      BY <1>5, Zenon DEF Fetch, RecordInv, Shapes
    <2> QED
      BY <2>1, Zenon DEF Durable
  <1>6. ASSUME NEW p \in Procs, Restore(p) PROVE Durable'
    <2> DEFINE cp == held[p]
    <2>1. /\ cp # NoCheckpoint /\ UNCHANGED finished /\ held'[p] = NoCheckpoint
          /\ \A q \in Procs \ {p} : held'[q] = held[q]
          /\ UNCHANGED record \/ Claim(cp.state_version, p)
          /\ warned' = warned
      BY <1>6, Zenon DEF Restore, Claim, RecordInv, Shapes
    <2>2. record'.checkpoint = record.checkpoint
      BY <2>1, ClaimedCurrent, Zenon
    <2>3. CASE UNCHANGED <<mem, ver>>
      BY <2>1, <2>2, <2>3, Zenon DEF Durable
    <2>4. CASE /\ Claim(cp.state_version, p) /\ mem' = [mem EXCEPT ![p] = Restored(cp.image)]
               /\ ver' = [ver EXCEPT ![p] = record'.version]
      <3>1. /\ cp \in Texts /\ cp.state_version = record.version
            /\ record'.version = record.version + 1
        BY <2>1, <2>4, ClaimedCurrent, Zenon
      <3>2. /\ mem'[p] = Restored(cp.image) /\ ver'[p] = record.version + 1
            /\ \A q \in Procs \ {p} : mem'[q] = mem[q] /\ ver'[q] = ver[q]
        BY <2>4, <3>1, Zenon DEF WriterInv, Versions, RecordInv, Shapes
      <3>3. cp.image \in Images
        BY <3>1, Zenon DEF Texts
      <3>4. Restored(cp.image).success = cp.image.success
        BY <3>3, RestoredImage, Zenon
      <3>5. cp.image.success => record.version \in finished
        BY <2>1, <3>1, Zenon DEF Durable
      <3>6. ver'[p] - 1 = record.version
        BY <3>2, SMTT(30) DEF WriterInv, Versions
      <3>7. mem'[p].success => ver'[p] - 1 \in finished'
        BY <2>1, <3>2, <3>4, <3>5, <3>6, Zenon
      <3> QED
        BY <2>1, <2>2, <3>2, <3>7, Zenon DEF Durable
    <2> QED
      BY <1>6, <2>3, <2>4, Zenon DEF Restore
  <1>7. CASE UNCHANGED vars
    BY <1>7, Zenon DEF vars, Durable
  <1> QED
    BY <1>1, <1>2, <1>3, <1>4, <1>5, <1>6, <1>7, Zenon DEF Next, Host

\* An object that answers success without having reported a failed save
\* stored the completed run itself or was restored from it.
THEOREM SuccessStored == Spec => []SuccessIsDurable
  <1>1. Init => Durable
    BY FreshImage, SMTT(30) DEF Init, Durable
  <1>2. Spec => [](WriterInv /\ RecordInv /\ Durable)
    BY <1>1, WriterInit, WriterStep, InitRecord, NextRecord, NextDurable, PTL DEF Spec
  <1>3. RecordInv /\ Durable => SuccessIsDurable
    BY Zenon DEF RecordInv, Progress, Durable, SuccessIsDurable
  <1> QED
    BY <1>2, <1>3, PTL
-----------------------------------------------------------------------------
(* At most one effect.  n is a guarded effect.  Once its executor may have  *)
(* started, every text and every object that can still save has a fence on  *)
(* n that stops it, has left n with an unknown fence, or reruns with n      *)
(* blocked: as long as n is not in repeats.                                 *)

Spent(m, n) ==
    \/ m.mode = "replay"
    \/ m.effects[n] \in {"prepared", "committed"}
    \/ m.effects[n] = "unknown" /\ (m.completed \/ m.current # n)

\* The executor of n is about to run in p; it may have run.
About(p, n) == pc[p] = "exec" /\ node(p) = n
Begun(n) == applied[n] > 0 \/ \E p \in Procs : About(p, n)

Consumed(p, n) == pc[p] = "record" /\ node(p) = n
Ready(p, n) == Spent(mem[p], n) \/ Consumed(p, n)
SpentText(m, n) == Spent(m, n) \/ m.status[n] = "running"

\* While p is at n its status is running, and until its result is consumed
\* its fence is prepared.
InPlace(p, n) ==
    /\ pc[p] \in Working /\ node(p) = n =>
           mem[p].status[n] = "running" /\ Fence(p) # "none"
    /\ pc[p] \in {"exec", "applied", "consume"} /\ node(p) = n => Fence(p) = "prepared"

OnceInv(n) ==
    /\ applied \in [Nodes -> 0..2]
    /\ applied[n] <= 1
    /\ \A p \in Procs : InPlace(p, n)
    /\ \A p \in Procs : About(p, n) =>
           applied[n] = 0 /\ \A q \in Procs : About(q, n) => q = p
    /\ Begun(n) =>
           /\ record.checkpoint # NoCheckpoint
           /\ SpentText(record.checkpoint.image, n)
           /\ \A q \in Procs : Alive(q) /\ ver[q] = record.version => Ready(q, n)

\* What a step of p may do with regard to n: write only when about to, get
\* about to only by a save of an object that was not ready, and stay ready.
OnceStep(p, n) ==
    /\ applied' \in [Nodes -> 0..2]
    /\ \/ applied'[n] = applied[n]
       \/ About(p, n) /\ ~About(p, n)' /\ applied'[n] <= applied[n] + 1
    /\ InPlace(p, n)'
    /\ About(p, n)' => SaveOk(p, mem'[p]) /\ ~Ready(p, n) /\ Spent(mem'[p], n)
    /\ Ready(p, n) => Ready(p, n)' /\ SpentText(mem'[p], n)

\* Such a step keeps the invariant.
LEMMA OnceKept ==
  ASSUME WriterInv, RecordInv, NEW n \in Nodes, OnceInv(n),
         NEW p \in Procs, ObjectStep(p), Storing(p), OnceStep(p, n)
  PROVE  OnceInv(n)'
  <1>1. /\ Alive(p) /\ \A q \in Procs \ {p} : mem'[q] = mem[q] /\ pc'[q] = pc[q]
        /\ applied[n] \in Nat /\ applied'[n] \in Nat
    BY SMTT(30) DEF ObjectStep, OnceInv, OnceStep
  <1>2. \A q \in Procs \ {p} : /\ About(q, n)' <=> About(q, n)
                               /\ Ready(q, n)' <=> Ready(q, n)
                               /\ InPlace(q, n)' <=> InPlace(q, n)
                               /\ Alive(q)' <=> Alive(q)
    BY <1>1, Zenon DEF About, Ready, InPlace, Alive, Consumed, Spent, node,
    Fence
  <1>3. /\ \A q \in Procs : InPlace(q, n)'
        /\ applied' \in [Nodes -> 0..2]
    BY <1>2, Zenon DEF OnceInv, OnceStep
  <1>4. CASE About(p, n)'
    <2>1. CompareExchange(ver[p], mem'[p]) /\ ~Ready(p, n) /\ Spent(mem'[p], n)
      BY <1>4, Zenon DEF OnceStep, SaveOk
    <2>2. ver' = [ver EXCEPT ![p] = @ + 1] /\ ver[p] = record.version
      BY <1>4, <2>1, SavedNewer, Zenon DEF OnceStep, SaveOk
    <2>3. ~Begun(n)
      BY <1>1, <2>1, <2>2, Zenon DEF OnceInv
    <2>4. applied[n] = 0 /\ \A q \in Procs : ~About(q, n)
      BY <1>1, <2>3, SMTT(30) DEF Begun
    <2>5. applied'[n] = 0 /\ \A q \in Procs : About(q, n)' => q = p
      BY <1>2, <2>4, Zenon DEF OnceStep
    <2>6. /\ record'.checkpoint \in Texts /\ record'.checkpoint.image = mem'[p]
          /\ record'.version = record.version + 1
      BY <2>1, SavedNewer, Zenon
    <2>7. record'.checkpoint # NoCheckpoint /\ SpentText(record'.checkpoint.image, n)
      BY <2>1, <2>6, TextPresent, Zenon DEF SpentText
    <2>8. ASSUME NEW q \in Procs, ver'[q] = record'.version PROVE Ready(q, n)'
      <3>1. record.version \in Nat /\ ver[q] \in Nat /\ ver[q] <= record.version
        BY Zenon DEF WriterInv, Versions, Behind
      <3>2. q # p => ver'[q] = ver[q]
        BY <2>2, Zenon DEF WriterInv, Versions
      <3>3. q = p
        BY <2>6, <2>8, <3>1, <3>2, SMTT(30)
      <3> QED
        BY <2>1, <3>3, Zenon DEF Ready, Spent
    <2> QED
      BY <1>3, <2>5, <2>7, <2>8, SMTT(30) DEF OnceInv
  <1>5. CASE ~About(p, n)'
    <2>1. \A q \in Procs : About(q, n)' => About(q, n) /\ q # p
      BY <1>2, <1>5, Zenon
    <2>2. Begun(n)' => Begun(n)
      BY <1>1, <2>1, Zenon DEF Begun, OnceStep
    <2>3. applied'[n] <= 1
      BY <1>1, SMTT(30) DEF OnceStep, OnceInv
    <2>4. ASSUME NEW q \in Procs, About(q, n)'
          PROVE  applied'[n] = 0 /\ \A r \in Procs : About(r, n)' => r = q
      <3>1. About(q, n) /\ ~About(p, n) /\ applied[n] = 0
        BY <2>1, <2>4, Zenon DEF OnceInv
      <3> QED
        BY <2>1, <3>1, Zenon DEF OnceInv, OnceStep
    <2>5. ASSUME Begun(n)'
          PROVE  /\ record'.checkpoint # NoCheckpoint
                 /\ SpentText(record'.checkpoint.image, n)
                 /\ \A q \in Procs : Alive(q)' /\ ver'[q] = record'.version => Ready(q, n)'
      <3>1. /\ record.checkpoint # NoCheckpoint
            /\ SpentText(record.checkpoint.image, n)
            /\ \A q \in Procs : Alive(q) /\ ver[q] = record.version => Ready(q, n)
        BY <2>2, <2>5, Zenon DEF OnceInv
      <3>2. CASE UNCHANGED <<record, ver>>
        <4>1. \A q \in Procs \ {p} : Alive(q)' /\ ver'[q] = record'.version => Ready(q, n)'
          BY <1>2, <3>1, <3>2, Zenon
        <4>2. ver'[p] = record'.version => Ready(p, n)'
          BY <1>1, <3>1, <3>2, Zenon DEF OnceStep
        <4> QED
          BY <3>1, <3>2, <4>1, <4>2, Zenon
      <3>3. CASE /\ CompareExchange(ver[p], mem'[p])
                 /\ UNCHANGED ver \/ ver' = [ver EXCEPT ![p] = @ + 1]
        <4>1. /\ record'.checkpoint \in Texts /\ record'.checkpoint.image = mem'[p]
              /\ record'.version = record.version + 1 /\ ver[p] = record.version
          BY <3>3, SavedNewer, Zenon
        <4>2. Ready(p, n)' /\ SpentText(mem'[p], n)
          BY <1>1, <3>1, <4>1, Zenon DEF OnceStep
        <4>3. ASSUME NEW q \in Procs \ {p} PROVE ver'[q] # record'.version
          <5>1. record.version \in Nat /\ ver[q] \in Nat /\ ver[q] <= record.version
            BY Zenon DEF WriterInv, Versions, Behind
          <5>2. ver'[q] = ver[q]
            BY <3>3, Zenon DEF WriterInv, Versions
          <5> QED
            BY <4>1, <5>1, <5>2, SMTT(30)
        <4> QED
          BY <4>1, <4>2, <4>3, TextPresent, Zenon
      <3> QED
        BY <3>2, <3>3, Zenon DEF Storing, SaveOk, SaveFails
    <2> QED
      BY <1>3, <2>3, <2>4, <2>5, Zenon DEF OnceInv
  <1> QED
    BY <1>4, <1>5, Zenon

\* A step that ends the call or the turn of the loop.
LEMMA OnceLeft ==
  ASSUME NEW n \in Nodes, OnceInv(n), NEW p \in Procs,
         pc'[p] \in {"idle", "head"}, applied' \in [Nodes -> 0..2],
         \/ applied'[n] = applied[n]
         \/ About(p, n) /\ applied'[n] <= applied[n] + 1,
         Ready(p, n) => Spent(mem'[p], n)
  PROVE  OnceStep(p, n)
  <1>1. ~About(p, n)' /\ InPlace(p, n)'
    BY Zenon DEF About, InPlace, Working
  <1>2. Spent(mem'[p], n) => Ready(p, n)' /\ SpentText(mem'[p], n)
    BY Zenon DEF Ready, SpentText, Spent
  <1> QED
    BY <1>1, <1>2, Zenon DEF OnceStep

\* One more write, counted up to 2.
LEMMA WriteCount ==
  ASSUME NEW n \in Nodes, NEW k, applied \in [Nodes -> 0..2], applied' = Write(k)
  PROVE  /\ applied' \in [Nodes -> 0..2]
         /\ k # n => applied'[n] = applied[n]
         /\ applied'[n] <= applied[n] + 1
  <1>1. (IF applied[k] = 2 THEN 2 ELSE applied[k] + 1) \in 0..2 \/ k \notin Nodes
    BY SMTT(30)
  <1>2. applied' \in [Nodes -> 0..2]
    BY <1>1, Zenon DEF Write
  <1> QED
    BY <1>2, SMTT(30) DEF Write

\* Marking a node with regard to n.
LEMMA MarkedOnce ==
  ASSUME WriterInv, RecordInv, NEW n \in Nodes, NEW p \in Procs,
         NEW st \in NodeStatus, NEW f \in EffectStatus,
         mem' = [mem EXCEPT ![p] = Marked(p, st, f)], node(p) # n \/ f = Fence(p)
  PROVE  /\ Spent(mem[p], n) => Spent(mem'[p], n)
         /\ node(p)' = node(p)
  <1>1. Shapes /\ mem'[p] = Marked(p, st, f)
    BY Zenon DEF RecordInv, Shapes
  <1>2. /\ mem'[p].current = mem[p].current /\ mem'[p].mode = mem[p].mode
        /\ mem'[p].effects[n] = mem[p].effects[n]
    BY <1>1, MarkedImage, SMTT(30) DEF Fence
  <1>3. mem'[p].completed = mem[p].completed
    BY <1>1, MarkedImage, SMTT(30)
  <1> QED
    BY <1>2, <1>3, Zenon DEF Spent, node

\* The status a mark leaves.
LEMMA MarkedStatus ==
  ASSUME RecordInv, NEW p \in Procs, NEW st \in NodeStatus, NEW f \in EffectStatus,
         node(p) \in Nodes, mem' = [mem EXCEPT ![p] = Marked(p, st, f)]
  PROVE  mem'[p].status[node(p)] = st
  <1>1. mem[p] \in Images /\ mem'[p] = Marked(p, st, f)
    BY Zenon DEF RecordInv, Shapes
  <1>2. mem[p] \in Image /\ mem[p].status \in [Nodes -> NodeStatus]
    BY <1>1, Zenon DEF Images, Image
  <1>3. Marked(p, st, f).status = [mem[p].status EXCEPT ![node(p)] = st]
    BY <1>2, Zenon DEF Marked, Image
  <1>4. [mem[p].status EXCEPT ![node(p)] = st][node(p)] = st
    BY <1>2, Zenon
  <1> QED
    BY <1>1, <1>3, <1>4, Zenon

\* Calls that end without a change of the image.
LEMMA OncePlain ==
  ASSUME WriterInv, RecordInv, NEW n \in Nodes, OnceInv(n),
         NEW p \in Procs, Completed(p) \/ Interrupted(p)
  PROVE  OnceStep(p, n)
  <1>1. /\ UNCHANGED mem /\ pc' = [pc EXCEPT ![p] = "idle"] /\ pc[p] # "record"
        /\ \/ UNCHANGED applied
           \/ pc[p] = "exec" /\ applied' = Write(node(p))
    BY Zenon DEF Completed, Interrupted
  <1>2. pc'[p] = "idle" /\ applied \in [Nodes -> 0..2]
    BY <1>1, Zenon DEF WriterInv, Versions, OnceInv
  <1>3. Ready(p, n) => Spent(mem'[p], n)
    BY <1>1, Zenon DEF Ready, Consumed
  <1>4. CASE UNCHANGED applied
    BY <1>2, <1>3, <1>4, OnceLeft, Zenon
  <1>5. CASE pc[p] = "exec" /\ applied' = Write(node(p))
    <2>1. /\ applied' \in [Nodes -> 0..2] /\ applied'[n] <= applied[n] + 1
          /\ node(p) # n => applied'[n] = applied[n]
      BY <1>2, <1>5, WriteCount, ZenonT(60)
    <2>2. applied'[n] = applied[n] \/ (About(p, n) /\ applied'[n] <= applied[n] + 1)
      BY <1>5, <2>1, Zenon DEF About
    <2> QED
      BY <1>2, <1>3, <2>1, <2>2, OnceLeft, Zenon
  <1> QED
    BY <1>1, <1>4, <1>5, Zenon

\* A node that may not be entered.
LEMMA OnceStopped ==
  ASSUME WriterInv, RecordInv, NEW n \in Nodes, OnceInv(n),
         NEW p \in Procs, NodeBlocked(p) \/ ManualRequired(p)
  PROVE  OnceStep(p, n)
  <1>1. /\ pc[p] = "head" /\ ~mem[p].completed /\ pc' = [pc EXCEPT ![p] = "idle"]
        /\ UNCHANGED applied
        /\ \E st \in {"blocked", "running"} :
               mem' = [mem EXCEPT ![p] = Marked(p, st, Fence(p))]
    BY Zenon DEF NodeBlocked, ManualRequired
  <1>2. PICK st \in NodeStatus : mem' = [mem EXCEPT ![p] = Marked(p, st, Fence(p))]
    BY <1>1, Zenon DEF NodeStatus
  <1>3. Fence(p) \in EffectStatus
    <2>1. mem[p] \in Images
      BY Zenon DEF RecordInv, Shapes
    <2>2. node(p) \in Nodes /\ mem[p].effects \in [Nodes -> EffectStatus]
      BY <1>1, <2>1, Zenon DEF Images, Image, node
    <2> QED
      BY <2>2, Zenon DEF Fence
  <1>4. Spent(mem[p], n) => Spent(mem'[p], n)
    BY <1>2, <1>3, MarkedOnce, Zenon
  <1>5. /\ pc'[p] = "idle" /\ applied' \in [Nodes -> 0..2] /\ applied'[n] = applied[n]
        /\ Ready(p, n) => Spent(mem'[p], n)
    BY <1>1, <1>4, Zenon DEF WriterInv, Versions, OnceInv, Ready, Consumed
  <1> QED
    BY <1>5, OnceLeft, Zenon

\* The executor of n starts only in an object that was not ready, after its
\* fence was saved.
LEMMA OncePrepare ==
  ASSUME WriterInv, RecordInv, NEW n \in Guarded \cap Effectful,
         OnceInv(n), NEW p \in Procs, Prepare(p)
  PROVE  OnceStep(p, n)
  <1>0. n \in Nodes
    BY GraphAssumption, Zenon
  <1>1. /\ Alive(p) /\ pc[p] = "head" /\ ~mem[p].completed /\ UNCHANGED applied
        /\ node(p) \in Effectful /\ Fence(p) # "committed"
        /\ ~ReplayBlocks(p) /\ ~RequiresManual(p)
        /\ mem' = [mem EXCEPT ![p] = Marked(p, "running", "prepared")]
        /\ \/ pc' = [pc EXCEPT ![p] = "exec"] /\ SaveOk(p, mem'[p])
           \/ pc' = [pc EXCEPT ![p] = "idle"]
    BY Zenon DEF Prepare, Alive, AlreadyCommitted
  <1>2. "running" \in NodeStatus /\ "prepared" \in EffectStatus /\ node(p) \in Nodes
    BY <1>1, GraphAssumption, Zenon DEF NodeStatus, EffectStatus
  <1>3. /\ mem'[p].current = node(p)
        /\ mem'[p].effects[node(p)] = "prepared"
        /\ mem'[p].status[node(p)] = "running"
    <2>1. Shapes /\ mem'[p] = Marked(p, "running", "prepared")
      BY <1>1, Zenon DEF RecordInv, Shapes
    <2>2. /\ mem'[p].current = node(p)
          /\ mem'[p].effects[node(p)] = "prepared"
      BY <1>2, <2>1, MarkedImage, SMTT(30) DEF node
    <2> QED
      BY <1>1, <1>2, <2>2, MarkedStatus, Zenon
  <1>4. applied' \in [Nodes -> 0..2] /\ applied'[n] = applied[n] /\ ~Consumed(p, n)
    BY <1>1, Zenon DEF OnceInv, Consumed
  <1>5. Spent(mem[p], n) => Spent(mem'[p], n)
    <2>1. CASE node(p) = n
      BY <1>3, <2>1, Zenon DEF Spent
    <2>2. CASE node(p) # n
      BY <1>0, <1>1, <1>2, <2>2, MarkedOnce, Zenon
    <2> QED
      BY <2>1, <2>2, Zenon
  <1>6. CASE pc' = [pc EXCEPT ![p] = "idle"]
    <2>1. pc'[p] = "idle" /\ (Ready(p, n) => Spent(mem'[p], n))
      BY <1>4, <1>5, <1>6, Zenon DEF WriterInv, Versions, Ready
    <2> QED
      BY <1>0, <1>4, <2>1, OnceLeft, Zenon
  <1>7. CASE pc' = [pc EXCEPT ![p] = "exec"] /\ SaveOk(p, mem'[p])
    <2>1. pc'[p] = "exec"
      BY <1>7, Zenon DEF WriterInv, Versions
    <2>2. InPlace(p, n)'
      BY <1>3, <2>1, ZenonT(60) DEF InPlace, node, Fence
    <2>3. About(p, n)' => ~Ready(p, n) /\ Spent(mem'[p], n)
      <3>1. SUFFICES ASSUME node(p) = n PROVE ~Spent(mem[p], n) /\ Spent(mem'[p], n)
        BY <1>3, <1>4, Zenon DEF About, Ready, node
      <3>2. mem[p].mode # "replay"
        BY <1>1, <3>1, Zenon DEF ReplayBlocks
      <3>3. mem[p].effects[n] \notin {"prepared", "committed"}
        BY <1>1, <3>1, Zenon DEF RequiresManual, Fence
      <3>4. mem[p].current = n
        BY <3>1, Zenon DEF node
      <3> QED
        BY <1>1, <1>3, <3>1, <3>2, <3>3, <3>4, ZenonT(60) DEF Spent
    <2>4. Ready(p, n) => Ready(p, n)' /\ SpentText(mem'[p], n)
      BY <1>4, <1>5, Zenon DEF Ready, SpentText, Spent
    <2> QED
      BY <1>4, <1>7, <2>2, <2>3, <2>4, Zenon DEF OnceStep
  <1> QED
    BY <1>1, <1>6, <1>7, Zenon

\* n is entered without a save only when its effect is committed.
LEMMA OnceEnter ==
  ASSUME WriterInv, RecordInv, NEW n \in Guarded \cap Effectful,
         OnceInv(n), NEW p \in Procs, Enter(p)
  PROVE  OnceStep(p, n)
  <1>0. n \in Nodes
    BY GraphAssumption, Zenon
  <1>1. /\ pc[p] = "head" /\ ~mem[p].completed /\ UNCHANGED applied
        /\ mem' = [mem EXCEPT ![p] = Marked(p, "running", Fence(p))]
        /\ \/ /\ node(p) \in Effectful /\ Fence(p) = "committed"
              /\ pc' = [pc EXCEPT ![p] = "record"]
           \/ node(p) \notin Effectful /\ pc' = [pc EXCEPT ![p] = "exec"]
    BY Zenon DEF Enter, AlreadyCommitted
  <1>2. Fence(p) \in EffectStatus /\ "running" \in NodeStatus /\ node(p) \in Nodes
    <2>1. mem[p] \in Images
      BY Zenon DEF RecordInv, Shapes
    <2>2. node(p) \in Nodes /\ mem[p].effects \in [Nodes -> EffectStatus]
      BY <1>1, <2>1, Zenon DEF Images, Image, node
    <2> QED
      BY <2>2, Zenon DEF Fence, NodeStatus
  <1>3. node(p)' = node(p) /\ (Spent(mem[p], n) => Spent(mem'[p], n))
    <2>1. node(p) # n \/ Fence(p) = Fence(p)
      BY Zenon
    <2> QED
      BY <1>0, <1>1, <1>2, <2>1, MarkedOnce, Zenon
  <1>4. mem'[p].status[node(p)] = "running"
    BY <1>1, <1>2, MarkedStatus, Zenon
  <1>5. /\ pc'[p] \in {"record", "exec"}
        /\ pc'[p] = "exec" => node(p) # n
    BY <1>1, Zenon DEF WriterInv, Versions
  <1>6. InPlace(p, n)' /\ ~About(p, n)'
    <2>1. Shapes /\ mem'[p] = Marked(p, "running", Fence(p))
      BY <1>1, Zenon DEF RecordInv, Shapes
    <2>2. mem'[p].effects[node(p)] = Fence(p)
      BY <1>2, <2>1, MarkedImage, SMTT(30) DEF node
    <2>3. node(p) = n => Fence(p)' = "committed"
      BY <1>1, <1>3, <2>2, Zenon DEF Fence
    <2> QED
      BY <1>3, <1>4, <1>5, <2>3, Zenon DEF InPlace, About
  <1>7. Ready(p, n) => Ready(p, n)' /\ SpentText(mem'[p], n)
    BY <1>1, <1>3, Zenon DEF Ready, SpentText, Consumed, Spent
  <1>8. applied' \in [Nodes -> 0..2] /\ applied'[n] = applied[n]
    BY <1>1, Zenon DEF OnceInv
  <1> QED
    BY <1>6, <1>7, <1>8, Zenon DEF OnceStep

\* The executor of n writes once: a retry of n puts it into repeats.
LEMMA OnceExecutor ==
  ASSUME WriterInv, RecordInv, NEW n \in Guarded \cap Effectful, n \notin repeats',
         OnceInv(n), NEW p \in Procs, Apply(p) \/ Return(p) \/ Retry(p)
  PROVE  OnceStep(p, n)
  <1>0. n \in Nodes /\ applied \in [Nodes -> 0..2] /\ InPlace(p, n)
    BY GraphAssumption, Zenon DEF OnceInv
  <1>1. /\ UNCHANGED mem /\ pc[p] \in {"exec", "applied", "consume"}
        /\ \E l \in {"exec", "applied", "consume"} :
             /\ pc' = [pc EXCEPT ![p] = l]
             /\ l = "exec" => node(p) # n
        /\ UNCHANGED applied \/ (pc[p] = "exec" /\ applied' = Write(node(p)))
    BY ZenonT(60) DEF Apply, Return, Retry, Repeat
  <1>2. /\ pc'[p] \in {"exec", "applied", "consume"}
        /\ pc'[p] = "exec" => node(p) # n
    BY <1>1, Zenon DEF WriterInv, Versions
  <1>3. node(p)' = node(p) /\ ~About(p, n)'
    BY <1>1, <1>2, Zenon DEF node, About
  <1>4. InPlace(p, n)'
    BY <1>0, <1>1, <1>2, <1>3, Zenon DEF InPlace, Fence, node, Working
  <1>5. Ready(p, n) => Ready(p, n)' /\ SpentText(mem'[p], n)
    BY <1>1, Zenon DEF Ready, SpentText, Consumed, Spent
  <1>6. CASE UNCHANGED applied
    BY <1>0, <1>3, <1>4, <1>5, <1>6, ZenonT(60) DEF OnceStep
  <1>7. CASE pc[p] = "exec" /\ applied' = Write(node(p))
    <2>1. /\ applied' \in [Nodes -> 0..2] /\ applied'[n] <= applied[n] + 1
          /\ node(p) # n => applied'[n] = applied[n]
      BY <1>0, <1>7, WriteCount, Zenon
    <2>2. applied'[n] = applied[n] \/ (About(p, n) /\ applied'[n] <= applied[n] + 1)
      BY <1>7, <2>1, Zenon DEF About
    <2> QED
      BY <1>3, <1>4, <1>5, <2>1, <2>2, ZenonT(60) DEF OnceStep
  <1> QED
    BY <1>1, <1>6, <1>7, Zenon

\* Once the result of n is consumed the object is ready until it has left n.
LEMMA OnceConsume ==
  ASSUME WriterInv, RecordInv, NEW n \in Guarded \cap Effectful,
         OnceInv(n), NEW p \in Procs, Consume(p)
  PROVE  OnceStep(p, n)
  <1>0. n \in Nodes /\ applied' \in [Nodes -> 0..2] /\ applied'[n] = applied[n]
    BY GraphAssumption, Zenon DEF OnceInv, Consume
  <1>1. /\ pc[p] = "consume" /\ mem[p] \in Images /\ node(p) \in Nodes
        /\ ~Consumed(p, n)
    BY AtWork, Zenon DEF Consume, Working, Consumed
  <1>2. CASE pc' = [pc EXCEPT ![p] = "idle"] /\ UNCHANGED mem
    <2>1. pc'[p] = "idle" /\ (Ready(p, n) => Spent(mem'[p], n))
      BY <1>1, <1>2, Zenon DEF WriterInv, Versions, Ready, Spent
    <2> QED
      BY <1>0, <2>1, OnceLeft, Zenon
  <1>3. CASE /\ pc' = [pc EXCEPT ![p] = "record"]
             /\ \/ UNCHANGED mem
                \/ \E f \in {"committed", "unknown"} :
                        mem' = [mem EXCEPT ![p].effects[node(p)] = f]
    <2>1. pc'[p] = "record"
      BY <1>3, Zenon DEF WriterInv, Versions
    <2>2. /\ mem'[p].mode = mem[p].mode /\ mem'[p].current = mem[p].current
          /\ mem'[p].completed = mem[p].completed /\ mem'[p].status = mem[p].status
          /\ node(p) # n => mem'[p].effects[n] = mem[p].effects[n]
          /\ mem'[p].effects[node(p)] \in {Fence(p), "committed", "unknown"}
      <3>1. CASE UNCHANGED mem
        BY <3>1, Zenon DEF Fence
      <3>2. CASE \E f \in {"committed", "unknown"} :
                     mem' = [mem EXCEPT ![p].effects[node(p)] = f]
        <4>1. PICK f \in EffectStatus : /\ f \in {"committed", "unknown"}
                                       /\ mem' = [mem EXCEPT ![p].effects[node(p)] = f]
          BY <3>2, Zenon DEF EffectStatus
        <4> DEFINE m == mem[p]
                   w == mem'[p]
                   x == node(p)
        <4>2. m \in Images /\ w = [m EXCEPT !.effects[x] = f] /\ x \in Nodes
          BY <1>1, <4>1, Zenon DEF RecordInv, Shapes
        <4> HIDE DEF m, w, x
        <4>3. w.mode = m.mode /\ w.current = m.current /\ w.completed = m.completed
          BY <4>2, FenceUpdate, SMTT(30)
        <4>4. /\ m.effects \in [Nodes -> EffectStatus] /\ w.effects = [m.effects EXCEPT ![x] = f]
              /\ w.status = m.status
          BY <4>2, Zenon DEF Images, Image
        <4>5. w.effects[x] = f /\ (x # n => w.effects[n] = m.effects[n])
          <5>1. x # n => w.effects[n] = m.effects[n]
            BY <1>0, <4>4, UpdateValue, Zenon
          <5>2. w.effects[x] = f
            BY ONLY <4>2, <4>4, Zenon
          <5> QED
            BY <5>1, <5>2, Zenon
        <4> QED
          BY <4>1, <4>3, <4>4, <4>5, Zenon DEF m, w, x
      <3> QED
        BY <1>3, <3>1, <3>2, Zenon
    <2>3. node(p)' = node(p)
      BY <2>2, Zenon DEF node
    <2>4. InPlace(p, n) /\ (node(p) = n => mem[p].status[n] = "running")
      BY <1>1, Zenon DEF OnceInv, InPlace, Working
    <2>7. node(p) = n => Fence(p)' # "none"
      <3>1. node(p) = n => Fence(p) # "none"
        BY <1>1, <2>4, Zenon DEF InPlace, Working
      <3>2. Fence(p)' = mem'[p].effects[node(p)]
        BY <2>3, Zenon DEF Fence
      <3> QED
        BY <2>2, <3>1, <3>2, Zenon
    <2>5. InPlace(p, n)' /\ ~About(p, n)'
      BY <2>1, <2>2, <2>3, <2>4, <2>7, Zenon DEF InPlace, About
    <2>6. Ready(p, n) => Ready(p, n)' /\ SpentText(mem'[p], n)
      <3>1. CASE node(p) = n
        BY <2>1, <2>2, <2>3, <2>4, <3>1, Zenon DEF Ready, Consumed, SpentText
      <3>2. CASE node(p) # n
        BY <1>1, <2>2, <3>2, Zenon DEF Ready, SpentText, Spent
      <3> QED
        BY <3>1, <3>2, Zenon
    <2> QED
      BY <1>0, <2>5, <2>6, Zenon DEF OnceStep
  <1> QED
    BY <1>2, <1>3, Zenon DEF Consume, EffectStatus

\* An object that leaves n, once its result is consumed, is spent unless n is
\* in doubt.
LEMMA LeftSpent ==
  ASSUME NEW n \in Nodes, NEW p \in Procs, OnceInv(n), mem[p] \in Images,
         mem'[p].effects = mem[p].effects, n \notin Doubtful(mem'[p])
  PROVE  Consumed(p, n) => Spent(mem'[p], n)
  <1> SUFFICES ASSUME Consumed(p, n) PROVE Spent(mem'[p], n)
    BY Zenon
  <1>1. mem[p].effects[n] # "none"
    BY Zenon DEF OnceInv, InPlace, Consumed, Fence, Working
  <1>2. mem[p].effects[n] \in EffectStatus
    BY Zenon DEF Images, Image
  <1> QED
    BY <1>1, <1>2, ZenonT(60) DEF Spent, Doubtful, EffectStatus

\* A quota error that leaves n in doubt puts it into repeats.
LEMMA OnceQuota ==
  ASSUME WriterInv, RecordInv, NEW n \in Guarded \cap Effectful, n \notin repeats',
         OnceInv(n), NEW p \in Procs, QuotaExceeded(p)
  PROVE  OnceStep(p, n)
  <1>0. n \in Nodes /\ applied' \in [Nodes -> 0..2] /\ applied'[n] = applied[n]
    BY GraphAssumption, Zenon DEF OnceInv, QuotaExceeded
  <1>1. /\ pc[p] = "record" /\ pc' = [pc EXCEPT ![p] = "idle"]
        /\ n \notin Doubtful(mem'[p])
    BY Zenon DEF QuotaExceeded, Repeat
  <1>2. mem[p] \in Images
    BY Zenon DEF RecordInv, Shapes
  <1>3. \E s \in NodeStatus : mem' = [mem EXCEPT ![p].status[node(p)] = s]
    BY Zenon DEF QuotaExceeded, StatusOf, NodeStatus
  <1>4. PICK s \in NodeStatus : mem'[p] = [mem[p] EXCEPT !.status[node(p)] = s]
    BY <1>3, Zenon DEF RecordInv, Shapes
  <1>5. /\ mem'[p].effects = mem[p].effects /\ mem'[p].mode = mem[p].mode
        /\ mem'[p].current = mem[p].current /\ mem'[p].completed = mem[p].completed
    BY <1>2, <1>4, StatusUpdate, SMTT(30)
  <1>6. Consumed(p, n) => Spent(mem'[p], n)
    BY <1>0, <1>1, <1>2, <1>5, LeftSpent, ZenonT(60)
  <1>7. pc'[p] = "idle" /\ (Ready(p, n) => Spent(mem'[p], n))
    BY <1>1, <1>5, <1>6, Zenon DEF WriterInv, Versions, Ready, Spent
  <1> QED
    BY <1>0, <1>7, OnceLeft, Zenon

\* Recording n moves the position; a loop that leads back to n while its
\* fence is unknown puts it into repeats.
LEMMA OnceRecord ==
  ASSUME WriterInv, RecordInv, NEW n \in Guarded \cap Effectful, n \notin repeats',
         OnceInv(n), NEW p \in Procs, RecordNode(p)
  PROVE  OnceStep(p, n)
  <1>0. n \in Nodes /\ applied' \in [Nodes -> 0..2] /\ applied'[n] = applied[n]
    BY GraphAssumption, Zenon DEF OnceInv, RecordNode
  <1>1. pc[p] = "record" /\ mem[p] \in Images /\ node(p) \in Nodes /\ ~mem[p].completed
    BY AtWork, Zenon DEF RecordNode, Working
  <1>2. PICK ok \in BOOLEAN : mem' = [mem EXCEPT ![p] = Recorded(p, ok)]
    <2>1. outcome[p].success \in BOOLEAN
      BY Zenon DEF RecordInv, Shapes, Outcome
    <2> QED
      BY <2>1, Zenon DEF RecordNode, Verdicts
  <1>3. mem'[p] = Recorded(p, ok) /\ n \notin Doubtful(mem'[p])
    BY <1>2, Zenon DEF RecordInv, Shapes, RecordNode, Repeat
  <1>4. mem'[p].mode = mem[p].mode /\ mem'[p].effects = mem[p].effects
    BY <1>1, <1>3, RecordedImage, Zenon DEF RecordInv
  <1>5. Spent(mem[p], n) => Spent(mem'[p], n)
    BY <1>0, <1>3, <1>4, ZenonT(60) DEF Spent, Doubtful
  <1>6. Consumed(p, n) => Spent(mem'[p], n)
    BY <1>0, <1>1, <1>3, <1>4, LeftSpent, ZenonT(60)
  <1>7. Ready(p, n) => Spent(mem'[p], n)
    BY <1>5, <1>6, Zenon DEF Ready
  <1>8. pc'[p] \in {"idle", "head"}
    BY Zenon DEF RecordNode, WriterInv, Versions
  <1> QED
    BY <1>0, <1>7, <1>8, OnceLeft, Zenon

\* Every step of execute_step keeps the invariant.
LEMMA StepOnce ==
  ASSUME WriterInv, RecordInv, NEW n \in Guarded \cap Effectful, n \notin repeats',
         OnceInv(n), NEW p \in Procs, Step(p)
  PROVE  OnceInv(n)'
  <1>0. n \in Nodes
    BY GraphAssumption, Zenon
  <1>1. OnceStep(p, n)
    <2>1. CASE Completed(p) \/ Interrupted(p)
      BY <1>0, <2>1, OncePlain, Zenon
    <2>2. CASE NodeBlocked(p) \/ ManualRequired(p)
      BY <1>0, <2>2, OnceStopped, Zenon
    <2>3. CASE Prepare(p)
      BY <2>3, OncePrepare, Zenon
    <2>4. CASE Enter(p)
      BY <2>4, OnceEnter, Zenon
    <2>5. CASE Apply(p) \/ Return(p) \/ Retry(p)
      BY <2>5, OnceExecutor, Zenon
    <2>6. CASE Consume(p)
      BY <2>6, OnceConsume, Zenon
    <2>7. CASE QuotaExceeded(p)
      BY <2>7, OnceQuota, Zenon
    <2>8. CASE RecordNode(p)
      BY <2>8, OnceRecord, Zenon
    <2> QED
      BY <2>1, <2>2, <2>3, <2>4, <2>5, <2>6, <2>7, <2>8, ZenonT(60) DEF Step
  <1> QED
    BY <1>0, <1>1, StepShape, OnceKept, Zenon

\* A call on an object, a rerun and a crash touch neither the record nor what
\* was written; a rerun runs in Replay mode, where n is not entered.
LEMMA CallOnce ==
  ASSUME WriterInv, RecordInv, NEW n \in Nodes, OnceInv(n), NEW p \in Procs,
         \/ Start(p) \/ Execute(p) \/ Crash(p)
         \/ \E k \in Nodes : SelectiveRerun(p, k)
  PROVE  OnceInv(n)'
  <1>1. /\ UNCHANGED <<record, applied>>
        /\ pc'[p] \in {"head", "none"}
        /\ \A q \in Procs \ {p} : mem'[q] = mem[q] /\ pc'[q] = pc[q] /\ ver'[q] = ver[q]
    BY SMTT(30) DEF Start, Execute, Crash, SelectiveRerun, WriterInv, Versions,
    RecordInv, Shapes
  <1>2. InPlace(p, n)' /\ ~About(p, n)'
    BY <1>1, Zenon DEF InPlace, About, Working
  <1>3. \A q \in Procs \ {p} : /\ About(q, n)' <=> About(q, n)
                               /\ Ready(q, n)' <=> Ready(q, n)
                               /\ InPlace(q, n)' <=> InPlace(q, n)
                               /\ Alive(q)' <=> Alive(q)
    BY <1>1, ZenonT(60) DEF About, Ready, InPlace, Alive, Consumed, Spent,
    node, Fence
  <1>4. Begun(n)' => Begun(n)
    BY <1>1, <1>2, <1>3, Zenon DEF Begun
  <1>5. ASSUME Begun(n), Alive(p)', ver'[p] = record.version PROVE Ready(p, n)'
    <2>1. CASE Start(p)
      BY <1>5, <2>1, Zenon DEF Start, RecordInv, Stored, OnceInv
    <2>2. CASE Execute(p)
      <3>1. pc[p] = "idle" /\ UNCHANGED <<mem, ver>>
        BY <2>2, Zenon DEF Execute
      <3>2. Alive(p) /\ ~Consumed(p, n)
        BY <3>1, Zenon DEF Alive, Consumed
      <3>3. Ready(p, n)
        BY <1>5, <3>1, <3>2, ZenonT(60) DEF OnceInv
      <3> QED
        BY <3>1, <3>2, <3>3, Zenon DEF Ready, Spent
    <2>3. CASE Crash(p)
      BY <1>5, <2>3, ZenonT(60) DEF Crash, Alive, WriterInv, Versions
    <2>4. CASE \E k \in Nodes : SelectiveRerun(p, k)
      <3>1. PICK k \in Nodes : mem' = [mem EXCEPT ![p] = Cleared(mem[p], k, RerunMode)]
        BY <2>4, Zenon DEF SelectiveRerun
      <3>2. mem'[p].mode = "replay"
        BY <3>1, Zenon DEF RecordInv, Shapes, Cleared, RerunMode
      <3> QED
        BY <3>2, Zenon DEF Ready, Spent
    <2> QED
      BY <2>1, <2>2, <2>3, <2>4, Zenon
  <1>6. \A q \in Procs : InPlace(q, n)'
    BY <1>2, <1>3, Zenon DEF OnceInv
  <1>7. \A q \in Procs : About(q, n)' =>
            applied'[n] = 0 /\ \A r \in Procs : About(r, n)' => r = q
    BY <1>1, <1>2, <1>3, Zenon DEF OnceInv
  <1>8. Begun(n)' =>
           /\ record'.checkpoint # NoCheckpoint
           /\ SpentText(record'.checkpoint.image, n)
           /\ \A q \in Procs : Alive(q)' /\ ver'[q] = record'.version => Ready(q, n)'
    BY <1>1, <1>3, <1>4, <1>5, ZenonT(60) DEF OnceInv
  <1> QED
    BY <1>1, <1>6, <1>7, <1>8, ZenonT(60) DEF OnceInv

\* Reading the record changes nothing.
LEMMA FetchOnce ==
  ASSUME NEW n \in Nodes, OnceInv(n), record' = record, pc' = pc, mem' = mem,
         ver' = ver, applied' = applied
  PROVE  OnceInv(n)'
  BY ZenonT(60) DEF OnceInv, InPlace, About, Begun, Ready, Consumed, Spent,
  SpentText, Alive, node, Fence

\* A restored object is ready: a text in which n is in flight is refused, and
\* the claim fences off every other object.
LEMMA RestoreOnce ==
  ASSUME WriterInv, RecordInv, NEW n \in Guarded, n \in Nodes, OnceInv(n),
         NEW p \in Procs, Restore(p)
  PROVE  OnceInv(n)'
  <1> DEFINE cp == held[p]
  <1>1. pc[p] = "none" /\ cp # NoCheckpoint /\ UNCHANGED applied /\ record.version \in Nat
    BY Zenon DEF Restore, WriterInv, Versions
  <1>2. CASE /\ Claim(cp.state_version, p) /\ ~UnsafeInFlight(cp.image)
             /\ mem' = [mem EXCEPT ![p] = Restored(cp.image)]
             /\ ver' = [ver EXCEPT ![p] = record'.version] /\ Answer(p, "restored")
    <2>1. /\ cp = record.checkpoint /\ cp.image \in Images
          /\ record'.checkpoint = record.checkpoint
          /\ record'.version = record.version + 1
      BY <1>1, <1>2, ClaimedCurrent, Zenon DEF Texts
    <2>2. /\ mem'[p] = Restored(cp.image) /\ pc'[p] = "idle"
          /\ \A q \in Procs \ {p} : mem'[q] = mem[q] /\ pc'[q] = pc[q] /\ ver'[q] = ver[q]
      BY <1>2, Zenon DEF WriterInv, Versions, RecordInv, Shapes
    <2>3. SpentText(cp.image, n) => Ready(p, n)'
      <3>1. cp.image.status[n] # "running"
        BY <1>2, Zenon DEF UnsafeInFlight, InFlight
      <3>2. Spent(cp.image, n) => Spent(mem'[p], n)
        <4>1. /\ mem'[p].effects = cp.image.effects /\ mem'[p].mode = cp.image.mode
              /\ mem'[p].completed = cp.image.completed
              /\ mem'[p].current = cp.image.current
          BY <2>1, <2>2, RestoredImage, Zenon
        <4> QED
          BY ONLY <4>1, Zenon DEF Spent
      <3> QED
        BY <3>1, <3>2, Zenon DEF SpentText, Ready, Spent
    <2>4. InPlace(p, n)' /\ ~About(p, n)' /\ ~About(p, n)
      BY <1>1, <2>2, Zenon DEF InPlace, About, Working
    <2>5. \A q \in Procs \ {p} : /\ About(q, n)' <=> About(q, n)
                                 /\ InPlace(q, n)' <=> InPlace(q, n)
      BY <2>2, Zenon DEF About, InPlace, node, Fence
    <2>6. Begun(n)' => Begun(n)
      BY <1>1, <2>4, <2>5, Zenon DEF Begun
    <2>7. ASSUME NEW q \in Procs \ {p} PROVE ver'[q] # record'.version
      <3>1. ver[q] <= record.version /\ ver[q] \in Nat
        BY Zenon DEF WriterInv, Versions, Behind
      <3> QED
        BY <1>1, <2>1, <2>2, <3>1, SMTT(30)
    <2>8. Begun(n)' =>
             /\ record'.checkpoint # NoCheckpoint
             /\ SpentText(record'.checkpoint.image, n)
             /\ \A q \in Procs : Alive(q)' /\ ver'[q] = record'.version => Ready(q, n)'
      BY <2>1, <2>3, <2>6, <2>7, Zenon DEF OnceInv
    <2>9. \A q \in Procs : About(q, n)' =>
              applied'[n] = 0 /\ \A r \in Procs : About(r, n)' => r = q
      BY <1>1, <2>4, <2>5, Zenon DEF OnceInv
    <2> QED
      BY <1>1, <2>4, <2>5, <2>8, <2>9, Zenon DEF OnceInv
  <1>3. CASE UNCHANGED <<mem, ver, pc, record>>
    BY <1>1, <1>3, FetchOnce, Zenon
  <1>4. CASE UNCHANGED <<mem, ver, pc>> /\ Claim(cp.state_version, p)
    <2>1. record'.checkpoint = record.checkpoint /\ record'.version = record.version + 1
      BY <1>1, <1>4, ClaimedCurrent, Zenon
    <2>2. \A q \in Procs : /\ About(q, n)' <=> About(q, n)
                           /\ InPlace(q, n)' <=> InPlace(q, n)
      BY <1>4, Zenon DEF About, InPlace, node, Fence
    <2>3. Begun(n)' => Begun(n)
      BY <1>1, <2>2, Zenon DEF Begun
    <2>4. ASSUME NEW q \in Procs PROVE ver'[q] # record'.version
      <3>1. ver[q] <= record.version /\ ver[q] \in Nat
        BY Zenon DEF WriterInv, Versions, Behind
      <3> QED
        BY <1>1, <1>4, <2>1, <3>1, SMTT(30)
    <2> QED
      BY <1>1, <2>1, <2>2, <2>3, <2>4, ZenonT(60) DEF OnceInv
  <1> QED
    BY <1>2, <1>3, <1>4, Zenon DEF Restore

\* The invariant of n, or, for a node that writes nothing, that nothing is
\* written on its behalf.
NodeOnce(n) ==
    n \in repeats \/ IF n \in Effectful THEN OnceInv(n) ELSE applied[n] = 0
EffectInv(n) == WriterInv /\ RecordInv /\ applied \in [Nodes -> 0..2] /\ NodeOnce(n)

\* Only the executor of an effect writes.
LEMMA NextApplied ==
  ASSUME applied \in [Nodes -> 0..2], [Next]_vars
  PROVE  /\ applied' \in [Nodes -> 0..2]
         /\ \A n \in Nodes \ Effectful : applied'[n] = applied[n]
  <1>1. UNCHANGED applied \/ \E p \in Procs : node(p) \in Effectful /\ applied' = Write(node(p))
    <2>1. ASSUME NEW p \in Procs, Apply(p) \/ Interrupted(p)
          PROVE  UNCHANGED applied \/ (node(p) \in Effectful /\ applied' = Write(node(p)))
      BY <2>1, Zenon DEF Apply, Interrupted
    <2>2. ASSUME NEW p \in Procs, Step(p), ~(Apply(p) \/ Interrupted(p)) PROVE UNCHANGED applied
      BY <2>2, Zenon DEF Step, Completed, NodeBlocked, ManualRequired, Prepare,
      Enter, Return, Retry, Consume, QuotaExceeded, RecordNode
    <2>3. ASSUME NEW p \in Procs, Host(p) PROVE UNCHANGED applied
      BY <2>3, Zenon DEF Host, Start, Execute, SelectiveRerun, Crash, Fetch,
      Restore
    <2> QED
      BY <2>1, <2>2, <2>3, Zenon DEF Next, vars, Step
  <1>2. CASE UNCHANGED applied
    BY <1>2, Zenon
  <1>3. ASSUME NEW p \in Procs, node(p) \in Effectful, applied' = Write(node(p))
        PROVE  /\ applied' \in [Nodes -> 0..2]
               /\ \A n \in Nodes \ Effectful : applied'[n] = applied[n]
    <2>1. node(p) \in Nodes
      BY <1>3, GraphAssumption, Zenon
    <2> QED
      BY <1>3, <2>1, WriteCount, Zenon
  <1> QED
    BY <1>1, <1>2, <1>3, Zenon

\* What is in repeats stays there.
LEMMA RepeatsStay == [Next]_vars => repeats \subseteq repeats'
  <1>1. ASSUME NEW p \in Procs, Step(p) PROVE repeats \subseteq repeats'
    BY <1>1, ZenonT(60) DEF Step, Completed, Interrupted, NodeBlocked, ManualRequired,
    Prepare, Enter, Apply, Return, Retry, Consume, QuotaExceeded, RecordNode, Repeat
  <1>2. ASSUME NEW p \in Procs, Host(p) PROVE repeats \subseteq repeats'
    BY <1>2, ZenonT(60) DEF Host, Start, Execute, SelectiveRerun, Crash, Fetch, Restore
  <1> QED
    BY <1>1, <1>2, Zenon DEF Next, vars

\* Every step keeps the invariant of n.
LEMMA NextOnce ==
  ASSUME NEW n \in Guarded
  PROVE  EffectInv(n) /\ [Next]_vars => EffectInv(n)'
  <1> SUFFICES ASSUME EffectInv(n), [Next]_vars PROVE EffectInv(n)'
    BY Zenon
  <1>0. WriterInv /\ RecordInv /\ applied \in [Nodes -> 0..2] /\ NodeOnce(n) /\ n \in Nodes
    BY GraphAssumption, Zenon DEF EffectInv
  <1>1. WriterInv' /\ RecordInv' /\ applied' \in [Nodes -> 0..2]
    BY <1>0, WriterStep, NextRecord, NextApplied, Zenon
  <1>4. CASE n \in repeats'
    BY <1>1, <1>4, Zenon DEF EffectInv, NodeOnce
  <1>5. n \notin repeats' => n \notin repeats
    BY RepeatsStay, Zenon
  <1>2. CASE n \in Effectful /\ n \notin repeats'
    <2>1. OnceInv(n)
      BY <1>0, <1>2, <1>5, Zenon DEF NodeOnce
    <2>2. ASSUME NEW p \in Procs, Step(p) PROVE OnceInv(n)'
      BY <1>0, <1>2, <2>1, <2>2, StepOnce, Zenon
    <2>3. ASSUME NEW p \in Procs, Restore(p) PROVE OnceInv(n)'
      BY <1>0, <2>1, <2>3, RestoreOnce, Zenon
    <2>4. ASSUME NEW p \in Procs, \/ Start(p) \/ Execute(p) \/ Crash(p)
                                  \/ \E k \in Nodes : SelectiveRerun(p, k)
          PROVE  OnceInv(n)'
      BY <1>0, <2>1, <2>4, CallOnce, Zenon
    <2>5. ASSUME NEW p \in Procs, Fetch(p) PROVE OnceInv(n)'
      BY <1>0, <2>1, <2>5, FetchOnce, Zenon DEF Fetch
    <2>6. ASSUME UNCHANGED vars PROVE OnceInv(n)'
      <3>1. record' = record /\ pc' = pc /\ mem' = mem /\ ver' = ver /\ applied' = applied
        BY <2>6, Zenon DEF vars
      <3> QED
        BY <1>0, <2>1, <3>1, FetchOnce, Zenon
    <2>7. ASSUME NEW p \in Procs, Host(p) PROVE OnceInv(n)'
      <3>1. CASE Start(p) \/ Execute(p) \/ Crash(p) \/ \E k \in Nodes : SelectiveRerun(p, k)
        BY <2>4, <3>1, Zenon
      <3>2. CASE Fetch(p)
        BY <2>5, <3>2, Zenon
      <3>3. CASE Restore(p)
        BY <2>3, <3>3, Zenon
      <3> QED
        BY <2>7, <3>1, <3>2, <3>3, Zenon DEF Host
    <2>8. ASSUME Next PROVE OnceInv(n)'
      <3>1. PICK p \in Procs : Step(p) \/ Host(p)
        BY <2>8, Zenon DEF Next
      <3> QED
        BY <2>2, <2>7, <3>1, Zenon
    <2>9. OnceInv(n)'
      BY <2>6, <2>8, Zenon
    <2> QED
      BY <1>1, <1>2, <2>9, Zenon DEF EffectInv, NodeOnce
  <1>3. CASE n \notin Effectful /\ n \notin repeats'
    <2>1. applied'[n] = 0
      BY <1>0, <1>3, <1>5, NextApplied, Zenon DEF NodeOnce
    <2> QED
      BY <1>1, <1>3, <2>1, Zenon DEF EffectInv, NodeOnce
  <1> QED
    BY <1>2, <1>3, <1>4, Zenon

\* Before the run is started nothing is written for n.
LEMMA InitOnce ==
  ASSUME NEW n \in Guarded
  PROVE  Init => EffectInv(n)
  <1> SUFFICES ASSUME Init PROVE EffectInv(n)
    BY Zenon
  <1>1. WriterInv /\ RecordInv /\ n \in Nodes
    BY WriterInit, InitRecord, GraphAssumption, Zenon
  <1>2. applied = [k \in Nodes |-> 0] /\ \A p \in Procs : pc[p] = "none"
    BY Zenon DEF Init
  <1>3. /\ applied \in [Nodes -> 0..2] /\ applied[n] = 0
        /\ \A p \in Procs : InPlace(p, n) /\ ~About(p, n)
    BY <1>1, <1>2, SMTT(30) DEF InPlace, About, Working
  <1>4. OnceInv(n)
    BY <1>3, SMTT(30) DEF OnceInv, Begun
  <1> QED
    BY <1>1, <1>3, <1>4, Zenon DEF EffectInv, NodeOnce

\* The invariant of every guarded node.
GuardedInv == \A n \in Guarded : EffectInv(n)

\* The effect of a node that must not run twice (at_most_once, manual or
\* forbidden) reaches the external world at most once, through crashes,
\* restores, stale processes, late saves, repeated execute calls and reruns,
\* in every workflow.  Nodes in repeats are excepted: the driver retried them,
\* or a quota error or a loop left it at them with their fence unknown.
THEOREM EffectAtMostOnce == Spec => []AtMostOnceEffect
  <1>1. Init => GuardedInv
    BY InitOnce, Zenon DEF GuardedInv
  <1>2. GuardedInv /\ [Next]_vars => GuardedInv'
    BY NextOnce, Zenon DEF GuardedInv
  <1>3. GuardedInv => AtMostOnceEffect
    <2> SUFFICES ASSUME GuardedInv, NEW n \in Guarded \ repeats PROVE applied[n] <= 1
      BY Zenon DEF AtMostOnceEffect
    <2>1. EffectInv(n) /\ n \notin repeats /\ n \in Nodes
      BY GraphAssumption, Zenon DEF GuardedInv
    <2>2. OnceInv(n) \/ applied[n] = 0
      BY <2>1, Zenon DEF EffectInv, NodeOnce
    <2> QED
      BY <2>2, SMTT(30) DEF OnceInv
  <1> QED
    BY <1>1, <1>2, <1>3, PTL DEF Spec
=============================================================================
