--------------------------- MODULE EffectRecovery ---------------------------
(***************************************************************************)
(* One stored run, the processes that may drive it, and the external world *)
(* its nodes write to.  A process holds the run as an object in memory;    *)
(* the StateStore holds one record: a version, a recovery epoch and owner, *)
(* and the checkpoint text saved last.  A process may crash at any point,  *)
(* or merely be presumed dead while it is still running, so several        *)
(* objects of the same run can be alive at once.                           *)
(*                                                                         *)
(* The module follows Run::execute_step through the effect fence (prepare, *)
(* execute, commit, record), Engine::restore_run through the claim, and    *)
(* Run::selective_rerun, each save being one compare_exchange on the       *)
(* record.  The scheduling of the run is the subject of RunDriver.         *)
(***************************************************************************)
EXTENDS Integers, FiniteSets

CONSTANTS
    Procs,        \* processes that may hold the run as a Run object
    Nodes,        \* nodes of the workflow
    Entry,        \* the entry node
    NextOf,       \* node -> node its success edge selects, or End
    ErrorOf,      \* node -> node its error edge selects, or End
    Effectful,    \* nodes declared external_write or irreversible
    Guarded,      \* nodes declared at_most_once, manual or forbidden
    Async,        \* nodes whose executor is registered as asynchronous
    Retries,      \* nodes with several attempts, by their own retry or by defaults
    Quotas,       \* nodes after which the output or state quota may be exceeded
    End,          \* no node: the run is complete
    NoProc,       \* the record has not been claimed
    NoCheckpoint, \* no checkpoint text
    MaxCalls,     \* bound on the calls the hosts make
    MaxFaults     \* bound on the I/O errors of the store

ASSUME GraphAssumption ==
    /\ Entry \in Nodes
    /\ End \notin Nodes
    /\ NextOf \in [Nodes -> Nodes \cup {End}]
    /\ ErrorOf \in [Nodes -> Nodes \cup {End}]
    /\ Effectful \subseteq Nodes /\ Guarded \subseteq Nodes
    /\ Async \subseteq Nodes /\ Retries \subseteq Nodes /\ Quotas \subseteq Nodes
ASSUME RecoveryAssumption ==
    /\ NoProc \notin Procs
    /\ MaxCalls \in Nat /\ MaxFaults \in Nat

EffectStatus == {"none", "prepared", "committed", "unknown"}
NodeStatus == {"pending", "running", "succeeded", "failed", "blocked"}

\* What a Run object keeps in memory and a checkpoint writes out.
Image == [current : Nodes \cup {End}, effects : [Nodes -> EffectStatus],
          status : [Nodes -> NodeStatus], completed : BOOLEAN,
          success : BOOLEAN, mode : {"normal", "replay"}]
Checkpoint == [image : Image, state_version : Nat]
Record == [version : Nat, epoch : Nat, owner : Procs \cup {NoProc},
           checkpoint : Checkpoint \cup {NoCheckpoint}]
Outcome == [committed : BOOLEAN, success : BOOLEAN]

ASSUME TextAssumption == NoCheckpoint \notin Checkpoint

VARIABLES
    record,   \* the store's record of the run (version 0: not there yet)
    pc,       \* where each process stands in execute_step
    mem,      \* the Run object of each process
    ver,      \* store_version of each Run object
    outcome,  \* what the executor (or the fence) made of the current node
    held,     \* the checkpoint text a host has read and may restore from
    told,     \* what the last call on the object answered
    warned,   \* some call on the object answered with a state_store error
    applied,  \* node -> times the external world accepted its effect, up to 2
    calls,    \* host calls made, an execute that follows a restore apart
    faults,   \* I/O errors so far
    finished, \* versions under which a successfully completed run was stored
    repeats   \* guarded nodes the driver itself has let itself in for again

storage == <<record, faults, finished>>
run == <<pc, mem, ver, outcome, told, warned>>
vars == <<record, pc, mem, ver, outcome, held, told, warned, applied, calls,
          faults, finished, repeats>>

TypeOK ==
    /\ record \in Record
    /\ pc \in [Procs -> {"none", "idle", "head", "exec", "applied", "consume",
                         "record"}]
    /\ mem \in [Procs -> Image]
    /\ ver \in [Procs -> Nat]
    /\ outcome \in [Procs -> Outcome]
    /\ held \in [Procs -> Checkpoint \cup {NoCheckpoint}]
    /\ told \in [Procs -> {"nothing", "restored", "success", "failure", "manual"}]
    /\ warned \in [Procs -> BOOLEAN]
    /\ applied \in [Nodes -> 0..2]
    /\ calls \in 0..MaxCalls
    /\ faults \in 0..MaxFaults
    /\ finished \subseteq Nat
    /\ repeats \subseteq Guarded

Fresh == [current |-> Entry, effects |-> [n \in Nodes |-> "none"],
          status |-> [n \in Nodes |-> "pending"], completed |-> FALSE,
          success |-> FALSE, mode |-> "normal"]
NoOutcome == [committed |-> FALSE, success |-> FALSE]

Init ==
    /\ record = [version |-> 0, epoch |-> 0, owner |-> NoProc,
                 checkpoint |-> NoCheckpoint]
    /\ pc = [p \in Procs |-> "none"]
    /\ mem = [p \in Procs |-> Fresh]
    /\ ver = [p \in Procs |-> 0]
    /\ outcome = [p \in Procs |-> NoOutcome]
    /\ held = [p \in Procs |-> NoCheckpoint]
    /\ told = [p \in Procs |-> "nothing"]
    /\ warned = [p \in Procs |-> FALSE]
    /\ applied = [n \in Nodes |-> 0]
    /\ calls = 0
    /\ faults = 0
    /\ finished = {}
    /\ repeats = {}

-----------------------------------------------------------------------------
(***************************************************************************)
(* The store                                                               *)
(***************************************************************************)

\* StateStore::compare_exchange succeeds: the record gets the next version
\* and the checkpoint, and keeps its epoch and owner.
CompareExchange(expected, m) ==
    /\ expected = record.version
    /\ record' = [record EXCEPT
           !.version = expected + 1,
           !.checkpoint = [image |-> m, state_version |-> expected + 1]]
    /\ finished' = IF m.success THEN finished \cup {expected + 1} ELSE finished

\* A save that succeeds.  The checkpoint carries the version the record gets.
SaveOk(p, m) ==
    /\ CompareExchange(ver[p], m)
    /\ ver' = [ver EXCEPT ![p] = @ + 1]
    /\ UNCHANGED faults

\* A save that fails: the version has moved on, or the store reports an I/O
\* error.  The file store reports one too when the record was replaced but
\* its directory could not be flushed.
SaveFails(p, m) ==
    /\ \/ ver[p] # record.version /\ UNCHANGED storage
       \/ /\ faults < MaxFaults
          /\ faults' = faults + 1
          /\ UNCHANGED <<record, finished>> \/ CompareExchange(ver[p], m)
    /\ UNCHANGED ver

ClaimKeepsVersion(expected, p) ==
    /\ expected = record.version
    /\ record' = [record EXCEPT !.epoch = @ + 1, !.owner = p]
    /\ UNCHANGED finished

\* StateStore::claim advances the version and the epoch and leaves the stored
\* checkpoint text, with the state_version inside it, as it is.
Claim(expected, p) ==
    /\ expected = record.version
    /\ record' = [record EXCEPT !.version = @ + 1, !.epoch = @ + 1, !.owner = p]
    /\ UNCHANGED finished

-----------------------------------------------------------------------------
(***************************************************************************)
(* execute_step                                                            *)
(***************************************************************************)

node(p) == mem[p].current
Fence(p) == mem[p].effects[node(p)]

\* A call on the Run object returns to the host.
Answer(p, what) ==
    /\ pc' = [pc EXCEPT ![p] = "idle"]
    /\ told' = [told EXCEPT ![p] = what]

\* A call returns with the state_store error of a failed save.
AnswerStoreError(p) ==
    /\ Answer(p, "failure")
    /\ warned' = [warned EXCEPT ![p] = TRUE]

\* The result is local to one turn of the loop.
DropResult(p) == outcome' = [outcome EXCEPT ![p] = NoOutcome]

Goto(p, l) == pc' = [pc EXCEPT ![p] = l] /\ UNCHANGED told

\* An object that is already completed answers with its stored result.
Completed(p) ==
    /\ pc[p] = "head" /\ mem[p].completed
    /\ Answer(p, IF mem[p].success THEN "success" ELSE "failure")
    /\ UNCHANGED <<storage, mem, ver, outcome, held, warned, applied, calls, repeats>>

\* One more write of node n to the external world.
Write(n) == [applied EXCEPT ![n] = IF @ = 2 THEN 2 ELSE @ + 1]

\* The run is found cancelled, past its deadline or at its step or event limit,
\* when it looks at a node or wakes up for an asynchronous result.  The
\* asynchronous operation is abandoned, and may still write after that.
Interrupted(p) ==
    /\ ~mem[p].completed
    /\ \/ pc[p] = "head" /\ UNCHANGED applied
       \/ /\ pc[p] \in {"exec", "applied", "consume"} /\ node(p) \in Async
          /\ \/ UNCHANGED applied
             \/ /\ pc[p] = "exec" /\ node(p) \in Effectful
                /\ applied' = Write(node(p))
    /\ Answer(p, "failure") /\ DropResult(p)
    /\ UNCHANGED <<storage, mem, ver, held, warned, calls, repeats>>

\* The image of p with its current node marked and, for an effect, fenced.
Marked(p, st, fence) ==
    [mem[p] EXCEPT !.status[node(p)] = st, !.effects[node(p)] = fence]

CommittedIgnored(p) == FALSE

\* An effect that is committed already.
AlreadyCommitted(p) == node(p) \in Effectful /\ Fence(p) = "committed"

\* A Replay run does not enter a node whose policy forbids replay.
ReplayBlocks(p) == mem[p].mode = "replay" /\ node(p) \in Guarded

\* A fence left prepared on a node that must not run twice.
RequiresManual(p) ==
    node(p) \in Effectful /\ Fence(p) = "prepared" /\ node(p) \in Guarded

NodeBlocked(p) ==
    /\ pc[p] = "head" /\ ~mem[p].completed /\ ReplayBlocks(p)
    /\ mem' = [mem EXCEPT ![p] = Marked(p, "blocked", Fence(p))]
    /\ Answer(p, "failure")
    /\ UNCHANGED <<storage, ver, outcome, held, warned, applied, calls, repeats>>

ManualRequired(p) ==
    /\ pc[p] = "head" /\ ~mem[p].completed
    /\ ~ReplayBlocks(p) /\ RequiresManual(p)
    /\ mem' = [mem EXCEPT ![p] = Marked(p, "running", Fence(p))]
    /\ Answer(p, "manual")
    /\ UNCHANGED <<storage, ver, outcome, held, warned, applied, calls, repeats>>

PrepareUnsaved(p) ==
    /\ pc[p] = "head" /\ ~mem[p].completed
    /\ ~ReplayBlocks(p) /\ ~RequiresManual(p)
    /\ node(p) \in Effectful /\ ~AlreadyCommitted(p)
    /\ mem' = [mem EXCEPT ![p] = Marked(p, "running", "prepared")]
    /\ Goto(p, "exec")
    /\ UNCHANGED <<storage, ver, outcome, held, warned, applied, calls, repeats>>

\* An effect's fence is set to prepared and saved before its executor runs;
\* a save that fails ends the call, with the fence prepared in memory.
Prepare(p) ==
    /\ pc[p] = "head" /\ ~mem[p].completed
    /\ ~ReplayBlocks(p) /\ ~RequiresManual(p)
    /\ node(p) \in Effectful /\ ~AlreadyCommitted(p)
    /\ mem' = [mem EXCEPT ![p] = Marked(p, "running", "prepared")]
    /\ \/ SaveOk(p, mem'[p]) /\ Goto(p, "exec") /\ UNCHANGED warned
       \/ SaveFails(p, mem'[p]) /\ AnswerStoreError(p)
    /\ UNCHANGED <<outcome, held, applied, calls, repeats>>

\* A node without an effect goes straight to its executor; an effect that is
\* committed already is not executed and succeeds with the recorded output.
Enter(p) ==
    /\ pc[p] = "head" /\ ~mem[p].completed /\ ~ReplayBlocks(p)
    /\ node(p) \in Effectful => AlreadyCommitted(p)
    /\ mem' = [mem EXCEPT ![p] = Marked(p, "running", Fence(p))]
    /\ IF node(p) \in Effectful
       THEN /\ outcome' = [outcome EXCEPT
                   ![p] = [committed |-> TRUE, success |-> TRUE]]
            /\ Goto(p, "record")
       ELSE Goto(p, "exec") /\ UNCHANGED outcome
    /\ UNCHANGED <<storage, ver, held, warned, applied, calls, repeats>>

\* The executor writes to the external world.
Apply(p) ==
    /\ pc[p] = "exec" /\ node(p) \in Effectful
    /\ applied' = Write(node(p))
    /\ Goto(p, "applied")
    /\ UNCHANGED <<storage, mem, ver, outcome, held, warned, calls, repeats>>

\* The executor returns.  It commits the fence only after its write; it may
\* succeed without committing, and fail before or after either.
Return(p) ==
    /\ pc[p] \in {"exec", "applied"}
    /\ \E committed, success \in BOOLEAN :
          /\ committed => pc[p] = "applied"
          /\ outcome' = [outcome EXCEPT
                 ![p] = [committed |-> committed, success |-> success]]
    /\ Goto(p, "consume")
    /\ UNCHANGED <<storage, mem, ver, held, warned, applied, calls, repeats>>

\* Guarded nodes of ns are about to be entered once more.
Repeat(ns) == repeats' = repeats \cup (ns \cap Guarded)

\* A retryable failure without a commit starts the next attempt.  Validation
\* refuses a retry of its own to a guarded node, but load copies the retry of
\* the defaults into it afterwards.  An asynchronous node meets the check for
\* a prepared fence first.
Retry(p) ==
    /\ pc[p] = "consume" /\ node(p) \in Retries
    /\ ~outcome[p].committed /\ ~outcome[p].success
    /\ ~(node(p) \in Async /\ RequiresManual(p))
    /\ Goto(p, "exec")
    /\ DropResult(p)
    /\ Repeat({node(p)})
    /\ UNCHANGED <<storage, mem, ver, held, warned, applied, calls>>

Failed(p) == outcome' = [outcome EXCEPT ![p].success = FALSE]

\* The result of the executor is consumed.  A result that arrives through an
\* asynchronous completion re-enters execute_step from the top, so it meets
\* the check for a prepared fence again.  A committed effect is saved as
\* committed, or as unknown when its executor failed; a save that fails
\* fails the node.  A success without a commit fails it too.
Consume(p) ==
    /\ pc[p] = "consume"
    /\ \/ /\ node(p) \in Async /\ RequiresManual(p)
          /\ Answer(p, "manual") /\ DropResult(p)
          /\ UNCHANGED <<storage, mem, ver>>
       \/ /\ ~(node(p) \in Async /\ RequiresManual(p))
          /\ Goto(p, "record")
          /\ \/ /\ node(p) \in Effectful /\ outcome[p].committed
                /\ mem' = [mem EXCEPT ![p].effects[node(p)] =
                       IF outcome[p].success THEN "committed" ELSE "unknown"]
                /\ \/ SaveOk(p, mem'[p]) /\ UNCHANGED outcome
                   \/ SaveFails(p, mem'[p]) /\ Failed(p)
             \/ /\ node(p) \in Effectful /\ ~outcome[p].committed
                /\ outcome[p].success
                /\ mem' = [mem EXCEPT ![p].effects[node(p)] = "unknown"]
                /\ Failed(p)
                /\ UNCHANGED <<storage, ver>>
             \/ /\ \/ node(p) \notin Effectful
                   \/ ~outcome[p].committed /\ ~outcome[p].success
                /\ UNCHANGED <<storage, mem, ver, outcome>>
    /\ UNCHANGED <<held, warned, applied, calls, repeats>>

\* An output above the quota turns success into failure.
Verdicts(p) ==
    {outcome[p].success} \cup (IF node(p) \in Quotas THEN {FALSE} ELSE {})

\* The node an image stands at when its fence is unknown: it is prepared again.
Doubtful(m) ==
    {n \in Nodes : m.current = n /\ ~m.completed /\ m.effects[n] = "unknown"}

StatusOf(ok) == IF ok THEN "succeeded" ELSE "failed"

\* The node's status is recorded and an edge selected.
Recorded(p, ok) ==
    LET to == IF ok THEN NextOf[node(p)] ELSE ErrorOf[node(p)]
    IN  [mem[p] EXCEPT !.status[node(p)] = StatusOf(ok), !.current = to,
                       !.completed = to = End, !.success = to = End /\ ok]

\* The outputs or the state exceed their quota after the node has run: the
\* call ends with the node recorded but the position unmoved, and nothing is
\* saved.
QuotaExceeded(p) ==
    /\ pc[p] = "record" /\ node(p) \in Quotas
    /\ \E ok \in Verdicts(p) :
          mem' = [mem EXCEPT ![p].status[node(p)] = StatusOf(ok)]
    /\ Answer(p, "failure") /\ DropResult(p)
    /\ Repeat(Doubtful(mem'[p]))
    /\ UNCHANGED <<storage, ver, held, warned, applied, calls>>

RecordUnsaved(p) ==
    /\ pc[p] = "record"
    /\ \E ok \in Verdicts(p) : mem' = [mem EXCEPT ![p] = Recorded(p, ok)]
    /\ \/ SaveOk(p, mem'[p]) \/ SaveFails(p, mem'[p])
    /\ IF mem'[p].completed
       THEN Answer(p, IF mem'[p].success THEN "success" ELSE "failure")
       ELSE Goto(p, "head")
    /\ DropResult(p) /\ Repeat(Doubtful(mem'[p]))
    /\ UNCHANGED <<held, warned, applied, calls>>

\* The node's result, the edge taken and, at the end, the run's result are
\* saved together.  A save that fails ends the call but leaves the object
\* where it is, completed if the run is.  A loop may lead back to a node with
\* an unknown fence.
RecordNode(p) ==
    /\ pc[p] = "record"
    /\ \E ok \in Verdicts(p) : mem' = [mem EXCEPT ![p] = Recorded(p, ok)]
    /\ \/ /\ SaveOk(p, mem'[p])
          /\ IF mem'[p].completed
             THEN Answer(p, IF mem'[p].success THEN "success" ELSE "failure")
             ELSE Goto(p, "head")
          /\ UNCHANGED warned
       \/ SaveFails(p, mem'[p]) /\ AnswerStoreError(p)
    /\ DropResult(p) /\ Repeat(Doubtful(mem'[p]))
    /\ UNCHANGED <<held, applied, calls>>

-----------------------------------------------------------------------------
(***************************************************************************)
(* Hosts: start, execute again, rerun, crash, restore                      *)
(***************************************************************************)

Call == calls < MaxCalls /\ calls' = calls + 1

\* create_run and the first execute; the run is started once.
Start(p) ==
    /\ calls = 0 /\ Call
    /\ Goto(p, "head")
    /\ UNCHANGED <<storage, mem, ver, outcome, held, warned, applied, repeats>>

\* Run::execute on an object that has answered or has just been restored.
Execute(p) ==
    /\ pc[p] = "idle"
    /\ IF told[p] = "restored" THEN UNCHANGED calls ELSE Call
    /\ pc' = [pc EXCEPT ![p] = "head"]
    /\ told' = [told EXCEPT ![p] = "nothing"]
    /\ UNCHANGED <<storage, mem, ver, outcome, held, warned, applied, repeats>>

\* The nodes a rerun clears: n and what its edges lead to.
Reachable(n) ==
    LET Grow(S) == (S \cup {NextOf[m] : m \in S} \cup {ErrorOf[m] : m \in S})
                       \ {End}
        Reach[i \in 0..Cardinality(Nodes)] ==
            IF i = 0 THEN {n} ELSE Grow(Reach[i - 1])
    IN  Reach[Cardinality(Nodes)]

Cleared(m, n, mode) ==
    [current |-> n, completed |-> FALSE, success |-> FALSE, mode |-> mode,
     effects |-> [k \in Nodes |->
         IF k \in Reachable(n) THEN "none" ELSE m.effects[k]],
     status |-> [k \in Nodes |->
         IF k \in Reachable(n) THEN "pending" ELSE m.status[k]]]

RerunMode == "replay"

\* Run::selective_rerun refuses a start node that must not be replayed,
\* forgets the fences of everything reachable and runs it in Replay mode.
SelectiveRerun(p, n) ==
    /\ pc[p] = "idle" /\ Call /\ n \notin Guarded
    /\ mem' = [mem EXCEPT ![p] = Cleared(mem[p], n, RerunMode)]
    /\ pc' = [pc EXCEPT ![p] = "head"]
    /\ told' = [told EXCEPT ![p] = "nothing"]
    /\ UNCHANGED <<storage, ver, outcome, held, warned, applied, repeats>>

\* The process dies and its Run object with it.
Crash(p) ==
    /\ pc[p] # "none"
    /\ pc' = [pc EXCEPT ![p] = "none"]
    /\ mem' = [mem EXCEPT ![p] = Fresh]
    /\ ver' = [ver EXCEPT ![p] = 0]
    /\ outcome' = [outcome EXCEPT ![p] = NoOutcome]
    /\ told' = [told EXCEPT ![p] = "nothing"]
    /\ warned' = [warned EXCEPT ![p] = FALSE]
    /\ UNCHANGED <<storage, held, applied, calls, repeats>>

\* A host reads the checkpoint text of the record.
Fetch(p) ==
    /\ pc[p] = "none" /\ record.checkpoint # NoCheckpoint
    /\ held' = [held EXCEPT ![p] = record.checkpoint]
    /\ UNCHANGED <<storage, run, applied, calls, repeats>>

InFlight(m) == {n \in Nodes : m.status[n] = "running"}

\* A checkpoint with a node in flight that must not run twice is refused.
UnsafeInFlight(m) == InFlight(m) \cap Guarded # {}

Restored(m) ==
    [m EXCEPT !.status = [n \in Nodes |->
                  IF n \in InFlight(m) THEN "pending" ELSE m.status[n]]]

\* Engine::restore_run claims the record with the state_version inside the
\* checkpoint text, and only then looks for nodes in flight.  The claim
\* fails when the version has moved on or the store reports an I/O error,
\* which may come after the claim was written.  The host then drops the text:
\* if it is still good it can be read again.
Restore(p) ==
    /\ pc[p] = "none" /\ held[p] # NoCheckpoint /\ Call
    /\ LET cp == held[p] IN
       \/ /\ Claim(cp.state_version, p)
          /\ ~UnsafeInFlight(cp.image)
          /\ mem' = [mem EXCEPT ![p] = Restored(cp.image)]
          /\ ver' = [ver EXCEPT ![p] = record'.version]
          /\ Answer(p, "restored")
          /\ UNCHANGED <<warned, faults>>
       \/ /\ \/ Claim(cp.state_version, p) /\ UnsafeInFlight(cp.image)
                /\ UNCHANGED faults
             \/ cp.state_version # record.version /\ UNCHANGED storage
             \/ /\ faults < MaxFaults
                /\ faults' = faults + 1
                /\ UNCHANGED <<record, finished>> \/ Claim(cp.state_version, p)
          /\ UNCHANGED <<mem, ver, pc, told, warned>>
    /\ held' = [held EXCEPT ![p] = NoCheckpoint]
    /\ UNCHANGED <<outcome, applied, repeats>>

Step(p) ==
    \/ Completed(p) \/ Interrupted(p) \/ NodeBlocked(p) \/ ManualRequired(p)
    \/ Prepare(p) \/ Enter(p) \/ Apply(p) \/ Return(p) \/ Retry(p) \/ Consume(p)
    \/ QuotaExceeded(p) \/ RecordNode(p)
Host(p) ==
    \/ Start(p) \/ Execute(p) \/ (\E n \in Nodes : SelectiveRerun(p, n))
    \/ Crash(p) \/ Fetch(p) \/ Restore(p)
Next == \E p \in Procs : Step(p) \/ Host(p)
Spec == Init /\ [][Next]_vars

-----------------------------------------------------------------------------
(***************************************************************************)
(* Properties                                                              *)
(***************************************************************************)

Alive(p) == pc[p] # "none"

\* The effect of a node that must not run twice (at_most_once, manual or
\* forbidden) reaches the external world at most once, whatever crashes,
\* restores, stale processes, repeated execute calls and selective reruns
\* the run goes through.  The exceptions are the nodes in repeats: a retry
\* taken from the defaults was used on the node, or a quota error or a loop
\* left the run at the node with its fence unknown.
AtMostOnceEffect == \A n \in Guarded \ repeats : applied[n] <= 1

\* Of all objects of the run that are alive, only the one that claimed the
\* record last can still save: a process that was presumed dead is fenced
\* off from the moment another one restores the run.
SingleWriter ==
    \A p \in Procs :
        Alive(p) /\ ver[p] = record.version /\ record.owner # NoProc
            => p = record.owner

\* Recovery skips an effect that is committed: once the stored checkpoint has
\* a node's effect as committed, no later checkpoint has it otherwise, unless
\* it belongs to a rerun on request.
CommittedStays ==
    [][\A n \in Nodes :
           /\ record.checkpoint # NoCheckpoint
           /\ record.checkpoint.image.effects[n] = "committed"
           /\ record'.checkpoint.image.mode = "normal"
           => record'.checkpoint.image.effects[n] = "committed"]_vars

\* An object that has answered success saved the completed run itself or was
\* restored from it.  (An object that has reported a failed save before is
\* excepted: called again, it answers with the result it could not store.)
SuccessIsDurable ==
    \A p \in Procs :
        told[p] = "success" /\ ~warned[p]
            => ver[p] \in finished \/ ver[p] - 1 \in finished

\* EFFECT_RECOVERY_REQUIRES_MANUAL is the answer of a recovered run: a run
\* that nobody has restored or called a second time never gives it.
ManualOnlyAfterRecovery ==
    \A p \in Procs : told[p] = "manual" => calls > 1
=============================================================================
