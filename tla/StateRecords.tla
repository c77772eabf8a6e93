---------------------------- MODULE StateRecords ----------------------------
(***************************************************************************)
(* What the StateStore interface promises about the record of one run: a   *)
(* register whose version grows by one with every update, whose epoch and  *)
(* owner change only by a claim, and in which an acknowledged update       *)
(* survives a power loss.  Every step is atomic.  MemoryStateStore makes   *)
(* it so with one critical section (the record of version 0 that a refused *)
(* compare_exchange leaves there counts as Absent); how FileStateStore     *)
(* gets there with lock files, temporary files and renames is the subject  *)
(* of FileStateStore, which is shown to implement this module.             *)
(***************************************************************************)
EXTENDS Naturals

CONSTANT Absent   \* there is no record

VARIABLES
    rec,    \* the record a reader sees, or Absent
    older,  \* what a power loss could bring back instead
    acked   \* the highest version acknowledged since the record was created

vars == <<rec, older, acked>>

Version(r) == IF r = Absent THEN 0 ELSE r.version

Init == rec = Absent /\ older = {} /\ acked = 0

\* compare_exchange and put: a new checkpoint under the next version.
Store ==
    /\ rec' # Absent
    /\ rec'.version = Version(rec) + 1
    /\ rec # Absent => rec'.epoch = rec.epoch /\ rec'.owner = rec.owner
    /\ rec = Absent => rec'.epoch = 0

\* claim: a new owner under the next epoch, the checkpoint is kept.
Claim ==
    /\ rec # Absent /\ rec' # Absent
    /\ rec'.version = rec.version + 1 /\ rec'.epoch = rec.epoch + 1
    /\ rec'.data = rec.data

Update == (Store \/ Claim) /\ older' = older \cup {rec} /\ UNCHANGED acked

\* The caller of the latest update hears of its success.
Acknowledge ==
    /\ rec # Absent
    /\ older' = {} /\ acked' = rec.version /\ UNCHANGED rec

Erase == rec' = Absent /\ older' = older \cup {rec} /\ acked' = 0

\* What was not acknowledged may be lost.
PowerLoss == rec' \in older \cup {rec} /\ older' = {} /\ UNCHANGED acked

Next == Update \/ Acknowledge \/ Erase \/ PowerLoss

Spec == Init /\ [][Next]_vars

\* An acknowledged update is never lost: every record that a reader sees, or
\* that a power loss could bring back, is at least as recent.
AckedIsDurable == \A r \in older \cup {rec} : Version(r) >= acked
=============================================================================
