--------------------------- MODULE FileStateStore ---------------------------
(***************************************************************************)
(* FileStateStore: the record of one run in <run>.state, updated under the *)
(* flock of <run>.lock by writing a temporary file, renaming it and        *)
(* flushing the directory.  The directory is shared by cooperating threads *)
(* and processes; each may crash at any point, any file operation may      *)
(* fail, and a power loss takes back what no flush has made durable.       *)
(* Records of different runs share no file, so one run is enough.          *)
(***************************************************************************)
EXTENDS Integers, FiniteSets

CONSTANTS
    Procs,        \* the callers
    Absent,       \* no record
    Nobody,       \* no caller: the lock is free, the record has no owner
    PutAttempts,  \* attempts of put (16 in the code)
    MaxCalls,     \* bound on the calls made
    MaxFaults     \* bound on I/O errors, crashes and power losses together

\* The checkpoint text is named by the number of the call that stores it.
Record == [version : Nat, epoch : Nat, owner : Procs \cup {Nobody}, data : Nat]

ASSUME StoreAssumption ==
    /\ Nobody \notin Procs /\ Absent \notin Record
    /\ PutAttempts \in Nat \ {0} /\ MaxCalls \in Nat /\ MaxFaults \in Nat

Answers == {"none", "ok", "not_found", "corrupt", "conflict", "exhausted", "io_error"}
Steps == {"idle", "exists", "read", "lock", "check", "remove", "temp", "rename", "sync"}
Ops == {"load", "compare_exchange", "claim", "put", "erase"}

VARIABLES
    rec,      \* contents of the .state file
    older,    \* contents a power loss could bring back
    lock,     \* holder of the flock
    pc,       \* where each caller stands
    op,       \* the operation it is in
    token,    \* the number of its call
    expected, \* the version its update expects
    next,     \* the record it is about to publish
    left,     \* attempts of put left
    answer,   \* what its last call returned
    known,    \* the record its last successful load returned
    calls, faults,
    acked,    \* history: highest acknowledged version of this record
    erases,   \* history: how often the record was removed
    knownAt,  \* history: erases when known was loaded
    acks      \* history: acknowledged updates

disk == <<rec, older, acked, erases>>
frame == <<op, token, expected, next, left>>
belief == <<known, knownAt>>
vars == <<disk, lock, pc, frame, answer, belief, calls, faults, acks>>

Promise == INSTANCE StateRecords WITH
               Absent <- Absent, rec <- rec, older <- older, acked <- acked

Version(r) == Promise!Version(r)

Init ==
    /\ rec = Absent /\ older = {} /\ lock = Nobody
    /\ pc = [p \in Procs |-> "idle"] /\ op = [p \in Procs |-> "load"]
    /\ token = [p \in Procs |-> 0] /\ expected = [p \in Procs |-> 0]
    /\ next = [p \in Procs |-> Absent] /\ left = [p \in Procs |-> 0]
    /\ answer = [p \in Procs |-> "none"] /\ known = [p \in Procs |-> Absent]
    /\ calls = 0 /\ faults = 0 /\ acked = 0 /\ erases = 0
    /\ knownAt = [p \in Procs |-> 0] /\ acks = {}

Goto(p, step) == pc' = [pc EXCEPT ![p] = step]

\* Return to the caller: the call's locals are gone, a DirectoryLock that is
\* held is released.
Finish(p, result) ==
    /\ Goto(p, "idle")
    /\ answer' = [answer EXCEPT ![p] = result]
    /\ lock' = IF lock = p THEN Nobody ELSE lock
    /\ op' = [op EXCEPT ![p] = "load"] /\ token' = [token EXCEPT ![p] = 0]
    /\ expected' = [expected EXCEPT ![p] = 0] /\ left' = [left EXCEPT ![p] = 0]
    /\ next' = [next EXCEPT ![p] = Absent]

Fault == faults < MaxFaults /\ faults' = faults + 1

\* A caller makes a call.  compare_exchange and claim expect the version the
\* caller loaded last; load and put look at the file first.
Call(p, what) ==
    /\ pc[p] = "idle" /\ calls < MaxCalls
    /\ what = "claim" => known[p] # Absent
    /\ Goto(p, IF what \in {"load", "put"} THEN "exists" ELSE "lock")
    /\ op' = [op EXCEPT ![p] = what]
    /\ calls' = calls + 1
    /\ token' = [token EXCEPT ![p] = calls + 1]
    /\ expected' = [expected EXCEPT ![p] = Version(known[p])]
    /\ left' = [left EXCEPT ![p] = PutAttempts]
    /\ answer' = [answer EXCEPT ![p] = "none"]
    /\ UNCHANGED <<disk, lock, next, belief, faults, acks>>

\* put goes on to compare_exchange with the version it found, 0 for none.
PutExpects(p, v) ==
    /\ Goto(p, "lock") /\ expected' = [expected EXCEPT ![p] = v]
    /\ UNCHANGED <<lock, op, token, next, left, answer>>

\* load: no lock is taken; the file may be replaced or removed between the
\* look at the directory and the read.
Exists(p) ==
    /\ pc[p] = "exists"
    /\ \/ rec # Absent /\ Goto(p, "read") /\ UNCHANGED <<frame, answer, lock>>
       \/ rec = Absent /\ op[p] = "load" /\ Finish(p, "not_found")
       \/ rec = Absent /\ op[p] = "put" /\ PutExpects(p, 0)
    /\ UNCHANGED <<disk, belief, calls, faults, acks>>

Read(p) ==
    /\ pc[p] = "read"
    /\ \/ op[p] = "put" /\ PutExpects(p, Version(rec)) /\ UNCHANGED belief
       \/ op[p] = "load" /\ rec = Absent /\ Finish(p, "corrupt") /\ UNCHANGED belief
       \/ /\ op[p] = "load" /\ rec # Absent /\ Finish(p, "ok")
          /\ known' = [known EXCEPT ![p] = rec]
          /\ knownAt' = [knownAt EXCEPT ![p] = erases]
    /\ UNCHANGED <<disk, calls, faults, acks>>

\* DirectoryLock: taken when it is free, given up after 500 attempts, and a
\* mutant that does not exclude anyone.
LockShared(p) ==
    /\ pc[p] = "lock"
    /\ lock' = p
    /\ Goto(p, IF op[p] = "erase" THEN "remove" ELSE "check")
    /\ UNCHANGED <<disk, frame, answer, belief, calls, faults, acks>>
Lock(p) ==
    /\ pc[p] = "lock" /\ lock = Nobody
    /\ lock' = p
    /\ Goto(p, IF op[p] = "erase" THEN "remove" ELSE "check")
    /\ UNCHANGED <<disk, frame, answer, belief, calls, faults, acks>>

LockTimeout(p) ==
    /\ pc[p] = "lock" /\ lock # Nobody
    /\ Finish(p, "io_error")
    /\ UNCHANGED <<disk, belief, calls, faults, acks>>

\* The record an update publishes over the present one, and a mutant in which
\* a claim keeps the version.
ClaimedInPlace(p) == [rec EXCEPT !.epoch = @ + 1, !.owner = p]
Claimed(p) == [version |-> rec.version + 1, epoch |-> rec.epoch + 1, owner |-> p,
               data |-> rec.data]
Stored(p) == [version |-> Version(rec) + 1, data |-> token[p],
              epoch |-> IF rec = Absent THEN 0 ELSE rec.epoch,
              owner |-> IF rec = Absent THEN Nobody ELSE rec.owner]
Successor(p) == IF op[p] = "claim" THEN Claimed(p) ELSE Stored(p)

\* The compare of compare_exchange and claim, and a mutant that accepts a
\* record that has moved on.
VersionNotOlder(p) == Version(rec) >= expected[p]
VersionMatches(p) == Version(rec) = expected[p]

\* A version that differs is a conflict, on which put tries again.
Conflict(p) ==
    IF op[p] = "put" /\ left[p] > 1
      THEN /\ Goto(p, "exists") /\ lock' = Nobody
           /\ left' = [left EXCEPT ![p] = @ - 1]
           /\ UNCHANGED <<op, token, expected, next, answer>>
      ELSE Finish(p, IF op[p] = "put" THEN "exhausted" ELSE "conflict")

\* Under the lock: read the file, compare versions, build the next record.
Check(p) ==
    /\ pc[p] = "check"
    /\ \/ op[p] = "claim" /\ rec = Absent /\ Finish(p, "io_error")
       \/ ~(op[p] = "claim" /\ rec = Absent) /\ ~VersionMatches(p) /\ Conflict(p)
       \/ /\ ~(op[p] = "claim" /\ rec = Absent) /\ VersionMatches(p)
          /\ Goto(p, "temp")
          /\ next' = [next EXCEPT ![p] = Successor(p)]
          /\ UNCHANGED <<lock, op, token, expected, left, answer>>
    /\ UNCHANGED <<disk, belief, calls, faults, acks>>

\* atomic_write: write and flush the temporary file.
WriteTemporary(p) ==
    /\ pc[p] = "temp" /\ Goto(p, "rename")
    /\ UNCHANGED <<disk, lock, frame, answer, belief, calls, faults, acks>>

\* atomic_write: rename it over the record.
Rename(p) ==
    /\ pc[p] = "rename" /\ Goto(p, "sync")
    /\ rec' = next[p] /\ older' = older \cup {rec}
    /\ UNCHANGED <<acked, erases, lock, frame, answer, belief, calls, faults, acks>>

\* atomic_write: flush the directory; the update is answered with success.
\* In a mutant the flush is missing.
SyncNothing(p) ==
    /\ pc[p] = "sync"
    /\ Finish(p, "ok")
    /\ acked' = next[p].version
    /\ acks' = acks \cup {[call |-> token[p], version |-> next[p].version, erases |-> erases]}
    /\ UNCHANGED <<rec, older, erases, belief, calls, faults>>
SyncDirectory(p) ==
    /\ pc[p] = "sync"
    /\ Finish(p, "ok")
    /\ older' = {} /\ acked' = next[p].version
    /\ acks' = acks \cup {[call |-> token[p], version |-> next[p].version, erases |-> erases]}
    /\ UNCHANGED <<rec, erases, belief, calls, faults>>

\* A file operation of an update fails; after the rename the new record stays.
IoError(p) ==
    /\ pc[p] \in {"remove", "temp", "rename", "sync"}
    /\ Fault /\ Finish(p, "io_error")
    /\ UNCHANGED <<disk, belief, calls, acks>>

\* erase removes the file and flushes nothing.
Remove(p) ==
    /\ pc[p] = "remove"
    /\ Finish(p, "ok")
    /\ rec' = Absent /\ older' = older \cup {rec} /\ acked' = 0
    /\ erases' = erases + 1
    /\ UNCHANGED <<belief, calls, faults, acks>>

\* A caller's process ends; the system closes its lock file.
Crash(p) ==
    /\ pc[p] # "idle" /\ Fault
    /\ Finish(p, "none")
    /\ known' = [known EXCEPT ![p] = Absent] /\ knownAt' = [knownAt EXCEPT ![p] = erases]
    /\ UNCHANGED <<disk, calls, acks>>

\* The machine restarts with one of the contents the disk may hold.
PowerLoss ==
    /\ Fault
    /\ rec' \in older \cup {rec} /\ older' = {}
    /\ lock' = Nobody
    /\ pc' = [p \in Procs |-> "idle"] /\ answer' = [p \in Procs |-> "none"]
    /\ known' = [p \in Procs |-> Absent] /\ knownAt' = [p \in Procs |-> erases]
    /\ op' = [p \in Procs |-> "load"] /\ token' = [p \in Procs |-> 0]
    /\ expected' = [p \in Procs |-> 0] /\ next' = [p \in Procs |-> Absent]
    /\ left' = [p \in Procs |-> 0]
    /\ UNCHANGED <<acked, erases, calls, acks>>

Next ==
    \/ \E p \in Procs :
        \/ \E what \in Ops : Call(p, what)
        \/ Exists(p) \/ Read(p) \/ Lock(p) \/ LockTimeout(p) \/ Check(p)
        \/ WriteTemporary(p) \/ Rename(p) \/ SyncDirectory(p)
        \/ Remove(p) \/ IoError(p) \/ Crash(p)
    \/ PowerLoss

Spec == Init /\ [][Next]_vars
-----------------------------------------------------------------------------
TypeOK ==
    /\ rec \in Record \cup {Absent} /\ older \subseteq Record \cup {Absent}
    /\ lock \in Procs \cup {Nobody}
    /\ pc \in [Procs -> Steps] /\ op \in [Procs -> Ops]
    /\ token \in [Procs -> Nat] /\ expected \in [Procs -> Nat]
    /\ next \in [Procs -> Record \cup {Absent}] /\ left \in [Procs -> 0..PutAttempts]
    /\ answer \in [Procs -> Answers] /\ known \in [Procs -> Record \cup {Absent}]
    /\ acked \in Nat /\ erases \in Nat /\ knownAt \in [Procs -> Nat]
    /\ calls \in Nat /\ faults \in Nat

\* FileStateStore implements the StateStore promise: locks, temporary files,
\* lock-free readers, crashes and power losses together look like atomic
\* updates of one register.
Implements == Promise!Spec

\* An update that was answered with success survives every crash, I/O error
\* and power loss, until the record is erased.
AckedIsDurable == Promise!AckedIsDurable

\* Two updates answered with success never hold the same version of the same
\* record: of two compare_exchanges or claims that race on a version at most
\* one wins.  Only an erase lets version numbers start again.
VersionWonOnce ==
    \A a, b \in acks : a.version = b.version /\ a.erases = b.erases => a = b

\* A compare_exchange or claim that goes through replaces exactly the record
\* its caller had loaded, unless the record was erased in between and grew
\* back to the same version.
ReplacesWhatWasRead ==
    [][\A p \in Procs :
         /\ pc[p] = "rename" /\ pc'[p] = "sync"
         /\ op[p] \in {"compare_exchange", "claim"}
         => rec = known[p] \/ erases > knownAt[p]]_vars
=============================================================================
