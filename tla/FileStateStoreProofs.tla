------------------------ MODULE FileStateStoreProofs ------------------------
(***************************************************************************)
(* FileStateStore implements StateRecords, for any number of callers, calls *)
(* and faults.  The argument is the lock: between the read of the record    *)
(* under the flock and the flush of the directory nobody else changes the   *)
(* file, so what an update is about to publish is still the successor of    *)
(* what is there, and what it acknowledges is what it published.            *)
(***************************************************************************)
EXTENDS FileStateStore, TLAPS

LockedSteps == {"check", "remove", "temp", "rename", "sync"}

\* n may replace r: as compare_exchange and put do, or as claim does.
MayFollow(r, n) ==
    /\ n # Absent
    /\ n.version = Version(r) + 1
    /\ \/ r # Absent /\ n.epoch = r.epoch /\ n.owner = r.owner
       \/ r = Absent /\ n.epoch = 0
       \/ r # Absent /\ n.epoch = r.epoch + 1 /\ n.data = r.data

\* Who is past the lock holds it; what it has prepared follows the record
\* that is there; what it has published is there.
LockProtects ==
    \A p \in Procs :
        /\ pc[p] \in LockedSteps => lock = p
        /\ pc[p] \in {"temp", "rename"} => MayFollow(rec, next[p])
        /\ pc[p] = "sync" => rec = next[p] /\ rec # Absent

\* The shapes the argument below needs; TypeOK follows separately.
Shapes ==
    /\ pc \in [Procs -> Steps]
    /\ lock \in Procs \cup {Nobody}
    /\ DOMAIN next = Procs

IInv == Shapes /\ LockProtects

USE StoreAssumption DEF Version, Promise!Version

\* At the start nobody is past the lock.
LEMMA InitLocks == Init => IInv
  BY ZenonT(60) DEF Init, IInv, Shapes, LockProtects, LockedSteps, Steps

\* A call that returns gives up the lock and touches no other caller.
LEMMA FinishLocks ==
  ASSUME IInv, NEW p \in Procs, NEW r, Finish(p, r),
         pc[p] \in LockedSteps \/ UNCHANGED rec
  PROVE  Shapes' /\ LockProtects'
  <1>1. Shapes'
    BY Zenon DEF IInv, Shapes, Finish, Goto, Steps
  <1>2. ASSUME NEW q \in Procs PROVE
          /\ pc[q] \in LockedSteps => lock = q
          /\ pc'[q] = IF q = p THEN "idle" ELSE pc[q]
          /\ q # p => next'[q] = next[q]
    BY Zenon DEF IInv, Shapes, LockProtects, Finish, Goto
  <1>3. ASSUME NEW q \in Procs, pc'[q] \in LockedSteps
        PROVE  q # p /\ lock = q /\ lock' = q /\ UNCHANGED rec
    BY <1>2, <1>3, Zenon DEF Finish, LockedSteps
  <1>4. LockProtects'
    BY <1>2, <1>3, SMTT(30) DEF IInv, LockProtects, LockedSteps, MayFollow
  <1> QED
    BY <1>1, <1>4, Zenon

\* A caller that moves on without the file changing and without the lock
\* being taken from anybody keeps the invariant, if it keeps its own part.
LEMMA StepLocks ==
  ASSUME IInv, NEW p \in Procs, NEW s \in Steps, Goto(p, s), UNCHANGED rec,
         DOMAIN next' = Procs,
         \A q \in Procs \ {p} : next'[q] = next[q],
         UNCHANGED lock \/ (lock = Nobody /\ lock' = p) \/ (lock = p /\ lock' = Nobody),
         s \in LockedSteps => lock' = p,
         s \in {"temp", "rename"} => MayFollow(rec, next'[p]),
         s = "sync" => rec = next'[p] /\ rec # Absent
  PROVE  IInv'
  <1>1. Shapes'
    BY Zenon DEF IInv, Shapes, Goto
  <1>2. \A q \in Procs : pc'[q] = IF q = p THEN s ELSE pc[q]
    BY Zenon DEF IInv, Shapes, Goto
  <1>3. ASSUME NEW q \in Procs, q # p, pc[q] \in LockedSteps PROVE lock' = q
    BY <1>3, Zenon DEF IInv, LockProtects
  <1>4. LockProtects'
    BY <1>2, <1>3, SMTT(30) DEF IInv, LockProtects, LockedSteps, MayFollow
  <1> QED
    BY <1>1, <1>4, Zenon DEF IInv

\* The same for a step to a place outside the lock.
LEMMA OutsideLocks ==
  ASSUME IInv, NEW p \in Procs, NEW s \in {"exists", "read", "lock"}, Goto(p, s),
         UNCHANGED rec, UNCHANGED next, UNCHANGED lock \/ (lock = p /\ lock' = Nobody)
  PROVE  IInv'
  <1>1. s \in Steps /\ s \notin LockedSteps
    BY Zenon DEF Steps, LockedSteps
  <1>2. DOMAIN next' = Procs
    BY Zenon DEF IInv, Shapes
  <1>3. s \notin {"temp", "rename"} /\ s # "sync"
    BY Zenon
  <1> QED
    BY <1>1, <1>2, <1>3, StepLocks, Zenon

\* What an update is about to publish is a record.
LEMMA SuccessorType ==
  ASSUME TypeOK, NEW p \in Procs, ~(op[p] = "claim" /\ rec = Absent)
  PROVE  Successor(p) \in Record
  <1>1. CASE op[p] = "claim"
    <2>1. rec \in Record
      BY <1>1, Zenon DEF TypeOK
    <2> QED
      BY <1>1, <2>1, SMTT(30) DEF Record, Successor, Claimed
  <1>2. CASE op[p] # "claim"
    <2>1. Version(rec) + 1 \in Nat /\ token[p] \in Nat
      BY SMTT(30) DEF TypeOK, Record
    <2>2. (IF rec = Absent THEN 0 ELSE rec.epoch) \in Nat
      BY Zenon DEF TypeOK, Record
    <2>3. (IF rec = Absent THEN Nobody ELSE rec.owner) \in Procs \cup {Nobody}
      BY Zenon DEF TypeOK, Record
    <2> QED
      BY <1>2, <2>1, <2>2, <2>3, Zenon DEF Record, Successor, Stored
  <1> QED
    BY <1>1, <1>2, Zenon

\* A call that returns keeps the types of what it resets.
LEMMA FinishTypes ==
  ASSUME TypeOK, NEW p \in Procs, NEW r \in Answers, Finish(p, r)
  PROVE  /\ lock' \in Procs \cup {Nobody}
         /\ pc' \in [Procs -> Steps] /\ op' \in [Procs -> Ops]
         /\ token' \in [Procs -> Nat] /\ expected' \in [Procs -> Nat]
         /\ next' \in [Procs -> Record \cup {Absent}] /\ left' \in [Procs -> 0..PutAttempts]
         /\ answer' \in [Procs -> Answers]
  BY SMTT(30) DEF TypeOK, Finish, Goto, Steps, Ops

\* Every step keeps the lock discipline.
LEMMA NextLocks == TypeOK /\ IInv /\ [Next]_vars => IInv'
  <1> SUFFICES ASSUME TypeOK, IInv, [Next]_vars PROVE IInv'
    BY Zenon
  <1>1. ASSUME NEW p \in Procs, NEW what \in Ops, Call(p, what) PROVE IInv'
    <2>1. /\ UNCHANGED <<rec, next, lock>>
          /\ Goto(p, "exists") \/ Goto(p, "lock")
      BY <1>1, Zenon DEF Call, disk
    <2> QED
      BY <2>1, OutsideLocks, Zenon
  <1>2. ASSUME NEW p \in Procs, Exists(p) PROVE IInv'
    <2>1. CASE Goto(p, "read") /\ UNCHANGED <<frame, answer, lock>>
      BY <1>2, <2>1, OutsideLocks, Zenon DEF Exists, disk, frame
    <2>2. CASE Finish(p, "not_found")
      BY <1>2, <2>2, FinishLocks, Zenon DEF Exists, disk, IInv
    <2>3. CASE PutExpects(p, 0)
      BY <1>2, <2>3, OutsideLocks, Zenon DEF Exists, PutExpects, disk
    <2> QED
      BY <1>2, <2>1, <2>2, <2>3, Zenon DEF Exists
  <1>3. ASSUME NEW p \in Procs, Read(p) PROVE IInv'
    <2>1. CASE PutExpects(p, Version(rec))
      BY <1>3, <2>1, OutsideLocks, Zenon DEF Read, PutExpects, disk
    <2>2. CASE Finish(p, "corrupt") \/ Finish(p, "ok")
      BY <1>3, <2>2, FinishLocks, Zenon DEF Read, disk, IInv
    <2> QED
      BY <1>3, <2>1, <2>2, Zenon DEF Read
  <1>4. ASSUME NEW p \in Procs, Lock(p) PROVE IInv'
    <2>1. /\ UNCHANGED <<rec, next>> /\ lock = Nobody /\ lock' = p
          /\ Goto(p, "remove") \/ Goto(p, "check")
      BY <1>4, Zenon DEF Lock, disk, frame
    <2>2. DOMAIN next' = Procs
      BY <2>1, Zenon DEF IInv, Shapes
    <2>3. \A s \in {"remove", "check"} : s \in Steps /\ s \notin {"temp", "rename", "sync"}
      BY Zenon DEF Steps
    <2> QED
      BY <2>1, <2>2, <2>3, StepLocks, Zenon
  <1>5. ASSUME NEW p \in Procs, LockTimeout(p) PROVE IInv'
    BY <1>5, FinishLocks, Zenon DEF LockTimeout, disk, IInv
  <1>6. ASSUME NEW p \in Procs, Check(p) PROVE IInv'
    <2>1. pc[p] \in LockedSteps /\ lock = p /\ UNCHANGED rec
      BY <1>6, Zenon DEF Check, IInv, LockProtects, LockedSteps, disk
    <2>2. CASE \E r : Finish(p, r)
      BY <2>1, <2>2, FinishLocks, Zenon DEF IInv
    <2>3. CASE Goto(p, "exists") /\ lock' = Nobody /\ UNCHANGED next
      BY <2>1, <2>3, OutsideLocks, Zenon
    <2>4. CASE /\ ~(op[p] = "claim" /\ rec = Absent)
               /\ Goto(p, "temp")
               /\ next' = [next EXCEPT ![p] = Successor(p)] /\ UNCHANGED lock
      <3>1. MayFollow(rec, Successor(p))
        <4>1. Successor(p) \in Record
          BY <2>4, SuccessorType, Zenon
        <4>2. CASE op[p] = "claim"
          BY <2>4, <4>1, <4>2, Zenon DEF MayFollow, Successor, Claimed, TypeOK,
          Record
        <4>3. CASE op[p] # "claim"
          BY <2>4, <4>1, <4>3, Zenon DEF MayFollow, Successor, Stored, TypeOK,
          Record
        <4> QED
          BY <4>2, <4>3, Zenon
      <3>2. /\ DOMAIN next' = Procs /\ next'[p] = Successor(p)
            /\ \A q \in Procs \ {p} : next'[q] = next[q]
        BY <2>4, Zenon DEF IInv, Shapes
      <3>3. "temp" \in Steps /\ "temp" # "sync"
        BY Zenon DEF Steps
      <3> QED
        BY <2>1, <2>4, <3>1, <3>2, <3>3, StepLocks, Zenon
    <2> QED
      BY <1>6, <2>2, <2>3, <2>4, Zenon DEF Check, Conflict
  <1>7. ASSUME NEW p \in Procs, WriteTemporary(p) PROVE IInv'
    <2>1. /\ UNCHANGED <<rec, next, lock>> /\ Goto(p, "rename")
          /\ lock = p /\ MayFollow(rec, next[p]) /\ DOMAIN next = Procs
      BY <1>7, Zenon DEF WriteTemporary, disk, frame, IInv, Shapes,
      LockProtects, LockedSteps
    <2>2. MayFollow(rec, next'[p]) /\ DOMAIN next' = Procs
      BY <2>1, Zenon
    <2>3. "rename" \in Steps /\ "rename" # "sync"
      BY Zenon DEF Steps
    <2> QED
      BY <2>1, <2>2, <2>3, StepLocks, Zenon
  <1>8. ASSUME NEW p \in Procs, Rename(p) PROVE IInv'
    <2>1. /\ lock = p /\ UNCHANGED <<lock, next>> /\ rec' = next[p] /\ rec' # Absent
          /\ \A q \in Procs : pc'[q] = IF q = p THEN "sync" ELSE pc[q]
      BY <1>8, Zenon DEF Rename, Goto, frame, IInv, Shapes, LockProtects,
      LockedSteps, MayFollow
    <2>2. \A q \in Procs \ {p} : pc[q] \notin LockedSteps
      BY <2>1, Zenon DEF IInv, LockProtects
    <2>3. Shapes'
      BY <1>8, <2>1, Zenon DEF Rename, Goto, IInv, Shapes, Steps
    <2>4. LockProtects'
      BY <2>1, <2>2, Zenon DEF LockProtects, LockedSteps
    <2> QED
      BY <2>3, <2>4, Zenon DEF IInv
  <1>9. ASSUME NEW p \in Procs, SyncDirectory(p) \/ IoError(p) \/ Remove(p) PROVE IInv'
    BY <1>9, FinishLocks, Zenon DEF SyncDirectory, IoError, Remove,
    LockedSteps, IInv
  <1>10. ASSUME NEW p \in Procs, Crash(p) PROVE IInv'
    BY <1>10, FinishLocks, Zenon DEF Crash, disk, IInv
  <1>11. CASE PowerLoss
    BY <1>11, Zenon DEF PowerLoss, IInv, Shapes, LockProtects, LockedSteps,
    Steps
  <1>12. CASE UNCHANGED vars
    BY <1>12, ZenonT(60) DEF vars, disk, frame, IInv, Shapes, LockProtects,
    MayFollow
  <1> QED
    BY <1>1, <1>2, <1>3, <1>4, <1>5, <1>6, <1>7, <1>8, <1>9, <1>10, <1>11,
    <1>12, Zenon DEF Next

\* Every step keeps the types.
LEMMA NextTypes == TypeOK /\ IInv /\ [Next]_vars => TypeOK'
  <1> SUFFICES ASSUME TypeOK, IInv, [Next]_vars PROVE TypeOK'
    BY Zenon
  <1> USE DEF disk, frame, belief
  <1>1. ASSUME NEW p \in Procs, NEW what \in Ops, Call(p, what) PROVE TypeOK'
    BY <1>1, SMTT(30) DEF Call, Goto, TypeOK, Record, Steps, Answers
  <1>2. ASSUME NEW p \in Procs, Exists(p) PROVE TypeOK'
    BY <1>2, FinishTypes, SMTT(30) DEF Exists, PutExpects, Goto, TypeOK, Steps,
    Answers
  <1>3. ASSUME NEW p \in Procs, Read(p) PROVE TypeOK'
    <2>1. Version(rec) \in Nat
      BY Zenon DEF TypeOK, Record
    <2> QED
      BY <1>3, <2>1, FinishTypes, SMTT(30) DEF Read, PutExpects, Goto, TypeOK,
      Steps, Answers
  <1>4. ASSUME NEW p \in Procs, Lock(p) PROVE TypeOK'
    BY <1>4, Zenon DEF Lock, Goto, TypeOK, Steps
  <1>5. ASSUME NEW p \in Procs, LockTimeout(p) PROVE TypeOK'
    BY <1>5, FinishTypes, Zenon DEF LockTimeout, TypeOK, Answers
  <1>6. ASSUME NEW p \in Procs, Check(p) PROVE TypeOK'
    <2>1. CASE \E r \in Answers : Finish(p, r)
      BY <1>6, <2>1, FinishTypes, Zenon DEF Check, TypeOK
    <2>2. CASE /\ left[p] > 1
               /\ Goto(p, "exists") /\ lock' = Nobody
               /\ left' = [left EXCEPT ![p] = @ - 1]
               /\ UNCHANGED <<op, token, expected, next, answer>>
      BY <1>6, <2>2, SMTT(30) DEF Check, Goto, TypeOK, Steps
    <2>3. CASE /\ Successor(p) \in Record /\ Goto(p, "temp")
               /\ next' = [next EXCEPT ![p] = Successor(p)]
               /\ UNCHANGED <<lock, op, token, expected, left, answer>>
      BY <1>6, <2>3, Zenon DEF Check, Goto, TypeOK, Steps
    <2> QED
      BY <1>6, <2>1, <2>2, <2>3, SuccessorType, Zenon DEF Check, Conflict,
      Answers
  <1>7. ASSUME NEW p \in Procs, WriteTemporary(p) PROVE TypeOK'
    BY <1>7, Zenon DEF WriteTemporary, Goto, TypeOK, Steps
  <1>8. ASSUME NEW p \in Procs, Rename(p) PROVE TypeOK'
    BY <1>8, Zenon DEF Rename, Goto, TypeOK, Steps
  <1>9. ASSUME NEW p \in Procs, SyncDirectory(p) PROVE TypeOK'
    <2>1. next[p].version \in Nat
      BY <1>9, Zenon DEF SyncDirectory, IInv, LockProtects, TypeOK, Record
    <2> QED
      BY <1>9, <2>1, FinishTypes, Zenon DEF SyncDirectory, TypeOK, Answers
  <1>10. ASSUME NEW p \in Procs, IoError(p) PROVE TypeOK'
    BY <1>10, FinishTypes, SMTT(30) DEF IoError, Fault, TypeOK, Answers
  <1>11. ASSUME NEW p \in Procs, Remove(p) PROVE TypeOK'
    BY <1>11, FinishTypes, SMTT(30) DEF Remove, TypeOK, Answers
  <1>12. ASSUME NEW p \in Procs, Crash(p) PROVE TypeOK'
    BY <1>12, FinishTypes, SMTT(30) DEF Crash, Fault, TypeOK, Answers
  <1>13. CASE PowerLoss
    BY <1>13, SMTT(30) DEF PowerLoss, Fault, TypeOK, Steps, Ops, Answers
  <1>14. CASE UNCHANGED vars
    BY <1>14, Zenon DEF vars, TypeOK
  <1> QED
    BY <1>1, <1>2, <1>3, <1>4, <1>5, <1>6, <1>7, <1>8, <1>9, <1>10, <1>11,
    <1>12, <1>13, <1>14, Zenon DEF Next

\* At the start every variable has its type.
LEMMA InitTypes == Init => TypeOK
  BY SMTT(30) DEF Init, TypeOK, Steps, Ops, Answers

\* The variables of FileStateStore keep their types, and whoever is past the
\* flock of DirectoryLock holds it until the call returns.
THEOREM StoreTypes == Spec => []TypeOK
  <1>1. Spec => [](TypeOK /\ IInv)
    BY InitTypes, InitLocks, NextTypes, NextLocks, PTL DEF Spec
  <1> QED
    BY <1>1, PTL

\* The lock discipline holds in every reachable state.
LEMMA AlwaysLocked == Spec => []IInv
  <1>1. Spec => [](TypeOK /\ IInv)
    BY InitTypes, InitLocks, NextTypes, NextLocks, PTL DEF Spec
  <1> QED
    BY <1>1, PTL

\* A step of the file store is a step of the promise, or invisible to it.
LEMMA NextImplements == IInv /\ [Next]_vars => [Promise!Next]_(Promise!vars)
  <1> SUFFICES ASSUME IInv, [Next]_vars PROVE Promise!Next \/ UNCHANGED Promise!vars
    BY Zenon
  <1>1. ASSUME NEW p \in Procs, Rename(p) PROVE Promise!Update
    <2>1. MayFollow(rec, rec') /\ older' = older \cup {rec} /\ UNCHANGED acked
      BY <1>1, Zenon DEF Rename, IInv, LockProtects
    <2> QED
      BY <2>1, Zenon DEF MayFollow, Promise!Update, Promise!Store,
      Promise!Claim
  <1>2. ASSUME NEW p \in Procs, SyncDirectory(p) PROVE Promise!Acknowledge
    BY <1>2, Zenon DEF SyncDirectory, IInv, LockProtects, Promise!Acknowledge
  <1>3. ASSUME NEW p \in Procs, Remove(p) PROVE Promise!Erase
    BY <1>3, Zenon DEF Remove, Promise!Erase
  <1>4. CASE PowerLoss
    BY <1>4, Zenon DEF PowerLoss, Promise!PowerLoss, Promise!Next
  <1>5. CASE UNCHANGED disk
    BY <1>5, Zenon DEF disk, Promise!vars
  <1>6. ASSUME NEW p \in Procs,
               \/ \E what \in Ops : Call(p, what)
               \/ Exists(p) \/ Read(p) \/ Lock(p) \/ LockTimeout(p) \/ Check(p)
               \/ WriteTemporary(p) \/ IoError(p) \/ Crash(p)
        PROVE  UNCHANGED disk
    BY <1>6, Zenon DEF Call, Exists, Read, Lock, LockTimeout, Check,
    WriteTemporary, IoError, Crash
  <1> QED
    BY <1>1, <1>2, <1>3, <1>4, <1>5, <1>6, Zenon DEF Next, Promise!Next, vars

\* FileStateStore implements the StateStore promise, whatever the number of
\* callers, calls, retries and faults.
THEOREM StoreImplements == Spec => Implements
  <1>1. Init => Promise!Init
    BY Zenon DEF Init, Promise!Init
  <1> QED
    BY <1>1, AlwaysLocked, NextImplements, PTL DEF Spec, Implements, Promise!Spec

\* What the acknowledgements rest on: nothing a reader can see or a power loss
\* can bring back is older than an acknowledged version, an update about to be
\* acknowledged is newer, and acknowledged versions of this record are not.
AcksOrdered ==
    /\ \A r \in older \cup {rec} : Version(r) >= acked
    /\ \A p \in Procs : pc[p] = "sync" => Version(rec) > acked
    /\ \A a \in acks :
        /\ a.erases \in Nat /\ a.version \in Nat /\ a.erases <= erases
        /\ a.erases = erases => a.version <= acked

\* A step that leaves the disk and the acknowledgements alone, and brings
\* nobody past the rename, keeps them in order.
LEMMA QuietAcks ==
  ASSUME AcksOrdered, UNCHANGED disk, UNCHANGED acks,
         \A p \in Procs : pc'[p] = "sync" => pc[p] = "sync"
  PROVE  AcksOrdered'
  BY Zenon DEF AcksOrdered, disk

\* Every step keeps the acknowledgements in order and unique.
LEMMA NextAcks ==
  TypeOK /\ IInv /\ AcksOrdered /\ VersionWonOnce /\ [Next]_vars
    => AcksOrdered' /\ VersionWonOnce'
  <1> SUFFICES ASSUME TypeOK, IInv, AcksOrdered, VersionWonOnce, [Next]_vars
               PROVE  AcksOrdered' /\ VersionWonOnce'
    BY Zenon
  <1>0. Version(rec) \in Nat /\ acked \in Nat /\ erases \in Nat
        /\ \A r \in older \cup {rec} : Version(r) \in Nat
    BY Zenon DEF TypeOK, Record
  <1>1. ASSUME NEW p \in Procs, Rename(p) PROVE AcksOrdered' /\ VersionWonOnce'
    <2>1. /\ Version(rec') = Version(rec) + 1 /\ older' = older \cup {rec}
          /\ UNCHANGED <<acked, erases, acks>>
      BY <1>1, Zenon DEF Rename, IInv, LockProtects, MayFollow
    <2> QED
      BY <1>0, <2>1, SMTT(30) DEF AcksOrdered, VersionWonOnce
  <1>2. ASSUME NEW p \in Procs, SyncDirectory(p) PROVE AcksOrdered' /\ VersionWonOnce'
    <2> DEFINE new == [call |-> token[p], version |-> next[p].version, erases |-> erases]
    <2>1. /\ rec = next[p] /\ rec # Absent /\ Version(rec) > acked
          /\ next[p].version = Version(rec)
      BY <1>2, Zenon DEF SyncDirectory, IInv, LockProtects, AcksOrdered
    <2>2. /\ older' = {} /\ acked' = Version(rec) /\ acks' = acks \cup {new}
          /\ UNCHANGED <<rec, erases>>
      BY <1>2, <2>1, Zenon DEF SyncDirectory
    <2>3. \A q \in Procs : pc'[q] # "sync"
      BY <1>2, Zenon DEF SyncDirectory, Finish, Goto, IInv, Shapes,
      LockProtects, LockedSteps
    <2>4. new.version = Version(rec) /\ new.erases = erases
      BY <2>1, Zenon
    <2>5. \A a \in acks : a.erases = erases => a.version <= acked
      BY Zenon DEF AcksOrdered
    <2>6. AcksOrdered'
      <3> HIDE DEF new
      <3>1. \A r \in older' \cup {rec'} : Version(r) >= acked'
        BY <1>0, <2>2, SMTT(30)
      <3>2. ASSUME NEW a \in acks'
            PROVE  /\ a.erases \in Nat /\ a.version \in Nat /\ a.erases <= erases
                   /\ a.erases = erases => a.version <= Version(rec)
        BY <1>0, <2>1, <2>2, <2>4, SMTT(30) DEF AcksOrdered
      <3> QED
        BY <2>2, <2>3, <3>1, <3>2, Zenon DEF AcksOrdered
    <2>7. VersionWonOnce'
      <3> SUFFICES ASSUME NEW a \in acks', NEW b \in acks',
                          a.version = b.version, a.erases = b.erases
                   PROVE  a = b
        BY Zenon DEF VersionWonOnce
      <3> HIDE DEF new
      <3>1. \A c \in acks : ~(c.version = new.version /\ c.erases = new.erases)
        BY <1>0, <2>1, <2>4, <2>5, SMTT(30) DEF AcksOrdered
      <3> QED
        BY <2>2, <3>1, Zenon DEF VersionWonOnce
    <2> QED
      BY <2>6, <2>7, Zenon
  <1>3. ASSUME NEW p \in Procs, Remove(p) PROVE AcksOrdered' /\ VersionWonOnce'
    <2>1. /\ Version(rec') = 0 /\ older' = older \cup {rec} /\ acked' = 0
          /\ erases' = erases + 1 /\ UNCHANGED acks
      BY <1>3, Zenon DEF Remove
    <2>2. \A q \in Procs : pc'[q] # "sync"
      BY <1>3, Zenon DEF Remove, Finish, Goto, IInv, Shapes, LockProtects,
      LockedSteps
    <2>3. \A r \in older' \cup {rec'} : Version(r) >= acked'
      BY <1>0, <2>1, SMTT(30)
    <2>4. ASSUME NEW a \in acks'
          PROVE  /\ a.erases \in Nat /\ a.version \in Nat /\ a.erases <= erases'
                 /\ a.erases # erases'
      BY <1>0, <2>1, SMTT(30) DEF AcksOrdered
    <2>5. AcksOrdered'
      BY <2>2, <2>3, <2>4, Zenon DEF AcksOrdered
    <2> QED
      BY <2>1, <2>5, Zenon DEF VersionWonOnce
  <1>4. CASE PowerLoss
    BY <1>0, <1>4, Zenon DEF PowerLoss, AcksOrdered, VersionWonOnce
  <1>5. CASE UNCHANGED disk /\ UNCHANGED acks
             /\ \A p \in Procs : pc'[p] = "sync" => pc[p] = "sync"
    BY <1>5, QuietAcks, Zenon DEF VersionWonOnce
  <1>6. ASSUME NEW p \in Procs,
               \/ \E what \in Ops : Call(p, what)
               \/ Exists(p) \/ Read(p) \/ Lock(p) \/ LockTimeout(p) \/ Check(p)
               \/ WriteTemporary(p) \/ IoError(p) \/ Crash(p)
        PROVE  /\ UNCHANGED disk /\ UNCHANGED acks
               /\ \A q \in Procs : pc'[q] = "sync" => pc[q] = "sync"
    BY <1>6, ZenonT(60) DEF Call, Exists, Read, Lock, LockTimeout, Check,
    Conflict, WriteTemporary, IoError, Crash, PutExpects, Finish, Goto, IInv,
    Shapes
  <1>7. CASE UNCHANGED vars
    BY <1>5, <1>7, Zenon DEF vars
  <1> QED
    BY <1>1, <1>2, <1>3, <1>4, <1>5, <1>6, <1>7, Zenon DEF Next

\* An update that compare_exchange, claim or put acknowledged survives every
\* crash, I/O error and power loss until the record is erased.
THEOREM StoreDurable == Spec => []AckedIsDurable
  <1>1. Init => AcksOrdered /\ VersionWonOnce
    BY SMTT(30) DEF Init, AcksOrdered, VersionWonOnce
  <1>2. Spec => [](TypeOK /\ IInv /\ AcksOrdered /\ VersionWonOnce)
    BY <1>1, InitTypes, InitLocks, NextTypes, NextLocks, NextAcks, PTL DEF Spec
  <1>3. AcksOrdered => AckedIsDurable
    BY Zenon DEF AcksOrdered, AckedIsDurable, Promise!AckedIsDurable
  <1> QED
    BY <1>2, <1>3, PTL

\* Of the updates that race on one version of a record at most one is
\* acknowledged.
THEOREM StoreVersions == Spec => []VersionWonOnce
  <1>1. Init => AcksOrdered /\ VersionWonOnce
    BY SMTT(30) DEF Init, AcksOrdered, VersionWonOnce
  <1>2. Spec => [](TypeOK /\ IInv /\ AcksOrdered /\ VersionWonOnce)
    BY <1>1, InitTypes, InitLocks, NextTypes, NextLocks, NextAcks, PTL DEF Spec
  <1> QED
    BY <1>2, PTL

Expects(p) == op[p] \in {"compare_exchange", "claim"}

\* What a caller loaded is still there, or the record has a higher version,
\* or it was erased since; a compare_exchange or claim expects the version
\* its caller loaded, and past the comparison that is the present version.
BeliefHolds(p) ==
    /\ knownAt[p] <= erases
    /\ known[p] # Absent /\ knownAt[p] = erases =>
        /\ rec # Absent /\ rec.version >= known[p].version
        /\ rec.version = known[p].version => rec = known[p]
    /\ Expects(p) /\ pc[p] \in {"lock", "check", "temp", "rename"}
        => expected[p] = Version(known[p])
    /\ Expects(p) /\ pc[p] \in {"temp", "rename"} => Version(rec) = expected[p]

\* Version 0 stands for an absent record only.
Numbered == \A r \in older \cup {rec} : r # Absent => r.version >= 1

Beliefs == Numbered /\ \A p \in Procs : BeliefHolds(p)

\* A caller whose own variables stay the same keeps its belief while the
\* record stays as it is.
LEMMA BeliefFramed ==
  ASSUME TypeOK, NEW q \in Procs, BeliefHolds(q), UNCHANGED <<rec, erases>>,
         pc'[q] = pc[q], op'[q] = op[q], expected'[q] = expected[q],
         known'[q] = known[q], knownAt'[q] = knownAt[q]
  PROVE  BeliefHolds(q)'
  BY Zenon DEF BeliefHolds, Expects

\* A call that returns leaves only the belief in what was loaded.
LEMMA BeliefFinished ==
  ASSUME TypeOK, NEW p \in Procs, NEW r, Finish(p, r), UNCHANGED <<rec, erases>>,
         \A q \in Procs : BeliefHolds(q), UNCHANGED belief
  PROVE  \A q \in Procs : BeliefHolds(q)'
  <1> TAKE q \in Procs
  <1>1. UNCHANGED <<known, knownAt>> /\ BeliefHolds(q)
    BY Zenon DEF belief
  <1>2. CASE q = p
    BY <1>1, <1>2, Zenon DEF BeliefHolds, Finish, Goto, TypeOK
  <1>3. CASE q # p
    <2>1. pc'[q] = pc[q] /\ op'[q] = op[q] /\ expected'[q] = expected[q]
      BY <1>3, ZenonT(60) DEF Finish, Goto, TypeOK
    <2> QED
      BY <1>1, <2>1, BeliefFramed, Zenon
  <1> QED
    BY <1>2, <1>3, Zenon

\* Every step keeps what the callers believe.
LEMMA NextBeliefs == TypeOK /\ IInv /\ Beliefs /\ [Next]_vars => Beliefs'
  <1> SUFFICES ASSUME TypeOK, IInv, Beliefs, [Next]_vars PROVE Beliefs'
    BY Zenon
  <1> USE DEF disk, frame
  <1>0. /\ \A q \in Procs : BeliefHolds(q)
        /\ erases \in Nat /\ Version(rec) \in Nat
        /\ \A q \in Procs : Version(known[q]) \in Nat /\ knownAt[q] \in Nat
    BY Zenon DEF Beliefs, TypeOK, Record
  <1>1. ASSUME UNCHANGED disk, \A q \in Procs : BeliefHolds(q)' PROVE Beliefs'
    BY <1>1, Zenon DEF Beliefs, Numbered
  <1>2. ASSUME NEW p \in Procs, NEW r, Finish(p, r), UNCHANGED <<disk, belief>>
        PROVE  Beliefs'
    BY <1>0, <1>1, <1>2, BeliefFinished, Zenon
  <1>3. ASSUME NEW p \in Procs, UNCHANGED <<disk, belief>>, BeliefHolds(p)',
               \A q \in Procs \ {p} : /\ pc'[q] = pc[q] /\ op'[q] = op[q]
                                      /\ expected'[q] = expected[q]
        PROVE  Beliefs'
    BY <1>0, <1>1, <1>3, BeliefFramed, Zenon DEF belief
  <1>4. ASSUME NEW p \in Procs, NEW what \in Ops, Call(p, what) PROVE Beliefs'
    <2>1. /\ UNCHANGED <<disk, belief>> /\ pc'[p] \notin {"temp", "rename"}
          /\ expected'[p] = Version(known[p])
          /\ \A q \in Procs \ {p} : /\ pc'[q] = pc[q] /\ op'[q] = op[q]
                                    /\ expected'[q] = expected[q]
      BY <1>4, Zenon DEF Call, Goto, TypeOK
    <2>2. BeliefHolds(p)'
      BY <1>0, <2>1, Zenon DEF BeliefHolds, belief
    <2> QED
      BY <1>3, <2>1, <2>2, Zenon
  <1>5. ASSUME NEW p \in Procs, NEW v, op[p] = "put", PutExpects(p, v),
               UNCHANGED <<disk, belief>>
        PROVE  Beliefs'
    <2>1. /\ op'[p] = "put"
          /\ \A q \in Procs \ {p} : /\ pc'[q] = pc[q] /\ op'[q] = op[q]
                                    /\ expected'[q] = expected[q]
      BY <1>5, Zenon DEF PutExpects, Goto, TypeOK
    <2>2. BeliefHolds(p)'
      BY <1>0, <1>5, <2>1, Zenon DEF BeliefHolds, Expects, belief
    <2> QED
      BY <1>3, <1>5, <2>1, <2>2, Zenon
  <1>6. ASSUME NEW p \in Procs, Exists(p) PROVE Beliefs'
    <2>1. CASE Goto(p, "read") /\ UNCHANGED frame
      <3>1. UNCHANGED <<disk, belief>> /\ pc'[p] = "read"
            /\ \A q \in Procs \ {p} : /\ pc'[q] = pc[q] /\ op'[q] = op[q]
                                      /\ expected'[q] = expected[q]
        BY <1>6, <2>1, Zenon DEF Exists, Goto, TypeOK
      <3>2. BeliefHolds(p)'
        BY <1>0, <3>1, Zenon DEF BeliefHolds, belief
      <3> QED
        BY <1>3, <3>1, <3>2, Zenon
    <2> QED
      BY <1>2, <1>5, <1>6, <2>1, Zenon DEF Exists
  <1>7. ASSUME NEW p \in Procs, Read(p) PROVE Beliefs'
    <2>1. CASE Finish(p, "ok") /\ rec # Absent
               /\ known' = [known EXCEPT ![p] = rec]
               /\ knownAt' = [knownAt EXCEPT ![p] = erases]
      <3>1. /\ UNCHANGED disk /\ pc'[p] = "idle" /\ known'[p] = rec /\ knownAt'[p] = erases
            /\ \A q \in Procs \ {p} :
                 /\ pc'[q] = pc[q] /\ op'[q] = op[q] /\ expected'[q] = expected[q]
                 /\ known'[q] = known[q] /\ knownAt'[q] = knownAt[q]
        BY <1>7, <2>1, SMTT(30) DEF Read, Finish, Goto, TypeOK
      <3>2. rec.version \in Nat /\ erases \in Nat
        BY <2>1, Zenon DEF TypeOK, Record
      <3>3. BeliefHolds(p)'
        BY <3>1, <3>2, <2>1, SMTT(30) DEF BeliefHolds
      <3> QED
        BY <1>0, <1>1, <3>1, <3>3, BeliefFramed, ZenonT(60)
    <2> QED
      BY <1>2, <1>5, <1>7, <2>1, Zenon DEF Read
  <1>8. ASSUME NEW p \in Procs, Lock(p) PROVE Beliefs'
    <2>1. /\ UNCHANGED <<disk, belief>> /\ pc[p] = "lock" /\ pc'[p] \in {"remove", "check"}
          /\ op'[p] = op[p] /\ expected'[p] = expected[p]
          /\ \A q \in Procs \ {p} : /\ pc'[q] = pc[q] /\ op'[q] = op[q]
                                    /\ expected'[q] = expected[q]
      BY <1>8, Zenon DEF Lock, Goto, TypeOK
    <2>2. BeliefHolds(p)'
      BY <1>0, <2>1, ZenonT(60) DEF BeliefHolds, Expects, belief
    <2> QED
      BY <1>3, <2>1, <2>2, Zenon
  <1>9. ASSUME NEW p \in Procs, LockTimeout(p) \/ IoError(p) PROVE Beliefs'
    BY <1>2, <1>9, Zenon DEF LockTimeout, IoError
  <1>10. ASSUME NEW p \in Procs, Check(p) PROVE Beliefs'
    <2>1. CASE \E r : Finish(p, r)
      BY <1>2, <1>10, <2>1, Zenon DEF Check
    <2>2. CASE op[p] = "put" /\ Goto(p, "exists") /\ UNCHANGED <<op, expected>>
      <3>1. /\ UNCHANGED <<disk, belief>> /\ pc'[p] = "exists"
            /\ \A q \in Procs \ {p} : /\ pc'[q] = pc[q] /\ op'[q] = op[q]
                                      /\ expected'[q] = expected[q]
        BY <1>10, <2>2, Zenon DEF Check, Goto, TypeOK
      <3>2. BeliefHolds(p)'
        BY <1>0, <3>1, Zenon DEF BeliefHolds, belief
      <3> QED
        BY <1>3, <3>1, <3>2, Zenon
    <2>3. CASE VersionMatches(p) /\ Goto(p, "temp") /\ UNCHANGED <<op, expected>>
      <3>1. /\ UNCHANGED <<disk, belief>> /\ pc[p] = "check" /\ pc'[p] = "temp"
            /\ op'[p] = op[p] /\ expected'[p] = expected[p]
            /\ \A q \in Procs \ {p} : /\ pc'[q] = pc[q] /\ op'[q] = op[q]
                                      /\ expected'[q] = expected[q]
        BY <1>10, <2>3, Zenon DEF Check, Goto, TypeOK
      <3>2. BeliefHolds(p)'
        BY <1>0, <2>3, <3>1, Zenon DEF BeliefHolds, Expects, VersionMatches,
        belief
      <3> QED
        BY <1>3, <3>1, <3>2, Zenon
    <2> QED
      BY <1>10, <2>1, <2>2, <2>3, Zenon DEF Check, Conflict
  <1>11. ASSUME NEW p \in Procs, WriteTemporary(p) PROVE Beliefs'
    <2>1. /\ UNCHANGED <<disk, belief>> /\ pc[p] = "temp" /\ pc'[p] = "rename"
          /\ op'[p] = op[p] /\ expected'[p] = expected[p]
          /\ \A q \in Procs \ {p} : /\ pc'[q] = pc[q] /\ op'[q] = op[q]
                                    /\ expected'[q] = expected[q]
      BY <1>11, Zenon DEF WriteTemporary, Goto, TypeOK
    <2>2. BeliefHolds(p)'
      BY <1>0, <2>1, ZenonT(60) DEF BeliefHolds, Expects, belief
    <2> QED
      BY <1>3, <2>1, <2>2, ZenonT(60)
  <1>12. ASSUME NEW p \in Procs, Rename(p) PROVE Beliefs'
    <2>1. /\ rec' # Absent /\ rec'.version = Version(rec) + 1 /\ older' = older \cup {rec}
          /\ UNCHANGED <<erases, op, expected, belief>>
          /\ \A q \in Procs : pc'[q] = IF q = p THEN "sync" ELSE pc[q]
      BY <1>12, ZenonT(60) DEF Rename, Goto, TypeOK, IInv, LockProtects,
      MayFollow
    <2>2. \A q \in Procs \ {p} : pc[q] \notin LockedSteps
      BY <1>12, Zenon DEF Rename, IInv, LockProtects, LockedSteps
    <2>3. \A q \in Procs : pc'[q] \notin {"temp", "rename"}
      BY <2>1, <2>2, Zenon DEF LockedSteps
    <2>4. ASSUME NEW q \in Procs PROVE BeliefHolds(q)'
      <3>1. BeliefHolds(q) /\ UNCHANGED <<known, knownAt>>
        BY <1>0, <2>1, Zenon DEF belief
      <3>2. /\ known[q] # Absent => known[q].version \in Nat
            /\ rec # Absent => rec.version \in Nat
        BY Zenon DEF TypeOK, Record
      <3>3. known[q] # Absent /\ knownAt[q] = erases =>
              rec'.version >= known[q].version /\ rec'.version # known[q].version
        BY <2>1, <3>1, <3>2, SMTT(30) DEF BeliefHolds
      <3>4. pc'[q] \in {"lock", "check", "temp", "rename"} => pc'[q] = pc[q]
        BY <2>1, Zenon
      <3>5. Expects(q)' /\ pc'[q] \in {"lock", "check", "temp", "rename"}
              => expected'[q] = Version(known'[q])
        BY <2>1, <3>1, <3>4, ZenonT(60) DEF BeliefHolds, Expects
      <3>6. knownAt'[q] <= erases'
        BY <2>1, <3>1, Zenon DEF BeliefHolds
      <3> QED
        BY <2>1, <2>3, <3>1, <3>3, <3>5, <3>6, ZenonT(60) DEF BeliefHolds
    <2>5. Numbered'
      BY <1>0, <2>1, SMTT(30) DEF Beliefs, Numbered
    <2> QED
      BY <2>4, <2>5, Zenon DEF Beliefs
  <1>13. ASSUME NEW p \in Procs, SyncDirectory(p) PROVE Beliefs'
    <2>1. \A q \in Procs : BeliefHolds(q)'
      BY <1>0, <1>13, BeliefFinished, Zenon DEF SyncDirectory
    <2>2. Numbered'
      BY <1>13, ZenonT(60) DEF SyncDirectory, Beliefs, Numbered
    <2> QED
      BY <2>1, <2>2, Zenon DEF Beliefs
  <1>14. ASSUME NEW p \in Procs, Remove(p) PROVE Beliefs'
    <2>1. /\ rec' = Absent /\ older' = older \cup {rec} /\ erases' = erases + 1
          /\ UNCHANGED belief
          /\ \A q \in Procs : pc'[q] = IF q = p THEN "idle" ELSE pc[q]
          /\ \A q \in Procs \ {p} : op'[q] = op[q] /\ expected'[q] = expected[q]
      BY <1>14, ZenonT(60) DEF Remove, Finish, Goto, TypeOK
    <2>2. \A q \in Procs \ {p} : pc[q] \notin LockedSteps
      BY <1>14, Zenon DEF Remove, IInv, LockProtects, LockedSteps
    <2>3. \A q \in Procs : pc'[q] \notin {"temp", "rename"}
      BY <2>1, <2>2, Zenon DEF LockedSteps
    <2>4. ASSUME NEW q \in Procs PROVE BeliefHolds(q)'
      <3>1. BeliefHolds(q) /\ UNCHANGED <<known, knownAt>>
        BY <1>0, <2>1, Zenon DEF belief
      <3>2. knownAt[q] \in Nat /\ erases \in Nat
        BY Zenon DEF TypeOK
      <3>3. knownAt'[q] <= erases' /\ knownAt'[q] # erases'
        BY <2>1, <3>1, <3>2, SMTT(30) DEF BeliefHolds
      <3>4. Expects(q)' /\ pc'[q] \in {"lock", "check", "temp", "rename"}
              => expected'[q] = Version(known'[q])
        BY <2>1, <3>1, ZenonT(60) DEF BeliefHolds, Expects
      <3> QED
        BY <2>3, <3>3, <3>4, Zenon DEF BeliefHolds
    <2>5. Numbered'
      BY <2>1, Zenon DEF Beliefs, Numbered
    <2> QED
      BY <2>4, <2>5, Zenon DEF Beliefs
  <1>15. ASSUME NEW p \in Procs, Crash(p) PROVE Beliefs'
    <2>1. /\ UNCHANGED disk /\ pc'[p] = "idle" /\ known'[p] = Absent /\ knownAt'[p] = erases
          /\ \A q \in Procs \ {p} :
               /\ pc'[q] = pc[q] /\ op'[q] = op[q] /\ expected'[q] = expected[q]
               /\ known'[q] = known[q] /\ knownAt'[q] = knownAt[q]
      BY <1>15, SMTT(30) DEF Crash, Finish, Goto, TypeOK
    <2>2. BeliefHolds(p)'
      BY <1>0, <2>1, SMTT(30) DEF BeliefHolds
    <2> QED
      BY <1>0, <1>1, <2>1, <2>2, BeliefFramed, ZenonT(60)
  <1>16. CASE PowerLoss
    <2>1. Numbered'
      BY <1>16, Zenon DEF PowerLoss, Beliefs, Numbered
    <2>2. ASSUME NEW q \in Procs PROVE BeliefHolds(q)'
      <3>1. /\ pc'[q] = "idle" /\ known'[q] = Absent /\ knownAt'[q] = erases
            /\ UNCHANGED erases
        BY <1>16, Zenon DEF PowerLoss
      <3>2. erases \in Nat
        BY Zenon DEF TypeOK
      <3> QED
        BY <3>1, <3>2, SMTT(30) DEF BeliefHolds
    <2> QED
      BY <2>1, <2>2, Zenon DEF Beliefs
  <1>17. CASE UNCHANGED vars
    BY <1>0, <1>1, <1>17, BeliefFramed, ZenonT(60) DEF vars, belief
  <1> QED
    BY <1>4, <1>6, <1>7, <1>8, <1>9, <1>10, <1>11, <1>12, <1>13, <1>14, <1>15,
    <1>16, <1>17, Zenon DEF Next

\* A compare_exchange or claim that goes through replaces exactly the record
\* its caller had loaded, unless the record was erased in between.
THEOREM StoreReplaces == Spec => ReplacesWhatWasRead
  <1> DEFINE Replaces ==
        \A p \in Procs :
          /\ pc[p] = "rename" /\ pc'[p] = "sync"
          /\ op[p] \in {"compare_exchange", "claim"}
          => rec = known[p] \/ erases > knownAt[p]
  <1>1. Init => Beliefs
    BY SMTT(30) DEF Init, Beliefs, Numbered, BeliefHolds
  <1>2. Spec => [](TypeOK /\ IInv /\ Beliefs)
    BY <1>1, InitTypes, InitLocks, NextTypes, NextLocks, NextBeliefs, PTL DEF Spec
  <1>3. TypeOK /\ Beliefs => Replaces
    <2> SUFFICES ASSUME TypeOK, Beliefs, NEW p \in Procs, pc[p] = "rename", Expects(p)
                 PROVE  rec = known[p] \/ erases > knownAt[p]
      BY Zenon DEF Expects
    <2>1. BeliefHolds(p) /\ Version(rec) = Version(known[p])
      BY Zenon DEF Beliefs, BeliefHolds
    <2>2. erases \in Nat /\ knownAt[p] \in Nat
      BY Zenon DEF TypeOK
    <2>3. rec # Absent => rec.version >= 1
      BY Zenon DEF Beliefs, Numbered
    <2> QED
      BY <2>1, <2>2, <2>3, SMTT(30) DEF BeliefHolds
  <1> QED
    BY <1>2, <1>3, PTL DEF ReplacesWhatWasRead
=============================================================================
