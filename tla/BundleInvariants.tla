--------------------------- MODULE BundleInvariants ---------------------------
(***************************************************************************)
(* The inductive invariants of BundleRelease: CacheInv, of the cache and   *)
(* the deployment, and ResolverInv, of a resolution and its lock.  The     *)
(* theorems they serve are in BundleReleaseProofs.                         *)
(***************************************************************************)
EXTENDS BundleRelease, TLAPS

(* The cache, for threads of one process. *)

\* All threads that install belong to one process.
OneProcess == \A t, u \in Threads : ProcessOf[t] = ProcessOf[u]

\* The files in a directory, staging names and installs.
Directory == (SUBSET Files) \cup {Gone}
Names == Digests \X (1..MaxTemp)
Job == [pc : {"idle", "write", "publish", "clean", "done"}, digest : Digests \cup {Gone},
        name : Names \cup {Gone}, at : Nat, ok : BOOLEAN]
Busy == {"write", "publish", "clean"}

\* Types of the cache.
CacheTypes ==
    /\ target \in [Digests -> Directory] /\ staging \in [Names -> Directory]
    /\ nextTemp \in [Processes -> Nat \ {0}] /\ job \in [Threads -> Job]
    /\ gc = NoGc \/ (gc.digest \in Digests /\ gc.by \in Processes)

\* An install under way has a staging directory that no other thread has, under
\* a number already taken; what is about to be published is whole.
StagingInv ==
    \A t \in Threads : job[t].pc \in Busy =>
        /\ job[t].digest \in Digests /\ job[t].name \in Names
        /\ job[t].name[1] = job[t].digest /\ job[t].name[2] < nextTemp[ProcessOf[t]]
        /\ job[t].pc = "publish" => staging[job[t].name] = Files
        /\ \A u \in Threads : job[u].pc \in Busy /\ u # t => job[u].name # job[t].name

\* What an install says is there, or will say, is there.
AnswerInv ==
    \A t \in Threads :
        /\ job[t].pc = "done" => job[t].digest \in Digests
        /\ job[t].ok => job[t].pc \in {"clean", "done"} /\ target[job[t].digest] = Files

\* Installs belong to a deployment, the removal of an entry to a collection,
\* which passes over what the lockfile names.
HostInv ==
    /\ phase # "deploying" => \A t \in Threads : job[t].pc = "idle"
    /\ gc # NoGc => phase = "collecting" /\ gc.digest \in cut /\ gc.digest \notin lockfile
    /\ phase = "deploying" => LockDigests \subseteq Digests
    /\ phase = "deploying" => \A d \in installed : d \in Digests /\ target[d] = Files
    /\ lockfile \subseteq Digests

\* The inductive invariant of the cache and of the host.
CacheInv ==
    CacheTypes /\ StagingInv /\ AnswerInv /\ HostInv /\ CacheWhole /\ DeployedStaysWhole

\* An empty cache and an idle host satisfy the invariant.
LEMMA InitCache == Init => CacheInv
  <1> SUFFICES ASSUME Init PROVE CacheInv
    OBVIOUS
  <1> USE DEF Init, CacheInit
  <1>1. Idle \in Job /\ Idle.pc = "idle" /\ Idle.ok = FALSE
    BY SMT DEF Idle, Job
  <1>2. CacheTypes
    <2>1. 1 \in Nat \ {0}
      BY SMT
    <2> QED
      BY <1>1, <2>1, Zenon DEF CacheTypes, Directory, Names
  <1>3. StagingInv /\ AnswerInv /\ HostInv
    BY <1>1, Zenon DEF StagingInv, AnswerInv, HostInv, Busy
  <1>4. CacheWhole /\ DeployedStaysWhole
    BY Zenon DEF CacheWhole, DeployedStaysWhole
  <1> QED
    BY <1>2, <1>3, <1>4, Zenon DEF CacheInv

\* Resolution has no part in the cache.
LEMMA ResolverCache == CacheInv /\ UNCHANGED <<cacheVars, hostVars>> /\ phase = "free" => CacheInv'
  BY ZenonT(60) DEF CacheInv, CacheTypes, StagingInv, AnswerInv, HostInv, CacheWhole,
                    DeployedStaysWhole, cacheVars, hostVars, LockDigests

\* A thread that installs nothing.
LEMMA IdleJob == Idle \in Job /\ Idle.pc = "idle" /\ Idle.ok = FALSE
  BY SMT DEF Idle, Job

\* An install that has answered, and one that begins to write.
JobDone(d, ok) == [[Idle EXCEPT !.digest = d] EXCEPT !.pc = "done", !.ok = ok]
JobWrite(d, n) == [[Idle EXCEPT !.digest = d] EXCEPT !.pc = "write", !.name = n]

\* Fields of an answer.
LEMMA AnswerJob ==
    ASSUME NEW d \in Digests, NEW ok \in BOOLEAN
    PROVE  /\ JobDone(d, ok) \in Job /\ JobDone(d, ok).pc = "done"
           /\ JobDone(d, ok).digest = d /\ JobDone(d, ok).ok = ok
  BY Zenon, IdleJob DEF Idle, Job, JobDone

\* Fields of an install that begins.
LEMMA WriteJob ==
    ASSUME NEW d \in Digests, NEW n \in Names
    PROVE  /\ JobWrite(d, n) \in Job /\ JobWrite(d, n).pc = "write" /\ JobWrite(d, n).digest = d
           /\ JobWrite(d, n).name = n /\ JobWrite(d, n).ok = FALSE
  BY Zenon, IdleJob DEF Idle, Job, JobWrite

\* A thread that answers, takes its answer back or goes on with its install
\* disturbs no other: what the step of one install has to show.
LEMMA InstallStepCache ==
    ASSUME CacheInv, OneProcess, NEW t \in Threads, NEW j \in Job, phase = "deploying",
           job' = [job EXCEPT ![t] = j], UNCHANGED <<gc, crashes, hostVars, lock>>,
           target' \in [Digests -> Directory], staging' \in [Names -> Directory],
           nextTemp' \in [Processes -> Nat \ {0}],
           nextTemp'[ProcessOf[t]] >= nextTemp[ProcessOf[t]],
           \A d \in Digests : target[d] = Files => target'[d] = Files,
           \A u \in Threads : job[u].pc = "publish" /\ u # t =>
                staging'[job[u].name] = staging[job[u].name],
           j.pc = "done" => j.digest \in Digests,
           j.ok => j.pc \in {"clean", "done"} /\ target'[j.digest] = Files,
           j.pc \in Busy =>
               /\ j.digest \in Digests /\ j.name \in Names /\ j.name[1] = j.digest
               /\ j.name[2] < nextTemp'[ProcessOf[t]]
               /\ j.pc = "publish" => staging'[j.name] = Files
               /\ \A u \in Threads : job[u].pc \in Busy /\ u # t => job[u].name # j.name,
           CacheWhole'
    PROVE  CacheInv'
  <1> USE DEF CacheInv
  <1>0. job \in [Threads -> Job] /\ job' \in [Threads -> Job] /\ job'[t] = j
    BY Zenon DEF CacheTypes
  <1>1. \A u \in Threads \ {t} : job'[u] = job[u]
    BY Zenon DEF CacheTypes
  <1>2. CacheTypes'
    BY <1>0, Zenon DEF CacheTypes, hostVars
  <1>3. StagingInv'
    <2> SUFFICES ASSUME NEW u \in Threads, job'[u].pc \in Busy
                 PROVE  /\ job'[u].digest \in Digests /\ job'[u].name \in Names
                        /\ job'[u].name[1] = job'[u].digest
                        /\ job'[u].name[2] < nextTemp'[ProcessOf[u]]
                        /\ job'[u].pc = "publish" => staging'[job'[u].name] = Files
                        /\ \A v \in Threads : job'[v].pc \in Busy /\ v # u =>
                              job'[v].name # job'[u].name
      BY Zenon DEF StagingInv, Busy
    <2>1. CASE u = t
      BY <2>1, <1>0, <1>1, Zenon
    <2>2. CASE u # t
      <3>1. job'[u] = job[u] /\ job[u].pc \in Busy
        BY <2>2, <1>1, Zenon
      <3>2. /\ job[u].digest \in Digests /\ job[u].name \in Names
            /\ job[u].name[1] = job[u].digest /\ job[u].name[2] < nextTemp[ProcessOf[u]]
            /\ job[u].pc = "publish" => staging[job[u].name] = Files
            /\ \A v \in Threads : job[v].pc \in Busy /\ v # u => job[v].name # job[u].name
        BY <3>1, Zenon DEF StagingInv
      <3>3. ProcessOf[u] = ProcessOf[t] /\ ProcessOf[t] \in Processes
        BY Zenon DEF OneProcess, Processes
      <3>4. job[u].name[2] \in Nat
        BY <3>2, SMT DEF Names
      <3>5. job[u].name[2] < nextTemp'[ProcessOf[u]]
        BY <3>2, <3>3, <3>4, SMT DEF CacheTypes
      <3>6. \A v \in Threads : job'[v].pc \in Busy /\ v # u => job'[v].name # job[u].name
        BY <3>1, <3>2, <2>2, <1>0, <1>1, Zenon
      <3>7. job[u].pc = "publish" => staging'[job[u].name] = Files
        BY <3>2, <2>2, Zenon
      <3> QED
        BY <3>1, <3>2, <3>5, <3>6, <3>7, Zenon
    <2> QED
      BY <2>1, <2>2, Zenon
  <1>4. AnswerInv'
    <2> SUFFICES ASSUME NEW u \in Threads
                 PROVE  /\ job'[u].pc = "done" => job'[u].digest \in Digests
                        /\ job'[u].ok => /\ job'[u].pc \in {"clean", "done"}
                                         /\ target'[job'[u].digest] = Files
      BY Zenon DEF AnswerInv
    <2>1. CASE u = t
      BY <2>1, <1>0, Zenon
    <2>2. CASE u # t
      <3>1. job'[u] = job[u]
        BY <2>2, <1>1, Zenon
      <3>2. /\ job[u].pc = "done" => job[u].digest \in Digests
            /\ job[u].pc \in Busy => job[u].digest \in Digests
            /\ job[u].ok => job[u].pc \in {"clean", "done"} /\ target[job[u].digest] = Files
        BY Zenon DEF AnswerInv, StagingInv
      <3>3. job[u].ok => job[u].digest \in Digests
        BY <3>2, Zenon DEF Busy
      <3> QED
        BY <3>1, <3>2, <3>3, Zenon
    <2> QED
      BY <2>1, <2>2, Zenon
  <1>5. HostInv'
    BY ZenonT(60) DEF HostInv, hostVars, LockDigests
  <1>6. DeployedStaysWhole'
    BY Zenon DEF DeployedStaysWhole, HostInv, hostVars
  <1> QED
    BY <1>2, <1>3, <1>4, <1>5, <1>6, Zenon

\* install starts with a staging name that no thread has, or answers at once.
LEMMA InstallCache == CacheInv /\ OneProcess /\ Install => CacheInv'
  <1> SUFFICES ASSUME CacheInv, OneProcess, Install PROVE CacheInv'
    OBVIOUS
  <1> PICK t \in Threads, d \in LockDigests \ installed : InstallStart(t, d)
    BY Zenon DEF Install
  <1> USE DEF CacheInv
  <1> DEFINE p == ProcessOf[t]
             name == <<d, nextTemp[p]>>
             begun == [Idle EXCEPT !.digest = d]
  <1>1. phase = "deploying" /\ d \in Digests /\ UNCHANGED <<resolverVars, hostVars>>
    BY Zenon DEF HostInv, Install
  <1>2. UNCHANGED <<gc, crashes, hostVars, lock, target, cut>>
    BY <1>1, Zenon DEF InstallStart, resolverVars
  <1>3. CacheWhole' /\ target' \in [Digests -> Directory]
    BY <1>2, Zenon DEF CacheWhole, CacheTypes
  <1>4. p \in Processes /\ nextTemp[p] \in Nat \ {0}
    BY Zenon DEF Processes, CacheTypes
  <1>5. CASE target[d] # Gone
    <2>0. PICK ok \in BOOLEAN : ok = (target[d] = Files)
      BY Zenon
    <2> DEFINE j == JobDone(d, ok)
    <2>1. job' = [job EXCEPT ![t] = j] /\ UNCHANGED <<staging, nextTemp>>
      <3>1. j = [begun EXCEPT !.pc = "done", !.ok = target[d] = Files]
        BY <2>0, Zenon DEF JobDone
      <3> QED
        BY <1>5, <3>1, Zenon DEF InstallStart, Became
    <2>2. j \in Job /\ j.pc = "done" /\ j.digest = d /\ (j.ok => target[d] = Files)
      BY <1>1, <2>0, AnswerJob, Zenon
    <2>3. nextTemp'[p] >= nextTemp[p]
      BY <2>1, <1>4, SMT
    <2>4. staging' \in [Names -> Directory] /\ nextTemp' \in [Processes -> Nat \ {0}]
      BY <2>1, Zenon DEF CacheTypes
    <2>5. j.pc \notin Busy
      BY <2>2, Zenon DEF Busy
    <2> HIDE DEF j
    <2> QED
      BY <1>1, <1>2, <1>3, <2>1, <2>2, <2>3, <2>4, <2>5, InstallStepCache, Zenon
  <1>6. CASE target[d] = Gone
    <2> DEFINE j == JobWrite(d, name)
    <2>1. /\ job' = [job EXCEPT ![t] = j] /\ nextTemp[p] <= MaxTemp
          /\ staging' = [staging EXCEPT ![name] = IF @ = Gone THEN {} ELSE @]
          /\ nextTemp' = [nextTemp EXCEPT ![p] = @ + 1]
      BY <1>6, Zenon DEF InstallStart, Became, StagingName, JobWrite
    <2>2. name \in Names
      BY <2>1, <1>1, <1>4, CacheAssumption, SMT DEF Names
    <2>3. j \in Job /\ j.pc = "write" /\ j.digest = d /\ j.name = name /\ j.ok = FALSE
      BY <1>1, <2>2, WriteJob, ZenonT(60)
    <2>4. nextTemp'[p] = nextTemp[p] + 1
      BY <2>1, <1>4, Zenon DEF CacheTypes
    <2>5. nextTemp'[p] >= nextTemp[p] /\ name[2] < nextTemp'[p] /\ name[1] = d
      BY <2>4, <1>4, SMT
    <2>6. nextTemp[p] + 1 \in Nat \ {0}
      BY <1>4, SMT
    <2>7. nextTemp' \in [Processes -> Nat \ {0}]
      BY <2>1, <2>6, <1>4, Zenon DEF CacheTypes
    <2>8. staging' \in [Names -> Directory]
      BY <2>1, <2>2, Zenon DEF CacheTypes, Directory
    <2>9. ASSUME NEW u \in Threads, job[u].pc \in Busy, u # t
          PROVE  job[u].name \in Names /\ job[u].name # name
      <3>1. job[u].name \in Names /\ job[u].name[2] < nextTemp[ProcessOf[u]]
        BY <2>9, Zenon DEF StagingInv
      <3>2. ProcessOf[u] = p
        BY Zenon DEF OneProcess
      <3>3. job[u].name[2] < name[2]
        BY <3>1, <3>2, SMT
      <3> QED
        BY <3>1, <3>3, <1>4, SMT
    <2>10. \A u \in Threads : job[u].pc = "publish" /\ u # t =>
                staging'[job[u].name] = staging[job[u].name]
      BY <2>9, <2>1, Zenon DEF CacheTypes, Busy
    <2>11. \A u \in Threads : job[u].pc \in Busy /\ u # t => job[u].name # j.name
      BY <2>9, <2>3, Zenon
    <2> HIDE DEF j, name
    <2> QED
      BY <1>1, <1>2, <1>3, <2>1, <2>2, <2>3, <2>5, <2>7, <2>8, <2>10, <2>11, InstallStepCache, Zenon
  <1> QED
    BY <1>5, <1>6, Zenon

\* What a step of an install may rely on: its directory is its own.
LEMMA OwnStaging ==
    ASSUME CacheInv, NEW t \in Threads, job[t].pc \in Busy
    PROVE  /\ phase = "deploying" /\ gc = NoGc
           /\ job[t] \in Job /\ job[t].digest \in Digests /\ job[t].name \in Names
           /\ job[t].name[1] = job[t].digest
           /\ job[t].name[2] < nextTemp[ProcessOf[t]]
           /\ job[t].pc = "publish" => staging[job[t].name] = Files
           /\ nextTemp[ProcessOf[t]] \in Nat
           /\ target[job[t].digest] \in Directory /\ staging[job[t].name] \in Directory
           /\ \A u \in Threads : job[u].pc \in Busy /\ u # t => job[u].name # job[t].name
  <1> USE DEF CacheInv
  <1>1. phase = "deploying" /\ gc = NoGc
    BY Zenon DEF HostInv, Busy
  <1>2. ProcessOf[t] \in Processes
    BY Zenon DEF Processes
  <1>3. job[t] \in Job /\ nextTemp[ProcessOf[t]] \in Nat
    BY <1>2, Zenon DEF CacheTypes
  <1> QED
    BY <1>1, <1>3, Zenon DEF StagingInv, CacheTypes

\* The same for a step that leaves the targets alone and keeps its name.
LEMMA PrivateStepCache ==
    ASSUME CacheInv, OneProcess, NEW t \in Threads, job[t].pc \in Busy, NEW j \in Job,
           job' = [job EXCEPT ![t] = j],
           UNCHANGED <<target, nextTemp, gc, cut, crashes, hostVars, lock>>,
           NEW D \in Directory, staging' = [staging EXCEPT ![job[t].name] = D],
           j.digest = job[t].digest,
           j.pc \in Busy => j.name = job[t].name,
           j.ok => j.pc \in {"clean", "done"} /\ target[j.digest] = Files,
           j.pc = "publish" => D = Files
    PROVE  CacheInv'
  <1>1. /\ phase = "deploying" /\ job[t].digest \in Digests /\ job[t].name \in Names
        /\ job[t].name[1] = job[t].digest /\ job[t].name[2] < nextTemp[ProcessOf[t]]
        /\ nextTemp[ProcessOf[t]] \in Nat
        /\ \A u \in Threads : job[u].pc \in Busy /\ u # t => job[u].name # job[t].name
    BY OwnStaging, Zenon
  <1>2. nextTemp'[ProcessOf[t]] >= nextTemp[ProcessOf[t]]
    BY <1>1, SMT
  <1>3. staging \in [Names -> Directory] /\ staging'[job[t].name] = D
    BY <1>1, Zenon DEF CacheInv, CacheTypes
  <1>4. staging' \in [Names -> Directory]
    BY <1>1, <1>3, Zenon
  <1>5. \A u \in Threads : job[u].pc = "publish" /\ u # t =>
            staging'[job[u].name] = staging[job[u].name]
    <2> SUFFICES ASSUME NEW u \in Threads, job[u].pc = "publish", u # t
                 PROVE  staging'[job[u].name] = staging[job[u].name]
      OBVIOUS
    <2>1. job[u].pc \in Busy
      BY Zenon DEF Busy
    <2>2. job[u].name \in Names /\ job[u].name # job[t].name
      BY <2>1, <1>1, Zenon DEF CacheInv, StagingInv
    <2> QED
      BY <2>2, <1>3, Zenon
  <1>6. CacheWhole' /\ target' \in [Digests -> Directory] /\ nextTemp' \in [Processes -> Nat \ {0}]
    BY Zenon DEF CacheInv, CacheWhole, CacheTypes
  <1>7. \A u \in Threads : job[u].pc \in Busy /\ u # t => (j.pc \in Busy => job[u].name # j.name)
    BY <1>1, Zenon
  <1>8. j.pc \in Busy =>
               /\ j.digest \in Digests /\ j.name \in Names /\ j.name[1] = j.digest
               /\ j.name[2] < nextTemp'[ProcessOf[t]]
               /\ j.pc = "publish" => staging'[j.name] = Files
               /\ \A u \in Threads : job[u].pc \in Busy /\ u # t => job[u].name # j.name
    BY <1>1, <1>3, <1>7, Zenon
  <1>9. /\ j.pc = "done" => j.digest \in Digests
        /\ j.ok => j.pc \in {"clean", "done"} /\ target'[j.digest] = Files
        /\ \A d \in Digests : target[d] = Files => target'[d] = Files
        /\ UNCHANGED <<gc, crashes, hostVars, lock>>
    BY <1>1, Zenon
  <1> QED
    BY <1>1, <1>2, <1>4, <1>5, <1>6, <1>8, <1>9, InstallStepCache, Zenon

\* Fields of the answer of a thread.
LEMMA AnsweredJob ==
    ASSUME NEW t \in Threads, job[t].digest \in Digests, NEW ok \in BOOLEAN
    PROVE  /\ Answered(t, ok) \in Job /\ Answered(t, ok).pc = "done"
           /\ Answered(t, ok).digest = job[t].digest /\ Answered(t, ok).ok = ok
  BY Zenon, IdleJob DEF Idle, Job, Answered

\* Writing a file into the own staging directory.
LEMMA WriteFileCache ==
    ASSUME CacheInv, OneProcess, NEW t \in Threads, WriteFile(t), UNCHANGED <<resolverVars, hostVars>>
    PROVE  CacheInv'
  <1> DEFINE n == job[t].name
             dir == IF staging[n] = Gone THEN {} ELSE staging[n]
  <1>1. job[t].pc = "write" /\ job[t].pc \in Busy
    BY Zenon DEF WriteFile, Busy
  <1>2. /\ job[t] \in Job /\ job[t].digest \in Digests /\ n \in Names
        /\ staging[n] \in Directory
    BY <1>1, OwnStaging, Zenon
  <1>3. ~job[t].ok
    BY <1>1, Zenon DEF CacheInv, AnswerInv
  <1>4. UNCHANGED <<target, nextTemp, gc, cut, crashes, hostVars, lock>>
    BY Zenon DEF WriteFile, resolverVars
  <1>5. CASE job[t].at \notin dir
    <2> DEFINE j == [job[t] EXCEPT !.at = @ + 1]
               D == dir \cup {job[t].at}
    <2>1. job' = [job EXCEPT ![t] = j] /\ staging' = [staging EXCEPT ![n] = D]
      BY <1>5, Zenon DEF WriteFile, Became
    <2>2. job[t].at \in Files
      BY Zenon DEF WriteFile
    <2>3. D \in Directory
      BY <2>2, <1>2, Zenon DEF Directory
    <2>4. job[t].at + 1 \in Nat
      BY <1>2, SMT DEF Job
    <2>5. j \in Job /\ j.pc = "write" /\ j.digest = job[t].digest /\ j.name = n /\ j.ok = job[t].ok
      BY <2>4, <1>2, <1>1, Zenon DEF Job
    <2> HIDE DEF j, D
    <2> QED
      BY <1>1, <1>3, <1>4, <2>1, <2>3, <2>5, PrivateStepCache, Zenon
  <1>6. CASE job[t].at \in dir
    <2> DEFINE j == [job[t] EXCEPT !.pc = "clean"]
    <2>1. job' = [job EXCEPT ![t] = j] /\ staging' = staging
      BY <1>6, Zenon DEF WriteFile, Became
    <2>2. staging' = [staging EXCEPT ![n] = staging[n]]
      BY <2>1, <1>2, Zenon DEF CacheInv, CacheTypes
    <2>3. j \in Job /\ j.pc = "clean" /\ j.digest = job[t].digest /\ j.name = n /\ j.ok = job[t].ok
      BY <1>2, Zenon DEF Job
    <2> HIDE DEF j
    <2> QED
      BY <1>1, <1>2, <1>3, <1>4, <2>1, <2>2, <2>3, PrivateStepCache, ZenonT(60)
  <1> QED
    BY <1>5, <1>6, Zenon

\* Only a whole snapshot goes on to be published.
LEMMA VerifySnapshotCache ==
    ASSUME CacheInv, OneProcess, NEW t \in Threads, VerifySnapshot(t),
           UNCHANGED <<resolverVars, hostVars>>
    PROVE  CacheInv'
  <1> DEFINE n == job[t].name
             pc == IF staging[n] = Files THEN "publish" ELSE "clean"
             j == [job[t] EXCEPT !.pc = pc]
  <1>1. job[t].pc = "write" /\ job[t].pc \in Busy
    BY Zenon DEF VerifySnapshot, Busy
  <1>2. /\ job[t] \in Job /\ job[t].digest \in Digests /\ n \in Names
        /\ staging[n] \in Directory
    BY <1>1, OwnStaging, Zenon
  <1>3. ~job[t].ok
    BY <1>1, Zenon DEF CacheInv, AnswerInv
  <1>4. UNCHANGED <<target, nextTemp, gc, cut, crashes, hostVars, lock>>
    BY Zenon DEF VerifySnapshot, resolverVars
  <1>5. job' = [job EXCEPT ![t] = j] /\ staging' = staging
    BY Zenon DEF VerifySnapshot, Became
  <1>6. staging' = [staging EXCEPT ![n] = staging[n]]
    BY <1>5, <1>2, Zenon DEF CacheInv, CacheTypes
  <1>7. pc \in {"publish", "clean"} /\ (pc = "publish" => staging[n] = Files)
    BY SMT
  <1> HIDE DEF pc
  <1>8. j \in Job /\ j.pc = pc /\ j.digest = job[t].digest /\ j.name = n /\ j.ok = job[t].ok
    BY <1>2, <1>7, Zenon DEF Job
  <1> HIDE DEF j
  <1>9. /\ j.digest = job[t].digest /\ (j.pc \in Busy => j.name = job[t].name)
        /\ j.ok => j.pc \in {"clean", "done"} /\ target[j.digest] = Files
        /\ j.pc = "publish" => staging[n] = Files
    BY <1>3, <1>7, <1>8, Zenon
  <1> HIDE DEF n
  <1>10. staging' = [staging EXCEPT ![job[t].name] = staging[n]]
    BY <1>6, Zenon DEF n
  <1> QED
    BY <1>1, <1>2, <1>4, <1>5, <1>8, <1>9, <1>10, PrivateStepCache, Zenon

\* The staging directory is removed and the install answers.
LEMMA CleanCache ==
    ASSUME CacheInv, OneProcess, NEW t \in Threads, Clean(t), UNCHANGED <<resolverVars, hostVars>>
    PROVE  CacheInv'
  <1> DEFINE n == job[t].name
  <1>1. job[t].pc = "clean" /\ job[t].pc \in Busy
    BY Zenon DEF Clean, Busy
  <1>2. /\ job[t] \in Job /\ job[t].digest \in Digests /\ n \in Names
        /\ staging[n] \in Directory
    BY <1>1, OwnStaging, Zenon
  <1>3. job[t].ok \in BOOLEAN /\ (job[t].ok => target[job[t].digest] = Files)
    BY <1>2, Zenon DEF CacheInv, AnswerInv, Job
  <1>4. UNCHANGED <<target, nextTemp, gc, cut, crashes, hostVars, lock>>
    BY Zenon DEF Clean, resolverVars
  <1>5. CASE staging' = [staging EXCEPT ![n] = Gone] /\ Became(t, Answered(t, job[t].ok))
    <2> DEFINE j == Answered(t, job[t].ok)
    <2>1. j \in Job /\ j.pc = "done" /\ j.digest = job[t].digest /\ j.ok = job[t].ok
      BY <1>2, <1>3, AnsweredJob, Zenon
    <2>2. Gone \in Directory /\ job' = [job EXCEPT ![t] = j]
      BY <1>5, Zenon DEF Directory, Became
    <2>3. j.pc \notin Busy /\ j.pc # "publish"
      BY <2>1, Zenon DEF Busy
    <2> HIDE DEF j
    <2> QED
      BY <1>1, <1>3, <1>4, <1>5, <2>1, <2>2, <2>3, PrivateStepCache, Zenon
  <1>6. ASSUME staging[n] # Gone, NEW f \in staging[n],
               staging' = [staging EXCEPT ![n] = @ \ {f}], UNCHANGED job
        PROVE  CacheInv'
    <2> DEFINE D == staging[n] \ {f}
    <2>1. D \in Directory /\ staging' = [staging EXCEPT ![n] = D]
      BY <1>2, <1>6, Zenon DEF Directory, CacheInv, CacheTypes
    <2>2. job' = [job EXCEPT ![t] = job[t]]
      BY <1>6, Zenon DEF CacheInv, CacheTypes
    <2>3. /\ job[t].ok => job[t].pc \in {"clean", "done"} /\ target[job[t].digest] = Files
          /\ job[t].pc # "publish"
      BY <1>1, <1>3, Zenon
    <2> HIDE DEF D
    <2> QED
      BY <1>1, <1>2, <1>4, <2>1, <2>2, <2>3, PrivateStepCache, Zenon
  <1> QED
    BY <1>5, <1>6, Zenon DEF Clean

\* The rename puts a whole directory in place, or finds one.
LEMMA PublishDirectoryCache ==
    ASSUME CacheInv, OneProcess, NEW t \in Threads, PublishDirectory(t),
           UNCHANGED <<resolverVars, hostVars>>
    PROVE  CacheInv'
  <1> DEFINE n == job[t].name
             d == job[t].digest
  <1>1. job[t].pc = "publish" /\ job[t].pc \in Busy
    BY Zenon DEF PublishDirectory, Busy
  <1>2. /\ phase = "deploying" /\ job[t] \in Job /\ d \in Digests /\ n \in Names
        /\ staging[n] = Files /\ n[1] = d /\ n[2] < nextTemp[ProcessOf[t]]
        /\ nextTemp[ProcessOf[t]] \in Nat
        /\ \A u \in Threads : job[u].pc \in Busy /\ u # t => job[u].name # n
    BY <1>1, OwnStaging, Zenon
  <1>3. UNCHANGED <<nextTemp, gc, crashes, hostVars, lock>>
    BY Zenon DEF PublishDirectory, resolverVars
  <1>4. CASE target' = [target EXCEPT ![d] = staging[n]] /\ staging' = [staging EXCEPT ![n] = Gone]
             /\ cut' = cut \ {d} /\ Became(t, Answered(t, TRUE))
    <2> DEFINE j == Answered(t, TRUE)
    <2>1. j \in Job /\ j.pc = "done" /\ j.digest = d /\ j.ok = TRUE
      BY <1>2, AnsweredJob, Zenon
    <2>2. j.pc \notin Busy /\ job' = [job EXCEPT ![t] = j]
      BY <1>4, <2>1, Zenon DEF Busy, Became
    <2>3. target' \in [Digests -> Directory] /\ target'[d] = Files
      BY <1>2, <1>4, Zenon DEF CacheInv, CacheTypes, Directory
    <2>4. staging' \in [Names -> Directory]
      BY <1>2, <1>4, Zenon DEF CacheInv, CacheTypes, Directory
    <2>5. \A e \in Digests : e # d => target'[e] = target[e]
      BY <1>2, <1>4, Zenon DEF CacheInv, CacheTypes
    <2>6. CacheWhole' /\ \A e \in Digests : target[e] = Files => target'[e] = Files
      BY <2>3, <2>5, <1>4, Zenon DEF CacheInv, CacheWhole
    <2>7. ASSUME NEW u \in Threads, job[u].pc = "publish", u # t
          PROVE  staging'[job[u].name] = staging[job[u].name]
      <3>1. job[u].pc \in Busy
        BY <2>7, Zenon DEF Busy
      <3>2. job[u].name \in Names /\ job[u].name # n
        BY <3>1, <2>7, <1>2, Zenon DEF CacheInv, StagingInv
      <3> QED
        BY <3>2, <1>4, Zenon DEF CacheInv, CacheTypes
    <2>8. nextTemp'[ProcessOf[t]] >= nextTemp[ProcessOf[t]]
      BY <1>2, <1>3, SMT
    <2>9. nextTemp' \in [Processes -> Nat \ {0}]
      BY <1>3, Zenon DEF CacheInv, CacheTypes
    <2>10. /\ j.digest \in Digests
           /\ j.ok => j.pc \in {"clean", "done"} /\ target'[j.digest] = Files
      BY <1>2, <2>1, <2>3, Zenon
    <2> HIDE DEF j
    <2> QED
      BY <1>2, <1>3, <2>1, <2>2, <2>3, <2>4, <2>6, <2>7, <2>8, <2>9, <2>10, InstallStepCache, Zenon
  <1>5. CASE /\ Became(t, [job[t] EXCEPT !.pc = "clean", !.ok = target[d] = Files])
             /\ UNCHANGED <<target, staging, cut>>
    <2>0. PICK ok \in BOOLEAN : ok = (target[d] = Files)
      BY Zenon
    <2> DEFINE j == [job[t] EXCEPT !.pc = "clean", !.ok = ok]
    <2>1. job' = [job EXCEPT ![t] = j]
      BY <1>5, <2>0, Zenon DEF Became
    <2>2. j \in Job /\ j.pc = "clean" /\ j.digest = d /\ j.name = n /\ j.ok = ok
      BY <1>2, Zenon DEF Job
    <2>3. staging' = [staging EXCEPT ![n] = Files] /\ Files \in Directory
      BY <1>2, <1>5, Zenon DEF CacheInv, CacheTypes, Directory
    <2>4. /\ j.digest = job[t].digest /\ (j.pc \in Busy => j.name = job[t].name)
          /\ j.ok => j.pc \in {"clean", "done"} /\ target[j.digest] = Files
          /\ j.pc # "publish"
      BY <2>0, <2>2, Zenon
    <2> HIDE DEF j
    <2>5. /\ UNCHANGED <<target, nextTemp, gc, cut, crashes, hostVars, lock>>
          /\ staging' = [staging EXCEPT ![job[t].name] = Files]
      BY <1>3, <1>5, <2>3, Zenon
    <2> QED
      BY <1>1, <2>1, <2>2, <2>3, <2>4, <2>5, PrivateStepCache, Zenon
  <1> QED
    BY <1>4, <1>5, Zenon DEF PublishDirectory

\* The host hears an answer, which is true when it hears it.
LEMMA HearCache == CacheInv /\ Hear => CacheInv'
  <1> SUFFICES ASSUME CacheInv, Hear PROVE CacheInv'
    OBVIOUS
  <1> USE DEF CacheInv
  <1>1. PICK t \in Threads :
            /\ job[t].pc = "done"
            /\ installed' = IF job[t].ok THEN installed \cup {job[t].digest} ELSE installed
            /\ Became(t, Idle)
    BY Zenon DEF Hear
  <1>2. /\ phase = "deploying" /\ gc = NoGc
        /\ UNCHANGED <<lock, phase, lockfile, target, staging, nextTemp, gc, cut, crashes>>
    BY Zenon DEF Hear, HostInv, resolverVars
  <1>3. job' \in [Threads -> Job] /\ job'[t] = Idle /\ \A u \in Threads \ {t} : job'[u] = job[u]
    BY <1>1, IdleJob, Zenon DEF CacheTypes, Became
  <1>4. CacheTypes'
    BY <1>2, <1>3, Zenon DEF CacheTypes
  <1>5. ASSUME NEW u \in Threads, u # t \/ job'[u].pc # "idle" \/ job'[u].ok
        PROVE  u # t /\ job'[u] = job[u]
    BY <1>3, <1>5, IdleJob, Zenon
  <1>6. StagingInv'
    <2>1. \A u \in Threads : job'[u].pc \in Busy => job'[u].pc # "idle"
      BY Zenon DEF Busy
    <2>2. \A u \in Threads : job'[u].pc \in Busy => job'[u] = job[u] /\ job[u].pc \in Busy
      BY <2>1, <1>5, Zenon
    <2> SUFFICES ASSUME NEW u \in Threads, job'[u].pc \in Busy
                 PROVE  /\ job'[u].digest \in Digests /\ job'[u].name \in Names
                        /\ job'[u].name[1] = job'[u].digest
                        /\ job'[u].name[2] < nextTemp'[ProcessOf[u]]
                        /\ job'[u].pc = "publish" => staging'[job'[u].name] = Files
                        /\ \A v \in Threads : job'[v].pc \in Busy /\ v # u =>
                              job'[v].name # job'[u].name
      BY Zenon DEF StagingInv, Busy
    <2> QED
      BY <2>2, <1>2, ZenonT(60) DEF StagingInv
  <1>7. AnswerInv'
    BY <1>2, <1>5, Zenon DEF AnswerInv
  <1>8. \A d \in installed' : d \in Digests /\ target[d] = Files
    BY <1>1, <1>2, Zenon DEF HostInv, AnswerInv
  <1>9. HostInv'
    BY <1>2, <1>8, Zenon DEF HostInv, LockDigests
  <1>10. CacheWhole' /\ DeployedStaysWhole'
    BY <1>2, Zenon DEF CacheWhole, DeployedStaysWhole
  <1> QED
    BY <1>4, <1>6, <1>7, <1>9, <1>10, Zenon

\* The lockfile is replaced only when everything it names is installed.
LEMMA WriteLockfileCache == CacheInv /\ WriteLockfile => CacheInv'
  <1> SUFFICES ASSUME CacheInv, WriteLockfile PROVE CacheInv'
    OBVIOUS
  <1> USE DEF CacheInv
  <1>1. /\ phase = "deploying" /\ phase' = "free" /\ gc = NoGc
        /\ UNCHANGED <<lock, target, staging, nextTemp, job, gc, cut, crashes>>
        /\ \A t \in Threads : job[t].pc = "idle"
        /\ lockfile' = IF LockDigests \subseteq installed THEN LockDigests ELSE lockfile
    BY Zenon DEF WriteLockfile, HostInv, resolverVars, cacheVars
  <1>2. CacheTypes' /\ StagingInv' /\ AnswerInv' /\ CacheWhole'
    BY <1>1, Zenon DEF CacheTypes, StagingInv, AnswerInv, CacheWhole
  <1>3. \A d \in lockfile' : d \in Digests /\ target[d] = Files
    BY <1>1, Zenon DEF HostInv, DeployedStaysWhole
  <1>4. HostInv' /\ DeployedStaysWhole'
    BY <1>1, <1>3, Zenon DEF HostInv, DeployedStaysWhole
  <1> QED
    BY <1>2, <1>4, Zenon

\* A collection begins with an entry that no lockfile names.
LEMMA CollectCache == CacheInv /\ Collect => CacheInv'
  <1> SUFFICES ASSUME CacheInv, Collect PROVE CacheInv'
    OBVIOUS
  <1> USE DEF CacheInv
  <1>1. PICK p \in Processes : GcCandidate(p, lockfile)
    BY Zenon DEF Collect, Retained
  <1>2. PICK d \in Digests \ lockfile : gc' = [digest |-> d, by |-> p] /\ cut' = cut \cup {d}
    BY <1>1, Zenon DEF GcCandidate
  <1>3. /\ phase # "deploying" /\ phase' = "collecting"
        /\ UNCHANGED <<lock, lockfile, installed, target, staging, nextTemp, job, crashes>>
    BY <1>1, Zenon DEF Collect, GcCandidate, resolverVars
  <1>4. gc'.digest = d /\ gc'.by = p
    BY <1>2, Zenon
  <1>5. CacheTypes' /\ StagingInv' /\ AnswerInv'
    BY <1>3, <1>4, Zenon DEF CacheTypes, StagingInv, AnswerInv
  <1>6. HostInv'
    BY <1>2, <1>3, <1>4, Zenon DEF HostInv
  <1>7. CacheWhole' /\ DeployedStaysWhole'
    BY <1>2, <1>3, Zenon DEF CacheWhole, DeployedStaysWhole
  <1> QED
    BY <1>5, <1>6, <1>7, Zenon

\* Files go from an entry that no lockfile names.
LEMMA CollectStepCache == CacheInv /\ CollectStep => CacheInv'
  <1> SUFFICES ASSUME CacheInv, CollectStep PROVE CacheInv'
    OBVIOUS
  <1> USE DEF CacheInv
  <1> DEFINE d == gc.digest
  <1>1. /\ gc # NoGc /\ phase = "collecting" /\ d \in cut /\ d \notin lockfile
        /\ d \in Digests /\ phase' \in {"free", "collecting"} /\ (gc' # NoGc => phase' = phase)
        /\ UNCHANGED <<lock, lockfile, installed, staging, nextTemp, job, crashes>>
    BY Zenon DEF CollectStep, GcRemove, HostInv, CacheTypes, resolverVars
  <1>2. PICK D \in Directory : /\ target' = [target EXCEPT ![d] = D]
                               /\ \/ D = Gone /\ cut' = cut \ {d} /\ gc' = NoGc
                                  \/ UNCHANGED <<gc, cut>>
    <2>1. CASE target' = [target EXCEPT ![d] = Gone] /\ cut' = cut \ {d} /\ gc' = NoGc
      BY <2>1, Zenon DEF Directory
    <2>2. ASSUME target[d] # Gone, NEW f \in target[d], target' = [target EXCEPT ![d] = @ \ {f}],
                 UNCHANGED <<gc, cut>>
          PROVE  \E D \in Directory : /\ target' = [target EXCEPT ![d] = D]
                               /\ \/ D = Gone /\ cut' = cut \ {d} /\ gc' = NoGc
                                  \/ UNCHANGED <<gc, cut>>
      <3>1. target[d] \ {f} \in Directory
        BY <1>1, <2>2, Zenon DEF CacheTypes, Directory
      <3>2. target' = [target EXCEPT ![d] = target[d] \ {f}]
        BY <1>1, <2>2, Zenon DEF CacheTypes
      <3> QED
        BY <3>1, <3>2, <2>2, Zenon
    <2> QED
      BY <2>1, <2>2, Zenon DEF CollectStep, GcRemove
  <1>3. /\ target' \in [Digests -> Directory] /\ target'[d] = D
        /\ \A e \in Digests : e # d => target'[e] = target[e]
    BY <1>1, <1>2, Zenon DEF CacheTypes
  <1>4. \A t \in Threads : job[t].pc = "idle" /\ ~job[t].ok
    BY <1>1, Zenon DEF HostInv, AnswerInv
  <1>5. CacheTypes' /\ StagingInv' /\ AnswerInv'
    BY <1>1, <1>2, <1>3, <1>4, Zenon DEF CacheTypes, StagingInv, AnswerInv, Busy
  <1>6. HostInv'
    BY <1>1, <1>2, <1>4, Zenon DEF HostInv
  <1>7. CacheWhole' /\ DeployedStaysWhole'
    BY <1>1, <1>2, <1>3, Zenon DEF CacheWhole, DeployedStaysWhole, HostInv
  <1> QED
    BY <1>5, <1>6, <1>7, Zenon

\* A crash ends installs and collection; what was published stays.
LEMMA CrashCache == CacheInv /\ OneProcess /\ Crash => CacheInv'
  <1> SUFFICES ASSUME CacheInv, OneProcess, Crash PROVE CacheInv'
    OBVIOUS
  <1> USE DEF CacheInv
  <1>1. PICK p \in Processes : CacheCrash(p)
    BY Zenon DEF Crash
  <1>2. \A q \in Processes : q = p
    <2>1. PICK u \in Threads : p = ProcessOf[u]
      BY <1>1, Zenon DEF Processes
    <2>2. \A t \in Threads : ProcessOf[t] = p
      BY <2>1, Zenon DEF OneProcess
    <2> QED
      BY <2>2, Zenon DEF Processes
  <1>3. job' = [t \in Threads |-> Idle]
    BY <1>1, <1>2, Zenon DEF CacheCrash, Processes
  <1>4. gc' = NoGc
    BY <1>1, <1>2, Zenon DEF CacheCrash, CacheTypes
  <1>5. phase' = "free" /\ UNCHANGED <<lock, lockfile, target, staging, cut>>
    BY <1>1, <1>4, Zenon DEF Crash, CacheCrash, resolverVars
  <1>6. nextTemp' \in [Processes -> Nat \ {0}]
    <2>1. 1 \in Nat \ {0}
      BY SMT
    <2> QED
      BY <2>1, <1>1, Zenon DEF CacheCrash, CacheTypes
  <1>7. \A t \in Threads : job'[t] \in Job /\ job'[t].pc = "idle" /\ ~job'[t].ok
    BY <1>3, IdleJob, Zenon
  <1>8. CacheTypes' /\ StagingInv' /\ AnswerInv'
    BY <1>3, <1>4, <1>5, <1>6, <1>7, Zenon DEF CacheTypes, StagingInv, AnswerInv, Busy
  <1>9. HostInv' /\ CacheWhole' /\ DeployedStaysWhole'
    BY <1>4, <1>5, <1>7, Zenon DEF HostInv, CacheWhole, DeployedStaysWhole
  <1> QED
    BY <1>8, <1>9, Zenon
-----------------------------------------------------------------------------
(* The resolver. *)

\* Every Bundle that the repository may ever hold.
Published == InitialBundles \cup LaterBundles

(* A resolution is followed by two functions: T[v][i] is the length of the *)
(* order when visit of v takes up its i-th dependency, P[v] the place of v *)
(* in the order.                                                           *)

\* The i-th dependency of v is in the order and agrees with its constraint; it
\* was there when v came to it, or was visited then and there.
Taken(sel, ord, T, P, v, i) ==
    LET d == sel[v].deps[i].id
    IN /\ d \in DOMAIN sel /\ P[d] \in DOMAIN ord /\ ord[P[d]] = d
       /\ Satisfies(sel[d].version, sel[v].deps[i].constraint)
       /\ \/ P[d] <= T[v][i] /\ T[v][i + 1] = T[v][i]
          \/ T[d][1] = T[v][i] /\ T[v][i + 1] = P[d]

\* A call of visit for v that has come to dependency n.
Frame(sel, ord, T, P, v, n) ==
    /\ n \in 1..(Len(sel[v].deps) + 1)
    /\ \A i \in 1..n : T[v][i] <= T[v][n]
    /\ T[v][n] <= Len(ord)
    /\ \A i \in 1..(n - 1) : Taken(sel, ord, T, P, v, i)

\* A call of visit that has returned: all dependencies taken, v next in the order.
Finished(sel, ord, T, P, v) ==
    /\ P[v] \in DOMAIN ord /\ ord[P[v]] = v /\ P[v] = T[v][Len(sel[v].deps) + 1] + 1
    /\ Frame(sel, ord, T, P, v, Len(sel[v].deps) + 1)

\* A Bundle is selected under its own id; the root is the host's, the others were
\* published.
Selection(sel) ==
    \A id \in DOMAIN sel :
        /\ sel[id].id = id /\ sel[id].deps \in Seq(Range(sel[id].deps))
        /\ IF id = RootBundle.id THEN sel[id] = RootBundle ELSE sel[id] \in Published

\* T and P describe this selection and this order.
Times(sel, ord, T, P) ==
    /\ Selection(sel) /\ RootBundle.id \in DOMAIN sel /\ ord \in Seq(DOMAIN sel)
    /\ T \in [DOMAIN sel -> [Nat -> Nat]] /\ P \in [DOMAIN sel -> Nat]
    /\ \A p \in DOMAIN ord : P[ord[p]] = p
    /\ T[RootBundle.id][1] = 0

\* The graph that resolve returns: every visit is over, the root's last of all.
Complete(sel, ord, T, P) ==
    /\ Times(sel, ord, T, P) /\ P[RootBundle.id] = Len(ord)
    /\ \A v \in DOMAIN sel : Finished(sel, ord, T, P, v)

\* The call waits for the visit of d, its next dependency.
Pending(sel, T, call, d) ==
    /\ call.next \in 1..Len(sel[call.id].deps) /\ sel[call.id].deps[call.next].id = d
    /\ Satisfies(sel[d].version, sel[call.id].deps[call.next].constraint)
    /\ T[d][1] = T[call.id][call.next]

\* A resolution under way: the calls on the stack wait for each other, from the root
\* up, and every other selected Bundle has been visited.
Visiting(sel, ord, st, T, P) ==
    /\ Times(sel, ord, T, P)
    /\ st \in Seq([id : DOMAIN sel, next : Nat]) /\ st # <<>> /\ st[1].id = RootBundle.id
    /\ \A j, k \in DOMAIN st : st[j].id = st[k].id => j = k
    /\ \A k \in DOMAIN st : Frame(sel, ord, T, P, st[k].id, st[k].next)
    /\ \A v \in DOMAIN sel :
         (\E k \in DOMAIN st : st[k].id = v) \/ Finished(sel, ord, T, P, v)
    /\ \A k \in DOMAIN st : \A p \in DOMAIN ord : ord[p] # st[k].id
    /\ T[st[Len(st)].id][st[Len(st)].next] = Len(ord)
    /\ \A k \in 1..(Len(st) - 1) : Pending(sel, T, st[k], st[k + 1].id)

\* Numbers below a height: the calls under the top of the stack.
LEMMA Below ==
    ASSUME NEW h \in Nat
    PROVE  /\ \A k \in 1..(h - 1) : k \in 1..h /\ k # h /\ k + 1 \in 1..h
           /\ \A k \in 1..h : k = h \/ k \in 1..(h - 1)
           /\ h # 0 /\ h # 1 => h > 1 /\ h - 1 # 0 /\ h - 1 \in Nat
  BY SMT

\* Arithmetic on places and indices, once for all the proofs.
LEMMA Counting ==
    /\ 1 \in Nat /\ 0 \in Nat
    /\ \A x \in Nat : x \in Int /\ x <= x /\ x + 1 \in Nat /\ x <= x + 1 /\ x < x + 1 /\ 0 <= x
    /\ \A x \in Nat : x # x + 1
    /\ \A x, y \in Nat : x <= y => x <= y + 1
    /\ \A n \in Nat : n # 0 => 1 \in 1..n /\ n \in 1..n
    /\ \A n \in Nat : \A i \in 1..n : i \in Nat /\ i <= n /\ i # n + 1 /\ i \in 1..(n + 1)
    /\ \A n \in Nat : n + 1 \in 1..(n + 1)
    /\ \A n \in Nat : \A i \in 1..(n + 1) : i \in Nat /\ (i \in 1..n \/ i = n + 1)
    /\ \A n \in Nat : \A i \in 1..((n + 1) - 1) : i = n \/ i \in 1..(n - 1)
    /\ \A m \in Nat : \A n \in 1..m : n + 1 \in 1..(m + 1) /\ n + 1 # 1
    /\ \A m \in Nat : \A n \in 1..(m + 1) : n \in 1..m \/ n = m + 1
  BY SMT

\* Length, domain and elements of a sequence.
LEMMA SeqBasics ==
    /\ Len(<<>>) = 0 /\ DOMAIN <<>> = {}
    /\ \A S : \A s \in Seq(S) :
         /\ Len(s) \in Nat /\ DOMAIN s = 1..Len(s) /\ \A k \in 1..Len(s) : s[k] \in S
         /\ s # <<>> => Len(s) # 0
  <1>1. Len(<<>>) = 0 /\ DOMAIN <<>> = {}
    BY SMT
  <1>2. ASSUME NEW S, NEW s \in Seq(S)
        PROVE  /\ Len(s) \in Nat /\ DOMAIN s = 1..Len(s) /\ \A k \in 1..Len(s) : s[k] \in S
               /\ s # <<>> => Len(s) # 0
    BY SMT
  <1> QED
    BY <1>1, <1>2, Zenon

\* Order is transitive.
LEMMA LessTransitive ==
    ASSUME NEW a \in Int, NEW b \in Int, NEW c \in Int, a <= b, b <= c PROVE a <= c
  BY SMT

\* What a call has done stays done when the graph and the order grow.
Grows(sel, ord, T, P, sel2, ord2, T2, P2) ==
    /\ DOMAIN sel \subseteq DOMAIN sel2 /\ DOMAIN ord \subseteq DOMAIN ord2
    /\ Len(ord) \in Nat /\ Len(ord2) \in Nat /\ Len(ord) <= Len(ord2)
    /\ \A d \in DOMAIN sel :
         /\ T[d] \in [Nat -> Nat] /\ Len(sel[d].deps) \in Nat
         /\ sel2[d] = sel[d] /\ T2[d][1] = T[d][1]
    /\ \A p \in DOMAIN ord : ord2[p] = ord[p] /\ P2[ord[p]] = P[ord[p]]

\* A call that had come to dependency n still has.
LEMMA FrameStays ==
    ASSUME NEW sel, NEW ord, NEW T, NEW P, NEW sel2, NEW ord2, NEW T2, NEW P2, NEW v, NEW n,
           Frame(sel, ord, T, P, v, n), Grows(sel, ord, T, P, sel2, ord2, T2, P2),
           v \in DOMAIN sel, \A i \in 1..n : T2[v][i] = T[v][i]
    PROVE  Frame(sel2, ord2, T2, P2, v, n)
  <1> USE DEF Grows
  <1>1. sel2[v] = sel[v] /\ n \in 1..(Len(sel[v].deps) + 1)
    BY Zenon DEF Frame
  <1>2. n \in Nat \ {0} /\ n \in 1..n /\ n \in Nat
    BY <1>1, SMT
  <1>3. \A i \in 1..n : T2[v][i] <= T2[v][n]
    BY <1>2, Zenon DEF Frame
  <1>4. T2[v][n] <= Len(ord2)
    <2>1. T[v][n] <= Len(ord) /\ T2[v][n] = T[v][n]
      BY <1>2, Zenon DEF Frame
    <2>2. T[v][n] \in Nat
      BY <1>2, Zenon
    <2>3. \A x \in Nat : x \in Int
      BY SMT
    <2> QED
      BY <2>1, <2>2, <2>3, LessTransitive, Zenon
  <1>5. ASSUME NEW i \in 1..(n - 1) PROVE Taken(sel2, ord2, T2, P2, v, i)
    <2> DEFINE d == sel[v].deps[i].id
    <2>1. /\ d \in DOMAIN sel /\ P[d] \in DOMAIN ord /\ ord[P[d]] = d
          /\ Satisfies(sel[d].version, sel[v].deps[i].constraint)
          /\ \/ P[d] <= T[v][i] /\ T[v][i + 1] = T[v][i]
             \/ T[d][1] = T[v][i] /\ T[v][i + 1] = P[d]
      BY Zenon DEF Frame, Taken
    <2>2. i \in 1..n /\ i + 1 \in 1..n
      BY <1>2, SMT
    <2>3. T2[v][i] = T[v][i] /\ T2[v][i + 1] = T[v][i + 1] /\ T2[d][1] = T[d][1]
      BY <2>1, <2>2, Zenon
    <2>4. P2[d] = P[d] /\ ord2[P[d]] = d /\ P[d] \in DOMAIN ord2 /\ sel2[d] = sel[d]
          /\ d \in DOMAIN sel2
      <3>1. ord2[P[d]] = ord[P[d]] /\ P2[ord[P[d]]] = P[ord[P[d]]]
        BY <2>1, Zenon
      <3> QED
        BY <3>1, <2>1, Zenon
    <2> QED
      BY <1>1, <2>1, <2>3, <2>4, ZenonT(60) DEF Taken
  <1> QED
    BY <1>1, <1>3, <1>4, <1>5, Zenon DEF Frame

\* A visit that was over still is.
LEMMA FinishedStays ==
    ASSUME NEW sel, NEW ord, NEW T, NEW P, NEW sel2, NEW ord2, NEW T2, NEW P2, NEW v,
           Finished(sel, ord, T, P, v), Grows(sel, ord, T, P, sel2, ord2, T2, P2),
           v \in DOMAIN sel, T2[v] = T[v]
    PROVE  Finished(sel2, ord2, T2, P2, v)
  <1> DEFINE n == Len(sel[v].deps) + 1
  <1>1. P[v] \in DOMAIN ord /\ ord[P[v]] = v /\ P[v] = T[v][n] + 1 /\ Frame(sel, ord, T, P, v, n)
    BY Zenon DEF Finished
  <1>2. ord2[P[v]] = ord[P[v]] /\ P2[ord[P[v]]] = P[ord[P[v]]]
    BY <1>1, Zenon DEF Grows
  <1>3. P2[v] = P[v] /\ ord2[P[v]] = v /\ P[v] \in DOMAIN ord2 /\ sel2[v] = sel[v]
    BY <1>1, <1>2, Zenon DEF Grows
  <1>4. \A i \in 1..n : T2[v][i] = T[v][i]
    BY Zenon
  <1> HIDE DEF n
  <1>5. Frame(sel2, ord2, T2, P2, v, n)
    BY <1>1, <1>4, FrameStays, Zenon
  <1> QED
    BY <1>1, <1>3, <1>5, Zenon DEF Finished, n

\* One more time of one call, which leaves the others as they are.
Retimed(D, T, T2, v, n, c) ==
    /\ T2 \in [D -> [Nat -> Nat]] /\ T2[v][n] = c
    /\ \A x \in D : \A i \in Nat : x # v \/ i # n => T2[x][i] = T[x][i]
    /\ \A x \in D : x # v => T2[x] = T[x]

\* A time can be written down without changing another.
LEMMA Recorded ==
    ASSUME NEW D, NEW T \in [D -> [Nat -> Nat]], NEW v \in D, NEW n \in Nat, NEW c \in Nat
    PROVE  \E T2 : Retimed(D, T, T2, v, n, c)
  <1> DEFINE row == [T[v] EXCEPT ![n] = c]
             T2 == [T EXCEPT ![v] = row]
  <1>1. row \in [Nat -> Nat] /\ row[n] = c /\ \A i \in Nat : i # n => row[i] = T[v][i]
    BY Zenon
  <1> HIDE DEF row
  <1>2. T2 \in [D -> [Nat -> Nat]] /\ T2[v] = row /\ \A x \in D : x # v => T2[x] = T[x]
    BY <1>1, Zenon
  <1> HIDE DEF T2
  <1>3. Retimed(D, T, T2, v, n, c)
    BY <1>1, <1>2, Zenon DEF Retimed
  <1> QED
    BY <1>3, Zenon

\* st2 is st with c on top.
Pushed(S, st, c, st2) ==
    /\ st2 \in Seq(S) /\ st2 # <<>>
    /\ Len(st2) = Len(st) + 1 /\ DOMAIN st2 = 1..(Len(st) + 1)
    /\ \A k \in 1..Len(st) : st2[k] = st[k]
    /\ st2[Len(st) + 1] = c

\* Append pushes: a call on the stack, a Bundle at the end of the order.
LEMMA AppendPushes ==
    ASSUME NEW S, NEW st \in Seq(S), NEW c \in S PROVE Pushed(S, st, c, Append(st, c))
  BY SMT DEF Pushed

\* Continued moves the top call to its next dependency and nothing else.
LEMMA ContinuedStack ==
    ASSUME NEW D, NEW st \in Seq([id : D, next : Nat]), st # <<>>
    PROVE  /\ Continued(st) \in Seq([id : D, next : Nat]) /\ Continued(st) # <<>>
           /\ Len(st) \in Nat \ {0} /\ Len(Continued(st)) = Len(st)
           /\ DOMAIN st = 1..Len(st) /\ DOMAIN Continued(st) = 1..Len(st)
           /\ \A k \in 1..(Len(st) - 1) : Continued(st)[k] = st[k]
           /\ Continued(st)[Len(st)].id = st[Len(st)].id
           /\ Continued(st)[Len(st)].next = st[Len(st)].next + 1
  <1> DEFINE h == Len(st)
             c == [st[h] EXCEPT !.next = @ + 1]
  <1>1. h \in Nat \ {0} /\ DOMAIN st = 1..h /\ h \in 1..h
    BY SMT
  <1>2. st[h] \in [id : D, next : Nat]
    BY <1>1, SeqBasics, Zenon
  <1>3. c \in [id : D, next : Nat] /\ c.id = st[h].id /\ c.next = st[h].next + 1
    BY <1>2, SMT
  <1>4. Continued(st) = [st EXCEPT ![h] = c]
    BY <1>1, Zenon DEF Continued
  <1> HIDE DEF c
  <1>5. [st EXCEPT ![h] = c] \in Seq([id : D, next : Nat]) /\ Len([st EXCEPT ![h] = c]) = h
    BY <1>1, <1>3, SMT
  <1>6. /\ DOMAIN [st EXCEPT ![h] = c] = 1..h /\ [st EXCEPT ![h] = c][h] = c
        /\ \A k \in 1..h : k # h => [st EXCEPT ![h] = c][k] = st[k]
    BY <1>1, Zenon
  <1>8. \A k \in 1..(h - 1) : k \in 1..h /\ k # h
    BY <1>1, Below, Zenon
  <1>7. Continued(st) # <<>>
    BY <1>1, <1>4, <1>5, SMT
  <1>9. /\ DOMAIN Continued(st) = 1..h /\ Continued(st)[h] = c
        /\ \A k \in 1..(h - 1) : Continued(st)[k] = st[k]
    BY <1>4, <1>6, <1>8, Zenon
  <1>10. Continued(st) \in Seq([id : D, next : Nat]) /\ Len(Continued(st)) = h
    BY <1>4, <1>5, Zenon
  <1> QED
    BY <1>1, <1>3, <1>7, <1>9, <1>10, Zenon

\* What a return leaves of the stack.
LEMMA Popped ==
    ASSUME NEW S, NEW st \in Seq(S), Len(st) # 1, st # <<>>
    PROVE  /\ SubSeq(st, 1, Len(st) - 1) \in Seq(S) /\ SubSeq(st, 1, Len(st) - 1) # <<>>
           /\ Len(st) \in Nat /\ Len(st) > 1 /\ DOMAIN st = 1..Len(st)
           /\ Len(SubSeq(st, 1, Len(st) - 1)) = Len(st) - 1
           /\ \A k \in 1..(Len(st) - 1) : SubSeq(st, 1, Len(st) - 1)[k] = st[k]
  <1>1. Len(st) \in Nat /\ Len(st) > 1 /\ DOMAIN st = 1..Len(st)
    BY SeqBasics, Below, Zenon
  <1>2. \A k \in 1..(Len(st) - 1) : st[k] \in S
    <2>1. \A k \in 1..(Len(st) - 1) : k \in 1..Len(st)
      BY <1>1, SMT
    <2> QED
      BY <2>1, SeqBasics, Zenon
  <1>3. Len(SubSeq(st, 1, Len(st) - 1)) = Len(st) - 1
    BY <1>1, SMT
  <1>4. SubSeq(st, 1, Len(st) - 1) \in Seq(S)
    BY <1>1, <1>2, SMT
  <1>5. \A k \in 1..(Len(st) - 1) : SubSeq(st, 1, Len(st) - 1)[k] = st[k]
    BY <1>1, SMT
  <1>6. SubSeq(st, 1, Len(st) - 1) # <<>>
    <2>1. Len(st) - 1 # 0
      BY <1>1, SMT
    <2> QED
      BY <2>1, <1>3, SeqBasics, Zenon
  <1> QED
    BY <1>1, <1>3, <1>4, <1>5, <1>6, Zenon

\* A dependency taken brings the call to the next one.
LEMMA FrameNext ==
    ASSUME NEW sel, NEW ord, NEW T, NEW P, NEW v, NEW n \in Nat,
           Frame(sel, ord, T, P, v, n), Taken(sel, ord, T, P, v, n),
           Len(sel[v].deps) \in Nat, n \in 1..Len(sel[v].deps), T[v] \in [Nat -> Nat],
           T[v][n] <= T[v][n + 1], T[v][n + 1] <= Len(ord)
    PROVE  Frame(sel, ord, T, P, v, n + 1)
  <1>1. n + 1 \in 1..(Len(sel[v].deps) + 1) /\ n + 1 \in Nat /\ \A x \in Nat : x \in Int
    BY Counting, Zenon
  <1>2. ASSUME NEW i \in 1..(n + 1) PROVE T[v][i] <= T[v][n + 1]
    <2>1. i \in Nat /\ (i \in 1..n \/ i = n + 1)
      BY Counting, Zenon
    <2>2. T[v][i] \in Nat /\ T[v][n] \in Nat /\ T[v][n + 1] \in Nat
      BY <1>1, <2>1, Zenon
    <2>3. CASE i \in 1..n
      BY <1>1, <2>2, <2>3, LessTransitive, Zenon DEF Frame
    <2>4. CASE i = n + 1
      BY <2>2, <2>4, Counting, Zenon
    <2> QED
      BY <2>1, <2>3, <2>4, Zenon
  <1>3. \A i \in 1..((n + 1) - 1) : i = n \/ i \in 1..(n - 1)
    BY Counting, Zenon
  <1> QED
    BY <1>1, <1>2, <1>3, Zenon DEF Frame

\* A call that waits for a dependency still does.
LEMMA PendingStays ==
    ASSUME NEW sel, NEW ord, NEW T, NEW P, NEW sel2, NEW ord2, NEW T2, NEW P2, NEW call, NEW d,
           Pending(sel, T, call, d), Grows(sel, ord, T, P, sel2, ord2, T2, P2),
           call.id \in DOMAIN sel, d \in DOMAIN sel,
           T2[call.id][call.next] = T[call.id][call.next]
    PROVE  Pending(sel2, T2, call, d)
  <1>1. sel2[call.id] = sel[call.id] /\ sel2[d] = sel[d] /\ T2[d][1] = T[d][1]
    BY Zenon DEF Grows
  <1> QED
    BY <1>1, Zenon DEF Pending

\* Types of the order and of the times.
LEMMA TimesBasics ==
    ASSUME NEW sel, NEW ord, NEW T, NEW P, Times(sel, ord, T, P)
    PROVE  /\ Len(ord) \in Nat /\ DOMAIN ord = 1..Len(ord)
           /\ \A p \in DOMAIN ord : ord[p] \in DOMAIN sel
           /\ \A x \in DOMAIN sel :
                /\ T[x] \in [Nat -> Nat] /\ P[x] \in Nat
                /\ Len(sel[x].deps) \in Nat /\ DOMAIN sel[x].deps = 1..Len(sel[x].deps)
  <1>1. ord \in Seq(DOMAIN sel)
    BY Zenon DEF Times
  <1>2. Len(ord) \in Nat /\ DOMAIN ord = 1..Len(ord)
    BY <1>1, SeqBasics, Zenon
  <1>3. \A p \in DOMAIN ord : ord[p] \in DOMAIN sel
    BY <1>1, <1>2, SeqBasics, Zenon
  <1>4. \A x \in DOMAIN sel : T[x] \in [Nat -> Nat] /\ P[x] \in Nat
    BY Zenon DEF Times
  <1>5. ASSUME NEW x \in DOMAIN sel
        PROVE  Len(sel[x].deps) \in Nat /\ DOMAIN sel[x].deps = 1..Len(sel[x].deps)
    <2>1. sel[x].deps \in Seq(Range(sel[x].deps))
      BY Zenon DEF Times, Selection
    <2> QED
      BY <2>1, SeqBasics, Zenon
  <1> QED
    BY <1>2, <1>3, <1>4, <1>5, Zenon

\* Types of the stack.
LEMMA StackBasics ==
    ASSUME NEW sel, NEW ord, NEW st, NEW T, NEW P, Visiting(sel, ord, st, T, P)
    PROVE  /\ Len(st) \in Nat /\ Len(st) # 0 /\ DOMAIN st = 1..Len(st) /\ Len(st) \in 1..Len(st)
           /\ \A k \in 1..Len(st) : st[k].id \in DOMAIN sel /\ st[k].next \in Nat
  <1>1. st \in Seq([id : DOMAIN sel, next : Nat]) /\ st # <<>>
    BY Zenon DEF Visiting
  <1>2. Len(st) \in Nat /\ Len(st) # 0 /\ DOMAIN st = 1..Len(st)
    BY <1>1, SeqBasics, Zenon
  <1>3. \A k \in 1..Len(st) : st[k] \in [id : DOMAIN sel, next : Nat]
    BY <1>1, SeqBasics, Zenon
  <1>4. \A n \in Nat : n # 0 => n \in 1..n
    BY SMT
  <1> QED
    BY <1>2, <1>3, <1>4, Zenon

\* A dependency on a Bundle that is selected and left.
LEMMA VisitingContinues ==
    ASSUME NEW sel, NEW ord, NEW st, NEW T, NEW P, Visiting(sel, ord, st, T, P),
           NEW v, v = st[Len(st)].id, NEW n, n = st[Len(st)].next,
           n \in DOMAIN sel[v].deps,
           NEW d, d = sel[v].deps[n].id, d \in DOMAIN sel, \A k \in DOMAIN st : st[k].id # d,
           Satisfies(sel[d].version, sel[v].deps[n].constraint)
    PROVE  \E T2 : Visiting(sel, ord, Continued(st), T2, P)
  <1> DEFINE h == Len(st)
             st2 == Continued(st)
             c == Len(ord)
  <1>1. Times(sel, ord, T, P)
    BY Zenon DEF Visiting
  <1>2. c \in Nat /\ DOMAIN ord = 1..c
        /\ \A x \in DOMAIN sel :
                /\ T[x] \in [Nat -> Nat] /\ P[x] \in Nat
                /\ Len(sel[x].deps) \in Nat /\ DOMAIN sel[x].deps = 1..Len(sel[x].deps)
    BY <1>1, TimesBasics, Zenon
  <1>3. /\ h \in Nat /\ h # 0 /\ DOMAIN st = 1..h /\ h \in 1..h
        /\ \A k \in 1..h : st[k].id \in DOMAIN sel /\ st[k].next \in Nat
    BY StackBasics, Zenon
  <1>4. v \in DOMAIN sel /\ n \in Nat /\ n \in 1..Len(sel[v].deps)
    BY <1>2, <1>3, Zenon
  <1>5. n + 1 \in Nat /\ n + 1 # 1 /\ 1 \in Nat /\ \A i \in 1..n : i \in Nat /\ i # n + 1
    <2>1. Len(sel[v].deps) \in Nat
      BY ONLY <1>2, <1>4, Zenon
    <2> QED
      BY ONLY <2>1, <1>4, Counting, Zenon
  <1>6a. PICK T2 : Retimed(DOMAIN sel, T, T2, v, n + 1, c)
    <2>1. T \in [DOMAIN sel -> [Nat -> Nat]]
      BY <1>1, Zenon DEF Times
    <2> QED
      BY <1>2, <1>4, <1>5, <2>1, Recorded, Zenon
  <1>6. /\ T2 \in [DOMAIN sel -> [Nat -> Nat]] /\ T2[v][n + 1] = c
        /\ \A x \in DOMAIN sel : \A i \in Nat : x # v \/ i # n + 1 => T2[x][i] = T[x][i]
        /\ \A x \in DOMAIN sel : x # v => T2[x] = T[x]
    BY <1>6a, Zenon DEF Retimed
  <1>7. \A x \in DOMAIN sel : T2[x][1] = T[x][1]
    BY <1>5, <1>6, ZenonT(60)
  <1>8. Grows(sel, ord, T, P, sel, ord, T2, P)
    <2>1. c <= c
      BY <1>2, Counting, Zenon
    <2> QED
      BY <1>2, <1>7, <2>1, Zenon DEF Grows
  <1>9. Times(sel, ord, T2, P)
    BY <1>1, <1>6, <1>7, Zenon DEF Times
  <1>10. P[d] \in DOMAIN ord /\ ord[P[d]] = d
    BY ZenonT(60) DEF Visiting, Finished
  <1>11. T[v][n] = c
    BY Zenon DEF Visiting
  <1>12. Frame(sel, ord, T2, P, v, n + 1)
    <2>1. Frame(sel, ord, T, P, v, n)
      BY <1>3, Zenon DEF Visiting
    <2>2. \A i \in 1..n : T2[v][i] = T[v][i]
      BY <1>4, <1>5, <1>6, ZenonT(60)
    <2>3. Frame(sel, ord, T2, P, v, n)
      BY <1>4, <1>8, <2>1, <2>2, FrameStays, Zenon
    <2>4. T2[v][n] = c /\ T2[v][n + 1] = c /\ T2[v] \in [Nat -> Nat]
      BY <1>4, <1>5, <1>6, <1>11, Zenon
    <2>5. P[d] <= c /\ c <= c
      BY <1>2, <1>10, Counting, Zenon
    <2>6. Taken(sel, ord, T2, P, v, n)
      BY <1>10, <2>4, <2>5, Zenon DEF Taken
    <2> QED
      BY <1>2, <1>4, <2>3, <2>4, <2>5, <2>6, FrameNext, Zenon
  <1>13. /\ st2 \in Seq([id : DOMAIN sel, next : Nat]) /\ st2 # <<>>
         /\ Len(st2) = h /\ DOMAIN st2 = 1..h
         /\ \A k \in 1..(h - 1) : st2[k] = st[k]
         /\ st2[h].id = v /\ st2[h].next = n + 1
    BY ContinuedStack, ZenonT(60) DEF Visiting
  <1>14. /\ \A k \in 1..(h - 1) : k \in 1..h /\ k # h /\ k + 1 \in 1..h
         /\ \A k \in 1..h : k = h \/ k \in 1..(h - 1)
    BY <1>3, Below, Zenon
  <1> HIDE DEF st2, h
  <1>15. \A k \in 1..h : st2[k].id = st[k].id
    BY <1>13, <1>14, Zenon DEF h
  <1>16. \A k \in 1..(h - 1) : st[k].id # v
    BY <1>3, <1>14, Zenon DEF Visiting, h
  <1>17. 1 \in 1..h
    BY <1>3, Counting, Zenon
  <1>18. ASSUME NEW k \in 1..h PROVE Frame(sel, ord, T2, P, st2[k].id, st2[k].next)
    <2>1. CASE k = h
      BY <2>1, <1>12, <1>13, Zenon
    <2>2. CASE k \in 1..(h - 1)
      <3>1. st[k].id \in DOMAIN sel /\ st[k].id # v /\ Frame(sel, ord, T, P, st[k].id, st[k].next)
        BY <2>2, <1>3, <1>16, Zenon DEF Visiting
      <3>2. \A i \in 1..st[k].next : T2[st[k].id][i] = T[st[k].id][i]
        <4>1. \A i \in 1..st[k].next : i \in Nat
          BY <1>3, Counting, Zenon
        <4> QED
          BY <3>1, <4>1, <1>6, Zenon
      <3>3. Frame(sel, ord, T2, P, st[k].id, st[k].next)
        BY <3>1, <3>2, <1>8, FrameStays, Zenon
      <3> QED
        BY <2>2, <3>3, <1>13, Zenon
    <2> QED
      BY <2>1, <2>2, <1>14, Zenon
  <1>19. ASSUME NEW x \in DOMAIN sel
         PROVE  (\E k \in 1..h : st2[k].id = x) \/ Finished(sel, ord, T2, P, x)
    <2>1. CASE \E k \in 1..h : st[k].id = x
      BY <2>1, <1>15, Zenon
    <2>2. CASE ~\E k \in 1..h : st[k].id = x
      <3>1. Finished(sel, ord, T, P, x) /\ x # v
        BY <2>2, <1>3, Zenon DEF Visiting, h
      <3> QED
        BY <3>1, <1>6, <1>8, FinishedStays, Zenon
    <2> QED
      BY <2>1, <2>2, Zenon
  <1>20. ASSUME NEW k \in 1..(h - 1) PROVE Pending(sel, T2, st2[k], st2[k + 1].id)
    <2>1. Pending(sel, T, st[k], st[k + 1].id)
      BY Zenon DEF Visiting, h
    <2>2. st[k].id \in DOMAIN sel /\ st[k + 1].id \in DOMAIN sel /\ st[k].id # v
      BY <1>3, <1>14, <1>16, Zenon
    <2>3. T2[st[k].id][st[k].next] = T[st[k].id][st[k].next]
      BY <2>2, <1>6, Zenon
    <2>4. Pending(sel, T2, st[k], st[k + 1].id)
      BY <2>1, <2>2, <2>3, <1>8, PendingStays, Zenon
    <2> QED
      BY <2>4, <1>13, <1>14, <1>15, Zenon
  <1>21. \A j, k \in 1..h : st2[j].id = st2[k].id => j = k
    BY <1>3, <1>15, ZenonT(60) DEF Visiting
  <1>22. ASSUME NEW k \in 1..h, NEW p \in DOMAIN ord PROVE ord[p] # st2[k].id
    <2>1. ord[p] # st[k].id
      BY <1>3, Zenon DEF Visiting
    <2> QED
      BY <2>1, <1>15, Zenon
  <1>23. T2[st2[h].id][st2[h].next] = c /\ st2[1].id = RootBundle.id
    BY <1>6, <1>13, <1>15, <1>17, Zenon DEF Visiting
  <1>24. Visiting(sel, ord, st2, T2, P)
    BY <1>9, <1>13, <1>18, <1>19, <1>20, <1>21, <1>22, <1>23, Zenon DEF Visiting
  <1> QED
    BY <1>24, Zenon DEF st2

\* g is f with x mapped to y.
Added(f, x, y, g) ==
    /\ DOMAIN g = DOMAIN f \cup {x} /\ g[x] = y
    /\ \A z \in DOMAIN f : z # x /\ g[z] = f[z]
    /\ g = [z \in DOMAIN g |-> g[z]]

\* With adds an id that is not there.
LEMMA WithNew == ASSUME NEW f, NEW x, x \notin DOMAIN f, NEW y PROVE Added(f, x, y, With(f, x, y))
  BY Zenon DEF With, Added

\* A sequence over a set is one over a larger set.
LEMMA SeqGrows == \A S, S2 : S \subseteq S2 => Seq(S) \subseteq Seq(S2)
  BY SMT

\* A dependency on a Bundle that is not selected: visit is called for it.
LEMMA VisitingEnters ==
    ASSUME NEW sel, NEW ord, NEW st, NEW T, NEW P, Visiting(sel, ord, st, T, P),
           NEW v, v = st[Len(st)].id, NEW n, n = st[Len(st)].next,
           n \in DOMAIN sel[v].deps, NEW b \in Published,
           b.id = sel[v].deps[n].id, b.id \notin DOMAIN sel,
           Satisfies(b.version, sel[v].deps[n].constraint)
    PROVE  \E T2, P2 : Visiting(With(sel, b.id, b), ord, Append(st, [id |-> b.id, next |-> 1]), T2, P2)
  <1> DEFINE h == Len(st)
             call == [id |-> b.id, next |-> 1]
             st2 == Append(st, call)
             c == Len(ord)
             sel2 == With(sel, b.id, b)
             row == [i \in Nat |-> c]
             T2 == With(T, b.id, row)
             P2 == With(P, b.id, 0)
  <1>1. Times(sel, ord, T, P)
    BY Zenon DEF Visiting
  <1>2. /\ c \in Nat /\ DOMAIN ord = 1..c /\ \A p \in DOMAIN ord : ord[p] \in DOMAIN sel
        /\ \A x \in DOMAIN sel :
                /\ T[x] \in [Nat -> Nat] /\ P[x] \in Nat
                /\ Len(sel[x].deps) \in Nat /\ DOMAIN sel[x].deps = 1..Len(sel[x].deps)
    BY <1>1, TimesBasics, ZenonT(60)
  <1>3. /\ h \in Nat /\ h # 0 /\ DOMAIN st = 1..h /\ h \in 1..h
        /\ \A k \in 1..h : st[k].id \in DOMAIN sel /\ st[k].next \in Nat
    BY StackBasics, Zenon
  <1>4. v \in DOMAIN sel /\ n \in Nat /\ n \in 1..Len(sel[v].deps)
    BY <1>2, <1>3, Zenon
  <1>5. row \in [Nat -> Nat] /\ row[1] = c
    <2>1. 1 \in Nat
      BY Counting, Zenon
    <2> QED
      BY ONLY <1>2, <2>1, Zenon
  <1>6. call.id = b.id /\ call.next = 1
    BY Zenon
  <1>7. /\ DOMAIN sel2 = DOMAIN sel \cup {b.id} /\ sel2[b.id] = b
        /\ \A x \in DOMAIN sel : x # b.id /\ sel2[x] = sel[x]
    <2> HIDE DEF sel2
    <2>1. Added(sel, b.id, b, sel2)
      BY WithNew, Zenon DEF sel2
    <2> QED
      BY ONLY <2>1, Zenon DEF Added
  <1>8. DOMAIN T = DOMAIN sel /\ DOMAIN P = DOMAIN sel
    BY <1>1, Zenon DEF Times
  <1>9. /\ DOMAIN T2 = DOMAIN sel2 /\ T2[b.id] = row /\ \A x \in DOMAIN sel : T2[x] = T[x]
        /\ T2 = [x \in DOMAIN sel2 |-> T2[x]]
    <2> HIDE DEF row, sel2, T2
    <2>1. b.id \notin DOMAIN T
      BY <1>8, Zenon
    <2>2. Added(T, b.id, row, T2)
      BY <2>1, WithNew, Zenon DEF T2
    <2>3. /\ DOMAIN T2 = DOMAIN T \cup {b.id} /\ T2[b.id] = row
          /\ T2 = [z \in DOMAIN T2 |-> T2[z]] /\ \A x \in DOMAIN T : T2[x] = T[x]
      BY ONLY <2>2, Zenon DEF Added
    <2>4. DOMAIN T2 = DOMAIN sel2
      BY ONLY <2>3, <1>7, <1>8, Zenon
    <2> QED
      BY ONLY <2>3, <2>4, <1>8, Zenon
  <1>10. /\ DOMAIN P2 = DOMAIN sel2 /\ P2[b.id] = 0 /\ \A x \in DOMAIN sel : P2[x] = P[x]
         /\ P2 = [x \in DOMAIN sel2 |-> P2[x]]
    <2> HIDE DEF sel2, P2
    <2>1. b.id \notin DOMAIN P
      BY <1>8, Zenon
    <2>2. Added(P, b.id, 0, P2)
      BY <2>1, WithNew, Zenon DEF P2
    <2>3. /\ DOMAIN P2 = DOMAIN P \cup {b.id} /\ P2[b.id] = 0
          /\ P2 = [z \in DOMAIN P2 |-> P2[z]] /\ \A x \in DOMAIN P : P2[x] = P[x]
      BY ONLY <2>2, Zenon DEF Added
    <2>4. DOMAIN P2 = DOMAIN sel2
      BY ONLY <2>3, <1>7, <1>8, Zenon
    <2> QED
      BY ONLY <2>3, <2>4, <1>8, Zenon
  <1> HIDE DEF row, sel2, T2, P2, call
  <1>11. /\ \A x \in DOMAIN sel2 : T2[x] \in [Nat -> Nat] /\ P2[x] \in Nat
         /\ T2 \in [DOMAIN sel2 -> [Nat -> Nat]] /\ P2 \in [DOMAIN sel2 -> Nat]
    <2>1. \A x \in DOMAIN sel2 : T2[x] \in [Nat -> Nat] /\ P2[x] \in Nat
      BY <1>2, <1>5, <1>7, <1>9, <1>10, Counting, Zenon
    <2> QED
      BY <2>1, <1>9, <1>10, Zenon
  <1>12. Selection(sel2)
    <2>1. b.deps \in Seq(Range(b.deps)) /\ b.id # RootBundle.id
      BY <1>1, BundleAssumption, Zenon DEF Bundles, Published, Times
    <2> QED
      BY <1>1, <1>7, <2>1, ZenonT(60) DEF Times, Selection
  <1>13. Grows(sel, ord, T, P, sel2, ord, T2, P2)
    <2>1. c <= c
      BY <1>2, Counting, Zenon
    <2> QED
      BY <1>2, <1>7, <1>9, <1>10, <2>1, Zenon DEF Grows
  <1>14. Times(sel2, ord, T2, P2)
    <2>1. ord \in Seq(DOMAIN sel2)
      BY <1>1, <1>7, SeqGrows, Zenon DEF Times
    <2>2. RootBundle.id \in DOMAIN sel /\ RootBundle.id \in DOMAIN sel2
      BY <1>1, <1>7, Zenon DEF Times
    <2>3. \A p \in DOMAIN ord : P2[ord[p]] = p
      BY <1>1, <1>2, <1>10, Zenon DEF Times
    <2>4. T2[RootBundle.id][1] = 0
      BY <1>1, <2>2, <1>9, Zenon DEF Times
    <2> QED
      BY <1>11, <1>12, <2>1, <2>2, <2>3, <2>4, Zenon DEF Times
  <1>15. /\ st \in Seq([id : DOMAIN sel2, next : Nat]) /\ call \in [id : DOMAIN sel2, next : Nat]
    <2>1. [id : DOMAIN sel, next : Nat] \subseteq [id : DOMAIN sel2, next : Nat]
      BY <1>7, Zenon
    <2> QED
      BY <2>1, <1>7, SeqGrows, Counting, ZenonT(60) DEF Visiting, call
  <1>16. /\ st2 \in Seq([id : DOMAIN sel2, next : Nat]) /\ st2 # <<>>
         /\ Len(st2) = h + 1 /\ DOMAIN st2 = 1..(h + 1)
         /\ \A k \in 1..h : st2[k] = st[k]
         /\ st2[h + 1] = call
    <2> HIDE DEF st2
    <2>1. Pushed([id : DOMAIN sel2, next : Nat], st, call, st2)
      BY <1>15, AppendPushes, Zenon DEF st2
    <2> QED
      BY ONLY <2>1, Zenon DEF Pushed
  <1> HIDE DEF st2, h
  <1>17. /\ \A k \in 1..(h + 1) : k \in 1..h \/ k = h + 1
         /\ 1 \in 1..h /\ h + 1 \in 1..(h + 1) /\ \A k \in 1..h : k # h + 1
    BY <1>3, Counting, Zenon
  <1>18. Frame(sel2, ord, T2, P2, b.id, 1)
    <2>1. b.deps \in Seq(Range(b.deps))
      BY BundleAssumption, Zenon DEF Bundles, Published
    <2>2. Len(b.deps) \in Nat
      BY <2>1, SeqBasics, Zenon
    <2>3. 1 \in 1..(Len(b.deps) + 1) /\ (\A i \in 1..1 : i = 1) /\ 1..(1 - 1) = {}
      <3>1. \A m \in Nat : 1 \in 1..(m + 1) /\ (\A i \in 1..1 : i = 1) /\ 1..(1 - 1) = {}
        BY ONLY SMT
      <3> QED
        BY <2>2, <3>1, Zenon
    <2>4. T2[b.id][1] = c /\ c <= c
      BY <1>2, <1>5, <1>9, Counting, Zenon
    <2> QED
      BY <2>3, <2>4, <1>7, Zenon DEF Frame
  <1>19. ASSUME NEW k \in 1..(h + 1) PROVE Frame(sel2, ord, T2, P2, st2[k].id, st2[k].next)
    <2>1. CASE k = h + 1
      BY <2>1, <1>6, <1>16, <1>18, Zenon
    <2>2. CASE k \in 1..h
      <3>1. st[k].id \in DOMAIN sel /\ Frame(sel, ord, T, P, st[k].id, st[k].next)
        BY <2>2, <1>3, Zenon DEF Visiting
      <3>2. \A i \in 1..st[k].next : T2[st[k].id][i] = T[st[k].id][i]
        BY <3>1, <1>9, Zenon
      <3>3. Frame(sel2, ord, T2, P2, st[k].id, st[k].next)
        BY <3>1, <3>2, <1>13, FrameStays, Zenon
      <3> QED
        BY <2>2, <3>3, <1>16, Zenon
    <2> QED
      BY <2>1, <2>2, <1>17, Zenon
  <1>20. ASSUME NEW x \in DOMAIN sel2
         PROVE  (\E k \in 1..(h + 1) : st2[k].id = x) \/ Finished(sel2, ord, T2, P2, x)
    <2>1. CASE x = b.id
      BY <2>1, <1>6, <1>16, <1>17, Zenon
    <2>2. CASE \E k \in 1..h : st[k].id = x
      <3>1. \A k \in 1..h : k \in 1..(h + 1)
        BY <1>3, Counting, Zenon
      <3> QED
        BY <2>2, <3>1, <1>16, Zenon
    <2>3. CASE x # b.id /\ ~\E k \in 1..h : st[k].id = x
      <3>1. x \in DOMAIN sel
        BY <2>3, <1>7, Zenon
      <3>2. Finished(sel, ord, T, P, x)
        BY <3>1, <2>3, <1>3, Zenon DEF Visiting
      <3> QED
        BY <3>1, <3>2, <1>9, <1>13, FinishedStays, Zenon
    <2> QED
      BY <2>1, <2>2, <2>3, Zenon
  <1>21. ASSUME NEW k \in 1..((h + 1) - 1) PROVE Pending(sel2, T2, st2[k], st2[k + 1].id)
    <2>0. k = h \/ k \in 1..(h - 1)
      BY <1>3, Counting, Zenon
    <2>1. CASE k \in 1..(h - 1)
      <3>1. k \in 1..h /\ k + 1 \in 1..h
        BY <2>1, <1>3, Below, Zenon
      <3>2. Pending(sel, T, st[k], st[k + 1].id)
        BY <2>1, Zenon DEF Visiting, h
      <3>3. st[k].id \in DOMAIN sel /\ st[k + 1].id \in DOMAIN sel
        BY <3>1, <1>3, Zenon
      <3>4. T2[st[k].id][st[k].next] = T[st[k].id][st[k].next]
        BY <3>3, <1>9, Zenon
      <3>5. Pending(sel2, T2, st[k], st[k + 1].id)
        BY <3>2, <3>3, <3>4, <1>13, PendingStays, Zenon
      <3> QED
        BY <3>1, <3>5, <1>16, Zenon
    <2>2. CASE k = h
      <3>1. st2[k] = st[h] /\ st2[k + 1].id = b.id
        BY <2>2, <1>3, <1>6, <1>16, Zenon
      <3>2. st[h].id = v /\ st[h].next = n
        BY Zenon DEF h
      <3>3. T[v][n] = c
        BY Zenon DEF Visiting
      <3>4. T2[b.id][1] = c /\ T2[v][n] = c /\ sel2[v] = sel[v] /\ sel2[b.id] = b
        BY <3>3, <1>4, <1>5, <1>7, <1>9, Zenon
      <3>5. Pending(sel2, T2, st[h], b.id)
        BY <3>2, <3>4, <1>4, Zenon DEF Pending
      <3> QED
        BY <3>1, <3>5, Zenon
    <2> QED
      BY <2>0, <2>1, <2>2, Zenon
  <1>22. ASSUME NEW j \in 1..(h + 1), NEW k \in 1..(h + 1), st2[j].id = st2[k].id PROVE j = k
    <2>1. \A i \in 1..h : st2[i].id = st[i].id /\ st2[i].id # b.id
      BY <1>3, <1>7, <1>16, Zenon
    <2>2. st2[h + 1].id = b.id
      BY <1>6, <1>16, Zenon
    <2>3. \A i, l \in 1..h : st[i].id = st[l].id => i = l
      BY <1>3, Zenon DEF Visiting
    <2> QED
      BY ONLY <1>17, <1>22, <2>1, <2>2, <2>3, j \in 1..(h + 1), k \in 1..(h + 1), Zenon
  <1>23. ASSUME NEW k \in 1..(h + 1), NEW p \in DOMAIN ord PROVE ord[p] # st2[k].id
    <2>1. CASE k = h + 1
      BY ONLY <2>1, <1>2, <1>6, <1>7, <1>16, p \in DOMAIN ord, Zenon
    <2>2. CASE k \in 1..h
      <3>1. st2[k] = st[k] /\ ord[p] # st[k].id
        BY <2>2, <1>3, <1>16, Zenon DEF Visiting
      <3> QED
        BY ONLY <3>1, Zenon
    <2> QED
      BY <2>1, <2>2, <1>17, Zenon
  <1>24. T2[st2[h + 1].id][st2[h + 1].next] = c /\ st2[1].id = RootBundle.id
    BY <1>5, <1>6, <1>9, <1>16, <1>17, Zenon DEF Visiting
  <1>25. Visiting(sel2, ord, st2, T2, P2)
    BY <1>14, <1>16, <1>19, <1>20, <1>21, <1>22, <1>23, <1>24, Zenon DEF Visiting
  <1> QED
    BY <1>25, Zenon DEF st2, call, sel2

\* A call that has no dependency left: its Bundle takes the next place.
IsTop(st, v, n) == v = st[Len(st)].id /\ n = st[Len(st)].next
\* Bundle v takes the next place of the order.
Placed(P, v, ord, P2) == P2 = [P EXCEPT ![v] = Len(ord) + 1]
\* Times of v, and of the starts of all visits, stay.
KeepsTimes(sel, T, T2, v) ==
    /\ T2 \in [DOMAIN sel -> [Nat -> Nat]] /\ T2[v] = T[v]
    /\ \A x \in DOMAIN sel : T2[x][1] = T[x][1]
\* The graph when the call of v has returned.
Left(sel, ord, T, P, ord2, T2, P2, v, n) ==
    /\ Grows(sel, ord, T, P, sel, ord2, T2, P2) /\ Times(sel, ord2, T2, P2)
    /\ Finished(sel, ord2, T2, P2, v)
    /\ P2[v] = Len(ord) + 1 /\ Pushed(DOMAIN sel, ord, v, ord2)
    /\ v \in DOMAIN sel /\ n = Len(sel[v].deps) + 1

\* A call without a dependency left returns to a graph that is still well timed.
LEMMA Leaves ==
    ASSUME NEW sel, NEW ord, NEW st, NEW T, NEW P, Visiting(sel, ord, st, T, P),
           NEW v, NEW n, IsTop(st, v, n), n \notin DOMAIN sel[v].deps,
           NEW T2, KeepsTimes(sel, T, T2, v), NEW P2, Placed(P, v, ord, P2)
    PROVE  Left(sel, ord, T, P, Append(ord, v), T2, P2, v, n)
  <1> DEFINE c == Len(ord)
             ord2 == Append(ord, v)
  <1>0. /\ T2 \in [DOMAIN sel -> [Nat -> Nat]] /\ T2[v] = T[v]
        /\ \A x \in DOMAIN sel : T2[x][1] = T[x][1]
    BY Zenon DEF KeepsTimes
  <1>1. Times(sel, ord, T, P)
    BY Zenon DEF Visiting
  <1>2. /\ c \in Nat /\ DOMAIN ord = 1..c /\ \A p \in DOMAIN ord : ord[p] \in DOMAIN sel
        /\ \A x \in DOMAIN sel :
                /\ T[x] \in [Nat -> Nat] /\ P[x] \in Nat
                /\ Len(sel[x].deps) \in Nat /\ DOMAIN sel[x].deps = 1..Len(sel[x].deps)
    BY ONLY <1>1, TimesBasics, Zenon
  <1>3. /\ Len(st) \in 1..Len(st) /\ DOMAIN st = 1..Len(st)
        /\ \A k \in 1..Len(st) : st[k].id \in DOMAIN sel /\ st[k].next \in Nat
    BY StackBasics, Zenon
  <1>4. v \in DOMAIN sel /\ n \in Nat
    BY <1>3, Zenon DEF IsTop
  <1>5. Frame(sel, ord, T, P, v, n) /\ T[v][n] = c
    BY <1>3, Zenon DEF Visiting, IsTop
  <1>6. n = Len(sel[v].deps) + 1
    <2>1. n \in 1..(Len(sel[v].deps) + 1) /\ n \notin 1..Len(sel[v].deps) /\ Len(sel[v].deps) \in Nat
      BY <1>2, <1>4, <1>5, Zenon DEF Frame
    <2> QED
      BY ONLY <2>1, Counting, Zenon
  <1>7. Pushed(DOMAIN sel, ord, v, ord2)
    BY <1>1, <1>4, AppendPushes, Zenon DEF Times
  <1> HIDE DEF ord2
  <1>8. /\ ord2 \in Seq(DOMAIN sel) /\ Len(ord2) = c + 1 /\ DOMAIN ord2 = 1..(c + 1)
        /\ \A p \in 1..c : ord2[p] = ord[p]
        /\ ord2[c + 1] = v
    BY ONLY <1>7, Zenon DEF Pushed
  <1>9. /\ c + 1 \in Nat /\ c <= c + 1 /\ c + 1 \in 1..(c + 1)
        /\ \A p \in 1..c : p \in 1..(c + 1)
        /\ \A p \in 1..(c + 1) : p \in 1..c \/ p = c + 1
    BY ONLY <1>2, Counting, Zenon
  <1>10. /\ P2 \in [DOMAIN sel -> Nat] /\ P2[v] = c + 1
         /\ \A x \in DOMAIN sel : x # v => P2[x] = P[x]
    <2>1. P \in [DOMAIN sel -> Nat]
      BY <1>1, Zenon DEF Times
    <2> QED
      BY ONLY <2>1, <1>4, <1>9, Placed(P, v, ord, P2), Zenon DEF Placed
  <1>11. \A p \in 1..c : ord[p] # v
    BY <1>2, <1>3, Zenon DEF Visiting, IsTop
  <1>12. Grows(sel, ord, T, P, sel, ord2, T2, P2)
    BY <1>0, <1>2, <1>8, <1>9, <1>10, <1>11, Zenon DEF Grows
  <1>13. Times(sel, ord2, T2, P2)
    <2>1. \A p \in 1..c : P[ord[p]] = p
      BY <1>1, <1>2, Zenon DEF Times
    <2>2. \A p \in 1..(c + 1) : P2[ord2[p]] = p
      <3> SUFFICES ASSUME NEW p \in 1..(c + 1) PROVE P2[ord2[p]] = p
        OBVIOUS
      <3>1. CASE p = c + 1
        BY ONLY <3>1, <1>8, <1>10, Zenon
      <3>2. CASE p \in 1..c
        <4>1. ord2[p] = ord[p] /\ ord[p] \in DOMAIN sel /\ ord[p] # v /\ P[ord[p]] = p
          BY ONLY <3>2, <2>1, <1>2, <1>8, <1>11, Zenon
        <4> QED
          BY ONLY <4>1, <1>10, Zenon
      <3> QED
        BY <3>1, <3>2, <1>9, Zenon
    <2>3. T2[RootBundle.id][1] = 0 /\ Selection(sel) /\ RootBundle.id \in DOMAIN sel
      BY <1>0, <1>1, Zenon DEF Times
    <2> QED
      BY ONLY <2>2, <2>3, <1>0, <1>8, <1>10, Zenon DEF Times
  <1>14. Frame(sel, ord2, T2, P2, v, n)
    <2>1. \A i \in 1..n : T2[v][i] = T[v][i]
      BY ONLY <1>0, Zenon
    <2> QED
      BY ONLY <2>1, <1>4, <1>5, <1>12, FrameStays, Zenon
  <1>15. Finished(sel, ord2, T2, P2, v)
    <2>1. P2[v] \in DOMAIN ord2 /\ ord2[P2[v]] = v /\ P2[v] = T2[v][n] + 1
      BY ONLY <1>0, <1>5, <1>8, <1>9, <1>10, Zenon
    <2> QED
      BY ONLY <2>1, <1>6, <1>14, Zenon DEF Finished
  <1> QED
    BY ONLY <1>4, <1>6, <1>7, <1>10, <1>12, <1>13, <1>15, Zenon DEF Left, ord2

\* The last call returns.
LEMMA VisitingEnds ==
    ASSUME NEW sel, NEW ord, NEW st, NEW T, NEW P, Visiting(sel, ord, st, T, P), Len(st) = 1,
           NEW v, NEW n, IsTop(st, v, n), n \notin DOMAIN sel[v].deps
    PROVE  \E T2, P2 : Complete(sel, Append(ord, v), T2, P2)
  <1> DEFINE P2 == [P EXCEPT ![v] = Len(ord) + 1]
             ord2 == Append(ord, v)
  <1>1. KeepsTimes(sel, T, T, v)
    BY Zenon DEF Visiting, Times, KeepsTimes
  <1>2. Placed(P, v, ord, P2)
    BY Zenon DEF Placed
  <1> HIDE DEF P2
  <1>3. Left(sel, ord, T, P, ord2, T, P2, v, n)
    BY <1>1, <1>2, Leaves, Zenon
  <1> HIDE DEF ord2
  <1>4. \A k \in DOMAIN st : st[k].id = v
    <2>1. DOMAIN st = 1..Len(st)
      BY StackBasics, Zenon
    <2>2. \A k \in 1..1 : k = 1
      BY ONLY SMT
    <2> QED
      BY <2>1, <2>2, Zenon DEF IsTop
  <1>5. v = RootBundle.id
    BY Zenon DEF IsTop, Visiting
  <1>6. ASSUME NEW x \in DOMAIN sel PROVE Finished(sel, ord2, T, P2, x)
    <2>1. CASE x = v
      BY ONLY <2>1, <1>3, Zenon DEF Left
    <2>2. CASE x # v
      <3>1. Finished(sel, ord, T, P, x)
        BY <2>2, <1>4, Zenon DEF Visiting
      <3> QED
        BY <3>1, <1>3, FinishedStays, Zenon DEF Left
    <2> QED
      BY <2>1, <2>2, Zenon
  <1>7. P2[RootBundle.id] = Len(ord2)
    BY ONLY <1>3, <1>5, Zenon DEF Left, Pushed
  <1>8. Complete(sel, ord2, T, P2)
    BY ONLY <1>3, <1>6, <1>7, Zenon DEF Complete, Left
  <1> QED
    BY <1>8, Zenon DEF ord2

\* Another call returns, and its caller goes on.
LEMMA VisitingReturns ==
    ASSUME NEW sel, NEW ord, NEW st, NEW T, NEW P, Visiting(sel, ord, st, T, P), Len(st) # 1,
           NEW v, NEW n, IsTop(st, v, n), n \notin DOMAIN sel[v].deps
    PROVE  \E T2, P2 : Visiting(sel, Append(ord, v), Continued(SubSeq(st, 1, Len(st) - 1)), T2, P2)
  <1> DEFINE h == Len(st)
             low == SubSeq(st, 1, Len(st) - 1)
             st2 == Continued(low)
             g == h - 1
             c == Len(ord)
             w == st[g].id
             m == st[g].next
             P2 == [P EXCEPT ![v] = Len(ord) + 1]
             ord2 == Append(ord, v)
             Calls == [id : DOMAIN sel, next : Nat]
  <1>1. Times(sel, ord, T, P) /\ st \in Seq(Calls) /\ st # <<>>
    BY Zenon DEF Visiting
  <1>2. /\ c \in Nat /\ DOMAIN ord = 1..c
        /\ \A x \in DOMAIN sel :
                /\ T[x] \in [Nat -> Nat]
                /\ Len(sel[x].deps) \in Nat /\ DOMAIN sel[x].deps = 1..Len(sel[x].deps)
    BY ONLY <1>1, TimesBasics, Zenon
  <1>3. /\ h \in Nat /\ h # 0 /\ DOMAIN st = 1..h /\ h \in 1..h
        /\ \A k \in 1..h : st[k].id \in DOMAIN sel /\ st[k].next \in Nat
    BY StackBasics, Zenon
  <1>4. /\ g \in Nat /\ g # 0
        /\ \A k \in 1..g : k \in 1..h /\ k # h /\ k + 1 \in 1..h
        /\ \A k \in 1..h : k = h \/ k \in 1..g
        /\ 1 \in 1..g /\ g \in 1..g /\ g + 1 = h
    <2>1. \A i \in Nat : i # 0 /\ i # 1 => i - 1 \in Nat /\ i - 1 # 0 /\ (i - 1) + 1 = i
      BY ONLY SMT
    <2> QED
      BY <1>3, <2>1, Below, Counting, ZenonT(60)
  <1>5. /\ low \in Seq(Calls) /\ low # <<>> /\ Len(low) = g /\ \A k \in 1..g : low[k] = st[k]
    BY <1>1, Popped, Zenon
  <1> HIDE DEF low, Calls
  <1>6. /\ st2 \in Seq(Calls) /\ st2 # <<>> /\ Len(st2) = g /\ DOMAIN st2 = 1..g
        /\ \A k \in 1..(g - 1) : st2[k] = st[k]
        /\ st2[g].id = w /\ st2[g].next = m + 1
    <2>1. /\ st2 \in Seq(Calls) /\ st2 # <<>>
          /\ Len(st2) = Len(low) /\ DOMAIN st2 = 1..Len(low)
          /\ \A k \in 1..(Len(low) - 1) : st2[k] = low[k]
          /\ st2[Len(low)].id = low[Len(low)].id
          /\ st2[Len(low)].next = low[Len(low)].next + 1
      BY ONLY <1>5, ContinuedStack, Zenon DEF Calls
    <2>2. \A k \in 1..(g - 1) : k \in 1..g
      BY ONLY <1>4, Below, Zenon
    <2> HIDE DEF st2, g
    <2> QED
      BY ONLY <2>1, <2>2, <1>4, <1>5, Zenon
  <1> HIDE DEF st2
  <1>7. /\ w \in DOMAIN sel /\ m \in Nat /\ w # v
        /\ \A k \in 1..g : st[k].id # v
        /\ \A k \in 1..(g - 1) : k \in 1..g /\ k + 1 \in 1..g /\ st[k].id # w
    <2>1. \A k \in 1..(g - 1) : k \in 1..g /\ k # g /\ k + 1 \in 1..g
      BY ONLY <1>4, Below, Zenon
    <2>2. \A j, k \in 1..h : st[j].id = st[k].id => j = k
      BY <1>3, Zenon DEF Visiting
    <2>3. v = st[h].id
      BY Zenon DEF IsTop
    <2> HIDE DEF g, h
    <2> QED
      BY ONLY <2>1, <2>2, <2>3, <1>3, <1>4, Zenon
  <1>8. Pending(sel, T, st[g], v)
    <2>1. Pending(sel, T, st[g], st[g + 1].id)
      BY <1>4, Zenon DEF Visiting
    <2> QED
      BY <2>1, <1>4, Zenon DEF IsTop
  <1>9. /\ m \in 1..Len(sel[w].deps) /\ sel[w].deps[m].id = v
        /\ Satisfies(sel[v].version, sel[w].deps[m].constraint) /\ T[v][1] = T[w][m]
    BY ONLY <1>8, Zenon DEF Pending
  <1> HIDE DEF g, h
  <1>10. /\ m + 1 \in Nat /\ m + 1 # 1 /\ 1 \in Nat /\ c + 1 \in Nat /\ c <= c + 1
         /\ c + 1 <= c + 1 /\ m # m + 1 /\ \A i \in 1..m : i \in Nat /\ i # m + 1
    <2>1. Len(sel[w].deps) \in Nat
      BY ONLY <1>2, <1>7, Zenon
    <2> HIDE DEF w, m, c
    <2>2. c \in Nat
      BY ONLY <1>2
    <2>3. m + 1 \in Nat /\ m + 1 # 1 /\ m # m + 1 /\ \A i \in 1..m : i \in Nat /\ i # m + 1
      BY ONLY <2>1, <1>7, <1>9, Counting, Zenon
    <2> QED
      BY ONLY <2>2, <2>3, Counting, Zenon
  <1>11. PICK T2 : Retimed(DOMAIN sel, T, T2, w, m + 1, c + 1)
    <2>1. T \in [DOMAIN sel -> [Nat -> Nat]]
      BY <1>1, Zenon DEF Times
    <2> QED
      BY ONLY <1>7, <1>10, <2>1, Recorded, Zenon
  <1>12. /\ T2 \in [DOMAIN sel -> [Nat -> Nat]] /\ T2[w][m + 1] = c + 1
         /\ \A x \in DOMAIN sel : \A i \in Nat : x # w \/ i # m + 1 => T2[x][i] = T[x][i]
         /\ \A x \in DOMAIN sel : x # w => T2[x] = T[x]
    BY ONLY <1>11, Zenon DEF Retimed
  <1>13. v \in DOMAIN sel
    BY <1>3, Zenon DEF IsTop, h
  <1>14. KeepsTimes(sel, T, T2, v)
    BY ONLY <1>7, <1>10, <1>12, <1>13, Zenon DEF KeepsTimes
  <1>15. Placed(P, v, ord, P2)
    BY Zenon DEF Placed
  <1> HIDE DEF P2
  <1>16. Left(sel, ord, T, P, ord2, T2, P2, v, n)
    BY <1>14, <1>15, Leaves, Zenon
  <1> HIDE DEF ord2
  <1>17. /\ Grows(sel, ord, T, P, sel, ord2, T2, P2) /\ Times(sel, ord2, T2, P2)
         /\ Finished(sel, ord2, T2, P2, v) /\ P2[v] = c + 1
    BY ONLY <1>16, Zenon DEF Left
  <1>18. /\ Len(ord2) = c + 1 /\ DOMAIN ord2 = 1..(c + 1) /\ ord2[c + 1] = v
         /\ \A p \in 1..c : ord2[p] = ord[p]
    BY ONLY <1>16, Zenon DEF Left, Pushed
  <1>19. Frame(sel, ord2, T2, P2, w, m + 1)
    <2>1. Frame(sel, ord, T, P, w, m)
      BY <1>3, <1>4, Zenon DEF Visiting
    <2>2. \A i \in 1..m : T2[w][i] = T[w][i]
      BY ONLY <1>7, <1>10, <1>12, Zenon
    <2>3. Frame(sel, ord2, T2, P2, w, m)
      BY ONLY <1>7, <1>17, <2>1, <2>2, FrameStays, Zenon
    <2>4. T2[w][m] = T[w][m] /\ T2[v][1] = T[v][1] /\ T2[w] \in [Nat -> Nat]
      BY ONLY <1>7, <1>10, <1>12, <1>13, Zenon
    <2>5. Taken(sel, ord2, T2, P2, w, m)
      <3>1. c + 1 \in 1..(c + 1)
        BY ONLY <1>2, Counting, Zenon
      <3>2. v \in DOMAIN sel /\ P2[v] \in DOMAIN ord2 /\ ord2[P2[v]] = v
        BY ONLY <3>1, <1>13, <1>17, <1>18, Zenon
      <3>3. T2[v][1] = T2[w][m] /\ T2[w][m + 1] = P2[v]
        BY ONLY <2>4, <1>9, <1>12, <1>17, Zenon
      <3> HIDE DEF w, m
      <3> QED
        BY ONLY <3>2, <3>3, <1>9, Zenon DEF Taken
    <2>6. T2[w][m] <= T2[w][m + 1] /\ T2[w][m + 1] <= Len(ord2)
      <3>1. T[w][m] <= c
        BY ONLY <2>1, Zenon DEF Frame
      <3>2. T[w][m] \in Nat
        BY ONLY <1>2, <1>7, Zenon
      <3>3. T[w][m] <= c + 1
        BY ONLY <3>1, <3>2, <1>2, Counting, Zenon
      <3> QED
        BY ONLY <3>3, <2>4, <1>10, <1>12, <1>18, Zenon
    <2> HIDE DEF w, m
    <2> QED
      BY ONLY <1>2, <1>7, <1>9, <2>3, <2>4, <2>5, <2>6, FrameNext, ZenonT(60)
  <1>20. \A k \in 1..g : st2[k].id = st[k].id
    <2>1. \A k \in 1..g : k = g \/ k \in 1..(g - 1)
      BY ONLY <1>4, Below, Zenon
    <2> QED
      BY ONLY <2>1, <1>6, Zenon
  <1>21. ASSUME NEW k \in 1..g PROVE Frame(sel, ord2, T2, P2, st2[k].id, st2[k].next)
    <2>0. k = g \/ k \in 1..(g - 1)
      BY ONLY <1>4, k \in 1..g, Below, Zenon
    <2>1. CASE k = g
      BY ONLY <2>1, <1>6, <1>19, Zenon
    <2>2. CASE k \in 1..(g - 1)
      <3>1. st[k].id \in DOMAIN sel /\ st[k].id # w /\ Frame(sel, ord, T, P, st[k].id, st[k].next)
        BY <2>2, <1>3, <1>4, <1>7, Zenon DEF Visiting
      <3>2. \A i \in 1..st[k].next : T2[st[k].id][i] = T[st[k].id][i]
        BY ONLY <3>1, <1>12, Zenon
      <3>3. Frame(sel, ord2, T2, P2, st[k].id, st[k].next)
        BY ONLY <3>1, <3>2, <1>17, FrameStays, Zenon
      <3> QED
        BY ONLY <2>2, <3>3, <1>6, Zenon
    <2> QED
      BY <2>0, <2>1, <2>2, Zenon
  <1>22. ASSUME NEW x \in DOMAIN sel
         PROVE  (\E k \in 1..g : st2[k].id = x) \/ Finished(sel, ord2, T2, P2, x)
    <2>1. CASE \E k \in 1..g : st[k].id = x
      BY ONLY <2>1, <1>20, Zenon
    <2>2. CASE x = v
      BY ONLY <2>2, <1>17, Zenon
    <2>3. CASE x # v /\ ~\E k \in 1..g : st[k].id = x
      <3>1. ~\E k \in 1..h : st[k].id = x
        BY <2>3, <1>4, Zenon DEF IsTop, h
      <3>2. Finished(sel, ord, T, P, x) /\ x # w
        BY <3>1, <2>3, <1>3, <1>4, Zenon DEF Visiting
      <3>3. T2[x] = T[x]
        BY ONLY <3>2, <1>12, x \in DOMAIN sel, Zenon
      <3> QED
        BY ONLY <3>2, <3>3, <1>17, x \in DOMAIN sel, FinishedStays, Zenon
    <2> QED
      BY <2>1, <2>2, <2>3, Zenon
  <1>23. ASSUME NEW k \in 1..(g - 1) PROVE Pending(sel, T2, st2[k], st2[k + 1].id)
    <2>1. Pending(sel, T, st[k], st[k + 1].id)
      <3>1. k \in 1..(h - 1)
        BY <1>7, Zenon DEF g
      <3> QED
        BY <3>1, Zenon DEF Visiting, h
    <2>2. st[k].id \in DOMAIN sel /\ st[k + 1].id \in DOMAIN sel /\ st[k].id # w
      BY <1>3, <1>4, <1>7, Zenon
    <2>3. T2[st[k].id][st[k].next] = T[st[k].id][st[k].next]
      BY ONLY <2>2, <1>12, Zenon
    <2>4. Pending(sel, T2, st[k], st[k + 1].id)
      BY ONLY <2>1, <2>2, <2>3, <1>17, PendingStays, Zenon
    <2> QED
      BY <2>4, <1>6, <1>7, <1>20, Zenon
  <1>24. \A j, k \in 1..g : st2[j].id = st2[k].id => j = k
    BY <1>3, <1>4, <1>20, ZenonT(60) DEF Visiting
  <1>25. ASSUME NEW k \in 1..g, NEW p \in DOMAIN ord2 PROVE ord2[p] # st2[k].id
    <2>0. p \in 1..c \/ p = c + 1
      BY ONLY <1>2, <1>18, p \in DOMAIN ord2, Counting, Zenon
    <2>1. CASE p \in 1..c
      <3>1. ord2[p] = ord[p] /\ ord[p] # st[k].id
        BY <2>1, <1>2, <1>3, <1>4, <1>18, Zenon DEF Visiting
      <3> QED
        BY ONLY <3>1, <1>20, k \in 1..g, Zenon
    <2>2. CASE p = c + 1
      BY ONLY <2>2, <1>7, <1>18, <1>20, k \in 1..g, Zenon
    <2> QED
      BY <2>0, <2>1, <2>2, Zenon
  <1>26. T2[st2[g].id][st2[g].next] = Len(ord2) /\ st2[1].id = RootBundle.id
    <2>1. st[1].id = RootBundle.id
      BY Zenon DEF Visiting
    <2> QED
      BY ONLY <2>1, <1>4, <1>6, <1>12, <1>18, <1>20, Zenon
  <1>27. Visiting(sel, ord2, st2, T2, P2)
    BY ONLY <1>6, <1>17, <1>21, <1>22, <1>23, <1>24, <1>25, <1>26, Zenon DEF Visiting, Calls
  <1> QED
    BY <1>27, Zenon DEF st2, low, ord2

\* The first call of visit, for the root.
LEMMA VisitingStarts ==
    ASSUME NEW b, b = RootBundle
    PROVE  \E T, P : Visiting(With(<<>>, b.id, b), <<>>, Append(<<>>, [id |-> b.id, next |-> 1]), T, P)
  <1> DEFINE call == [id |-> b.id, next |-> 1]
             sel == With(<<>>, b.id, b)
             st == Append(<<>>, call)
             T == [x \in DOMAIN sel |-> [i \in Nat |-> 0]]
             P == [x \in DOMAIN sel |-> 0]
  <1>1. DOMAIN sel = {b.id} /\ sel[b.id] = b
    <2>1. Added(<<>>, b.id, b, sel)
      BY SeqBasics, WithNew, Zenon
    <2> HIDE DEF sel
    <2> QED
      BY ONLY <2>1, SeqBasics, Zenon DEF Added
  <1> HIDE DEF sel
  <1>2. b.deps \in Seq(Range(b.deps))
    BY BundleAssumption, Zenon DEF Bundles
  <1>3. Len(b.deps) \in Nat
    BY <1>2, SeqBasics, Zenon
  <1>4. /\ T \in [DOMAIN sel -> [Nat -> Nat]] /\ P \in [DOMAIN sel -> Nat] /\ T[b.id][1] = 0
    BY <1>1, Counting, Zenon
  <1> HIDE DEF T, P
  <1>5. Times(sel, <<>>, T, P)
    <2>1. <<>> \in Seq(DOMAIN sel)
      BY SMT
    <2> QED
      BY <2>1, <1>1, <1>2, <1>4, SeqBasics, Zenon DEF Times, Selection
  <1>6. call \in [id : DOMAIN sel, next : Nat] /\ call.id = b.id /\ call.next = 1
    BY <1>1, Counting, Zenon
  <1> HIDE DEF call
  <1>7. st \in Seq([id : DOMAIN sel, next : Nat]) /\ st # <<>> /\ Len(st) = 1 /\ st[1] = call
        /\ DOMAIN st = 1..1
    BY <1>6, SMT
  <1> HIDE DEF st
  <1>8. (\A k \in 1..1 : k = 1) /\ 1..(1 - 1) = {} /\ 1 \in 1..1 /\ 0 <= 0
        /\ \A m \in Nat : 1 \in 1..(m + 1)
    BY ONLY SMT
  <1>9. Frame(sel, <<>>, T, P, b.id, 1)
    <2>1. \A i \in 1..1 : T[b.id][i] <= T[b.id][1]
      BY ONLY <1>4, <1>8, Zenon
    <2>2. T[b.id][1] <= Len(<<>>)
      BY ONLY <1>4, <1>8, SeqBasics, Zenon
    <2>3. 1 \in 1..(Len(sel[b.id].deps) + 1)
      BY ONLY <1>1, <1>3, <1>8, Zenon
    <2> QED
      BY ONLY <2>1, <2>2, <2>3, <1>8, Zenon DEF Frame
  <1>10. Visiting(sel, <<>>, st, T, P)
    <2>1. \A k \in DOMAIN st : st[k] = call
      BY ONLY <1>7, <1>8, Zenon
    <2>2. \A j, k \in DOMAIN st : j = k
      BY ONLY <1>7, <1>8, Zenon
    <2>3. \A k \in DOMAIN st : Frame(sel, <<>>, T, P, st[k].id, st[k].next)
      BY ONLY <2>1, <1>6, <1>9, Zenon
    <2>4. \A v \in DOMAIN sel : \E k \in DOMAIN st : st[k].id = v
      BY ONLY <1>1, <1>6, <1>7, <1>8, Zenon
    <2>5. T[st[Len(st)].id][st[Len(st)].next] = Len(<<>>)
      BY ONLY <1>4, <1>6, <1>7, SeqBasics, Zenon
    <2>6. st[1].id = RootBundle.id
      BY <1>6, <1>7, Zenon
    <2>7. 1..(Len(st) - 1) = {}
      BY ONLY <1>7, <1>8, Zenon
    <2> QED
      BY ONLY <1>5, <1>7, <2>2, <2>3, <2>4, <2>5, <2>6, <2>7, SeqBasics, Zenon DEF Visiting
  <1> QED
    BY <1>10, Zenon DEF sel, st, call
-----------------------------------------------------------------------------
(* A resolution that follows a lock goes through the graph the lock was    *)
(* written from: s and o are its Bundles and its order, T and P its times. *)

\* The selection and the order are a part of the lock's, and every call on the stack
\* stands where the call of the same Bundle stood when the lock was written.
Lockstep(sel, ord, st, s, o, T, P) ==
    /\ \A id \in DOMAIN sel : id \in DOMAIN s /\ Content(sel[id]) = Content(s[id])
    /\ Len(ord) <= Len(o) /\ \A p \in DOMAIN ord : p \in DOMAIN o /\ o[p] = ord[p]
    /\ T[st[Len(st)].id][st[Len(st)].next] = Len(ord)
    /\ \A k \in 1..(Len(st) - 1) : T[st[k].id][st[k].next + 1] = P[st[k + 1].id]
    /\ \A j, k \in DOMAIN st : j < k => P[st[k].id] < P[st[j].id]

\* What a complete graph says of the n-th dependency of v.
LockedDep(s, o, T, P, v, n, d) ==
    /\ d \in DOMAIN s /\ P[d] \in DOMAIN o /\ o[P[d]] = d
    /\ Satisfies(s[d].version, s[v].deps[n].constraint)
    /\ \/ P[d] <= T[v][n] /\ T[v][n + 1] = T[v][n]
       \/ T[d][1] = T[v][n] /\ T[v][n + 1] = P[d]
    /\ T[v][n] \in Nat /\ P[d] \in Nat /\ P[v] \in Nat /\ T[d][1] \in Nat
    /\ P[d] < P[v] /\ T[d][1] < P[d]

\* A dependency in a complete graph comes before what depends on it.
LEMMA LockedDeps ==
    ASSUME NEW s, NEW o, NEW T, NEW P, Complete(s, o, T, P), NEW v \in DOMAIN s,
           NEW n \in DOMAIN s[v].deps
    PROVE  LockedDep(s, o, T, P, v, n, s[v].deps[n].id)
  <1> DEFINE d == s[v].deps[n].id
             l == Len(s[v].deps)
             ld == Len(s[d].deps)
  <1>1. Times(s, o, T, P) /\ \A x \in DOMAIN s : Finished(s, o, T, P, x)
    BY Zenon DEF Complete
  <1>2. \A x \in DOMAIN s :
                /\ T[x] \in [Nat -> Nat] /\ P[x] \in Nat
                /\ Len(s[x].deps) \in Nat /\ DOMAIN s[x].deps = 1..Len(s[x].deps)
    BY ONLY <1>1, TimesBasics, Zenon
  <1>3. l \in Nat /\ n \in 1..l /\ T[v] \in [Nat -> Nat] /\ P[v] \in Nat
    BY <1>2, Zenon
  <1>4. P[v] = T[v][l + 1] + 1 /\ Frame(s, o, T, P, v, l + 1)
    BY ONLY <1>1, v \in DOMAIN s, Zenon DEF Finished
  <1> HIDE DEF l
  <1>5. n \in 1..((l + 1) - 1) /\ n \in 1..(l + 1) /\ n + 1 \in 1..(l + 1) /\ n \in Nat
        /\ n + 1 \in Nat /\ l + 1 \in Nat
    BY ONLY <1>3, SMT
  <1>6. Taken(s, o, T, P, v, n) /\ T[v][n] <= T[v][l + 1] /\ T[v][n + 1] <= T[v][l + 1]
    BY ONLY <1>4, <1>5, Zenon DEF Frame
  <1>7. /\ d \in DOMAIN s /\ P[d] \in DOMAIN o /\ o[P[d]] = d
        /\ Satisfies(s[d].version, s[v].deps[n].constraint)
        /\ \/ P[d] <= T[v][n] /\ T[v][n + 1] = T[v][n]
           \/ T[d][1] = T[v][n] /\ T[v][n + 1] = P[d]
    BY ONLY <1>6, Zenon DEF Taken
  <1> HIDE DEF d
  <1>8. P[d] \in Nat /\ T[d] \in [Nat -> Nat] /\ ld \in Nat
    BY ONLY <1>2, <1>7, Zenon
  <1>9. P[d] = T[d][ld + 1] + 1 /\ Frame(s, o, T, P, d, ld + 1)
    BY ONLY <1>1, <1>7, Zenon DEF Finished
  <1> HIDE DEF ld
  <1>10. 1 \in 1..(ld + 1) /\ ld + 1 \in Nat /\ 1 \in Nat
    BY ONLY <1>8, SMT
  <1>11. T[d][1] <= T[d][ld + 1]
    BY ONLY <1>9, <1>10, Zenon DEF Frame
  <1>12. /\ T[v][n] \in Nat /\ T[v][n + 1] \in Nat /\ T[v][l + 1] \in Nat
         /\ T[d][1] \in Nat /\ T[d][ld + 1] \in Nat
    BY ONLY <1>3, <1>5, <1>8, <1>10, Zenon
  <1>13. P[d] < P[v]
    BY ONLY <1>3, <1>4, <1>6, <1>7, <1>8, <1>12, SMT
  <1>14. T[d][1] < P[d]
    BY ONLY <1>8, <1>9, <1>11, <1>12, SMT
  <1>15. LockedDep(s, o, T, P, v, n, d)
    BY ONLY <1>3, <1>7, <1>8, <1>12, <1>13, <1>14, Zenon DEF LockedDep
  <1> QED
    BY <1>15, Zenon DEF d

\* Equal contents have equal ids, versions, dependencies and digests.
LEMMA ContentFields ==
    ASSUME NEW a, NEW b, Content(a) = Content(b)
    PROVE  a.id = b.id /\ a.version = b.version /\ a.deps = b.deps /\ a.digest = b.digest
  BY SMT DEF Content

\* The dependency that is taken up, in the graph of the lock.
Followed(sel, ord, s, o, T, P, v, n) ==
    /\ LockedDep(s, o, T, P, v, n, sel[v].deps[n].id)
    /\ v \in DOMAIN sel /\ v \in DOMAIN s /\ Content(sel[v]) = Content(s[v])
    /\ sel[v].deps = s[v].deps /\ T[v][n] = Len(ord)

\* The dependency taken up is the one the lock's graph had there.
LEMMA StepLocked ==
    ASSUME NEW sel, NEW ord, NEW st, NEW TG, NEW PG, Visiting(sel, ord, st, TG, PG),
           NEW s, NEW o, NEW T, NEW P, Complete(s, o, T, P), Lockstep(sel, ord, st, s, o, T, P),
           NEW v, NEW n, IsTop(st, v, n), n \in DOMAIN sel[v].deps
    PROVE  Followed(sel, ord, s, o, T, P, v, n)
  <1>1. v \in DOMAIN sel
    BY StackBasics, Zenon DEF IsTop
  <1>2. v \in DOMAIN s /\ Content(sel[v]) = Content(s[v]) /\ T[v][n] = Len(ord)
    BY <1>1, Zenon DEF Lockstep, IsTop
  <1>3. sel[v].deps = s[v].deps
    BY ONLY <1>2, ContentFields, Zenon
  <1>4. LockedDep(s, o, T, P, v, n, s[v].deps[n].id)
    BY <1>2, <1>3, LockedDeps, Zenon
  <1> QED
    BY ONLY <1>1, <1>2, <1>3, <1>4, Zenon DEF Followed

\* No cycle, and no constraint that a choice does not meet.
Fits(sel, st, s, v, n, d) ==
    /\ \A k \in DOMAIN st : st[k].id # d
    /\ d \in DOMAIN sel => Satisfies(sel[d].version, sel[v].deps[n].constraint)
    /\ d \in DOMAIN s /\ Satisfies(s[d].version, sel[v].deps[n].constraint)

\* A resolution in lockstep with a complete graph meets neither.
LEMMA LockstepAgrees ==
    ASSUME NEW sel, NEW ord, NEW st, NEW TG, NEW PG, Visiting(sel, ord, st, TG, PG),
           NEW s, NEW o, NEW T, NEW P, Complete(s, o, T, P), Lockstep(sel, ord, st, s, o, T, P),
           NEW v, NEW n, IsTop(st, v, n), n \in DOMAIN sel[v].deps,
           NEW d, d = sel[v].deps[n].id
    PROVE  Fits(sel, st, s, v, n, d)
  <1>0. Followed(sel, ord, s, o, T, P, v, n)
    BY StepLocked, Zenon
  <1>1. /\ LockedDep(s, o, T, P, v, n, d) /\ v \in DOMAIN s /\ v \in DOMAIN sel
        /\ sel[v].deps = s[v].deps
    BY ONLY <1>0, d = sel[v].deps[n].id, Zenon DEF Followed
  <1>2. /\ d \in DOMAIN s /\ Satisfies(s[d].version, s[v].deps[n].constraint)
        /\ P[d] \in Nat /\ P[v] \in Nat /\ P[d] < P[v]
    BY ONLY <1>1, Zenon DEF LockedDep
  <1>3. ASSUME NEW k \in DOMAIN st, st[k].id = d PROVE FALSE
    <2>1. /\ Len(st) \in Nat /\ DOMAIN st = 1..Len(st) /\ Len(st) \in 1..Len(st)
          /\ v = st[Len(st)].id
      BY StackBasics, Zenon DEF IsTop
    <2>2. CASE k = Len(st)
      <3>1. P[v] < P[v] /\ P[v] \in Nat
        BY ONLY <2>1, <2>2, <1>2, <1>3, Zenon
      <3> QED
        BY ONLY <3>1, SMT
    <2>3. CASE k # Len(st)
      <3>1. \A h \in Nat : \A i \in 1..h : i # h => i < h
        BY ONLY SMT
      <3>2. k < Len(st)
        BY ONLY <3>1, <2>1, <2>3, k \in DOMAIN st, Zenon
      <3>3. P[v] < P[d]
        BY <3>2, <2>1, <1>3, Zenon DEF Lockstep
      <3> QED
        BY ONLY <3>3, <1>2, SMT
    <2> QED
      BY <2>2, <2>3, Zenon
  <1>4. ASSUME d \in DOMAIN sel PROVE Satisfies(sel[d].version, sel[v].deps[n].constraint)
    <2>1. Content(sel[d]) = Content(s[d])
      BY <1>4, Zenon DEF Lockstep
    <2>2. sel[d].version = s[d].version
      BY ONLY <2>1, ContentFields, Zenon
    <2> QED
      BY ONLY <2>2, <1>1, <1>2, Zenon
  <1> QED
    BY ONLY <1>1, <1>2, <1>3, <1>4, Zenon DEF Fits

\* A dependency that is selected keeps the lockstep.
LEMMA LockstepContinues ==
    ASSUME NEW sel, NEW ord, NEW st, NEW TG, NEW PG, Visiting(sel, ord, st, TG, PG),
           NEW s, NEW o, NEW T, NEW P, Complete(s, o, T, P), Lockstep(sel, ord, st, s, o, T, P),
           NEW v, NEW n, IsTop(st, v, n), n \in DOMAIN sel[v].deps,
           sel[v].deps[n].id \in DOMAIN sel, \A k \in DOMAIN st : st[k].id # sel[v].deps[n].id
    PROVE  Lockstep(sel, ord, Continued(st), s, o, T, P)
  <1> DEFINE h == Len(st)
             st2 == Continued(st)
             c == Len(ord)
             d == sel[v].deps[n].id
  <1>0. Followed(sel, ord, s, o, T, P, v, n)
    BY StepLocked, Zenon
  <1>1. LockedDep(s, o, T, P, v, n, d) /\ T[v][n] = c
    BY ONLY <1>0, Zenon DEF Followed
  <1>2. PG[d] \in DOMAIN ord /\ ord[PG[d]] = d
    BY Zenon DEF Visiting, Finished
  <1>3. Times(sel, ord, TG, PG) /\ st \in Seq([id : DOMAIN sel, next : Nat]) /\ st # <<>>
    BY Zenon DEF Visiting
  <1>4. c \in Nat /\ DOMAIN ord = 1..c
    BY ONLY <1>3, TimesBasics, Zenon
  <1>5. o[PG[d]] = d /\ PG[d] \in DOMAIN o
    BY <1>2, Zenon DEF Lockstep
  <1>6. \A p \in DOMAIN o : P[o[p]] = p
    BY Zenon DEF Complete, Times
  <1> HIDE DEF d, c
  <1>7. P[d] \in 1..c
    BY ONLY <1>2, <1>4, <1>5, <1>6, Zenon
  <1>8. T[v][n + 1] = c
    <2>1. /\ \/ P[d] <= T[v][n] /\ T[v][n + 1] = T[v][n]
             \/ T[d][1] = T[v][n] /\ T[v][n + 1] = P[d]
          /\ T[d][1] < P[d] /\ P[d] \in Nat /\ T[d][1] \in Nat
      BY ONLY <1>1, Zenon DEF LockedDep
    <2> QED
      BY ONLY <2>1, <1>1, <1>4, <1>7, SMT
  <1>9. /\ Len(st2) = h /\ DOMAIN st2 = 1..h /\ DOMAIN st = 1..h /\ h \in Nat
        /\ \A k \in 1..(h - 1) : st2[k] = st[k]
        /\ st2[h].id = st[h].id /\ st2[h].next = st[h].next + 1
    BY ONLY <1>3, ContinuedStack, Zenon
  <1>10. /\ \A k \in 1..(h - 1) : k \in 1..h /\ k # h /\ k + 1 \in 1..h
         /\ \A k \in 1..h : k = h \/ k \in 1..(h - 1)
    BY ONLY <1>9, Below, Zenon
  <1>11. st[h].id = v /\ st[h].next = n
    BY Zenon DEF IsTop
  <1> HIDE DEF h, st2
  <1>12. \A k \in 1..h : st2[k].id = st[k].id
    BY ONLY <1>9, <1>10, Zenon
  <1>13. \A k \in 1..(h - 1) : T[st2[k].id][st2[k].next + 1] = P[st2[k + 1].id]
    <2>1. \A k \in 1..(h - 1) : T[st[k].id][st[k].next + 1] = P[st[k + 1].id]
      BY Zenon DEF Lockstep, h
    <2> QED
      BY ONLY <2>1, <1>9, <1>10, <1>12, Zenon
  <1>14. \A j, k \in 1..h : j < k => P[st2[k].id] < P[st2[j].id]
    <2>1. \A j, k \in 1..h : j < k => P[st[k].id] < P[st[j].id]
      BY <1>9, Zenon DEF Lockstep
    <2> QED
      BY ONLY <2>1, <1>12, Zenon
  <1>15. T[st2[h].id][st2[h].next] = c
    BY ONLY <1>8, <1>9, <1>11, Zenon
  <1>16. /\ \A id \in DOMAIN sel : id \in DOMAIN s /\ Content(sel[id]) = Content(s[id])
         /\ c <= Len(o) /\ \A p \in DOMAIN ord : p \in DOMAIN o /\ o[p] = ord[p]
    BY Zenon DEF Lockstep, c
  <1>17. Lockstep(sel, ord, st2, s, o, T, P)
    BY ONLY <1>9, <1>13, <1>14, <1>15, <1>16, Zenon DEF Lockstep, c
  <1> QED
    BY <1>17, Zenon DEF st2

\* A dependency visited for the first time with the locked content keeps step.
LEMMA LockstepEnters ==
    ASSUME NEW sel, NEW ord, NEW st, NEW TG, NEW PG, Visiting(sel, ord, st, TG, PG),
           NEW s, NEW o, NEW T, NEW P, Complete(s, o, T, P), Lockstep(sel, ord, st, s, o, T, P),
           NEW v, NEW n, IsTop(st, v, n), n \in DOMAIN sel[v].deps,
           NEW b, b.id = sel[v].deps[n].id, b.id \notin DOMAIN sel,
           Content(b) = Content(s[b.id])
    PROVE  Lockstep(With(sel, b.id, b), ord, Append(st, [id |-> b.id, next |-> 1]), s, o, T, P)
  <1> DEFINE h == Len(st)
             call == [id |-> b.id, next |-> 1]
             st2 == Append(st, call)
             c == Len(ord)
             d == b.id
             sel2 == With(sel, b.id, b)
             Calls == [id : DOMAIN sel \cup {d}, next : Nat]
  <1>0. Followed(sel, ord, s, o, T, P, v, n)
    BY StepLocked, Zenon
  <1>1. LockedDep(s, o, T, P, v, n, d) /\ T[v][n] = c
    BY ONLY <1>0, b.id = sel[v].deps[n].id, Zenon DEF Followed
  <1>2. Times(sel, ord, TG, PG) /\ st \in Seq([id : DOMAIN sel, next : Nat]) /\ st # <<>>
    BY Zenon DEF Visiting
  <1>3. c \in Nat /\ DOMAIN ord = 1..c /\ \A p \in DOMAIN ord : ord[p] \in DOMAIN sel
    BY ONLY <1>2, TimesBasics, Zenon
  <1>4. /\ \A id \in DOMAIN sel : id \in DOMAIN s /\ Content(sel[id]) = Content(s[id])
        /\ c <= Len(o) /\ \A p \in DOMAIN ord : p \in DOMAIN o /\ o[p] = ord[p]
    BY Zenon DEF Lockstep
  <1>5. DOMAIN sel2 = DOMAIN sel \cup {d} /\ sel2[d] = b /\ \A x \in DOMAIN sel : sel2[x] = sel[x]
    <2> HIDE DEF sel2
    <2>1. Added(sel, b.id, b, sel2)
      BY WithNew, Zenon DEF sel2
    <2> QED
      BY ONLY <2>1, Zenon DEF Added
  <1>6. call.id = d /\ call.next = 1 /\ call \in Calls
    BY Counting, Zenon
  <1>7. st \in Seq(Calls)
    <2>1. [id : DOMAIN sel, next : Nat] \subseteq Calls
      BY Zenon
    <2> HIDE DEF Calls
    <2> QED
      BY ONLY <2>1, <1>2, SeqGrows, Zenon
  <1> HIDE DEF call, sel2, Calls
  <1>8. Pushed(Calls, st, call, st2)
    BY <1>6, <1>7, AppendPushes, Zenon
  <1> HIDE DEF st2
  <1>9. /\ Len(st2) = h + 1 /\ DOMAIN st2 = 1..(h + 1)
        /\ \A k \in 1..h : st2[k] = st[k]
        /\ st2[h + 1] = call
    BY ONLY <1>8, Zenon DEF Pushed
  <1>10. h \in Nat /\ DOMAIN st = 1..h /\ h \in 1..h /\ st[h].id = v /\ st[h].next = n
    BY StackBasics, Zenon DEF IsTop
  <1>11. \A k \in 1..(h - 1) : T[st[k].id][st[k].next + 1] = P[st[k + 1].id]
    BY Zenon DEF Lockstep
  <1>12. \A j, k \in 1..h : j < k => P[st[k].id] < P[st[j].id]
    BY <1>10, Zenon DEF Lockstep
  <1>13. d \notin DOMAIN sel /\ Content(b) = Content(s[d])
    OBVIOUS
  <1>14. \A j \in 1..h : P[st[j].id] \in Nat
    <2>1. \A j \in 1..h : st[j].id \in DOMAIN s
      BY <1>4, StackBasics, Zenon
    <2>2. P \in [DOMAIN s -> Nat]
      BY Zenon DEF Complete, Times
    <2> QED
      BY ONLY <2>1, <2>2, Zenon
  <1> HIDE DEF d, c, h
  <1>15. /\ P[d] \in DOMAIN o /\ o[P[d]] = d /\ d \in DOMAIN s
         /\ \/ P[d] <= T[v][n] /\ T[v][n + 1] = T[v][n]
            \/ T[d][1] = T[v][n] /\ T[v][n + 1] = P[d]
         /\ P[d] \in Nat /\ P[v] \in Nat /\ P[d] < P[v] /\ T[d][1] < P[d] /\ T[d][1] \in Nat
    BY ONLY <1>1, Zenon DEF LockedDep
  <1>16. T[d][1] = c /\ T[v][n + 1] = P[d]
    <2>1. ASSUME P[d] \in 1..c PROVE FALSE
      <3>1. P[d] \in DOMAIN ord
        BY ONLY <2>1, <1>3, Zenon
      <3>2. o[P[d]] = ord[P[d]] /\ ord[P[d]] \in DOMAIN sel
        BY ONLY <3>1, <1>3, <1>4, Zenon
      <3> QED
        BY ONLY <3>2, <1>13, <1>15, Zenon
    <2> QED
      BY ONLY <2>1, <1>1, <1>3, <1>15, SMT
  <1>17. \A j \in 1..h : P[d] < P[st[j].id]
    <2> SUFFICES ASSUME NEW j \in 1..h PROVE P[d] < P[st[j].id]
      OBVIOUS
    <2>1. CASE j = h
      BY ONLY <2>1, <1>10, <1>15, Zenon
    <2>2. CASE j # h
      <3>1. \A m \in Nat : \A i \in 1..m : i # m => i < m
        BY ONLY SMT
      <3>2. P[v] < P[st[j].id] /\ P[st[j].id] \in Nat
        BY ONLY <3>1, <2>2, <1>10, <1>12, <1>14, j \in 1..h, Zenon
      <3> QED
        BY ONLY <3>2, <1>15, SMT
    <2> QED
      BY <2>1, <2>2, ZenonT(60)
  <1>18. \A j, k \in 1..(h + 1) : j < k => P[st2[k].id] < P[st2[j].id]
    <2> SUFFICES ASSUME NEW j \in 1..(h + 1), NEW k \in 1..(h + 1), j < k
                 PROVE  P[st2[k].id] < P[st2[j].id]
      OBVIOUS
    <2>1. j \in 1..h /\ (k \in 1..h \/ k = h + 1)
      BY ONLY <1>10, j \in 1..(h + 1), k \in 1..(h + 1), j < k, SMT
    <2>2. CASE k \in 1..h
      BY ONLY <2>1, <2>2, <1>9, <1>12, j < k, Zenon
    <2>3. CASE k = h + 1
      BY ONLY <2>1, <2>3, <1>6, <1>9, <1>17, Zenon
    <2> QED
      BY <2>1, <2>2, <2>3, ZenonT(60)
  <1>19. ASSUME NEW k \in 1..((h + 1) - 1) PROVE T[st2[k].id][st2[k].next + 1] = P[st2[k + 1].id]
    <2>0. k \in 1..h /\ (k = h \/ k \in 1..(h - 1))
      BY ONLY <1>10, k \in 1..((h + 1) - 1), SMT
    <2>1. CASE k = h
      BY ONLY <2>1, <2>0, <1>6, <1>9, <1>10, <1>16, Zenon
    <2>2. CASE k \in 1..(h - 1)
      <3>1. k + 1 \in 1..h
        BY ONLY <2>2, <1>10, Below, Zenon
      <3> QED
        BY ONLY <2>0, <2>2, <3>1, <1>9, <1>11, Zenon
    <2> QED
      BY <2>0, <2>1, <2>2, Zenon
  <1>20. T[st2[h + 1].id][st2[h + 1].next] = c
    BY ONLY <1>6, <1>9, <1>16, Zenon
  <1>21. \A id \in DOMAIN sel2 : id \in DOMAIN s /\ Content(sel2[id]) = Content(s[id])
    BY ONLY <1>4, <1>5, <1>13, <1>15, Zenon
  <1>22. Lockstep(sel2, ord, st2, s, o, T, P)
    BY ONLY <1>4, <1>9, <1>18, <1>19, <1>20, <1>21, ZenonT(60) DEF Lockstep, c
  <1> QED
    BY <1>22, Zenon DEF st2, sel2, call

\* The place of v in the lock's order is the next one.
NextPlace(ord, v, o, P) ==
    /\ P[v] = Len(ord) + 1 /\ P[v] = Len(Append(ord, v)) /\ Len(Append(ord, v)) <= Len(o)
    /\ \A p \in DOMAIN Append(ord, v) : p \in DOMAIN o /\ o[p] = Append(ord, v)[p]

\* A call that returns takes the place that its Bundle has in the lock's order.
LEMMA LockstepPlace ==
    ASSUME NEW sel, NEW ord, NEW st, NEW TG, NEW PG, Visiting(sel, ord, st, TG, PG),
           NEW s, NEW o, NEW T, NEW P, Complete(s, o, T, P), Lockstep(sel, ord, st, s, o, T, P),
           NEW v, NEW n, IsTop(st, v, n), n \notin DOMAIN sel[v].deps
    PROVE  NextPlace(ord, v, o, P)
  <1> DEFINE c == Len(ord)
             ord2 == Append(ord, v)
             l == Len(sel[v].deps)
  <1>1. Times(sel, ord, TG, PG)
    BY Zenon DEF Visiting
  <1>2. v \in DOMAIN sel /\ n \in Nat /\ Frame(sel, ord, TG, PG, v, n)
    <2>1. v = st[Len(st)].id /\ n = st[Len(st)].next
      BY Zenon DEF IsTop
    <2>2. /\ Len(st) \in DOMAIN st /\ st[Len(st)].id \in DOMAIN sel /\ st[Len(st)].next \in Nat
          /\ Frame(sel, ord, TG, PG, st[Len(st)].id, st[Len(st)].next)
      <3>1. Len(st) \in DOMAIN st /\ st[Len(st)].id \in DOMAIN sel /\ st[Len(st)].next \in Nat
        BY StackBasics, Zenon
      <3> QED
        BY <3>1, Zenon DEF Visiting
    <2> QED
      BY ONLY <2>1, <2>2, Zenon
  <1>3. c \in Nat /\ DOMAIN ord = 1..c /\ l \in Nat /\ DOMAIN sel[v].deps = 1..l
    BY ONLY <1>1, <1>2, TimesBasics, Zenon
  <1>4. n = l + 1
    <2>1. n \in 1..(l + 1) /\ n \notin 1..l
      BY <1>2, <1>3, Zenon DEF Frame
    <2> QED
      BY ONLY <2>1, <1>3, Counting, Zenon
  <1>5. v \in DOMAIN s /\ Content(sel[v]) = Content(s[v]) /\ T[v][n] = c
    BY <1>2, Zenon DEF Lockstep, IsTop
  <1>6. sel[v].deps = s[v].deps
    BY ONLY <1>5, ContentFields, Zenon
  <1>7. Times(s, o, T, P) /\ Finished(s, o, T, P, v)
    BY <1>5, Zenon DEF Complete
  <1>8. P[v] \in DOMAIN o /\ o[P[v]] = v /\ P[v] = T[v][Len(s[v].deps) + 1] + 1
    BY ONLY <1>7, Zenon DEF Finished
  <1>9. P[v] = c + 1
    BY ONLY <1>4, <1>5, <1>6, <1>8, Zenon
  <1>10. Pushed(DOMAIN sel, ord, v, ord2)
    BY <1>1, <1>2, AppendPushes, Zenon DEF Times
  <1> HIDE DEF ord2
  <1>11. /\ Len(ord2) = c + 1 /\ DOMAIN ord2 = 1..(c + 1)
         /\ \A p \in 1..c : ord2[p] = ord[p]
         /\ ord2[c + 1] = v
    BY ONLY <1>10, Zenon DEF Pushed
  <1>12. \A p \in 1..c : p \in DOMAIN o /\ o[p] = ord[p]
    BY <1>3, Zenon DEF Lockstep
  <1>13. \A p \in DOMAIN ord2 : p \in DOMAIN o /\ o[p] = ord2[p]
    <2>1. \A p \in 1..(c + 1) : p \in 1..c \/ p = c + 1
      BY ONLY <1>3, Counting, Zenon
    <2> SUFFICES ASSUME NEW p \in 1..(c + 1) PROVE p \in DOMAIN o /\ o[p] = ord2[p]
      BY <1>11, Zenon
    <2>2. CASE p = c + 1
      BY ONLY <2>2, <1>8, <1>9, <1>11, Zenon
    <2>3. CASE p \in 1..c
      BY ONLY <2>3, <1>11, <1>12, Zenon
    <2> QED
      BY <2>1, <2>2, <2>3, Zenon
  <1>14. Len(o) \in Nat /\ DOMAIN o = 1..Len(o)
    BY ONLY <1>7, TimesBasics, Zenon
  <1>15. c + 1 <= Len(o)
    <2>1. P[v] \in 1..Len(o)
      BY ONLY <1>8, <1>14, Zenon
    <2>2. P[v] <= Len(o)
      BY ONLY <2>1, <1>14, Counting, Zenon
    <2> QED
      BY ONLY <2>2, <1>9, Zenon
  <1>16. P[v] = Len(ord) + 1 /\ P[v] = Len(ord2) /\ Len(ord2) <= Len(o)
    BY ONLY <1>9, <1>11, <1>15, Zenon
  <1> QED
    BY ONLY <1>13, <1>16, Zenon DEF NextPlace, ord2

\* A resolution in lockstep with a complete graph ends in that graph.
Reproduced(sel, ord, s, o) == Contents(sel) = Contents(s) /\ ord = o

\* When the root returns the graph of the lock is reached.
LEMMA LockstepEnds ==
    ASSUME NEW sel, NEW ord, NEW st, NEW TG, NEW PG, Visiting(sel, ord, st, TG, PG), Len(st) = 1,
           NEW s, NEW o, NEW T, NEW P, Complete(s, o, T, P), Lockstep(sel, ord, st, s, o, T, P),
           NEW v, NEW n, IsTop(st, v, n), n \notin DOMAIN sel[v].deps
    PROVE  Reproduced(sel, Append(ord, v), s, o)
  <1> DEFINE ord2 == Append(ord, v)
  <1>a. NextPlace(ord, v, o, P)
    BY LockstepPlace, Zenon
  <1>1. P[v] = Len(ord2) /\ \A p \in DOMAIN ord2 : p \in DOMAIN o /\ o[p] = ord2[p]
    BY ONLY <1>a, Zenon DEF NextPlace
  <1>2. v = RootBundle.id
    BY Zenon DEF IsTop, Visiting
  <1>3. P[v] = Len(o) /\ Times(s, o, T, P) /\ \A x \in DOMAIN s : P[x] \in DOMAIN o /\ o[P[x]] = x
    BY <1>2, Zenon DEF Complete, Finished
  <1>4. PICK TC, PC : Complete(sel, ord2, TC, PC)
    BY VisitingEnds, Zenon
  <1>5. Times(sel, ord2, TC, PC)
    BY ONLY <1>4, Zenon DEF Complete
  <1>6. /\ ord2 \in Seq(DOMAIN sel) /\ o \in Seq(DOMAIN s)
        /\ DOMAIN ord2 = 1..Len(ord2) /\ DOMAIN o = 1..Len(o)
        /\ \A p \in DOMAIN ord2 : ord2[p] \in DOMAIN sel
    <2>1. Times(s, o, T, P)
      BY ONLY <1>3, Zenon
    <2>2. DOMAIN o = 1..Len(o) /\ o \in Seq(DOMAIN s)
      BY ONLY <2>1, TimesBasics, ZenonT(60) DEF Times
    <2>3. /\ DOMAIN ord2 = 1..Len(ord2) /\ \A p \in DOMAIN ord2 : ord2[p] \in DOMAIN sel
      BY ONLY <1>5, TimesBasics, Zenon
    <2>4. ord2 \in Seq(DOMAIN sel)
      BY ONLY <1>5, Zenon DEF Times
    <2> QED
      BY ONLY <2>2, <2>3, <2>4, Zenon
  <1> HIDE DEF ord2
  <1>7. Len(ord2) = Len(o) /\ \A p \in 1..Len(o) : o[p] = ord2[p]
    BY ONLY <1>1, <1>3, <1>6, Zenon
  <1>8. ord2 = o
    <2>1. ord2 = [p \in 1..Len(ord2) |-> ord2[p]] /\ o = [p \in 1..Len(o) |-> o[p]]
      BY ONLY <1>6, SMT
    <2> QED
      BY ONLY <2>1, <1>7, Zenon
  <1>9. \A id \in DOMAIN sel : id \in DOMAIN s /\ Content(sel[id]) = Content(s[id])
    BY Zenon DEF Lockstep
  <1>10. ASSUME NEW x \in DOMAIN s PROVE x \in DOMAIN sel
    <2>1. P[x] \in DOMAIN ord2 /\ ord2[P[x]] = x
      BY ONLY <1>3, <1>8, x \in DOMAIN s, Zenon
    <2> QED
      BY ONLY <2>1, <1>6, Zenon
  <1>11. DOMAIN sel = DOMAIN s
    BY ONLY <1>9, <1>10, Zenon
  <1>12. Contents(sel) = Contents(s)
    BY ONLY <1>9, <1>11, Zenon DEF Contents
  <1> QED
    BY ONLY <1>8, <1>12, Zenon DEF ord2, Reproduced

\* A return to a waiting call keeps step.
LEMMA LockstepReturns ==
    ASSUME NEW sel, NEW ord, NEW st, NEW TG, NEW PG, Visiting(sel, ord, st, TG, PG), Len(st) # 1,
           NEW s, NEW o, NEW T, NEW P, Complete(s, o, T, P), Lockstep(sel, ord, st, s, o, T, P),
           NEW v, NEW n, IsTop(st, v, n), n \notin DOMAIN sel[v].deps
    PROVE  Lockstep(sel, Append(ord, v), Continued(SubSeq(st, 1, Len(st) - 1)), s, o, T, P)
  <1> DEFINE h == Len(st)
             g == h - 1
             low == SubSeq(st, 1, Len(st) - 1)
             st2 == Continued(low)
             ord2 == Append(ord, v)
             Calls == [id : DOMAIN sel, next : Nat]
  <1>a. NextPlace(ord, v, o, P)
    BY LockstepPlace, Zenon
  <1>1. /\ P[v] = Len(ord2) /\ Len(ord2) <= Len(o)
        /\ \A p \in DOMAIN ord2 : p \in DOMAIN o /\ o[p] = ord2[p]
    BY ONLY <1>a, Zenon DEF NextPlace
  <1>2. st \in Seq(Calls) /\ st # <<>>
    BY Zenon DEF Visiting
  <1>3. h \in Nat /\ h # 0 /\ DOMAIN st = 1..h /\ v = st[h].id
    BY StackBasics, Zenon DEF IsTop
  <1>4. /\ g \in Nat /\ g # 0 /\ g + 1 = h /\ g \in 1..g
        /\ (\A k \in 1..g : k \in 1..h) /\ (\A k \in 1..(g - 1) : k \in 1..g /\ k + 1 \in 1..g)
        /\ \A k \in 1..g : k = g \/ k \in 1..(g - 1)
    <2>1. \A i \in Nat : i # 0 /\ i # 1 =>
            /\ i - 1 \in Nat /\ i - 1 # 0 /\ (i - 1) + 1 = i /\ i - 1 \in 1..(i - 1)
            /\ \A k \in 1..(i - 1) : k \in 1..i
            /\ \A k \in 1..((i - 1) - 1) : k \in 1..(i - 1) /\ k + 1 \in 1..(i - 1)
            /\ \A k \in 1..(i - 1) : k = i - 1 \/ k \in 1..((i - 1) - 1)
      BY ONLY SMT
    <2>2. h \in Nat /\ h # 0 /\ h # 1
      BY <1>3, Zenon
    <2> HIDE DEF h
    <2> QED
      BY ONLY <2>1, <2>2, Zenon
  <1>5. /\ low \in Seq(Calls) /\ low # <<>> /\ Len(low) = g /\ \A k \in 1..g : low[k] = st[k]
    BY <1>2, Popped, Zenon
  <1>6. \A k \in 1..g : T[st[k].id][st[k].next + 1] = P[st[k + 1].id]
    BY Zenon DEF Lockstep
  <1>7. \A j, k \in 1..h : j < k => P[st[k].id] < P[st[j].id]
    BY <1>3, Zenon DEF Lockstep
  <1> HIDE DEF low, Calls, g, h
  <1>8. /\ Len(st2) = g /\ DOMAIN st2 = 1..g
        /\ \A k \in 1..(g - 1) : st2[k] = st[k]
        /\ st2[g].id = st[g].id /\ st2[g].next = st[g].next + 1
    <2>1. /\ Len(st2) = Len(low) /\ DOMAIN st2 = 1..Len(low)
          /\ \A k \in 1..(Len(low) - 1) : st2[k] = low[k]
          /\ st2[Len(low)].id = low[Len(low)].id
          /\ st2[Len(low)].next = low[Len(low)].next + 1
      BY ONLY <1>5, ContinuedStack, Zenon DEF Calls
    <2> HIDE DEF st2
    <2> QED
      BY ONLY <2>1, <1>4, <1>5, Zenon
  <1> HIDE DEF st2
  <1>9. \A k \in 1..g : st2[k].id = st[k].id
    BY ONLY <1>4, <1>8, Zenon
  <1>10. \A k \in 1..(g - 1) : T[st2[k].id][st2[k].next + 1] = P[st2[k + 1].id]
    BY ONLY <1>4, <1>6, <1>8, <1>9, Zenon
  <1>11. \A j, k \in 1..g : j < k => P[st2[k].id] < P[st2[j].id]
    BY ONLY <1>4, <1>7, <1>9, Zenon
  <1>12. T[st2[g].id][st2[g].next] = Len(ord2)
    <2>1. T[st[g].id][st[g].next + 1] = P[st[g + 1].id]
      BY ONLY <1>4, <1>6, Zenon
    <2> QED
      BY ONLY <2>1, <1>1, <1>3, <1>4, <1>8, Zenon
  <1>13. \A id \in DOMAIN sel : id \in DOMAIN s /\ Content(sel[id]) = Content(s[id])
    BY Zenon DEF Lockstep
  <1>14. Lockstep(sel, ord2, st2, s, o, T, P)
    BY ONLY <1>1, <1>8, <1>10, <1>11, <1>12, <1>13, Zenon DEF Lockstep
  <1> QED
    BY <1>14, Zenon DEF st2, low

\* A resolution that follows a lock starts in step with it.
LEMMA LockstepStarts ==
    ASSUME NEW b, b = RootBundle, NEW s, NEW o, NEW T, NEW P, Complete(s, o, T, P)
    PROVE  Lockstep(With(<<>>, b.id, b), <<>>, Append(<<>>, [id |-> b.id, next |-> 1]), s, o, T, P)
  <1> DEFINE call == [id |-> b.id, next |-> 1]
             sel == With(<<>>, b.id, b)
             st == Append(<<>>, call)
             ord == <<>>
  <1>1. DOMAIN sel = {b.id} /\ sel[b.id] = b
    <2>1. Added(<<>>, b.id, b, sel)
      BY SeqBasics, WithNew, Zenon
    <2> HIDE DEF sel
    <2> QED
      BY ONLY <2>1, SeqBasics, Zenon DEF Added
  <1> HIDE DEF sel
  <1>2. Times(s, o, T, P)
    BY Zenon DEF Complete
  <1>3. b.id \in DOMAIN s /\ s[b.id] = b /\ T[b.id][1] = 0
    BY ONLY <1>2, b = RootBundle, Zenon DEF Times, Selection
  <1>4. Len(st) = 1 /\ DOMAIN st = 1..1 /\ st[1] = call
    <2>1. <<>> \in Seq({call})
      BY SMT
    <2> HIDE DEF call
    <2> QED
      BY <2>1, SMT
  <1> HIDE DEF st
  <1>5. call.id = b.id /\ call.next = 1
    BY Zenon
  <1> HIDE DEF call
  <1>6. Len(ord) = 0 /\ DOMAIN ord = {}
    BY SeqBasics, Zenon
  <1> HIDE DEF ord
  <1>7. Len(o) \in Nat
    BY ONLY <1>2, TimesBasics, Zenon
  <1>8. Len(ord) <= Len(o)
    BY ONLY <1>6, <1>7, Counting, Zenon
  <1>9. T[st[Len(st)].id][st[Len(st)].next] = Len(ord)
    BY ONLY <1>3, <1>4, <1>5, <1>6, Zenon
  <1>10. 1..(Len(st) - 1) = {} /\ \A j, k \in DOMAIN st : ~(j < k)
    BY ONLY <1>4, SMT
  <1>11. \A id \in DOMAIN sel : id \in DOMAIN s /\ Content(sel[id]) = Content(s[id])
    BY ONLY <1>1, <1>3, Zenon
  <1>12. Lockstep(sel, ord, st, s, o, T, P)
    BY ONLY <1>6, <1>8, <1>9, <1>10, <1>11, Zenon DEF Lockstep
  <1> QED
    BY <1>12, Zenon DEF sel, st, call, ord

\* A complete graph meets every constraint, and orders a Bundle after its
\* dependencies.
LEMMA CompleteSound ==
    ASSUME NEW s, NEW o, NEW T, NEW P, Complete(s, o, T, P), NEW v \in DOMAIN s,
           NEW n \in DOMAIN s[v].deps
    PROVE  /\ s[v].deps[n].id \in DOMAIN s
           /\ Satisfies(s[s[v].deps[n].id].version, s[v].deps[n].constraint)
           /\ Position(o, s[v].deps[n].id) < Position(o, v)
  <1> DEFINE d == s[v].deps[n].id
  <1>1. LockedDep(s, o, T, P, v, n, d)
    BY LockedDeps, Zenon
  <1> HIDE DEF d
  <1>2. d \in DOMAIN s /\ Satisfies(s[d].version, s[v].deps[n].constraint) /\ P[d] < P[v]
    BY ONLY <1>1, Zenon DEF LockedDep
  <1>3. ASSUME NEW x \in DOMAIN s PROVE Position(o, x) = P[x]
    <2>1. P[x] \in DOMAIN o /\ o[P[x]] = x
      BY x \in DOMAIN s, Zenon DEF Complete, Finished
    <2>2. \A p \in DOMAIN o : P[o[p]] = p
      BY Zenon DEF Complete, Times
    <2>3. Position(o, x) \in DOMAIN o /\ o[Position(o, x)] = x
      BY ONLY <2>1, Zenon DEF Position
    <2> QED
      BY ONLY <2>2, <2>3, Zenon
  <1>4. Position(o, d) < Position(o, v)
    BY ONLY <1>2, <1>3, v \in DOMAIN s, Zenon
  <1> QED
    BY <1>2, <1>4, Zenon DEF d
-----------------------------------------------------------------------------
(* The invariant of the resolver.                                          *)

\* The record has the fields of a graph and no other.
Fields(g) ==
    g = [status |-> g.status, mode |-> g.mode, policy |-> g.policy, selected |-> g.selected,
         order |-> g.order, keys |-> g.keys, distrusted |-> g.distrusted, held |-> g.held]

\* An id and a version name one published Bundle.
RepoInv ==
    /\ repository \subseteq Published
    /\ \A b, c \in repository : b.id = c.id /\ b.version = c.version => b = c

\* A revocation in the file is one in memory.
KeysInv ==
    keyfile # NoFile =>
        /\ Readable(keyfile)
        /\ \A x \in keyfile : x.revoked => x.id \in DOMAIN keyring /\ keyring[x.id].revoked

\* Enough genuine signatures, as the resolver counts them.
SignedBy(b, g) ==
    LET required == IF g.policy.kind = "threshold" THEN g.policy.threshold
                    ELSE IF g.policy.kind = "all" THEN Len(b.signatures) ELSE 1
    IN /\ required > 0
       /\ \E V \in SUBSET DOMAIN b.signatures :
            /\ \A i \in V : Genuine(b.signatures[i], b.id, g)
            /\ Cardinality({g.keys[b.signatures[i].key].key : i \in V}) >= required
\* In Verified mode every selected Bundle is signed.
SignedGraph(g) ==
    g.mode = "verified" => \A id \in DOMAIN g.selected : SignedBy(g.selected[id], g)

\* The modes of resolve.
Modes == {"development", "locked", "verified"}

\* A resolution in progress uses the keyring as it is: nothing changes it meanwhile.
Setting(g) ==
    /\ Fields(g) /\ g.status = "visiting" /\ g.mode \in Modes
    /\ g.keys = keyring /\ g.distrusted = Distrusted /\ (g.held => Held)
    /\ g.mode = "verified" => ProductionPolicy(g.policy) /\ g.policy \in Policies

\* The resolution keeps step with the graph that the lock was written from.
Following(sel, ord, st) ==
    /\ lock = LockOf(locked.selected)
    /\ \E T, P : /\ Complete(locked.selected, locked.order, T, P)
                 /\ Lockstep(sel, ord, st, locked.selected, locked.order, T, P)

\* What holds between two steps of a resolution.
UnderWay(g, st) ==
    /\ Setting(g) /\ SignedGraph(g) /\ \E T, P : Visiting(g.selected, g.order, st, T, P)
    /\ g.mode # "development" => Following(g.selected, g.order, st)

\* The lock was written from a complete graph.
LockWritten ==
    lock = LockOf(locked.selected) /\ \E T, P : Complete(locked.selected, locked.order, T, P)

\* What holds of the last result, a graph or a failure.
Ended(g) ==
    /\ Fields(g) /\ g.status \in {"none", "resolved", "failed"} /\ g.mode \in Modes \cup {"none"}
    /\ g.status = "resolved" =>
         /\ LockWritten /\ SignedGraph(g) /\ \E T, P : Complete(g.selected, g.order, T, P)
         /\ g.mode = "verified" => g.policy \in Policies
         /\ g.mode \in {"locked", "verified"} =>
              Contents(g.selected) = Contents(locked.selected) /\ g.order = locked.order
    /\ g.mode = "locked" /\ g.held => g.status # "failed"

\* The inductive invariant of the resolver.
ResolverInv ==
    /\ RepoInv /\ KeysInv /\ (lock # NoLock => LockWritten)
    /\ calls = <<>> => Ended(graph)
    /\ calls # <<>> => UnderWay(graph, calls)

\* The graph h is g with another status, selection and order.
Changed(g, h, status, selected, order) ==
    /\ Fields(h) /\ h.status = status /\ h.selected = selected /\ h.order = order
    /\ h.mode = g.mode /\ h.policy = g.policy /\ h.keys = g.keys
    /\ h.distrusted = g.distrusted /\ h.held = g.held

\* One field of the graph is assigned.
LEMMA FieldAssigned ==
    ASSUME NEW g, Fields(g), NEW x
    PROVE  /\ Changed(g, [g EXCEPT !.status = x], x, g.selected, g.order)
           /\ Changed(g, [g EXCEPT !.selected = x], g.status, x, g.order)
           /\ Changed(g, [g EXCEPT !.order = x], g.status, g.selected, x)
  <1> DEFINE R(a, b, c) == [status |-> a, mode |-> g.mode, policy |-> g.policy, selected |-> b,
                            order |-> c, keys |-> g.keys, distrusted |-> g.distrusted,
                            held |-> g.held]
             u == g.status
             v == g.selected
             w == g.order
  <1>1. g = R(u, v, w)
    BY Zenon DEF Fields
  <1>2. ASSUME NEW a, NEW b, NEW c PROVE Changed(g, R(a, b, c), a, b, c)
    BY ONLY SMT DEF Changed, Fields
  <1>3. ASSUME NEW a, NEW b, NEW c
        PROVE  /\ [R(a, b, c) EXCEPT !.status = x] = R(x, b, c)
               /\ [R(a, b, c) EXCEPT !.selected = x] = R(a, x, c)
               /\ [R(a, b, c) EXCEPT !.order = x] = R(a, b, x)
    <2>1. [R(a, b, c) EXCEPT !.status = x] = R(x, b, c)
      BY ONLY SMT
    <2>2. [R(a, b, c) EXCEPT !.selected = x] = R(a, x, c)
      BY ONLY SMT
    <2>3. [R(a, b, c) EXCEPT !.order = x] = R(a, b, x)
      BY ONLY SMT
    <2> QED
      BY ONLY <2>1, <2>2, <2>3, Zenon
  <1> HIDE DEF R
  <1> HIDE DEF u, v, w
  <1>4. /\ [g EXCEPT !.status = x] = R(x, v, w)
        /\ [g EXCEPT !.selected = x] = R(u, x, w)
        /\ [g EXCEPT !.order = x] = R(u, v, x)
    <2>1. /\ [R(u, v, w) EXCEPT !.status = x] = R(x, v, w)
          /\ [R(u, v, w) EXCEPT !.selected = x] = R(u, x, w)
          /\ [R(u, v, w) EXCEPT !.order = x] = R(u, v, x)
      BY ONLY <1>3, Zenon
    <2> QED
      BY ONLY <1>1, <2>1, SMT
  <1>5. /\ Changed(g, R(x, v, w), x, v, w) /\ Changed(g, R(u, x, w), u, x, w)
        /\ Changed(g, R(u, v, x), u, v, x)
    BY ONLY <1>2, Zenon
  <1>6. /\ Changed(g, [g EXCEPT !.status = x], x, v, w)
        /\ Changed(g, [g EXCEPT !.selected = x], u, x, w)
        /\ Changed(g, [g EXCEPT !.order = x], u, v, x)
    BY ONLY <1>4, <1>5, Zenon
  <1> QED
    BY ONLY <1>6, Zenon DEF u, v, w

\* The two assignments of several fields, by visit that throws and that returns.
LEMMA FieldsAssigned ==
    ASSUME NEW g, Fields(g), NEW x, NEW y, NEW z
    PROVE  /\ Changed(g, [g EXCEPT !.status = x, !.selected = y, !.order = z], x, y, z)
           /\ Changed(g, [g EXCEPT !.order = z, !.status = x], x, g.selected, z)
  <1> DEFINE g1 == [g EXCEPT !.status = x]
             g2 == [g1 EXCEPT !.selected = y]
             g3 == [g2 EXCEPT !.order = z]
             h1 == [g EXCEPT !.order = z]
             h2 == [h1 EXCEPT !.status = x]
  <1>1. [g EXCEPT !.status = x, !.selected = y, !.order = z] = g3
    BY SMT
  <1>2. [g EXCEPT !.order = z, !.status = x] = h2
    BY SMT
  <1>3. Changed(g, g1, x, g.selected, g.order) /\ Changed(g, h1, g.status, g.selected, z)
    BY FieldAssigned, Zenon
  <1> HIDE DEF g1, h1
  <1>4. Changed(g1, g2, g1.status, y, g1.order) /\ Changed(h1, h2, x, h1.selected, h1.order)
    <2>1. Fields(g1) /\ Fields(h1) /\ h1.status = g.status
      BY ONLY <1>3, Zenon DEF Changed
    <2> QED
      BY ONLY <2>1, FieldAssigned, Zenon
  <1> HIDE DEF g2, h2
  <1>5. Changed(g2, g3, g2.status, g2.selected, z)
    <2>1. Fields(g2)
      BY ONLY <1>4, Zenon DEF Changed
    <2> QED
      BY ONLY <2>1, FieldAssigned, Zenon
  <1> HIDE DEF g3
  <1>6. Changed(g, g3, x, y, z) /\ Changed(g, h2, x, g.selected, z)
    BY <1>3, <1>4, <1>5, Zenon DEF Changed
  <1> QED
    BY <1>1, <1>2, <1>6, Zenon

\* The signatures that the resolver counts are genuine.
LEMMA SignaturesCount ==
    ASSUME KeysInv, NEW b, NEW g, SignaturesMet(b, g.policy), ProductionPolicy(g.policy),
           g.keys = keyring, g.distrusted = Distrusted
    PROVE  SignedBy(b, g)
  <1> DEFINE V == ValidSignatures(b)
  <1>1. V \in SUBSET DOMAIN b.signatures
    BY Zenon DEF ValidSignatures
  <1>2. ASSUME NEW i \in V PROVE Genuine(b.signatures[i], b.id, g)
    <2> DEFINE k == b.signatures[i].key
    <2>1. k \in Found(b.id) /\ b.signatures[i].verifies
      BY <1>2, Zenon DEF ValidSignatures
    <2> HIDE DEF k
    <2>2. /\ k \in DOMAIN keyring /\ ~keyring[k].revoked
          /\ keyring[k].scopes # {} => \E s \in keyring[k].scopes : NamespaceMatch(b.id, s)
      BY ONLY <2>1, Zenon DEF Found
    <2>3. k \notin Distrusted
      BY <2>2, Zenon DEF Distrusted, KeysInv
    <2>4. k \in DOMAIN g.keys \ g.distrusted
      BY <2>2, <2>3, Zenon
    <2>5. \/ g.keys[k].scopes = {}
          \/ \E s \in g.keys[k].scopes : NamespaceMatch(b.id, s)
      BY <2>2, Zenon
    <2> QED
      BY <2>1, <2>4, <2>5, Zenon DEF Genuine, k
  <1>3. g.policy.kind # "disabled"
    BY Zenon DEF ProductionPolicy
  <1>4. ValidPublicKeys(b) = {g.keys[b.signatures[i].key].key : i \in V}
    BY Zenon DEF ValidPublicKeys
  <1> HIDE DEF V
  <1> QED
    BY <1>1, <1>2, <1>3, <1>4, Zenon DEF SignaturesMet, SignedBy

\* A signature counts as long as keys, revocations and policy stay.
LEMMA SignedStays ==
    ASSUME NEW b, NEW g, NEW h, SignedBy(b, g),
           h.keys = g.keys, h.distrusted = g.distrusted, h.policy = g.policy
    PROVE  SignedBy(b, h)
  <1>1. \A x : Genuine(x, b.id, g) => Genuine(x, b.id, h)
    BY Zenon DEF Genuine
  <1> QED
    BY <1>1, Zenon DEF SignedBy

\* A step of a resolution writes neither repository, keyring nor lock.
Still == UNCHANGED <<repository, keyring, keyfile, lock, locked>>

\* A step of a resolution that goes on.
LEMMA UnderWayNext ==
    ASSUME NEW g, Setting(g), NEW sel, NEW ord, NEW st, calls' = st, Still,
           Changed(g, graph', "visiting", sel, ord),
           g.mode = "verified" => \A id \in DOMAIN sel : SignedBy(sel[id], g),
           \E T, P : Visiting(sel, ord, st, T, P),
           g.mode # "development" => Following(sel, ord, st)
    PROVE  UnderWay(graph, calls)'
  <1>1. /\ Fields(graph') /\ graph'.status = "visiting" /\ graph'.selected = sel
        /\ graph'.order = ord /\ graph'.mode = g.mode /\ graph'.policy = g.policy
        /\ graph'.keys = g.keys /\ graph'.distrusted = g.distrusted /\ graph'.held = g.held
    BY Zenon DEF Changed
  <1>2. Distrusted' = Distrusted /\ (Held => Held')
    BY Zenon DEF Still, Distrusted, Held
  <1>3. Setting(graph)'
    BY <1>1, <1>2, Zenon DEF Setting, Still
  <1>4. SignedGraph(graph)'
    <2> SUFFICES ASSUME graph'.mode = "verified", NEW id \in DOMAIN graph'.selected
                 PROVE  SignedBy(graph'.selected[id], graph')
      BY Zenon DEF SignedGraph
    <2>1. id \in DOMAIN sel /\ SignedBy(sel[id], g)
      BY <1>1, Zenon
    <2>2. SignedBy(sel[id], graph')
      BY ONLY <2>1, <1>1, SignedStays, Zenon
    <2> QED
      BY <2>2, <1>1, Zenon
  <1>5. (\E T, P : Visiting(graph.selected, graph.order, calls, T, P))'
    BY <1>1, Zenon
  <1>6. (graph.mode # "development" => Following(graph.selected, graph.order, calls))'
    BY <1>1, Zenon DEF Following, Still
  <1> QED
    BY ONLY <1>3, <1>4, <1>5, <1>6, Zenon DEF UnderWay

\* visit throws.
LEMMA ThrownEnds ==
    ASSUME NEW g, Setting(g), Thrown(g), ~(g.mode = "locked" /\ g.held)
    PROVE  Ended(graph)' /\ calls' = <<>>
  <1>1. Fields(g) /\ g.mode \in Modes
    BY Zenon DEF Setting
  <1>2. /\ calls' = <<>>
        /\ graph' = [g EXCEPT !.status = "failed", !.selected = <<>>, !.order = <<>>]
    BY Zenon DEF Thrown
  <1>3. Changed(g, graph', "failed", <<>>, <<>>)
    BY <1>1, <1>2, FieldsAssigned, Zenon
  <1>4. /\ Fields(graph') /\ graph'.status = "failed" /\ graph'.mode = g.mode
        /\ graph'.held = g.held
    BY ONLY <1>3, Zenon DEF Changed
  <1>5. "failed" # "resolved" /\ "failed" \in {"none", "resolved", "failed"}
    BY Zenon
  <1>6. Ended(graph)'
    BY <1>1, <1>4, <1>5, Zenon DEF Ended
  <1> QED
    BY <1>2, <1>6, Zenon

\* visit of a Bundle that is admitted.
LEMMA AdmittedGoesOn ==
    ASSUME NEW g, Setting(g), SignedGraph(g), KeysInv, Still, NEW b, Admitted(b, g),
           graph' = [g EXCEPT !.selected = With(@, b.id, b)], NEW st, calls' = st,
           \E T, P : Visiting(With(g.selected, b.id, b), g.order, st, T, P),
           g.mode # "development" => Following(With(g.selected, b.id, b), g.order, st)
    PROVE  UnderWay(graph, calls)'
  <1> DEFINE sel == With(g.selected, b.id, b)
  <1>1. /\ Fields(g) /\ g.status = "visiting" /\ g.keys = keyring /\ g.distrusted = Distrusted
        /\ g.mode = "verified" => ProductionPolicy(g.policy)
    BY Zenon DEF Setting
  <1>2. Changed(g, graph', "visiting", sel, g.order)
    <2>1. graph' = [g EXCEPT !.selected = sel]
      BY Zenon
    <2> HIDE DEF sel
    <2> QED
      BY ONLY <1>1, <2>1, FieldAssigned, Zenon
  <1>3. ASSUME g.mode = "verified", NEW id \in DOMAIN sel PROVE SignedBy(sel[id], g)
    <2>1. /\ id = b.id => sel[id] = b
          /\ id # b.id => id \in DOMAIN g.selected /\ sel[id] = g.selected[id]
      BY <1>3, Zenon DEF With
    <2>2. SignedBy(b, g)
      BY <1>1, <1>3, SignaturesCount, Zenon DEF Admitted
    <2>3. \A x \in DOMAIN g.selected : SignedBy(g.selected[x], g)
      BY <1>3, Zenon DEF SignedGraph
    <2> HIDE DEF sel
    <2> QED
      BY ONLY <2>1, <2>2, <2>3, Zenon
  <1> HIDE DEF sel
  <1>4. /\ \E T, P : Visiting(sel, g.order, st, T, P)
        /\ g.mode # "development" => Following(sel, g.order, st)
    BY Zenon DEF sel
  <1> QED
    BY <1>2, <1>3, <1>4, UnderWayNext, Zenon

\* What a step of a resolution leaves alone.
LEMMA StillRest ==
    ASSUME RepoInv, KeysInv, lock # NoLock => LockWritten, Still
    PROVE  RepoInv' /\ KeysInv' /\ (lock # NoLock => LockWritten)'
  <1>1. RepoInv' /\ KeysInv'
    BY Zenon DEF RepoInv, KeysInv, Still
  <1>2. (lock # NoLock => LockWritten)'
    BY Zenon DEF LockWritten, Still
  <1> QED
    BY <1>1, <1>2, Zenon

\* The lock has the version and the digest of what was selected, and the digest
\* tells contents apart.
LEMMA LockPins ==
    ASSUME LockWritten
    PROVE  /\ \A id \in DOMAIN locked.selected :
                /\ id \in DOMAIN lock /\ locked.selected[id] \in Bundles
                /\ locked.selected[id].id = id
                /\ lock[id] = [version |-> locked.selected[id].version,
                               digest |-> locked.selected[id].digest]
                /\ lock[id].version = locked.selected[id].version
           /\ RootBundle.id \in DOMAIN locked.selected
           /\ locked.selected[RootBundle.id] = RootBundle
           /\ \A b \in Bundles :
                b.id \in DOMAIN lock /\ lock[b.id] = [version |-> b.version, digest |-> b.digest]
                => b.id \in DOMAIN locked.selected /\ Content(b) = Content(locked.selected[b.id])
  <1> DEFINE s == locked.selected
  <1>1. Selection(s) /\ RootBundle.id \in DOMAIN s
    BY Zenon DEF LockWritten, Complete, Times
  <1>2. lock = LockOf(s)
    BY Zenon DEF LockWritten
  <1> HIDE DEF s
  <1>3. ASSUME NEW id \in DOMAIN s
        PROVE  /\ id \in DOMAIN lock /\ s[id] \in Bundles /\ s[id].id = id
               /\ lock[id] = [version |-> s[id].version, digest |-> s[id].digest]
               /\ lock[id].version = s[id].version
    <2>1. s[id] \in Bundles /\ s[id].id = id
      BY ONLY <1>1, <1>3, Zenon DEF Selection, Bundles, Published
    <2>2. id \in DOMAIN lock /\ lock[id] = [version |-> s[id].version, digest |-> s[id].digest]
      BY ONLY <1>2, <1>3, Zenon DEF LockOf
    <2>3. lock[id].version = s[id].version
      BY ONLY <2>2, SMT
    <2> QED
      BY ONLY <2>1, <2>2, <2>3, Zenon
  <1>4. s[RootBundle.id] = RootBundle
    BY ONLY <1>1, Zenon DEF Selection
  <1>5. ASSUME NEW b \in Bundles, b.id \in DOMAIN lock,
               lock[b.id] = [version |-> b.version, digest |-> b.digest]
        PROVE  b.id \in DOMAIN s /\ Content(b) = Content(s[b.id])
    <2>1. b.id \in DOMAIN s
      BY ONLY <1>2, <1>5, Zenon DEF LockOf
    <2>2. s[b.id] \in Bundles /\ lock[b.id] = [version |-> s[b.id].version, digest |-> s[b.id].digest]
      BY ONLY <1>3, <2>1, Zenon
    <2>3. s[b.id].digest = b.digest
      BY ONLY <1>5, <2>2, SMT
    <2> QED
      BY <1>5, <2>1, <2>2, <2>3, BundleAssumption, Zenon
  <1> QED
    BY <1>1, <1>3, <1>4, <1>5, Zenon DEF s

\* resolve starts.
LEMMA ResolveInv ==
    ASSUME ResolverInv, NEW mode \in Modes, NEW policy, Resolve(mode, policy),
           mode = "verified" => policy \in Policies /\ ProductionPolicy(policy),
           mode # "development" => lock # NoLock
    PROVE  ResolverInv'
  <1> DEFINE g == [status |-> "visiting", mode |-> mode, policy |-> policy, selected |-> <<>>,
                   order |-> <<>>, keys |-> keyring, distrusted |-> Distrusted,
                   held |-> mode # "development" /\ Held]
             b == RootBundle
             st == Append(<<>>, [id |-> b.id, next |-> 1])
  <1>1. calls = <<>> /\ Still /\ Enter(b, g)
    BY Zenon DEF Resolve, Still, keyringVars
  <1>2. RepoInv /\ KeysInv /\ (lock # NoLock => LockWritten)
    BY Zenon DEF ResolverInv
  <1>3. RepoInv' /\ KeysInv' /\ (lock # NoLock => LockWritten)'
    BY ONLY <1>1, <1>2, StillRest, ZenonT(60)
  <1>4. /\ Fields(g) /\ g.status = "visiting" /\ g.mode = mode /\ g.policy = policy
        /\ g.selected = <<>> /\ g.order = <<>> /\ g.keys = keyring /\ g.distrusted = Distrusted
        /\ g.held = (mode # "development" /\ Held)
    BY ONLY SMT DEF Fields
  <1> HIDE DEF g
  <1>5. Setting(g)
    BY <1>4, Zenon DEF Setting
  <1>6. SignedGraph(g)
    BY <1>4, SeqBasics, Zenon DEF SignedGraph
  <1>7. CASE Admitted(b, g)
    <2>1. graph' = [g EXCEPT !.selected = With(@, b.id, b)] /\ calls' = st
      BY <1>1, <1>7, Zenon DEF Enter
    <2>2. \E T, P : Visiting(With(g.selected, b.id, b), g.order, st, T, P)
      BY <1>4, VisitingStarts, Zenon
    <2>3. ASSUME g.mode # "development" PROVE Following(With(g.selected, b.id, b), g.order, st)
      <3>1. LockWritten
        BY <1>2, <1>4, <2>3, Zenon
      <3>2. PICK T, P : Complete(locked.selected, locked.order, T, P)
        BY <3>1, Zenon DEF LockWritten
      <3>3. Lockstep(With(g.selected, b.id, b), g.order, st, locked.selected, locked.order, T, P)
        BY <1>4, <3>2, LockstepStarts, Zenon
      <3> QED
        BY <3>1, <3>2, <3>3, Zenon DEF Following, LockWritten
    <2>4. UnderWay(graph, calls)'
      BY <1>1, <1>2, <1>5, <1>6, <1>7, <2>1, <2>2, <2>3, AdmittedGoesOn, ZenonT(60)
    <2>5. calls' # <<>>
      BY <2>4, Zenon DEF UnderWay, Visiting
    <2> QED
      BY ONLY <1>3, <2>4, <2>5, Zenon DEF ResolverInv
  <1>8. CASE ~Admitted(b, g)
    <2>1. Thrown(g)
      BY <1>1, <1>8, Zenon DEF Enter
    <2>2. g.mode # "locked"
      <3> SUFFICES ASSUME g.mode = "locked" PROVE Admitted(b, g)
        BY <1>8, Zenon
      <3>1. LockWritten
        BY <1>2, <1>4, Zenon
      <3>2. /\ b.id \in DOMAIN lock
            /\ lock[b.id] = [version |-> b.version, digest |-> b.digest]
        <4>1. b.id \in DOMAIN locked.selected /\ locked.selected[b.id] = b
          BY <3>1, LockPins, Zenon
        <4>2. /\ b.id \in DOMAIN lock
              /\ lock[b.id] = [version |-> locked.selected[b.id].version,
                               digest |-> locked.selected[b.id].digest]
          BY <3>1, <4>1, LockPins, Zenon
        <4> QED
          BY ONLY <4>1, <4>2, Zenon
      <3> QED
        BY <3>2, Zenon DEF Admitted
    <2>3. Ended(graph)' /\ calls' = <<>>
      BY <1>5, <2>1, <2>2, ThrownEnds, Zenon
    <2> QED
      BY ONLY <1>3, <2>3, Zenon DEF ResolverInv
  <1> QED
    BY <1>7, <1>8, Zenon

\* Where a resolution stands: its innermost call, and the graph of the lock.
Standing(v, n) ==
    /\ RepoInv /\ KeysInv /\ (lock # NoLock => LockWritten)
    /\ Setting(graph) /\ SignedGraph(graph) /\ IsTop(calls, v, n) /\ calls # <<>>

\* What a step of a resolution may rely on.
LEMMA Stands ==
    ASSUME ResolverInv, calls # <<>>
    PROVE  /\ Standing(Top.id, Top.next) /\ UnderWay(graph, calls)
           /\ graph.status = "visiting" /\ graph.mode \in Modes
  BY Zenon DEF ResolverInv, Standing, UnderWay, Setting, IsTop, Top

\* The locked contents are there, so the next dependency of a Locked resolution
\* is no cycle, agrees with the choice that was made, and leads to one Bundle,
\* the one that the lock admits.
LEMMA LockedGoesOn ==
    ASSUME NEW v, NEW n, Standing(v, n), UnderWay(graph, calls), graph.mode = "locked", graph.held,
           n \in DOMAIN graph.selected[v].deps,
           NEW dep, dep = graph.selected[v].deps[n]
    PROVE  /\ \A k \in DOMAIN calls : calls[k].id # dep.id
           /\ dep.id \in DOMAIN graph.selected => Agrees(dep)
           /\ dep.id \notin DOMAIN graph.selected =>
                /\ Candidates(dep, graph.mode) # {}
                /\ \A b \in Candidates(dep, graph.mode) : Admitted(b, graph)
  <1> DEFINE sel == graph.selected
             s == locked.selected
             d == dep.id
  <1>1. PICK TG, PG : Visiting(sel, graph.order, calls, TG, PG)
    BY Zenon DEF UnderWay
  <1>2. Following(sel, graph.order, calls)
    BY Zenon DEF UnderWay
  <1>3. PICK T, P : /\ Complete(s, locked.order, T, P)
                    /\ Lockstep(sel, graph.order, calls, s, locked.order, T, P)
    BY <1>2, Zenon DEF Following
  <1>4. IsTop(calls, v, n) /\ RepoInv /\ Held
    BY Zenon DEF Standing, Setting
  <1>5. /\ \A k \in DOMAIN calls : calls[k].id # d
        /\ d \in DOMAIN sel => Satisfies(sel[d].version, sel[v].deps[n].constraint)
        /\ d \in DOMAIN s /\ Satisfies(s[d].version, sel[v].deps[n].constraint)
    <2>1. d = sel[v].deps[n].id /\ n \in DOMAIN sel[v].deps
      BY Zenon
    <2> HIDE DEF d, sel, s
    <2>2. Fits(sel, calls, s, v, n, d)
      BY ONLY <1>1, <1>3, <1>4, <2>1, LockstepAgrees, ZenonT(60)
    <2> QED
      BY ONLY <2>2, Zenon DEF Fits
  <1>6. d \in DOMAIN sel => Agrees(dep)
    BY <1>5, Zenon DEF Agrees
  <1>7. LockWritten
    BY <1>2, <1>3, Zenon DEF Following, LockWritten
  <1>8. /\ d \in DOMAIN lock /\ s[d].id = d
        /\ lock[d] = [version |-> s[d].version, digest |-> s[d].digest]
        /\ lock[d].version = s[d].version
    BY <1>5, <1>7, LockPins, Zenon
  <1>9. ASSUME d \notin DOMAIN sel
        PROVE  /\ Candidates(dep, graph.mode) # {}
               /\ \A b \in Candidates(dep, graph.mode) : Admitted(b, graph)
    <2>1. RootBundle.id \in DOMAIN sel
      BY <1>1, Zenon DEF Visiting, Times
    <2>2. d \in DOMAIN s \ {RootBundle.id}
      BY <1>5, <1>9, <2>1, Zenon
    <2>3. PICK b \in repository : Content(b) = Content(s[d])
      BY <1>4, <2>2, Zenon DEF Held
    <2>4. b.id = d /\ b.version = s[d].version /\ b.digest = s[d].digest
      BY ONLY <2>3, <1>8, ContentFields, ZenonT(60)
    <2>5. "locked" # "development" /\ "locked" # "verified"
      BY Zenon
    <2>6. b \in Candidates(dep, graph.mode)
      BY <1>5, <1>8, <2>4, <2>5, Zenon DEF Candidates
    <2>7. ASSUME NEW c \in Candidates(dep, graph.mode) PROVE Admitted(c, graph)
      <3>1. c \in repository /\ c.id = d /\ c.version = lock[d].version
        BY <2>5, <2>7, Zenon DEF Candidates
      <3>2. c = b
        <4>1. c.id = b.id /\ c.version = b.version
          BY ONLY <1>8, <2>4, <3>1, Zenon
        <4> QED
          BY ONLY <1>4, <3>1, <4>1, b \in repository, Zenon DEF RepoInv
      <3>3. c.id \in DOMAIN lock /\ lock[c.id] = [version |-> c.version, digest |-> c.digest]
        <4>1. b.id \in DOMAIN lock /\ lock[b.id] = [version |-> b.version, digest |-> b.digest]
          BY ONLY <1>8, <2>4, Zenon
        <4> QED
          BY ONLY <4>1, <3>2, Zenon
      <3> QED
        BY <2>5, <3>3, Zenon DEF Admitted
    <2> QED
      BY <2>6, <2>7, Zenon
  <1> QED
    BY <1>5, <1>6, <1>9, Zenon

\* A dependency that is selected and agrees.
LEMMA ContinueGoesOn ==
    ASSUME NEW v, NEW n, Standing(v, n), UnderWay(graph, calls), n \in DOMAIN graph.selected[v].deps,
           NEW dep, dep = graph.selected[v].deps[n], dep.id \in DOMAIN graph.selected,
           \A k \in DOMAIN calls : calls[k].id # dep.id,
           Agrees(dep), calls' = Continued(calls), graph' = graph, Still
    PROVE  UnderWay(graph, calls)'
  <1> DEFINE sel == graph.selected
             ord == graph.order
             d == dep.id
  <1>1. PICK TG, PG : Visiting(sel, ord, calls, TG, PG)
    BY Zenon DEF UnderWay
  <1>2. IsTop(calls, v, n) /\ v = calls[Len(calls)].id /\ n = calls[Len(calls)].next
    BY Zenon DEF Standing, IsTop
  <1>3. /\ d = sel[v].deps[n].id /\ d \in DOMAIN sel /\ n \in DOMAIN sel[v].deps
        /\ Satisfies(sel[d].version, sel[v].deps[n].constraint)
        /\ \A k \in DOMAIN calls : calls[k].id # d
    BY Zenon DEF Agrees
  <1>4. Setting(graph) /\ Fields(graph) /\ graph.status = "visiting"
    BY Zenon DEF Standing, Setting
  <1>5. Changed(graph, graph', "visiting", sel, ord)
    BY <1>4, Zenon DEF Changed
  <1>6. graph.mode = "verified" => \A id \in DOMAIN sel : SignedBy(sel[id], graph)
    BY Zenon DEF Standing, SignedGraph
  <1>7. ASSUME graph.mode # "development" PROVE Following(sel, ord, Continued(calls))
    <2>1. Following(sel, ord, calls)
      BY <1>7, Zenon DEF UnderWay
    <2>2. PICK T, P : /\ Complete(locked.selected, locked.order, T, P)
                      /\ Lockstep(sel, ord, calls, locked.selected, locked.order, T, P)
      BY <2>1, Zenon DEF Following
    <2>3. \A k \in DOMAIN calls : calls[k].id # sel[v].deps[n].id
      BY <1>3, Zenon
    <2>4. sel[v].deps[n].id \in DOMAIN sel /\ n \in DOMAIN sel[v].deps
      BY <1>3, Zenon
    <2> HIDE DEF sel, ord, d
    <2>5. Lockstep(sel, ord, Continued(calls), locked.selected, locked.order, T, P)
      BY ONLY <1>1, <1>2, <2>2, <2>3, <2>4, LockstepContinues, ZenonT(60)
    <2> QED
      BY ONLY <2>1, <2>2, <2>5, Zenon DEF Following
  <1> HIDE DEF sel, ord, d
  <1>8. \E T, P : Visiting(sel, ord, Continued(calls), T, P)
    <2>1. \E T2 : Visiting(sel, ord, Continued(calls), T2, PG)
      <3>1. d = sel[v].deps[n].id
        BY ONLY <1>3
      <3>2. d \in DOMAIN sel
        BY ONLY <1>3
      <3>3. n \in DOMAIN sel[v].deps
        BY ONLY <1>3
      <3>4. Satisfies(sel[d].version, sel[v].deps[n].constraint)
        BY ONLY <1>3
      <3>5. \A k \in DOMAIN calls : calls[k].id # d
        BY ONLY <1>3
      <3>6. v = calls[Len(calls)].id
        BY ONLY <1>2
      <3>7. n = calls[Len(calls)].next
        BY ONLY <1>2
      <3> QED
        BY ONLY <1>1, <3>1, <3>2, <3>3, <3>4, <3>5, <3>6, <3>7, VisitingContinues, ZenonT(60)
    <2> QED
      BY ONLY <2>1, Zenon
  <1> QED
    BY <1>4, <1>5, <1>6, <1>7, <1>8, UnderWayNext, ZenonT(60)

\* A dependency that is visited.
LEMMA EnterGoesOn ==
    ASSUME NEW v, NEW n, Standing(v, n), UnderWay(graph, calls), n \in DOMAIN graph.selected[v].deps,
           NEW dep, dep = graph.selected[v].deps[n], dep.id \notin DOMAIN graph.selected,
           NEW b \in Candidates(dep, graph.mode), Admitted(b, graph),
           graph' = [graph EXCEPT !.selected = With(@, b.id, b)],
           calls' = Append(calls, [id |-> b.id, next |-> 1]), Still
    PROVE  UnderWay(graph, calls)'
  <1> DEFINE sel == graph.selected
             ord == graph.order
             st == Append(calls, [id |-> b.id, next |-> 1])
  <1>1. PICK TG, PG : Visiting(sel, ord, calls, TG, PG)
    BY Zenon DEF UnderWay
  <1>2. IsTop(calls, v, n) /\ v = calls[Len(calls)].id /\ n = calls[Len(calls)].next
    BY Zenon DEF Standing, IsTop
  <1>3. b \in repository /\ b.id = dep.id /\ Satisfies(b.version, dep.constraint)
    BY Zenon DEF Candidates
  <1>4. b \in Published /\ b \in Bundles
    BY <1>3, Zenon DEF Standing, RepoInv, Published, Bundles
  <1>5. /\ b.id = sel[v].deps[n].id /\ b.id \notin DOMAIN sel /\ n \in DOMAIN sel[v].deps
        /\ Satisfies(b.version, sel[v].deps[n].constraint)
    BY <1>3, Zenon
  <1>6. Setting(graph) /\ SignedGraph(graph) /\ KeysInv
    BY Zenon DEF Standing
  <1>7. ASSUME graph.mode # "development" PROVE Following(With(sel, b.id, b), ord, st)
    <2>1. Following(sel, ord, calls)
      BY <1>7, Zenon DEF UnderWay
    <2>2. PICK T, P : /\ Complete(locked.selected, locked.order, T, P)
                      /\ Lockstep(sel, ord, calls, locked.selected, locked.order, T, P)
      BY <2>1, Zenon DEF Following
    <2>3. LockWritten
      BY <2>1, <2>2, Zenon DEF Following, LockWritten
    <2>4. b.id \in DOMAIN lock /\ lock[b.id] = [version |-> b.version, digest |-> b.digest]
      BY <1>7, Zenon DEF Admitted
    <2>5. Content(b) = Content(locked.selected[b.id])
      BY ONLY <1>4, <2>3, <2>4, LockPins, Zenon
    <2> HIDE DEF sel, ord
    <2>6. Lockstep(With(sel, b.id, b), ord, st, locked.selected, locked.order, T, P)
      BY ONLY <1>1, <1>2, <1>5, <2>2, <2>5, LockstepEnters, ZenonT(60)
    <2> QED
      BY ONLY <2>1, <2>2, <2>6, Zenon DEF Following
  <1> HIDE DEF sel, ord
  <1>8. \E T, P : Visiting(With(sel, b.id, b), ord, st, T, P)
    BY ONLY <1>1, <1>2, <1>4, <1>5, VisitingEnters, ZenonT(60)
  <1>9. /\ \E T, P : Visiting(With(graph.selected, b.id, b), graph.order, st, T, P)
        /\ graph.mode # "development" => Following(With(graph.selected, b.id, b), graph.order, st)
    BY <1>7, <1>8, Zenon DEF sel, ord
  <1>10. calls' = st
    BY Zenon
  <1> HIDE DEF st
  <1> QED
    BY <1>6, <1>9, <1>10, AdmittedGoesOn, Zenon

\* The next dependency of the innermost call.
LEMMA DependInv ==
    ASSUME ResolverInv, Depend
    PROVE  ResolverInv'
  <1> DEFINE v == Top.id
             n == Top.next
             dep == graph.selected[v].deps[n]
             fit == Candidates(dep, graph.mode)
  <1>1. calls # <<>> /\ n \in DOMAIN graph.selected[v].deps /\ Still
    BY Zenon DEF Depend, Still, keyringVars
  <1>2. \/ dep.id \in Active /\ Thrown(graph)
        \/ /\ dep.id \in DOMAIN graph.selected \ Active
           /\ \/ Agrees(dep) /\ calls' = Continued(calls) /\ UNCHANGED graph
              \/ ~Agrees(dep) /\ Thrown(graph)
        \/ /\ dep.id \notin DOMAIN graph.selected
           /\ \/ \E b \in fit : Enter(b, graph)
              \/ fit = {} /\ Thrown(graph)
    BY Zenon DEF Depend
  <1>3. Standing(v, n) /\ UnderWay(graph, calls)
    BY <1>1, Stands, Zenon
  <1> HIDE DEF v, n
  <1>4. PICK e : e = dep
    BY Zenon
  <1> HIDE DEF dep
  <1>5. RepoInv' /\ KeysInv' /\ (lock # NoLock => LockWritten)'
    BY <1>1, <1>3, StillRest, Zenon DEF Standing
  <1>6. e.id \in Active <=> \E k \in DOMAIN calls : calls[k].id = e.id
    BY Zenon DEF Active
  <1>7. ASSUME graph.mode = "locked", graph.held
        PROVE  /\ \A k \in DOMAIN calls : calls[k].id # e.id
               /\ e.id \in DOMAIN graph.selected => Agrees(e)
               /\ e.id \notin DOMAIN graph.selected =>
                    /\ Candidates(e, graph.mode) # {}
                    /\ \A b \in Candidates(e, graph.mode) : Admitted(b, graph)
    <2>1. e = graph.selected[v].deps[n]
      BY <1>4, Zenon DEF dep
    <2> QED
      BY ONLY <1>1, <1>3, <1>7, <2>1, LockedGoesOn, ZenonT(60)
  <1>8. e = graph.selected[v].deps[n]
    BY <1>4, Zenon DEF dep
  <1>9. ASSUME Thrown(graph), ~(graph.mode = "locked" /\ graph.held) PROVE ResolverInv'
    <2>1. Ended(graph)' /\ calls' = <<>>
      BY ONLY <1>3, <1>9, ThrownEnds, Zenon DEF Standing
    <2> QED
      BY ONLY <1>5, <2>1, Zenon DEF ResolverInv
  <1>10. ASSUME UnderWay(graph, calls)' PROVE ResolverInv'
    <2>1. calls' # <<>>
      BY ONLY <1>10, Zenon DEF UnderWay, Visiting
    <2> QED
      BY ONLY <1>5, <1>10, <2>1, Zenon DEF ResolverInv
  <1>11. CASE e.id \in Active /\ Thrown(graph)
    BY ONLY <1>6, <1>7, <1>9, <1>11, Zenon
  <1>12. CASE e.id \in DOMAIN graph.selected \ Active /\ ~Agrees(e) /\ Thrown(graph)
    BY ONLY <1>7, <1>9, <1>12, Zenon
  <1>13. CASE /\ e.id \in DOMAIN graph.selected \ Active
              /\ Agrees(e) /\ calls' = Continued(calls) /\ UNCHANGED graph
    <2>1. e.id \in DOMAIN graph.selected /\ \A k \in DOMAIN calls : calls[k].id # e.id
      BY ONLY <1>6, <1>13, Zenon
    <2>2. UnderWay(graph, calls)'
      BY ONLY <1>1, <1>3, <1>8, <1>13, <2>1, ContinueGoesOn, ZenonT(60)
    <2> QED
      BY ONLY <1>10, <2>2, Zenon
  <1>14. CASE e.id \notin DOMAIN graph.selected /\ Candidates(e, graph.mode) = {} /\ Thrown(graph)
    BY ONLY <1>7, <1>9, <1>14, Zenon
  <1>15. CASE e.id \notin DOMAIN graph.selected /\ \E b \in Candidates(e, graph.mode) : Enter(b, graph)
    <2>1. PICK b \in Candidates(e, graph.mode) : Enter(b, graph)
      BY <1>15, Zenon
    <2>2. CASE Admitted(b, graph)
      <3>1. /\ graph' = [graph EXCEPT !.selected = With(@, b.id, b)]
            /\ calls' = Append(calls, [id |-> b.id, next |-> 1])
        BY ONLY <2>1, <2>2, Zenon DEF Enter
      <3>2. UnderWay(graph, calls)'
        BY ONLY <1>1, <1>3, <1>8, <1>15, <2>1, <2>2, <3>1, EnterGoesOn, ZenonT(60)
      <3> QED
        BY ONLY <1>10, <3>2, ZenonT(60)
    <2>3. CASE ~Admitted(b, graph)
      <3>1. Thrown(graph)
        BY ONLY <2>1, <2>3, Zenon DEF Enter
      <3> QED
        BY ONLY <1>7, <1>9, <1>15, <2>1, <2>3, <3>1, ZenonT(60)
    <2> QED
      BY <2>2, <2>3, Zenon
  <1> QED
    BY ONLY <1>2, <1>4, <1>11, <1>12, <1>13, <1>14, <1>15, ZenonT(60) DEF fit

\* The call of the root returns: the resolution ends.
LEMMA LastReturns ==
    ASSUME ResolverInv, Return, Len(calls) = 1
    PROVE  ResolverInv'
  <1> DEFINE v == Top.id
             n == Top.next
             sel == graph.selected
             ord == graph.order
             ord2 == Append(ord, v)
  <1>1. /\ calls # <<>> /\ n \notin DOMAIN sel[v].deps /\ calls' = <<>>
        /\ graph' = [graph EXCEPT !.order = ord2, !.status = "resolved"]
        /\ repository' = repository /\ keyring' = keyring /\ keyfile' = keyfile
    BY Zenon DEF Return, keyringVars
  <1>2. /\ graph.mode = "development" =>
             lock' = LockOf(sel) /\ locked' = [selected |-> sel, order |-> graph'.order]
        /\ graph.mode # "development" => lock' = lock /\ locked' = locked
    BY Zenon DEF Return
  <1>3. Standing(v, n) /\ UnderWay(graph, calls) /\ graph.mode \in Modes
    BY <1>1, Stands, Zenon
  <1> HIDE DEF v, n
  <1>4. /\ Setting(graph) /\ Fields(graph) /\ IsTop(calls, v, n) /\ SignedGraph(graph)
        /\ graph.mode = "verified" => graph.policy \in Policies
    BY ONLY <1>3, Zenon DEF Standing, Setting
  <1> HIDE DEF ord2
  <1>5. Changed(graph, graph', "resolved", sel, ord2)
    BY ONLY <1>1, <1>4, FieldsAssigned, Zenon
  <1>6. /\ Fields(graph') /\ graph'.status = "resolved" /\ graph'.selected = sel
        /\ graph'.order = ord2 /\ graph'.mode = graph.mode /\ graph'.policy = graph.policy
        /\ graph'.keys = graph.keys /\ graph'.distrusted = graph.distrusted
    BY ONLY <1>5, Zenon DEF Changed
  <1>7. PICK TG, PG : Visiting(sel, ord, calls, TG, PG)
    BY ONLY <1>3, Zenon DEF UnderWay
  <1> HIDE DEF sel, ord
  <1>8. \E T, P : Complete(sel, ord2, T, P)
    BY ONLY <1>1, <1>4, <1>7, Len(calls) = 1, VisitingEnds, ZenonT(60) DEF ord2
  <1>9. RepoInv' /\ KeysInv'
    BY <1>1, <1>3, Zenon DEF Standing, RepoInv, KeysInv
  <1>10. SignedGraph(graph)'
    <2> SUFFICES ASSUME graph'.mode = "verified", NEW id \in DOMAIN graph'.selected
                 PROVE  SignedBy(graph'.selected[id], graph')
      BY Zenon DEF SignedGraph
    <2>1. id \in DOMAIN sel /\ SignedBy(sel[id], graph)
      BY <1>4, <1>6, Zenon DEF SignedGraph, sel
    <2>2. SignedBy(sel[id], graph')
      BY ONLY <2>1, <1>6, SignedStays, Zenon
    <2> QED
      BY ONLY <2>2, <1>6, Zenon
  <1>11. (\E T, P : Complete(graph.selected, graph.order, T, P))'
    BY ONLY <1>6, <1>8, Zenon
  <1>12. /\ LockWritten'
         /\ graph.mode \in {"locked", "verified"} =>
              Contents(sel) = Contents(locked'.selected) /\ ord2 = locked'.order
    <2>1. CASE graph.mode = "development"
      <3>1. lock' = LockOf(sel) /\ locked' = [selected |-> sel, order |-> ord2]
        BY ONLY <1>2, <1>6, <2>1, ZenonT(60)
      <3>2. locked'.selected = sel /\ locked'.order = ord2
        BY ONLY <3>1, SMT
      <3>3. LockWritten'
        BY ONLY <1>8, <3>1, <3>2, Zenon DEF LockWritten
      <3>4. "development" \notin {"locked", "verified"}
        BY ONLY Zenon
      <3> QED
        BY ONLY <2>1, <3>3, <3>4, Zenon
    <2>2. CASE graph.mode # "development"
      <3>1. Following(sel, ord, calls)
        BY ONLY <1>3, <2>2, Zenon DEF UnderWay, sel, ord
      <3>2. PICK T, P : /\ Complete(locked.selected, locked.order, T, P)
                        /\ Lockstep(sel, ord, calls, locked.selected, locked.order, T, P)
        BY ONLY <3>1, Zenon DEF Following
      <3>3. Contents(sel) = Contents(locked.selected) /\ ord2 = locked.order
        <4>1. Reproduced(sel, ord2, locked.selected, locked.order)
          BY ONLY <1>1, <1>4, <1>7, <3>2, Len(calls) = 1, LockstepEnds, ZenonT(60) DEF ord2
        <4> QED
          BY ONLY <4>1, Zenon DEF Reproduced
      <3>4. LockWritten'
        BY ONLY <1>2, <2>2, <3>1, <3>2, ZenonT(60) DEF Following, LockWritten
      <3> QED
        BY ONLY <1>2, <2>2, <3>3, <3>4, ZenonT(60)
    <2> QED
      BY <2>1, <2>2, Zenon
  <1>13. "resolved" # "failed" /\ "resolved" \in {"none", "resolved", "failed"}
    BY ONLY Zenon
  <1>14. Ended(graph)'
    BY ONLY <1>3, <1>4, <1>6, <1>10, <1>11, <1>12, <1>13, ZenonT(60) DEF Ended
  <1> QED
    BY ONLY <1>1, <1>9, <1>12, <1>14, ZenonT(60) DEF ResolverInv

\* An inner call returns to the one that made it.
LEMMA InnerReturns ==
    ASSUME ResolverInv, Return, Len(calls) # 1
    PROVE  ResolverInv'
  <1> DEFINE v == Top.id
             n == Top.next
             sel == graph.selected
             ord == graph.order
             ord2 == Append(ord, v)
             st == Continued(SubSeq(calls, 1, Len(calls) - 1))
  <1>1. /\ calls # <<>> /\ n \notin DOMAIN sel[v].deps /\ calls' = st /\ Still
    BY Zenon DEF Return, keyringVars, Still
  <1>2. Standing(v, n) /\ UnderWay(graph, calls) /\ graph.status = "visiting"
    BY <1>1, Stands, Zenon
  <1>3. graph' = [graph EXCEPT !.order = ord2, !.status = "visiting"]
    BY <1>2, Zenon DEF Return
  <1> HIDE DEF v, n
  <1>4. /\ Setting(graph) /\ Fields(graph) /\ IsTop(calls, v, n)
        /\ graph.mode = "verified" => \A id \in DOMAIN sel : SignedBy(sel[id], graph)
    BY ONLY <1>2, Zenon DEF Standing, Setting, SignedGraph
  <1>5. PICK TG, PG : Visiting(sel, ord, calls, TG, PG)
    BY ONLY <1>2, Zenon DEF UnderWay
  <1>6. ASSUME graph.mode # "development" PROVE Following(sel, ord2, st)
    <2>1. Following(sel, ord, calls)
      BY ONLY <1>2, <1>6, Zenon DEF UnderWay
    <2>2. PICK T, P : /\ Complete(locked.selected, locked.order, T, P)
                      /\ Lockstep(sel, ord, calls, locked.selected, locked.order, T, P)
      BY ONLY <2>1, Zenon DEF Following
    <2> HIDE DEF sel, ord
    <2>3. Lockstep(sel, ord2, st, locked.selected, locked.order, T, P)
      BY ONLY <1>1, <1>4, <1>5, <2>2, Len(calls) # 1, LockstepReturns, ZenonT(60)
    <2> QED
      BY ONLY <2>1, <2>2, <2>3, Zenon DEF Following
  <1> HIDE DEF sel, ord
  <1>7. \E T, P : Visiting(sel, ord2, st, T, P)
    BY ONLY <1>1, <1>4, <1>5, Len(calls) # 1, VisitingReturns, ZenonT(60)
  <1> HIDE DEF ord2, st
  <1>8. Changed(graph, graph', "visiting", sel, ord2)
    BY ONLY <1>3, <1>4, FieldsAssigned, Zenon DEF sel
  <1>9. UnderWay(graph, calls)'
    BY ONLY <1>1, <1>4, <1>6, <1>7, <1>8, UnderWayNext, ZenonT(60)
  <1>10. calls' # <<>>
    BY ONLY <1>9, Zenon DEF UnderWay, Visiting
  <1>11. RepoInv' /\ KeysInv' /\ (lock # NoLock => LockWritten)'
    BY ONLY <1>1, <1>2, StillRest, Zenon DEF Standing
  <1> QED
    BY ONLY <1>9, <1>10, <1>11, Zenon DEF ResolverInv

\* A Bundle is published: a version has one Bundle.
LEMMA PublishInv ==
    ASSUME ResolverInv, Publish
    PROVE  ResolverInv'
  <1>1. /\ calls = <<>> /\ calls' = calls /\ graph' = graph
        /\ UNCHANGED <<keyring, keyfile, lock, locked>>
    BY Zenon DEF Publish, keyringVars
  <1>2. PICK b \in LaterBundles :
          repository' = {c \in repository : <<c.id, c.version>> # <<b.id, b.version>>} \cup {b}
    BY Zenon DEF Publish
  <1>3. repository \subseteq Published /\ KeysInv /\ Ended(graph) /\ (lock # NoLock => LockWritten)
    BY <1>1, Zenon DEF ResolverInv, RepoInv
  <1>4. repository' \subseteq Published
    BY ONLY <1>2, <1>3, Zenon DEF Published
  <1>5. ASSUME NEW c \in repository', NEW d \in repository', c.id = d.id, c.version = d.version
        PROVE  c = d
    <2>1. \A x \in repository' :
            x = b \/ (x \in repository /\ ~(x.id = b.id /\ x.version = b.version))
      BY ONLY <1>2, SMT
    <2>2. c \in repository /\ d \in repository => c = d
      BY <1>5, Zenon DEF ResolverInv, RepoInv
    <2> QED
      BY ONLY <1>5, <2>1, <2>2, Zenon
  <1>6. RepoInv'
    BY ONLY <1>4, <1>5, Zenon DEF RepoInv
  <1>7. KeysInv' /\ (lock # NoLock => LockWritten)'
    BY ONLY <1>1, <1>3, Zenon DEF KeysInv, LockWritten
  <1>8. Ended(graph)'
    BY ONLY <1>1, <1>3, Zenon DEF Ended, LockWritten
  <1> QED
    BY ONLY <1>1, <1>6, <1>7, <1>8, ZenonT(60) DEF ResolverInv

\* The Keyring changes: what the file says is revoked stays revoked.
LEMMA KeyringKeeps ==
    ASSUME KeysInv, AddKey \/ RevokeKey \/ WriteKeyring \/ LoadKeyring
    PROVE  KeysInv'
  <1>1. CASE AddKey
    <2>1. PICK k \in DOMAIN LaterKeys \ DOMAIN keyring : keyring' = With(keyring, k, LaterKeys[k])
      BY <1>1, Zenon DEF AddKey
    <2>2. \A x \in DOMAIN keyring : x \in DOMAIN keyring' /\ keyring'[x] = keyring[x]
      BY ONLY <2>1, Zenon DEF With
    <2>3. keyfile' = keyfile
      BY <1>1, Zenon DEF AddKey
    <2> QED
      BY <2>2, <2>3, Zenon DEF KeysInv
  <1>2. CASE RevokeKey
    <2>1. PICK k \in DOMAIN keyring :
            ~keyring[k].revoked /\ keyring' = [keyring EXCEPT ![k].revoked = TRUE]
      BY <1>2, Zenon DEF RevokeKey
    <2>2. \A x \in DOMAIN keyring : x \in DOMAIN keyring' /\ (x # k => keyring'[x] = keyring[x])
      BY ONLY <2>1, Zenon
    <2>3. keyfile' = keyfile
      BY <1>2, Zenon DEF RevokeKey
    <2>4. keyfile # NoFile =>
            \A x \in keyfile : x.revoked => x.id \in DOMAIN keyring' /\ keyring'[x.id].revoked
      BY <2>1, <2>2, Zenon DEF KeysInv
    <2> QED
      BY <2>3, <2>4, Zenon DEF KeysInv
  <1>3. CASE WriteKeyring
    <2>1. Readable(keyfile') /\ keyfile' = Snapshot(keyring) /\ keyring' = keyring
      BY <1>3, Zenon DEF WriteKeyring
    <2>2. ASSUME NEW x \in Snapshot(keyring), x.revoked
          PROVE  x.id \in DOMAIN keyring /\ keyring[x.id].revoked
      <3>1. PICK k \in DOMAIN keyring :
              x = [id |-> k, key |-> keyring[k].key, scopes |-> keyring[k].scopes,
                   revoked |-> keyring[k].revoked]
        BY <2>2, Zenon DEF Snapshot
      <3>2. x.id = k /\ x.revoked = keyring[k].revoked
        BY ONLY <3>1, SMT
      <3> QED
        BY ONLY <2>2, <3>1, <3>2, Zenon
    <2> QED
      BY <2>1, <2>2, Zenon DEF KeysInv
  <1>4. CASE LoadKeyring
    <2>1. keyfile # NoFile /\ keyring' = FromSnapshot(keyfile) /\ keyfile' = keyfile
      BY <1>4, Zenon DEF LoadKeyring
    <2>2. Readable(keyfile)
      BY <2>1, Zenon DEF KeysInv
    <2>3. ASSUME NEW x \in keyfile, x.revoked
          PROVE  x.id \in DOMAIN keyring' /\ keyring'[x.id].revoked
      <3> DEFINE y == CHOOSE z \in keyfile : z.id = x.id
      <3>1. y \in keyfile /\ y.id = x.id
        BY <2>3, Zenon
      <3>2. y = x
        BY ONLY <2>2, <2>3, <3>1, Zenon DEF Readable
      <3>3. /\ x.id \in DOMAIN keyring'
            /\ keyring'[x.id] = [key |-> y.key, scopes |-> y.scopes, revoked |-> y.revoked]
        BY ONLY <2>1, <2>3, Zenon DEF FromSnapshot
      <3> HIDE DEF y
      <3>4. keyring'[x.id].revoked = y.revoked
        BY ONLY <3>3, SMT
      <3> QED
        BY ONLY <2>3, <3>2, <3>3, <3>4, ZenonT(60)
    <2> QED
      BY <2>1, <2>2, <2>3, Zenon DEF KeysInv
  <1> QED
    BY <1>1, <1>2, <1>3, <1>4, Zenon

\* A change of the keyring comes between resolutions.
LEMMA ChangeKeyringInv ==
    ASSUME ResolverInv, ChangeKeyring
    PROVE  ResolverInv'
  <1>1. /\ calls = <<>> /\ UNCHANGED <<repository, lock, locked, graph, calls>>
        /\ AddKey \/ RevokeKey \/ WriteKeyring \/ LoadKeyring
    BY Zenon DEF ChangeKeyring
  <1>2. RepoInv /\ KeysInv /\ Ended(graph) /\ (lock # NoLock => LockWritten)
    BY <1>1, Zenon DEF ResolverInv
  <1>3. KeysInv'
    BY ONLY <1>1, <1>2, KeyringKeeps, Zenon
  <1>4. RepoInv' /\ (lock # NoLock => LockWritten)'
    BY ONLY <1>1, <1>2, Zenon DEF RepoInv, LockWritten
  <1>5. Ended(graph)'
    BY ONLY <1>1, <1>2, Zenon DEF Ended, LockWritten
  <1> QED
    BY ONLY <1>1, <1>3, <1>4, <1>5, Zenon DEF ResolverInv

\* The resolver invariant holds at the start.
LEMMA ResolverStarts ==
    ASSUME ResolverInit PROVE ResolverInv
  <1> USE DEF ResolverInit, KeyringInit
  <1>1. RepoInv
    BY BundleAssumption, Zenon DEF RepoInv, Published
  <1>2. KeysInv /\ ~(lock # NoLock) /\ calls = <<>>
    BY Zenon DEF KeysInv
  <1>3. Fields(graph) /\ graph.status = "none" /\ graph.mode = "none"
    <2>1. graph = [status |-> "none", mode |-> "none", policy |-> "none", selected |-> <<>>,
                   order |-> <<>>, keys |-> FirstKeys, distrusted |-> {}, held |-> FALSE]
      BY Zenon
    <2> QED
      BY ONLY <2>1, SMT DEF Fields
  <1>4. "none" # "resolved" /\ "none" # "failed" /\ "none" # "locked"
    BY ONLY Zenon
  <1>5. Ended(graph)
    BY ONLY <1>3, <1>4, Zenon DEF Ended
  <1> QED
    BY ONLY <1>1, <1>2, <1>5, Zenon DEF ResolverInv

\* What is not the resolver leaves its invariant alone.
LEMMA ResolverKeeps ==
    ASSUME ResolverInv, UNCHANGED resolverVars
    PROVE  ResolverInv'
  <1>1. Still /\ calls' = calls /\ graph' = graph
    BY Zenon DEF resolverVars, keyringVars, Still
  <1>2. RepoInv' /\ KeysInv' /\ (lock # NoLock => LockWritten)'
    BY <1>1, StillRest, Zenon DEF ResolverInv
  <1>3. (calls = <<>> => Ended(graph))'
    BY <1>1, Zenon DEF ResolverInv, Ended, LockWritten, Still
  <1>4. (calls # <<>> => UnderWay(graph, calls))'
    BY <1>1, Zenon DEF ResolverInv, UnderWay, Setting, Following, Held, Distrusted, Still
  <1> QED
    BY ONLY <1>2, <1>3, <1>4, Zenon DEF ResolverInv

\* Every step of the resolver keeps its invariant.
LEMMA ResolverSteps ==
    ASSUME ResolverInv,
           \/ Publish \/ ChangeKeyring \/ ResolveDevelopment \/ ResolveLocked \/ Depend \/ Return
    PROVE  ResolverInv'
  <1>1. CASE Publish
    BY <1>1, PublishInv, Zenon
  <1>2. CASE ChangeKeyring
    BY <1>2, ChangeKeyringInv, Zenon
  <1>3. CASE ResolveDevelopment
    <2>1. "development" \in Modes /\ "development" # "verified"
      BY Zenon DEF Modes
    <2>2. Resolve("development", "none")
      BY <1>3, Zenon DEF ResolveDevelopment
    <2> QED
      BY <2>1, <2>2, ResolveInv, Zenon
  <1>4. CASE ResolveLocked
    <2>1. "locked" \in Modes /\ "locked" # "verified" /\ "verified" \in Modes /\ lock # NoLock
      BY <1>4, Zenon DEF Modes, ResolveLocked
    <2>2. CASE Resolve("locked", "none")
      BY <2>1, <2>2, ResolveInv, Zenon
    <2>3. CASE \E p \in Policies : ProductionPolicy(p) /\ Resolve("verified", p)
      BY <2>1, <2>3, ResolveInv, Zenon
    <2> QED
      BY <1>4, <2>2, <2>3, Zenon DEF ResolveLocked
  <1>5. CASE Depend
    BY <1>5, DependInv, Zenon
  <1>6. CASE Return
    BY <1>6, LastReturns, InnerReturns, Zenon
  <1> QED
    BY <1>1, <1>2, <1>3, <1>4, <1>5, <1>6, ZenonT(60)

\* The invariant says what a lock promises.
LEMMA ResolverReproduces ==
    ASSUME ResolverInv PROVE LockReproduces
  <1>1. CASE calls = <<>>
    BY <1>1, Zenon DEF ResolverInv, Ended, LockReproduces
  <1>2. CASE calls # <<>>
    <2>1. graph.status = "visiting"
      BY <1>2, Stands, Zenon
    <2>2. "visiting" # "resolved" /\ "visiting" # "failed"
      BY ONLY Zenon
    <2> QED
      BY <2>1, <2>2, Zenon DEF LockReproduces
  <1> QED
    BY <1>1, <1>2, Zenon
-----------------------------------------------------------------------------
(* The steps of the whole. *)

\* What the host deploys is a lock that a resolution has written.
LEMMA BeginDeployCache == CacheInv /\ ResolverInv /\ BeginDeploy => CacheInv'
  <1> SUFFICES ASSUME CacheInv, ResolverInv, BeginDeploy PROVE CacheInv'
    OBVIOUS
  <1> USE DEF CacheInv
  <1>1. /\ phase = "free" /\ graph.status = "resolved" /\ phase' = "deploying" /\ installed' = {}
        /\ UNCHANGED <<lock, target, staging, nextTemp, job, gc, cut, crashes, lockfile>>
    BY Zenon DEF BeginDeploy, resolverVars, cacheVars
  <1>2. calls = <<>>
    <2>1. calls # <<>> => graph.status = "visiting"
      BY Stands, Zenon
    <2>2. "visiting" # "resolved"
      BY ONLY Zenon
    <2> QED
      BY <1>1, <2>1, <2>2, ZenonT(60)
  <1>3. LockWritten
    BY <1>1, <1>2, Zenon DEF ResolverInv, Ended
  <1>4. LockDigests \subseteq Digests
    <2> SUFFICES ASSUME NEW id \in DOMAIN lock \ {RootBundle.id} PROVE lock[id].digest \in Digests
      BY Zenon DEF LockDigests
    <2> DEFINE s == locked.selected
    <2>1. lock = LockOf(s) /\ Selection(s)
      BY <1>3, Zenon DEF LockWritten, Complete, Times
    <2> HIDE DEF s
    <2>2. id \in DOMAIN s /\ lock[id] = [version |-> s[id].version, digest |-> s[id].digest]
      BY <2>1, Zenon DEF LockOf
    <2>3. lock[id].digest = s[id].digest
      BY ONLY <2>2, SMT
    <2>4. s[id] \in Published
      BY <2>1, <2>2, Zenon DEF Selection
    <2> QED
      BY <2>3, <2>4, DigestsAssumption, ZenonT(60) DEF Published
  <1>5. CacheTypes' /\ StagingInv' /\ AnswerInv' /\ CacheWhole' /\ DeployedStaysWhole'
    BY <1>1, Zenon DEF CacheTypes, StagingInv, AnswerInv, CacheWhole, DeployedStaysWhole
  <1>6. LockDigests' \subseteq Digests
    BY <1>1, <1>4, Zenon DEF LockDigests
  <1>7. HostInv'
    <2>1. gc = NoGc
      BY <1>1, Zenon DEF HostInv
    <2> QED
      BY <1>1, <1>6, <2>1, ZenonT(60) DEF HostInv
  <1> QED
    BY <1>5, <1>7, Zenon

\* Every step keeps the invariant of the resolver.
LEMMA ResolverInductive == ResolverInv /\ [Next]_vars => ResolverInv'
  <1> SUFFICES ASSUME ResolverInv, [Next]_vars PROVE ResolverInv'
    OBVIOUS
  <1>1. CASE Resolver
    BY <1>1, ResolverSteps, Zenon DEF Resolver
  <1>2. CASE UNCHANGED resolverVars
    BY <1>2, ResolverKeeps, Zenon
  <1>3. Resolver \/ UNCHANGED resolverVars
    BY Zenon DEF Next, vars, BeginDeploy, Install, Step, Hear, WriteLockfile, Collect,
                 CollectStep, Crash
  <1> QED
    BY <1>1, <1>2, <1>3, ZenonT(60)

\* Every step keeps the invariant of the cache and the host.
LEMMA CacheInductive ==
    ASSUME OneProcess PROVE CacheInv /\ ResolverInv /\ [Next]_vars => CacheInv'
  <1> SUFFICES ASSUME CacheInv, ResolverInv, [Next]_vars PROVE CacheInv'
    OBVIOUS
  <1>1. CASE Resolver
    BY <1>1, ResolverCache, Zenon DEF Resolver
  <1>2. CASE BeginDeploy
    BY <1>2, BeginDeployCache, Zenon
  <1>3. CASE Install
    BY <1>3, InstallCache, Zenon
  <1>4. CASE Step
    BY <1>4, WriteFileCache, VerifySnapshotCache, PublishDirectoryCache, CleanCache, ZenonT(60)
       DEF Step, InstallStep
  <1>5. CASE Hear
    BY <1>5, HearCache, Zenon
  <1>6. CASE WriteLockfile
    BY <1>6, WriteLockfileCache, ZenonT(60)
  <1>7. CASE Collect
    BY <1>7, CollectCache, Zenon
  <1>8. CASE CollectStep
    BY <1>8, CollectStepCache, Zenon
  <1>9. CASE Crash
    BY <1>9, CrashCache, Zenon
  <1>10. CASE UNCHANGED vars
    <2>1. UNCHANGED <<lock, target, staging, nextTemp, job, gc, cut, phase, installed, lockfile>>
      BY <1>10, Zenon DEF vars, resolverVars, cacheVars, hostVars
    <2>2. CacheTypes' /\ StagingInv' /\ AnswerInv'
      BY <2>1, Zenon DEF CacheInv, CacheTypes, StagingInv, AnswerInv
    <2>3. HostInv' /\ CacheWhole' /\ DeployedStaysWhole'
      BY <2>1, Zenon DEF CacheInv, HostInv, CacheWhole, DeployedStaysWhole, LockDigests
    <2> QED
      BY <2>2, <2>3, Zenon DEF CacheInv
  <1> QED
    BY <1>1, <1>2, <1>3, <1>4, <1>5, <1>6, <1>7, <1>8, <1>9, <1>10, ZenonT(60) DEF Next
=============================================================================
