----------------------------- MODULE BundleCache -----------------------------
(***************************************************************************)
(* The content-addressed Bundle cache: threads that install Bundles, the   *)
(* garbage collection, and processes that die in between.  A directory is  *)
(* the set of the Bundle's files that are in it, or Gone.  Removal and     *)
(* writing go file by file; a rename is one step.                          *)
(***************************************************************************)
EXTENDS Integers, FiniteSets

CONSTANTS
    Digests, Threads,
    ProcessOf,     \* thread -> process
    Files,         \* 1..n: the resources of a Bundle, in the order of the list
    MaxTemp,       \* bound on the names a process takes from next_temp
    MaxCrashes, Gone

ASSUME CacheAssumption ==
    /\ Files # {} /\ MaxTemp \in Nat
    /\ Gone \notin Digests /\ \A S \in SUBSET Files : S # Gone
    /\ DOMAIN ProcessOf = Threads /\ \A t \in Threads : ProcessOf[t] # Gone

VARIABLES
    target,     \* digest -> directory
    staging,    \* <<digest, number>> -> directory
    nextTemp,   \* process -> number
    job,        \* thread -> [pc, digest, name, at, ok]
    gc,         \* [digest, by]: the entry being removed, and by which process
    cut,        \* digests with an entry whose removal has begun
    crashes

cacheVars == <<target, staging, nextTemp, job, gc, cut, crashes>>

Processes == {ProcessOf[t] : t \in Threads}
Idle == [pc |-> "idle", digest |-> Gone, name |-> Gone, at |-> 1, ok |-> FALSE]
NoGc == [digest |-> Gone, by |-> Gone]

CacheInit ==
    /\ target = [d \in Digests |-> Gone]
    /\ staging = [n \in Digests \X (1..MaxTemp) |-> Gone]
    /\ nextTemp = [p \in Processes |-> 1]
    /\ job = [t \in Threads |-> Idle]
    /\ gc = NoGc /\ cut = {} /\ crashes = 0

Became(t, j) == job' = [job EXCEPT ![t] = j]
Answered(t, ok) == [Idle EXCEPT !.pc = "done", !.digest = job[t].digest, !.ok = ok]

\* In a mutant a staging directory is named after its digest alone.
StagingNameShared(p, d) == <<d, 1>>
StagingName(p, d) == <<d, nextTemp[p]>>

\* What is there already is loaded again; otherwise a staging directory of a
\* new name is created, unless a directory of that name is left from earlier.
InstallStart(t, d) ==
    LET p == ProcessOf[t]
        name == StagingName(p, d)
        begun == [Idle EXCEPT !.digest = d]
    IN /\ job[t].pc \in {"idle", "done"}
       /\ \/ /\ target[d] # Gone
             /\ Became(t, [begun EXCEPT !.pc = "done", !.ok = target[d] = Files])
             /\ UNCHANGED <<staging, nextTemp>>
          \/ /\ target[d] = Gone /\ nextTemp[p] <= MaxTemp
             /\ staging' = [staging EXCEPT ![name] = IF @ = Gone THEN {} ELSE @]
             /\ nextTemp' = [nextTemp EXCEPT ![p] = @ + 1]
             /\ Became(t, [begun EXCEPT !.pc = "write", !.name = name])
       /\ UNCHANGED <<target, gc, cut, crashes>>

\* The parent directory is made anew if it is gone; a file that exists is an
\* error.
WriteFile(t) ==
    LET j == job[t]
        dir == IF staging[j.name] = Gone THEN {} ELSE staging[j.name]
    IN /\ j.pc = "write" /\ j.at \in Files
       /\ \/ /\ j.at \notin dir
             /\ staging' = [staging EXCEPT ![j.name] = dir \cup {j.at}]
             /\ Became(t, [j EXCEPT !.at = @ + 1])
          \/ /\ j.at \in dir
             /\ Became(t, [j EXCEPT !.pc = "clean"])
             /\ UNCHANGED staging
       /\ UNCHANGED <<target, nextTemp, gc, cut, crashes>>

VerifySnapshot(t) ==
    LET j == job[t]
    IN /\ j.pc = "write" /\ j.at \notin Files
       /\ Became(t, [j EXCEPT !.pc = IF staging[j.name] = Files THEN "publish" ELSE "clean"])
       /\ UNCHANGED <<target, staging, nextTemp, gc, cut, crashes>>

\* publish_directory: a rename, which an empty directory does not stop.  Who
\* comes second takes the entry of the first if it is whole.
PublishDirectory(t) ==
    LET j == job[t]
        renames == staging[j.name] # Gone /\ target[j.digest] \in {Gone, {}}
    IN /\ j.pc = "publish"
       /\ \/ /\ renames
             /\ target' = [target EXCEPT ![j.digest] = staging[j.name]]
             /\ staging' = [staging EXCEPT ![j.name] = Gone]
             /\ cut' = cut \ {j.digest} /\ Became(t, Answered(t, TRUE))
          \/ /\ ~renames
             /\ Became(t, [j EXCEPT !.pc = "clean", !.ok = target[j.digest] = Files])
             /\ UNCHANGED <<target, staging, cut>>
       /\ UNCHANGED <<nextTemp, gc, crashes>>

\* remove_all of the staging directory, one entry at a time.
Clean(t) ==
    LET j == job[t]
    IN /\ j.pc = "clean"
       /\ \/ /\ staging[j.name] \in {Gone, {}}
             /\ staging' = [staging EXCEPT ![j.name] = Gone]
             /\ Became(t, Answered(t, j.ok))
          \/ /\ staging[j.name] # Gone
             /\ \E f \in staging[j.name] :
                  staging' = [staging EXCEPT ![j.name] = @ \ {f}]
             /\ UNCHANGED job
       /\ UNCHANGED <<target, nextTemp, gc, cut, crashes>>

\* The next entry that is not retained; then its files, then the directory.
GcCandidate(p, retained) ==
    /\ gc = NoGc
    /\ \E d \in Digests \ retained :
        /\ target[d] # Gone
        /\ gc' = [digest |-> d, by |-> p] /\ cut' = cut \cup {d}
    /\ UNCHANGED <<target, staging, nextTemp, job, crashes>>

GcRemove ==
    /\ gc # NoGc
    /\ \/ /\ target[gc.digest] \in {Gone, {}}
          /\ target' = [target EXCEPT ![gc.digest] = Gone]
          /\ cut' = cut \ {gc.digest} /\ gc' = NoGc
       \/ /\ target[gc.digest] # Gone
          /\ \E f \in target[gc.digest] :
               target' = [target EXCEPT ![gc.digest] = @ \ {f}]
          /\ UNCHANGED <<gc, cut>>
    /\ UNCHANGED <<staging, nextTemp, job, crashes>>

\* A process dies and is started again: its directories stay.
CacheCrash(p) ==
    /\ crashes < MaxCrashes /\ crashes' = crashes + 1
    /\ nextTemp' = [nextTemp EXCEPT ![p] = 1]
    /\ job' = [t \in Threads |-> IF ProcessOf[t] = p THEN Idle ELSE job[t]]
    /\ gc' = IF gc.by = p THEN NoGc ELSE gc
    /\ UNCHANGED <<target, staging, cut>>

InstallStep(t) ==
    WriteFile(t) \/ VerifySnapshot(t) \/ PublishDirectory(t) \/ Clean(t)
-----------------------------------------------------------------------------
\* An entry that is in the cache is whole, unless a collection has begun to
\* remove it: staging and renaming show no reader, and no later install, half
\* a Bundle, whatever crash or other install comes between.
CacheWhole == \A d \in Digests : target[d] \notin {Gone, Files} => d \in cut
==============================================================================
