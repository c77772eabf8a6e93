---------------------------- MODULE BundleRelease ----------------------------
(***************************************************************************)
(* Deployment of resolved Bundles: the host resolves, installs what the    *)
(* lock names, replaces the lockfile, and collects what no lockfile names. *)
(* Deployment and collection exclude each other, as the documentation of   *)
(* the cache asks of the host; a crash ends either of them.                *)
(***************************************************************************)
EXTENDS BundleResolver, BundleCache

CONSTANT Separate   \* bound: the keyring and the cache are not used in one behaviour

ASSUME DigestsAssumption == {b.digest : b \in InitialBundles \cup LaterBundles} \subseteq Digests

VARIABLES
    phase,       \* free, deploying or collecting: the host's own lock
    installed,   \* digests whose install succeeded in this deployment
    lockfile     \* digests that the deployed lockfile names

hostVars == <<phase, installed, lockfile>>
vars == <<resolverVars, cacheVars, hostVars>>

LockDigests == {lock[id].digest : id \in DOMAIN lock \ {RootBundle.id}}

Init ==
    /\ ResolverInit /\ CacheInit
    /\ phase = "free" /\ installed = {} /\ lockfile = {}

\* The keyring and the modes that follow the lock have no part in the cache:
\* where Separate bounds the search they are used only while it is empty.
Resolver ==
    /\ phase = "free"
    /\ \/ Publish \/ ResolveDevelopment \/ Depend \/ Return
       \/ /\ Separate => (\A d \in Digests : target[d] = Gone) /\ crashes = 0
          /\ ChangeKeyring \/ ResolveLocked
    /\ UNCHANGED <<cacheVars, hostVars>>

\* The host deploys what it has just resolved.
BeginDeploy ==
    /\ phase = "free" /\ graph.status = "resolved"
    /\ Separate => graph.mode = "development" /\ keyring = FirstKeys /\ keyfile = NoFile
    /\ phase' = "deploying" /\ installed' = {}
    /\ UNCHANGED <<resolverVars, cacheVars, lockfile>>

Install ==
    /\ phase = "deploying"
    /\ \E t \in Threads, d \in LockDigests \ installed : InstallStart(t, d)
    /\ UNCHANGED <<resolverVars, hostVars>>

Step ==
    /\ \E t \in Threads : InstallStep(t)
    /\ UNCHANGED <<resolverVars, hostVars>>

\* The host hears of an install.
Hear ==
    /\ phase = "deploying"
    /\ \E t \in Threads :
        /\ job[t].pc = "done"
        /\ installed' = IF job[t].ok THEN installed \cup {job[t].digest} ELSE installed
        /\ Became(t, Idle)
    /\ UNCHANGED <<resolverVars, phase, lockfile, target, staging, nextTemp, gc, cut, crashes>>

\* write_lockfile_atomic replaces the file in one step, once every Bundle is
\* there; a deployment that cannot get there is given up.
WriteLockfile ==
    /\ phase = "deploying" /\ \A t \in Threads : job[t].pc = "idle"
    /\ phase' = "free" /\ installed' = {}
    /\ lockfile' = IF LockDigests \subseteq installed THEN LockDigests ELSE lockfile
    /\ UNCHANGED <<resolverVars, cacheVars>>

\* A collection keeps what the lockfile names.  In a mutant it keeps what
\* the last lock names, deployed or not.
RetainedByLock == IF lock = NoLock THEN {} ELSE LockDigests
Retained == lockfile

Collect ==
    /\ phase \in {"free", "collecting"} /\ calls = <<>>
    /\ \E p \in Processes : GcCandidate(p, Retained)
    /\ phase' = "collecting"
    /\ UNCHANGED <<resolverVars, installed, lockfile>>

CollectStep ==
    /\ GcRemove
    /\ phase' = IF gc' = NoGc THEN "free" ELSE phase
    /\ UNCHANGED <<resolverVars, installed, lockfile>>

Crash ==
    /\ calls = <<>> /\ \E p \in Processes : CacheCrash(p)
    /\ phase' = IF gc' = NoGc THEN "free" ELSE phase
    /\ installed' = {}
    /\ UNCHANGED <<resolverVars, lockfile>>

Next ==
    \/ Resolver \/ BeginDeploy \/ Install \/ Step \/ Hear \/ WriteLockfile
    \/ Collect \/ CollectStep \/ Crash

Spec == Init /\ [][Next]_vars
-----------------------------------------------------------------------------
\* Every Bundle that the deployed lockfile names stays in the cache, whole,
\* whatever is installed, collected or cut off by a crash afterwards.
DeployedStaysWhole == \A d \in lockfile : target[d] = Files
==============================================================================
