------------------------- MODULE ParallelNodeProofs -------------------------
(***************************************************************************)
(* What the parallel node promises, for any number of branches and workers *)
(* and any bounds: every branch is counted once, nothing is merged that    *)
(* the policy does not allow, a branch that has a record is not run again, *)
(* and a success that was answered is saved.                               *)
(***************************************************************************)
EXTENDS ParallelNode, FiniteSetTheorems, TLAPS

States == {"none", "running", "ran", "finished", "waking"}
Ends == {"none", "ok", "fail"}
Truths == {"none", "ok", "fail", "refused", "cancelled"}
Points == InStep \cup {"idle", "start", "post1", "post2", "post3", "deliver"}

Flying == {b \in Branches : child[b] \in {"running", "ran", "finished"}}
Result == [branch : Branches, ok : BOOLEAN]
BranchesOf(S) == {r.branch : r \in S}
InBatch == BranchesOf(batch)
Good == {b \in Branches : truth[b] = "ok"}
Recorded == {b \in Branches : record[b] # "none"}

\* Results of different branches.
Distinct(S) == S \subseteq Result /\ \A r, s \in S : r.branch = s.branch => r = s

Types ==
    /\ mode \in {"all", "any", "min_success"} /\ fail \in {"wait", "fast"}
    /\ where \in {"node", "joined", "failed", "done"}
    /\ saved \in {"none", "node", "joined", "failed", "done"}
    /\ cont \in BOOLEAN /\ ready \in BOOLEAN /\ torn \in BOOLEAN /\ misread \in BOOLEAN
    /\ batch \in SUBSET Result
    /\ child \in [Branches -> States] /\ outcome \in [Branches -> Ends]
    /\ record \in [Branches -> Ends] /\ truth \in [Branches -> Truths]
    /\ pc \in [Workers -> Points] /\ DOMAIN result = Workers

Numbers ==
    /\ nextIndex \in 1..N + 1 /\ end \in 0..N
    /\ inFlight \in Int /\ successes \in Nat /\ failures \in Nat /\ faults \in Nat

\* One drive at a time is in execute_step; at the node it has a continuation,
\* behind it none; and the record of the Run is not ahead of its memory.
PlaceInv ==
    /\ \A v, w \in Workers : pc[v] \in InStep /\ pc[w] \in InStep => v = w
    /\ \A w \in Workers : pc[w] \in {"loop", "launch", "commit"} => cont
    /\ \A w \in Workers : pc[w] \in {"erase", "join"} => where = "joined"
    /\ cont => where = "node"
    /\ where = "node" => saved \in {"none", "node"}
    /\ where = "failed" => saved \in {"none", "node", "failed"}
    /\ where = "joined" => saved \in {"none", "node", "joined"}
    /\ where = "done" => saved \in {"none", "node", "joined", "done"}

\* A batch is ready when none of its children is in flight any more.
ReadyInv ==
    /\ ready => inFlight = 0
    /\ \A w \in Workers : pc[w] = "launch" => launching /\ ~ready
    /\ \A w \in Workers : pc[w] = "commit" => inFlight = 0

\* EachBranchCountedOnce, made inductive: the branches in flight and those in
\* the batch are different ones, launched before, and counted.
BatchInv ==
    /\ ~cont => EmptyFields /\ Flying = {}
    /\ \A b \in Flying \cup InBatch : b < nextIndex
    /\ Flying \cap InBatch = {}
    /\ Distinct(batch)
    /\ inFlight = Cardinality(Flying)
    /\ EachBranchCountedOnce

\* A branch that has a record is not running.
RecordInv == \A b \in Branches : child[b] \in {"running", "ran"} => record[b] = "none"

\* MergeFollowsPolicyUnlessMisread, made inductive: every success that is
\* stored, on its way or counted is one of the branch.
Counted == {b \in Good : b < nextIndex /\ b \notin Flying /\ b \notin InBatch}
MergeInv ==
    ~misread =>
        /\ \A b \in Branches : record[b] = "ok" => truth[b] = "ok"
        /\ \A b \in Branches :
             child[b] \in {"ran", "finished"} /\ outcome[b] = "ok" => truth[b] = "ok"
        /\ \A r \in batch : r.ok => truth[r.branch] = "ok"
        /\ successes <= Cardinality(Counted)
        /\ where \in {"joined", "done"} => Satisfies(Good)

\* SuccessIsMerged, made inductive: a success is answered of a Run that is at
\* its end, in its record too unless that save failed; and behind the merge the
\* records of children are those a drive is erasing and those given up.
Told == (told = "done" => where = "done")
        /\ \A w \in Workers : result[w] = "done" => where = "done"
Saved == where = "done" => saved = "done" \/ unsaved
Cleaning ==
    /\ where \in {"joined", "done"} => Recorded \subseteq erasing \cup kept
    /\ erasing # {} => \E w \in Workers : pc[w] = "erase"
SuccessInv == Told /\ Saved /\ Cleaning

USE DEF policy, fields, children, wake, bounds, history
-----------------------------------------------------------------------------
(* Branches, results and counts.                                           *)

\* The branches are finitely many, N of them.
LEMMA BranchesFinite == IsFiniteSet(Branches) /\ Cardinality(Branches) = N
<1>1. N \in Nat \ {0}  BY Zenon, ParallelAssumption
<1>2. 1 \in Int /\ N \in Int /\ ~(1 > N) /\ N - 1 + 1 = N  BY <1>1, SMT
<1> QED  BY <1>2, FS_Interval, SMT DEF Branches

\* So is every set of branches; one that has N of them has all.
LEMMA SomeBranches ==
  ASSUME NEW S \in SUBSET Branches
  PROVE  /\ IsFiniteSet(S) /\ Cardinality(S) \in Nat
         /\ Cardinality(S) >= N => S = Branches
<1>1. IsFiniteSet(S) /\ Cardinality(S) <= N /\ (N = Cardinality(S) => Branches = S)
  BY BranchesFinite, FS_Subset, ZenonT(30)
<1>2. Cardinality(S) \in Nat  BY <1>1, FS_CardinalityType, Zenon
<1>3. N \in Nat  BY Zenon, ParallelAssumption
<1> QED  BY <1>1, <1>2, <1>3, SMT

\* A larger set of branches counts for more.
LEMMA MoreBranches ==
  ASSUME NEW S \in SUBSET Branches, NEW T \in SUBSET S
  PROVE  Cardinality(T) <= Cardinality(S)
BY SomeBranches, FS_Subset, Zenon

\* Two disjoint sets of branches count for the sum.
LEMMA DisjointBranches ==
  ASSUME NEW S \in SUBSET Branches, NEW T \in SUBSET Branches, S \cap T = {}
  PROVE  Cardinality(S \cup T) = Cardinality(S) + Cardinality(T)
<1>1. IsFiniteSet(S) /\ IsFiniteSet(T)  BY SomeBranches, Zenon
<1>2. Cardinality(S) \in Nat /\ Cardinality(T) \in Nat  BY SomeBranches, Zenon
<1>3. Cardinality(S \cup T) = Cardinality(S) + Cardinality(T) - Cardinality(S \cap T)
  BY <1>1, FS_Union, Zenon
<1>4. Cardinality(S \cap T) = 0  BY FS_EmptySet, Zenon
<1> QED  BY <1>2, <1>3, <1>4, SMT

\* There are as many results as branches they are of.
LEMMA ResultsCounted ==
  ASSUME NEW S, Distinct(S)
  PROVE  /\ IsFiniteSet(S) /\ BranchesOf(S) \in SUBSET Branches
         /\ Cardinality(S) = Cardinality(BranchesOf(S))
<1> DEFINE f == [r \in S |-> r.branch]
<1>1. BranchesOf(S) \in SUBSET Branches  BY SMT DEF Distinct, BranchesOf, Result
<1>2. f \in [S -> BranchesOf(S)]  BY Zenon DEF BranchesOf
<1>3. \A a, b \in S : f[a] = f[b] => a = b  BY Zenon DEF Distinct
<1>4. f \in Injection(S, BranchesOf(S))  BY <1>2, <1>3, Zenon DEF Injection, IsInjective
<1>5. \A t \in BranchesOf(S) : \E s \in S : f[s] = t  BY Zenon DEF BranchesOf
<1>6. f \in Surjection(S, BranchesOf(S))  BY <1>2, <1>5, Zenon DEF Surjection
<1>7. IsFiniteSet(BranchesOf(S))  BY <1>1, SomeBranches, Zenon
<1> HIDE DEF f
<1>8. IsFiniteSet(S)  BY <1>4, <1>7, FS_Injection, Zenon
<1> QED  BY <1>1, <1>4, <1>6, <1>7, <1>8, FS_Injection, Zenon

\* The results split into successes and failures.
LEMMA ResultsSplit ==
  ASSUME NEW S, Distinct(S)
  PROVE  Cardinality(BranchesOf({x \in S : x.ok}))
           + Cardinality(BranchesOf({x \in S : ~x.ok})) = Cardinality(S)
<1> DEFINE G == {x \in S : x.ok}
           B == {x \in S : ~x.ok}
<1>1. Distinct(G) /\ Distinct(B)  BY Zenon DEF Distinct
<1>2. BranchesOf(G) \cap BranchesOf(B) = {}  BY Zenon DEF Distinct, BranchesOf
<1>3. BranchesOf(G) \cup BranchesOf(B) = BranchesOf(S)  BY Zenon DEF BranchesOf
<1>4. BranchesOf(G) \in SUBSET Branches /\ BranchesOf(B) \in SUBSET Branches
  BY <1>1, ResultsCounted, Zenon
<1>5. Cardinality(BranchesOf(S)) = Cardinality(S)  BY ResultsCounted, Zenon
<1> HIDE DEF G, B
<1>6. Cardinality(BranchesOf(G) \cup BranchesOf(B))
        = Cardinality(BranchesOf(G)) + Cardinality(BranchesOf(B))
  BY <1>2, <1>4, DisjointBranches, Zenon
<1>7. Cardinality(BranchesOf(G)) + Cardinality(BranchesOf(B)) = Cardinality(S)
  BY <1>3, <1>5, <1>6, Zenon
<1> QED  BY <1>7, Zenon DEF G, B

\* A batch ends within the branches.
LEMMA EndsWithin ==
  ASSUME NEW n \in 1..N + 1, n <= N
  PROVE  BatchEnd(n) \in 0..N
<1>1. N \in Nat \ {0} /\ MaxParallel \in Nat \ {0}  BY Zenon, ParallelAssumption
<1> QED  BY <1>1, SMT DEF BatchEnd

-----------------------------------------------------------------------------
(* Types.                                                                  *)

\* What is launched is a branch.
LEMMA LaunchesBranch == ASSUME Numbers, nextIndex <= end PROVE nextIndex \in Branches
<1>1. N \in Nat  BY Zenon, ParallelAssumption
<1> QED  BY <1>1, SMT DEF Numbers, Branches

\* Every step keeps the types of the control.
LEMMA TypesStep == ASSUME Types, Numbers, [Next]_vars PROVE Types'
<1> USE DEF Types, Goto, Return, Fault
<1>1. CASE UNCHANGED vars  BY <1>1, ZenonT(60) DEF vars
<1>2. CASE Execute  BY <1>2, ZenonT(60) DEF Execute
<1>3. CASE Cancel  BY <1>3, ZenonT(60) DEF Cancel
<1>4. CASE Crash  BY <1>4, ZenonT(60) DEF Crash, NoFields, States, Ends, Points
<1>5. ASSUME NEW w \in Workers, DriveStart(w) PROVE Types'
  BY <1>5, ZenonT(60) DEF DriveStart, Points, InStep
<1>6. ASSUME NEW w \in Workers, EnterStep(w) PROVE Types'
  BY <1>6, ZenonT(60) DEF EnterStep, Points, InStep
<1>7. ASSUME NEW w \in Workers, LoopPending(w) PROVE Types'
  BY <1>7, ZenonT(60) DEF LoopPending, Points, InStep
<1>8. ASSUME NEW w \in Workers, LoopBatch(w) PROVE Types'
  BY <1>8, ZenonT(60) DEF LoopBatch, Fold, Points, InStep
<1>9. ASSUME NEW w \in Workers, LaunchChild(w) PROVE Types'
  BY <1>9, ZenonT(60) DEF LaunchChild, States, Ends
<1>10. ASSUME NEW w \in Workers, LaunchRefused(w) PROVE Types'
  <2>1. nextIndex \in Branches  BY <1>10, LaunchesBranch, Zenon DEF LaunchRefused
  <2>2. [branch |-> nextIndex, ok |-> FALSE] \in Result  BY <2>1, Zenon DEF Result
  <2> QED  BY <1>10, <2>2, ZenonT(60) DEF LaunchRefused, Truths
<1>11. ASSUME NEW w \in Workers, LaunchTorn(w) PROVE Types'
  BY <1>11, ZenonT(60) DEF LaunchTorn, Points, InStep
<1>12. ASSUME NEW w \in Workers, LaunchEnd(w) PROVE Types'
  BY <1>12, ZenonT(60) DEF LaunchEnd, Points, InStep
<1>13. ASSUME NEW w \in Workers, Injected(w) PROVE Types'
  BY <1>13, ZenonT(60) DEF Injected, Points, InStep
<1>14. ASSUME NEW w \in Workers, Commit(w) \/ QuotaExceeded(w) PROVE Types'
  BY <1>14, ZenonT(60) DEF Commit, QuotaExceeded, NoFields, Points, InStep
<1>15. ASSUME NEW w \in Workers, EraseChild(w) PROVE Types'
  <2>1. record' \in [Branches -> Ends]  BY <1>15, Zenon DEF EraseChild, Ends
  <2>2. pc' \in [Workers -> Points] /\ DOMAIN result' = Workers
    BY <1>15, Zenon DEF EraseChild, Points, InStep
  <2> QED  BY <1>15, <2>1, <2>2, ZenonT(60) DEF EraseChild
<1>16. ASSUME NEW w \in Workers, Join(w) PROVE Types'
  BY <1>16, ZenonT(60) DEF Join, Points, InStep
<1>17. ASSUME NEW w \in Workers, PostDriving(w) PROVE Types'
  BY <1>17, ZenonT(60) DEF PostDriving, Points, InStep
<1>18. ASSUME NEW w \in Workers, PostLook(w) PROVE Types'
  BY <1>18, ZenonT(60) DEF PostLook, Points, InStep
<1>19. ASSUME NEW w \in Workers, PostReady(w) PROVE Types'
  BY <1>19, ZenonT(60) DEF PostReady, Points, InStep
<1>20. ASSUME NEW w \in Workers, Deliver(w) PROVE Types'
  BY <1>20, ZenonT(60) DEF Deliver, Points, InStep
<1>21. ASSUME NEW b \in Branches, ChildRuns(b) PROVE Types'
  <2>1. outcome' \in [Branches -> Ends]  BY <1>21, Zenon DEF ChildRuns, Ends
  <2>2. truth' \in [Branches -> Truths]  BY <1>21, Zenon DEF ChildRuns, Truths
  <2>3. child' \in [Branches -> States]  BY <1>21, Zenon DEF ChildRuns, States
  <2> QED  BY <1>21, <2>1, <2>2, <2>3, ZenonT(60) DEF ChildRuns
<1>22. ASSUME NEW b \in Branches, ChildSaves(b) PROVE Types'
  <2>1. record' \in [Branches -> Ends]  BY <1>22, Zenon DEF ChildSaves, Ends
  <2>2. outcome' \in [Branches -> Ends]  BY <1>22, Zenon DEF ChildSaves, Ends
  <2>3. child' \in [Branches -> States]  BY <1>22, Zenon DEF ChildSaves, States
  <2>4. truth' \in [Branches -> Truths]  BY <1>22, Zenon DEF ChildSaves, Truths
  <2> QED  BY <1>22, <2>1, <2>2, <2>3, <2>4, ZenonT(60) DEF ChildSaves
<1>23. ASSUME NEW b \in Branches, ChildCompletes(b) PROVE Types'
  <2>1. [branch |-> b, ok |-> outcome[b] = "ok"] \in Result  BY Zenon DEF Result
  <2>2. batch' \in SUBSET Result  BY <1>23, <2>1, Zenon DEF ChildCompletes
  <2>3. ready' \in BOOLEAN  BY <1>23, Zenon DEF ChildCompletes
  <2>4. child' \in [Branches -> States]  BY <1>23, Zenon DEF ChildCompletes, States
  <2>5. outcome' \in [Branches -> Ends]  BY <1>23, Zenon DEF ChildCompletes, Ends
  <2> QED  BY <1>23, <2>2, <2>3, <2>4, <2>5, ZenonT(60) DEF ChildCompletes
<1>24. ASSUME NEW b \in Branches, ChildWakes(b) PROVE Types'
  BY <1>24, ZenonT(60) DEF ChildWakes, States, Ends, Truths, Result
<1> QED
  BY <1>1, <1>2, <1>3, <1>4, <1>5, <1>6, <1>7, <1>8, <1>9, <1>10, <1>11, <1>12, <1>13,
      <1>14, <1>15, <1>16, <1>17, <1>18, <1>19, <1>20, <1>21, <1>22, <1>23, <1>24,
      Zenon DEF Next, Step, ChildStep

\* The fold, with the results named.
LEMMA Folded ==
  ASSUME Fold, Distinct(batch)
  PROVE  /\ ~ready' /\ batch' \in SUBSET batch
         /\ ready => batch' = {}
         /\ \E good, bad \in SUBSET Branches :
              /\ successes' = successes + Cardinality(good)
              /\ failures' = failures + Cardinality(bad)
              /\ good = BranchesOf({x \in batch \ batch' : x.ok})
              /\ bad = BranchesOf({x \in batch \ batch' : ~x.ok})
              /\ Cardinality(good) + Cardinality(bad) = Cardinality(batch) - Cardinality(batch')
<1> DEFINE done == IF ready THEN batch ELSE {}
           good == BranchesOf({x \in done : x.ok})
           bad == BranchesOf({x \in done : ~x.ok})
<1>1. /\ successes' = successes + Cardinality(good)
      /\ failures' = failures + Cardinality(bad)
      /\ batch' = batch \ done /\ ready' = FALSE
  BY Zenon DEF Fold, BranchesOf
<1>2. Distinct(done) /\ Distinct({x \in done : x.ok}) /\ Distinct({x \in done : ~x.ok})
  BY Zenon DEF Distinct
<1>3. good \in SUBSET Branches /\ bad \in SUBSET Branches  BY <1>2, ResultsCounted, Zenon
<1>4. Cardinality(good) + Cardinality(bad) = Cardinality(done)
  <2> HIDE DEF done
  <2> QED  BY <1>2, ResultsSplit, Zenon
<1>5. batch \ batch' = done  BY <1>1, Zenon
<1>6. Cardinality(done) = Cardinality(batch) - Cardinality(batch')
  <2>1. IsFiniteSet(batch)  BY ResultsCounted, Zenon
  <2>2. Cardinality(batch) \in Nat  BY <2>1, FS_CardinalityType, Zenon
  <2>3. Cardinality({}) = 0  BY FS_EmptySet, Zenon
  <2>4. CASE ready
    <3>1. done = batch /\ batch' = {}  BY <1>1, <2>4, Zenon
    <3> QED  BY <3>1, <2>2, <2>3, SMT
  <2>5. CASE ~ready
    <3>1. done = {} /\ batch' = batch  BY <1>1, <2>5, Zenon
    <3> QED  BY <3>1, <2>2, <2>3, SMT
  <2> QED  BY <2>4, <2>5, Zenon
<1> HIDE DEF done
<1>7. good = BranchesOf({x \in batch \ batch' : x.ok})
        /\ bad = BranchesOf({x \in batch \ batch' : ~x.ok})
  BY <1>5, Zenon
<1>8. ready => batch' = {}  BY <1>1, Zenon DEF done
<1>9. Cardinality(good) + Cardinality(bad) = Cardinality(batch) - Cardinality(batch')
  BY <1>4, <1>6, Zenon
<1> HIDE DEF good, bad
<1> QED  BY <1>1, <1>3, <1>7, <1>8, <1>9, Zenon

\* Every step keeps the types of the counts.
LEMMA NumbersStep ==
  ASSUME Types, Numbers, Distinct(batch), [Next]_vars PROVE Numbers'
<1>0. N \in Nat \ {0} /\ MaxParallel \in Nat \ {0}  BY Zenon, ParallelAssumption
<1>1. CASE /\ UNCHANGED fields
           /\ faults' = faults \/ faults' = faults + 1
  BY <1>0, <1>1, SMT DEF Numbers
<1>2. CASE NoFields /\ (faults' = faults \/ faults' = faults + 1)
  BY <1>0, <1>2, SMT DEF Numbers, NoFields
<1>3. ASSUME NEW w \in Workers, LoopBatch(w) PROVE Numbers'
  <2>1. PICK good \in SUBSET Branches, bad \in SUBSET Branches :
          /\ successes' = successes + Cardinality(good)
          /\ failures' = failures + Cardinality(bad)
    BY <1>3, Folded, Zenon DEF LoopBatch
  <2>2. Cardinality(good) \in Nat /\ Cardinality(bad) \in Nat  BY SomeBranches, Zenon
  <2>3. successes' \in Nat /\ failures' \in Nat  BY <2>1, <2>2, SMT DEF Numbers
  <2>4. end' = end \/ (end' = BatchEnd(nextIndex) /\ ~(nextIndex > N))
    BY <1>3, Zenon DEF LoopBatch, Decided
  <2>5. end' \in 0..N
    <3>1. nextIndex \in 1..N + 1 /\ end \in 0..N  BY Zenon DEF Numbers
    <3>2. ~(nextIndex > N) => nextIndex <= N  BY <1>0, <3>1, SMT
    <3> QED  BY <2>4, <3>1, <3>2, EndsWithin, Zenon
  <2>6. nextIndex' = nextIndex /\ inFlight' = inFlight /\ faults' = faults
    BY <1>3, Zenon DEF LoopBatch
  <2> QED  BY <2>3, <2>5, <2>6, Zenon DEF Numbers
<1>4. ASSUME NEW w \in Workers, LaunchChild(w) \/ LaunchRefused(w) \/ LaunchTorn(w)
      PROVE  Numbers'
  <2>1. /\ nextIndex <= end /\ nextIndex' = nextIndex + 1 /\ end' = end
        /\ inFlight' = inFlight \/ inFlight' = inFlight + 1
        /\ successes' = successes /\ failures' = failures
        /\ faults' = faults \/ faults' = faults + 1
    BY <1>4, ZenonT(60) DEF LaunchChild, LaunchRefused, LaunchTorn, Fault
  <2> QED  BY <1>0, <2>1, SMT DEF Numbers
<1>5. ASSUME NEW w \in Workers, LaunchEnd(w) PROVE Numbers'
  <2>1. /\ nextIndex' = nextIndex /\ end' = 0 /\ inFlight' = inFlight
        /\ successes' = successes /\ failures' = failures /\ faults' = faults
    BY <1>5, Zenon DEF LaunchEnd
  <2> QED  BY <1>0, <2>1, SMT DEF Numbers
<1>6. ASSUME NEW b \in Branches, ChildCompletes(b) PROVE Numbers'
  <2>1. /\ nextIndex' = nextIndex /\ end' = end /\ inFlight' = inFlight - 1
        /\ successes' = successes /\ failures' = failures /\ faults' = faults
    BY <1>6, Zenon DEF ChildCompletes
  <2> QED  BY <1>0, <2>1, SMT DEF Numbers
<1>7. CASE UNCHANGED vars  BY <1>1, <1>7, ZenonT(60) DEF vars
<1>8. CASE Execute \/ Cancel  BY <1>1, <1>8, ZenonT(60) DEF Execute, Cancel, Fault
<1>9. CASE Crash  BY <1>2, <1>9, Zenon DEF Crash, Fault
<1>10. ASSUME NEW w \in Workers, Commit(w) \/ QuotaExceeded(w) PROVE Numbers'
  BY <1>2, <1>10, ZenonT(60) DEF Commit, QuotaExceeded, Fault
<1>11. ASSUME NEW w \in Workers,
              \/ DriveStart(w) \/ EnterStep(w) \/ LoopPending(w) \/ Injected(w)
              \/ EraseChild(w) \/ Join(w) \/ PostDriving(w) \/ PostLook(w)
              \/ PostReady(w) \/ Deliver(w)
       PROVE  Numbers'
  BY <1>1, <1>11, ZenonT(60) DEF DriveStart, EnterStep, LoopPending, Injected, EraseChild,
     Join, PostDriving, PostLook, PostReady, Deliver, Fault
<1>12. ASSUME NEW b \in Branches, ChildRuns(b) \/ ChildSaves(b) \/ ChildWakes(b)
       PROVE  Numbers'
  BY <1>1, <1>12, ZenonT(60) DEF ChildRuns, ChildSaves, ChildWakes, Fault
<1> QED
  BY <1>3, <1>4, <1>5, <1>6, <1>7, <1>8, <1>9, <1>10, <1>11, <1>12, Zenon
     DEF Next, Step, ChildStep

-----------------------------------------------------------------------------
(* Where the drives are.                                                   *)

\* A worker moves only itself, except when the process ends.
LEMMA OthersStay ==
  ASSUME Types, NEW w \in Workers, Step(w), NEW v \in Workers, v # w
  PROVE  pc'[v] = pc[v] /\ result'[v] = result[v]
BY ZenonT(60) DEF Types, Step, DriveStart, EnterStep, LoopPending, LoopBatch, LaunchChild,
   LaunchRefused, LaunchTorn, LaunchEnd, Injected, QuotaExceeded, Commit, EraseChild, Join,
   PostDriving, PostLook, PostReady, Deliver, Goto, Return, Fault

\* The others move no worker.
LEMMA NobodyMoves ==
  ASSUME \/ Execute \/ Cancel \/ UNCHANGED vars
         \/ \E b \in Branches : ChildStep(b)
  PROVE  UNCHANGED <<policy, where, saved, cont, pc, result, told>>
BY ZenonT(60) DEF vars, Execute, Cancel, ChildStep, ChildRuns, ChildSaves, ChildCompletes,
   ChildWakes

\* A worker enters execute_step only when no other is in it.
LEMMA Enters ==
  ASSUME Types, NEW w \in Workers, Step(w), pc'[w] \in InStep
  PROVE  \/ pc[w] \in InStep
         \/ pc[w] = "start" /\ \A v \in Workers : pc[v] \notin InStep
BY ZenonT(60) DEF Types, InStep, Step, DriveStart, EnterStep, LoopPending, LoopBatch, LaunchChild,
   LaunchRefused, LaunchTorn, LaunchEnd, Injected, QuotaExceeded, Commit, EraseChild, Join,
   PostDriving, PostLook, PostReady, Deliver, Goto, Return, Fault

\* drive_mutex, step by step.
Mutex == \A v, w \in Workers : pc[v] \in InStep /\ pc[w] \in InStep => v = w
\* No two drives get into execute_step.
LEMMA MutexStep == ASSUME Types, Mutex, [Next]_vars PROVE Mutex'
<1>1. ASSUME NEW w \in Workers, Step(w) PROVE Mutex'
  <2> SUFFICES ASSUME NEW u \in Workers, NEW v \in Workers, u # v,
                      pc'[u] \in InStep, pc'[v] \in InStep
               PROVE  FALSE
    BY Zenon DEF Mutex
  <2>1. \A x \in Workers : x # w => pc'[x] = pc[x]  BY <1>1, OthersStay, Zenon
  <2>2. pc'[w] \in InStep => pc[w] \in InStep \/ \A x \in Workers : pc[x] \notin InStep
    BY <1>1, Enters, Zenon
  <2> QED  BY <2>1, <2>2, Zenon DEF Mutex
<1>2. CASE Crash  BY <1>2, Zenon DEF Crash, Mutex, InStep
<1>3. CASE \/ Execute \/ Cancel \/ UNCHANGED vars
           \/ \E b \in Branches : ChildStep(b)
  BY <1>3, NobodyMoves, Zenon DEF Mutex
<1> QED  BY <1>1, <1>2, <1>3, Zenon DEF Next

\* What a step of a worker leaves of the place of the Run.
LEMMA PlaceStep == ASSUME Types, PlaceInv, [Next]_vars PROVE PlaceInv'
<1>1. Mutex  BY Zenon DEF PlaceInv, Mutex
<1>2. Mutex'  BY <1>1, MutexStep, Zenon
<1>3. CASE \/ Execute \/ Cancel \/ UNCHANGED vars
           \/ \E b \in Branches : ChildStep(b)
  <2>1. UNCHANGED <<where, saved, cont, pc>>  BY <1>3, NobodyMoves, Zenon
  <2> QED  BY <2>1, ZenonT(60) DEF PlaceInv
<1>4. CASE Crash  BY <1>4, ZenonT(60) DEF Crash, PlaceInv, Types, InStep
<1>5. ASSUME NEW w \in Workers,
             /\ Step(w)
             /\ cont' = cont /\ where' = where /\ saved' = saved
             /\ pc'[w] \in {"loop", "launch", "commit"} => cont
             /\ pc'[w] \in {"erase", "join"} => where = "joined"
      PROVE  PlaceInv'
  BY <1>2, <1>5, OthersStay, ZenonT(60) DEF PlaceInv, Mutex
<1>6. ASSUME NEW w \in Workers, EnterStep(w) PROVE PlaceInv'
  <2>1. \A v \in Workers : v # w => pc'[v] = pc[v]  BY <1>6, OthersStay, Zenon DEF Step
  <2>2. /\ pc'[w] \in {"loop", "launch", "commit"} => cont'
        /\ pc'[w] \in {"erase", "join"} => where = "joined"
        /\ where' = where
        /\ cont => cont'
        /\ cont' => where = "node"
        /\ saved' = saved \/ (where = "node" /\ saved' = "node")
    <3>1. cont => where = "node"  BY Zenon DEF PlaceInv
    <3>2. (cont' <=> cont) \/ (cont' /\ where = "node")  BY <1>6, Zenon DEF EnterStep
    <3>3. /\ pc'[w] \in {"loop", "launch", "commit"} => cont'
          /\ pc'[w] \in {"erase", "join"} => where = "joined"
      BY <1>6, ZenonT(60) DEF EnterStep, Types, Goto, Return
    <3>4. /\ where' = where
          /\ saved' = saved \/ (where = "node" /\ saved' = "node")
      BY <1>6, Zenon DEF EnterStep
    <3> QED  BY <3>1, <3>2, <3>3, <3>4, Zenon
  <2> QED  BY <1>2, <2>1, <2>2, ZenonT(60) DEF PlaceInv, Mutex
<1>7. ASSUME NEW w \in Workers, Commit(w) PROVE PlaceInv'
  <2>1. pc[w] = "commit" /\ pc[w] \in InStep  BY <1>7, Zenon DEF Commit, InStep
  <2>2. \A v \in Workers : v # w => pc'[v] = pc[v] /\ pc[v] \notin InStep
    BY <1>1, <1>7, <2>1, OthersStay, Zenon DEF Step, Mutex
  <2>3. \A v \in Workers : v # w => pc'[v] \notin InStep  BY <2>2, Zenon
  <2>4. cont /\ where = "node" /\ saved \in {"none", "node"}  BY <2>1, Zenon DEF PlaceInv
  <2>5. /\ cont' = FALSE /\ where' \in {"joined", "failed"}
        /\ saved' = where' \/ saved' = saved
        /\ pc'[w] \in {"erase", "deliver"}
        /\ pc'[w] = "erase" => where' = "joined"
    BY <1>7, ZenonT(60) DEF Commit, Types, Goto, Return, Fault
  <2>6. \A v \in Workers : pc'[v] \notin {"loop", "launch", "commit"}
    BY <2>3, <2>5, Zenon DEF InStep
  <2>7. \A v \in Workers : pc'[v] \in {"erase", "join"} => where' = "joined"
    BY <2>3, <2>5, Zenon DEF InStep
  <2> QED  BY <1>2, <2>4, <2>5, <2>6, <2>7, ZenonT(60) DEF PlaceInv, Mutex
<1>8. ASSUME NEW w \in Workers, Join(w) PROVE PlaceInv'
  <2>1. pc[w] = "join" /\ pc[w] \in InStep  BY <1>8, Zenon DEF Join, InStep
  <2>2. \A v \in Workers : v # w => pc'[v] = pc[v] /\ pc[v] \notin InStep
    BY <1>1, <1>8, <2>1, OthersStay, Zenon DEF Step, Mutex
  <2>3. pc'[w] = "deliver"  BY <1>8, Zenon DEF Join, Return, Goto, Types
  <2>4. \A v \in Workers : pc'[v] \notin InStep  BY <2>2, <2>3, Zenon DEF InStep
  <2>5. where = "joined" /\ ~cont  BY <2>1, Zenon DEF PlaceInv
  <2>6. /\ cont' = cont
        /\ where' = "done" \/ where' = where
        /\ saved' = saved \/ (where' = "done" /\ saved' = "done")
    BY <1>8, Zenon DEF Join
  <2>7. \A v \in Workers : pc'[v] \notin {"loop", "launch", "commit", "erase", "join"}
    BY <2>4, Zenon DEF InStep
  <2> QED  BY <1>2, <2>5, <2>6, <2>7, ZenonT(60) DEF PlaceInv, Mutex
<1>9. ASSUME NEW w \in Workers,
             \/ DriveStart(w) \/ LoopPending(w) \/ LoopBatch(w) \/ LaunchChild(w)
             \/ LaunchRefused(w) \/ LaunchTorn(w) \/ LaunchEnd(w) \/ Injected(w)
             \/ EraseChild(w) \/ PostDriving(w) \/ PostLook(w) \/ PostReady(w)
             \/ Deliver(w)
      PROVE  PlaceInv'
  <2>1. Step(w)  BY <1>9, Zenon DEF Step
  <2>2. /\ cont' = cont /\ where' = where /\ saved' = saved
        /\ pc'[w] \in {"loop", "launch", "commit"} => pc[w] \in {"loop", "launch", "commit"}
        /\ pc'[w] \in {"erase", "join"} => pc[w] \in {"erase", "join"}
    BY <1>9, ZenonT(60) DEF Types, DriveStart, LoopPending, LoopBatch, LaunchChild,
       LaunchRefused, LaunchTorn, LaunchEnd, Injected, EraseChild, PostDriving, PostLook,
       PostReady, Deliver, Goto, Return, Fault
  <2> QED  BY <1>5, <2>1, <2>2, Zenon DEF PlaceInv
<1>10. ASSUME NEW w \in Workers, QuotaExceeded(w) PROVE PlaceInv'
  <2>1. pc[w] = "commit" /\ pc[w] \in InStep  BY <1>10, Zenon DEF QuotaExceeded, InStep
  <2>2. \A v \in Workers : v # w => pc'[v] = pc[v] /\ pc[v] \notin InStep
    BY <1>1, <1>10, <2>1, OthersStay, Zenon DEF Step, Mutex
  <2>3. ~cont' /\ where' = where /\ saved' = saved /\ pc'[w] = "deliver"
    BY <1>10, Zenon DEF QuotaExceeded, Types, Goto, Return
  <2>4. \A v \in Workers : pc'[v] \notin {"loop", "launch", "commit", "erase", "join"}
    BY <2>2, <2>3, Zenon DEF InStep
  <2> QED  BY <1>2, <2>3, <2>4, ZenonT(60) DEF PlaceInv, Mutex
<1> QED  BY <1>3, <1>4, <1>6, <1>7, <1>8, <1>9, <1>10, Zenon DEF Next, Step

-----------------------------------------------------------------------------
(* The batch.                                                              *)

\* The steps that leave the continuation's fields alone.
Calm(w) ==
    \/ DriveStart(w) \/ EnterStep(w) \/ LoopPending(w) \/ Injected(w) \/ EraseChild(w)
    \/ Join(w) \/ PostDriving(w) \/ PostLook(w) \/ PostReady(w) \/ Deliver(w)

\* They are none of the steps that fold, launch or merge a batch.
LEMMA CalmKeeps ==
  ASSUME Types, NEW w \in Workers, Calm(w)
  PROVE  /\ UNCHANGED <<nextIndex, end, inFlight, launching, ready, batch, successes,
                        failures, terminal, child, outcome, truth, torn, misread, mode>>
         /\ pc'[w] # "launch" /\ pc'[w] # "commit" /\ Step(w)
         /\ (cont' <=> cont) \/ EnterStep(w)
<1>0. Step(w)  BY Zenon DEF Calm, Step
<1> USE DEF Calm, DriveStart, LoopPending, Injected, EraseChild, Join, PostDriving, PostLook,
        PostReady, Deliver
<1>1. UNCHANGED <<nextIndex, end, inFlight, launching, ready, batch, successes,
                  failures, terminal, child, outcome, truth, torn, misread, mode>>
  BY ZenonT(60) DEF EnterStep
<1>2. pc'[w] # "launch" /\ pc'[w] # "commit"
  BY ZenonT(60) DEF EnterStep, Types, Goto, Return
<1>3. (cont' <=> cont) \/ EnterStep(w)  BY ZenonT(60)
<1> HIDE DEF Calm
<1> QED  BY <1>0, <1>1, <1>2, <1>3, Zenon

\* So do the host, the canceller and a step that does nothing.
LEMMA OutsideKeeps ==
  ASSUME Execute \/ Cancel \/ UNCHANGED vars
  PROVE  UNCHANGED <<nextIndex, end, inFlight, launching, ready, batch, successes, failures,
                     terminal, child, outcome, truth, torn, misread, mode, record, cont, pc,
                     where, saved, result, told, erasing>>
BY ZenonT(60) DEF vars, Execute, Cancel

\* No other worker is in execute_step with one that is.
LEMMA Alone ==
  ASSUME Types, PlaceInv, NEW w \in Workers, Step(w), pc[w] \in InStep
  PROVE  \A v \in Workers : v # w => pc'[v] = pc[v] /\ pc'[v] \notin InStep
<1>1. \A v \in Workers : v # w => pc'[v] = pc[v]  BY OthersStay, Zenon
<1>2. \A v \in Workers : v # w => pc[v] \notin InStep  BY Zenon DEF PlaceInv
<1> QED  BY <1>1, <1>2, Zenon

\* A child in flight is counted.
LEMMA InFlightCounted ==
  ASSUME Types, BatchInv
  PROVE  /\ Flying \in SUBSET Branches /\ IsFiniteSet(Flying) /\ inFlight \in Nat
         /\ inFlight = 0 <=> Flying = {}
<1>1. Flying \in SUBSET Branches  BY Zenon DEF Flying
<1>2. IsFiniteSet(Flying) /\ Cardinality(Flying) \in Nat  BY <1>1, SomeBranches, Zenon
<1>3. inFlight = Cardinality(Flying)  BY Zenon DEF BatchInv
<1>4. Cardinality(Flying) = 0 <=> Flying = {}  BY <1>2, FS_EmptySet, Zenon
<1> QED  BY <1>1, <1>2, <1>3, <1>4, Zenon

\* A batch that is ready has no child in flight.
LEMMA ReadyStep ==
  ASSUME Types, Numbers, PlaceInv, BatchInv, ReadyInv, [Next]_vars PROVE ReadyInv'
<1>1. CASE Execute \/ Cancel \/ UNCHANGED vars
  <2>1. UNCHANGED <<inFlight, launching, ready, pc>>  BY <1>1, OutsideKeeps, Zenon
  <2> QED  BY <2>1, Zenon DEF ReadyInv
<1>2. CASE Crash  BY <1>2, Zenon DEF Crash, NoFields, ReadyInv
<1>3. ASSUME NEW w \in Workers, Calm(w) PROVE ReadyInv'
  <2>1. UNCHANGED <<inFlight, launching, ready>> /\ Step(w)
          /\ pc'[w] # "launch" /\ pc'[w] # "commit"
    BY <1>3, CalmKeeps, Zenon
  <2>2. \A v \in Workers : v # w => pc'[v] = pc[v]  BY <2>1, OthersStay, Zenon
  <2> QED  BY <2>1, <2>2, Zenon DEF ReadyInv
<1>4. ASSUME NEW w \in Workers, pc[w] \in {"loop", "launch", "commit"}, Step(w), ~Calm(w)
      PROVE  ReadyInv'
  <2>1. pc[w] \in InStep  BY <1>4, Zenon DEF InStep
  <2>2. \A v \in Workers : v # w => pc'[v] \notin InStep  BY <1>4, <2>1, Alone, Zenon
  <2>3. \A v \in Workers : v # w => pc'[v] # "launch" /\ pc'[v] # "commit"
    BY <2>2, Zenon DEF InStep
  <2>4. CASE LoopBatch(w)
    <3>1. inFlight' = inFlight /\ ~ready' /\ (inFlight = 0 \/ ready)
      BY <2>4, Zenon DEF LoopBatch, Fold
    <3>2. pc'[w] = "commit" \/ (pc'[w] = "launch" /\ launching')
      BY <2>4, Zenon DEF LoopBatch, Goto, Types
    <3> QED  BY <2>3, <3>1, <3>2, Zenon DEF ReadyInv
  <2>5. CASE LaunchChild(w) \/ LaunchRefused(w) \/ LaunchTorn(w)
    <3>1. pc[w] = "launch" /\ UNCHANGED <<launching, ready>> /\ pc'[w] # "commit"
      BY <2>5, ZenonT(60) DEF LaunchChild, LaunchRefused, LaunchTorn, Types, Goto, Return
    <3> QED  BY <2>3, <3>1, Zenon DEF ReadyInv
  <2>6. CASE LaunchEnd(w)
    <3>1. /\ inFlight' = inFlight /\ pc'[w] = "loop"
          /\ ready' => ready \/ inFlight = 0
      BY <2>6, Zenon DEF LaunchEnd, Types, Goto
    <3> QED  BY <2>3, <3>1, Zenon DEF ReadyInv
  <2>7. CASE Commit(w) \/ QuotaExceeded(w)
    <3>1. ~ready' /\ pc'[w] # "launch" /\ pc'[w] # "commit"
      BY <2>7, Zenon DEF Commit, QuotaExceeded, NoFields, Types, Goto, Return
    <3> QED  BY <2>3, <3>1, Zenon DEF ReadyInv
  <2> QED  BY <1>4, <2>4, <2>5, <2>6, <2>7, Zenon DEF Step, Calm
<1>5. ASSUME NEW b \in Branches, ChildCompletes(b) PROVE ReadyInv'
  <2>1. b \in Flying  BY <1>5, Zenon DEF ChildCompletes, Flying
  <2>2. inFlight # 0  BY <2>1, InFlightCounted, Zenon
  <2>3. /\ inFlight' = inFlight - 1 /\ launching' = launching /\ pc' = pc
        /\ ready' => ready \/ (inFlight = 1 /\ ~launching)
    BY <1>5, Zenon DEF ChildCompletes
  <2>4. ~ready /\ \A v \in Workers : pc[v] # "commit"  BY <2>2, Zenon DEF ReadyInv
  <2>5. inFlight = 1 => inFlight' = 0  BY <2>3, SMT
  <2> QED  BY <2>3, <2>4, <2>5, Zenon DEF ReadyInv
<1>6. ASSUME NEW b \in Branches, ChildRuns(b) \/ ChildSaves(b) \/ ChildWakes(b)
      PROVE  ReadyInv'
  <2>1. UNCHANGED <<inFlight, launching, ready, pc>>
    BY <1>6, ZenonT(60) DEF ChildRuns, ChildSaves, ChildWakes
  <2> QED  BY <2>1, Zenon DEF ReadyInv
<1>7. ASSUME NEW w \in Workers, Step(w) PROVE Calm(w) \/ pc[w] \in {"loop", "launch", "commit"}
  BY <1>7, ZenonT(60) DEF Step, Calm, LoopBatch, LaunchChild, LaunchRefused, LaunchTorn,
     LaunchEnd, QuotaExceeded, Commit
<1> QED  BY <1>1, <1>2, <1>3, <1>4, <1>5, <1>6, <1>7, Zenon DEF Next, ChildStep

\* Every branch launched is in flight, in the batch or counted, once.
Sum == successes + failures + Cardinality(batch) + inFlight

\* The set of branches in flight, when one is added or leaves it.
LEMMA FlyingKept ==
  ASSUME \A b \in Branches : child'[b] \in {"running", "ran", "finished"}
                              <=> child[b] \in {"running", "ran", "finished"}
  PROVE  Flying' = Flying
BY Zenon DEF Flying

\* The batch, when a result is added to it.
LEMMA ResultAdded ==
  ASSUME Types, Distinct(batch), NEW r \in Result, r.branch \notin InBatch,
         batch' = batch \cup {r}
  PROVE  /\ Distinct(batch') /\ InBatch' = InBatch \cup {r.branch}
         /\ Cardinality(batch) \in Nat /\ Cardinality(batch') = Cardinality(batch) + 1
<1>1. \A s \in batch : s.branch # r.branch  BY Zenon DEF InBatch, BranchesOf
<1>2. Distinct(batch')  BY <1>1, Zenon DEF Distinct
<1>3. InBatch' = InBatch \cup {r.branch}  BY Zenon DEF InBatch, BranchesOf
<1>4. IsFiniteSet(batch)  BY ResultsCounted, Zenon
<1>5. Cardinality(batch) \in Nat  BY <1>4, FS_CardinalityType, Zenon
<1>6. r \notin batch  BY <1>1, Zenon
<1>7. Cardinality(batch \cup {r}) = Cardinality(batch) + 1  BY <1>4, <1>6, FS_AddElement, Zenon
<1> QED  BY <1>2, <1>3, <1>5, <1>7, Zenon

\* The continuation is begun, with empty fields, and forgotten with none.
LEMMA BatchBegins ==
  ASSUME BatchInv, Numbers,
         UNCHANGED <<nextIndex, end, inFlight, launching, ready, batch, successes,
                     failures, terminal, child, torn>>,
         cont => cont'
  PROVE  BatchInv'
<1>1. Flying' = Flying /\ InBatch' = InBatch  BY Zenon DEF Flying, InBatch, BranchesOf
<1>2. /\ ~cont' => EmptyFields' /\ Flying' = {}
      /\ \A b \in Flying' \cup InBatch' : b < nextIndex'
      /\ Flying' \cap InBatch' = {} /\ Distinct(batch')
      /\ inFlight' = Cardinality(Flying')
  BY <1>1, ZenonT(60) DEF BatchInv, EmptyFields
<1>3. EachBranchCountedOnce'
  <2>1. CASE cont
    <3>1. ~torn => Sum = nextIndex - 1
      BY <2>1, Zenon DEF BatchInv, EachBranchCountedOnce, Sum
    <3>2. Sum' = Sum /\ nextIndex' = nextIndex /\ torn' = torn  BY Zenon DEF Sum
    <3>3. ~torn' => Sum' = nextIndex' - 1  BY <3>1, <3>2, SMT
    <3> QED  BY <3>3, Zenon DEF EachBranchCountedOnce, Sum
  <2>2. CASE ~cont
    <3>1. successes' = 0 /\ failures' = 0 /\ batch' = {} /\ inFlight' = 0 /\ nextIndex' = 1
      BY <2>2, Zenon DEF BatchInv, EmptyFields
    <3>2. Cardinality(batch') = 0  BY <3>1, FS_EmptySet, Zenon
    <3> QED  BY <3>1, <3>2, SMT DEF EachBranchCountedOnce
  <2> QED  BY <2>1, <2>2, Zenon
<1> QED  BY <1>2, <1>3, Zenon DEF BatchInv

\* Without a continuation there is no batch.
LEMMA BatchForgotten ==
  ASSUME NoFields, Flying' = {}, ~cont' PROVE BatchInv'
<1>1. batch' = {} /\ inFlight' = 0 /\ InBatch' = {} /\ EmptyFields'
  BY Zenon DEF NoFields, EmptyFields, InBatch, BranchesOf
<1>2. inFlight' = Cardinality(Flying')  BY <1>1, FS_EmptySet, Zenon
<1>3. Distinct(batch')  BY <1>1, Zenon DEF Distinct
<1> QED  BY <1>1, <1>2, <1>3, Zenon DEF BatchInv, EachBranchCountedOnce

\* Every step keeps the account of the batch.
LEMMA BatchStep ==
  ASSUME Types, Numbers, PlaceInv, ReadyInv, BatchInv, [Next]_vars PROVE BatchInv'
<1>0. /\ Flying \in SUBSET Branches /\ IsFiniteSet(Flying) /\ inFlight \in Nat
      /\ inFlight = Cardinality(Flying) /\ Distinct(batch)
      /\ nextIndex \in Int /\ N \in Nat /\ successes \in Nat /\ failures \in Nat
  <2>1. N \in Nat  BY Zenon, ParallelAssumption
  <2>2. nextIndex \in Int /\ successes \in Nat /\ failures \in Nat  BY <2>1, SMT DEF Numbers
  <2> QED  BY <2>1, <2>2, InFlightCounted, Zenon DEF BatchInv
<1>b. \A b \in Branches : b \in Int  BY <1>0, SMT DEF Branches
<1>c. \A b \in Flying \cup InBatch : b \in Branches /\ b < nextIndex
  <2>1. InBatch \subseteq Branches  BY <1>0, ResultsCounted, Zenon DEF InBatch
  <2> QED  BY <1>0, <2>1, Zenon DEF BatchInv
<1>d. nextIndex \notin Flying \cup InBatch
  <2>1. ~(nextIndex < nextIndex)  BY <1>0, SMT
  <2> QED  BY <1>c, <2>1, Zenon
<1>e. \A b \in Flying \cup InBatch : b < nextIndex + 1  BY <1>0, <1>b, <1>c, SMT
<1>f. nextIndex < nextIndex + 1  BY <1>0, SMT
<1>g. cont /\ ~torn => Sum = nextIndex - 1  BY Zenon DEF BatchInv, EachBranchCountedOnce, Sum
<1>h. Cardinality(batch) \in Nat  BY <1>0, ResultsCounted, FS_CardinalityType, Zenon
<1>1. CASE Execute \/ Cancel \/ UNCHANGED vars
  <2>1. UNCHANGED <<nextIndex, end, inFlight, launching, ready, batch, successes, failures,
                    terminal, child, torn, cont>>
    BY <1>1, OutsideKeeps, Zenon
  <2>2. cont => cont'  BY <2>1, Zenon
  <2> QED  BY <2>1, <2>2, BatchBegins, Zenon
<1>2. CASE Crash
  <2>1. NoFields /\ ~cont' /\ Flying' = {}  BY <1>2, Zenon DEF Crash, Flying
  <2> QED  BY <2>1, BatchForgotten, Zenon
<1>3. ASSUME NEW w \in Workers, Calm(w) PROVE BatchInv'
  <2>1. cont => cont'
    <3>1. EnterStep(w) => (cont => cont')  BY Zenon DEF EnterStep
    <3> QED  BY <1>3, <3>1, CalmKeeps, Zenon
  <2> QED  BY <1>3, <2>1, CalmKeeps, BatchBegins, Zenon
<1>4. ASSUME NEW w \in Workers, LoopBatch(w) PROVE BatchInv'
  <2>1. /\ cont' = cont /\ nextIndex' = nextIndex /\ inFlight' = inFlight /\ child' = child
        /\ torn' = torn /\ Fold
    BY <1>4, Zenon DEF LoopBatch
  <2>2. cont  BY <1>4, Zenon DEF LoopBatch, PlaceInv
  <2>3. Flying' = Flying  BY <2>1, Zenon DEF Flying
  <2>4. batch' \in SUBSET batch  BY <1>0, <2>1, Folded, Zenon
  <2>5. Distinct(batch') /\ InBatch' \subseteq InBatch
    BY <1>0, <2>4, Zenon DEF Distinct, InBatch, BranchesOf
  <2>6. PICK good \in SUBSET Branches, bad \in SUBSET Branches :
          /\ successes' = successes + Cardinality(good)
          /\ failures' = failures + Cardinality(bad)
          /\ Cardinality(good) + Cardinality(bad) = Cardinality(batch) - Cardinality(batch')
    BY <1>0, <2>1, Folded, Zenon
  <2>7. Cardinality(good) \in Nat /\ Cardinality(bad) \in Nat  BY SomeBranches, Zenon
  <2>8. Cardinality(batch') \in Nat  BY <2>5, ResultsCounted, FS_CardinalityType, Zenon
  <2>9. Sum' = Sum  BY <1>0, <1>h, <2>1, <2>6, <2>7, <2>8, SMT DEF Sum
  <2>10. EachBranchCountedOnce'
    <3>1. ~torn' => Sum' = nextIndex' - 1  BY <1>g, <2>1, <2>2, <2>9, Zenon
    <3> QED  BY <3>1, Zenon DEF EachBranchCountedOnce, Sum
  <2>11. cont'  BY <2>1, <2>2, Zenon
  <2> QED  BY <1>0, <1>c, <2>1, <2>3, <2>5, <2>10, <2>11, ZenonT(30) DEF BatchInv
<1>5. ASSUME NEW w \in Workers, LaunchChild(w) PROVE BatchInv'
  <2>1. /\ cont' = cont /\ nextIndex' = nextIndex + 1 /\ inFlight' = inFlight + 1
        /\ torn' = torn /\ batch' = batch /\ successes' = successes /\ failures' = failures
        /\ child'[nextIndex] \in {"running", "finished"}
        /\ \A b \in Branches : b # nextIndex => child'[b] = child[b]
    <3>1. nextIndex \in Branches  BY <1>5, LaunchesBranch, Zenon DEF LaunchChild
    <3> QED  BY <1>5, <3>1, ZenonT(30) DEF LaunchChild, Types
  <2>2. cont  BY <1>5, Zenon DEF LaunchChild, PlaceInv
  <2>3. nextIndex \in Branches  BY <1>5, LaunchesBranch, Zenon DEF LaunchChild
  <2>4. Flying' = Flying \cup {nextIndex}  BY <2>1, <2>3, Zenon DEF Flying
  <2>5. InBatch' = InBatch  BY <2>1, Zenon DEF InBatch, BranchesOf
  <2>6. Cardinality(Flying') = inFlight + 1  BY <1>0, <1>d, <2>4, FS_AddElement, Zenon
  <2>7. Sum' = Sum + 1  BY <1>0, <1>h, <2>1, SMT DEF Sum
  <2>8. EachBranchCountedOnce'
    <3>1. Sum \in Int  BY <1>0, <1>h, SMT DEF Sum
    <3>2. ~torn => Sum' = nextIndex' - 1  BY <1>0, <1>g, <2>1, <2>2, <2>7, <3>1, SMT
    <3> QED  BY <2>1, <3>2, Zenon DEF EachBranchCountedOnce, Sum
  <2>9. Flying' \cap InBatch' = {}  BY <1>d, <2>4, <2>5, Zenon DEF BatchInv
  <2>10. \A b \in Flying' \cup InBatch' : b < nextIndex'
    BY <1>e, <1>f, <2>1, <2>4, <2>5, Zenon
  <2>11. cont' /\ Distinct(batch')  BY <1>0, <2>1, <2>2, Zenon
  <2> QED  BY <2>1, <2>6, <2>8, <2>9, <2>10, <2>11, Zenon DEF BatchInv
<1>6. ASSUME NEW w \in Workers, LaunchRefused(w) PROVE BatchInv'
  <2> DEFINE r == [branch |-> nextIndex, ok |-> FALSE]
  <2>1. /\ cont' = cont /\ nextIndex' = nextIndex + 1 /\ inFlight' = inFlight
        /\ torn' = torn /\ batch' = batch \cup {r} /\ successes' = successes
        /\ failures' = failures /\ child' = child
    BY <1>6, ZenonT(30) DEF LaunchRefused
  <2>2. cont  BY <1>6, Zenon DEF LaunchRefused, PlaceInv
  <2>3. nextIndex \in Branches  BY <1>6, LaunchesBranch, Zenon DEF LaunchRefused
  <2>4. r \in Result /\ r.branch = nextIndex  BY <2>3, Zenon DEF Result
  <2> HIDE DEF r
  <2>5. r.branch \notin InBatch  BY <1>d, <2>4, Zenon
  <2>6. /\ Distinct(batch') /\ InBatch' = InBatch \cup {nextIndex}
        /\ Cardinality(batch') = Cardinality(batch) + 1
    BY <1>0, <2>1, <2>4, <2>5, ResultAdded, Zenon
  <2>7. Flying' = Flying  BY <2>1, Zenon DEF Flying
  <2>8. EachBranchCountedOnce'
    <3>1. Sum \in Int  BY <1>0, <1>h, SMT DEF Sum
    <3>2. Sum' = Sum + 1  BY <1>0, <1>h, <2>1, <2>6, SMT DEF Sum
    <3>3. ~torn => Sum' = nextIndex' - 1  BY <1>0, <1>g, <2>1, <2>2, <3>1, <3>2, SMT
    <3> QED  BY <2>1, <3>3, Zenon DEF EachBranchCountedOnce, Sum
  <2>9. Flying' \cap InBatch' = {}  BY <1>d, <2>6, <2>7, Zenon DEF BatchInv
  <2>10. \A b \in Flying' \cup InBatch' : b < nextIndex'
    BY <1>e, <1>f, <2>1, <2>6, <2>7, Zenon
  <2>11. cont' /\ inFlight' = Cardinality(Flying')  BY <1>0, <2>1, <2>2, <2>7, Zenon
  <2> QED  BY <2>6, <2>8, <2>9, <2>10, <2>11, Zenon DEF BatchInv
<1>7. ASSUME NEW w \in Workers, LaunchTorn(w) PROVE BatchInv'
  <2>1. /\ cont' = cont /\ nextIndex' = nextIndex + 1 /\ inFlight' = inFlight
        /\ torn' /\ batch' = batch /\ child' = child
    BY <1>7, ZenonT(30) DEF LaunchTorn
  <2>2. cont  BY <1>7, Zenon DEF LaunchTorn, PlaceInv
  <2>3. Flying' = Flying /\ InBatch' = InBatch  BY <2>1, Zenon DEF Flying, InBatch, BranchesOf
  <2> QED
    BY <1>0, <1>e, <2>1, <2>2, <2>3, ZenonT(30) DEF BatchInv, EachBranchCountedOnce
<1>8. ASSUME NEW w \in Workers, LaunchEnd(w) PROVE BatchInv'
  <2>1. /\ cont' = cont /\ nextIndex' = nextIndex /\ inFlight' = inFlight
        /\ torn' = torn /\ batch' = batch /\ child' = child
        /\ successes' = successes /\ failures' = failures
    BY <1>8, Zenon DEF LaunchEnd
  <2>2. cont  BY <1>8, Zenon DEF LaunchEnd, PlaceInv
  <2>3. Flying' = Flying /\ InBatch' = InBatch  BY <2>1, Zenon DEF Flying, InBatch, BranchesOf
  <2>4. Sum' = Sum  BY <2>1, Zenon DEF Sum
  <2>5. EachBranchCountedOnce'
    <3>1. ~torn' => Sum' = nextIndex' - 1  BY <1>g, <2>1, <2>2, <2>4, Zenon
    <3> QED  BY <3>1, Zenon DEF EachBranchCountedOnce, Sum
  <2> QED  BY <2>1, <2>2, <2>3, <2>5, ZenonT(30) DEF BatchInv
<1>9. ASSUME NEW w \in Workers, Commit(w) \/ QuotaExceeded(w) PROVE BatchInv'
  <2>1. NoFields /\ ~cont' /\ child' = child /\ pc[w] = "commit"
    BY <1>9, Zenon DEF Commit, QuotaExceeded
  <2>2. inFlight = 0  BY <2>1, Zenon DEF ReadyInv
  <2>3. Flying = {}  BY <2>2, InFlightCounted, Zenon
  <2>4. Flying' = {}  BY <2>1, <2>3, Zenon DEF Flying
  <2> QED  BY <2>1, <2>4, BatchForgotten, Zenon
<1>10. ASSUME NEW b \in Branches, ChildRuns(b) \/ ChildSaves(b) \/ ChildWakes(b)
       PROVE  BatchInv'
  <2>1. UNCHANGED <<nextIndex, end, inFlight, launching, ready, batch, successes,
                    failures, terminal, torn, cont>>
    BY <1>10, ZenonT(60) DEF ChildRuns, ChildSaves, ChildWakes
  <2>2. \A c \in Branches : child'[c] \in {"running", "ran", "finished"}
                             <=> child[c] \in {"running", "ran", "finished"}
    BY <1>10, ZenonT(60) DEF ChildRuns, ChildSaves, ChildWakes, Types
  <2>3. Flying' = Flying  BY <2>2, FlyingKept, Zenon
  <2>4. InBatch' = InBatch  BY <2>1, Zenon DEF InBatch, BranchesOf
  <2>5. Sum' = Sum  BY <2>1, Zenon DEF Sum
  <2>6. EachBranchCountedOnce'
    <3>1. cont' /\ ~torn' => Sum' = nextIndex' - 1  BY <1>g, <2>1, <2>5, Zenon
    <3> QED  BY <3>1, Zenon DEF EachBranchCountedOnce, Sum
  <2> QED  BY <2>1, <2>3, <2>4, <2>6, ZenonT(30) DEF BatchInv, EmptyFields
<1>11. ASSUME NEW b \in Branches, ChildCompletes(b) PROVE BatchInv'
  <2> DEFINE r == [branch |-> b, ok |-> outcome[b] = "ok"]
  <2>1. /\ cont' = cont /\ nextIndex' = nextIndex /\ inFlight' = inFlight - 1
        /\ torn' = torn /\ batch' = batch \cup {r} /\ successes' = successes
        /\ failures' = failures /\ child[b] = "finished"
        /\ child'[b] \in {"waking", "none"}
        /\ \A c \in Branches : c # b => child'[c] = child[c]
    BY <1>11, ZenonT(30) DEF ChildCompletes, Types
  <2>2. r \in Result /\ r.branch = b  BY Zenon DEF Result
  <2> HIDE DEF r
  <2>3. b \in Flying  BY <2>1, Zenon DEF Flying
  <2>4. cont  BY <2>3, Zenon DEF BatchInv
  <2>5. b \notin InBatch  BY <2>3, Zenon DEF BatchInv
  <2>6. /\ Distinct(batch') /\ InBatch' = InBatch \cup {b}
        /\ Cardinality(batch') = Cardinality(batch) + 1
    BY <1>0, <2>1, <2>2, <2>5, ResultAdded, Zenon
  <2>7. Flying' = Flying \ {b}  BY <2>1, Zenon DEF Flying
  <2>8. Cardinality(Flying') = inFlight - 1  BY <1>0, <2>3, <2>7, FS_RemoveElement, Zenon
  <2>9. EachBranchCountedOnce'
    <3>1. Sum' = Sum  BY <1>0, <1>h, <2>1, <2>6, SMT DEF Sum
    <3>2. ~torn' => Sum' = nextIndex' - 1  BY <1>g, <2>1, <2>4, <3>1, Zenon
    <3> QED  BY <3>2, Zenon DEF EachBranchCountedOnce, Sum
  <2>10. Flying' \cap InBatch' = {}  BY <2>6, <2>7, Zenon DEF BatchInv
  <2>11. \A c \in Flying' \cup InBatch' : c < nextIndex'
    BY <1>c, <2>1, <2>3, <2>6, <2>7, Zenon
  <2> QED  BY <2>1, <2>4, <2>6, <2>8, <2>9, <2>10, <2>11, Zenon DEF BatchInv
<1> QED
  BY <1>1, <1>2, <1>3, <1>4, <1>5, <1>6, <1>7, <1>8, <1>9, <1>10, <1>11, Zenon
     DEF Next, Step, Calm, ChildStep

-----------------------------------------------------------------------------
(* Records and merges.                                                     *)

\* A child whose branch has a record does not run.
LEMMA RecordStep == ASSUME Types, Numbers, RecordInv, [Next]_vars PROVE RecordInv'
<1>1. CASE child' = child /\ record' = record  BY <1>1, Zenon DEF RecordInv
<1>2. CASE Execute \/ Cancel \/ UNCHANGED vars  BY <1>1, <1>2, OutsideKeeps, Zenon
<1>3. CASE Crash  BY <1>3, Zenon DEF Crash, RecordInv
<1>4. ASSUME NEW w \in Workers, EraseChild(w) PROVE RecordInv'
  <2>1. child' = child /\ \A b \in Branches : record'[b] = record[b] \/ record'[b] = "none"
    BY <1>4, ZenonT(30) DEF EraseChild, Types
  <2> QED  BY <2>1, Zenon DEF RecordInv
<1>5. ASSUME NEW w \in Workers, LaunchChild(w) PROVE RecordInv'
  <2>1. nextIndex \in Branches  BY <1>5, LaunchesBranch, Zenon DEF LaunchChild
  <2> QED  BY <1>5, <2>1, ZenonT(30) DEF LaunchChild, Types, RecordInv
<1>6. ASSUME NEW b \in Branches, ChildStep(b) PROVE RecordInv'
  BY <1>6, ZenonT(60) DEF ChildStep, ChildRuns, ChildSaves, ChildCompletes, ChildWakes, Types,
     RecordInv
<1>7. ASSUME NEW w \in Workers, Step(w), ~EraseChild(w), ~LaunchChild(w)
      PROVE  child' = child /\ record' = record
  BY <1>7, ZenonT(60) DEF Step, DriveStart, EnterStep, LoopPending, LoopBatch,
     LaunchRefused, LaunchTorn, LaunchEnd, Injected, QuotaExceeded, Commit, Join, PostDriving,
     PostLook, PostReady, Deliver
<1> QED  BY <1>1, <1>2, <1>3, <1>4, <1>5, <1>6, <1>7, Zenon DEF Next

\* The parts of MergeInv: what is stored, on its way and counted as a success
\* is one, and what was merged satisfies the policy.
Stored == \A b \in Branches : record[b] = "ok" => truth[b] = "ok"
OnTheWay == \A b \in Branches :
    child[b] \in {"ran", "finished"} /\ outcome[b] = "ok" => truth[b] = "ok"
Answered == \A r \in batch : r.ok => truth[r.branch] = "ok"
Enumerated == successes <= Cardinality(Counted)
Merged == where \in {"joined", "done"} => Satisfies(Good)

\* MergeInv, conjunct by conjunct.
LEMMA MergeParts ==
  MergeInv <=> (~misread => Stored /\ OnTheWay /\ Answered /\ Enumerated /\ Merged)
BY Zenon DEF MergeInv, Stored, OnTheWay, Answered, Enumerated, Merged

\* What was counted as a success are branches that succeeded.
LEMMA CountedBranches ==
  /\ Counted \in SUBSET Branches /\ Counted \subseteq Good /\ Good \in SUBSET Branches
  /\ Cardinality(Counted) \in Nat /\ Cardinality(Good) \in Nat
  /\ Cardinality(Counted) <= Cardinality(Good)
<1>1. Counted \in SUBSET Branches /\ Counted \in SUBSET Good /\ Good \in SUBSET Branches
  BY Zenon DEF Counted, Good
<1> QED  BY <1>1, SomeBranches, MoreBranches, Zenon

\* More branches that succeeded are counted, the number of successes stays.
LEMMA EnumeratedKept ==
  ASSUME Numbers, Enumerated, Counted \subseteq Counted', successes' = successes
  PROVE  Enumerated'
<1>1. Counted \in SUBSET Branches /\ Counted' \in SUBSET Branches
  BY Zenon DEF Counted, Good
<1>2. Cardinality(Counted) <= Cardinality(Counted')  BY <1>1, MoreBranches, Zenon
<1>3. Cardinality(Counted) \in Nat /\ Cardinality(Counted') \in Nat
  BY <1>1, SomeBranches, Zenon
<1>4. successes \in Nat  BY Zenon DEF Numbers
<1> QED  BY <1>2, <1>3, <1>4, SMT DEF Enumerated

\* A count that starts again is not too high.
LEMMA EnumeratedNone == ASSUME successes' = 0 PROVE Enumerated'
<1>1. Counted' \in SUBSET Branches  BY Zenon DEF Counted, Good
<1>2. Cardinality(Counted') \in Nat  BY <1>1, SomeBranches, Zenon
<1> QED  BY <1>2, SMT DEF Enumerated

\* The success policy of the node is applied to successes that are real.
LEMMA PolicyMet == ASSUME Types, Numbers, Enumerated, Succeeds PROVE Satisfies(Good)
<1>1. /\ Good \in SUBSET Branches /\ Cardinality(Good) \in Nat /\ successes \in Nat
      /\ N \in Nat /\ Minimum \in Nat
  BY CountedBranches, ParallelAssumption, Zenon DEF Numbers
<1>2. successes <= Cardinality(Good)
  BY <1>1, CountedBranches, SMT DEF Enumerated
<1>3. Enough  BY Zenon DEF Succeeds
<1>4. CASE mode = "any"
  <2>1. successes > 0  BY <1>3, <1>4, SMT DEF Enough
  <2>2. Cardinality(Good) # 0  BY <1>1, <1>2, <2>1, SMT
  <2>3. Good # {}  BY <2>2, FS_EmptySet, Zenon
  <2> QED  BY <1>4, <2>3, SMT DEF Satisfies
<1>5. CASE mode = "min_success"
  <2>1. successes >= Minimum  BY <1>3, <1>5, SMT DEF Enough
  <2>2. Cardinality(Good) >= Minimum  BY <1>1, <1>2, <2>1, SMT
  <2> QED  BY <1>5, <2>2, SMT DEF Satisfies
<1>6. CASE mode # "any" /\ mode # "min_success"
  <2>1. successes = N  BY <1>3, <1>6, SMT DEF Enough
  <2>2. Cardinality(Good) >= N  BY <1>1, <1>2, <2>1, SMT
  <2>3. Good = Branches  BY <1>1, <2>2, SomeBranches, Zenon
  <2> QED  BY <1>6, <2>3, SMT DEF Satisfies
<1> QED  BY <1>4, <1>5, <1>6, Zenon

\* Every step keeps the merge sound.
LEMMA MergeStep ==
  ASSUME Types, Numbers, PlaceInv, ReadyInv, BatchInv, RecordInv, MergeInv, [Next]_vars
  PROVE  MergeInv'
<1>0. SUFFICES ASSUME ~misread'
               PROVE  (Stored /\ OnTheWay /\ Answered /\ Enumerated /\ Merged)'
  BY Zenon DEF MergeInv, Stored, OnTheWay, Answered, Enumerated, Merged
<1>m. misread' = misread \/ \E w \in Workers : LaunchChild(w)
  BY ZenonT(60) DEF Next, Step, ChildStep, vars, Execute, Cancel, Crash, DriveStart, EnterStep,
     LoopPending, LoopBatch, LaunchRefused, LaunchTorn, LaunchEnd, Injected, QuotaExceeded, Commit,
     EraseChild, Join, PostDriving, PostLook, PostReady, Deliver, ChildRuns, ChildSaves,
     ChildCompletes, ChildWakes
<1>n. ~misread
  <2>1. CASE \E w \in Workers : LaunchChild(w)  BY <1>0, <2>1, Zenon DEF LaunchChild
  <2>2. CASE misread' = misread  BY <1>0, <2>2, Zenon
  <2> QED  BY <1>m, <2>1, <2>2, Zenon
<1>p. Stored /\ OnTheWay /\ Answered /\ Enumerated /\ Merged  BY <1>n, MergeParts, Zenon
<1>f. Distinct(batch) /\ Flying \cap InBatch = {} /\ nextIndex \notin Flying \cup InBatch
  <2>1. nextIndex \in Int
    <3>1. N \in Nat  BY ParallelAssumption, Zenon
    <3> QED  BY <3>1, SMT DEF Numbers
  <2>2. ~(nextIndex < nextIndex)  BY <2>1, SMT
  <2> QED  BY <2>2, Zenon DEF BatchInv
<1>g. \A b \in Branches : b \in Int /\ nextIndex \in Int
  <2>1. N \in Nat  BY ParallelAssumption, Zenon
  <2> QED  BY <2>1, SMT DEF Numbers, Branches
<1>1. ASSUME UNCHANGED <<truth, child, outcome, batch, nextIndex, successes, mode>>,
             \A b \in Branches : record'[b] = record[b] \/ record'[b] = "none",
             where' \in {"joined", "done"} => where \in {"joined", "done"}
      PROVE  (Stored /\ OnTheWay /\ Answered /\ Enumerated /\ Merged)'
  <2>1. Counted' = Counted /\ Good' = Good
    BY <1>1, Zenon DEF Counted, Good, Flying, InBatch, BranchesOf
  <2>2. Satisfies(Good) => Satisfies(Good)'
    BY <1>1, <2>1, Zenon DEF Satisfies
  <2>3. Stored' /\ OnTheWay' /\ Answered'
    BY <1>p, <1>1, Zenon DEF Stored, OnTheWay, Answered
  <2>4. Enumerated'  BY <1>p, <1>1, <2>1, EnumeratedKept, Zenon
  <2>5. Merged'  BY <1>p, <1>1, <2>2, Zenon DEF Merged
  <2> QED  BY <2>3, <2>4, <2>5, Zenon
<1>2. CASE Execute \/ Cancel \/ UNCHANGED vars
  <2>1. UNCHANGED <<truth, child, outcome, batch, nextIndex, successes, mode, record, where>>
    BY <1>2, OutsideKeeps, Zenon
  <2> QED  BY <1>1, <2>1, Zenon
<1>3. ASSUME NEW w \in Workers, Calm(w)
      PROVE  (Stored /\ OnTheWay /\ Answered /\ Enumerated /\ Merged)'
  <2>1. UNCHANGED <<truth, child, outcome, batch, nextIndex, successes, mode>>
    BY <1>3, CalmKeeps, Zenon
  <2>2. \A b \in Branches : record'[b] = record[b] \/ record'[b] = "none"
    BY <1>3, ZenonT(60) DEF Calm, Types, DriveStart, EnterStep, LoopPending, Injected, EraseChild,
       Join, PostDriving, PostLook, PostReady, Deliver
  <2>3. where' = where \/ Join(w)
    BY <1>3, ZenonT(60) DEF Calm, DriveStart, EnterStep, LoopPending, Injected, EraseChild,
       PostDriving, PostLook, PostReady, Deliver
  <2>4. Join(w) => where = "joined"  BY Zenon DEF Join, PlaceInv
  <2> QED  BY <1>1, <2>1, <2>2, <2>3, <2>4, Zenon
<1>4. CASE Crash
  <2>1. /\ truth' = truth /\ record' = record /\ mode' = mode /\ successes' = 0 /\ batch' = {}
        /\ where' = saved \/ where' = "node"
        /\ \A b \in Branches : child'[b] = "none"
    BY <1>4, Zenon DEF Crash, NoFields
  <2>2. Stored' /\ OnTheWay' /\ Answered'
    BY <1>p, <2>1, Zenon DEF Stored, OnTheWay, Answered
  <2>3. Enumerated'  BY <2>1, EnumeratedNone, Zenon
  <2>4. where' \in {"joined", "done"} => where \in {"joined", "done"}
    BY <2>1, ZenonT(30) DEF PlaceInv, Types
  <2>5. Satisfies(Good) => Satisfies(Good)'
    <3>1. Good' = Good  BY <2>1, Zenon DEF Good
    <3> QED  BY <2>1, <3>1, Zenon DEF Satisfies
  <2>6. Merged'  BY <1>p, <2>4, <2>5, Zenon DEF Merged
  <2> QED  BY <2>2, <2>3, <2>6, Zenon
<1>5. ASSUME NEW w \in Workers, Commit(w) \/ QuotaExceeded(w)
      PROVE  (Stored /\ OnTheWay /\ Answered /\ Enumerated /\ Merged)'
  <2>0. pc[w] = "commit" => where = "node"  BY Zenon DEF PlaceInv
  <2>1. /\ UNCHANGED <<truth, record, child, outcome, mode>> /\ successes' = 0 /\ batch' = {}
        /\ where' \in {"joined", "done"} => Succeeds
    BY <1>5, <2>0, ZenonT(30) DEF Commit, QuotaExceeded, NoFields
  <2>2. Stored' /\ OnTheWay' /\ Answered'
    BY <1>p, <2>1, Zenon DEF Stored, OnTheWay, Answered
  <2>3. Enumerated'  BY <2>1, EnumeratedNone, Zenon
  <2>4. Succeeds => Satisfies(Good)  BY <1>p, PolicyMet, Zenon
  <2>5. Satisfies(Good) => Satisfies(Good)'
    <3>1. Good' = Good  BY <2>1, Zenon DEF Good
    <3> QED  BY <2>1, <3>1, Zenon DEF Satisfies
  <2>6. Merged'  BY <2>1, <2>4, <2>5, Zenon DEF Merged
  <2> QED  BY <2>2, <2>3, <2>6, Zenon
<1>6. ASSUME NEW w \in Workers, LoopBatch(w)
      PROVE  (Stored /\ OnTheWay /\ Answered /\ Enumerated /\ Merged)'
  <2>1. UNCHANGED <<truth, record, child, outcome, mode, where, nextIndex>> /\ Fold
    BY <1>6, Zenon DEF LoopBatch
  <2>2. batch' \in SUBSET batch  BY <1>f, <2>1, Folded, Zenon
  <2>3. Stored' /\ OnTheWay' /\ Answered'
    BY <1>p, <2>1, <2>2, Zenon DEF Stored, OnTheWay, Answered
  <2>4. Merged'
    <3>1. Good' = Good  BY <2>1, Zenon DEF Good
    <3>2. Satisfies(Good) => Satisfies(Good)'  BY <2>1, <3>1, Zenon DEF Satisfies
    <3> QED  BY <1>p, <2>1, <3>2, Zenon DEF Merged
  <2>5. PICK good \in SUBSET Branches :
          /\ successes' = successes + Cardinality(good)
          /\ good = BranchesOf({x \in batch \ batch' : x.ok})
    BY <1>f, <2>1, Folded, Zenon
  <2>6. good \subseteq InBatch /\ good \subseteq Good /\ good \cap InBatch' = {}
    <3>1. good \subseteq InBatch  BY <2>5, Zenon DEF InBatch, BranchesOf
    <3>2. good \subseteq Good  BY <1>p, <2>5, Zenon DEF Answered, BranchesOf, Good
    <3>3. good \cap InBatch' = {}
      BY <1>f, <2>2, <2>5, ZenonT(30) DEF InBatch, BranchesOf, Distinct
    <3> QED  BY <3>1, <3>2, <3>3, Zenon
  <2>7. \A b \in good : b < nextIndex /\ b \notin Flying
    BY <1>f, <2>6, Zenon DEF BatchInv
  <2>8. Counted \cup good \in SUBSET Counted' /\ Counted \cap good = {}
    <3>1. Good' = Good /\ Flying' = Flying /\ nextIndex' = nextIndex
      BY <2>1, Zenon DEF Good, Flying
    <3>2. InBatch' \subseteq InBatch  BY <2>2, Zenon DEF InBatch, BranchesOf
    <3> QED  BY <2>6, <2>7, <3>1, <3>2, ZenonT(30) DEF Counted
  <2>9. Counted \in SUBSET Branches /\ Counted' \in SUBSET Branches
    BY Zenon DEF Counted, Good
  <2>10. Cardinality(Counted \cup good) = Cardinality(Counted) + Cardinality(good)
    BY <2>8, <2>9, DisjointBranches, Zenon
  <2>11. Cardinality(Counted \cup good) <= Cardinality(Counted')
    BY <2>8, <2>9, MoreBranches, Zenon
  <2>12. /\ Cardinality(Counted) \in Nat /\ Cardinality(Counted') \in Nat
         /\ Cardinality(good) \in Nat /\ successes \in Nat
    BY <2>9, SomeBranches, Zenon DEF Numbers
  <2>13. Enumerated'  BY <1>p, <2>5, <2>10, <2>11, <2>12, SMT DEF Enumerated
  <2> QED  BY <2>3, <2>4, <2>13, Zenon
<1>7. ASSUME NEW w \in Workers, LaunchChild(w)
      PROVE  (Stored /\ OnTheWay /\ Answered /\ Enumerated /\ Merged)'
  <2>1. nextIndex \in Branches  BY <1>7, LaunchesBranch, Zenon DEF LaunchChild
  <2>2. /\ UNCHANGED <<truth, record, mode, where, batch, successes>>
        /\ nextIndex' = nextIndex + 1
        /\ \A b \in Branches : b # nextIndex => child'[b] = child[b] /\ outcome'[b] = outcome[b]
        /\ child'[nextIndex] \in {"running", "finished"}
        /\ outcome'[nextIndex] = "ok" => record[nextIndex] # "none"
        /\ record[nextIndex] # "fail"
    BY <1>0, <1>7, <2>1, ZenonT(60) DEF LaunchChild, Types
  <2>3. record[nextIndex] \in {"none", "ok"}  BY <2>1, <2>2, Zenon DEF Types, Ends
  <2>4. OnTheWay'  BY <1>p, <2>1, <2>2, <2>3, Zenon DEF OnTheWay, Stored
  <2>5. Stored' /\ Answered'  BY <1>p, <2>2, Zenon DEF Stored, Answered
  <2>6. Counted \subseteq Counted'
    <3>1. Good' = Good /\ InBatch' = InBatch  BY <2>2, Zenon DEF Good, InBatch, BranchesOf
    <3>2. Flying' \subseteq Flying \cup {nextIndex}  BY <2>2, Zenon DEF Flying
    <3>3. \A b \in Branches : b < nextIndex => b < nextIndex' /\ b # nextIndex
      BY <1>g, <2>2, SMT
    <3> QED  BY <3>1, <3>2, <3>3, Zenon DEF Counted, Good
  <2>7. Enumerated'  BY <1>p, <2>2, <2>6, EnumeratedKept, Zenon
  <2>8. Merged'
    <3>1. Good' = Good  BY <2>2, Zenon DEF Good
    <3>2. Satisfies(Good) => Satisfies(Good)'  BY <2>2, <3>1, Zenon DEF Satisfies
    <3> QED  BY <1>p, <2>2, <3>2, Zenon DEF Merged
  <2> QED  BY <2>4, <2>5, <2>7, <2>8, Zenon
<1>8. ASSUME NEW w \in Workers, LaunchRefused(w)
      PROVE  (Stored /\ OnTheWay /\ Answered /\ Enumerated /\ Merged)'
  <2>1. nextIndex \in Branches  BY <1>8, LaunchesBranch, Zenon DEF LaunchRefused
  <2>2. /\ UNCHANGED <<record, mode, where, successes, child, outcome>>
        /\ nextIndex' = nextIndex + 1
        /\ batch' = batch \cup {[branch |-> nextIndex, ok |-> FALSE]}
        /\ \A b \in Branches : b # nextIndex => truth'[b] = truth[b]
        /\ record[nextIndex] # "none" => truth'[nextIndex] = truth[nextIndex]
    BY <1>8, <2>1, ZenonT(60) DEF LaunchRefused, Types
  <2>3. where' = "node"  BY <1>8, Zenon DEF LaunchRefused, PlaceInv
  <2>4. Stored'  BY <1>p, <2>2, Zenon DEF Stored
  <2>5. OnTheWay'  BY <1>f, <1>p, <2>1, <2>2, Zenon DEF OnTheWay, Flying
  <2>6. Answered'
    <3>1. \A r \in batch : r.branch \in Branches /\ r.branch # nextIndex
      BY <1>f, ResultsCounted, Zenon DEF InBatch, BranchesOf
    <3>2. \A r \in batch' : r.ok => r \in batch  BY <2>2, SMT
    <3> QED  BY <1>p, <2>2, <3>1, <3>2, Zenon DEF Answered
  <2>7. Counted \subseteq Counted'
    <3>1. Flying' = Flying  BY <2>2, Zenon DEF Flying
    <3>2. InBatch' \subseteq InBatch \cup {nextIndex}  BY <2>2, SMT DEF InBatch, BranchesOf
    <3>3. \A b \in Branches : b < nextIndex => b < nextIndex' /\ b # nextIndex
      BY <1>g, <2>2, SMT
    <3> QED  BY <2>2, <3>1, <3>2, <3>3, Zenon DEF Counted, Good
  <2>8. Enumerated'  BY <1>p, <2>2, <2>7, EnumeratedKept, Zenon
  <2>9. Merged'  BY <2>3, Zenon DEF Merged
  <2> QED  BY <2>4, <2>5, <2>6, <2>8, <2>9, Zenon
<1>9. ASSUME NEW w \in Workers, LaunchTorn(w) \/ LaunchEnd(w)
      PROVE  (Stored /\ OnTheWay /\ Answered /\ Enumerated /\ Merged)'
  <2>1. /\ UNCHANGED <<truth, record, mode, where, batch, successes, child, outcome>>
        /\ nextIndex' = nextIndex \/ nextIndex' = nextIndex + 1
    BY <1>9, ZenonT(60) DEF LaunchTorn, LaunchEnd
  <2>2. Stored' /\ OnTheWay' /\ Answered'
    BY <1>p, <2>1, Zenon DEF Stored, OnTheWay, Answered
  <2>3. Good' = Good /\ InBatch' = InBatch /\ Flying' = Flying
    BY <2>1, Zenon DEF Good, InBatch, BranchesOf, Flying
  <2>4. \A b \in Branches : b < nextIndex => b < nextIndex'  BY <1>g, <2>1, SMT
  <2>5. Counted \subseteq Counted'  BY <2>3, <2>4, Zenon DEF Counted, Good
  <2>6. Enumerated'  BY <1>p, <2>1, <2>5, EnumeratedKept, Zenon
  <2>7. Satisfies(Good) => Satisfies(Good)'  BY <2>1, <2>3, Zenon DEF Satisfies
  <2>8. Merged'  BY <1>p, <2>1, <2>7, Zenon DEF Merged
  <2> QED  BY <2>2, <2>6, <2>8, Zenon
<1>10. ASSUME NEW b \in Branches, ChildRuns(b) \/ ChildSaves(b)
       PROVE  (Stored /\ OnTheWay /\ Answered /\ Enumerated /\ Merged)'
  <2>1. /\ UNCHANGED <<mode, where, cont, batch, successes, nextIndex>>
        /\ child[b] \in {"running", "ran"} /\ child'[b] \in {"ran", "finished"}
        /\ \A c \in Branches : c # b => /\ child'[c] = child[c] /\ outcome'[c] = outcome[c]
                                        /\ truth'[c] = truth[c] /\ record'[c] = record[c]
    BY <1>10, ZenonT(60) DEF ChildRuns, ChildSaves, Types
  <2>2. b \in Flying /\ b \in Flying'  BY <2>1, Zenon DEF Flying
  <2>3. where' = "node"  BY <2>1, <2>2, Zenon DEF BatchInv, PlaceInv
  <2>4. record[b] = "none"  BY <2>1, Zenon DEF RecordInv
  <2>5. /\ outcome'[b] = "ok" => truth'[b] = "ok"
        /\ record'[b] = "ok" => truth'[b] = "ok"
    BY <1>10, <1>p, <2>4, ZenonT(60) DEF ChildRuns, ChildSaves, Types, OnTheWay, Stored
  <2>6. Stored' /\ OnTheWay'  BY <1>p, <2>1, <2>5, Zenon DEF Stored, OnTheWay
  <2>7. Answered'
    <3>1. \A r \in batch : r.branch \in Branches /\ r.branch # b
      BY <1>f, <2>2, ResultsCounted, Zenon DEF InBatch, BranchesOf
    <3> QED  BY <1>p, <2>1, <3>1, Zenon DEF Answered
  <2>8. Counted \subseteq Counted'
    <3>1. InBatch' = InBatch  BY <2>1, Zenon DEF InBatch, BranchesOf
    <3>2. \A c \in Branches : c # b => (c \in Flying' <=> c \in Flying)
      BY <2>1, Zenon DEF Flying
    <3> QED  BY <2>1, <2>2, <3>1, <3>2, Zenon DEF Counted, Good
  <2>9. Enumerated'  BY <1>p, <2>1, <2>8, EnumeratedKept, Zenon
  <2>10. Merged'  BY <2>3, Zenon DEF Merged
  <2> QED  BY <2>6, <2>7, <2>9, <2>10, Zenon
<1>11. ASSUME NEW b \in Branches, ChildWakes(b)
       PROVE  (Stored /\ OnTheWay /\ Answered /\ Enumerated /\ Merged)'
  <2>1. /\ UNCHANGED <<mode, where, batch, successes, nextIndex, outcome, truth, record>>
        /\ \A c \in Branches : child'[c] = child[c]
                               \/ (child[c] = "waking" /\ child'[c] = "none")
    BY <1>11, ZenonT(30) DEF ChildWakes, Types
  <2>2. Stored' /\ OnTheWay' /\ Answered'
    BY <1>p, <2>1, Zenon DEF Stored, OnTheWay, Answered
  <2>3. Good' = Good /\ InBatch' = InBatch /\ Flying' = Flying
    BY <2>1, Zenon DEF Good, InBatch, BranchesOf, Flying
  <2>4. Counted \subseteq Counted'  BY <2>1, <2>3, Zenon DEF Counted
  <2>5. Enumerated'  BY <1>p, <2>1, <2>4, EnumeratedKept, Zenon
  <2>6. Satisfies(Good) => Satisfies(Good)'  BY <2>1, <2>3, Zenon DEF Satisfies
  <2>7. Merged'  BY <1>p, <2>1, <2>6, Zenon DEF Merged
  <2> QED  BY <2>2, <2>5, <2>7, Zenon
<1>12. ASSUME NEW b \in Branches, ChildCompletes(b)
       PROVE  (Stored /\ OnTheWay /\ Answered /\ Enumerated /\ Merged)'
  <2> DEFINE r == [branch |-> b, ok |-> outcome[b] = "ok"]
  <2>1. /\ UNCHANGED <<mode, where, successes, nextIndex, truth, record>>
        /\ batch' = batch \cup {r} /\ child[b] = "finished"
        /\ child'[b] \in {"waking", "none"}
        /\ \A c \in Branches : c # b => child'[c] = child[c] /\ outcome'[c] = outcome[c]
    BY <1>12, ZenonT(30) DEF ChildCompletes, Types
  <2>2. r.branch = b /\ (r.ok => outcome[b] = "ok")  BY Zenon
  <2> HIDE DEF r
  <2>3. Stored' /\ OnTheWay'  BY <1>p, <2>1, Zenon DEF Stored, OnTheWay
  <2>4. Answered'  BY <1>p, <2>1, <2>2, Zenon DEF OnTheWay, Answered
  <2>5. b \in Flying /\ Flying' \subseteq Flying /\ Good' = Good
    BY <2>1, Zenon DEF Flying, Good
  <2>6. InBatch' \subseteq InBatch \cup {b}  BY <2>1, <2>2, Zenon DEF InBatch, BranchesOf
  <2>7. Counted \subseteq Counted'  BY <2>1, <2>5, <2>6, Zenon DEF Counted
  <2>8. Enumerated'  BY <1>p, <2>1, <2>7, EnumeratedKept, Zenon
  <2>9. Satisfies(Good) => Satisfies(Good)'  BY <2>1, <2>5, Zenon DEF Satisfies
  <2>10. Merged'  BY <1>p, <2>1, <2>9, Zenon DEF Merged
  <2> QED  BY <2>3, <2>4, <2>8, <2>10, Zenon
<1> QED
  BY <1>2, <1>3, <1>4, <1>5, <1>6, <1>7, <1>8, <1>9, <1>10, <1>11, <1>12, Zenon
     DEF Next, Step, Calm, ChildStep

-----------------------------------------------------------------------------
(* Success.                                                                *)

\* Who changes what the Run answers, and where it stands.
LEMMA AnswerFrame ==
  ASSUME Types, NEW w \in Workers, Step(w)
  PROVE  /\ where' = where \/ Commit(w) \/ Join(w)
         /\ saved' = saved \/ Commit(w) \/ Join(w) \/ EnterStep(w)
         /\ unsaved' = unsaved \/ Join(w)
         /\ told' = told \/ (Deliver(w) /\ told' = result[w])
         /\ result'[w] = "done" => result[w] = "done" \/ where' = "done"
         /\ record' = record \/ EraseChild(w)
         /\ erasing' = erasing \/ EraseChild(w) \/ Commit(w)
         /\ kept' = kept \/ EraseChild(w) \/ Commit(w)
<1> USE DEF Step, DriveStart, EnterStep, LoopPending, LoopBatch, LaunchChild, LaunchRefused,
        LaunchTorn, LaunchEnd, Injected, QuotaExceeded, PostDriving, PostLook, PostReady
<1>1. where' = where \/ Commit(w) \/ Join(w)  BY ZenonT(60) DEF EraseChild, Deliver
<1>2. told' = told \/ (Deliver(w) /\ told' = result[w])
  BY ZenonT(60) DEF EraseChild, Deliver, Commit, Join
<1>3. result'[w] = "done" => result[w] = "done" \/ where' = "done"
  BY ZenonT(60) DEF EraseChild, Deliver, Commit, Join, Return, Types
<1>4. record' = record \/ EraseChild(w)  BY ZenonT(60) DEF Deliver, Commit, Join
<1>5. /\ erasing' = erasing \/ EraseChild(w) \/ Commit(w)
      /\ kept' = kept \/ EraseChild(w) \/ Commit(w)
  BY ZenonT(60) DEF Deliver, Join, WakeUp, WakeUpRefused, NoWakeUp
<1>6. unsaved' = unsaved \/ Join(w)  BY ZenonT(60) DEF EraseChild, Deliver, Commit
<1> HIDE DEF EnterStep
<1>7. saved' = saved \/ Commit(w) \/ Join(w) \/ EnterStep(w)
  BY ZenonT(60) DEF EraseChild, Deliver
<1> HIDE DEF Step
<1> QED  BY <1>1, <1>2, <1>3, <1>4, <1>5, <1>6, <1>7, Zenon

\* A success that was answered stays.
LEMMA ToldStep == ASSUME Types, PlaceInv, Told, [Next]_vars PROVE Told'
<1>1. CASE \/ Execute \/ Cancel \/ UNCHANGED vars
           \/ \E b \in Branches : ChildStep(b)
  <2>1. UNCHANGED <<where, result, told>>  BY <1>1, NobodyMoves, Zenon
  <2> QED  BY <2>1, Zenon DEF Told
<1>2. CASE Crash  BY <1>2, Zenon DEF Crash, Told
<1>3. ASSUME NEW w \in Workers, Step(w) PROVE Told'
  <2>1. where = "done" => where' = "done"
    <3>1. Commit(w) \/ Join(w) => where # "done"  BY Zenon DEF Commit, Join, PlaceInv
    <3> QED  BY <1>3, <3>1, AnswerFrame, Zenon
  <2>2. told' = "done" => told = "done" \/ result[w] = "done"  BY <1>3, AnswerFrame, Zenon
  <2>3. \A v \in Workers : result'[v] = "done" => result[v] = "done" \/ where' = "done"
    BY <1>3, AnswerFrame, OthersStay, Zenon
  <2> QED  BY <2>1, <2>2, <2>3, Zenon DEF Told
<1> QED  BY <1>1, <1>2, <1>3, Zenon DEF Next

\* A Run at its end is so in its record, or the save of its result failed.
LEMMA SavedStep == ASSUME Types, PlaceInv, Saved, [Next]_vars PROVE Saved'
<1>1. CASE \/ Execute \/ Cancel \/ UNCHANGED vars
           \/ \E b \in Branches : ChildStep(b)
  <2>1. UNCHANGED <<where, saved>>  BY <1>1, NobodyMoves, Zenon
  <2>2. unsaved' = unsaved
    BY <1>1, ZenonT(60) DEF vars, Execute, Cancel, ChildStep, ChildRuns, ChildSaves,
       ChildCompletes, ChildWakes
  <2> QED  BY <2>1, <2>2, Zenon DEF Saved
<1>2. CASE Crash
  <2>1. saved' = saved /\ (where' = "node" \/ where' = saved)  BY <1>2, Zenon DEF Crash
  <2> QED  BY <2>1, Zenon DEF Saved
<1>3. ASSUME NEW w \in Workers, Step(w) PROVE Saved'
  <2>1. CASE Commit(w)
    <3>1. where' # "done"  BY <2>1, Zenon DEF Commit
    <3> QED  BY <3>1, Zenon DEF Saved
  <2>2. CASE Join(w)
    <3>1. where = "joined"  BY <2>2, Zenon DEF Join, PlaceInv
    <3>2. saved' = "done" \/ unsaved' = TRUE \/ where' = where  BY <2>2, Zenon DEF Join
    <3> QED  BY <3>1, <3>2, Zenon DEF Saved
  <2>3. CASE EnterStep(w)
    <3>1. /\ where' = where /\ unsaved' = unsaved
          /\ saved' = saved \/ where = "node"
      BY <2>3, Zenon DEF EnterStep
    <3> QED  BY <3>1, Zenon DEF Saved
  <2>4. CASE ~Commit(w) /\ ~Join(w) /\ ~EnterStep(w)
    <3>1. UNCHANGED <<where, saved, unsaved>>  BY <1>3, <2>4, AnswerFrame, Zenon
    <3> QED  BY <3>1, Zenon DEF Saved
  <2> QED  BY <2>1, <2>2, <2>3, <2>4, Zenon
<1> QED  BY <1>1, <1>2, <1>3, Zenon DEF Next

\* Behind the merge no child adds a record, and each record leaves the set to
\* be erased when it is erased or given up.
LEMMA CleaningStep ==
  ASSUME Types, PlaceInv, BatchInv, Cleaning, [Next]_vars PROVE Cleaning'
<1>c. /\ where \in {"joined", "done"} => Recorded \subseteq erasing \cup kept
      /\ erasing # {} => \E w \in Workers : pc[w] = "erase"
  BY Zenon DEF Cleaning
<1>1. CASE Execute \/ Cancel \/ UNCHANGED vars
  <2>1. UNCHANGED <<where, pc, record, erasing>>  BY <1>1, OutsideKeeps, Zenon
  <2>2. kept' = kept  BY <1>1, ZenonT(30) DEF Execute, Cancel, vars
  <2>3. Recorded' = Recorded  BY <2>1, Zenon DEF Recorded
  <2> QED  BY <1>c, <2>1, <2>2, <2>3, Zenon DEF Cleaning
<1>2. CASE Crash
  <2>1. /\ record' = record /\ erasing' = {}
        /\ where' = "node" \/ (where' = saved /\ kept' = kept \cup erasing)
    BY <1>2, Zenon DEF Crash
  <2>2. where' \in {"joined", "done"} => where \in {"joined", "done"}
    BY <2>1, ZenonT(30) DEF PlaceInv, Types
  <2>3. Recorded' = Recorded  BY <2>1, Zenon DEF Recorded
  <2>4. where' \in {"joined", "done"} => Recorded' \subseteq erasing' \cup kept'
    BY <1>c, <2>1, <2>2, <2>3, Zenon
  <2> QED  BY <2>1, <2>4, Zenon DEF Cleaning
<1>3. ASSUME NEW b \in Branches, ChildStep(b) PROVE Cleaning'
  <2>1. UNCHANGED <<where, pc, erasing, kept, cont>>
    BY <1>3, ZenonT(60) DEF ChildStep, ChildRuns, ChildSaves, ChildCompletes, ChildWakes
  <2>2. CASE record' = record
    <3>1. Recorded' = Recorded  BY <2>2, Zenon DEF Recorded
    <3> QED  BY <1>c, <2>1, <3>1, Zenon DEF Cleaning
  <2>3. CASE record' # record
    <3>1. child[b] = "ran"
      BY <1>3, <2>3, ZenonT(60) DEF ChildStep, ChildRuns, ChildSaves, ChildCompletes, ChildWakes
    <3>2. b \in Flying  BY <3>1, Zenon DEF Flying
    <3>3. where = "node"  BY <3>2, Zenon DEF BatchInv, PlaceInv
    <3> QED  BY <1>c, <2>1, <3>3, Zenon DEF Cleaning
  <2> QED  BY <2>2, <2>3, Zenon
<1>4. ASSUME NEW w \in Workers, Commit(w) PROVE Cleaning'
  <2>1. pc[w] = "commit" /\ where = "node"  BY <1>4, Zenon DEF Commit, PlaceInv
  <2>2. erasing = {}  BY <1>c, <2>1, Zenon DEF PlaceInv
  <2>3. Recorded' = Records  BY <1>4, Zenon DEF Commit, Recorded, Records
  <2>4. /\ where' # "done"
        /\ \/ where' # "joined" /\ erasing' = erasing
           \/ pc'[w] = "erase" /\ erasing' = Records
           \/ erasing' = erasing /\ kept' = Records
    BY <1>4, ZenonT(60) DEF Commit, Goto, Return, Types
  <2>5. where' \in {"joined", "done"} => Recorded' \subseteq erasing' \cup kept'
    BY <2>3, <2>4, Zenon
  <2>6. erasing' # {} => pc'[w] = "erase"  BY <2>2, <2>4, Zenon
  <2> QED  BY <2>5, <2>6, Zenon DEF Cleaning
<1>5. ASSUME NEW w \in Workers, EraseChild(w) PROVE Cleaning'
  <2>1. pc[w] = "erase" /\ where = "joined" /\ where' = where
    BY <1>5, Zenon DEF EraseChild, PlaceInv
  <2>2. Recorded \subseteq erasing \cup kept  BY <1>c, <2>1, Zenon
  <2>3. CASE erasing = {} /\ UNCHANGED <<record, erasing, kept>>
    <3>1. Recorded' = Recorded  BY <2>3, Zenon DEF Recorded
    <3> QED  BY <2>2, <2>3, <3>1, Zenon DEF Cleaning
  <2>4. ASSUME NEW b \in erasing, erasing' = erasing \ {b}, pc' = pc, kept' = kept,
               record' = [record EXCEPT ![b] = "none"]
        PROVE  Cleaning'
    <3>1. Recorded' \subseteq Recorded \ {b}  BY <2>4, Zenon DEF Recorded, Types
    <3>2. Recorded' \subseteq erasing' \cup kept'  BY <2>2, <2>4, <3>1, Zenon
    <3> QED  BY <2>1, <2>4, <3>2, Zenon DEF Cleaning
  <2>5. CASE erasing' = {} /\ kept' = kept \cup erasing /\ record' = record
    <3>1. Recorded' = Recorded  BY <2>5, Zenon DEF Recorded
    <3>2. Recorded' \subseteq erasing' \cup kept'  BY <2>2, <2>5, <3>1, Zenon
    <3> QED  BY <2>5, <3>2, Zenon DEF Cleaning
  <2> QED  BY <1>5, <2>3, <2>4, <2>5, ZenonT(30) DEF EraseChild
<1>6. ASSUME NEW w \in Workers, Step(w), ~Commit(w), ~EraseChild(w) PROVE Cleaning'
  <2>1. UNCHANGED <<record, erasing, kept>>  BY <1>6, AnswerFrame, Zenon
  <2>2. Recorded' = Recorded  BY <2>1, Zenon DEF Recorded
  <2>3. where' = where \/ Join(w)  BY <1>6, AnswerFrame, Zenon
  <2>4. Join(w) => where = "joined"  BY Zenon DEF Join, PlaceInv
  <2>5. \A v \in Workers : v # w => pc'[v] = pc[v]  BY <1>6, OthersStay, Zenon
  <2>6. pc[w] # "erase"
    BY <1>6, ZenonT(60) DEF Step, DriveStart, EnterStep, LoopPending, LoopBatch, LaunchChild,
       LaunchRefused, LaunchTorn, LaunchEnd, Injected, QuotaExceeded, Join, PostDriving,
       PostLook, PostReady, Deliver
  <2>7. where' \in {"joined", "done"} => Recorded' \subseteq erasing' \cup kept'
    BY <1>c, <2>1, <2>2, <2>3, <2>4, Zenon
  <2>8. erasing' # {} => \E v \in Workers : pc'[v] = "erase"
    BY <1>c, <2>1, <2>5, <2>6, Zenon
  <2> QED  BY <2>7, <2>8, Zenon DEF Cleaning
<1> QED  BY <1>1, <1>2, <1>3, <1>4, <1>5, <1>6, Zenon DEF Next

-----------------------------------------------------------------------------
(* The theorems.                                                           *)

Inv ==
    Types /\ Numbers /\ PlaceInv /\ ReadyInv /\ BatchInv /\ RecordInv /\ MergeInv /\ SuccessInv

\* It holds of a Run that was just created.
LEMMA InvInit == Init => Inv
<1> SUFFICES ASSUME Init PROVE Inv  BY Zenon
<1>1. Types
  <2>1. mode \in {"all", "any", "min_success"} /\ fail \in {"wait", "fast"}
    BY ParallelAssumption, SMT DEF Init
  <2> QED
    BY <2>1, ZenonT(60) DEF Init, Types, EmptyFields, States, Ends, Truths, Points
<1>2. Numbers
  <2>1. N \in Nat \ {0}  BY ParallelAssumption, Zenon
  <2>2. /\ nextIndex = 1 /\ end = 0 /\ inFlight = 0 /\ successes = 0 /\ failures = 0
        /\ faults = 0
    BY Zenon DEF Init, EmptyFields
  <2> QED  BY <2>1, <2>2, SMT DEF Numbers
<1>3. PlaceInv /\ ReadyInv /\ RecordInv
  BY ZenonT(60) DEF Init, EmptyFields, PlaceInv, ReadyInv, RecordInv, InStep
<1>4. BatchInv
  <2>1. Flying = {} /\ batch = {} /\ inFlight = 0 /\ ~cont /\ EmptyFields
    BY Zenon DEF Init, EmptyFields, Flying
  <2>2. inFlight = Cardinality(Flying)  BY <2>1, FS_EmptySet, Zenon
  <2>3. Distinct(batch) /\ InBatch = {}  BY <2>1, Zenon DEF Distinct, InBatch, BranchesOf
  <2> QED  BY <2>1, <2>2, <2>3, Zenon DEF BatchInv, EachBranchCountedOnce
<1>5. MergeInv
  <2>1. successes = 0 /\ batch = {} /\ where = "node"  BY Zenon DEF Init, EmptyFields
  <2>2. Enumerated  BY <2>1, CountedBranches, SMT DEF Enumerated
  <2>3. Stored /\ OnTheWay /\ Answered /\ Merged
    BY <2>1, Zenon DEF Init, Stored, OnTheWay, Answered, Merged
  <2> QED  BY <2>2, <2>3, MergeParts, Zenon
<1>6. SuccessInv
  BY ZenonT(30) DEF Init, SuccessInv, Told, Saved, Cleaning
<1> QED  BY <1>1, <1>2, <1>3, <1>4, <1>5, <1>6, Zenon DEF Inv

\* Every step of a worker, of a child, of the host and a crash keeps it.
LEMMA InvStep == Inv /\ [Next]_vars => Inv'
<1> SUFFICES ASSUME Inv, [Next]_vars PROVE Inv'  BY Zenon
<1>0. /\ Types /\ Numbers /\ PlaceInv /\ ReadyInv /\ BatchInv /\ RecordInv /\ MergeInv
      /\ SuccessInv /\ Distinct(batch)
  BY Zenon DEF Inv, BatchInv
<1>1. Types'  BY <1>0, TypesStep, Zenon
<1>2. Numbers'  BY <1>0, NumbersStep, Zenon
<1>3. PlaceInv'  BY <1>0, PlaceStep, Zenon
<1>4. ReadyInv'  BY <1>0, ReadyStep, Zenon
<1>5. BatchInv'  BY <1>0, BatchStep, Zenon
<1>6. RecordInv'  BY <1>0, RecordStep, Zenon
<1>7. MergeInv'  BY <1>0, MergeStep, Zenon
<1>8. SuccessInv'  BY <1>0, ToldStep, SavedStep, CleaningStep, Zenon DEF SuccessInv
<1> QED  BY <1>1, <1>2, <1>3, <1>4, <1>5, <1>6, <1>7, <1>8, Zenon DEF Inv

\* The invariant of the node holds in every behaviour.
LEMMA Invariance == Spec => []Inv
<1>1. Init => Inv  BY InvInit, Zenon
<1>2. Inv /\ [Next]_vars => Inv'  BY InvStep, Zenon
<1> QED  BY <1>1, <1>2, PTL DEF Spec

\* Every branch the node has launched is counted exactly once, as a success, as
\* a failure, in the results of its batch or in flight, whatever the order in
\* which children, drives, cancels and crashes come.
THEOREM BranchesCountedOnce == Spec => []EachBranchCountedOnce
<1>1. Inv => EachBranchCountedOnce  BY Zenon DEF Inv, BatchInv
<1> QED  BY <1>1, Invariance, PTL

\* No merged state is saved unless the branches that really succeeded satisfy
\* the policy of the node, as long as no failed child record was taken up as a
\* success after a crash.
THEOREM MergedByPolicy == Spec => []MergeFollowsPolicyUnlessMisread
<1>1. ASSUME Inv PROVE MergeFollowsPolicyUnlessMisread
  <2>1. Types /\ PlaceInv /\ MergeInv  BY <1>1, Zenon DEF Inv
  <2>2. saved \in {"joined", "done"} => where \in {"joined", "done"}
    BY <2>1, ZenonT(30) DEF Types, PlaceInv
  <2>3. ~misread => Merged  BY <2>1, MergeParts, Zenon
  <2>4. ~misread => (saved \in {"joined", "done"} => Satisfies(Good))
    BY <2>2, <2>3, Zenon DEF Merged
  <2> QED  BY <2>4, Zenon DEF MergeFollowsPolicyUnlessMisread, MergeFollowsPolicy, Good
<1> QED  BY <1>1, Invariance, PTL

\* A Run that answered with success is saved as complete and has left no child
\* record behind, whatever failed meanwhile: the exceptions are a result whose
\* save failed, and the records whose erasing was given up.
THEOREM SuccessMerged == Spec => []SuccessIsMerged
<1>1. ASSUME Inv, told = "done" PROVE (saved = "done" \/ unsaved) /\ Records \subseteq kept
  <2>1. PlaceInv /\ Told /\ Saved /\ Cleaning  BY <1>1, Zenon DEF Inv, SuccessInv
  <2>2. where = "done"  BY <1>1, <2>1, Zenon DEF Told
  <2>3. erasing = {}  BY <2>1, <2>2, Zenon DEF Cleaning, PlaceInv
  <2>4. Recorded \subseteq kept  BY <2>1, <2>2, <2>3, Zenon DEF Cleaning
  <2> QED  BY <2>1, <2>2, <2>4, Zenon DEF Saved, Records, Recorded
<1>2. Inv => SuccessIsMerged  BY <1>1, Zenon DEF SuccessIsMerged
<1> QED  BY <1>2, Invariance, PTL

\* A branch whose outcome is in its record is not executed again, after any
\* crash of the parent.
THEOREM NoBranchRerun == Spec => RecordedNotRerun
<1>1. ASSUME Inv, [Next]_vars
      PROVE  [\A b \in Branches :
                record[b] # "none" => ~(child[b] = "running" /\ child'[b] = "ran")]_vars
  BY <1>1, Zenon DEF Inv, RecordInv
<1> QED  BY <1>1, Invariance, PTL DEF Spec, RecordedNotRerun
=============================================================================
