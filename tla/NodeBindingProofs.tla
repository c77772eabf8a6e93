-------------------------- MODULE NodeBindingProofs --------------------------
(***************************************************************************)
(* No handle of the C interface is used after it was freed, for any number *)
(* of Runs and of libuv threads.  The handles outlive their users because  *)
(* of three orders in the binding: a Run's worker clears the control before*)
(* it frees the Run, close waits for every Promise, and a completion is    *)
(* taken before it is freed.                                               *)
(***************************************************************************)
EXTENDS NodeBinding, TLAPS

Steps == {"none", "queued", "create", "set", "execute", "wait", "clear", "destroy",
          "resolve", "reject"}
Owning == {"set", "execute", "wait", "clear", "destroy"}
Cancellable == {"execute", "wait", "clear"}

Types ==
    /\ worker \in [Runs -> Steps]
    /\ control \in [Runs -> [run : BOOLEAN, requested : BOOLEAN]]
    /\ DOMAIN handle = Runs /\ DOMAIN promise = Runs
    /\ completion \in [Runs -> [wrapper : BOOLEAN, handle : {"none", "live", "freed"}]]

\* A worker that owns the Run's handle has it live, and the control knows the
\* Run only between set and clear, which a cancel in progress holds back.
HandleInv ==
    /\ \A r \in Runs : worker[r] \in Owning => handle[r] = "live"
    /\ \A r \in Runs : control[r].run => worker[r] \in Cancellable
    /\ \A r \in Runs : main = r => control[r].run

\* Work belongs to a pending Promise, and that keeps the engine open.
EngineInv ==
    /\ \A r \in Runs : worker[r] # "none" => promise[r] = "pending"
    /\ \A r \in Runs : promise[r] = "pending" => engine = "open"

\* A completion that was not taken is live.
CompletionInv == \A r \in Runs : completion[r].wrapper => completion[r].handle = "live"

Inv == Types /\ HandleInv /\ EngineInv /\ CompletionInv /\ HandlesLive
-----------------------------------------------------------------------------
\* Init has no handle and no work.
LEMMA InvInit == Init => Inv
BY BindingAssumption, SMTT(30) DEF Init, Inv, Types, HandleInv, EngineInv, CompletionInv,
    HandlesLive, Steps, Owning,
    Cancellable

\* The steps of one Run, and close.
LEMMA Cases ==
    ASSUME Next
    PROVE  \/ Close
           \/ \E r \in Runs :
                \/ AbortEnd(r) \/ Dispatch(r) \/ Finish(r)
                \/ Load(r) \/ Create(r) \/ Set(r) \/ Execute(r) \/ Return(r) \/ Clear(r)
                \/ Destroy(r) \/ Drive(r) \/ CancelEnds(r)
                \/ StartRun(r) \/ AbortBegin(r) \/ Settle(r) \/ Probe(r)
BY Zenon DEF Next, Progress

\* An answer or a start of the Executor leaves the completion, frees it and
\* empties the pointer, or makes a new one.
Taken(r) == [completion EXCEPT ![r] = [wrapper |-> FALSE, handle |-> "freed"]]
Made(r) == [completion EXCEPT ![r] = [wrapper |-> TRUE, handle |-> "live"]]

\* These are the only steps that touch a completion, and they touch nothing else.
LEMMA CompletionMoves ==
    ASSUME NEW r \in Runs, Dispatch(r) \/ Settle(r) \/ Drive(r)
    PROVE  /\ completion' = completion \/ completion' = Taken(r) \/ completion' = Made(r)
           /\ UNCHANGED <<engine, main, worker, control, handle, promise>>
<1>1. CASE Dispatch(r)
  BY <1>1, ZenonT(60) DEF Dispatch, Complete, Taken
<1>2. CASE Settle(r)
  BY <1>2, ZenonT(60) DEF Settle, Complete, Taken
<1>3. CASE Drive(r)
  BY <1>3, ZenonT(60) DEF Drive, StartExecutor, Queued, Taken, Made
<1> QED  BY <1>1, <1>2, <1>3, Zenon

\* So a completion that can still be taken is live.
LEMMA CompletionKept ==
    ASSUME Inv, NEW r \in Runs, Dispatch(r) \/ Settle(r) \/ Drive(r)
    PROVE  Types' /\ CompletionInv'
<1>1. CASE completion' = completion
  BY <1>1, CompletionMoves, Zenon DEF Inv, Types, CompletionInv
<1>2. CASE completion' = Taken(r)
  BY <1>2, CompletionMoves, SMTT(30) DEF Inv, Types, CompletionInv, Taken
<1>3. CASE completion' = Made(r)
  BY <1>3, CompletionMoves, SMTT(30) DEF Inv, Types, CompletionInv, Made
<1> QED  BY <1>1, <1>2, <1>3, CompletionMoves, Zenon

\* Every step keeps the shape of the state.
LEMMA TypesStep ==
    ASSUME Inv, [Next]_vars
    PROVE  Types'
<1> USE DEF Inv
<1>1. CASE UNCHANGED vars
  BY <1>1, Zenon DEF vars, Types, Steps
<1>2. CASE Close
  BY <1>2, Zenon DEF Close, Active, Types, Steps
<1>3. ASSUME NEW r \in Runs, AbortEnd(r) PROVE Types'
  BY <1>3, ZenonT(60) DEF AbortEnd, Uses, Types, Steps
<1>4. ASSUME NEW r \in Runs, Dispatch(r) PROVE Types'
  BY <1>4, CompletionKept, Zenon
<1>5. ASSUME NEW r \in Runs, Finish(r) PROVE Types'
  BY <1>5, ZenonT(60) DEF Finish, Goto, Types, Steps
<1>6. ASSUME NEW r \in Runs, Load(r) PROVE Types'
  BY <1>6, ZenonT(60) DEF Load, Goto, Uses, Types, Steps
<1>7. ASSUME NEW r \in Runs, Create(r) PROVE Types'
  BY <1>7, ZenonT(60) DEF Create, Goto, Uses, Types, Steps
<1>8. ASSUME NEW r \in Runs, Set(r) PROVE Types'
  BY <1>8, ZenonT(60) DEF Set, Goto, Uses, Types, Steps
<1>9. ASSUME NEW r \in Runs, Execute(r) PROVE Types'
  BY <1>9, ZenonT(60) DEF Execute, Goto, Uses, Types, Steps
<1>10. ASSUME NEW r \in Runs, Return(r) PROVE Types'
  BY <1>10, ZenonT(60) DEF Return, Goto, Types, Steps
<1>11. ASSUME NEW r \in Runs, Clear(r) PROVE Types'
  BY <1>11, ZenonT(60) DEF Clear, Goto, ClearWaits, Types, Steps
<1>12. ASSUME NEW r \in Runs, Destroy(r) PROVE Types'
  BY <1>12, ZenonT(60) DEF Destroy, Goto, Types, Steps
<1>13. ASSUME NEW r \in Runs, Drive(r) PROVE Types'
  BY <1>13, CompletionKept, Zenon
<1>14. ASSUME NEW r \in Runs, CancelEnds(r) PROVE Types'
  BY <1>14, ZenonT(60) DEF CancelEnds, Ended, Types, Steps
<1>15. ASSUME NEW r \in Runs, StartRun(r) PROVE Types'
  BY <1>15, ZenonT(60) DEF StartRun, Goto, Types, Steps
<1>16. ASSUME NEW r \in Runs, AbortBegin(r) PROVE Types'
  BY <1>16, ZenonT(60) DEF AbortBegin, Types, Steps
<1>17. ASSUME NEW r \in Runs, Settle(r) PROVE Types'
  BY <1>17, CompletionKept, Zenon
<1>18. ASSUME NEW r \in Runs, Probe(r) PROVE Types'
  BY <1>18, ZenonT(60) DEF Probe, Uses, Types, Steps
<1> QED  BY <1>1, <1>2, <1>3, <1>4, <1>5, <1>6, <1>7, <1>8, <1>9, <1>10, <1>11, <1>12,
             <1>13, <1>14, <1>15, <1>16, <1>17, <1>18, Cases, Zenon

\* A Run is freed after the control forgot it, which waits for a cancel in progress.
LEMMA HandleStep ==
    ASSUME Inv, [Next]_vars
    PROVE  HandleInv'
<1> USE DEF Inv
<1>1. CASE UNCHANGED vars
  BY <1>1, Zenon DEF vars, HandleInv, Types, Owning, Cancellable
<1>2. CASE Close
  BY <1>2, Zenon DEF Close, Active, HandleInv, Types, Owning, Cancellable
<1>3. ASSUME NEW r \in Runs, AbortEnd(r) PROVE HandleInv'
  BY <1>3, BindingAssumption, SMTT(30) DEF AbortEnd, Uses, HandleInv, Types, Owning,
      Cancellable
<1>4. ASSUME NEW r \in Runs, Finish(r) PROVE HandleInv'
  BY <1>4, SMTT(30) DEF Finish, Goto, HandleInv, Types, Owning, Cancellable
<1>5. ASSUME NEW r \in Runs, Load(r) PROVE HandleInv'
  BY <1>5, SMTT(30) DEF Load, Goto, Uses, HandleInv, Types, Owning, Cancellable
<1>6. ASSUME NEW r \in Runs, Create(r) PROVE HandleInv'
  BY <1>6, SMTT(30) DEF Create, Goto, Uses, HandleInv, Types, Owning, Cancellable
<1>7. ASSUME NEW r \in Runs, Set(r) PROVE HandleInv'
  BY <1>7, SMTT(30) DEF Set, Goto, Uses, HandleInv, Types, Owning, Cancellable
<1>8. ASSUME NEW r \in Runs, Execute(r) PROVE HandleInv'
  BY <1>8, BindingAssumption, SMTT(30) DEF Execute, Goto, Uses, HandleInv, Types, Owning,
      Cancellable
<1>9. ASSUME NEW r \in Runs, Return(r) PROVE HandleInv'
  BY <1>9, BindingAssumption, SMTT(30) DEF Return, Goto, HandleInv, Types, Owning,
      Cancellable
<1>10. ASSUME NEW r \in Runs, Clear(r) PROVE HandleInv'
  BY <1>10, ZenonT(60) DEF Clear, Goto, ClearWaits, HandleInv, Types, Owning, Cancellable
<1>11. ASSUME NEW r \in Runs, Destroy(r) PROVE HandleInv'
  BY <1>11, ZenonT(60) DEF Destroy, Goto, HandleInv, Types, Owning, Cancellable
<1>12. ASSUME NEW r \in Runs, StartRun(r) PROVE HandleInv'
  BY <1>12, BindingAssumption, SMTT(30) DEF StartRun, Goto, HandleInv, EngineInv, Types,
      Steps, Owning, Cancellable
<1>13. ASSUME NEW r \in Runs, AbortBegin(r) PROVE HandleInv'
  BY <1>13, ZenonT(60) DEF AbortBegin, HandleInv, Types, Owning, Cancellable
<1>14. ASSUME NEW r \in Runs,
              Dispatch(r) \/ Drive(r) \/ CancelEnds(r) \/ Settle(r) \/ Probe(r)
      PROVE  HandleInv'
  BY <1>14, ZenonT(60) DEF Dispatch, Drive, CancelEnds, Settle, Probe, HandleInv, Types,
      Owning,
      Cancellable
<1> QED  BY <1>1, <1>2, <1>3, <1>4, <1>5, <1>6, <1>7, <1>8, <1>9, <1>10, <1>11, <1>12,
             <1>13, <1>14, Cases, Zenon

\* Only a settled Promise lets the engine be closed.
LEMMA EngineStep ==
    ASSUME Inv, [Next]_vars
    PROVE  EngineInv'
<1> USE DEF Inv
<1>1. CASE UNCHANGED vars
  BY <1>1, Zenon DEF vars, EngineInv, Types
<1>2. CASE Close
  BY <1>2, Zenon DEF Close, Active, EngineInv, Types
<1>3. ASSUME NEW r \in Runs, Finish(r) PROVE EngineInv'
  BY <1>3, ZenonT(60) DEF Finish, Goto, EngineInv, Types
<1>4. ASSUME NEW r \in Runs, StartRun(r) PROVE EngineInv'
  BY <1>4, ZenonT(60) DEF StartRun, Goto, EngineInv, Types
<1>5. ASSUME NEW r \in Runs, Load(r) PROVE EngineInv'
  BY <1>5, ZenonT(60) DEF Load, Goto, Uses, EngineInv, Types
<1>6. ASSUME NEW r \in Runs, Create(r) PROVE EngineInv'
  BY <1>6, ZenonT(60) DEF Create, Goto, Uses, EngineInv, Types
<1>7. ASSUME NEW r \in Runs, Set(r) PROVE EngineInv'
  BY <1>7, ZenonT(60) DEF Set, Goto, Uses, EngineInv, Types
<1>8. ASSUME NEW r \in Runs, Execute(r) PROVE EngineInv'
  BY <1>8, ZenonT(60) DEF Execute, Goto, Uses, EngineInv, Types
<1>9. ASSUME NEW r \in Runs, Return(r) PROVE EngineInv'
  BY <1>9, ZenonT(60) DEF Return, Goto, EngineInv, Types
<1>10. ASSUME NEW r \in Runs, Clear(r) PROVE EngineInv'
  BY <1>10, ZenonT(60) DEF Clear, Goto, ClearWaits, EngineInv, Types
<1>11. ASSUME NEW r \in Runs, Destroy(r) PROVE EngineInv'
  BY <1>11, ZenonT(60) DEF Destroy, Goto, EngineInv, Types
<1>12. ASSUME NEW r \in Runs,
              AbortEnd(r) \/ Dispatch(r) \/ Drive(r) \/ CancelEnds(r) \/ AbortBegin(r) \/
              Settle(r) \/ Probe(r)
      PROVE  EngineInv'
  BY <1>12, ZenonT(60) DEF AbortEnd, Dispatch, Drive, CancelEnds, AbortBegin, Settle,
      Probe, EngineInv,
      Types
<1> QED  BY <1>1, <1>2, <1>3, <1>4, <1>5, <1>6, <1>7, <1>8, <1>9, <1>10, <1>11, <1>12,
             Cases, Zenon

\* A completion is emptied when it is freed.
LEMMA CompletionStep ==
    ASSUME Inv, [Next]_vars
    PROVE  CompletionInv'
<1> USE DEF Inv
<1>1. CASE UNCHANGED vars
  BY <1>1, Zenon DEF vars, CompletionInv, Types
<1>2. CASE Close
  BY <1>2, Zenon DEF Close, Active, CompletionInv, Types
<1>3. ASSUME NEW r \in Runs, Dispatch(r) PROVE CompletionInv'
  BY <1>3, CompletionKept, Zenon
<1>4. ASSUME NEW r \in Runs, Settle(r) PROVE CompletionInv'
  BY <1>4, CompletionKept, Zenon
<1>5. ASSUME NEW r \in Runs, Drive(r) PROVE CompletionInv'
  BY <1>5, CompletionKept, Zenon
<1>6. ASSUME NEW r \in Runs,
              AbortEnd(r) \/ Finish(r) \/ Load(r) \/ Create(r) \/ Set(r) \/ Execute(r) \/
              Return(r) \/ Clear(r) \/ Destroy(r) \/ CancelEnds(r) \/ StartRun(r) \/
              AbortBegin(r) \/ Probe(r)
      PROVE  CompletionInv'
  BY <1>6, ZenonT(60) DEF AbortEnd, Finish, Load, Create, Set, Execute, Return, Clear,
      Destroy,
      CancelEnds, StartRun, AbortBegin, Probe, CompletionInv, Types
<1> QED  BY <1>1, <1>2, <1>3, <1>4, <1>5, <1>6, Cases, Zenon

\* Every step finds the handle it uses live.
LEMMA LiveStep ==
    ASSUME Inv, [Next]_vars
    PROVE  HandlesLive'
<1> USE DEF Inv
<1>1. CASE UNCHANGED vars
  BY <1>1, Zenon DEF vars, HandlesLive
<1>2. CASE Close
  BY <1>2, Zenon DEF Close, HandlesLive
<1>3. ASSUME NEW r \in Runs, AbortEnd(r) PROVE HandlesLive'
  BY <1>3, ZenonT(60) DEF AbortEnd, Uses, HandlesLive, HandleInv, Owning, Cancellable
<1>4. ASSUME NEW r \in Runs, Dispatch(r) PROVE HandlesLive'
  BY <1>4, ZenonT(60) DEF Dispatch, Complete, ExecutorComplete, Uses, Ended, HandlesLive,
      CompletionInv
<1>5. ASSUME NEW r \in Runs, Load(r) PROVE HandlesLive'
  BY <1>5, ZenonT(60) DEF Load, Goto, Uses, HandlesLive, EngineInv
<1>6. ASSUME NEW r \in Runs, Create(r) PROVE HandlesLive'
  BY <1>6, ZenonT(60) DEF Create, Goto, Uses, HandlesLive, EngineInv
<1>7. ASSUME NEW r \in Runs, Set(r) PROVE HandlesLive'
  BY <1>7, ZenonT(60) DEF Set, Goto, Uses, HandlesLive, HandleInv, Owning
<1>8. ASSUME NEW r \in Runs, Execute(r) PROVE HandlesLive'
  BY <1>8, ZenonT(60) DEF Execute, Goto, Uses, HandlesLive, HandleInv, EngineInv, Owning
<1>9. ASSUME NEW r \in Runs, Settle(r) PROVE HandlesLive'
  BY <1>9, ZenonT(60) DEF Settle, Complete, ExecutorComplete, Uses, Ended, HandlesLive,
      CompletionInv
<1>10. ASSUME NEW r \in Runs, Probe(r) PROVE HandlesLive'
  BY <1>10, ZenonT(60) DEF Probe, Uses, HandlesLive, CompletionInv
<1>11. ASSUME NEW r \in Runs,
              Finish(r) \/ Return(r) \/ Clear(r) \/ Destroy(r) \/ Drive(r) \/
              CancelEnds(r) \/ StartRun(r) \/ AbortBegin(r)
      PROVE  HandlesLive'
  BY <1>11, ZenonT(60) DEF Finish, Return, Clear, Destroy, Drive, CancelEnds, StartRun,
      AbortBegin, HandlesLive
<1> QED  BY <1>1, <1>2, <1>3, <1>4, <1>5, <1>6, <1>7, <1>8, <1>9, <1>10, <1>11, Cases, Zenon

\* The invariant of the binding holds in every behaviour.
THEOREM Invariance == Spec => []Inv
<1>1. Inv /\ [Next]_vars => Inv'
  BY TypesStep, HandleStep, EngineStep, CompletionStep, LiveStep, Zenon DEF Inv
<1> QED  BY InvInit, <1>1, PTL DEF Spec

\* No call into the C interface uses an engine, a Run or a completion that was
\* freed: an abort holds back the clear that precedes the free, close waits for
\* every Promise, and a completion is taken before it is freed.
THEOREM HandlesStayLive == Spec => []HandlesLive
<1>1. Inv => HandlesLive
  BY Zenon DEF Inv
<1> QED  BY Invariance, <1>1, PTL
=============================================================================
