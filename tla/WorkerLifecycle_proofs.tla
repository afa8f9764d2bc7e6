----------------------- MODULE WorkerLifecycle_proofs -----------------------
(***************************************************************************)
(* Theorems about WorkerLifecycle, for pages of any length.                *)
(***************************************************************************)
EXTENDS WorkerLifecycle, TLAPS

LEMMA StartedAreLoops == Started \subseteq Loop
  BY DEF Started

LEMMA AwaitedAreLoops == Awaited \subseteq Loop
  BY DEF Awaited, Loop

LEMMA InitIsFine == Init => IInv
<1>1. 0 \in 0 .. PageSize
  BY PageSizeIsPositive
<1>2. QED
  BY <1>1 DEF Init, IInv, TypeOK, NothingYet, Undisturbed, ResultsAreOfEndedPasses,
              LoopsSurvive, OnePassPerLoop

\* The invariant, action by action.
LEMMA LifespanStep ==
  ASSUME IInv, Lifespan
  PROVE  IInv'
<1> USE DEF IInv, TypeOK, NothingYet, Undisturbed, ResultsAreOfEndedPasses,
            LoopsSurvive, OnePassPerLoop, pass, settings, Started
<1>1. CASE Start
  BY <1>1, StartedAreLoops DEF Start, Pending
<1>2. CASE Stop
  BY <1>2, AwaitedAreLoops DEF Stop, CancelNext
<1>3. CASE StopNext
  BY <1>3, AwaitedAreLoops DEF StopNext, CancelNext
<1>4. CASE Dispose
  BY <1>4 DEF Dispose
<1>5. QED
  BY <1>1, <1>2, <1>3, <1>4 DEF Lifespan

LEMMA EventLoopStep ==
  ASSUME IInv, NEW k \in Loop, EventLoop(k)
  PROVE  IInv'
<1> USE DEF IInv, TypeOK, NothingYet, Undisturbed, ResultsAreOfEndedPasses,
            LoopsSurvive, OnePassPerLoop, pass, settings, Started, Resumes, Pending
<1>1. CASE BeginPass(k)
  <2>1. PICK n \in 0 .. PageSize : left' = [left EXCEPT ![k] = n]
    BY <1>1 DEF BeginPass
  <2>2. QED
    BY <1>1, <2>1, StartedAreLoops DEF BeginPass, LoopsOn
<1>2. CASE LeaveLoop(k)
  BY <1>2, StartedAreLoops DEF LeaveLoop, LoopsOn
<1>3. CASE PassReturns(k)
  BY <1>3, StartedAreLoops DEF PassReturns, AfterPass
<1>4. CASE Wake(k)
  BY <1>4, StartedAreLoops DEF Wake
<1>5. CASE Interrupted(k)
  BY <1>5, StartedAreLoops DEF Interrupted, AfterCancel
<1>6. QED
  BY <1>1, <1>2, <1>3, <1>4, <1>5 DEF EventLoop

LEMMA ThreadStep ==
  ASSUME IInv, NEW k \in Loop, Thread(k)
  PROVE  IInv'
<1> USE DEF IInv, TypeOK, NothingYet, Undisturbed, ResultsAreOfEndedPasses,
            LoopsSurvive, OnePassPerLoop, settings, Started, Pending
<1>1. CASE TakeUnit(k)
  <2>1. left[k] - 1 \in 0 .. PageSize
    BY <1>1, PageSizeIsPositive DEF TakeUnit
  <2>2. QED
    BY <1>1, <2>1, StartedAreLoops DEF TakeUnit
<1>2. CASE EndUnit(k)
  BY <1>2, StartedAreLoops DEF EndUnit
<1>3. ASSUME NEW how \in {"completed", "raised"}, thread[k] # "none", PassEnds(k, how)
      PROVE  IInv'
  <2>1. 0 \in 0 .. PageSize
    BY PageSizeIsPositive
  <2>2. QED
    BY <1>3, <2>1, StartedAreLoops DEF PassEnds
<1>4. QED
  BY <1>1, <1>2, <1>3 DEF Thread, Complete, Raise

THEOREM Invariance == Spec => []IInv
<1>1. IInv /\ [Next]_vars => IInv'
  <2>1. ASSUME IInv, UNCHANGED vars PROVE IInv'
    BY <2>1 DEF vars, settings, pass, IInv, TypeOK, NothingYet, Undisturbed,
         ResultsAreOfEndedPasses, LoopsSurvive, OnePassPerLoop, Started, Pending
  <2>2. QED
    BY <2>1, LifespanStep, EventLoopStep, ThreadStep DEF Next
<1>2. QED
  BY InitIsFine, <1>1, PTL DEF Spec

---------------------------------------------------------------------------

\* Every value stays of its type (the state of worker.py's Worker).
THEOREM TypeCorrect == Spec => []TypeOK
  BY Invariance, PTL DEF IInv

\* While the process serves, no failed pass ends its loop (the handlers of the
\* four loops in worker.py).
THEOREM LoopsSurviveHolds == Spec => []LoopsSurvive
  BY Invariance, PTL DEF IInv

\* No loop ever has two passes at once (`await asyncio.to_thread` in worker.py).
THEOREM OnePassPerLoopHolds == Spec => []OnePassPerLoop
  BY Invariance, PTL DEF IInv

=============================================================================
