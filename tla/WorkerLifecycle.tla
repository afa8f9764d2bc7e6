--------------------------- MODULE WorkerLifecycle ---------------------------
(***************************************************************************)
(* The schedules of one process (worker.py) and the lifespan that starts   *)
(* and stops them (assembly.py).                                           *)
(*                                                                         *)
(* Each loop is an asyncio task that runs its pass in a thread and waits   *)
(* for the pass, then for its interval or the stopping event.  Tasks are   *)
(* interleaved at their awaits, threads with everything.  Cancelling a     *)
(* task ends its waiting, never the thread it waits for.                   *)
(*                                                                         *)
(* A pass is abstracted to a page of units (receipts, jobs, operations, or *)
(* the one sweep), each taken in a transaction and ended in another.       *)
(*                                                                         *)
(* A definition named Mut_* is the one after it as a plausible bug would   *)
(* have it; nothing uses it but the mutation runs.                         *)
(***************************************************************************)
EXTENDS Naturals, Sequences

CONSTANTS
  PageSize, \* settings.worker_batch_size
  Stuck     \* loops whose passes may never end: a target, or a database, that
            \* does not answer

ASSUME PageSizeIsPositive == PageSize \in Nat \ {0}

VARIABLES
  enabled,   \* settings.worker_enabled
  installed, \* whether a product port is installed when the worker starts
  phase,     \* of the lifespan: "new", "running", "stopping", "disposed"
  task,      \* task[k]: where the asyncio task of loop k is
  cancelled, \* the tasks cancelled and not resumed yet
  stopping,  \* Worker._stopping
  thread,    \* thread[k]: the pass of loop k, outside the event loop
  left,      \* left[k]: the units of the pass not taken yet
  result     \* result[k]: how the pass ended, while its task has not resumed

settings == <<enabled, installed>>
pass == <<thread, left, result>>
vars == <<settings, phase, task, cancelled, stopping, pass>>

---------------------------------------------------------------------------

\* In the order in which stop cancels them.
StopOrder ==
  <<"receipt-delivery", "connector-provisioning", "connector-polling", "lease-sweep">>

Loop == {StopOrder[i] : i \in DOMAIN StopOrder}

\* Delivery starts only with a product port installed; nothing starts on an
\* API-only replica.
Started ==
  IF ~enabled THEN {}
  ELSE IF installed THEN Loop ELSE Loop \ {"receipt-delivery"}

TypeOK ==
  /\ enabled \in BOOLEAN /\ installed \in BOOLEAN
  /\ phase \in {"new", "running", "stopping", "disposed"}
  /\ task \in [Loop -> {"none", "ready", "pass", "wait", "ended"}]
  /\ cancelled \subseteq Loop
  /\ stopping \in BOOLEAN
  /\ thread \in [Loop -> {"none", "between", "unit"}]
  /\ left \in [Loop -> 0 .. PageSize]
  /\ result \in [Loop -> {"none", "completed", "raised"}]

Init ==
  /\ enabled \in BOOLEAN /\ installed \in BOOLEAN
  /\ phase = "new"
  /\ task = [k \in Loop |-> "none"]
  /\ cancelled = {}
  /\ stopping = FALSE
  /\ thread = [k \in Loop |-> "none"]
  /\ left = [k \in Loop |-> 0]
  /\ result = [k \in Loop |-> "none"]

\* No await: every task exists before any of them runs.
Start ==
  /\ phase = "new"
  /\ phase' = "running"
  /\ stopping' = FALSE
  /\ task' = [k \in Loop |-> IF k \in Started THEN "ready" ELSE "none"]
  /\ UNCHANGED <<settings, cancelled, pass>>

---------------------------------------------------------------------------
(* A loop.                                                                 *)

Resumes(k, at) == task[k] = at /\ k \notin cancelled

\* `while not self._stopping.is_set()`.
LoopsOn == ~stopping

BeginPass(k) ==
  /\ Resumes(k, "ready")
  /\ LoopsOn
  /\ task' = [task EXCEPT ![k] = "pass"]
  /\ thread' = [thread EXCEPT ![k] = "between"]
  /\ \E n \in 0 .. PageSize : left' = [left EXCEPT ![k] = n]
  /\ UNCHANGED <<settings, phase, cancelled, stopping, result>>

LeaveLoop(k) ==
  /\ Resumes(k, "ready")
  /\ ~LoopsOn
  /\ task' = [task EXCEPT ![k] = "ended"]
  /\ UNCHANGED <<settings, phase, cancelled, stopping, pass>>

Mut_AfterPass(how) == IF how = "raised" THEN "ended" ELSE "wait"

Mut_AfterPassVerbatim(how) == how

\* A pass that raised is logged, and counted for some loops: either way the
\* loop survives it and waits for its interval.
AfterPass(how) == "wait"

PassReturns(k) ==
  /\ Resumes(k, "pass")
  /\ result[k] # "none"
  /\ task' = [task EXCEPT ![k] = AfterPass(result[k])]
  /\ result' = [result EXCEPT ![k] = "none"]
  /\ UNCHANGED <<settings, phase, cancelled, stopping, thread, left>>

Mut_WaitEnds == stopping

\* wait_for(stopping.wait(), timeout): ended by the interval or by the event.
WaitEnds == TRUE

Wake(k) ==
  /\ Resumes(k, "wait")
  /\ WaitEnds
  /\ task' = [task EXCEPT ![k] = "ready"]
  /\ UNCHANGED <<settings, phase, cancelled, stopping, pass>>

Mut_Interruptible(k) == thread[k] = "none"

\* CancelledError is thrown into whatever the task awaits.
Interruptible(k) == TRUE

Mut_AfterCancel == "wait"

\* It is no Exception: neither the handler nor the suppress stops it.
AfterCancel == "ended"

Interrupted(k) ==
  /\ k \in cancelled
  /\ Interruptible(k)
  /\ cancelled' = cancelled \ {k}
  /\ task' = [task EXCEPT ![k] = AfterCancel]
  /\ UNCHANGED <<settings, phase, stopping, pass>>

---------------------------------------------------------------------------
(* A pass, in its thread.                                                  *)

TakeUnit(k) ==
  /\ thread[k] = "between" /\ left[k] > 0
  /\ thread' = [thread EXCEPT ![k] = "unit"]
  /\ left' = [left EXCEPT ![k] = @ - 1]
  /\ UNCHANGED <<settings, phase, task, cancelled, stopping, result>>

EndUnit(k) ==
  /\ thread[k] = "unit"
  /\ thread' = [thread EXCEPT ![k] = "between"]
  /\ UNCHANGED <<settings, phase, task, cancelled, stopping, left, result>>

\* The result of a pass nobody waits for any more is dropped.
PassEnds(k, how) ==
  /\ thread' = [thread EXCEPT ![k] = "none"]
  /\ left' = [left EXCEPT ![k] = 0]
  /\ result' = [result EXCEPT ![k] = IF task[k] = "pass" THEN how ELSE "none"]
  /\ UNCHANGED <<settings, phase, task, cancelled, stopping>>

Complete(k) == thread[k] = "between" /\ left[k] = 0 /\ PassEnds(k, "completed")

Raise(k) == thread[k] # "none" /\ PassEnds(k, "raised")

---------------------------------------------------------------------------
(* Shutdown.                                                               *)

Pending(k) == task[k] \notin {"none", "ended"}

\* The task stop cancels and awaits next, as a set of at most one: the first of
\* the order still alive. Cancelling a task that is done, or was never started,
\* does nothing.
Awaited ==
  LET alive == {i \in DOMAIN StopOrder : Pending(StopOrder[i])}
  IN {StopOrder[i] : i \in {j \in alive : \A h \in alive : j <= h}}

CancelNext == cancelled' = Awaited

Stop ==
  /\ phase = "running"
  /\ phase' = "stopping"
  /\ stopping' = TRUE
  /\ CancelNext
  /\ UNCHANGED <<settings, task, pass>>

\* The awaited task has ended: stop goes on to the next one.
StopNext ==
  /\ phase = "stopping"
  /\ cancelled = {} /\ Awaited # {}
  /\ CancelNext
  /\ UNCHANGED <<settings, phase, task, stopping, pass>>

\* `await worker.stop()` returned: engine.dispose().
Dispose ==
  /\ phase = "stopping"
  /\ cancelled = {} /\ Awaited = {}
  /\ phase' = "disposed"
  /\ task' = [k \in Loop |-> "none"]
  /\ UNCHANGED <<settings, cancelled, stopping, pass>>

EventLoop(k) ==
  BeginPass(k) \/ LeaveLoop(k) \/ PassReturns(k) \/ Wake(k) \/ Interrupted(k)

Thread(k) == TakeUnit(k) \/ EndUnit(k) \/ Complete(k) \/ Raise(k)

Lifespan == Start \/ Stop \/ StopNext \/ Dispose

Next == Lifespan \/ \E k \in Loop : EventLoop(k) \/ Thread(k)

Spec == Init /\ [][Next]_vars

\* The event loop serves whatever is ready, which presumes that the handlers that
\* work on it return.
EventLoopFairness ==
  /\ WF_vars(StopNext) /\ WF_vars(Dispose)
  /\ \A k \in Loop : WF_vars(EventLoop(k))

\* Every unit ends by a timeout of its own, and a page is finite; nothing is asked
\* of the passes that may be stuck.
ThreadFairness == \A k \in Loop \ Stuck : WF_vars(Thread(k))

FairSpec == Spec /\ EventLoopFairness /\ ThreadFairness

---------------------------------------------------------------------------
(* What the properties rest on.                                            *)

\* Nothing has run before the start.
NothingYet ==
  phase = "new" =>
    /\ cancelled = {}
    /\ \A k \in Loop : task[k] = "none" /\ thread[k] = "none" /\ result[k] = "none"

\* Nobody cancels or stops anything while the process serves.
Undisturbed == phase = "running" => ~stopping /\ cancelled = {}

ResultsAreOfEndedPasses == \A k \in Loop : result[k] # "none" => thread[k] = "none"

---------------------------------------------------------------------------
(* Properties.                                                             *)

\* While the process serves, every loop it started is alive, whatever its
\* passes raised.
LoopsSurvive ==
  phase = "running" => \A k \in Started : Pending(k)

\* A loop never has two passes: wherever its task may begin another, the thread
\* of the one before has ended and its result was taken. A task that survived
\* its cancellation would leave the thread it waited for behind it.
OnePassPerLoop ==
  \A k \in Loop :
    task[k] \in {"ready", "wait"} => thread[k] = "none" /\ result[k] = "none"

\* The lifespan's shutdown ends (Worker.stop, engine.dispose) even if the passes
\* of stuck loops never do. The process may still wait for their threads: the
\* interpreter joins those of its executor before it exits.
StopCompletes == phase = "stopping" ~> phase = "disposed"

\* A loop comes back to work as long as the process serves, after failed passes
\* as after completed ones, even while the passes of other loops are stuck: a
\* provisioning target that does not answer holds up no delivery and no sweep.
LoopsComeBack ==
  \A k \in Loop \ Stuck :
    phase = "running" /\ k \in Started /\ thread[k] = "none"
      ~> thread[k] # "none" \/ phase # "running"

IInv ==
  /\ TypeOK /\ NothingYet /\ Undisturbed /\ ResultsAreOfEndedPasses
  /\ LoopsSurvive /\ OnePassPerLoop

\* What the runbook says of shutdown: claiming stops, the pass in flight
\* finishes, then the pool is disposed.
IdleWhenDisposed ==
  phase = "disposed" => \A k \in Loop : thread[k] = "none"

=============================================================================
