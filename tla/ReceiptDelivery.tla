--------------------------- MODULE ReceiptDelivery ---------------------------
(***************************************************************************)
(* The receipt delivery pump (delivery.py, driven by worker.py) of several *)
(* replicas over one inbox, and the destination it delivers to.            *)
(*                                                                         *)
(* A worker repeats a pass: select a page of due receipts (a hint), then   *)
(* for each, oldest first: claim it in one transaction, call the           *)
(* destination with no transaction held, settle it in another.  The claim  *)
(* and the settle belong to dotmac_integration, which is not in the        *)
(* repository: they are modelled from how delivery.py uses and describes   *)
(* them.                                                                   *)
(*                                                                         *)
(* Time is abstracted to the two facts the predicates read: which leases   *)
(* have not run out (`live`), and which receipts are past next_attempt_at  *)
(* (`due`).  Both may change between any two steps.                        *)
(*                                                                         *)
(* A definition named Mut_* is the one after it as a plausible bug would   *)
(* have it; nothing uses it but the mutation runs.                         *)
(***************************************************************************)
EXTENDS ProductPort, FiniteSets

CONSTANTS
  Receipt,      \* receipts, named by their rank in received_at
  Worker,       \* delivery tasks, one per worker-enabled replica
  NoClaim,      \* what a worker between receipts holds
  Answers,      \* the HTTP answers the destination may give
  Destinations, \* what a claim may resolve
  BatchSize,    \* settings.worker_batch_size
  MaxAttempts,  \* ExecutionPolicy.max_attempts
  MaxReplays,   \* bound on the operator's replays
  MaxFaults     \* bound on passes that end in the middle

ASSUME ReceiptsAreRanked == Receipt \subseteq Nat
ASSUME AnswersAreAnswers == Answers \subseteq HttpAnswer
ASSUME DestinationsAreDestinations == Destinations \subseteq Destination
ASSUME LimitsAreNatural ==
  /\ BatchSize \in Nat /\ MaxReplays \in Nat /\ MaxFaults \in Nat
  /\ MaxAttempts \in Nat \ {0}
ASSUME WorkersAreFinite == IsFiniteSet(Worker)

VARIABLES
  state,    \* inbox_receipts.state; "absent" before the provider delivers it
  attempt,  \* inbox_receipts.attempt_count
  claims,   \* how many claims the receipt has had; names the row's leased_until
  live,     \* the leases that have not run out, as <<receipt, number of its claim>>
  due,      \* the receipts whose next_attempt_at is null or past
  pc,       \* where each worker's pass is
  page,     \* the receipts of the worker's page not reached yet
  holding,  \* the ReceiptClaim the worker holds
  outcome,  \* the acceptance the worker's call came back with
  wire,     \* requests on their way to the destination
  ledger,   \* requests the destination recorded a consequence of
  replays,  \* replays so far
  faults    \* passes that ended in the middle so far

rows == <<state, attempt, claims, live, due>>
local == <<pc, page, holding, outcome>>
product == <<wire, ledger>>
budget == <<replays, faults>>
vars == <<rows, local, product, budget>>

---------------------------------------------------------------------------
(* The inbox.                                                              *)

State ==
  { "absent", "verified", "processing", "retryable", "processed", "dead_letter",
    "reconciliation_required" }

Mut_DeliverableOnce == {"verified"}

Mut_DeliverableLeft == {"verified", "retryable", "processing"}

Deliverable == {"verified", "retryable"}

Mut_RepairableEscalated == {"dead_letter", "retryable", "reconciliation_required"}

\* The states replay_receipt accepts; any other is NotRepairable.
Repairable == {"dead_letter", "retryable"}

Terminal == {"processed", "dead_letter", "reconciliation_required"}

\* A ReceiptClaim: the receipt, and the attempt and lease it was claimed under.
Claim == [receipt : Receipt, attempt : Nat, lease : Nat]

Leased(r) == \E c \in live : c[1] = r

DueReceipts == {r \in Receipt : state[r] \in Deliverable /\ ~Leased(r) /\ r \in due}

\* ORDER BY received_at LIMIT n.
Oldest(n, S) ==
  {r \in S : Cardinality({s \in S : s < r}) < n}

Mut_ClaimableUnderLease(r) == state[r] \notin Terminal \cup {"absent"} /\ r \in due

Mut_ClaimableSettled(r) == state[r] # "absent" /\ ~Leased(r) /\ r \in due

\* The WHERE of the conditional UPDATE: not terminal, not held by a live lease,
\* and due.
Claimable(r) ==
  /\ state[r] \notin Terminal \cup {"absent"}
  /\ ~Leased(r)
  /\ r \in due

Mut_StillHeldByAttempt(c) ==
  state[c.receipt] = "processing" /\ attempt[c.receipt] = c.attempt

\* The WHERE of the settling UPDATE: the row is still under this very claim.
StillHeld(c) ==
  /\ state[c.receipt] = "processing"
  /\ claims[c.receipt] = c.lease

\* retry.next_state.
NextState(acceptance, attempts) ==
  IF acceptance \in Holding THEN "processed"
  ELSE IF acceptance = "indeterminate" THEN "reconciliation_required"
  ELSE IF acceptance = "unavailable" /\ attempts < MaxAttempts THEN "retryable"
  ELSE "dead_letter"

---------------------------------------------------------------------------
(* The destination.  One idempotency key is one consequence: a request     *)
(* whose key it has recorded is recognised and records nothing further.    *)

\* Stable across attempts: it is the receipt's, not the claim's.
IdempotencyKey(c) == c.receipt

Recognised(c) == \E p \in ledger : IdempotencyKey(p) = IdempotencyKey(c)

---------------------------------------------------------------------------
(* Actions.                                                                *)

Init ==
  /\ state = [r \in Receipt |-> "absent"]
  /\ attempt = [r \in Receipt |-> 0]
  /\ claims = [r \in Receipt |-> 0]
  /\ live = {}
  /\ due = Receipt
  /\ pc = [w \in Worker |-> "idle"]
  /\ page = [w \in Worker |-> {}]
  /\ holding = [w \in Worker |-> NoClaim]
  /\ outcome = [w \in Worker |-> "none"]
  /\ wire = {}
  /\ ledger = {}
  /\ replays = 0
  /\ faults = 0

\* Ingress records a verified event; rows arrive in received_at order.
Receive(r) ==
  /\ state[r] = "absent"
  /\ \A s \in Receipt : s < r => state[s] # "absent"
  /\ state' = [state EXCEPT ![r] = "verified"]
  /\ UNCHANGED <<attempt, claims, live, due, local, product, budget>>

SelectPage(w) ==
  /\ pc[w] = "idle"
  /\ Oldest(BatchSize, DueReceipts) # {}
  /\ page' = [page EXCEPT ![w] = Oldest(BatchSize, DueReceipts)]
  /\ pc' = [pc EXCEPT ![w] = "pass"]
  /\ UNCHANGED <<rows, holding, outcome, product, budget>>

\* The receipt the pass has reached.
Reached(w, r) == pc[w] = "pass" /\ r \in page[w] /\ \A s \in page[w] : r <= s

TakeClaim(w, r) ==
  /\ Reached(w, r)
  /\ Claimable(r)
  /\ LET c == [receipt |-> r, attempt |-> attempt[r] + 1, lease |-> claims[r] + 1]
     IN /\ attempt' = [attempt EXCEPT ![r] = c.attempt]
        /\ claims' = [claims EXCEPT ![r] = c.lease]
        /\ live' = live \cup {<<r, c.lease>>}
        /\ holding' = [holding EXCEPT ![w] = c]
  /\ state' = [state EXCEPT ![r] = "processing"]
  /\ page' = [page EXCEPT ![w] = @ \ {r}]
  /\ pc' = [pc EXCEPT ![w] = "call"]
  /\ UNCHANGED <<due, outcome, product, budget>>

\* The claim's UPDATE matched no row: counted, and the pass goes on.
PassOver(w, r) ==
  /\ Reached(w, r)
  /\ ~Claimable(r)
  /\ page' = [page EXCEPT ![w] = @ \ {r}]
  /\ UNCHANGED <<rows, pc, holding, outcome, product, budget>>

EndPass(w) ==
  /\ pc[w] = "pass" /\ page[w] = {}
  /\ pc' = [pc EXCEPT ![w] = "idle"]
  /\ UNCHANGED <<rows, page, holding, outcome, product, budget>>

Returns(w, acceptance) ==
  /\ pc' = [pc EXCEPT ![w] = "settle"]
  /\ outcome' = [outcome EXCEPT ![w] = acceptance]
  /\ UNCHANGED <<rows, page, holding, budget>>

\* The call ends before the network: the client could not address the request.
RefuseUnsent(w) ==
  /\ pc[w] = "call"
  /\ \E d \in Destinations :
       /\ Address(d, "write") # "addressed"
       /\ Returns(w, UnsentOutcome(Address(d, "write")))
  /\ UNCHANGED product

Send(w) ==
  /\ pc[w] = "call"
  /\ \E d \in Destinations : Address(d, "write") = "addressed"
  /\ wire' = wire \cup {holding[w]}
  /\ pc' = [pc EXCEPT ![w] = "wait"]
  /\ UNCHANGED <<rows, page, holding, outcome, ledger, budget>>

\* The destination handles a request, however late, and whoever still waits.
Record(c) ==
  /\ c \in wire
  /\ wire' = wire \ {c}
  /\ ledger' = IF Recognised(c) THEN ledger ELSE ledger \cup {c}
  /\ UNCHANGED <<rows, local, budget>>

\* A readable 200 answers a request that was handled, and says `replayed` when
\* an earlier one had been; 4xx refuses it unrecorded; anything else, a body
\* nobody can read included, may come at any time.
Answer(w) ==
  /\ pc[w] = "wait"
  /\ \E a \in Answers :
       /\ a.status = 200 /\ a.readable =>
            holding[w] \notin wire /\ a.replayed = (holding[w] \notin ledger)
       /\ a.status \in 400 .. 499 => holding[w] \in wire
       /\ wire' = IF a.status \in 400 .. 499 THEN wire \ {holding[w]} ELSE wire
       /\ Returns(w, Outcome(a))
  /\ UNCHANGED ledger

\* The transport times out or breaks; the request may still be handled later.
NoAnswer(w) ==
  /\ pc[w] = "wait"
  /\ Returns(w, "unavailable")
  /\ UNCHANGED product

LetGo(w) ==
  /\ holding' = [holding EXCEPT ![w] = NoClaim]
  /\ outcome' = [outcome EXCEPT ![w] = "none"]

Settle(w) ==
  /\ pc[w] = "settle"
  /\ StillHeld(holding[w])
  /\ LET c == holding[w]
         next == NextState(outcome[w], c.attempt)
     IN /\ state' = [state EXCEPT ![c.receipt] = next]
        /\ live' = live \ {<<c.receipt, c.lease>>}
        /\ due' = IF next = "retryable" THEN due \ {c.receipt} ELSE due
  /\ LetGo(w)
  /\ pc' = [pc EXCEPT ![w] = "pass"]
  /\ UNCHANGED <<attempt, claims, page, product, budget>>

\* LostClaim: counted, and the pass goes on.
LoseClaim(w) ==
  /\ pc[w] = "settle"
  /\ ~StillHeld(holding[w])
  /\ LetGo(w)
  /\ pc' = [pc EXCEPT ![w] = "pass"]
  /\ UNCHANGED <<rows, page, product, budget>>

\* The process is killed, or anything but LostClaim is raised (a credential the
\* process no longer holds, an error body cut short, the database): the pass
\* ends where it stands and the loop starts another one later.
Abandon(w) ==
  /\ pc[w] # "idle"
  /\ faults < MaxFaults
  /\ faults' = faults + 1
  /\ pc' = [pc EXCEPT ![w] = "idle"]
  /\ page' = [page EXCEPT ![w] = {}]
  /\ LetGo(w)
  /\ UNCHANGED <<rows, product, replays>>

LeaseRunsOut(l) ==
  /\ l \in live
  /\ live' = live \ {l}
  /\ UNCHANGED <<state, attempt, claims, due, local, product, budget>>

BackoffElapses(r) ==
  /\ r \notin due
  /\ due' = due \cup {r}
  /\ UNCHANGED <<state, attempt, claims, live, local, product, budget>>

\* POST /operations/receipts/{id}/replay.
Replay(r) ==
  /\ state[r] \in Repairable
  /\ replays < MaxReplays
  /\ replays' = replays + 1
  /\ state' = [state EXCEPT ![r] = "verified"]
  /\ attempt' = [attempt EXCEPT ![r] = 0]
  /\ due' = due \cup {r}
  /\ UNCHANGED <<claims, live, local, product, faults>>

Call(w) == RefuseUnsent(w) \/ Send(w) \/ Answer(w) \/ NoAnswer(w)

Pump(w) ==
  \/ SelectPage(w) \/ EndPass(w)
  \/ \E r \in Receipt : TakeClaim(w, r) \/ PassOver(w, r)
  \/ Call(w) \/ Settle(w) \/ LoseClaim(w)

Next ==
  \/ \E w \in Worker : Pump(w) \/ Abandon(w)
  \/ \E r \in Receipt : Receive(r) \/ BackoffElapses(r) \/ Replay(r)
  \/ \E l \in live : LeaseRunsOut(l)
  \/ \E c \in wire : Record(c)

Spec == Init /\ [][Next]_vars

\* The loops of worker.py run while the process does, every call ends by its
\* transport timeout, and time passes.  Nothing is asked of the destination,
\* of the provider or of an operator.
Fairness ==
  /\ \A w \in Worker : WF_vars(Pump(w))
  /\ \A r \in Receipt : WF_vars(BackoffElapses(r))
  /\ WF_vars(\E l \in live : LeaseRunsOut(l))

FairSpec == Spec /\ Fairness

---------------------------------------------------------------------------
(* Properties.                                                             *)

TypeOK ==
  /\ state \in [Receipt -> State]
  /\ attempt \in [Receipt -> Nat]
  /\ claims \in [Receipt -> Nat]
  /\ live \subseteq Receipt \X Nat
  /\ due \subseteq Receipt
  /\ pc \in [Worker -> {"idle", "pass", "call", "wait", "settle"}]
  /\ page \in [Worker -> SUBSET Receipt]
  /\ holding \in [Worker -> Claim \cup {NoClaim}]
  /\ outcome \in [Worker -> Acceptance \cup {"none"}]
  /\ wire \subseteq Claim
  /\ ledger \subseteq Claim
  /\ replays \in Nat
  /\ faults \in Nat

Busy(w) == pc[w] \in {"call", "wait", "settle"}

LeaseOf(w) == <<holding[w].receipt, holding[w].lease>>

\* Two workers may be at the destination with one receipt, but never both under
\* a lease that has not run out: the second claim waited for the first lease.
NoTwoLiveLeases ==
  \A v, w \in Worker :
    v # w /\ Busy(v) /\ Busy(w) /\ holding[v].receipt = holding[w].receipt =>
      LeaseOf(v) \notin live \/ LeaseOf(w) \notin live

\* A receipt is `processed` only when the destination holds its consequence,
\* whatever answers were lost, late or unreadable on the way.
ProcessedIsHeld ==
  \A r \in Receipt :
    state[r] = "processed" => \E c \in ledger : c.receipt = r

\* A receipt costs no more attempts than the policy allows, and one more for
\* each replica that still has it on an old page: a takeover counts an attempt
\* that no settle has judged, but only a page selected before the first claim
\* names a receipt in `processing` (delivery.due_receipt_ids, deliver_due_receipts).
AttemptsAreBounded ==
  \A r \in Receipt : attempt[r] < MaxAttempts + Cardinality(Worker)

\* A receipt leaves `processing` only by the outcome of the claim it is under
\* now: a worker that was superseded never writes its answer over another's.
OutcomeOfCurrentClaim ==
  [][\A r \in Receipt :
       state[r] = "processing" /\ state'[r] # "processing" =>
         \E w \in Worker :
           /\ pc[w] = "settle"
           /\ holding[w].receipt = r /\ holding[w].lease = claims[r]
           /\ state'[r] = NextState(outcome[w], attempt[r])]_vars

\* A processed receipt stays processed, and one escalated to a person stays
\* escalated: no stale page, late answer or replay brings it back to the pump.
SettledStays ==
  [][\A r \in Receipt :
       state[r] \in {"processed", "reconciliation_required"} => state'[r] = state[r]]_vars

---------------------------------------------------------------------------
(* The inductive invariant behind them.                                    *)

\* A lease that has not run out is the row's own, and the row is under it.
LeasesAreCurrent ==
  \A l \in live : l[2] = claims[l[1]] /\ state[l[1]] = "processing"

\* A worker's claim is one the row has given out; if it is the latest one, the
\* row is still under it.
HoldersAreKnown ==
  \A w \in Worker : Busy(w) =>
    /\ holding[w] \in Claim
    /\ state[holding[w].receipt] # "absent"
    /\ holding[w].lease <= claims[holding[w].receipt]
    /\ holding[w].lease = claims[holding[w].receipt] =>
         /\ state[holding[w].receipt] = "processing"
         /\ attempt[holding[w].receipt] = holding[w].attempt

ClaimsAreDistinct ==
  \A v, w \in Worker :
    v # w /\ Busy(v) /\ Busy(w) /\ holding[v].receipt = holding[w].receipt =>
      holding[v].lease # holding[w].lease

\* A request a worker waits for is still out, or its receipt was recorded.
RequestsAreTraced ==
  \A w \in Worker :
    /\ pc[w] = "wait" => holding[w] \in wire \/ Recognised(holding[w])
    /\ pc[w] = "settle" /\ outcome[w] \in Holding => Recognised(holding[w])
    /\ pc[w] = "settle" => outcome[w] \in Acceptance

\* Nothing is on the wire, or recorded, of a receipt that was never received.
RequestsAreReceived ==
  \A c \in wire \cup ledger : state[c.receipt] # "absent"

\* A receipt the pump may select has attempts left; one under a claim, and the
\* pages that could still take it over, stay within the bound together.
Naming(r) == {w \in Worker : r \in page[w]}

AttemptsAreLeft ==
  \A r \in Receipt :
    /\ state[r] = "absent" => attempt[r] = 0
    /\ state[r] \in Deliverable => attempt[r] < MaxAttempts
    /\ state[r] = "processing" =>
         attempt[r] + Cardinality(Naming(r)) < MaxAttempts + Cardinality(Worker)

IInv ==
  /\ TypeOK
  /\ LeasesAreCurrent
  /\ HoldersAreKnown
  /\ ClaimsAreDistinct
  /\ RequestsAreTraced
  /\ RequestsAreReceived
  /\ ProcessedIsHeld
  /\ AttemptsAreLeft
  /\ AttemptsAreBounded

---------------------------------------------------------------------------
\* The pump keeps the promise of ReceiptPromise.
Standing(r) ==
  IF state[r] = "absent" THEN "none"
  ELSE IF state[r] = "processed" THEN "fulfilled"
  ELSE IF state[r] = "reconciliation_required" THEN "escalated"
  ELSE IF state[r] = "dead_letter" THEN "given_up"
  ELSE "owed"

Promise == INSTANCE ReceiptPromise
  WITH standing <- [r \in Receipt |-> Standing(r)],
       held <- {c.receipt : c \in ledger}

KeepsPromise == Promise!Spec

\* When no pass ends in the middle, every recorded receipt comes to an outcome,
\* even if the destination never answers.
EveryReceiptSettles ==
  \A r \in Receipt : state[r] = "verified" ~> state[r] \in Terminal

\* What delivery.py says of the candidate query: a `processing` receipt whose
\* lease ran out is recovered, by the lease predicate in the claim.
ExpiredLeaseIsReclaimed ==
  \A r \in Receipt :
    state[r] = "processing" /\ ~Leased(r) ~> state[r] # "processing" \/ Leased(r)

=============================================================================
