----------------------- MODULE ReceiptDelivery_proofs -----------------------
(***************************************************************************)
(* Theorems about ReceiptDelivery, for any receipts, workers, answers,     *)
(* destinations and limits.                                                *)
(***************************************************************************)
EXTENDS ReceiptDelivery, FiniteSetTheorems, TLAPS

\* Whatever the destination answers, `_outcome` gives it a meaning the engine
\* knows, and only a 200 it can read is taken to say that the consequence is held.
LEMMA OutcomeIsAcceptance ==
  ASSUME NEW a \in HttpAnswer
  PROVE  /\ Outcome(a) \in Acceptance
         /\ Outcome(a) \in Holding => a.status = 200 /\ a.readable
<1>1. \A c \in KnownCode : AcceptanceByCode[c] \in {"rejected", "unavailable", "indeterminate"}
  BY DEF AcceptanceByCode
<1>2. \A s, c : Classify(s, c) \in {"rejected", "unavailable", "indeterminate"}
  BY <1>1 DEF Classify
<1>3. QED
  BY <1>2 DEF Outcome, Acceptance, Holding

LEMMA UnsentIsAcceptance ==
  \A x : UnsentOutcome(x) \in Acceptance \ Holding
  BY DEF UnsentOutcome, Acceptance, Holding

\* Settling a claim gives the receipt a state of its own vocabulary, other than
\* "absent" and "processing", and `processed` only for an acceptance that says
\* the consequence is held.
LEMMA NextStateIsState ==
  ASSUME NEW acc \in Acceptance, NEW n \in Nat
  PROVE  /\ NextState(acc, n) \in State \ {"absent", "processing"}
         /\ NextState(acc, n) = "processed" => acc \in Holding
  BY DEF NextState, Acceptance, Holding, State

LEMMA OldestAreReceipts ==
  ASSUME NEW n, NEW S
  PROVE  Oldest(n, S) \subseteq S
  BY DEF Oldest

---------------------------------------------------------------------------
(* Type correctness.                                                       *)

LEMMA TypeInit == Init => TypeOK
  BY DEF Init, TypeOK, State, Acceptance, LimitsAreNatural

LEMMA TypeStep ==
  ASSUME TypeOK, HoldersAreKnown, RequestsAreTraced, [Next]_vars
  PROVE  TypeOK'
<1> USE ReceiptsAreRanked, AnswersAreAnswers
<1>1. CASE UNCHANGED vars
  BY <1>1 DEF vars, rows, local, product, budget, TypeOK
<1>2. ASSUME NEW w \in Worker, SelectPage(w) PROVE TypeOK'
  <2>1. Oldest(BatchSize, DueReceipts) \subseteq Receipt
    BY OldestAreReceipts DEF DueReceipts
  <2>2. QED
    BY <1>2, <2>1 DEF SelectPage, TypeOK, rows, product, budget
<1>3. ASSUME NEW w \in Worker, EndPass(w) PROVE TypeOK'
  BY <1>3 DEF EndPass, TypeOK, rows, product, budget
<1>4. ASSUME NEW w \in Worker, NEW r \in Receipt, TakeClaim(w, r) PROVE TypeOK'
  BY <1>4 DEF TakeClaim, TypeOK, State, Claim, product, budget
<1>5. ASSUME NEW w \in Worker, NEW r \in Receipt, PassOver(w, r) PROVE TypeOK'
  BY <1>5 DEF PassOver, TypeOK, rows, product, budget
<1>6. ASSUME NEW w \in Worker, RefuseUnsent(w) PROVE TypeOK'
  BY <1>6, UnsentIsAcceptance DEF RefuseUnsent, Returns, TypeOK, rows, product, budget
<1>7. ASSUME NEW w \in Worker, Send(w) PROVE TypeOK'
  BY <1>7 DEF Send, TypeOK, HoldersAreKnown, Busy, rows, product, budget
<1>8. ASSUME NEW w \in Worker, Answer(w) PROVE TypeOK'
  BY <1>8, OutcomeIsAcceptance DEF Answer, Returns, TypeOK, rows, product, budget
<1>9. ASSUME NEW w \in Worker, NoAnswer(w) PROVE TypeOK'
  BY <1>9 DEF NoAnswer, Returns, TypeOK, Acceptance, rows, product, budget
<1>10. ASSUME NEW w \in Worker, Settle(w) PROVE TypeOK'
  <2>1. holding[w] \in Claim /\ outcome[w] \in Acceptance
    BY <1>10 DEF Settle, HoldersAreKnown, RequestsAreTraced, Busy
  <2>2. NextState(outcome[w], holding[w].attempt) \in State
    BY <2>1, NextStateIsState DEF Claim
  <2>3. QED
    BY <1>10, <2>1, <2>2 DEF Settle, LetGo, TypeOK, Claim, product, budget
<1>11. ASSUME NEW w \in Worker, LoseClaim(w) PROVE TypeOK'
  BY <1>11 DEF LoseClaim, LetGo, TypeOK, rows, product, budget
<1>12. ASSUME NEW w \in Worker, Abandon(w) PROVE TypeOK'
  BY <1>12 DEF Abandon, LetGo, TypeOK, rows, product
<1>13. ASSUME NEW r \in Receipt, Receive(r) PROVE TypeOK'
  BY <1>13 DEF Receive, TypeOK, State, local, product, budget
<1>14. ASSUME NEW r \in Receipt, BackoffElapses(r) PROVE TypeOK'
  BY <1>14 DEF BackoffElapses, TypeOK, local, product, budget
<1>15. ASSUME NEW r \in Receipt, Replay(r) PROVE TypeOK'
  BY <1>15 DEF Replay, TypeOK, State, local, product
<1>16. ASSUME NEW l \in live, LeaseRunsOut(l) PROVE TypeOK'
  BY <1>16 DEF LeaseRunsOut, TypeOK, local, product, budget
<1>17. ASSUME NEW c \in wire, Record(c) PROVE TypeOK'
  BY <1>17 DEF Record, TypeOK, rows, local, budget
<1>18. QED
  BY <1>1, <1>2, <1>3, <1>4, <1>5, <1>6, <1>7, <1>8, <1>9, <1>10, <1>11, <1>12,
     <1>13, <1>14, <1>15, <1>16, <1>17 DEF Next, Pump, Call

---------------------------------------------------------------------------
(* The inductive invariant.  One lemma per conjunct: a case for the steps  *)
(* that leave its variables alone, and one per action that does not.       *)

LEMMA InvInit == Init => IInv
<1> SUFFICES ASSUME Init PROVE IInv
  OBVIOUS
<1>1. TypeOK
  BY TypeInit
<1>2. LeasesAreCurrent
  BY DEF Init, LeasesAreCurrent
<1>3. HoldersAreKnown /\ ClaimsAreDistinct /\ RequestsAreTraced
  BY DEF Init, HoldersAreKnown, ClaimsAreDistinct, RequestsAreTraced, Busy
<1>4. RequestsAreReceived /\ ProcessedIsHeld
  BY DEF Init, RequestsAreReceived, ProcessedIsHeld
<1>5. AttemptsAreLeft /\ AttemptsAreBounded
  <2>1. Cardinality(Worker) \in Nat
    BY WorkersAreFinite, FS_CardinalityType
  <2>2. QED
    BY <2>1, LimitsAreNatural DEF Init, AttemptsAreLeft, AttemptsAreBounded, Deliverable
<1>6. QED
  BY <1>1, <1>2, <1>3, <1>4, <1>5 DEF IInv

LEMMA LeasesStep ==
  ASSUME IInv, TypeOK', [Next]_vars
  PROVE  LeasesAreCurrent'
<1> USE DEF IInv, TypeOK, LeasesAreCurrent
<1>1. CASE UNCHANGED <<live, claims, state>>
  BY <1>1
<1>2. ASSUME NEW w \in Worker, NEW r \in Receipt, TakeClaim(w, r) PROVE LeasesAreCurrent'
  BY <1>2 DEF TakeClaim, Claimable, Leased
<1>3. ASSUME NEW w \in Worker, Settle(w) PROVE LeasesAreCurrent'
  BY <1>3 DEF Settle, StillHeld, HoldersAreKnown, Busy, Claim
<1>4. ASSUME NEW r \in Receipt, Receive(r) PROVE LeasesAreCurrent'
  BY <1>4 DEF Receive
<1>5. ASSUME NEW r \in Receipt, Replay(r) PROVE LeasesAreCurrent'
  BY <1>5 DEF Replay, Repairable
<1>6. ASSUME NEW l \in live, LeaseRunsOut(l) PROVE LeasesAreCurrent'
  BY <1>6 DEF LeaseRunsOut
<1>7. QED
  BY <1>1, <1>2, <1>3, <1>4, <1>5, <1>6
  DEF Next, Pump, Call, SelectPage, PassOver, EndPass, RefuseUnsent, Send, Answer, NoAnswer,
      LoseClaim, Abandon, BackoffElapses, Record, Returns, vars, rows

\* A step of another worker keeps what a worker knows of its claim.
LEMMA HoldersStep ==
  ASSUME IInv, TypeOK', [Next]_vars
  PROVE  HoldersAreKnown'
<1> USE DEF IInv, TypeOK, HoldersAreKnown, Busy
<1>1. CASE UNCHANGED <<pc, holding, state, attempt, claims>>
  BY <1>1
<1>2. ASSUME NEW w \in Worker, NEW r \in Receipt, TakeClaim(w, r) PROVE HoldersAreKnown'
  BY <1>2 DEF TakeClaim, Claimable, Terminal, Claim
<1>3. ASSUME NEW w \in Worker, Settle(w) PROVE HoldersAreKnown'
  <2>1. NextState(outcome[w], holding[w].attempt) # "absent"
    BY <1>3, NextStateIsState DEF Settle, RequestsAreTraced, Claim
  <2>2. QED
    BY <1>3, <2>1 DEF Settle, LetGo, StillHeld, ClaimsAreDistinct, Claim
<1>4. ASSUME NEW w \in Worker,
             SelectPage(w) \/ EndPass(w) \/ LoseClaim(w) \/ Abandon(w)
      PROVE  HoldersAreKnown'
  BY <1>4 DEF SelectPage, EndPass, LoseClaim, Abandon, LetGo, rows
<1>5. ASSUME NEW w \in Worker,
             RefuseUnsent(w) \/ Send(w) \/ Answer(w) \/ NoAnswer(w)
      PROVE  HoldersAreKnown'
  BY <1>5 DEF RefuseUnsent, Send, Answer, NoAnswer, Returns, rows
<1>6. ASSUME NEW r \in Receipt, Receive(r) \/ Replay(r) PROVE HoldersAreKnown'
  BY <1>6 DEF Receive, Replay, Repairable, local, Claim
<1>7. QED
  BY <1>1, <1>2, <1>3, <1>4, <1>5, <1>6
  DEF Next, Pump, Call, PassOver, BackoffElapses, LeaseRunsOut, Record, vars, rows, local

\* A new claim is numbered beyond every claim given out.
LEMMA DistinctStep ==
  ASSUME IInv, TypeOK', [Next]_vars
  PROVE  ClaimsAreDistinct'
<1> USE DEF IInv, TypeOK, ClaimsAreDistinct, Busy
<1>1. CASE UNCHANGED <<pc, holding>>
  BY <1>1
<1>2. ASSUME NEW w \in Worker, NEW r \in Receipt, TakeClaim(w, r) PROVE ClaimsAreDistinct'
  BY <1>2 DEF TakeClaim, HoldersAreKnown, Claim
<1>3. ASSUME NEW w \in Worker,
             SelectPage(w) \/ EndPass(w) \/ Settle(w) \/ LoseClaim(w) \/ Abandon(w)
      PROVE  ClaimsAreDistinct'
  BY <1>3 DEF SelectPage, EndPass, Settle, LoseClaim, Abandon, LetGo
<1>4. ASSUME NEW w \in Worker,
             RefuseUnsent(w) \/ Send(w) \/ Answer(w) \/ NoAnswer(w)
      PROVE  ClaimsAreDistinct'
  BY <1>4 DEF RefuseUnsent, Send, Answer, NoAnswer, Returns
<1>5. QED
  BY <1>1, <1>2, <1>3, <1>4
  DEF Next, Pump, Call, PassOver, BackoffElapses, LeaseRunsOut, Record, Receive, Replay,
      vars, local

\* A handled request is recognised, and a record is never taken back.
LEMMA TracedStep ==
  ASSUME IInv, TypeOK', [Next]_vars
  PROVE  RequestsAreTraced'
<1> USE AnswersAreAnswers DEF IInv, TypeOK, RequestsAreTraced, Recognised
<1>1. CASE UNCHANGED <<pc, holding, outcome, wire, ledger>>
  BY <1>1
<1>2. ASSUME NEW w \in Worker, NEW r \in Receipt, TakeClaim(w, r) PROVE RequestsAreTraced'
  BY <1>2 DEF TakeClaim, product
<1>3. ASSUME NEW w \in Worker,
             SelectPage(w) \/ EndPass(w) \/ Settle(w) \/ LoseClaim(w) \/ Abandon(w)
      PROVE  RequestsAreTraced'
  BY <1>3 DEF SelectPage, EndPass, Settle, LoseClaim, Abandon, LetGo, product
<1>4. ASSUME NEW w \in Worker, RefuseUnsent(w) PROVE RequestsAreTraced'
  BY <1>4, UnsentIsAcceptance DEF RefuseUnsent, Returns, product
<1>5. ASSUME NEW w \in Worker, Send(w) PROVE RequestsAreTraced'
  BY <1>5 DEF Send
<1>6. ASSUME NEW w \in Worker, Answer(w) PROVE RequestsAreTraced'
  <2>1. PICK a \in Answers :
          /\ a.status = 200 /\ a.readable =>
               holding[w] \notin wire /\ a.replayed = (holding[w] \notin ledger)
          /\ wire' = IF a.status \in 400 .. 499 THEN wire \ {holding[w]} ELSE wire
          /\ Returns(w, Outcome(a))
    BY <1>6 DEF Answer
  <2>2. Outcome(a) \in Acceptance /\ (Outcome(a) \in Holding => a.status = 200 /\ a.readable)
    BY OutcomeIsAcceptance
  <2>3. pc[w] = "wait" /\ ledger' = ledger
    BY <1>6 DEF Answer
  <2>4. ASSUME NEW v \in Worker, pc'[v] = "wait"
        PROVE  (holding[v] \in wire \/ Recognised(holding[v]))'
    <3>1. v # w /\ pc[v] = "wait" /\ holding'[v] = holding[v]
      BY <2>1, <2>4 DEF Returns
    <3>2. holding[v] # holding[w]
      BY <2>3, <3>1 DEF ClaimsAreDistinct, Busy
    <3>3. QED
      BY <2>1, <2>3, <3>1, <3>2
  <2>5. ASSUME NEW v \in Worker, pc'[v] = "settle"
        PROVE  (/\ outcome[v] \in Holding => Recognised(holding[v])
                /\ outcome[v] \in Acceptance)'
    BY <2>1, <2>2, <2>3, <2>5 DEF Returns
  <2>6. QED
    BY <2>4, <2>5
<1>7. ASSUME NEW w \in Worker, NoAnswer(w) PROVE RequestsAreTraced'
  BY <1>7 DEF NoAnswer, Returns, Acceptance, Holding, product
<1>8. ASSUME NEW c \in wire, Record(c) PROVE RequestsAreTraced'
  BY <1>8 DEF Record, local
<1>9. QED
  BY <1>1, <1>2, <1>3, <1>4, <1>5, <1>6, <1>7, <1>8
  DEF Next, Pump, Call, PassOver, BackoffElapses, LeaseRunsOut, Receive, Replay, vars, local,
      product

LEMMA ReceivedStep ==
  ASSUME IInv, TypeOK', [Next]_vars
  PROVE  RequestsAreReceived'
<1> USE DEF IInv, TypeOK, RequestsAreReceived, Claim
<1>1. CASE UNCHANGED <<state, wire, ledger>>
  BY <1>1
<1>2. ASSUME NEW w \in Worker, NEW r \in Receipt, TakeClaim(w, r) PROVE RequestsAreReceived'
  BY <1>2 DEF TakeClaim, product
<1>3. ASSUME NEW w \in Worker, Settle(w) PROVE RequestsAreReceived'
  <2>1. NextState(outcome[w], holding[w].attempt) # "absent"
    BY <1>3, NextStateIsState DEF Settle, RequestsAreTraced, HoldersAreKnown, Busy
  <2>2. QED
    BY <1>3, <2>1 DEF Settle, product
<1>4. ASSUME NEW w \in Worker, Send(w) PROVE RequestsAreReceived'
  BY <1>4 DEF Send, HoldersAreKnown, Busy, rows
<1>5. ASSUME NEW w \in Worker, Answer(w) PROVE RequestsAreReceived'
  BY <1>5 DEF Answer, Returns, rows
<1>6. ASSUME NEW c \in wire, Record(c) PROVE RequestsAreReceived'
  BY <1>6 DEF Record, rows
<1>7. ASSUME NEW r \in Receipt, Receive(r) \/ Replay(r) PROVE RequestsAreReceived'
  BY <1>7 DEF Receive, Replay, product
<1>8. QED
  BY <1>1, <1>2, <1>3, <1>4, <1>5, <1>6, <1>7
  DEF Next, Pump, Call, SelectPage, PassOver, EndPass, RefuseUnsent, NoAnswer, LoseClaim,
      Abandon, Returns, BackoffElapses, LeaseRunsOut, vars, rows, product

\* Only an answer that says the consequence is held settles a receipt as
\* processed, and a handled request was recorded.
LEMMA ProcessedStep ==
  ASSUME IInv, TypeOK', [Next]_vars
  PROVE  ProcessedIsHeld'
<1> USE DEF IInv, TypeOK, ProcessedIsHeld
<1>1. CASE UNCHANGED <<state, ledger>>
  BY <1>1
<1>2. ASSUME NEW w \in Worker, NEW r \in Receipt, TakeClaim(w, r) PROVE ProcessedIsHeld'
  BY <1>2 DEF TakeClaim, product
<1>3. ASSUME NEW w \in Worker, Settle(w) PROVE ProcessedIsHeld'
  <2> DEFINE c == holding[w]
  <2>1. c \in Claim /\ outcome[w] \in Acceptance
    BY <1>3 DEF Settle, HoldersAreKnown, RequestsAreTraced, Busy
  <2>2. NextState(outcome[w], c.attempt) = "processed" => outcome[w] \in Holding
    BY <2>1, NextStateIsState DEF Claim
  <2>3. outcome[w] \in Holding => \E p \in ledger : p.receipt = c.receipt
    BY <1>3 DEF Settle, RequestsAreTraced, Recognised, IdempotencyKey
  <2>4. /\ state' = [state EXCEPT ![c.receipt] = NextState(outcome[w], c.attempt)]
        /\ ledger' = ledger
    BY <1>3 DEF Settle, product
  <2>5. QED
    BY <2>1, <2>2, <2>3, <2>4 DEF Claim
<1>4. ASSUME NEW r \in Receipt, Receive(r) \/ Replay(r) PROVE ProcessedIsHeld'
  BY <1>4 DEF Receive, Replay, product
<1>5. ASSUME NEW c \in wire, Record(c) PROVE ProcessedIsHeld'
  BY <1>5 DEF Record, rows
<1>6. QED
  BY <1>1, <1>2, <1>3, <1>4, <1>5
  DEF Next, Pump, Call, SelectPage, PassOver, EndPass, RefuseUnsent, Send, Answer, NoAnswer,
      LoseClaim, Abandon, Returns, BackoffElapses, LeaseRunsOut, vars, rows, product

\* The pages that name a receipt are no more than the workers.
LEMMA NamingIsFinite ==
  ASSUME NEW r
  PROVE  /\ IsFiniteSet(Naming(r)) /\ Cardinality(Naming(r)) \in Nat
         /\ IsFiniteSet(Naming(r)') /\ Cardinality(Naming(r)') \in Nat
         /\ Cardinality(Worker) \in Nat
<1>1. Naming(r) \in SUBSET Worker /\ Naming(r)' \in SUBSET Worker
  BY DEF Naming
<1>2. IsFiniteSet(Naming(r)) /\ IsFiniteSet(Naming(r)')
  BY <1>1, WorkersAreFinite, FS_Subset
<1>3. QED
  BY <1>2, WorkersAreFinite, FS_CardinalityType

\* A receipt under a claim that keeps its attempts stays within the bound when
\* no page comes to name it.
LEMMA BoundIsKept ==
  ASSUME IInv, TypeOK', NEW r \in Receipt,
         attempt'[r] = attempt[r], state[r] = "processing",
         Naming(r)' \subseteq Naming(r)
  PROVE  attempt'[r] + Cardinality(Naming(r)') < MaxAttempts + Cardinality(Worker)
<1>1. Cardinality(Naming(r)') <= Cardinality(Naming(r))
  BY NamingIsFinite, FS_Subset
<1>2. attempt[r] + Cardinality(Naming(r)) < MaxAttempts + Cardinality(Worker)
  BY DEF IInv, AttemptsAreLeft
<1>3. attempt[r] \in Nat
  BY DEF IInv, TypeOK
<1>4. QED
  BY <1>1, <1>2, <1>3, NamingIsFinite, LimitsAreNatural

\* A claim takes its own page off the receipt: a first one leaves at most the
\* pages of the others, and a takeover pays for its attempt with its page.
LEMMA ClaimIsWithinBound ==
  ASSUME IInv, TypeOK', NEW w \in Worker, NEW r \in Receipt, TakeClaim(w, r)
  PROVE  attempt'[r] + Cardinality(Naming(r)') < MaxAttempts + Cardinality(Worker)
<1>1. /\ w \in Naming(r) /\ Naming(r)' = Naming(r) \ {w}
      /\ attempt'[r] = attempt[r] + 1 /\ attempt[r] \in Nat
      /\ state[r] \in Deliverable \cup {"processing"}
  BY DEF TakeClaim, Reached, Claimable, Terminal, Deliverable, State, Naming, IInv, TypeOK
<1>2. Cardinality(Naming(r)') = Cardinality(Naming(r)) - 1
  BY <1>1, NamingIsFinite, FS_RemoveElement
<1>3. Cardinality(Naming(r)) <= Cardinality(Worker)
  <2>1. Naming(r) \in SUBSET Worker
    BY DEF Naming
  <2>2. QED
    BY <2>1, WorkersAreFinite, FS_Subset
<1>4. CASE state[r] \in Deliverable
  <2>1. attempt[r] < MaxAttempts
    BY <1>4 DEF IInv, AttemptsAreLeft
  <2>2. QED
    BY <1>1, <1>2, <1>3, <2>1, NamingIsFinite, LimitsAreNatural
<1>5. CASE state[r] = "processing"
  <2>1. attempt[r] + Cardinality(Naming(r)) < MaxAttempts + Cardinality(Worker)
    BY <1>5 DEF IInv, AttemptsAreLeft
  <2>2. QED
    BY <1>1, <1>2, <2>1, NamingIsFinite, LimitsAreNatural
<1>6. QED
  BY <1>1, <1>4, <1>5

LEMMA AttemptsStep ==
  ASSUME IInv, TypeOK', [Next]_vars
  PROVE  AttemptsAreLeft' /\ AttemptsAreBounded'
<1> USE DEF TypeOK
<1>0. TypeOK /\ AttemptsAreLeft /\ AttemptsAreBounded /\ LimitsAreNatural
  BY LimitsAreNatural DEF IInv
<1>1. ASSUME UNCHANGED <<state, attempt>>,
             \A r \in Receipt : state[r] = "processing" => Naming(r)' \subseteq Naming(r)
      PROVE  AttemptsAreLeft' /\ AttemptsAreBounded'
  <2>1. AttemptsAreBounded'
    BY <1>0, <1>1 DEF AttemptsAreBounded
  <2>2. AttemptsAreLeft'
    BY <1>0, <1>1, BoundIsKept DEF AttemptsAreLeft
  <2>3. QED
    BY <2>1, <2>2
<1>2. ASSUME NEW w \in Worker, SelectPage(w) PROVE AttemptsAreLeft' /\ AttemptsAreBounded'
  <2>1. \A r \in Oldest(BatchSize, DueReceipts) : state[r] # "processing"
    BY OldestAreReceipts DEF DueReceipts, Deliverable
  <2>2. \A r \in Receipt : state[r] = "processing" => Naming(r)' \subseteq Naming(r)
    BY <1>0, <1>2, <2>1 DEF SelectPage, Naming
  <2>3. QED
    BY <1>1, <1>2, <2>2 DEF SelectPage, rows
<1>3. ASSUME NEW w \in Worker, NEW r \in Receipt, TakeClaim(w, r)
      PROVE  AttemptsAreLeft' /\ AttemptsAreBounded'
  <2>1. attempt'[r] + Cardinality(Naming(r)') < MaxAttempts + Cardinality(Worker)
    BY <1>3, ClaimIsWithinBound
  <2>2. /\ attempt'[r] \in Nat /\ state'[r] = "processing"
        /\ \A q \in Receipt : q # r => attempt'[q] = attempt[q] /\ state'[q] = state[q]
        /\ \A q \in Receipt : Naming(q)' \subseteq Naming(q)
    BY <1>0, <1>3 DEF TakeClaim, Naming
  <2>3. attempt'[r] < MaxAttempts + Cardinality(Worker)
    BY <1>0, <2>1, <2>2, NamingIsFinite
  <2>4. AttemptsAreBounded'
    BY <1>0, <2>2, <2>3 DEF AttemptsAreBounded
  <2>5. AttemptsAreLeft'
    BY <1>0, <2>1, <2>2, BoundIsKept DEF AttemptsAreLeft, Deliverable
  <2>6. QED
    BY <2>4, <2>5
<1>4. ASSUME NEW w \in Worker, Settle(w) PROVE AttemptsAreLeft' /\ AttemptsAreBounded'
  <2>1. PICK r \in Receipt : r = holding[w].receipt
    BY <1>4 DEF Settle, IInv, HoldersAreKnown, Busy, Claim
  <2>2. /\ attempt' = attempt /\ attempt[r] = holding[w].attempt
        /\ \A q \in Receipt : q # r => state'[q] = state[q]
        /\ \A q \in Receipt : Naming(q)' = Naming(q)
        /\ state'[r] = NextState(outcome[w], attempt[r])
    BY <1>0, <1>4, <2>1 DEF Settle, StillHeld, IInv, HoldersAreKnown, Busy, Naming
  <2>3. /\ state'[r] \in State \ {"absent", "processing"}
        /\ state'[r] \in Deliverable => attempt[r] < MaxAttempts
    BY <2>2 DEF NextState, State, Deliverable
  <2>4. AttemptsAreBounded'
    BY <1>0, <2>2 DEF AttemptsAreBounded
  <2>5. AttemptsAreLeft'
    BY <1>0, <2>2, <2>3, BoundIsKept DEF AttemptsAreLeft
  <2>6. QED
    BY <2>4, <2>5
<1>5. ASSUME NEW r \in Receipt, Receive(r) \/ Replay(r)
      PROVE  AttemptsAreLeft' /\ AttemptsAreBounded'
  <2>1. /\ attempt'[r] = 0 /\ state'[r] = "verified"
        /\ \A q \in Receipt : q # r => attempt'[q] = attempt[q] /\ state'[q] = state[q]
        /\ \A q \in Receipt : Naming(q)' = Naming(q)
    BY <1>0, <1>5 DEF Receive, Replay, local, Naming, AttemptsAreLeft
  <2>2. AttemptsAreBounded'
    BY <1>0, <2>1, NamingIsFinite DEF AttemptsAreBounded, LimitsAreNatural
  <2>3. AttemptsAreLeft'
    BY <1>0, <2>1, BoundIsKept DEF AttemptsAreLeft, LimitsAreNatural
  <2>4. QED
    BY <2>2, <2>3
<1>6. ASSUME NEW w \in Worker,
             \/ \E r \in Receipt : PassOver(w, r)
             \/ EndPass(w) \/ Call(w) \/ LoseClaim(w) \/ Abandon(w)
      PROVE  AttemptsAreLeft' /\ AttemptsAreBounded'
  <2>1. UNCHANGED <<state, attempt>> /\ (\A r \in Receipt : Naming(r)' \subseteq Naming(r))
    BY <1>0, <1>6 DEF PassOver, EndPass, Call, RefuseUnsent, Send, Answer, NoAnswer, Returns,
       LoseClaim, Abandon, rows, Naming
  <2>2. QED
    BY <1>1, <2>1
<1>7. CASE \/ UNCHANGED vars
           \/ \E r \in Receipt : BackoffElapses(r)
           \/ \E l \in live : LeaseRunsOut(l)
           \/ \E c \in wire : Record(c)
  <2>1. UNCHANGED <<state, attempt, page>>
    BY <1>7 DEF BackoffElapses, LeaseRunsOut, Record, vars, rows, local
  <2>2. QED
    BY <1>1, <2>1 DEF Naming
<1>8. QED
  BY <1>2, <1>3, <1>4, <1>5, <1>6, <1>7 DEF Next, Pump

LEMMA InvStep == IInv /\ [Next]_vars => IInv'
<1> SUFFICES ASSUME IInv, [Next]_vars PROVE IInv'
  OBVIOUS
<1>1. TypeOK'
  BY TypeStep DEF IInv
<1>2. QED
  BY <1>1, LeasesStep, HoldersStep, DistinctStep, TracedStep, ReceivedStep, ProcessedStep,
     AttemptsStep DEF IInv

\* The inductive invariant holds in every reachable state.
THEOREM Invariance == Spec => []IInv
  BY InvInit, InvStep, PTL DEF Spec

---------------------------------------------------------------------------
(* What the runs check, for every value of the constants.                  *)

\* Every variable keeps its type: in particular the outcome of a call is always
\* one that the engine can settle by.
THEOREM TypeCorrect == Spec => []TypeOK
<1>1. IInv => TypeOK
  BY DEF IInv
<1>2. QED
  BY <1>1, Invariance, PTL

\* However many replicas pump one inbox, and however stale their pages, two of
\* them never have the same receipt at the destination under live leases.
THEOREM NoTwoLiveLeasesHolds == Spec => []NoTwoLiveLeases
<1>1. IInv => NoTwoLiveLeases
  BY DEF IInv, TypeOK, NoTwoLiveLeases, LeasesAreCurrent, ClaimsAreDistinct, LeaseOf, Busy
<1>2. QED
  BY <1>1, Invariance, PTL

\* A receipt called processed is held by the destination: no lost, late,
\* unreadable or refused answer is ever taken for success.
THEOREM ProcessedIsHeldHolds == Spec => []ProcessedIsHeld
<1>1. IInv => ProcessedIsHeld
  BY DEF IInv
<1>2. QED
  BY <1>1, Invariance, PTL

\* However long the leases and however old the pages, a receipt is claimed at
\* most once more per other replica than the policy allows.
THEOREM AttemptsAreBoundedHolds == Spec => []AttemptsAreBounded
<1>1. IInv => AttemptsAreBounded
  BY DEF IInv
<1>2. QED
  BY <1>1, Invariance, PTL

---------------------------------------------------------------------------
(* Action properties.                                                      *)

\* The receipts settled by a step, and by what: a receipt in `processing` moves
\* on only by the settle of the claim it is under.
LEMMA OutcomeStep ==
  ASSUME IInv, [Next]_vars, NEW r \in Receipt, state[r] = "processing", state'[r] # "processing"
  PROVE  \E w \in Worker :
           /\ pc[w] = "settle"
           /\ holding[w].receipt = r /\ holding[w].lease = claims[r]
           /\ state'[r] = NextState(outcome[w], attempt[r])
<1> USE DEF IInv, TypeOK
<1>1. ASSUME NEW w \in Worker, NEW s \in Receipt, TakeClaim(w, s) PROVE FALSE
  BY <1>1 DEF TakeClaim
<1>2. ASSUME NEW s \in Receipt, Receive(s) \/ Replay(s) PROVE FALSE
  BY <1>2 DEF Receive, Replay, Repairable
<1>3. ASSUME NEW w \in Worker, Settle(w)
      PROVE  /\ pc[w] = "settle"
             /\ holding[w].receipt = r /\ holding[w].lease = claims[r]
             /\ state'[r] = NextState(outcome[w], attempt[r])
  BY <1>3 DEF Settle, StillHeld, HoldersAreKnown, Busy, Claim
<1>4. state' # state
  OBVIOUS
<1>5. QED
  BY <1>1, <1>2, <1>3, <1>4
  DEF Next, Pump, Call, SelectPage, PassOver, EndPass, RefuseUnsent, Send, Answer, NoAnswer,
      LoseClaim, Abandon, BackoffElapses, LeaseRunsOut, Record, Returns, vars, rows

\* A superseded worker never settles a receipt, whatever was replayed between
\* its claim and its answer: the attempt it would settle by is the row's own.
THEOREM OutcomeIsOfCurrentClaim == Spec => OutcomeOfCurrentClaim
<1>1. IInv /\ [Next]_vars =>
        [\A r \in Receipt :
           state[r] = "processing" /\ state'[r] # "processing" =>
             \E w \in Worker :
               /\ pc[w] = "settle"
               /\ holding[w].receipt = r /\ holding[w].lease = claims[r]
               /\ state'[r] = NextState(outcome[w], attempt[r])]_vars
  BY OutcomeStep
<1>2. QED
  BY <1>1, Invariance, PTL DEF Spec, OutcomeOfCurrentClaim

\* No stale page, late answer or replay reopens a processed or escalated receipt.
THEOREM SettledReceiptsStay == Spec => SettledStays
<1>1. ASSUME IInv, [Next]_vars, NEW r \in Receipt,
             state[r] \in {"processed", "reconciliation_required"}
      PROVE  state'[r] = state[r]
  <2> USE DEF IInv, TypeOK
  <2>1. CASE state' = state
    BY <2>1
  <2>2. ASSUME NEW w \in Worker, NEW s \in Receipt, TakeClaim(w, s) PROVE state'[r] = state[r]
    BY <1>1, <2>2 DEF TakeClaim, Claimable, Terminal
  <2>3. ASSUME NEW w \in Worker, Settle(w) PROVE state'[r] = state[r]
    BY <1>1, <2>3 DEF Settle, StillHeld
  <2>4. ASSUME NEW s \in Receipt, Receive(s) \/ Replay(s) PROVE state'[r] = state[r]
    BY <1>1, <2>4 DEF Receive, Replay, Repairable
  <2>5. QED
    BY <1>1, <2>1, <2>2, <2>3, <2>4
    DEF Next, Pump, Call, SelectPage, PassOver, EndPass, RefuseUnsent, Send, Answer, NoAnswer,
        LoseClaim, Abandon, BackoffElapses, LeaseRunsOut, Record, Returns, vars, rows
<1>2. IInv /\ [Next]_vars =>
        [\A r \in Receipt :
           state[r] \in {"processed", "reconciliation_required"} => state'[r] = state[r]]_vars
  BY <1>1
<1>3. QED
  BY <1>2, Invariance, PTL DEF Spec, SettledStays

---------------------------------------------------------------------------
(* Refinement: the pump implements ReceiptPromise.                         *)

\* Where the promise stands after a step that changes no other row's state.
LEMMA StandingMoves ==
  ASSUME TypeOK, NEW r \in Receipt, NEW s, state' = [state EXCEPT ![r] = s]
  PROVE  [q \in Receipt |-> Standing(q)]'
           = [[q \in Receipt |-> Standing(q)] EXCEPT ![r] = Standing(r)']
  BY DEF TypeOK, Standing

\* The initial states keep the promise: nothing is acknowledged, nothing held.
LEMMA PromiseInit == Init => Promise!Init
  BY DEF Init, Promise!Init, Standing

\* A claim, a retry and a replay of a retryable receipt are stuttering steps of
\* the promise: the receipt stays owed.
LEMMA PromiseStep == IInv /\ [Next]_vars => [Promise!Next]_(Promise!vars)
<1> SUFFICES ASSUME IInv, [Next]_vars PROVE [Promise!Next]_(Promise!vars)
  OBVIOUS
<1> USE DEF IInv
<1>1. CASE UNCHANGED <<state, ledger>>
  BY <1>1 DEF Promise!vars, Standing
<1>2. ASSUME NEW w \in Worker, NEW r \in Receipt, TakeClaim(w, r)
      PROVE  UNCHANGED Promise!vars
  <2>1. /\ state' = [state EXCEPT ![r] = "processing"]
        /\ ledger' = ledger
        /\ state[r] \notin Terminal \cup {"absent"}
    BY <1>2 DEF TakeClaim, Claimable, product
  <2>2. \A q \in Receipt : Standing(q)' = Standing(q)
    BY <2>1 DEF TypeOK, Standing, Terminal
  <2>3. QED
    BY <2>1, <2>2 DEF Promise!vars
<1>3. ASSUME NEW w \in Worker, Settle(w) PROVE [Promise!Next]_(Promise!vars)
  <2> DEFINE c == holding[w]
             next == NextState(outcome[w], c.attempt)
  <2>1. /\ c \in Claim /\ outcome[w] \in Acceptance
        /\ outcome[w] \in Holding => \E p \in ledger : p.receipt = c.receipt
    BY <1>3 DEF Settle, HoldersAreKnown, RequestsAreTraced, Recognised, IdempotencyKey, Busy
  <2>2. /\ next \in State \ {"absent", "processing"}
        /\ next = "processed" => outcome[w] \in Holding
    BY <2>1, NextStateIsState DEF Claim
  <2>3. /\ state' = [state EXCEPT ![c.receipt] = next]
        /\ state[c.receipt] = "processing"
        /\ ledger' = ledger
    BY <1>3 DEF Settle, StillHeld, product
  <2>4. PICK r \in Receipt : r = c.receipt
    BY <2>1 DEF Claim
  <2>5. /\ [q \in Receipt |-> Standing(q)]'
             = [[q \in Receipt |-> Standing(q)] EXCEPT ![r] = Standing(r)']
        /\ Standing(r) = "owed"
        /\ state'[r] = next
    BY <2>3, <2>4, StandingMoves DEF TypeOK, Standing
  <2>6. CASE next = "processed"
    <3>1. r \in {p.receipt : p \in ledger} /\ Standing(r)' = "fulfilled"
      BY <2>1, <2>2, <2>4, <2>5, <2>6 DEF Standing
    <3>2. Promise!Fulfil(r)
      BY <2>3, <2>5, <3>1 DEF Promise!Fulfil, Promise!Move
    <3>3. QED
      BY <3>2 DEF Promise!Next
  <2>7. CASE next = "reconciliation_required"
    <3>1. Promise!Escalate(r)
      BY <2>3, <2>5, <2>7 DEF Promise!Escalate, Promise!Move, Standing
    <3>2. QED
      BY <3>1 DEF Promise!Next
  <2>8. CASE next = "dead_letter"
    <3>1. Promise!GiveUp(r)
      BY <2>3, <2>5, <2>8 DEF Promise!GiveUp, Promise!Move, Standing
    <3>2. QED
      BY <3>1 DEF Promise!Next
  <2>9. CASE next \in {"verified", "retryable"}
    BY <2>3, <2>5, <2>9 DEF Promise!vars, Standing
  <2>10. QED
    BY <2>2, <2>6, <2>7, <2>8, <2>9 DEF State
<1>4. ASSUME NEW r \in Receipt, Receive(r) PROVE [Promise!Next]_(Promise!vars)
  <2>1. /\ state' = [state EXCEPT ![r] = "verified"]
        /\ ledger' = ledger
        /\ state[r] = "absent" /\ state'[r] = "verified"
    BY <1>4 DEF Receive, product, TypeOK
  <2>2. Promise!Acknowledge(r)
    BY <2>1, StandingMoves DEF Promise!Acknowledge, Promise!Move, Standing
  <2>3. QED
    BY <2>2 DEF Promise!Next
<1>5. ASSUME NEW r \in Receipt, Replay(r) PROVE [Promise!Next]_(Promise!vars)
  <2>1. /\ state' = [state EXCEPT ![r] = "verified"]
        /\ ledger' = ledger
        /\ state[r] \in {"dead_letter", "retryable"} /\ state'[r] = "verified"
    BY <1>5 DEF Replay, Repairable, product, TypeOK
  <2>2. [q \in Receipt |-> Standing(q)]'
          = [[q \in Receipt |-> Standing(q)] EXCEPT ![r] = "owed"]
    BY <2>1, StandingMoves DEF Standing
  <2>3. CASE state[r] = "dead_letter"
    <3>1. Promise!OweAgain(r)
      BY <2>1, <2>2, <2>3 DEF Promise!OweAgain, Promise!Move, Standing
    <3>2. QED
      BY <3>1 DEF Promise!Next
  <2>4. CASE state[r] = "retryable"
    BY <2>1, <2>2, <2>4 DEF Promise!vars, Standing
  <2>5. QED
    BY <2>1, <2>3, <2>4
<1>6. ASSUME NEW c \in wire, Record(c) PROVE [Promise!Next]_(Promise!vars)
  <2>1. state' = state /\ c.receipt \in Receipt /\ state[c.receipt] # "absent"
    BY <1>6 DEF Record, rows, TypeOK, Claim, RequestsAreReceived
  <2>2. CASE Recognised(c)
    BY <1>6, <2>1, <2>2 DEF Record, Promise!vars, Standing
  <2>3. CASE ~Recognised(c)
    <3>1. /\ ledger' = ledger \cup {c}
          /\ c.receipt \notin {p.receipt : p \in ledger}
      BY <1>6, <2>3 DEF Record, Recognised, IdempotencyKey
    <3>2. Promise!Land(c.receipt)
      BY <2>1, <3>1 DEF Promise!Land, Standing
    <3>3. QED
      BY <2>1, <3>2 DEF Promise!Next
  <2>4. QED
    BY <2>2, <2>3
<1>7. QED
  BY <1>1, <1>2, <1>3, <1>4, <1>5, <1>6
  DEF Next, Pump, Call, SelectPage, PassOver, EndPass, RefuseUnsent, Send, Answer, NoAnswer,
      LoseClaim, Abandon, BackoffElapses, LeaseRunsOut, Returns, vars, rows, product

\* What was acknowledged to a provider is owed until it is fulfilled, escalated
\* or given up; it is fulfilled only if held, and only what was given up can be
\* owed again.  Every behaviour of the pump is one of ReceiptPromise.
THEOREM PromiseIsKept == Spec => KeepsPromise
  BY PromiseInit, PromiseStep, Invariance, PTL DEF Spec, KeepsPromise, Promise!Spec

=============================================================================
