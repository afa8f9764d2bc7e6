------------------------ MODULE Provisioning_proofs ------------------------
(***************************************************************************)
(* Theorems about Provisioning, for any workers, commands and plans.       *)
(***************************************************************************)
EXTENDS Provisioning, FiniteSetTheorems, TLAPS

USE DEF database, pass, api, Fault

---------------------------------------------------------------------------
(* The parts of a step.                                                    *)

LEMMA AnswerIsTold ==
  ASSUME NEW status \in Status, Answer(status)
  PROVE  /\ answer' \in [status : Status, code : Nat]
         /\ answer'.status = status
         /\ phase' = "told"
<1>1. Code(request.kind, status) \in Nat
  BY DEF Code
<1>2. QED
  BY <1>1 DEF Answer

LEMMA ToldIsTheProviders ==
  ASSUME NEW result, NEW observed PROVE Told(result, observed) \in ProviderStatus
  BY DEF Told, ProviderStatus

LEMMA RequestsAreFit ==
  ASSUME NEW asked \in Request
  PROVE  /\ asked.command \in Command
         /\ asked.kind = "submit" => asked.plan \in Plan /\ asked.plan # None
  BY ProvisioningAssumption, NoneAssumption DEF Request

PassTyped ==
  /\ at \in [Worker -> {"idle", "prepare", "invoke", "settle"}]
  /\ page \in [Worker -> SUBSET Command]
  /\ operation \in [Worker -> Command \cup {None}]
  /\ \A w \in Worker : operation[w] = None <=> at[w] = "idle"
  /\ units \in [Worker -> 0..MaxUnits]

LEMMA AdvanceIsTyped ==
  ASSUME PassTyped, NEW w \in Worker, NEW rest \in SUBSET Command, Advance(w, rest)
  PROVE  /\ PassTyped'
         /\ \A v \in Worker : at'[v] \in {"invoke", "settle"} =>
              v # w /\ at'[v] = at[v] /\ units'[v] = units[v] /\ operation'[v] = operation[v]
<1>1. CASE rest = {}
  <2>1. /\ at' = [at EXCEPT ![w] = "idle"] /\ page' = [page EXCEPT ![w] = {}]
        /\ operation' = [operation EXCEPT ![w] = None] /\ units' = [units EXCEPT ![w] = 0]
    BY <1>1 DEF Advance
  <2>2. QED
    BY <2>1, ProvisioningAssumption DEF PassTyped
<1>2. CASE rest # {}
  <2>1. PICK c \in rest :
          /\ at' = [at EXCEPT ![w] = "prepare"] /\ page' = [page EXCEPT ![w] = rest \ {c}]
          /\ operation' = [operation EXCEPT ![w] = c] /\ units' = [units EXCEPT ![w] = 0]
    BY <1>2 DEF Advance
  <2>2. c # None
    BY NoneAssumption
  <2>3. QED
    BY <2>1, <2>2, ProvisioningAssumption DEF PassTyped
<1>3. QED
  BY <1>1, <1>2

\* A step of a worker that goes on to another operation of its page, or ends
\* its pass, and touches no operation.
Leaves(w) ==
  /\ UNCHANGED <<database, api>>
  /\ \E rest \in SUBSET Command : Advance(w, rest)
  /\ faults' \in {faults, faults + 1} /\ faults' <= MaxFaults

LEMMA WorkerSteps ==
  ASSUME IInv, NEW w \in Worker,
         \/ SelectPage(w) \/ Prepare(w) \/ Invoke(w) \/ InvokeRaises(w)
         \/ Settle(w) \/ LoseClaim(w) \/ PassFails(w) \/ Crash(w)
  PROVE  \/ Leaves(w)
         \/ /\ Prepare(w) /\ units[w] < MaxUnits /\ operation[w] \in Due
            /\ claim' = [claim EXCEPT ![operation[w]] = w]
            /\ at' = [at EXCEPT ![w] = "invoke"]
            /\ UNCHANGED <<page, operation, units>>
         \/ Invoke(w) \/ Settle(w)
<1>0. TypeOK
  BY DEF IInv
<1>1. faults \in Nat /\ faults <= MaxFaults /\ MaxFaults \in Nat /\ page[w] \in SUBSET Command
  BY <1>0, ProvisioningAssumption DEF TypeOK
<1>2. CASE SelectPage(w)
  BY <1>1, <1>2 DEF SelectPage, Leaves, Due
<1>3. CASE Prepare(w)
  BY <1>1, <1>3 DEF Prepare, Leaves
<1>4. CASE InvokeRaises(w) \/ LoseClaim(w)
  BY <1>1, <1>4 DEF InvokeRaises, LoseClaim, Leaves
<1>5. CASE PassFails(w)
  BY <1>1, <1>5 DEF PassFails, Leaves
<1>6. CASE Crash(w)
  BY <1>1, <1>6 DEF Crash, Leaves
<1>7. QED
  BY <1>2, <1>3, <1>4, <1>5, <1>6

---------------------------------------------------------------------------
(* The inductive invariant, a group of conjuncts at a time.                *)

LEMMA InitIsFine == Init => IInv
<1> SUFFICES ASSUME Init PROVE IInv
  OBVIOUS
<1>1. request \in Request
  <2>1. PICK c \in Asked, p \in Plan : TRUE
    BY ProvisioningAssumption
  <2>2. [kind |-> "submit", who |-> "owner", command |-> c, plan |-> p] \in Request
    BY DEF Request, Principal
  <2>3. QED
    BY <2>2 DEF Init
<1>2. TypeOK
  BY <1>1, ProvisioningAssumption DEF Init, TypeOK, None, Status
<1>3. OperationsAreWhole /\ PassIsBounded /\ ReadingsStay
  BY ProvisioningAssumption DEF Init, OperationsAreWhole, PassIsBounded, ReadingsStay, None
<1>4. AcceptedIsDurable /\ TerminalViewIsWhole /\ ShownIsSettled
  BY DEF Init, AcceptedIsDurable, TerminalViewIsWhole, ShownIsSettled
<1>5. StraysAreFaults
  <2> SUFFICES ASSUME NEW c \in Command PROVE Cardinality(Astray(c)) <= 0
    BY DEF Init, StraysAreFaults
  <2>1. Astray(c) = {}
    BY DEF Init, Astray, Works
  <2>2. QED
    BY <2>1, FS_EmptySet
<1>6. QED
  BY <1>2, <1>3, <1>4, <1>5 DEF IInv

LEMMA TypeStep == IInv /\ Next => TypeOK'
<1> SUFFICES ASSUME IInv, Next PROVE TypeOK'
  OBVIOUS
<1> USE ProvisioningAssumption
<1>0. TypeOK /\ PassTyped /\ OperationsAreWhole /\ PassIsBounded
  BY DEF IInv, TypeOK, PassTyped
<1>1. ASSUME NEW w \in Worker,
             \/ SelectPage(w) \/ Prepare(w) \/ Invoke(w) \/ InvokeRaises(w)
             \/ Settle(w) \/ LoseClaim(w) \/ PassFails(w) \/ Crash(w)
      PROVE  TypeOK'
  <2>1. CASE Leaves(w)
    <3>1. PassTyped'
      BY <1>0, <2>1, AdvanceIsTyped DEF Leaves
    <3>2. faults' \in 0..MaxFaults
      BY <1>0, <2>1 DEF Leaves, TypeOK
    <3>3. QED
      BY <1>0, <2>1, <3>1, <3>2 DEF Leaves, TypeOK, PassTyped
  <2>2. CASE /\ Prepare(w) /\ operation[w] \in Due
             /\ claim' = [claim EXCEPT ![operation[w]] = w]
             /\ at' = [at EXCEPT ![w] = "invoke"]
             /\ UNCHANGED <<page, operation, units>>
    BY <1>0, <2>2 DEF Prepare, TypeOK
  <2>3. CASE Invoke(w)
    BY <1>0, <2>3 DEF Invoke, TypeOK
  <2>4. CASE Settle(w)
    <3> DEFINE c == operation[w]
               reached == IF cancelling[c] THEN Steps
                          ELSE IF c \in Endless THEN settled[c]
                          ELSE settled[c] + 1
    <3>1. c \in Command /\ c # None
      BY <1>0, <2>4 DEF Settle, TypeOK
    <3>2. claim[c] # None
      BY <2>4, NoneAssumption DEF Settle
    <3>3. settled[c] \in 0..Steps /\ settled[c] # Steps
      BY <1>0, <3>1, <3>2 DEF TypeOK, OperationsAreWhole
    <3>4. reached \in 0..Steps
      BY <3>3
    <3>5. units[w] + 1 \in 0..MaxUnits
      BY <1>0, <2>4 DEF Settle, PassIsBounded, TypeOK
    <3>6. settled' \in [Command -> 0..Steps]
      BY <1>0, <2>4, <3>4 DEF Settle, TypeOK
    <3>7. QED
      BY <1>0, <2>4, <3>1, <3>5, <3>6 DEF Settle, TypeOK
  <2>5. QED
    BY <1>1, <2>1, <2>2, <2>3, <2>4, WorkerSteps
<1>2. ASSUME NEW c \in Command, Expire(c) \/ Outlive(c)
      PROVE  TypeOK'
  BY <1>0, <1>2 DEF Expire, Outlive, TypeOK
<1>3. ASSUME NEW c \in Asked, Elsewhere(c)
      PROVE  TypeOK'
  <2>1. /\ plan' \in [Command -> Plan \cup {None}]
        /\ state' \in [Command -> {"none", "open", "done"}]
        /\ cancelling' \in [Command -> BOOLEAN]
    <3>1. CASE /\ \E p \in Plan : plan' = [plan EXCEPT ![c] = p]
               /\ state' = [state EXCEPT ![c] = "open"]
               /\ UNCHANGED cancelling
      BY <1>0, <3>1 DEF TypeOK
    <3>2. CASE cancelling' = [cancelling EXCEPT ![c] = TRUE] /\ UNCHANGED <<plan, state>>
      BY <1>0, <3>2 DEF TypeOK
    <3>3. QED
      BY <1>3, <3>1, <3>2 DEF Elsewhere
  <2>2. QED
    BY <1>0, <1>3, <2>1 DEF Elsewhere, TypeOK
<1>4. CASE Receive
  BY <1>0, <1>4 DEF Receive, TypeOK
<1>5. CASE BeginSubmit
  BY <1>0, <1>5, AnswerIsTold, RequestsAreFit DEF BeginSubmit, TypeOK, Status
<1>6. CASE BeginOwned
  BY <1>0, <1>6, AnswerIsTold, RequestsAreFit DEF BeginOwned, TypeOK, Status
<1>7. CASE View
  BY <1>0, <1>7, AnswerIsTold, RequestsAreFit DEF View, TypeOK, Status
<1>8. CASE CommitSubmit
  <2>1. "accepted" \in Status /\ "conflict" \in Status
    BY DEF Status
  <2>2. answer' \in [status : Status, code : Nat] /\ phase' = "told"
    BY <1>8, <2>1, AnswerIsTold DEF CommitSubmit
  <2>3. plan' \in [Command -> Plan \cup {None}] /\ state' \in [Command -> {"none", "open", "done"}]
    BY <1>0, <1>8, RequestsAreFit DEF CommitSubmit, TypeOK
  <2>4. QED
    BY <1>0, <1>8, <2>2, <2>3 DEF CommitSubmit, TypeOK
<1>9. CASE CommitCancel
  <2>1. (cancelling[request.command] \/ state[request.command] = "open") \in BOOLEAN
    OBVIOUS
  <2>2. cancelling' \in [Command -> BOOLEAN]
    BY <1>0, <1>9, <2>1 DEF CommitCancel, TypeOK
  <2>3. "accepted" \in Status
    BY DEF Status
  <2>4. QED
    BY <1>0, <1>9, <2>2, <2>3, AnswerIsTold DEF CommitCancel, TypeOK
<1>10. CASE BeginQuery
  BY <1>0, <1>10, AnswerIsTold DEF BeginQuery, TypeOK, Status, ProviderStatus
<1>11. CASE ExecuteQuery
  BY <1>0, <1>11, AnswerIsTold, ToldIsTheProviders DEF ExecuteQuery, TypeOK, Status
<1>12. CASE CallFails
  <2>1. PICK status \in Status : Answer(status)
    BY <1>12 DEF CallFails, Status, ProviderStatus
  <2>2. QED
    BY <1>0, <1>12, <2>1, AnswerIsTold DEF CallFails, TypeOK
<1>13. QED
  BY <1>1, <1>2, <1>3, <1>4, <1>5, <1>6, <1>7, <1>8, <1>9, <1>10, <1>11, <1>12 DEF Next

LEMMA OperationsStep == IInv /\ Next => OperationsAreWhole' /\ PassIsBounded'
<1> SUFFICES ASSUME IInv, Next PROVE OperationsAreWhole' /\ PassIsBounded'
  OBVIOUS
<1> USE ProvisioningAssumption, NoneAssumption
<1>0. TypeOK /\ PassTyped /\ OperationsAreWhole /\ PassIsBounded
  BY DEF IInv, TypeOK, PassTyped
<1>1. ASSUME NEW w \in Worker,
             \/ SelectPage(w) \/ Prepare(w) \/ Invoke(w) \/ InvokeRaises(w)
             \/ Settle(w) \/ LoseClaim(w) \/ PassFails(w) \/ Crash(w)
      PROVE  OperationsAreWhole' /\ PassIsBounded'
  <2>1. CASE Leaves(w)
    <3>1. PassIsBounded'
      <4>1. PICK rest \in SUBSET Command : Advance(w, rest)
        BY <2>1 DEF Leaves
      <4>2. QED
        BY <1>0, <4>1, AdvanceIsTyped DEF PassIsBounded
    <3>2. QED
      BY <1>0, <2>1, <3>1 DEF Leaves, OperationsAreWhole
  <2>2. CASE /\ Prepare(w) /\ units[w] < MaxUnits /\ operation[w] \in Due
             /\ claim' = [claim EXCEPT ![operation[w]] = w]
             /\ at' = [at EXCEPT ![w] = "invoke"]
             /\ UNCHANGED <<page, operation, units>>
    <3>1. OperationsAreWhole'
      BY <1>0, <2>2 DEF Prepare, Due, TypeOK, OperationsAreWhole
    <3>2. PassIsBounded'
      BY <1>0, <2>2 DEF TypeOK, PassIsBounded
    <3>3. QED
      BY <3>1, <3>2
  <2>3. CASE Invoke(w)
    BY <1>0, <2>3 DEF Invoke, TypeOK, OperationsAreWhole, PassIsBounded
  <2>4. CASE Settle(w)
    <3>1. operation[w] \in Command /\ claim[operation[w]] # None
      BY <1>0, <2>4 DEF Settle, TypeOK
    <3>2. state[operation[w]] = "open" /\ plan[operation[w]] # None
      BY <1>0, <3>1 DEF OperationsAreWhole
    <3>3. OperationsAreWhole'
      BY <1>0, <2>4, <3>1, <3>2 DEF Settle, TypeOK, OperationsAreWhole
    <3>4. PassIsBounded'
      BY <1>0, <2>4 DEF Settle, TypeOK, PassIsBounded
    <3>5. QED
      BY <3>3, <3>4
  <2>5. QED
    BY <1>1, <2>1, <2>2, <2>3, <2>4, WorkerSteps
<1>2. ASSUME NEW c \in Command, Expire(c) \/ Outlive(c)
      PROVE  OperationsAreWhole' /\ PassIsBounded'
  BY <1>0, <1>2 DEF Expire, Outlive, TypeOK, OperationsAreWhole, PassIsBounded
<1>3. ASSUME NEW c \in Asked, Elsewhere(c)
      PROVE  OperationsAreWhole' /\ PassIsBounded'
  BY <1>0, <1>3 DEF Elsewhere, TypeOK, OperationsAreWhole, PassIsBounded
<1>4. CASE CommitSubmit
  BY <1>0, <1>4, RequestsAreFit DEF CommitSubmit, TypeOK, OperationsAreWhole, PassIsBounded
<1>5. CASE Receive \/ BeginSubmit \/ BeginOwned \/ View \/ CommitCancel \/ BeginQuery
             \/ ExecuteQuery \/ CallFails
  BY <1>0, <1>5 DEF Receive, BeginSubmit, BeginOwned, View, CommitCancel, BeginQuery,
     ExecuteQuery, CallFails, OperationsAreWhole, PassIsBounded
<1>6. QED
  BY <1>1, <1>2, <1>3, <1>4, <1>5 DEF Next

LEMMA RequestStep ==
  IInv /\ Next => ReadingsStay' /\ AcceptedIsDurable' /\ TerminalViewIsWhole'
<1> DEFINE Goal == ReadingsStay /\ AcceptedIsDurable /\ TerminalViewIsWhole
<1> SUFFICES ASSUME IInv, Next PROVE Goal'
  OBVIOUS
<1> USE DEF ReadingsStay, AcceptedIsDurable, TerminalViewIsWhole
<1>0. TypeOK /\ OperationsAreWhole /\ ReadingsStay /\ AcceptedIsDurable /\ TerminalViewIsWhole
  BY DEF IInv
<1>a. /\ request.command \in Command
      /\ request.kind = "submit" => request.plan \in Plan /\ request.plan # None
  BY <1>0, RequestsAreFit DEF TypeOK
<1>b. {"accepted", "refused", "conflict"} \subseteq Status
  BY DEF Status
<1>1. ASSUME NEW w \in Worker,
             \/ SelectPage(w) \/ Prepare(w) \/ Invoke(w) \/ InvokeRaises(w)
             \/ Settle(w) \/ LoseClaim(w) \/ PassFails(w) \/ Crash(w)
      PROVE  Goal'
  <2>1. CASE Settle(w)
    BY <1>0, <1>a, <2>1 DEF Settle, TypeOK, OperationsAreWhole
  <2>2. CASE ~Settle(w)
    BY <1>0, <1>1, <2>2 DEF SelectPage, Prepare, Invoke, InvokeRaises, LoseClaim, PassFails, Crash
  <2>3. QED
    BY <2>1, <2>2
<1>2. ASSUME NEW c \in Command, Expire(c) \/ Outlive(c)
      PROVE  Goal'
  BY <1>0, <1>2 DEF Expire, Outlive
<1>3. ASSUME NEW c \in Asked, Elsewhere(c)
      PROVE  Goal'
  <2>1. c \in Command
    BY ProvisioningAssumption
  <2>2. plan[c] = None => state[c] = "none"
    BY <1>0, <2>1 DEF OperationsAreWhole
  <2>3. QED
    BY <1>0, <1>3, <1>a, <2>1, <2>2 DEF Elsewhere, TypeOK
<1>4. CASE Receive
  BY <1>0, <1>4 DEF Receive, None
<1>5. CASE BeginSubmit
  <2>1. CASE Answer("refused") /\ UNCHANGED seen
    BY <1>0, <1>b, <1>5, <2>1, AnswerIsTold DEF BeginSubmit
  <2>2. CASE Answer("conflict") /\ UNCHANGED seen
    BY <1>0, <1>b, <1>5, <2>2, AnswerIsTold DEF BeginSubmit
  <2>3. CASE /\ seen' = IF plan[request.command] = None THEN "open" ELSE state[request.command]
             /\ phase' = "view" /\ UNCHANGED answer
    BY <1>0, <1>5, <2>3 DEF BeginSubmit
  <2>4. QED
    BY <1>5, <2>1, <2>2, <2>3 DEF BeginSubmit
<1>6. CASE BeginOwned
  <2>1. CASE Answer("refused") /\ UNCHANGED seen
    BY <1>0, <1>b, <1>6, <2>1, AnswerIsTold DEF BeginOwned
  <2>2. CASE seen' = state[request.command] /\ phase' = "view" /\ UNCHANGED answer
    BY <1>0, <1>6, <2>2 DEF BeginOwned
  <2>3. QED
    BY <1>6, <2>1, <2>2 DEF BeginOwned
<1>7. CASE View
  <2>1. seen = "done" => shown' = Steps
    BY <1>0, <1>a, <1>7 DEF View, OperationsAreWhole
  <2>2. CASE request.kind = "get" /\ Answer("accepted")
    BY <1>0, <1>b, <1>7, <2>1, <2>2, AnswerIsTold DEF View
  <2>3. CASE phase' = "commit" /\ UNCHANGED answer
    BY <1>0, <1>7, <2>1, <2>3 DEF View
  <2>4. QED
    BY <1>7, <2>2, <2>3 DEF View
<1>8. CASE CommitSubmit
  <2>1. PICK status \in {"accepted", "conflict"} :
          /\ Answer(status)
          /\ status = "accepted" => plan'[request.command] = request.plan
    BY <1>0, <1>a, <1>8 DEF CommitSubmit, TypeOK
  <2>2. seen = "done" => UNCHANGED state
    BY <1>0, <1>a, <1>8 DEF CommitSubmit, OperationsAreWhole
  <2>3. QED
    BY <1>0, <1>b, <1>8, <2>1, <2>2, AnswerIsTold DEF CommitSubmit
<1>9. CASE CommitCancel
  BY <1>0, <1>b, <1>9, AnswerIsTold DEF CommitCancel
<1>10. CASE BeginQuery \/ ExecuteQuery \/ CallFails
  <2>1. CASE BeginQuery /\ phase' = "execute" /\ UNCHANGED answer
    BY <1>0, <2>1 DEF BeginQuery
  <2>2. CASE ~(BeginQuery /\ phase' = "execute" /\ UNCHANGED answer)
    <3>1. PICK status \in Status \ {"accepted", "none"} : Answer(status)
      BY <1>10, <2>2, ToldIsTheProviders DEF BeginQuery, ExecuteQuery, CallFails, Status, ProviderStatus
    <3>2. /\ phase # "new" /\ UNCHANGED <<database, request, seen, shown>>
      BY <1>10 DEF BeginQuery, ExecuteQuery, CallFails
    <3>3. QED
      BY <1>0, <3>1, <3>2, AnswerIsTold
  <2>3. QED
    BY <2>1, <2>2
<1>11. QED
  BY <1>1, <1>2, <1>3, <1>4, <1>5, <1>6, <1>7, <1>8, <1>9, <1>10 DEF Next

\* What was submitted, settled or ended stays so.
LEMMA NothingIsUndone ==
  ASSUME IInv, Next, NEW d \in Command
  PROVE  /\ plan[d] # None => plan'[d] = plan[d]
         /\ settled[d] <= settled'[d]
         /\ state[d] = "done" => state'[d] = "done"
<1> DEFINE Goal == /\ plan[d] # None => plan'[d] = plan[d]
                   /\ settled[d] <= settled'[d]
                   /\ state[d] = "done" => state'[d] = "done"
<1>0. TypeOK /\ OperationsAreWhole /\ settled[d] \in Nat
  BY DEF IInv, TypeOK
<1>1. CASE UNCHANGED <<plan, settled, state>>
  BY <1>0, <1>1
<1>2. ASSUME NEW w \in Worker, Settle(w) PROVE Goal
  <2>1. /\ operation[w] \in Command /\ claim[operation[w]] # None
        /\ settled[operation[w]] \in 0..Steps
    BY <1>0, <1>2, NoneAssumption DEF Settle, TypeOK
  <2>2. state[operation[w]] = "open"
    BY <1>0, <2>1 DEF OperationsAreWhole
  <2>3. QED
    BY <1>0, <1>2, <2>1, <2>2, ProvisioningAssumption DEF Settle, TypeOK
<1>3. ASSUME NEW c \in Asked, Elsewhere(c) PROVE Goal
  BY <1>0, <1>3, ProvisioningAssumption DEF Elsewhere, TypeOK, OperationsAreWhole
<1>4. CASE CommitSubmit
  <2>1. request.command \in Command
    BY <1>0, RequestsAreFit DEF TypeOK
  <2>2. QED
    BY <1>0, <1>4, <2>1 DEF CommitSubmit, TypeOK, OperationsAreWhole
<1>5. ASSUME NEW w \in Worker,
             \/ SelectPage(w) \/ Prepare(w) \/ Invoke(w) \/ InvokeRaises(w)
             \/ LoseClaim(w) \/ PassFails(w) \/ Crash(w)
      PROVE  UNCHANGED <<plan, settled, state>>
  BY <1>5 DEF SelectPage, Prepare, Invoke, InvokeRaises, LoseClaim, PassFails, Crash
<1>6. ASSUME NEW c \in Command, Expire(c) \/ Outlive(c)
      PROVE  UNCHANGED <<plan, settled, state>>
  BY <1>6 DEF Expire, Outlive
<1>7. ASSUME \/ Receive \/ BeginSubmit \/ BeginOwned \/ View \/ CommitCancel
             \/ BeginQuery \/ ExecuteQuery \/ CallFails
      PROVE  UNCHANGED <<plan, settled, state>>
  BY <1>7 DEF Receive, BeginSubmit, BeginOwned, View, CommitCancel, BeginQuery,
              ExecuteQuery, CallFails
<1>8. QED
  BY <1>1, <1>2, <1>3, <1>4, <1>5, <1>6, <1>7 DEF Next

LEMMA ShownStep == IInv /\ Next => ShownIsSettled'
<1> SUFFICES ASSUME IInv, Next PROVE ShownIsSettled'
  OBVIOUS
<1> USE DEF ShownIsSettled
<1> DEFINE c == request.command
<1>0. TypeOK /\ TypeOK' /\ ReadingsStay /\ ShownIsSettled
  BY TypeStep DEF IInv
<1>a. c \in Command /\ (request.kind = "submit" => request.plan # None)
  BY <1>0, RequestsAreFit DEF TypeOK
<1>b. /\ plan[c] # None => plan'[c] # None
      /\ settled[c] \in Nat /\ settled'[c] \in Nat /\ shown \in Nat
      /\ settled[c] <= settled'[c]
  BY <1>0, <1>a, NothingIsUndone DEF TypeOK
\* Whoever is not at the request leaves what it has read behind the database.
<1>1. CASE UNCHANGED api
  BY <1>0, <1>b, <1>1
<1>2. CASE Receive
  BY <1>0, <1>2 DEF Receive, ReadingsStay
<1>3. CASE BeginSubmit
  <2>1. /\ request.kind = "submit" /\ UNCHANGED request /\ phase' \in {"view", "told"}
        /\ answer'.status # "accepted"
    BY <1>0, <1>3 DEF BeginSubmit, Answer, ReadingsStay
  <2>2. QED
    BY <2>1
<1>4. CASE BeginOwned
  <2>1. CASE Answer("refused")
    BY <1>4, <2>1 DEF BeginOwned, Answer
  <2>2. CASE Owned /\ phase' = "view" /\ UNCHANGED answer
    BY <1>0, <1>4, <2>2 DEF BeginOwned, Owned, ReadingsStay
  <2>3. QED
    BY <1>4, <2>1, <2>2 DEF BeginOwned
<1>5. CASE View
  <2>1. /\ UNCHANGED <<plan, settled, request>> /\ shown' = settled[c]
        /\ phase = "view" /\ answer.status # "accepted"
    BY <1>0, <1>5 DEF View, ReadingsStay
  <2>2. CASE request.kind = "get" /\ Answer("accepted")
    BY <1>0, <1>b, <2>1, <2>2 DEF Answer
  <2>3. CASE phase' = "commit" /\ UNCHANGED answer
    BY <1>0, <1>b, <2>1, <2>3
  <2>4. QED
    BY <1>5, <2>2, <2>3 DEF View
<1>6. CASE CommitSubmit
  <2>1. phase' = "told" /\ UNCHANGED <<request, shown>> /\ shown <= settled[c]
    BY <1>0, <1>6 DEF CommitSubmit, Answer
  <2>2. answer'.status = "accepted" => plan'[c] # None
    BY <1>0, <1>a, <1>6 DEF CommitSubmit, Answer, TypeOK
  <2>3. QED
    BY <1>b, <2>1, <2>2
<1>7. CASE CommitCancel
  <2>1. /\ phase = "commit" /\ request.kind = "cancel" /\ phase' = "told"
        /\ UNCHANGED <<request, shown, plan, settled>>
    BY <1>7 DEF CommitCancel, Answer
  <2>2. QED
    BY <1>0, <2>1
<1>8. CASE BeginQuery
  BY <1>0, <1>8 DEF BeginQuery, Answer, ReadingsStay
<1>9. CASE ExecuteQuery \/ CallFails
  <2>1. phase' = "told" /\ answer'.status # "accepted"
    <3>1. PICK status \in Status \ {"accepted", "none"} : Answer(status)
      BY <1>9, ToldIsTheProviders DEF ExecuteQuery, CallFails, Status, ProviderStatus
    <3>2. QED
      BY <3>1, AnswerIsTold
  <2>2. QED
    BY <2>1
<1>10. ASSUME NEW w \in Worker,
              \/ SelectPage(w) \/ Prepare(w) \/ Invoke(w) \/ InvokeRaises(w)
              \/ Settle(w) \/ LoseClaim(w) \/ PassFails(w) \/ Crash(w)
       PROVE  UNCHANGED api
  BY <1>10 DEF SelectPage, Prepare, Invoke, InvokeRaises, Settle, LoseClaim, PassFails, Crash
<1>11. ASSUME NEW d \in Command, Expire(d) \/ Outlive(d) PROVE UNCHANGED api
  BY <1>11 DEF Expire, Outlive
<1>12. ASSUME NEW d \in Asked, Elsewhere(d) PROVE UNCHANGED api
  BY <1>12 DEF Elsewhere
<1>13. QED
  BY <1>1, <1>2, <1>3, <1>4, <1>5, <1>6, <1>7, <1>8, <1>9, <1>10, <1>11, <1>12 DEF Next

---------------------------------------------------------------------------
(* The claims, counted.                                                    *)

LEMMA OneMoreAtMost ==
  ASSUME NEW S, NEW x, IsFiniteSet(S)
  PROVE  /\ IsFiniteSet(S \cup {x})
         /\ Cardinality(S) \in Nat /\ Cardinality(S \cup {x}) \in Nat
         /\ Cardinality(S \cup {x}) <= Cardinality(S) + 1
<1>1. Cardinality(S) \in Nat
  BY FS_CardinalityType
<1>2. IsFiniteSet(S \cup {x})
      /\ Cardinality(S \cup {x}) = IF x \in S THEN Cardinality(S) ELSE Cardinality(S) + 1
  BY FS_AddElement
<1>3. QED
  BY <1>1, <1>2

LEMMA StraysAreFinite ==
  ASSUME NEW c
  PROVE  /\ IsFiniteSet(Astray(c)) /\ Cardinality(Astray(c)) \in Nat
         /\ IsFiniteSet(Astray(c)') /\ Cardinality(Astray(c)') \in Nat
<1>1. IsFiniteSet(Worker)
  BY ProvisioningAssumption
<1>2. Astray(c) \in SUBSET Worker /\ Astray(c)' \in SUBSET Worker
  BY DEF Astray
<1>3. IsFiniteSet(Astray(c)) /\ IsFiniteSet(Astray(c)')
  BY <1>1, <1>2, FS_Subset
<1>4. QED
  BY <1>3, FS_CardinalityType

\* A step by which nobody new goes astray.
LEMMA NobodyStrays ==
  ASSUME TypeOK, StraysAreFaults, TypeOK', faults <= faults',
         \A c \in Command : Astray(c)' \subseteq Astray(c)
  PROVE  StraysAreFaults'
<1> SUFFICES ASSUME NEW c \in Command PROVE Cardinality(Astray(c)') <= faults'
  BY DEF StraysAreFaults
<1>1. Cardinality(Astray(c)') <= Cardinality(Astray(c))
  <2>1. Astray(c)' \in SUBSET Astray(c)
    OBVIOUS
  <2>2. QED
    BY <2>1, StraysAreFinite, FS_Subset
<1>2. Cardinality(Astray(c)) <= faults /\ faults \in Nat /\ faults' \in Nat
  BY DEF StraysAreFaults, TypeOK
<1>3. QED
  BY <1>1, <1>2, StraysAreFinite

LEMMA StraysStep == IInv /\ Next => StraysAreFaults'
<1> SUFFICES ASSUME IInv, Next PROVE StraysAreFaults'
  OBVIOUS
<1>0. /\ TypeOK /\ TypeOK' /\ PassTyped /\ OperationsAreWhole /\ StraysAreFaults
      /\ faults \in Nat /\ faults' \in Nat
  BY TypeStep DEF IInv, TypeOK, PassTyped
<1>1. ASSUME NEW w \in Worker,
             \/ SelectPage(w) \/ Prepare(w) \/ Invoke(w) \/ InvokeRaises(w)
             \/ Settle(w) \/ LoseClaim(w) \/ PassFails(w) \/ Crash(w)
      PROVE  StraysAreFaults'
  <2>1. CASE Leaves(w)
    <3>1. PICK rest \in SUBSET Command : Advance(w, rest)
      BY <2>1 DEF Leaves
    <3>2. \A c \in Command : Astray(c)' \subseteq Astray(c)
      BY <1>0, <2>1, <3>1, AdvanceIsTyped DEF Leaves, Astray, Works
    <3>3. faults <= faults'
      BY <1>0, <2>1 DEF Leaves
    <3>4. QED
      BY <1>0, <3>2, <3>3, NobodyStrays
  <2>2. CASE /\ Prepare(w) /\ units[w] < MaxUnits /\ operation[w] \in Due
             /\ claim' = [claim EXCEPT ![operation[w]] = w]
             /\ at' = [at EXCEPT ![w] = "invoke"]
             /\ UNCHANGED <<page, operation, units>>
    <3>1. \A c \in Command : Astray(c)' \subseteq Astray(c)
      BY <1>0, <2>2, NoneAssumption DEF TypeOK, Due, Astray, Works
    <3>2. faults' = faults
      BY <2>2 DEF Prepare
    <3>3. QED
      BY <1>0, <3>1, <3>2, NobodyStrays
  <2>3. CASE Invoke(w)
    <3>1. \A c \in Command : Astray(c)' \subseteq Astray(c)
      BY <1>0, <2>3 DEF Invoke, TypeOK, Astray, Works
    <3>2. QED
      BY <1>0, <2>3, <3>1, NobodyStrays DEF Invoke
  <2>4. CASE Settle(w)
    <3>1. \A c \in Command : Astray(c)' \subseteq Astray(c)
      <4> SUFFICES ASSUME NEW c \in Command, NEW v \in Astray(c)' PROVE v \in Astray(c)
        OBVIOUS
      <4>1. v \in Worker /\ v # w /\ Works(v, c)
        BY <1>0, <2>4 DEF Settle, TypeOK, Astray, Works
      <4>2. claim[c] # v
        BY <1>0, <2>4, <4>1 DEF Settle, TypeOK, Astray
      <4>3. QED
        BY <4>1, <4>2 DEF Astray
    <3>2. QED
      BY <1>0, <2>4, <3>1, NobodyStrays DEF Settle
  <2>5. QED
    BY <1>1, <2>1, <2>2, <2>3, <2>4, WorkerSteps
<1>2. ASSUME NEW d \in Command, Expire(d)
      PROVE  StraysAreFaults'
  <2>1. \A c \in Command : Astray(c)' \subseteq Astray(c)
    BY <1>0, <1>2 DEF Expire, TypeOK, Astray, Works
  <2>2. QED
    BY <1>0, <1>2, <2>1, NobodyStrays DEF Expire
<1>3. ASSUME NEW d \in Command, Outlive(d)
      PROVE  StraysAreFaults'
  <2>1. PICK w \in Worker : claim[d] = w
    BY <1>3 DEF Outlive
  <2>2. \A c \in Command : Astray(c)' \subseteq Astray(c) \cup {w}
    BY <1>0, <1>3, <2>1 DEF Outlive, TypeOK, Astray, Works
  <2>3. SUFFICES ASSUME NEW c \in Command PROVE Cardinality(Astray(c)') <= faults'
    BY DEF StraysAreFaults
  <2>4. /\ IsFiniteSet(Astray(c) \cup {w})
        /\ Cardinality(Astray(c) \cup {w}) <= Cardinality(Astray(c)) + 1
    <3>1. IsFiniteSet(Astray(c)) /\ Cardinality(Astray(c)) \in Nat
      BY StraysAreFinite
    <3>2. QED
      BY <3>1, OneMoreAtMost
  <2>5. Cardinality(Astray(c)') <= Cardinality(Astray(c) \cup {w})
    <3>1. Astray(c)' \in SUBSET (Astray(c) \cup {w})
      BY <2>2
    <3>2. QED
      BY <2>4, <3>1, FS_Subset
  <2>6. Cardinality(Astray(c) \cup {w}) \in Nat
    BY <2>4, FS_CardinalityType
  <2>7. Cardinality(Astray(c)) <= faults /\ faults' = faults + 1
    BY <1>0, <1>3 DEF StraysAreFaults, Outlive
  <2>8. QED
    BY <1>0, <2>4, <2>5, <2>6, <2>7, StraysAreFinite
<1>4. ASSUME NEW c \in Asked, Elsewhere(c)
      PROVE  StraysAreFaults'
  <2>1. \A d \in Command : Astray(d)' \subseteq Astray(d)
    BY <1>4 DEF Elsewhere, Astray, Works
  <2>2. QED
    BY <1>0, <1>4, <2>1, NobodyStrays DEF Elsewhere
<1>5. CASE Receive \/ BeginSubmit \/ BeginOwned \/ View \/ CommitSubmit \/ CommitCancel
             \/ BeginQuery \/ ExecuteQuery \/ CallFails
  <2>1. UNCHANGED <<claim, at, operation, faults>>
    BY <1>5 DEF Receive, BeginSubmit, BeginOwned, View, CommitSubmit, CommitCancel,
       BeginQuery, ExecuteQuery, CallFails
  <2>2. \A c \in Command : Astray(c)' \subseteq Astray(c)
    BY <2>1 DEF Astray, Works
  <2>3. QED
    BY <1>0, <2>1, <2>2, NobodyStrays
<1>6. QED
  BY <1>1, <1>2, <1>3, <1>4, <1>5 DEF Next

LEMMA NextIsFine == IInv /\ [Next]_vars => IInv'
<1> SUFFICES ASSUME IInv, [Next]_vars PROVE IInv'
  OBVIOUS
<1>1. CASE Next
  BY <1>1, TypeStep, OperationsStep, RequestStep, ShownStep, StraysStep DEF IInv
<1>2. CASE UNCHANGED vars
  <2>1. TypeOK' /\ OperationsAreWhole' /\ PassIsBounded' /\ ReadingsStay'
        /\ ShownIsSettled' /\ AcceptedIsDurable' /\ TerminalViewIsWhole'
    BY <1>2 DEF vars, IInv, TypeOK, OperationsAreWhole, PassIsBounded, ReadingsStay,
       ShownIsSettled, AcceptedIsDurable, TerminalViewIsWhole
  <2>2. StraysAreFaults'
    <3>1. \A c \in Command : Astray(c)' \subseteq Astray(c)
      BY <1>2 DEF vars, Astray, Works
    <3>2. faults' = faults /\ faults \in Nat
      BY <1>2 DEF vars, IInv, TypeOK
    <3>3. QED
      BY <2>1, <3>1, <3>2, NobodyStrays DEF IInv
  <2>3. QED
    BY <2>1, <2>2 DEF IInv
<1>3. QED
  BY <1>1, <1>2

\* The inductive invariant holds in every state of every behaviour.
THEOREM Invariance == Spec => []IInv
  BY InitIsFine, NextIsFine, PTL DEF Spec

---------------------------------------------------------------------------
(* The properties.                                                         *)

\* The variables keep their values' types (provisioning, provision_api, query).
THEOREM TypeCorrect == Spec => []TypeOK
<1>1. IInv => TypeOK
  BY DEF IInv
<1>2. QED
  BY <1>1, Invariance, PTL

\* What a product is told is accepted is in the database, with its plan
\* (provision_api.submit).
THEOREM AcceptedIsDurableHolds == Spec => []AcceptedIsDurable
<1>1. IInv => AcceptedIsDurable
  BY DEF IInv
<1>2. QED
  BY <1>1, Invariance, PTL

\* An operation told as done is told with every step settled
\* (provision_api._view).
THEOREM TerminalViewIsWholeHolds == Spec => []TerminalViewIsWhole
<1>1. IInv => TerminalViewIsWhole
  BY DEF IInv
<1>2. QED
  BY <1>1, Invariance, PTL

\* The calls that overlap for one operation are at most one more than the
\* leases that ran out under a call, for any number of workers: all but the one
\* that holds the claim are astray (provisioning.py).
THEOREM UnitsAreExclusiveHolds == Spec => []UnitsAreExclusive
<1>1. IInv => UnitsAreExclusive
  <2> SUFFICES ASSUME IInv, NEW c \in Command
               PROVE  Cardinality({w \in Worker : Works(w, c)}) <= 1 + faults
    BY DEF UnitsAreExclusive
  <2> DEFINE working == {w \in Worker : Works(w, c)}
  <2>1. working \in SUBSET (Astray(c) \cup {claim[c]})
    BY DEF Astray
  <2>2. /\ IsFiniteSet(Astray(c) \cup {claim[c]})
        /\ Cardinality(Astray(c) \cup {claim[c]}) <= Cardinality(Astray(c)) + 1
    BY StraysAreFinite, OneMoreAtMost
  <2>3. Cardinality(working) <= Cardinality(Astray(c) \cup {claim[c]})
        /\ IsFiniteSet(working)
    BY <2>1, <2>2, FS_Subset
  <2>4. Cardinality(working) \in Nat /\ Cardinality(Astray(c) \cup {claim[c]}) \in Nat
    BY <2>2, <2>3, FS_CardinalityType
  <2>5. Cardinality(Astray(c)) <= faults /\ faults \in Nat
    BY DEF IInv, StraysAreFaults, TypeOK
  <2>6. QED
    BY <2>2, <2>3, <2>4, <2>5, StraysAreFinite
<1>2. QED
  BY <1>1, Invariance, PTL

---------------------------------------------------------------------------
(* Refinement: provisioning implements ProvisioningPromise.                *)

LEMMA PromiseInit == Init => Promise!Init
<1> SUFFICES ASSUME Init PROVE Promise!Init
  OBVIOUS
<1>1. {c \in Command : cancelling[c]} = {}
  BY DEF Init
<1>2. ToldViews = {}
  BY DEF Init, ToldViews
<1>3. QED
  BY <1>1, <1>2 DEF Init, Promise!Init

\* An answer, whatever step it is given in, is quiet or tells what is so.
LEMMA AnswersAreTrue ==
  ASSUME IInv, IInv', answer.status # "accepted"
  PROVE  \/ ToldViews' = ToldViews
         \/ Promise!Answers(request'.command)
<1>1. ToldViews = {}
  BY DEF ToldViews
<1>2. CASE answer'.status # "accepted"
  BY <1>1, <1>2 DEF ToldViews
<1>3. CASE answer'.status = "accepted"
  <2> DEFINE c == request'.command
             done == seen' = "done"
  <2>1. /\ c \in Command /\ shown' \in 0..Steps
        /\ request'.kind = "submit" => plan'[c] = request'.plan
        /\ plan'[c] # None /\ shown' <= settled'[c]
        /\ done => shown' = Steps
    BY <1>3, RequestsAreFit DEF IInv, TypeOK, AcceptedIsDurable, TerminalViewIsWhole, ShownIsSettled
  <2>2. done \in BOOLEAN
    OBVIOUS
  <2>3. ToldViews' = {[command |-> c, plan |-> plan'[c], settled |-> shown', done |-> done]}
    BY <1>3, <2>1 DEF ToldViews
  <2>4. Promise!Tell(c, shown', done)
    BY <1>1, <2>1, <2>3 DEF Promise!Tell
  <2>5. QED
    BY <2>1, <2>2, <2>4 DEF Promise!Answers
<1>4. QED
  BY <1>2, <1>3

\* What products were told does not change under them.
LEMMA ToldStays ==
  ASSUME IInv, Next, UNCHANGED api
  PROVE  ToldViews' = ToldViews
<1>1. /\ request.command \in Command
      /\ answer.status = "accepted" => plan[request.command] # None
  BY RequestsAreFit DEF IInv, TypeOK, ShownIsSettled
<1>2. answer.status = "accepted" => plan'[request.command] = plan[request.command]
  BY <1>1, NothingIsUndone
<1>3. QED
  BY <1>2 DEF ToldViews

LEMMA PromiseStep == IInv /\ IInv' /\ [Next]_vars => [Promise!Next]_(Promise!vars)
<1> DEFINE Called == {c \in Command : cancelling[c]}
           Goal == [Promise!Next]_(Promise!vars)
           Same == UNCHANGED <<plan, settled, cancelling>>
<1> SUFFICES ASSUME IInv, IInv', [Next]_vars PROVE Goal
  OBVIOUS
<1>0. TypeOK /\ TypeOK' /\ OperationsAreWhole /\ ReadingsStay
  BY DEF IInv
<1>1. ASSUME Same, ToldViews' = ToldViews PROVE Goal
  BY <1>1 DEF Promise!vars, Promise!operations
<1>2. CASE UNCHANGED vars
  BY <1>1, <1>2 DEF vars, ToldViews
<1>3. ASSUME NEW c \in Command, Same, Promise!Answers(c) PROVE Goal
  <2>1. UNCHANGED Promise!operations
    BY <1>3 DEF Promise!operations
  <2>2. QED
    BY <1>3, <2>1 DEF Promise!Next
\* The steps of workers.
<1>4. ASSUME NEW w \in Worker, Settle(w) PROVE Goal
  <2> DEFINE c == operation[w]
             reached == IF cancelling[c] THEN Steps
                        ELSE IF c \in Endless THEN settled[c]
                        ELSE settled[c] + 1
  <2>1. /\ Next /\ UNCHANGED <<plan, cancelling, api>>
        /\ settled' = [settled EXCEPT ![c] = reached]
    BY <1>4 DEF Next, Settle
  <2>2. Promise!Quiet /\ Called' = Called
    BY <2>1, ToldStays DEF Promise!Quiet
  <2>3. c \in Command /\ claim[c] # None
    BY <1>0, <1>4, NoneAssumption DEF Settle, TypeOK
  <2>4. state[c] = "open" /\ settled[c] \in 0..Steps
    BY <1>0, <2>3 DEF OperationsAreWhole, TypeOK
  <2>5. Promise!Open(c)
    BY <1>0, <2>3, <2>4, ProvisioningAssumption DEF OperationsAreWhole, Promise!Open
  <2>6. CASE cancelling[c]
    <3>1. Promise!Close(c)
      BY <2>1, <2>2, <2>3, <2>5, <2>6 DEF Promise!Close
    <3>2. QED
      BY <2>2, <2>3, <3>1 DEF Promise!Next
  <2>7. CASE ~cancelling[c] /\ c \notin Endless
    <3>1. Promise!SettleStep(c)
      BY <2>1, <2>2, <2>3, <2>5, <2>7 DEF Promise!SettleStep
    <3>2. QED
      BY <2>2, <2>3, <3>1 DEF Promise!Next
  <2>8. CASE ~cancelling[c] /\ c \in Endless
    <3>1. settled' = settled
      BY <1>0, <2>1, <2>3, <2>8 DEF TypeOK
    <3>2. QED
      BY <1>1, <2>1, <2>2, <3>1 DEF Promise!Quiet
  <2>9. QED
    BY <2>6, <2>7, <2>8
<1>5. ASSUME NEW w \in Worker,
             \/ SelectPage(w) \/ Prepare(w) \/ Invoke(w) \/ InvokeRaises(w)
             \/ LoseClaim(w) \/ PassFails(w) \/ Crash(w)
      PROVE  Goal
  <2>1. Next /\ Same /\ UNCHANGED api
    BY <1>5 DEF Next, SelectPage, Prepare, Invoke, InvokeRaises, LoseClaim, PassFails, Crash
  <2>2. QED
    BY <1>1, <2>1, ToldStays
<1>6. ASSUME NEW c \in Command, Expire(c) \/ Outlive(c) PROVE Goal
  <2>1. Next /\ Same /\ UNCHANGED api
    BY <1>6 DEF Next, Expire, Outlive
  <2>2. QED
    BY <1>1, <2>1, ToldStays
\* A submission and a calling off, by whomever.
<1>7. ASSUME NEW c \in Command, plan[c] = None, NEW p \in Plan,
             plan' = [plan EXCEPT ![c] = p], UNCHANGED <<settled, cancelling>>,
             Promise!Quiet \/ Promise!Answers(c)
      PROVE  Goal
  <2>1. Promise!Submit(c, p)
    BY <1>7 DEF Promise!Submit
  <2>2. QED
    BY <1>7, <2>1 DEF Promise!Next
<1>8. ASSUME NEW c \in Command, state[c] = "open",
             cancelling' = [cancelling EXCEPT ![c] = TRUE], UNCHANGED <<plan, settled>>,
             Promise!Quiet \/ Promise!Answers(c)
      PROVE  Goal
  <2>1. Called' = Called \cup {c}
    BY <1>0, <1>8 DEF TypeOK
  <2>2. Promise!Open(c)
    <3>1. settled[c] \in 0..Steps
      BY <1>0 DEF TypeOK
    <3>2. QED
      BY <1>0, <1>8, <3>1, ProvisioningAssumption DEF OperationsAreWhole, Promise!Open
  <2>3. Promise!CallOff(c)
    BY <1>8, <2>1, <2>2 DEF Promise!CallOff
  <2>4. QED
    BY <1>8, <2>3 DEF Promise!Next
<1>9. ASSUME NEW c \in Asked, Elsewhere(c) PROVE Goal
  <2>1. Next /\ UNCHANGED <<settled, api>> /\ c \in Command
    BY <1>9, ProvisioningAssumption DEF Next, Elsewhere
  <2>2. Promise!Quiet
    BY <2>1, ToldStays DEF Promise!Quiet
  <2>3. QED
    BY <1>7, <1>8, <1>9, <2>1, <2>2 DEF Elsewhere
\* The steps of the request.
<1>10. phase # "told" => ToldViews' = ToldViews \/ Promise!Answers(request'.command)
  BY <1>0, AnswersAreTrue DEF ReadingsStay
<1>11. request'.command \in Command
  BY <1>0, RequestsAreFit DEF TypeOK
<1>12. CASE \/ Receive \/ BeginSubmit \/ BeginOwned \/ View \/ BeginQuery
            \/ ExecuteQuery \/ CallFails
  <2>1. Same /\ phase # "told"
    BY <1>12 DEF Receive, BeginSubmit, BeginOwned, View, BeginQuery, ExecuteQuery, CallFails
  <2>2. QED
    BY <1>1, <1>3, <1>10, <1>11, <2>1
<1>13. CASE CommitSubmit
  <2> DEFINE c == request.command
  <2>1. /\ UNCHANGED <<settled, cancelling, request>> /\ phase # "told"
        /\ c \in Command /\ request.plan \in Plan
    BY <1>0, <1>13, RequestsAreFit DEF CommitSubmit, TypeOK
  <2>2. CASE plan[c] = None /\ plan' = [plan EXCEPT ![c] = request.plan]
    BY <1>7, <1>10, <2>1, <2>2 DEF Promise!Quiet
  <2>3. CASE UNCHANGED plan
    BY <1>1, <1>3, <1>10, <2>1, <2>3
  <2>4. QED
    BY <1>13, <2>2, <2>3 DEF CommitSubmit
<1>14. CASE CommitCancel
  <2> DEFINE c == request.command
  <2>1. /\ UNCHANGED <<plan, settled, request>> /\ phase # "told" /\ c \in Command
        /\ cancelling' = [cancelling EXCEPT ![c] = @ \/ state[c] = "open"]
    BY <1>0, <1>14, RequestsAreFit DEF CommitCancel, TypeOK
  <2>2. CASE state[c] = "open"
    <3>1. cancelling' = [cancelling EXCEPT ![c] = TRUE]
      BY <2>1, <2>2
    <3>2. QED
      BY <1>8, <1>10, <2>1, <2>2, <3>1 DEF Promise!Quiet
  <2>3. CASE state[c] # "open"
    <3>1. cancelling' = cancelling
      BY <1>0, <2>1, <2>3 DEF TypeOK
    <3>2. QED
      BY <1>1, <1>3, <1>10, <2>1, <3>1
  <2>4. QED
    BY <2>2, <2>3
<1>15. QED
  BY <1>2, <1>4, <1>5, <1>6, <1>9, <1>12, <1>13, <1>14 DEF Next

\* However workers race, outlive their leases or die, and whatever is asked in
\* between, provisioning is a behaviour of ProvisioningPromise: an operation has
\* one plan, settles each of its steps once and is never told to be further than
\* it is (provisioning.py, provision_api.py).
THEOREM PromiseIsKept == Spec => KeepsPromise
  BY PromiseInit, PromiseStep, Invariance, PTL DEF Spec, KeepsPromise, Promise!Spec

=============================================================================
