---------------------------- MODULE Provisioning ----------------------------
(***************************************************************************)
(* Provisioning: the passes of the workers (provisioning.py), and the      *)
(* product's requests, authenticated, to submit, cancel and read an        *)
(* operation and to query a provider (provision_api.py, query.py,          *)
(* product_auth.py and their routes in assembly.py), over one database.    *)
(* One request is followed, at whatever moment it comes; of the others     *)
(* there is what they commit.                                              *)
(*                                                                         *)
(* The engine is a library.  Its claims, the units of a plan and the       *)
(* handling of a duplicate command are modelled from how this code uses    *)
(* them: a unit is claimed in one committed transaction and settled under  *)
(* that claim in another, and the operation ends with its last step.       *)
(*                                                                         *)
(* A definition named Mut_* is the one after it as a plausible bug would   *)
(* have it; nothing uses it but the mutation runs.                         *)
(***************************************************************************)
EXTENDS Naturals, FiniteSets

CONSTANTS
  Worker,     \* the provisioning loop of a replica
  Command,    \* an operation, named by its binding's command_id
  Stored,     \* operations submitted before
  Asked,      \* operations the requests are about
  Broken,     \* operations whose connector call may raise
  Endless,    \* operations that always have one more unit to drive
  Plan,       \* what a command may ask for
  Steps,      \* steps of a plan
  PageSize,   \* WORKER_BATCH_SIZE
  MaxUnits,   \* _MAX_UNITS_PER_OPERATION
  MaxFaults   \* bound: crashes, failed transactions, leases outlived by a call

ASSUME ProvisioningAssumption ==
  /\ IsFiniteSet(Worker)
  /\ Stored \subseteq Command
  /\ Asked \subseteq Command /\ Asked # {} /\ Plan # {}
  /\ Steps \in Nat \ {0} /\ PageSize \in Nat \ {0} /\ MaxUnits \in Nat \ {0}
  /\ MaxFaults \in Nat

None == "none"

ASSUME NoneAssumption == None \notin Worker \cup Command \cup Plan

VARIABLES
  plan,       \* plan[c]: the plan of the operation in the database
  state,      \* state[c]: "none", "open" or "done"
  settled,    \* settled[c]: its settled steps
  cancelling, \* cancelling[c]: its cancellation is requested
  claim,      \* claim[c]: the worker whose claim on a unit of it is current
  at,         \* at[w]: what worker w does next
  page,       \* page[w]: operations of its page it has not come to
  operation,  \* operation[w]: the one it drives
  units,      \* units[w]: units of it settled in this pass
  faults,     \* faults so far
  request,    \* what is asked
  phase,      \* how far the request is
  seen,       \* the state of the operation it has read
  shown,      \* the settled steps it has read
  answer      \* [status, code], once it is told

database == <<plan, state, settled, cancelling, claim>>
pass == <<at, page, operation, units>>
api == <<request, phase, seen, shown, answer>>
vars == <<database, pass, faults, api>>

---------------------------------------------------------------------------
(* Who asks.  "owner" holds the key of a caller of the application that    *)
(* declares the capability, with the scope and with the binding in its     *)
(* binding_ids; "unlisted" has not the binding, "foreign" is of another    *)
(* application, "unscoped" has not the scope, or matches no held key.      *)

Principal == {"owner", "unlisted", "foreign", "unscoped"}

Authenticated(who) == who # "unscoped"

Listed(who) == who # "unlisted"

Owns(who) == who # "foreign"

Request ==
  [kind : {"submit"}, who : Principal, command : Asked, plan : Plan]
    \cup [kind : {"cancel", "get", "query"}, who : Principal, command : Asked, plan : {None}]

\* 401, or 403 where the route itself checks the binding: nothing is touched.
Admitted(asked) ==
  /\ Authenticated(asked.who)
  /\ asked.kind \in {"submit", "query"} => Listed(asked.who)

ProviderStatus ==
  {"ok", "not_found", "invalid_query", "provider_unavailable", "timeout",
   "unauthorized_provider_session", "malformed_provider_response"}

Status == {"none", "accepted", "conflict", "refused", "unavailable"} \cup ProviderStatus

\* The HTTP status a route gives.
Code(kind, status) ==
  CASE status = "accepted" -> IF kind = "get" THEN 200 ELSE 202
    [] status = "conflict" -> 409
    [] status = "refused" -> IF kind = "submit" THEN 422 ELSE 404
    [] status = "ok" -> 200
    [] status = "not_found" -> 404
    [] status = "invalid_query" -> 422
    [] status = "timeout" -> 504
    [] status \in {"unauthorized_provider_session", "malformed_provider_response"} -> 502
    [] OTHER -> 503

\* What a provider's result becomes.  A status outside the closed set is
\* malformed; a failure that carries an observation, or a success without one,
\* does not fit the response and is told as unavailable.
Told(result, observed) ==
  IF result \notin ProviderStatus THEN "malformed_provider_response"
  ELSE IF observed # (result = "ok") THEN "provider_unavailable"
  ELSE result

---------------------------------------------------------------------------
Init ==
  /\ plan \in [Command -> Plan \cup {None}]
  /\ \A c \in Command : plan[c] = None <=> c \notin Stored
  /\ state = [c \in Command |-> IF c \in Stored THEN "open" ELSE "none"]
  /\ settled = [c \in Command |-> 0]
  /\ cancelling = [c \in Command |-> FALSE]
  /\ claim = [c \in Command |-> None]
  /\ at = [w \in Worker |-> "idle"]
  /\ page = [w \in Worker |-> {}]
  /\ operation = [w \in Worker |-> None]
  /\ units = [w \in Worker |-> 0]
  /\ faults = 0
  /\ request = CHOOSE asked \in Request : TRUE
  /\ phase = "new"
  /\ seen = None
  /\ shown = 0
  /\ answer = [status |-> "none", code |-> 0]

Fault == faults < MaxFaults /\ faults' = faults + 1

---------------------------------------------------------------------------
(* The pass of a worker.                                                   *)

Due == {c \in Command : state[c] = "open" /\ claim[c] = None}

\* Comes to the next operation of the page, or ends the pass.
Advance(w, rest) ==
  \/ /\ rest = {}
     /\ at' = [at EXCEPT ![w] = "idle"]
     /\ page' = [page EXCEPT ![w] = {}]
     /\ operation' = [operation EXCEPT ![w] = None]
     /\ units' = [units EXCEPT ![w] = 0]
  \/ \E c \in rest :
       /\ at' = [at EXCEPT ![w] = "prepare"]
       /\ page' = [page EXCEPT ![w] = rest \ {c}]
       /\ operation' = [operation EXCEPT ![w] = c]
       /\ units' = [units EXCEPT ![w] = 0]

SelectPage(w) ==
  /\ at[w] = "idle" /\ Due # {}
  /\ \E selected \in SUBSET Due :
       /\ Cardinality(selected) = IF Cardinality(Due) < PageSize THEN Cardinality(Due) ELSE PageSize
       /\ Advance(w, selected)
  /\ UNCHANGED <<database, faults, api>>

Mut_PrepareUncommitted(w) ==
  /\ at[w] = "prepare"
  /\ \/ /\ units[w] < MaxUnits /\ operation[w] \in Due
        /\ at' = [at EXCEPT ![w] = "invoke"]
        /\ UNCHANGED <<claim, page, operation, units>>
     \/ /\ units[w] = MaxUnits \/ operation[w] \notin Due
        /\ Advance(w, page[w])
        /\ UNCHANGED claim
  /\ UNCHANGED <<plan, state, settled, cancelling, faults, api>>

\* Claims a unit and commits the claim.  Nothing to claim, an operation that is
\* gone, or the bound of the pass: on to the next one.
Prepare(w) ==
  /\ at[w] = "prepare"
  /\ \/ /\ units[w] < MaxUnits /\ operation[w] \in Due
        /\ claim' = [claim EXCEPT ![operation[w]] = w]
        /\ at' = [at EXCEPT ![w] = "invoke"]
        /\ UNCHANGED <<page, operation, units>>
     \/ /\ units[w] = MaxUnits \/ operation[w] \notin Due
        /\ Advance(w, page[w])
        /\ UNCHANGED claim
  /\ UNCHANGED <<plan, state, settled, cancelling, faults, api>>

\* The connector is called while no session is open.
Invoke(w) ==
  /\ at[w] = "invoke"
  /\ at' = [at EXCEPT ![w] = "settle"]
  /\ UNCHANGED <<database, page, operation, units, faults, api>>

Mut_InvokeRaisesOut(w) ==
  /\ at[w] = "invoke" /\ operation[w] \in Broken
  /\ Advance(w, {})
  /\ UNCHANGED <<database, faults, api>>

\* An exception leaves the claim to its lease, and the page goes on.
InvokeRaises(w) ==
  /\ at[w] = "invoke" /\ operation[w] \in Broken
  /\ Advance(w, page[w])
  /\ UNCHANGED <<database, faults, api>>

Mut_SettleUnclaimed(w) ==
  LET c == operation[w]
      reached == IF cancelling[c] THEN Steps
                 ELSE IF c \in Endless THEN settled[c]
                 ELSE settled[c] + 1
  IN /\ at[w] = "settle"
     /\ settled' = [settled EXCEPT ![c] = reached]
     /\ state' = [state EXCEPT ![c] = IF reached = Steps THEN "done" ELSE @]
     /\ claim' = [claim EXCEPT ![c] = None]
     /\ at' = [at EXCEPT ![w] = "prepare"]
     /\ units' = [units EXCEPT ![w] = @ + 1]
     /\ UNCHANGED <<plan, cancelling, page, operation, faults, api>>

\* Under its own claim, in a session of its own.  A cancelled operation has its
\* remaining steps cancelled.
Settle(w) ==
  LET c == operation[w]
      reached == IF cancelling[c] THEN Steps
                 ELSE IF c \in Endless THEN settled[c]
                 ELSE settled[c] + 1
  IN /\ at[w] = "settle" /\ claim[c] = w
     /\ settled' = [settled EXCEPT ![c] = reached]
     /\ state' = [state EXCEPT ![c] = IF reached = Steps THEN "done" ELSE @]
     /\ claim' = [claim EXCEPT ![c] = None]
     /\ at' = [at EXCEPT ![w] = "prepare"]
     /\ units' = [units EXCEPT ![w] = @ + 1]
     /\ UNCHANGED <<plan, cancelling, page, operation, faults, api>>

\* LostClaim: the lease ran out under the call.
LoseClaim(w) ==
  /\ at[w] = "settle" /\ claim[operation[w]] # w
  /\ Advance(w, page[w])
  /\ UNCHANGED <<database, faults, api>>

\* A transaction of the pass fails: the operation is left as it is.
PassFails(w) ==
  /\ at[w] \in {"prepare", "settle"} /\ Fault
  /\ Advance(w, page[w])
  /\ UNCHANGED <<database, api>>

Crash(w) ==
  /\ at[w] # "idle" /\ Fault
  /\ Advance(w, {})
  /\ UNCHANGED <<database, api>>

Works(w, c) == at[w] \in {"invoke", "settle"} /\ operation[w] = c

\* The lease of a claim nobody works under any more.
Expire(c) ==
  /\ claim[c] # None
  /\ \A w \in Worker : claim[c] = w => ~Works(w, c)
  /\ claim' = [claim EXCEPT ![c] = None]
  /\ UNCHANGED <<plan, state, settled, cancelling, pass, faults, api>>

\* A call that outlives its lease.
Outlive(c) ==
  /\ \E w \in Worker : claim[c] = w /\ Works(w, c)
  /\ Fault
  /\ claim' = [claim EXCEPT ![c] = None]
  /\ UNCHANGED <<plan, state, settled, cancelling, pass, api>>

---------------------------------------------------------------------------
(* A product's request.                                                    *)

Answer(status) ==
  /\ answer' = [status |-> status, code |-> Code(request.kind, status)]
  /\ phase' = "told"

Receive ==
  /\ phase = "new"
  /\ \E asked \in Request : Admitted(asked) /\ request' = asked
  /\ phase' = "begin"
  /\ UNCHANGED <<database, pass, faults, seen, shown, answer>>

\* Opens the session of a submission and comes to the operation of the command,
\* or to none yet.
BeginSubmit ==
  LET asked == request
      c == asked.command
  IN /\ phase = "begin" /\ asked.kind = "submit"
     /\ \/ /\ ~Owns(asked.who)
           /\ Answer("refused")
           /\ UNCHANGED seen
        \/ /\ Owns(asked.who) /\ plan[c] \notin {None, asked.plan}
           /\ Answer("conflict")
           /\ UNCHANGED seen
        \/ /\ Owns(asked.who) /\ plan[c] \in {None, asked.plan}
           /\ seen' = IF plan[c] = None THEN "open" ELSE state[c]
           /\ phase' = "view"
           /\ UNCHANGED answer
     /\ UNCHANGED <<database, pass, faults, request, shown>>

\* The operation exists, its binding is one of the caller's, and the capability
\* is declared by the caller's application.
Owned ==
  /\ plan[request.command] # None
  /\ Listed(request.who)
  /\ Owns(request.who)

BeginOwned ==
  /\ phase = "begin" /\ request.kind \in {"cancel", "get"}
  /\ \/ /\ ~Owned
        /\ Answer("refused")
        /\ UNCHANGED seen
     \/ /\ Owned
        /\ seen' = state[request.command]
        /\ phase' = "view"
        /\ UNCHANGED answer
  /\ UNCHANGED <<database, pass, faults, request, shown>>

\* A second query: the states of the steps, after the row of the operation was
\* read.  The operation may have moved between the two.
View ==
  /\ phase = "view"
  /\ shown' = settled[request.command]
  /\ \/ /\ request.kind = "get"
        /\ Answer("accepted")
     \/ /\ request.kind # "get"
        /\ phase' = "commit"
        /\ UNCHANGED answer
  /\ UNCHANGED <<database, pass, faults, request, seen>>

Mut_CommitBlindly ==
  LET asked == request
      c == asked.command
  IN /\ phase = "commit" /\ asked.kind = "submit"
     /\ IF plan[c] = None
          THEN /\ plan' = [plan EXCEPT ![c] = asked.plan]
               /\ state' = [state EXCEPT ![c] = "open"]
          ELSE UNCHANGED <<plan, state>>
     /\ Answer("accepted")
     /\ UNCHANGED <<settled, cancelling, claim, pass, faults, request, seen, shown>>

\* The operation is durable before the answer is given.  Of two submissions of
\* one command the second finds the first's, or fails on it.
CommitSubmit ==
  LET asked == request
      c == asked.command
  IN /\ phase = "commit" /\ asked.kind = "submit"
     /\ \/ /\ plan[c] = None
           /\ plan' = [plan EXCEPT ![c] = asked.plan]
           /\ state' = [state EXCEPT ![c] = "open"]
           /\ Answer("accepted")
        \/ /\ plan[c] = asked.plan
           /\ Answer("accepted")
           /\ UNCHANGED <<plan, state>>
        \/ /\ plan[c] \notin {None, asked.plan}
           /\ Answer("conflict")
           /\ UNCHANGED <<plan, state>>
     /\ UNCHANGED <<settled, cancelling, claim, pass, faults, request, seen, shown>>

Mut_CancelToldAfterCommit ==
  LET c == request.command
  IN /\ phase = "commit" /\ request.kind = "cancel"
     /\ cancelling' = [cancelling EXCEPT ![c] = @ \/ state[c] = "open"]
     /\ seen' = state[c]
     /\ Answer("accepted")
     /\ UNCHANGED <<plan, state, settled, claim, pass, faults, request, shown>>

\* The view was built before the commit, which would expire what was read.
CommitCancel ==
  LET c == request.command
  IN /\ phase = "commit" /\ request.kind = "cancel"
     /\ cancelling' = [cancelling EXCEPT ![c] = @ \/ state[c] = "open"]
     /\ Answer("accepted")
     /\ UNCHANGED <<plan, state, settled, claim, pass, faults, request, seen, shown>>

\* The query is prepared in a short session, and its owner checked after it.
BeginQuery ==
  /\ phase = "begin" /\ request.kind = "query"
  /\ \/ /\ ~Owns(request.who)
        /\ Answer("invalid_query")
     \/ /\ Owns(request.who)
        /\ phase' = "execute"
        /\ UNCHANGED answer
  /\ UNCHANGED <<database, pass, faults, request, seen, shown>>

\* The provider answers what it likes, with an observation or without.
ExecuteQuery ==
  /\ phase = "execute"
  /\ \E result \in ProviderStatus \cup {"other"}, observed \in BOOLEAN :
       Answer(Told(result, observed))
  /\ UNCHANGED <<database, pass, faults, request, seen, shown>>

\* Any exception: nothing is committed.
CallFails ==
  /\ phase \notin {"new", "told"}
  /\ Answer(IF request.kind = "query" THEN "provider_unavailable" ELSE "unavailable")
  /\ UNCHANGED <<database, pass, faults, request, seen, shown>>

\* What the owner's other requests commit meanwhile.
Elsewhere(c) ==
  /\ \/ /\ plan[c] = None
        /\ \E p \in Plan : plan' = [plan EXCEPT ![c] = p]
        /\ state' = [state EXCEPT ![c] = "open"]
        /\ UNCHANGED cancelling
     \/ /\ state[c] = "open"
        /\ cancelling' = [cancelling EXCEPT ![c] = TRUE]
        /\ UNCHANGED <<plan, state>>
  /\ UNCHANGED <<settled, claim, pass, faults, api>>

Next ==
  \/ \E w \in Worker :
       \/ SelectPage(w) \/ Prepare(w) \/ Invoke(w) \/ InvokeRaises(w)
       \/ Settle(w) \/ LoseClaim(w) \/ PassFails(w) \/ Crash(w)
  \/ \E c \in Command : Expire(c) \/ Outlive(c)
  \/ \E c \in Asked : Elsewhere(c)
  \/ Receive \/ BeginSubmit \/ BeginOwned \/ View \/ CommitSubmit \/ CommitCancel
  \/ BeginQuery \/ ExecuteQuery \/ CallFails

Spec == Init /\ [][Next]_vars

\* The loop of a worker never ends and its calls return; an abandoned lease
\* runs out.
Fairness ==
  /\ \A w \in Worker :
       WF_vars(SelectPage(w) \/ Prepare(w) \/ Invoke(w) \/ InvokeRaises(w)
                 \/ Settle(w) \/ LoseClaim(w))
  /\ \A c \in Command : WF_vars(Expire(c))

FairSpec == Spec /\ Fairness

---------------------------------------------------------------------------
(* Properties.                                                             *)

\* Every variable has the values the code can give it.
TypeOK ==
  /\ plan \in [Command -> Plan \cup {None}]
  /\ state \in [Command -> {"none", "open", "done"}]
  /\ settled \in [Command -> 0..Steps]
  /\ cancelling \in [Command -> BOOLEAN]
  /\ claim \in [Command -> Worker \cup {None}]
  /\ at \in [Worker -> {"idle", "prepare", "invoke", "settle"}]
  /\ page \in [Worker -> SUBSET Command]
  /\ operation \in [Worker -> Command \cup {None}]
  /\ \A w \in Worker : operation[w] = None <=> at[w] = "idle"
  /\ units \in [Worker -> 0..MaxUnits]
  /\ faults \in 0..MaxFaults
  /\ request \in Request
  /\ phase \in {"new", "begin", "view", "commit", "execute", "told"}
  /\ seen \in {"none", "open", "done"}
  /\ shown \in 0..Steps
  /\ answer \in [status : Status, code : Nat]

\* An accepted submission is in the database when the product is told so, and
\* stays there with the plan that was submitted, whatever other submission of
\* the same command ran beside it (provision_api.submit commits, then returns).
AcceptedIsDurable ==
  request.kind = "submit" /\ answer.status = "accepted" =>
    plan[request.command] = request.plan

\* A view that tells an operation is done tells every step of it as settled,
\* though the row and the steps are read one after the other while workers
\* settle (provision_api._view).
TerminalViewIsWhole ==
  answer.status = "accepted" /\ seen = "done" => shown = Steps

\* Two calls for one operation overlap only when a lease ran out under a call:
\* the claim is committed before the connector is called (provisioning.py).
UnitsAreExclusive ==
  \A c \in Command :
    Cardinality({w \in Worker : Works(w, c)}) <= 1 + faults

\* An operation ends, whatever fails beside it and however long the others are:
\* a connector that raises is isolated, and one operation has MaxUnits units of
\* a pass at most (provisioning.py).
HealthyOperationsEnd ==
  \A c \in Command \ (Broken \cup Endless) : state[c] = "open" ~> state[c] = "done"

\* What the product was told, when it was told: an accepted request's view.
ToldViews ==
  IF answer.status = "accepted"
    THEN {[command |-> request.command,
           plan |-> IF request.kind = "submit" THEN request.plan ELSE plan[request.command],
           settled |-> shown, done |-> seen = "done"]}
    ELSE {}

Promise == INSTANCE ProvisioningPromise
             WITH NoPlan <- None,
                  cancelled <- {c \in Command : cancelling[c]},
                  told <- ToldViews

\* Workers that race, outlive their leases or die, and requests that read in
\* several sessions beside them, amount to ProvisioningPromise: each step of an
\* operation settled once, under one plan, and views that are never ahead of it
\* (provisioning.py, provision_api.py).
KeepsPromise == Promise!Spec

---------------------------------------------------------------------------
(* The inductive invariant.                                                *)

\* An operation has a plan from its submission on, a step to settle while it is
\* open, and none afterwards; only an open one has a claim.
OperationsAreWhole ==
  \A c \in Command :
    /\ plan[c] = None <=> state[c] = "none"
    /\ settled[c] = Steps <=> state[c] = "done"
    /\ claim[c] # None => state[c] = "open"

PassIsBounded ==
  \A w \in Worker : at[w] \in {"invoke", "settle"} => units[w] < MaxUnits

\* What a request has read is not taken back.
ReadingsStay ==
  /\ phase = "new" => seen = None
  /\ seen = "done" => state[request.command] = "done"
  /\ seen = "done" /\ phase = "commit" => shown = Steps
  /\ answer.status # "none" => phase = "told"

\* What is shown, and of which operation, is not ahead of the database.
ShownIsSettled ==
  /\ phase \in {"view", "commit"} /\ request.kind \in {"cancel", "get"} =>
       plan[request.command] # None
  /\ phase = "commit" => shown <= settled[request.command]
  /\ answer.status = "accepted" =>
       plan[request.command] # None /\ shown <= settled[request.command]

\* Who works on c without holding its claim.
Astray(c) == {w \in Worker : Works(w, c) /\ claim[c] # w}

StraysAreFaults == \A c \in Command : Cardinality(Astray(c)) <= faults

IInv ==
  /\ TypeOK /\ OperationsAreWhole /\ PassIsBounded /\ ReadingsStay
  /\ ShownIsSettled /\ AcceptedIsDurable /\ TerminalViewIsWhole /\ StraysAreFaults

=============================================================================
