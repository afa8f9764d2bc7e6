---------------------------- MODULE ShadowMirror ----------------------------
(***************************************************************************)
(* The shadow pass (mirror_due_receipts of delivery.py) of several         *)
(* replicas, under one comparison revision: recorded receipts are compared *)
(* at the destination's shadow port, and the verdicts kept as evidence.    *)
(* No receipt is claimed or settled, so receipts have no state here.       *)
(*                                                                         *)
(* The selector and the evidence belong to dotmac_integration: evidence is *)
(* terminal, or transient and sampled again after an interval.  A receipt  *)
(* whose row is gone is passed over; rows are never deleted here.          *)
(*                                                                         *)
(* A definition named Mut_* is the one after it as a plausible bug would   *)
(* have it; nothing uses it but the mutation runs.                         *)
(***************************************************************************)
EXTENDS ProductPort, FiniteSets

CONSTANTS
  Receipt,      \* the recorded receipts, named by their rank in received_at
  Mirror,       \* shadow tasks, one per worker-enabled replica
  Destinations, \* what a receipt's binding may resolve
  BatchSize     \* settings.worker_batch_size

ASSUME ReceiptsAreRanked == Receipt \subseteq Nat
ASSUME DestinationsAreDestinations == Destinations \subseteq Destination
ASSUME BatchSizeIsNatural == BatchSize \in Nat

VARIABLES
  evidence,    \* evidence[r]: the verdicts kept of r, append-only
  fresh,       \* receipts sampled within the retry interval
  reported,    \* receipts the shadow port has reported conclusively on
  pc,          \* where each mirror's pass is
  page,        \* the receipts of its page not reached yet
  current,     \* the receipt it is comparing, as a set of at most one
  verdict      \* what the comparison came to

kept == <<evidence, fresh>>
local == <<pc, page, current, verdict>>
vars == <<reported, kept, local>>

---------------------------------------------------------------------------

\* A report that agrees or disagrees is final; one without a counterpart, and
\* an unreadable comparison, are sampled again.
Verdict == {"terminal", "transient"}

\* A shadow port's answer: its status, whether the body decodes to an object,
\* and the verdict that object states.
ShadowAnswer == [status : {200, 404, 503}, readable : BOOLEAN, states : Verdict]

Mut_ReadingStatus(a) == IF a.status = 200 THEN a.states ELSE "unreadable"

Mut_Reading(a) == IF a.readable THEN a.states ELSE "transient"

\* Anything but a readable 200 is a TransportFailure: an unreadable comparison.
Reading(a) == IF a.status = 200 /\ a.readable THEN a.states ELSE "transient"

TypeOK ==
  /\ evidence \in [Receipt -> SUBSET Verdict]
  /\ fresh \subseteq Receipt
  /\ reported \subseteq Receipt
  /\ pc \in [Mirror -> {"idle", "pass", "asking", "evidence"}]
  /\ page \in [Mirror -> SUBSET Receipt]
  /\ current \in [Mirror -> SUBSET Receipt]
  /\ verdict \in [Mirror -> Verdict \cup {"none"}]

Init ==
  /\ evidence = [r \in Receipt |-> {}]
  /\ fresh = {}
  /\ reported = {}
  /\ pc = [m \in Mirror |-> "idle"]
  /\ page = [m \in Mirror |-> {}]
  /\ current = [m \in Mirror |-> {}]
  /\ verdict = [m \in Mirror |-> "none"]

\* Terminal results are not repeated; transient ones wait for the interval.
Due == {r \in Receipt : "terminal" \notin evidence[r] /\ r \notin fresh}

Oldest(n, S) == {r \in S : Cardinality({s \in S : s < r}) < n}

SelectPage(m) ==
  /\ pc[m] = "idle"
  /\ Oldest(BatchSize, Due) # {}
  /\ page' = [page EXCEPT ![m] = Oldest(BatchSize, Due)]
  /\ pc' = [pc EXCEPT ![m] = "pass"]
  /\ UNCHANGED <<reported, kept, current, verdict>>

EndPass(m) ==
  /\ pc[m] = "pass" /\ page[m] = {}
  /\ pc' = [pc EXCEPT ![m] = "idle"]
  /\ UNCHANGED <<reported, kept, page, current, verdict>>

Reached(m, r) == pc[m] = "pass" /\ r \in page[m] /\ \A s \in page[m] : r <= s

\* The request is addressed and sent.
Ask(m, r) ==
  /\ Reached(m, r)
  /\ \E d \in Destinations : Address(d, "mirror") = "addressed"
  /\ page' = [page EXCEPT ![m] = @ \ {r}]
  /\ current' = [current EXCEPT ![m] = {r}]
  /\ pc' = [pc EXCEPT ![m] = "asking"]
  /\ UNCHANGED <<reported, kept, verdict>>

Drop(m) ==
  /\ pc' = [pc EXCEPT ![m] = "idle"]
  /\ page' = [page EXCEPT ![m] = {}]
  /\ current' = [current EXCEPT ![m] = {}]

\* UnmappedDestinationBinding and EnvelopeNotConstructible are neither a
\* TransportFailure nor a DeliveryError: they leave mirror_due_receipts.
AddressRaises(m, r) ==
  /\ Reached(m, r)
  /\ \E d \in Destinations : Address(d, "mirror") # "addressed"
  /\ Drop(m)
  /\ UNCHANGED <<reported, kept, verdict>>

Compared(m, v) ==
  /\ verdict' = [verdict EXCEPT ![m] = v]
  /\ pc' = [pc EXCEPT ![m] = "evidence"]
  /\ UNCHANGED <<kept, page, current>>

Answered(m, a) ==
  /\ pc[m] = "asking"
  /\ reported' = IF a.status = 200 /\ a.readable /\ a.states = "terminal"
                   THEN reported \cup current[m] ELSE reported
  /\ Compared(m, Reading(a))

NoAnswer(m) ==
  /\ pc[m] = "asking"
  /\ Compared(m, "transient")
  /\ UNCHANGED reported

\* Appended in a transaction of its own.
RecordEvidence(m) ==
  /\ pc[m] = "evidence"
  /\ evidence' = [r \in Receipt |->
                   IF r \in current[m] THEN evidence[r] \cup {verdict[m]} ELSE evidence[r]]
  /\ fresh' = fresh \cup current[m]
  /\ pc' = [pc EXCEPT ![m] = "pass"]
  /\ current' = [current EXCEPT ![m] = {}]
  /\ verdict' = [verdict EXCEPT ![m] = "none"]
  /\ UNCHANGED <<reported, page>>

IntervalElapses(r) ==
  /\ r \in fresh
  /\ fresh' = fresh \ {r}
  /\ UNCHANGED <<reported, evidence, local>>

Next ==
  \/ \E m \in Mirror :
       \/ SelectPage(m) \/ EndPass(m) \/ NoAnswer(m) \/ RecordEvidence(m)
       \/ \E r \in Receipt : Ask(m, r) \/ AddressRaises(m, r)
       \/ \E a \in ShadowAnswer : Answered(m, a)
  \/ \E r \in Receipt : IntervalElapses(r)

Spec == Init /\ [][Next]_vars

\* A mirror about to keep a terminal verdict has it from a report.
VerdictIsReported ==
  \A m \in Mirror :
    pc[m] = "evidence" =>
      /\ verdict[m] \in Verdict
      /\ verdict[m] = "terminal" => current[m] \subseteq reported

---------------------------------------------------------------------------
(* Properties.                                                             *)

\* A receipt counts as conclusively compared only if the shadow port reported
\* so of that receipt: no refusal, outage or unreadable body settles a
\* comparison, and no verdict is kept under another receipt of the page.
TerminalIsReported ==
  \A r \in Receipt : "terminal" \in evidence[r] => r \in reported

IInv == TypeOK /\ VerdictIsReported /\ TerminalIsReported

=============================================================================
