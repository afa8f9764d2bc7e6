---------------------------- MODULE ProductPort ----------------------------
(***************************************************************************)
(* The client of the destination application (product_port.py), as pure    *)
(* operators: how a request is addressed, and what the destination's HTTP  *)
(* answer means for the receipt being delivered.                           *)
(*                                                                         *)
(* A typed refusal code is abstracted to the suffix `_classify` looks for: *)
(* only which suffix a code ends with decides anything.                    *)
(*                                                                         *)
(* A definition named Mut_* is the one after it as a plausible bug would   *)
(* have it; nothing uses it but the mutation runs.                         *)
(***************************************************************************)
EXTENDS Integers

\* dotmac_integration.ProductAcceptance, the engine's vocabulary.
Acceptance ==
  {"accepted", "already_applied", "rejected", "unavailable", "indeterminate"}

\* The two acceptances that say the destination HOLDS the consequence.
Holding == {"accepted", "already_applied"}

Mode == {"write", "mirror"}

---------------------------------------------------------------------------
(* The destination's answer.                                               *)

NoCode == "no_code"

\* Codes with a decided meaning, by suffix.
KnownCode ==
  { "unsupported_contract_version", "unknown_capability", "identity_collision",
    "provider_event_identity_collision", "receipt_conflict" }

Code == KnownCode \cup {"unrecognised", NoCode}

AcceptanceByCode ==
  [c \in KnownCode |->
     IF c \in {"unsupported_contract_version", "unknown_capability"}
       THEN "rejected"
       ELSE IF c = "receipt_conflict" THEN "unavailable" ELSE "indeterminate"]

\* The statuses that refuse the body itself.
TerminalStatus == {400, 422}

\* A code with a decided meaning decides. Otherwise a typed 404 is the
\* destination saying it does not accept the capability, an untyped one hides a
\* disabled, quarantined or retired binding, and a 409 goes to a person.
Classify(status, code) ==
  IF code \in KnownCode THEN AcceptanceByCode[code]
  ELSE IF status \in TerminalStatus \/ (status = 404 /\ code # NoCode) THEN "rejected"
  ELSE IF status = 409 THEN "indeterminate"
  ELSE "unavailable"

\* An HttpAnswer reduced to what the mapping reads. `readable` is whether the
\* body decodes to a JSON object, `replayed` what that object says.
HttpAnswer ==
  [status : 200 .. 599, code : Code, readable : BOOLEAN, replayed : BOOLEAN]

Mut_OutcomeUnread(a) ==
  IF a.status = 200 THEN IF a.replayed THEN "already_applied" ELSE "accepted"
  ELSE Classify(a.status, a.code)

\* An unreadable 200 raises TransportFailure, which deliver_receipt turns into
\* `unavailable`; the code of an unreadable refusal is NoCode.
Outcome(a) ==
  IF a.status = 200
    THEN IF ~a.readable THEN "unavailable"
         ELSE IF a.replayed THEN "already_applied" ELSE "accepted"
    ELSE Classify(a.status, IF a.readable THEN a.code ELSE NoCode)

---------------------------------------------------------------------------
(* Addressing.                                                             *)

\* The destination a claim resolved, as `_address` reads it: whether its
\* application is the one this client serves, the activation state of its
\* product-port descriptor ("absent" when none was reconciled), and whether the
\* observation fits the wire document the descriptor selects.
Destination ==
  [ours : BOOLEAN, activation : {"absent", "configured_disabled", "enabled", "other"},
   constructible : BOOLEAN]

Eligible(mode) ==
  IF mode = "mirror" THEN {"configured_disabled", "enabled"} ELSE {"enabled"}

\* Unmapped is decided before the document is built.
Address(d, mode) ==
  IF ~d.ours \/ d.activation \notin Eligible(mode) THEN "unmapped"
  ELSE IF d.constructible THEN "addressed" ELSE "not_constructible"

Mut_UnsentOutcomeRaw(address) == address

\* What `deliver` answers, without sending anything, for a failed address.
UnsentOutcome(address) ==
  IF address = "unmapped" THEN "unavailable" ELSE "rejected"

=============================================================================
