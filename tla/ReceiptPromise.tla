--------------------------- MODULE ReceiptPromise ---------------------------
(***************************************************************************)
(* What the delivery of recorded receipts promises, with no worker, lease, *)
(* page or message in it: an event acknowledged to its provider is owed to *)
(* the destination, its consequence is held only of an event acknowledged, *)
(* and the receipt is called fulfilled only when that consequence is held. *)
(* A receipt given up on may be owed again, by an operator's replay; one   *)
(* fulfilled, or escalated to a person, never is.                          *)
(***************************************************************************)
CONSTANT Receipt

VARIABLES
  standing,  \* standing[r]: where the promise about receipt r stands
  held       \* the receipts whose consequence the destination holds

vars == <<standing, held>>

Standing == {"none", "owed", "fulfilled", "escalated", "given_up"}

TypeOK ==
  /\ standing \in [Receipt -> Standing]
  /\ held \subseteq Receipt

Init ==
  /\ standing = [r \in Receipt |-> "none"]
  /\ held = {}

Move(r, from, to) ==
  /\ standing[r] = from
  /\ standing' = [standing EXCEPT ![r] = to]
  /\ UNCHANGED held

Acknowledge(r) == Move(r, "none", "owed")

\* The consequence may arrive late: after the receipt was given up or escalated.
Land(r) ==
  /\ standing[r] # "none"
  /\ r \notin held
  /\ held' = held \cup {r}
  /\ UNCHANGED standing

Fulfil(r) == r \in held /\ Move(r, "owed", "fulfilled")

Escalate(r) == Move(r, "owed", "escalated")

GiveUp(r) == Move(r, "owed", "given_up")

OweAgain(r) == Move(r, "given_up", "owed")

Next ==
  \E r \in Receipt :
    \/ Acknowledge(r) \/ Land(r) \/ Fulfil(r)
    \/ Escalate(r) \/ GiveUp(r) \/ OweAgain(r)

Spec == Init /\ [][Next]_vars

=============================================================================
