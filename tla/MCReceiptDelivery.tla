------------------------- MODULE MCReceiptDelivery -------------------------
(***************************************************************************)
(* ReceiptDelivery on small instances.                                     *)
(***************************************************************************)
EXTENDS ReceiptDelivery, TLC

\* One answer per class `Outcome` tells apart: recorded, recognised, an
\* unreadable 200, a refused body, a credential gap, a typed and an untyped
\* 404, a collision, a receipt raced at the destination, and an outage.
MCAnswers ==
  LET Ans(s, c, readable, replayed) ==
        [status |-> s, code |-> c, readable |-> readable, replayed |-> replayed]
  IN { Ans(200, NoCode, TRUE, FALSE), Ans(200, NoCode, TRUE, TRUE),
       Ans(200, NoCode, FALSE, FALSE),
       Ans(422, NoCode, TRUE, FALSE), Ans(401, NoCode, TRUE, FALSE),
       Ans(404, "unknown_capability", TRUE, FALSE), Ans(404, NoCode, TRUE, FALSE),
       Ans(409, "identity_collision", TRUE, FALSE),
       Ans(409, "receipt_conflict", TRUE, FALSE), Ans(503, NoCode, FALSE, FALSE) }

MCDestinations ==
  { [ours |-> TRUE, activation |-> "enabled", constructible |-> TRUE],
    [ours |-> TRUE, activation |-> "enabled", constructible |-> FALSE],
    [ours |-> TRUE, activation |-> "configured_disabled", constructible |-> TRUE] }

Symmetry == Permutations(Worker)

=============================================================================
