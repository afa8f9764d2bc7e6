--------------------------- MODULE MCProvisioning ---------------------------
(***************************************************************************)
(* Provisioning on a small instance: a stored operation that never ends,  *)
(* failing or going on, and one the product asks about.                     *)
(***************************************************************************)
EXTENDS Provisioning

\* Nothing tells one plan from another until a second one is submitted under
\* the same command, which is never a stored one's here.
MCInit == Init /\ \A c \in Stored : plan[c] = CHOOSE p \in Plan : TRUE

MCFairSpec == MCInit /\ [][Next]_vars /\ Fairness

=============================================================================
