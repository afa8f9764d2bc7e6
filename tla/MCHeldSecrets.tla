---------------------------- MODULE MCHeldSecrets ----------------------------
(* Small instances of HeldSecrets. *)
EXTENDS HeldSecrets

\* Reference 1 is the destination's credential, in the environment; 2 and 3 are
\* files a connector's revisions may name.
MCReference == 1 .. 3
MCFileBacked == {2, 3}
MCExtra == {1}

=============================================================================
