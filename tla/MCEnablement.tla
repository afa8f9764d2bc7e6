---------------------------- MODULE MCEnablement ----------------------------
(* Small instances of Enablement. *)
EXTENDS Enablement, TLC

\* The second revision names a credential more than the first.
MCReference == {"key", "secret"}
MCReferences == [plain |-> {"key"}, signed |-> {"key", "secret"}]
MCContent == DOMAIN MCReferences

Symmetry == Permutations(Request) \cup Permutations(Value)

=============================================================================
