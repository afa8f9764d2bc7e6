--------------------------- MODULE MCShadowMirror ---------------------------
(***************************************************************************)
(* ShadowMirror on small instances.                                        *)
(***************************************************************************)
EXTENDS ShadowMirror

\* A binding prepared for shadowing, one disabled by the product, and one whose
\* observations do not fit the wire document.
MCDestinations ==
  { [ours |-> TRUE, activation |-> "configured_disabled", constructible |-> TRUE],
    [ours |-> TRUE, activation |-> "other", constructible |-> TRUE],
    [ours |-> TRUE, activation |-> "enabled", constructible |-> FALSE] }

=============================================================================
