SPECIFICATION Spec
CONSTANTS
  Installation = {whatsapp}
  NoInstallation = none
  Request = {q1, q2, q3, q4, q5}
  Content <- MCContent
  Reference <- MCReference
  References <- MCReferences
  Value = {v1, v2}
INVARIANTS
  TypeOK
  TrailNamesTheValidated
  OneClaimsEachRevision
  EvidenceOrNothing
  WrittenOnlyAfterRotation
SYMMETRY Symmetry
\* Every request may be answered.
CHECK_DEADLOCK FALSE
