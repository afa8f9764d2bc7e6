SPECIFICATION Spec
CONSTANTS
  Receipt = {1, 2, 3}
  Mirror = {m1, m2}
  Destinations <- MCDestinations
  BatchSize = 2
INVARIANTS
  TypeOK
  TerminalIsReported
\* Every receipt may be compared for good.
CHECK_DEADLOCK FALSE
