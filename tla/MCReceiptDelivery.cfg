SPECIFICATION Spec
CONSTANTS
  Receipt = {1}
  Worker = {w1, w2}
  NoClaim = NoClaim
  Answers <- MCAnswers
  Destinations <- MCDestinations
  BatchSize = 2
  MaxAttempts = 2
  MaxReplays = 1
  MaxFaults = 1
INVARIANTS
  TypeOK
  NoTwoLiveLeases
  ProcessedIsHeld
  AttemptsAreBounded
PROPERTIES
  OutcomeOfCurrentClaim
  SettledStays
  KeepsPromise
SYMMETRY Symmetry
\* Every receipt may be settled and every worker idle.
CHECK_DEADLOCK FALSE
