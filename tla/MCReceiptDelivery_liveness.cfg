SPECIFICATION FairSpec
CONSTANTS
  Receipt = {1, 2, 3}
  Worker = {w1}
  NoClaim = NoClaim
  Answers <- MCAnswers
  Destinations <- MCDestinations
  BatchSize = 2
  MaxAttempts = 2
  MaxReplays = 0
  MaxFaults = 0
PROPERTIES
  EveryReceiptSettles
\* Every receipt may be settled and every worker idle.
CHECK_DEADLOCK FALSE
