SPECIFICATION FairSpec
CONSTANTS
  Receipt = {1}
  Worker = {w1}
  NoClaim = NoClaim
  Answers <- MCAnswers
  Destinations <- MCDestinations
  BatchSize = 1
  MaxAttempts = 2
  MaxReplays = 0
  MaxFaults = 1
PROPERTIES
  ExpiredLeaseIsReclaimed
\* Every receipt may be settled and every worker idle.
CHECK_DEADLOCK FALSE
