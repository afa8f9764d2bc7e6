SPECIFICATION FairSpec
CONSTANTS
  PageSize = 2
  Stuck = {"connector-provisioning", "connector-polling"}
INVARIANTS
  TypeOK
  LoopsSurvive
  OnePassPerLoop
PROPERTIES
  StopCompletes
  LoopsComeBack
\* A stopped process has nothing left to do.
CHECK_DEADLOCK FALSE
