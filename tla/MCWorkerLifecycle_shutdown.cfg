SPECIFICATION Spec
CONSTANTS
  PageSize = 1
  Stuck = {}
INVARIANTS
  IdleWhenDisposed
\* A stopped process has nothing left to do.
CHECK_DEADLOCK FALSE
