SPECIFICATION MCFairSpec
CONSTANTS
  Worker = {w1, w2}
  Command = {asked, hard}
  Stored = {hard}
  Asked = {asked}
  Broken = {hard}
  Endless = {hard}
  Plan = {p1, p2}
  Steps = 2
  PageSize = 2
  MaxUnits = 1
  MaxFaults = 1
INVARIANTS
  AcceptedIsDurable
  TerminalViewIsWhole
  UnitsAreExclusive
PROPERTIES
  HealthyOperationsEnd
  KeepsPromise
