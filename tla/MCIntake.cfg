SPECIFICATION FairSpec
CONSTANTS
  Event <- MCEvent
  Batch = {"first", "second", "large"}
  Events <- MCEvents
  Size <- MCSize
  HelloSize = 1
  Chunk = {2}
  Limit = 3
  Poller = {p1, p2}
  Job = {"good", "broken"}
  Broken = {"broken"}
  Log <- MCLog
  Page = 1
  MaxFaults = 1
INVARIANTS
  AcknowledgedIsRecorded
  BodyIsCapped
  CheckpointIsBacked
  OneContentPerEvent
PROPERTIES
  BatchesAreWhole
  EventsArrive
