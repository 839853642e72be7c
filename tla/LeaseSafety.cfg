\* Two processes that may stall, crash and find the database busy.
CONSTANTS
  Repos = {r1, r2}
  TTL = 2
  Heartbeat = 1
  MaxStorages = 2
  MaxQueue = 1
  MaxLog = 2
  MaxFaults = 1
  Timely = FALSE
SPECIFICATION Spec
CHECK_DEADLOCK FALSE
INVARIANTS
  FencedLog
  NoWriteAcrossIncarnations
  LostIsLost
PROPERTY
  ImplementsSingleWriter
