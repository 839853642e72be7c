\* Two processes whose event loops are on time: no tick while work is due.
\* One failed transaction or crash; the writes that are queued fail.
CONSTANTS
  Repos = {r1, r2}
  TTL = 3
  Heartbeat = 2
  MaxStorages = 2
  MaxQueue = 1
  MaxLog = 0
  MaxFaults = 1
  Timely = TRUE
SPECIFICATION FairSpec
CHECK_DEADLOCK FALSE
INVARIANTS
  OpenMeansHeld
PROPERTY
  TasksFinish
