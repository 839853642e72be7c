\* Two clients with one request at a time, two runtimes.
CONSTANTS
  Conns = {c1, c2}
  MaxInFlight = 1
  MaxRuntimes = 2
SPECIFICATION FairSpec
CHECK_DEADLOCK FALSE
INVARIANTS
  TypeOK
  ExclusiveRuntime
  LiveMapExact
  OperationsRunLive
PROPERTIES
  AbandonedIsDisposed
  CloseReleases
  RequestsAnswered
