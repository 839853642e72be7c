\* Two connections, at most two frames pending, two requests, one change of the list.
CONSTANTS
  Conns = {c1, c2}
  MaxPending = 2
  MaxChanges = 1
  MaxRequests = 2
SPECIFICATION FairSpec
CHECK_DEADLOCK FALSE
INVARIANTS
  TypeOK
  WireOrder
  RevisionReached
  SnapshotsCoverRevision
  WritesAwaited
PROPERTIES
  HandshakeEnds
