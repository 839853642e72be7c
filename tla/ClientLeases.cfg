\* Two leases, three requests of their own, a reconnection, a failed command or a removal.
CONSTANTS
  Leases = {l1, l2}
  NoLease = NoLease
  MaxRequests = 3
  MaxConnects = 2
  MaxRevision = 1
  MaxRuntimes = 2
  MaxFaults = 1
SPECIFICATION FairSpec
CHECK_DEADLOCK FALSE
INVARIANTS
  ExclusiveAlone
  SerialControl
  AttachedWhileLeased
  LeaseOfConnection
PROPERTY
  CallsSettle
