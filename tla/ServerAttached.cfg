\* One client with two requests in flight, one runtime.
CONSTANTS
  Conns = {c1}
  MaxInFlight = 2
  MaxRuntimes = 1
SPECIFICATION Spec
CHECK_DEADLOCK FALSE
INVARIANT
  AttachedControlsLive
