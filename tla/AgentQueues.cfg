\* Three messages through either queue in either mode, no tools, one exception.
CONSTANTS
  UserMsgs = {u1, u2, u3}
  MaxCalls = 0
  MaxTurns = 0
  MaxFailures = 1
SPECIFICATION Spec
SYMMETRY Symmetry
CHECK_DEADLOCK FALSE
INVARIANTS
  MessagesConserved
  QueueOrder
