SPECIFICATION Spec
CONSTANTS
  Callers = {c1}
  MaxRetries = 1
  MaxInputs = 1
  MaxAnswers = 2
CHECK_DEADLOCK FALSE
INVARIANTS
  ContinueAccepted
