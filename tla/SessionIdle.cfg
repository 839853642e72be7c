\* Two prompts at once.
SPECIFICATION Spec
CONSTANTS
  Callers = {c1, c2}
  MaxRetries = 0
  MaxInputs = 2
  MaxAnswers = 0
CHECK_DEADLOCK FALSE
INVARIANTS
  IdleHasNoRun
