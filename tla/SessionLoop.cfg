SPECIFICATION Spec
CONSTANTS
  Callers = {c1, c2}
  MaxRetries = 1
  MaxInputs = 3
  MaxAnswers = 2
SYMMETRY Symmetry
CONSTRAINT NoRaceYet
CHECK_DEADLOCK FALSE
INVARIANTS
  NoIntruder
  SettledIsIdle
  ContextFromSession
  OverflowOnce
  AbortIsHeard
