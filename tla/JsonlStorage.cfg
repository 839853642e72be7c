\* Three lines on two lanes, two crashes, a failed append, forks at any time.
CONSTANTS
  Ids = {i1, i2, i3}
  Lanes = {main, side}
  Main = main
  Root = Root
  Absent = Absent
  MaxLines = 3
  MaxCrashes = 2
  MaxFailures = 1
SPECIFICATION Spec
SYMMETRY Symmetry
CHECK_DEADLOCK FALSE
INVARIANTS
  ReopenComplete
  ForkFaithful
