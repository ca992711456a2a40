SPECIFICATION Spec
CONSTANTS
  j1 = j1
  j2 = j2
  w1 = w1
  w2 = w2
  Job = {j1}
  Prefix = {}
  Clocked = {j1}
  Daily = {j1}
  Period = 3
  Keep = 1
  Worker = {w1, w2}
  MaxRuns = 2
  MaxTime = 2
  MaxBegun = 2
CHECK_DEADLOCK FALSE
INVARIANTS
  NoStorm
