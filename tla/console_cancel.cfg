SPECIFICATION Spec
CONSTANTS
  Console = {c1}
  Connection = {k1, k2}
  Script <- MCScripts
  MaxRuns = 1
INVARIANTS
  CancelStopsScript
