SPECIFICATION MCFairSpec
CONSTANTS
  Console = {c1, c2}
  Connection = {k1, k2}
  Script <- MCScripts
  MaxRuns = 2
  Batcher = {t1, t2}
  Ops = 2
  UserRow = {u1}
  Engines = {"sqlite", "postgres", "mysql"}
  Kinds <- MCKinds
  Serial = TRUE
  Refusing = {"postgres", "mysql"}
INVARIANTS
  SupersededStops
  BadgeIsTrue
PROPERTIES
  NoStaleRows
  EveryRunReturns
  Atomic
  EveryBatchEnds
