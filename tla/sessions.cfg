SPECIFICATION MCSpec
CONSTANTS
  Profile = {p1, p2}
  Initial = {p1}
  Name = {"a", "b"}
  Tab = {t1, t2}
  MaxEdits = 1
  MaxSessions = 2
  MaxCount = 2
  MaxRestarts = 1
  Query = {t1, t2}
  MaxCells = 2
  MaxText = 1
  MaxHand = 1
  ColumnName = {"a", "b", "c"}
  NoColumnName = ""
  MaxFormEdits = 3
  MaxApplies = 1
SYMMETRY Symmetry
CHECK_DEADLOCK FALSE
INVARIANTS
  OwnIsCurrent
  NoneForgotten
  DotIsTrue
  NobodyLooks
  NoFalseRestart
  DrawnIsOwn
  RefreshingEnds
  
  LossIsFlagged
  HalfwayRollsBack
  PlanMigrates
