SPECIFICATION Spec
CONSTANTS
  Profile = {p1}
  Initial = {p1}
  Name = {"a", "b"}
  Tab = {t1}
  MaxEdits = 1
  MaxSessions = 2
CHECK_DEADLOCK FALSE
INVARIANTS
  EditsReachEveryTab
