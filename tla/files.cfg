SPECIFICATION MCSpec
CONSTANTS
  j1 = j1
  j2 = j2
  w1 = w1
  w2 = w2
  Job = {j1, j2}
  Prefix = {}
  Clocked = {j1, j2}
  Daily = {j1}
  Period = 2
  Keep = 1
  Worker = {w1, w2}
  MaxRuns = 2
  MaxTime = 2
  MaxBegun = 3
  Theme = {"dark", "light"}
  Default = "light"
  Binding = {"q"}
  Profile = {"c1", "c2"}
  MaxHand = 2
  MaxSteps = 3
  MaxWork = 4
  Name = {"a", "b", "c"}
  NoName = ""
  Tab = {w1, w2}
  MaxRenames = 1
  MaxBegins = 1
  MaxJobs = 1
  Conns = 2
  MaxStarts = 3
  MaxCalls = 2
  Console = {w1, w2}
  Key = {"k"}
  MaxAsks = 3
  MaxProcs = 2
SYMMETRY Symmetry
CHECK_DEADLOCK FALSE
INVARIANTS
  NewestKept
  
  OpenIsVisible
  NothingUnowned
  NeverRestarted
PROPERTIES
  OnceASlot
  
  
  OffersAreForTheText
