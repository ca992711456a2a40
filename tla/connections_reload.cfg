SPECIFICATION Spec
CONSTANTS
  Theme = {"dark", "light"}
  Default = "light"
  Binding = {"q"}
  Profile = {"c1", "c2"}
  MaxHand = 2
  MaxSteps = 3
CHECK_DEADLOCK FALSE
INVARIANTS
  SavedIsLoaded
