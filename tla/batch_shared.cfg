SPECIFICATION Spec
CONSTANTS
  Thread = {t1, t2}
  Ops = 2
  UserRow = {u1}
  Engines = {"sqlite"}
  Kinds <- Saves
  Serial = FALSE
  Refusing = {}
INVARIANTS
  AllOrNothing
