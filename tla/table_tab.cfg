SPECIFICATION MCSpec
CONSTANTS
  Filter = {"wide", "narrow"}
  Size = 5
  Rows <- MCRows
  PageSize = 2
  Cap = 4
  MaxShown = 4
  Paging = {"keyset", "offset"}
  Request = {q1, q2}
  Stored = {s1}
  Added = {n1}
  MaxCopies = 2
  Closable = TRUE
  WriteMayFail = TRUE
  ReloadMayFail = TRUE
  Catalogs <- BuilderCatalogs
  ForeignKeys <- BuilderKeys
  Word <- BuilderWords
  Function <- BuilderFunctions
  Kind = {"INNER JOIN", "CROSS JOIN"}
  MaxJoins = 2
  MaxPicks = 2
  MaxEdits = 5
  MaxReopened = 1
SYMMETRY Symmetry
CHECK_DEADLOCK FALSE
INVARIANTS
  OneWindow
  NextFollows
  NotStuck
  
  ScreenIsTable
  StatementResolves
PROPERTIES
  AddedOnce
  SurvivorsKeepPicks
  ReopenKeepsQuery
