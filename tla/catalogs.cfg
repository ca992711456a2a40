SPECIFICATION MCSpec
CONSTANTS
  Name = {a}
  Listing = {tables}
  Scope = {public, sales}
  Home = public
  Reader = {r1, r2}
  Writer = {w1}
  Conn = {c1}
  Thread = {r1, r2}
  MaxVersion = 1
SYMMETRY Symmetry
INVARIANTS
  AcceptedWasVouched
  RealNameNotRejected
  EntryIsCurrent
  
  SpinnerHasLoad
