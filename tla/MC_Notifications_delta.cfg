SPECIFICATION HookSpec
CONSTANTS
  i1 = i1
  i2 = i2
  o = o
  x = x
  y = y
  None = None
  Nil = Nil
  Id = {i1, i2}
  OtherId = {o}
  Value = {x, y}
  State <- SomeStates
  IsService = TRUE
SYMMETRY Symmetry
INVARIANTS TurnsActualIntoDesired TouchesOnlyDifferences IncidentsFollowStates
PROPERTIES ClosesOnlyObsolete
CHECK_DEADLOCK FALSE
