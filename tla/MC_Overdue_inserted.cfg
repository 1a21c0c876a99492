SPECIFICATION OverdueFairSpec
CONSTANTS
  o1 = o1
  o2 = o2
  o3 = o3
  Object = {o1, o2, o3}
  Existing = {o1}
  MaxRestart = 1
PROPERTY OverdueFlagged
CHECK_DEADLOCK FALSE
