SPECIFICATION FairSpec
CONSTANTS
  h = h
  s = s
  u = u
  Object = {h, s}
  Host = {h}
  User = {u}
  Contents <- SmallContents
  Bulk = 2
  From = 2
  MaxCrash = 1
INVARIANTS ParentsFirst NothingSkipped EndsAgree
PROPERTIES RewritesNothing AllMigrated
CHECK_DEADLOCK FALSE
