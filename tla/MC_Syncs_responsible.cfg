SPECIFICATION SyncsFairSpec
CONSTANTS
  k1 = k1
  k2 = k2
  All = All
  Key = {k1, k2}
  MaxDumps = 2
  MaxBreak = 1
  o1 = o1
  o2 = o2
  o3 = o3
  Object = {o1, o2, o3}
  Existing = {o1, o2}
  MaxRestart = 1
INVARIANTS ReleasedMeansComplete FinishedMeansCurrent FlaggedIsNoted NotedMirrorsColumn
PROPERTIES LastDumpSynced ExistingFlagged
CHECK_DEADLOCK FALSE
