SPECIFICATION TablesSpec
CONSTANTS
  n1 = n1
  n2 = n2
  a = a
  b = b
  Node = {n1, n2}
  LastId = 2
  Stages = 2
  ReadCount = 1
  MaxCrash = 1
  Object = {a, b}
  ObjectOf <- ObjectOfEvent
  Ending = {2}
  Category = {"comment", "flapping"}
  Options <- SomeOptions
  HistoryDays = 0
  Old = {a, b}
  Limit = 1
  MaxDelete = 1
INVARIANTS NothingLost DependenciesFirst EndedUnlessOvertaken CleanupComplete OnlyDeletedRowsMissing
PROPERTY EverythingSynced
CHECK_DEADLOCK FALSE
