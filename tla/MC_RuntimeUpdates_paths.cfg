SPECIFICATION FairSpec
CONSTANTS
  o1 = o1
  o2 = o2
  None = None
  First = First
  Old = Old
  Unread = Unread
  Object = {o1, o2}
  MaxUpdates = 2
  Capacity = 2
  MaxBreak = 1
INVARIANTS NoUpdateMissing
PROPERTIES DeletedIsDispatched StreamDrains TableFollowsRedis
CHECK_DEADLOCK FALSE
