SPECIFICATION TailFairSpec
CONSTANTS
  m1 = m1
  m2 = m2
  m3 = m3
  e1 = e1
  e2 = e2
  e3 = e3
  Msg = {m1, m2, m3}
  Entity = {e1, e2, e3}
  Owner <- Notified
  BufSize = 1
INVARIANTS PendingCountsState DeletedIsWritten
PROPERTIES KeepsContract EveryEventDeleted StopsUnlessStuck
CHECK_DEADLOCK FALSE
