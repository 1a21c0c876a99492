SPECIFICATION FairSpec
CONSTANTS
  p1 = p1
  p2 = p2
  Pipeline = {p1, p2}
  Inputs <- TwoInputs
  MinAge = 2
  Patience = 1
INVARIANTS OrderedUnlessLate ForwardedAfterCallback ClosedOnceAndLast
PROPERTIES EverythingForwarded StopsUnlessBlocked
CHECK_DEADLOCK FALSE
