SPECIFICATION FairSpec
CONSTANTS
  a = a
  b = b
  Instance = {a, b}
  Endpoint <- TwoNodes
  Reliable = {a}
  Notifying = {}
  Timeout = 1
  PeerTimeout = 1
  MaxLag = 1
  MaxGap = 2
PROPERTY SettlesOnOne
CHECK_DEADLOCK FALSE
