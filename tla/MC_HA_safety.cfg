SPECIFICATION Spec
CONSTANTS
  a = a
  b = b
  Instance = {a, b}
  Endpoint <- OneEndpoint
  Reliable = {}
  Notifying = {a}
  Timeout = 1
  PeerTimeout = 3
  MaxLag = 1
  MaxGap = 1
INVARIANTS ExclusiveResponsibility LeaseHeld SilenceReleases
PROPERTY NoFreshRevocation
CHECK_DEADLOCK FALSE
