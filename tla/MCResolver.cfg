SPECIFICATION ResolverSpec
CONSTANTS
  p = p
  q = q
  Peers = {p, q}
  Subnets = {}
  Timestamps <- MCTimestamps
  MaxSubnets = 1
  Period = 1
  MinBetween = 1
  MaxAge = 0
  FaultKinds = {}
  MaxTime = 2
  MaxOutbox = 1
  Static = {p}
  TargetConnections = 1
  TableSize = 1
  MaxConnections = 2
  MaxDiscoveryOutbox = 1
INVARIANTS
  KnownAreRoutable
  LookedUpOnce
  ConnectionsCounted
  BufferedPeersSurvive
