SPECIFICATION MCSpec
CONSTANTS
  p = p
  q = q
  s1 = s1
  s2 = s2
  Peers = {p, q}
  Subnets = {s1, s2}
  Timestamps <- MCTimestamps
  MaxSubnets = 1
  Period = 3
  MinBetween = 1
  MaxAge = 2
  FaultKinds = {"publish", "subscribe"}
  MaxTime = 4
  MaxOutbox = 2
SYMMETRY MCSymmetry
INVARIANTS
  TopicsMatch
  EventsReproduceCache
  NewPeersHearSoon
  ProvidersAreRoutable
  CacheShowsNewest
  BoundedUnlessPinned
  DeltaUpToPruning
PROPERTY NeverPostponed
