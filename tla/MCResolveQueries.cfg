SPECIFICATION FairQueriesSpec
CONSTANTS
  p1 = p1
  p2 = p2
  r1 = r1
  r2 = r2
  q1 = q1
  q2 = q2
  Peers = {p1, p2}
  Requests = {r1, r2}
  QueryIds = {q1, q2}
  MaxPeersPerQuery = 1
INVARIANTS
  OneQueryOrOneAnswer
  AskedAllBeforeError
  ConnectedFirst
PROPERTY
  EveryRequestAnswered
CHECK_DEADLOCK FALSE
