SPECIFICATION MCSpec
CONSTANTS
  Requests = {r1, r2}
  Paths = {p1, p2}
  NoPath = NoPath
  Unreadable = Unreadable
  Capacity = 1
  MaxEdits = 1
  Configs = {c1, c2}
INVARIANTS
  FreshConfig
  ReturnsDrained
  ToldWhatHappened
PROPERTIES
  ProcessEnds
CHECK_DEADLOCK FALSE
