SPECIFICATION FairSpec
CONSTANTS
  root = root
  child = child
  Subnets <- MCSubnets
  NoParent = NoParent
  Parent <- MCParent
  Paths = {p1}
  NoPath = NoPath
  Unreadable = Unreadable
  Requests = {r1}
  Capacity = 2
  Configs <- MCConfigs
PROPERTIES
  StoppedRoundEnds
