SPECIFICATION LimitsSpec
CONSTANTS
  peer1 = peer1
  peer2 = peer2
  addr1 = addr1
  addr2 = addr2
  Peers = {peer1, peer2}
  Addresses = {addr1, addr2}
  Period = 2
  Limits = {0, 2, 4}
  CidBytes = 2
  BlockBytes = {4}
  MaxTime = 3
  MaxConnections = 2
  MaxServing = 2
SYMMETRY MCSymmetry
INVARIANTS
  SessionWithinAllowance
