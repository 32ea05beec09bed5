SPECIFICATION FairSpec
CONSTANTS
  a1 = a1
  a2 = a2
  v1 = v1
  v2 = v2
  v3 = v3
  x = x
  Agents = {a1, a2}
  Accounts = {v1, v2, v3, x}
  AccountsOf <- MCAccountsOf
  Validators = {v1, v2, v3}
  Quorums <- MCMajority
  Period = 1
  GenesisEpoch = 0
  FaultKinds = {"submit", "lost", "read", "restart", "stop"}
  MaxHeight = 2
  MaxMsgs = 1
  MaxFaults = 1
INVARIANTS
  SameEpochSameMessages
  InOrderExactlyOnce
PROPERTIES
  ImplementsDelivery
  DueIsExecuted
