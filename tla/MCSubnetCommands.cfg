SPECIFICATION CommandsSpec
CONSTANTS
  Subnets <- MCSubnets
  Root = "root"
  ParentOf <- MCParentOf
  Urls <- MCUrls
  NetworkAt <- MCNetworkAt
  Accounts = {"alice", "bob"}
  Gateways = {"g1", "g2"}
  IdAddresses = {"g1"}
  Configs <- MCConfigs
  Calls = {"c1"}
INVARIANTS RightNetwork OneSnapshot IncludedOnce
