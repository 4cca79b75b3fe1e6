SPECIFICATION DaFairSpec
CONSTANTS
  MaxId = 4
  MaxL1 = 2
  BlocksLimit = 2
  StartDataStoreId = 3
  MaxEpochRange = 2
  MaxFaults = 0
PROPERTY
  ConfiguredStartAsked
