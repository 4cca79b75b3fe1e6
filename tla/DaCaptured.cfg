SPECIFICATION DaSpec
CONSTANTS
  MaxId = 3
  MaxL1 = 3
  BlocksLimit = 2
  StartDataStoreId = 1
  MaxEpochRange = 3
  MaxFaults = 0
INVARIANT
  AllCaptured
