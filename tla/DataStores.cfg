SPECIFICATION DaFairSpec
CONSTANTS
  MaxId = 3
  MaxL1 = 3
  BlocksLimit = 2
  StartDataStoreId = 1
  MaxEpochRange = 3
  MaxFaults = 1
INVARIANTS
  DaTypeOK
  PassedWasAsked
PROPERTIES
  RetrievedInOneTick
  RecordedIsAsked
