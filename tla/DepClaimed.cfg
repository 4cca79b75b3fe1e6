SPECIFICATION DepSpec
CONSTANTS
  N = 2
  MaxL1 = 2
  MaxL2 = 2
  BlocksLimit = 1
  MaxIdle = 1
  MaxFaults = 1
INVARIANT
  ClaimedWasRelayed
