SPECIFICATION LogsSpec
CONSTANTS
  Blocks <- MCBlocks
  OldBlocks <- MCOldBlocks
  Bedrock = 2
  MaxBlocks = 2
  BlocksLimit = 2
  MaxFaults = 0
PROPERTIES
  EveryBlockScanned
CHECK_DEADLOCK FALSE
