SPECIFICATION LogsSpec
CONSTANTS
  Blocks <- MCBlocks
  OldBlocks <- MCOldBlocks
  Bedrock = 0
  MaxBlocks = 1
  BlocksLimit = 2
  MaxFaults = 0
INVARIANTS
  OwnExtension
CHECK_DEADLOCK FALSE
