SPECIFICATION LogsSpec
CONSTANTS
  Blocks <- MCBlocks
  OldBlocks <- MCOldBlocks
  Bedrock = 2
  MaxBlocks = 3
  BlocksLimit = 2
  MaxFaults = 1
INVARIANTS
  WholeBlocks
  MessageOfTx
  TokenOfTx
PROPERTIES
  ModernScanned
CHECK_DEADLOCK FALSE
