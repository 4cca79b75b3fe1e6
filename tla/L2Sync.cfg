CONSTANTS
  empty = empty
  plain = plain
  logging = logging
  creating = creating
  Payloads <- MCPayloads
  Genesis = empty
  Logged <- MCLogged
  Kept <- MCPayloads
  Txd <- MCTxd
  Creating <- MCCreating
  WordSize = 16
  MaxHeight = 5
  MaxForks = 1
  ReorgDepth = 1
  ConfDepth = 1
  HeaderBufferSize = 2
  StartHeight = 1
  MaxAttempts = 2
  MaxFaults = 1
SPECIFICATION L2FairSpec
PROPERTIES
  ImplementsIndexedChain
CHECK_DEADLOCK FALSE
