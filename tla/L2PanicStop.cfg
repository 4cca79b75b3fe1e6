CONSTANTS
  empty = empty
  plain = plain
  logging = logging
  creating = creating
  Payloads <- MCPayloads
  Genesis = empty
  Logged <- MCLogged
  Kept <- MCPayloads
  Txd <- MCTxd
  Creating <- MCCreating
  WordSize = 16
  MaxHeight = 3
  MaxForks = 0
  ReorgDepth = 0
  ConfDepth = 0
  HeaderBufferSize = 1
  StartHeight = 0
  MaxAttempts = 2
  MaxFaults = 0
SPECIFICATION L2FairSpec
PROPERTY PanicStops
CHECK_DEADLOCK FALSE
