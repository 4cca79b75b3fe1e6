CONSTANTS
  quiet = quiet
  logging = logging
  Payloads <- MCPayloads
  Genesis = quiet
  Logged <- MCLogged
  Kept <- MCLogged
  WordSize = 16
  MaxHeight = 4
  MaxForks = 1
  ReorgDepth = 1
  ConfDepth = 1
  HeaderBufferSize = 2
  StartHeight = 0
  MaxAttempts = 2
  MaxFaults = 1
SPECIFICATION L1FairSpec
INVARIANTS
  SyncTypeOK
  StoreIsPrefix
  EventsExactlyOnce
PROPERTIES ImplementsIndexedChain FinalBlocksIndexed CloseReturns
CHECK_DEADLOCK FALSE
