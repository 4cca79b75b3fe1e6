CONSTANTS
  quiet = quiet
  logging = logging
  Payloads <- MCPayloads
  Genesis = quiet
  Logged <- MCLogged
  Kept <- MCLogged
  WordSize = 16
  MaxHeight = 3
  MaxForks = 1
  ReorgDepth = 1
  ConfDepth = 0
  HeaderBufferSize = 2
  StartHeight = 0
  MaxAttempts = 2
  MaxFaults = 0
SPECIFICATION L1Spec
INVARIANT StoredStaysOnChain
CHECK_DEADLOCK FALSE
