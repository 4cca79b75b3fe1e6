CONSTANTS
  quiet = quiet
  logging = logging
  Payloads <- MCPayloads
  Genesis = quiet
  Logged <- MCLogged
  Kept <- MCLogged
  WordSize = 16
  MaxHeight = 2
  MaxForks = 0
  ReorgDepth = 0
  ConfDepth = 0
  HeaderBufferSize = 2
  StartHeight = 0
  MaxAttempts = 2
  MaxFaults = 0
SPECIFICATION L1FairSpec
PROPERTY FailureStops
CHECK_DEADLOCK FALSE
