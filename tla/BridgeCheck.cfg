SPECIFICATION CheckSpec
CONSTANTS
  Tokens <- MCTokens
  MaxBlock = 3
  MaxMoved = 2
  MaxLost = 1
  MaxPoints = 3
  MaxFaults = 1
INVARIANTS
  CheckTypeOK
PROPERTIES
  SoundIsAligned
  LossIsNoticed
  FirstPassCompletes
CHECK_DEADLOCK FALSE
