SPECIFICATION CheckSpec
CONSTANTS
  Tokens <- MCToken
  MaxBlock = 3
  MaxMoved = 2
  MaxLost = 1
  MaxPoints = 3
  MaxFaults = 1
PROPERTIES
  LossNotAccepted
CHECK_DEADLOCK FALSE
