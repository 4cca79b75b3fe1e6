SPECIFICATION CheckSpec
CONSTANTS
  Tokens <- MCTokens
  MaxBlock = 3
  MaxMoved = 2
  MaxLost = 0
  MaxPoints = 3
  MaxFaults = 1
PROPERTIES
  EveryTokenChecked
CHECK_DEADLOCK FALSE
