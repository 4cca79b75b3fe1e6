SPECIFICATION CheckSpec
CONSTANTS
  Tokens <- MCToken
  MaxBlock = 3
  MaxMoved = 2
  MaxLost = 0
  MaxPoints = 3
  MaxFaults = 0
PROPERTIES
  WaitingIsAligned
CHECK_DEADLOCK FALSE
