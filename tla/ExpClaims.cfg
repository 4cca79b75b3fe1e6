SPECIFICATION ExpSpec
CONSTANTS
  Withdrawals = {w1, w2}
  MaxBlock = 2
  Amounts = {}
  Word = 4
  Patience = 1
  MaxHeight = 1
  MaxFaults = 0
PROPERTIES
  ClaimsCounted
CHECK_DEADLOCK FALSE
