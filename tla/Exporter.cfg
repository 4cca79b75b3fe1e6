SPECIFICATION ExpSpec
CONSTANTS
  Withdrawals = {w1}
  MaxBlock = 3
  Amounts = {3}
  Word = 4
  Patience = 2
  MaxHeight = 2
  MaxFaults = 1
INVARIANTS
  CountedOnce
PROPERTIES
  DepositsCaughtUp
  StallNoticed
CHECK_DEADLOCK FALSE
