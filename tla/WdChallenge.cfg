CONSTANTS
  N = 1
  MaxLog = 3
  MaxProofs = 1
  FraudProofWindows = 2
  MaxFaults = 0
SPECIFICATION WdSpec
PROPERTIES ChallengeBeforeClaim
