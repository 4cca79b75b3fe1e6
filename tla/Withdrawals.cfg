CONSTANTS
  N = 1
  MaxLog = 4
  MaxProofs = 2
  FraudProofWindows = 1
  MaxFaults = 1
SPECIFICATION WdFairSpec
INVARIANTS
  WdTypeOK
  RelatedMeansRecorded
  StatusMatchesRow
PROPERTIES
  ImplementsStreams
  FinalizationRecorded
