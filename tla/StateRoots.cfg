SPECIFICATION RootFairSpec
CONSTANTS
  MaxRoots = 2
  MaxHead = 3
INVARIANTS
  StatusBelowHeads
PROPERTIES
  ImplementsStatusTable
  FinalizedAtLast
