SPECIFICATION LifeFairSpec
CONSTANTS
  Workers <- MCWorkers
  MaxSignals = 2
CHECK_DEADLOCK FALSE
PROPERTY
  StopCompletes
