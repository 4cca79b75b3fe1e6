SPECIFICATION ApiFairSpec
CONSTANTS
  MaxRows = 2
  MaxStatus = 1
  Handlers <- MCHandlers
  h1 = h1
  h2 = h2
  Asked <- MCRoots
INVARIANTS
  AnswerTrue
  NullMeansAbsent
PROPERTIES
  AnsweredAtLast
