CONSTANTS
  MaxFiles = 6
  MaxArgs = 5
  Hits <- MCHits
  Null = Null
SPECIFICATION Spec
INVARIANTS TypeOK ArgsIntact HandlesExact OutputComplete
PROPERTIES JoinEnds
CHECK_DEADLOCK FALSE
