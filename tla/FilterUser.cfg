CONSTANTS
  MaxEvents = 2
  MaxFaults = 2
SPECIFICATION UserSpec
INVARIANTS UserTypeOK ThreadOutlivesCalm RoutineHasItsPort ExitLeavesNothing
PROPERTIES KeepsPromise EventuallyStored StopEndsThread StopJoins
CHECK_DEADLOCK FALSE
