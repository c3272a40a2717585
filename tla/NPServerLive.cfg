CONSTANTS
  MaxClients = 2
  Clients = {c1, c2}
  MaxQueries = 1
  MaxLate = 1
  MaxRefusals = 0
  None = None
SPECIFICATION Spec
PROPERTIES SlotRecycled StopEndsLoops
CHECK_DEADLOCK FALSE
