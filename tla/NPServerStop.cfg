CONSTANTS
  MaxClients = 2
  Clients = {c1, c2}
  MaxQueries = 2
  MaxLate = 0
  MaxRefusals = 0
  None = None
SPECIFICATION Spec
SYMMETRY Symmetry
INVARIANTS NoAnswerAfterStop
CHECK_DEADLOCK FALSE
