CONSTANTS
  MaxClients = 2
  Clients = {c1, c2}
  MaxQueries = 2
  MaxLate = 0
  MaxRefusals = 1
  None = None
SPECIFICATION Spec
SYMMETRY Symmetry
INVARIANTS TypeOK InStep OwnAnswer AnswersTheAsker ConnectorJoined
CHECK_DEADLOCK FALSE
