CONSTANTS
  FileEvents = {f1, f2}
  ProcEvents = {p1}
  MaxConnects = 2
SPECIFICATION Spec
INVARIANTS TypeOK
PROPERTIES UnloadLeavesNoNotify ConnectFindsNoPort FirstClientIsServed UnloadEnds
CHECK_DEADLOCK FALSE
