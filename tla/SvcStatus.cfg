SPECIFICATION Spec
INVARIANTS TypeOK StoppedMeansChildGone
PROPERTIES NeverRunsAgain StopEndsChild
CHECK_DEADLOCK FALSE
