SPECIFICATION Spec
PROPERTIES StoppedIsReported
CHECK_DEADLOCK FALSE
