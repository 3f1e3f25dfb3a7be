CONSTANT
    NumConns = 1
SPECIFICATION Spec
PROPERTIES
    StopReleases
CHECK_DEADLOCK FALSE
