CONSTANTS
    NHart = 4
    MaxCpu = 5
    SlowStart = TRUE
SPECIFICATION Spec

    
PROPERTY
    AllRun
CHECK_DEADLOCK FALSE
