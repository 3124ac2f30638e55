SPECIFICATION SpecAll
CONSTANTS
    WordModulus = 16
    Classes = {"WorkerPool"}
    MaxWorkers = 1
    InitialWorkers = 1
    BusyWaitModes = {FALSE}
    MaxTasks = 4
    MaxClears = 0
    MaxResizes = 0
    MaxAssigns = 0
INVARIANT PausedMeansStarted
CHECK_DEADLOCK FALSE
