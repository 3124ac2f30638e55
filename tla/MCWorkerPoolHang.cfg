SPECIFICATION FairSpecAll
CONSTANTS
    WordModulus = 16
    Classes = {"WorkerPool"}
    MaxWorkers = 1
    InitialWorkers = 1
    BusyWaitModes = {FALSE}
    MaxTasks = 1
    MaxClears = 0
    MaxResizes = 0
    MaxAssigns = 0
PROPERTY FlushReachesWorkers
CHECK_DEADLOCK FALSE
