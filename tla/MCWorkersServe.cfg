SPECIFICATION FairSpecAll
CONSTANTS
    WordModulus = 16
    Classes = {"WorkerPool", "WorkerThread"}
    MaxWorkers = 1
    InitialWorkers = 1
    BusyWaitModes = {TRUE}
    MaxTasks = 5
    MaxClears = 0
    MaxResizes = 1
    MaxAssigns = 0
PROPERTIES BusyWorkerServes FlushIsServed
CHECK_DEADLOCK FALSE
