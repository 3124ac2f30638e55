SPECIFICATION SpecAll
CONSTANTS
    WordModulus = 16
    Classes = {"WorkerPool", "WorkerThread"}
    MaxWorkers = 2
    InitialWorkers = 2
    BusyWaitModes = {TRUE, FALSE}
    MaxTasks = 4
    MaxClears = 1
    MaxResizes = 1
    MaxAssigns = 1
INVARIANTS TasksStartOnceInOrder ThreadReadyMeansDone FlushedTasksAreNotDropped
PROPERTY RunsOverOnlyWrapped
CHECK_DEADLOCK FALSE
