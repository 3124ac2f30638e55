SPECIFICATION FairSpecAll
CONSTANTS
    Threads = {t1, t2, t3}
    Objects = {"RWLock", "lock", "barrier"}
    MaxPauses = 2
    MaxCalls = 2
INVARIANTS MutualExclusion LockWordsAgree OneHolder NoLostWakeup NobodyLeavesEarly
PROPERTIES ImplementsSharedExclusive ProgressWithoutConflict EveryLockServed EverybodyLeaves
CHECK_DEADLOCK FALSE
