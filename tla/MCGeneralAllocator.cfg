SPECIFICATION Spec
CONSTANTS
    HeapBlocks = 14
    PageBlocks = 1
    Gap = 1
    MaxNumBytes = 12
    CacheBlocks = 3
    Needs = {2, 3, 4}
    MaxLive = 4
INVARIANTS BlocksAreConserved NeighboursAreMerged PoolsAreTracked BudgetIsExact
