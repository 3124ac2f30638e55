SPECIFICATION Spec
CONSTANTS
    HeapBlocks = 12
    PageBlocks = 4
    Gap = 0
    MaxNumBytes = 12
    CacheBlocks = 4
    Needs = {2}
    MaxLive = 6
INVARIANT MunmapSucceeds
