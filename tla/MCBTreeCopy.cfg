SPECIFICATION Spec
CONSTANTS
    Values = {a}
    Default = Default
    KeyBits = 2
    PointerBits = 2
    MaxEntries = 3
INVARIANT SizeCountsTheElements
CHECK_DEADLOCK FALSE
