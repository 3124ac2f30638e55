CONSTANTS
    Keys = {0, 1, 2, 3}
    SignedKeys = FALSE
    InsertionMax = 2
    StackSpace = 2
    GapStop = 1
    Base = 2
    Digits = 2
    HashSize = 16
    AnyShape = FALSE
    Calls <- MCCalls
SPECIFICATION Spec
INVARIANTS
    UnitsAreDisjoint
    SortedWhenDone
    QuickStackSuffices
PROPERTIES
    EverybodyReturns
CHECK_DEADLOCK FALSE
