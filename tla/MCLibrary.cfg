SPECIFICATION LibrarySpec
CONSTANTS
    Keys = {0, 1, 2, 3}
    Values = {a, b}
    Blank = Blank
    Ways = 3
    WordModulus = 16
    MaxRequest = 3
    MaxSlots = 5
    Clients = {c1, c2}
    Servers = {s1, s2}
    Hosts = {1, 2}
    Packets = {1}
    Addresses = {near, far}
    TreeValues = {a}
    KeyBits = 2
    PointerBits = 2
    MaxEntries = 3
    bits_per_bucket = 2
    Slack = 1
    MaxBits = 6
    Unwritten = Unwritten
    NumChunks = 4
    BlockSize = 2
    mMaxAllocSize = 5
    Spots = {p1, p2, p3}
    Roots = {r1, r2}
    Objects = {o1, o2, o3}
    Null = Null
    Functions = {f1, f2, f3}
    Small = {small}
    Large = {large}
    Blocks = {b1, b2}
    None = None
    Names <- NamePairs
    Settings <- OptionSettings
    Words <- LineWords
    MaxArgs = 2
    MaxWords = 4
INVARIANTS
    RowsAreTheOrderOfUse ListAgreesWithMatrix IndexedHitsAreCurrent KeepsFifoOrder
    NetworkIsOwned ClientListIsCurrent TreeIsADictionary SetHoldsItsBits
    MemoryIsAccountedFor ObjectsAreOwnedOnce CallsWhatItWasGiven AcceptedValuesFit
PROPERTY MatrixImplementsLRU
CHECK_DEADLOCK FALSE
