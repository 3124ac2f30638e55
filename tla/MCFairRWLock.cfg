SPECIFICATION FairSpec
CONSTANTS
    Threads = {t1, t2, t3}
    LockIds = 3
INVARIANTS MutualExclusion LockWordsAgree ServedInTicketOrder
PROPERTY NoStarvation
