SPECIFICATION PagingSpec
CONSTANTS
    MAX_PM_SIZE = 3
    CLOCK_ANGLE = 1
    FirstFrame = 3
    NUM_TLB = 2
    SWAP_SLOTS = 4
    INIT_STACKPAGES = 1
    MaxRegionPages = 2
    Programs <- SeveralPrograms
    MaxSpaces = 1
    MaxTicks = 0
    Threads = {t0}
    Data = {0, 1}
    Zero = 0
    NULL = NULL
    t0 = t0
    t1 = t1
    t2 = t2
INVARIANTS
    TlbCoherent
    PagesKept
CHECK_DEADLOCK FALSE
