SPECIFICATION Spec
CONSTANTS
    MAX_PM_SIZE = 4
    CLOCK_ANGLE = 1
    FirstFrame = 4
    NUM_TLB = 1
    SWAP_SLOTS = 6
    INIT_STACKPAGES = 1
    MaxRegionPages = 1
    Programs <- TinyProgram
    MaxSpaces = 2
    MaxTicks = 1
    Threads = {t1, t2}
    Data = {0}
    Zero = 0
    NULL = NULL
    t0 = t0
    t1 = t1
    t2 = t2
INVARIANTS
    NoSpinOnOwnLock
CHECK_DEADLOCK FALSE
