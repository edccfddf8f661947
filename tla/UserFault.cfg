SPECIFICATION Spec
CONSTANTS
    MAX_PM_SIZE = 3
    CLOCK_ANGLE = 1
    FirstFrame = 3
    NUM_TLB = 1
    SWAP_SLOTS = 4
    INIT_STACKPAGES = 1
    MaxRegionPages = 2
    Programs <- SmallProgram
    MaxSpaces = 1
    MaxTicks = 0
    Threads = {t1}
    Data = {0}
    Zero = 0
    NULL = NULL
    t0 = t0
    t1 = t1
    t2 = t2
INVARIANTS
    UserFaultContained
CHECK_DEADLOCK FALSE
