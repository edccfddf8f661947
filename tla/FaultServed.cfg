SPECIFICATION FairSpec
CONSTANTS
    MAX_PM_SIZE = 3
    CLOCK_ANGLE = 1
    FirstFrame = 3
    NUM_TLB = 1
    SWAP_SLOTS = 6
    INIT_STACKPAGES = 1
    MaxRegionPages = 1
    Programs <- TinyProgram
    MaxSpaces = 2
    MaxTicks = 0
    Threads = {t1, t2}
    Data = {0}
    Zero = 0
    NULL = NULL
    t0 = t0
    t1 = t1
    t2 = t2
INVARIANTS
    TypeOK
    HandsApart
    OneReplacement
    OnePlace
    
    
PROPERTIES
    FaultServed
CHECK_DEADLOCK FALSE
