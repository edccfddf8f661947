SPECIFICATION LiveFairSpec

CONSTANTS
    Following = {"semaphore", "output", "requests", "panic", "boot", "signals", "queues", "clock"}
    Threads = {t1, t2, t3}
    Nobody = Nil
    Initial = 1
    MaxCount = 3
    Nil = Nil
    t1 = t1
    t2 = t2
    t3 = t3
    h1 = h1
    h2 = h2
    c1 = c1
    c2 = c2
    c3 = c3
    p1 = p1
    w1 = w1
    w2 = w2
    d1 = d1

INVARIANTS
    NoLostWakeup
    OutputRight
    
    PicksUnreferenced

PROPERTIES
    IsSemaphore
    EveryoneServed
    

CHECK_DEADLOCK FALSE
