SPECIFICATION KernelSpec

CONSTANTS
    Following = {"locks", "threads", "lists", "ipi", "traps", "heap", "input", "bus", "disk", "volume", "bootline", "menuline", "printf", "load", "array", "arraytest", "bitmap", "bitmaptest", "copy"}
    Processors = {c1, c2}
    Locks = {red, blue}
    NoCpu = Nil
    Nil = Nil
    t1 = t1
    t2 = t2
    t3 = t3
    h1 = h1
    h2 = h2
    c1 = c1
    c2 = c2
    red = red
    blue = blue
    p1 = p1
    p2 = p2
    w1 = w1
    r1 = r1
    d1 = d1
    d2 = d2
    na = na
    nb = nb
    u1 = u1

INVARIANTS
    MutualExclusion
    LevelCounted
    KernelAssertsHold
    ThreadsSound
    
    HeapSound
    
    
    TextRight

PROPERTIES
    ContainersRight
    
    ImplementsDisk

SYMMETRY Symmetry

CHECK_DEADLOCK FALSE
