SPECIFICATION FilesSpec

CONSTANTS
    Following = {"file", "volume", "emulated", "transfer", "calls", "callers", "devices", "vnodes"}
    Nil = Nil
    t1 = t1
    na = na
    nb = nb
    f1 = f1
    root = root
    u1 = u1
    u2 = u2

INVARIANTS
    BlocksAccounted
    SyncedSurvives
    EmufsRight
    

PROPERTIES
    
    IsByteFile

SYMMETRY Symmetry
