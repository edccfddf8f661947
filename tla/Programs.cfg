SPECIFICATION ProgramsFairSpec

CONSTANTS
    Following = {"sort", "sfsck", "release", "synch", "threadtests", "fstest", "badcall", "badanswer", "shell", "malloc", "longlong"}

INVARIANTS
    SortsRight
    
    TestsRight
    

PROPERTIES
    ShellRight
    ProgramsEnd

CHECK_DEADLOCK FALSE
