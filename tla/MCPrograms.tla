----------------------------- MODULE MCPrograms -----------------------------
(***************************************************************************)
(* User programs and the kernel's test code for TLC: each behaviour follows*)
(* one of the parts that the configuration names, as in MCKernel.          *)
(***************************************************************************)
EXTENDS Integers, Sequences, FiniteSets

CONSTANT Following    \* the parts that the run follows

VARIABLES
    part,     \* the part a behaviour follows
    v1, v2, v3, v4, v5, v6, v7, v8, v9, v10, v11, v12, v13, v14, v15, v16, v17, v18    \* its variables, in the order of its module

programsvars ==
    <<part, v1, v2, v3, v4, v5, v6, v7, v8, v9, v10, v11, v12, v13, v14, v15, v16, v17, v18>>

\* The variables a part does not use.
Off18 == TRUE
Same18 == UNCHANGED part
Off13 == v14 = 0 /\ v15 = 0 /\ v16 = 0 /\ v17 = 0 /\ v18 = 0 /\ Off18
Same13 == UNCHANGED <<v14, v15, v16, v17, v18>> /\ Same18
Off12 == v13 = 0 /\ Off13
Same12 == UNCHANGED <<v13>> /\ Same13
Off11 == v12 = 0 /\ Off12
Same11 == UNCHANGED <<v12>> /\ Same12
Off9 == v10 = 0 /\ v11 = 0 /\ Off11
Same9 == UNCHANGED <<v10, v11>> /\ Same11
Off8 == v9 = 0 /\ Off9
Same8 == UNCHANGED <<v9>> /\ Same9
Off6 == v7 = 0 /\ v8 = 0 /\ Off8
Same6 == UNCHANGED <<v7, v8>> /\ Same8
Off3 == v4 = 0 /\ v5 = 0 /\ v6 = 0 /\ Off6
Same3 == UNCHANGED <<v4, v5, v6>> /\ Same6

\* What is typed to the shell: programs in the foreground and the background, each builtin, wrong
\* uses, an empty line, and lines that are corrected or do not fit.
ShellLines ==
    {<<"prog">>, <<"prog", " ", "&">>, <<"wait">>, <<"wait", " ", "1">>, <<"wait", " ", "3">>,
     <<"exit">>, <<"cd">>, <<" ">>, <<"control", "wait", "backspace", "prog", "&">>,
     <<"wait", " ", "1", " ", "2">>}
-----------------------------------------------------------------------------
\* psort: two processes, five keys out of five values; a fork or a file may fail.
Psort == INSTANCE ParallelSort WITH
    numprocs <- 2, numkeys <- 4, RANDOM_MAX <- 4, WORKNUM <- 2, Faults <- {"fork", "io"},
    phase <- v1, mpc <- v2, next <- v3, bad <- v4, st <- v5, pos <- v6, work <- v7, taken <- v8,
    keys <- v9, bins <- v10, merged <- v11, output <- v12, valid <- v13, exists <- v14,
    checksum <- v15, result <- v16, failed <- v17, asserted <- v18
ASSUME Psort!SizeAssumption
PsortInit == part = "sort" /\ Psort!Init /\ Off18
PsortNext == part = "sort" /\ Psort!Next /\ Same18

\* sfsck on volumes with wrong bitmaps, names and link counts.
Fsck == INSTANCE Sfsck WITH
    Damage <- {"bitmap", "names", "links"}, MaxDepth <- 4,
    disk <- v1, bitmap <- v2, found <- v3, tofree <- v4, inodes <- v5, ninodes <- v6,
    badness <- v7, unique <- v8, stack <- v9, pass <- v10, pc <- v11
ASSUME Fsck!SfsckAssumption
FsckInit == part = "sfsck" /\ Fsck!Init /\ Off11
FsckNext == part = "sfsck" /\ Fsck!Next /\ Same11

\* sfsck on volumes with blocks past the end of files, blocks of two owners, wrong names and types.
Fsck2 == INSTANCE Sfsck WITH
    Damage <- {"eof", "shared", "names", "types"}, MaxDepth <- 4,
    disk <- v1, bitmap <- v2, found <- v3, tofree <- v4, inodes <- v5, ninodes <- v6,
    badness <- v7, unique <- v8, stack <- v9, pass <- v10, pc <- v11
Fsck2Init == part = "release" /\ Fsck2!Init /\ Off11
Fsck2Next == part = "release" /\ Fsck2!Next /\ Same11

\* semtest, locktest and cvtest with three threads, one after another.
Synch == INSTANCE SynchTests WITH
    NTHREADS <- 3, NLOCKLOOPS <- 1, NCVLOOPS <- 2,
    Scripts <- {<<"sem", "sem">>, <<"sem", "lock">>, <<"cv">>},
    script <- v1, pc <- v2, i <- v3, tpc <- v4, loop <- v5, testsem <- v6, donesem <- v7,
    testval1 <- v8, testval2 <- v9, testval3 <- v10, printed <- v11, failed <- v12, toofast <- v13
ASSUME Synch!SizeAssumption
SynchInit == part = "synch" /\ Synch!Init /\ Off13
SynchNext == part = "synch" /\ Synch!Next /\ Same13

\* threadtest, threadtest2 and threadtest3 with few threads.
Thread == INSTANCE ThreadTests WITH
    NTHREADS <- 3, Sleepalots <- 2, Computes <- 1, Sleeps <- 2, COMPUTE_ITERS <- 1,
    WAKER_WAKES <- 2, NWAITCHANS <- 2, NMATING <- 1,
    Scripts <- {<<"tt3", "tt3">>, <<"loud", "quiet", "loud">>, <<"whale", "quiet">>},
    script <- v1, pc <- v2, joined <- v3, tpc <- v4, left <- v5, chan <- v6, tsem <- v7,
    donesem <- v8, wakersem <- v9, wakerdone <- v10, sawdone <- v11
ASSUME Thread!SizeAssumption
ThreadInit == part = "threadtests" /\ Thread!Init /\ Off11
ThreadNext == part = "threadtests" /\ Thread!Next /\ Same11

\* The file system tests: two threads, two chunks, at most one fault.
Fs == INSTANCE FsTest WITH
    NTHREADS <- 2, NCHUNKS <- 2, NCREATES <- 2, Letters <- 2, Kinds <- {1, 2, 3, 4, 5},
    MaxFaults <- 1,
    kind <- v1, dir <- v2, data <- v3, op <- v4, chunk <- v5, file <- v6, threadsem <- v7,
    faults <- v8, failed <- v9
ASSUME Fs!FsTestAssumption
FsInit == part = "fstest" /\ Fs!Init /\ Off9
FsNext == part = "fstest" /\ Fs!Next /\ Same9

\* badcall on a kernel of each assignment.
Call == INSTANCE BadCall WITH
    Levels <- 0 .. 5, MaxWrong <- 0,
    level <- v1, objs <- v2, req <- v3, queue <- v4, fresh <- v5, op <- v6, ti <- v7, rest <- v8,
    last <- v9, said <- v10, slips <- v11, wrong <- v12
ASSUME Call!BadCallAssumption
CallInit == part = "badcall" /\ Call!Init /\ Off12
CallNext == part = "badcall" /\ Call!Next /\ Same12

\* badcall on a kernel that has all calls and answers one of them wrongly.
Answer == INSTANCE BadCall WITH
    Levels <- {5}, MaxWrong <- 1,
    level <- v1, objs <- v2, req <- v3, queue <- v4, fresh <- v5, op <- v6, ti <- v7, rest <- v8,
    last <- v9, said <- v10, slips <- v11, wrong <- v12
AnswerInit == part = "badanswer" /\ Answer!Init /\ Off12
AnswerNext == part = "badanswer" /\ Answer!Next /\ Same12

\* The shell: a table of two background jobs, at most three processes.
Sh == INSTANCE Shell WITH
    MAXBG <- 2, NARG_MAX <- 2, CMDLINE_MAX <- 5, NPids <- 3, Inputs <- ShellLines,
    Ends <- {<<"exit", 0>>, <<"exit", 1>>, <<"core", 2>>},
    bgpids <- v1, pc <- v2, pid <- v3, i <- v4, shown <- v5, proc <- v6, ended <- v7, nohang <- v8
ASSUME Sh!ShellAssumption
ShInit == part = "shell" /\ Sh!Init /\ Off8
ShNext == part = "shell" /\ Sh!Next /\ Same8

\* The user heap: requests of four sizes, four blocks at a time.
Malloc == INSTANCE Malloc WITH
    MBLOCKSIZE <- 2, Width <- 6, Break0 <- 3, MaxBreak <- 30, Requests <- {1, 4, 6, 8},
    MaxLive <- 4,
    __heapbase <- v1, __heaptop <- v2, brk <- v3, hdr <- v4, live <- v5, result <- v6
ASSUME Malloc!MallocConstants
MallocInit == part = "malloc" /\ Malloc!Init /\ Off6
MallocNext == part = "malloc" /\ Malloc!Next /\ Same6

\* 64-bit arithmetic out of 32-bit words, with words of four bits: operands whose words are around
\* the powers of two.
Ll == INSTANCE LongLong WITH
    HALF_BITS <- 2, Parts <- {0, 1, 3, 4, 8, 12, 15},
    a <- v1, b <- v2, res <- v3
ASSUME Ll!WidthAssumption
LlInit == part = "longlong" /\ Ll!Init /\ Off3
LlNext == part = "longlong" /\ Ll!Next /\ Same3

-----------------------------------------------------------------------------
ProgramsInit ==
    /\ part \in Following
    /\ \/ PsortInit \/ FsckInit \/ Fsck2Init \/ SynchInit \/ ThreadInit \/ FsInit \/ CallInit
       \/ AnswerInit \/ ShInit \/ MallocInit \/ LlInit

ProgramsNext ==
    \/ PsortNext \/ FsckNext \/ Fsck2Next \/ SynchNext \/ ThreadNext \/ FsNext \/ CallNext
    \/ AnswerNext \/ ShNext \/ MallocNext \/ LlNext

ProgramsSpec == ProgramsInit /\ [][ProgramsNext]_programsvars

\* Steps that are taken in the end if they are possible again and again.
Strong1 ==
    \/ part = "threadtests" /\ Thread!Main /\ Same11
Strong2 ==
    \/ part = "threadtests" /\ Thread!WakeAll(0) /\ Same11
Strong3 ==
    \/ part = "threadtests" /\ Thread!WakeAll(1) /\ Same11

ProgramsFairSpec ==
    /\ ProgramsSpec /\ SF_programsvars(Strong1) /\ SF_programsvars(Strong2) /\ SF_programsvars(Strong3)
    \* Psort: the kernel runs every process.
    /\ WF_programsvars(part = "sort" /\ Psort!Parent /\ Same18)
    /\ \A p \in 0 .. 1 : WF_programsvars(part = "sort" /\ Psort!Proc(p) /\ Same18)
    \* Fsck: the checker runs.
    /\ WF_programsvars(part = "sfsck" /\ Fsck!Next /\ Same11)
    \* Synch: the scheduler runs every thread.
    /\ WF_programsvars(part = "synch" /\ Synch!Main /\ Same13)
    /\ \A n \in 0 .. 2 : WF_programsvars(part = "synch" /\ Synch!Thread(n) /\ Same13)
    \* Thread: the scheduler runs every thread, and every channel is woken again and again.
    /\ WF_programsvars(part = "threadtests" /\ Thread!ReadFlag /\ Same11)
    /\ \A t \in Thread!Ids : WF_programsvars(part = "threadtests" /\ Thread!Thread(t) /\ Same11)
    \* Fs: some thread runs.
    /\ WF_programsvars(part = "fstest" /\ Fs!Next /\ Same9)
    \* Sh: the shell runs and the user goes on typing; every process ends.
    /\ WF_programsvars(part = "shell" /\ Sh!Shell /\ Same8)
    /\ \A p \in 1 .. 3 : WF_programsvars(part = "shell" /\ Sh!Exit(p) /\ Same8)

-----------------------------------------------------------------------------
\* "Succeeded.": the output of psort is the keys in order, whatever the order in which the processes
\* of each phase ran; a process that failed or could not be made is noticed, none is left running,
\* and no working file stays after a success.
SortsRight ==
    part = "sort" => Psort!TypeOK /\ Psort!SortsKeys /\ Psort!NoOrphans /\ Psort!FailureSeen
        /\ Psort!FilesGone

\* When sfsck is done the bitmap shows exactly the blocks in use, and when it could repair the
\* volume every directory has its own two entries, no name twice, no entry without an inode and the
\* right link count, so that a second run finds nothing. No block is both kept and released, and
\* none that holds an inode or live data is shown free.
FsckRight ==
    /\ part = "sfsck" => Fsck!TypeOK /\ Fsck!BitmapRight /\ Fsck!DirectoriesSound
           /\ Fsck!SecondRunClean
    /\ part = "release" => Fsck2!KeptOrFreed /\ Fsck2!LiveKept

\* A test of the kernel that is over has joined its threads and left its semaphores as the next one
\* needs them, whatever the threads met; the tests of file systems and of bad calls report a failure
\* when and only when something was wrong, and leave nothing behind that makes a later test fail.
TestsRight ==
    /\ part = "synch" => Synch!TypeOK /\ Synch!JoinsAll /\ Synch!OnePrints /\ Synch!ReverseOrder
    /\ part = "threadtests" => Thread!TypeOK /\ Thread!JoinsAll /\ Thread!WakerLast
    /\ part = "fstest" => Fs!TypeOK /\ Fs!NoFalseAlarm /\ Fs!FaultsSeen /\ Fs!LeavesNothing
    /\ part = "badcall" => Call!TypeOK /\ Call!PassesAtLevel /\ Call!LeavesNothing
    /\ part = "badanswer" => Answer!WrongIsReported /\ Answer!NoFalseAlarm
           /\ Answer!SpoiltByNamesOnly

\* The blocks of the user heap cover it without gap or overlap, no two neighbours are free, every
\* pointer the program holds is its own block, aligned and long enough, and a program that frees
\* only what it was given is never told that its heap is corrupt. The functions that the compiler
\* calls for 64-bit integers compute what the operators mean, whichever of their shortcuts they
\* take.
LibraryRight ==
    /\ part = "malloc" => Malloc!TypeOK /\ Malloc!Tiled /\ Malloc!Coalesced /\ Malloc!Granted
           /\ Malloc!NeverErrx
    /\ part = "longlong" => Ll!TypeOK /\ Ll!ModularRight /\ Ll!DivisionRight

\* Every child of the shell is the command in the foreground or a job in one slot of the table,
\* which names no other pid; when wait is over there is no child left, and the end of every child is
\* printed as it was.
ShellRight ==
    /\ [](part = "shell" => Sh!TypeOK /\ Sh!NoneForgotten)
    /\ [][part = "shell" => Sh!WaitsForAll /\ Sh!StatusShown]_programsvars

\* The programs and tests end: psort and sfsck, the tests of synchronization (but cvtest, whose
\* threads may miss a wakeup) and of threads, and the shell comes back to its prompt.  A file system
\* test ends with its semaphore at zero for the next one, and the shell tells of every process that
\* ends in the background.
ProgramsEnd ==
    /\ []<>(CASE part = "sort" -> Psort!Ended
              [] part = "sfsck" -> Fsck!Ended
              [] part = "synch" -> Synch!Ended
              [] part = "threadtests" -> Thread!Ended
              [] part = "fstest" -> Fs!EndedClean
              [] part = "shell" -> Sh!Prompting
              [] OTHER -> TRUE)
    /\ []<>(part = "shell" /\ Sh!Zombie(1) => Sh!Told(1))
=============================================================================
