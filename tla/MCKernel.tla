------------------------------ MODULE MCKernel ------------------------------
(***************************************************************************)
(* The kernel's components for TLC.  A behaviour follows one of the parts  *)
(* that the configuration names, chosen in its first state; the variables  *)
(* of the part's module are v1, v2, ... in the order in which it declares  *)
(* them (those of Spinlocks keep their names).  The parts do not interact  *)
(* here: one run does the work of many.                                    *)
(***************************************************************************)
EXTENDS Spinlocks, Sequences, TLC

CONSTANTS
    Following,    \* the parts that the run follows
    Nil, t1, t2, t3, h1, h2, c1, c2, red, blue, p1, p2, w1, r1, d1, d2, na, nb, u1    \* model values

VARIABLES
    part,     \* the part a behaviour follows
    v1, v2, v3, v4, v5, v6, v7, v8, v9, v10, v11, v12, v13, v14, v15, v16, v17, v18, v19, v20,
    v21, v22    \* its variables, in the order of its module

kernelvars ==
    <<part, vars, v1, v2, v3, v4, v5, v6, v7, v8, v9, v10, v11, v12, v13, v14, v15, v16, v17, v18,
      v19, v20, v21, v22>>

\* The spinlocks while another part is followed.
LocksIdle == Init /\ want = [c \in Processors |-> red]
\* The variables a part does not use.
Off22 == TRUE
Same22 == UNCHANGED part
Off20 == v21 = 0 /\ v22 = 0 /\ Off22
Same20 == UNCHANGED <<v21, v22>> /\ Same22
Off15 == v16 = 0 /\ v17 = 0 /\ v18 = 0 /\ v19 = 0 /\ v20 = 0 /\ Off20
Same15 == UNCHANGED <<v16, v17, v18, v19, v20>> /\ Same20
Off13 == v14 = 0 /\ v15 = 0 /\ Off15
Same13 == UNCHANGED <<v14, v15>> /\ Same15
Off12 == v13 = 0 /\ Off13
Same12 == UNCHANGED <<v13>> /\ Same13
Off11 == v12 = 0 /\ Off12
Same11 == UNCHANGED <<v12>> /\ Same12
Off10 == v11 = 0 /\ Off11
Same10 == UNCHANGED <<v11>> /\ Same11
Off8 == v9 = 0 /\ v10 = 0 /\ Off10
Same8 == UNCHANGED <<v9, v10>> /\ Same10
Off6 == v7 = 0 /\ v8 = 0 /\ Off8
Same6 == UNCHANGED <<v7, v8>> /\ Same8
Off5 == v6 = 0 /\ Off6
Same5 == UNCHANGED <<v6>> /\ Same6
Off4 == v5 = 0 /\ Off5
Same4 == UNCHANGED <<v5>> /\ Same5
Off0 == v1 = 0 /\ v2 = 0 /\ v3 = 0 /\ v4 = 0 /\ Off4
Same0 == UNCHANGED <<v1, v2, v3, v4>> /\ Same4

\* Threads, CPUs and names that differ in nothing.  A part has three of a kind or two of some kinds, so
\* one set of six permutations serves all: an odd permutation of the three swaps the pairs.
Swapped == (h1 :> h2) @@ (h2 :> h1) @@ (c1 :> c2) @@ (c2 :> c1) @@ (na :> nb) @@ (nb :> na)
Symmetry ==
    {p @@ (IF Cardinality({t \in DOMAIN p : p[t] = t}) = 1 THEN Swapped ELSE [x \in DOMAIN Swapped |-> x]) :
        p \in Permutations({t1, t2, t3})}

\* Directives of printf, and zero, the largest and the smallest signed and unsigned arguments.
SomeDirectives ==
    [alt : BOOLEAN, left : BOOLEAN, zero : BOOLEAN, width : {<<>>, <<"1", "0">>}, size : 0 .. 2,
     type : {"d", "u", "x", "o", "p", "s", "c", "%", "k"}]
NullString == <<"NULL">>
SomeArgs ==
    {[num |-> n, str |-> <<"a", "b">>] : n \in {0, 7, 8, 63, 64, 127}}
    \cup {[num |-> 5, str |-> NullString], [num |-> 5, str |-> <<>>]}

\* Executables that are complete, truncated in the header, among the headers or in the data, of the
\* wrong kind, with too many segments, or with more file than memory.
Segment(t, v, mem, file, o) == [type |-> t, vaddr |-> v, memsz |-> mem, filesz |-> file, off |-> o]
SomeExecutables ==
    LET Text == Segment("load", 2, 3, 3, 0)
        Data == Segment("load", 8, 4, 1, 3)
        Note == Segment("note", 0, 0, 0, 0)
        Exe(h, s, w, n) == [hdr |-> h, phs |-> s, whole |-> w, size |-> n]
    IN  {Exe("good", <<t, d>>, w, n) :
            t \in {Text, Segment("load", 3, 2, 2, 1)},
            d \in {Data, Segment("load", 9, 2, 4, 2), Segment("load", 9, 4, 4, 2)}, w \in {1, 2}, n \in {3, 4, 6}}
        \cup {Exe("good", <<Segment("reginfo", 0, 0, 0, 0), Text, Data>>, 3, 6),
              Exe("good", <<Text, Note, Data>>, 3, 6),
              Exe("good", <<Text, Data, Segment("load", 12, 2, 1, 0)>>, 3, 6),
              Exe("bad", <<Text, Data>>, 2, 6), Exe("short", <<>>, 0, 0)}

\* Buffers of a uio: good, bad, empty, at the top of the user's addresses, and in the kernel.
SomeIovs ==
    {<<v>> : v \in {<<1, 3>>, <<6, 2>>, <<7, 2>>, <<12, 2>>}}
    \cup {<<v, w>> : v \in {<<1, 1>>, <<1, 2>>, <<3, 0>>, <<12, 1>>}, w \in {<<3, 2>>, <<4, 2>>, <<6, 2>>, <<13, 1>>}}
    \cup {<<<<2, 1>>, <<3, 0>>, <<7, 1>>>>, <<<<12, 1>>, <<13, 0>>, <<13, 1>>>>}
-----------------------------------------------------------------------------
\* Spinlocks: two CPUs and two locks.
LocksInit == part = "locks" /\ Init /\ Off0
LocksNext == part = "locks" /\ Next /\ Same0

\* Threads: three threads come and go on two CPUs.
Thr == INSTANCE Threads WITH
    Threads <- {t1, t2, t3}, NCpus <- 2, Nobody <- Nil,
    cur <- v1, runq <- v2, idle <- v3, zombies <- v4, line <- v5, pc <- v6, woken <- v7,
    mig <- v8, tcpu <- v9, tstate <- v10, level <- v11, sleepers <- v12, wlock <- v13
ASSUME Thr!ThreadsAssumption
ThrInit == part = "threads" /\ Thr!Init /\ Off13 /\ LocksIdle
ThrNext == part = "threads" /\ Thr!Next /\ Same13 /\ UNCHANGED vars

\* Lists of threads: a run queue, a wait channel and three threads.
List == INSTANCE ThreadList WITH
    Lists <- {red, blue}, Threads <- {t1, t2, t3}, None <- Nil,
    tln_next <- v1, tln_prev <- v2, tl_count <- v3, did <- v4
ListInit == part = "lists" /\ List!Init /\ Off4 /\ LocksIdle
ListNext == part = "lists" /\ List!Next /\ Same4 /\ UNCHANGED vars

\* Interprocessor interrupts: two CPUs, two pages, a list of two shootdowns.
Ipi == INSTANCE Ipi WITH
    Cpus <- {c1, c2}, Pages <- {p1, p2}, MaxShootdown <- 2, MaxAsked <- 3,
    pending <- v1, num <- v2, shootdown <- v3, line <- v4, pc <- v5, asked <- v6
ASSUME Ipi!IpiAssumption
IpiInit == part = "ipi" /\ Ipi!Init /\ Off6 /\ LocksIdle
IpiNext == part = "ipi" /\ Ipi!Next /\ Same6 /\ UNCHANGED vars

\* Traps: two CPUs, two threads, each kind of exception and of system call.
Trap == INSTANCE Traps WITH
    Cpu <- {c1, c2}, Thread <- {h1, h2}, Calls <- {"time", "exit", "threaddemo", "unknown"},
    Codes <- {"IRQ", "SYS", "TLB"}, Levels <- {0},
    cur <- v1, idle <- v2, sr <- v3, cpustacks <- v4, cputhreads <- v5, runqueue <- v6, pc <- v7,
    stk <- v8, spl <- v9, call <- v10, badfault <- v11, panicked <- v12
TrapInit == part = "traps" /\ Trap!Init /\ Off12 /\ LocksIdle
TrapNext == part = "traps" /\ Trap!Next /\ Same12 /\ UNCHANGED vars

\* The kernel heap: four pages, three block sizes, two of them for each pageref.
Heap == INSTANCE KernelHeap WITH
    Thread <- {h1, h2}, PAGE_SIZE <- 4, sizes <- {1, 2, 4}, NPAGEREFS <- 2, Pages <- 4,
    Requests <- {1, 2, 3, 5}, MaxLive <- 3,
    firstpaddr <- v1, word <- v2, pagerefs <- v3, pagerefs_inuse <- v4, sizebases <- v5,
    allbase <- v6, st <- v7, live <- v8
ASSUME Heap!SizesFit
HeapInit == part = "heap" /\ Heap!Init /\ Off8 /\ LocksIdle
HeapNext == part = "heap" /\ Heap!Next /\ Same8 /\ UNCHANGED vars

\* The console's input: a reader, a buffer of three, interrupts that come at any time.
Inp == INSTANCE Console WITH
    Writers <- {w1}, Boot <- w1, Pollers <- {p1}, Readers <- {r1}, Nobody <- Nil, MaxWrite <- 1,
    MaxTyped <- 5, BufSize <- 3, DelaySize <- 4,
    delayed <- v1, attached <- v2, todo <- v3, pc <- v4, wsem <- v5, rsem <- v6, buf <- v7,
    head <- v8, tail <- v9, lslock <- v10, wbusy <- v11, sending <- v12, wactive <- v13,
    received <- v14, irq <- v15, irqpending <- v16, out <- v17, sent <- v18, accepted <- v19,
    got <- v20, typed <- v21, panicked <- v22
ASSUME Inp!ConsoleAssumption
InpInit == part = "input" /\ Inp!Init /\ Off22 /\ LocksIdle
InpNext == part = "input" /\ Inp!Next /\ Same22 /\ UNCHANGED vars

\* The bus: disks, timers and processors in any of three slots.
Bus == INSTANCE Lamebus WITH
    NSlots <- 3, Present <- {"lhd", "ltimer"}, HwCpus <- {0, 1, 2}, MaxDuds <- 1, MaxGlitch <- 0,
    None <- Nil,
    kind <- v1, cpumask <- v2, self <- v3, number <- v4, cram <- v5, irqe <- v6, inuse <- v7,
    hooked <- v8, ready <- v9, fields <- v10, unit <- v11, nextunit <- v12, child <- v13,
    boot <- v14, line <- v15, irq <- v16, duds <- v17, glitches <- v18, strange <- v19,
    panicked <- v20
ASSUME Bus!LamebusAssumption
BusInit == part = "bus" /\ Bus!Init /\ Off20 /\ LocksIdle
BusNext == part = "bus" /\ Bus!Next /\ Same20 /\ UNCHANGED vars

\* The disk driver: two threads, two sectors of two bytes, errors of the medium and of the caller's
\* memory.
Disk == INSTANCE Lhd WITH
    Thread <- {h1, h2}, Data <- {d1, d2}, NSECT <- 2, SECTSIZE <- 2, Positions <- {0, 1, 2, 4},
    Lengths <- {1, 2, 4}, MaxReq <- 1, Errors <- {"media", "memory"},
    disk <- v1, stat <- v2, sect <- v3, buf <- v4, irq <- v5, lh_clear <- v6, lh_done <- v7,
    lh_result <- v8, pc <- v9, pos <- v10, job <- v11, i <- v12, result <- v13, got <- v14,
    count <- v15
DiskInit == part = "disk" /\ Disk!Init /\ Off15 /\ LocksIdle
DiskNext == part = "disk" /\ Disk!Next /\ Same15 /\ UNCHANGED vars

\* An SFS volume whose disk fails once, at any transfer.
Bad == INSTANCE SfsVolume WITH
    Names <- {na, nb}, Threads <- {u1}, NBlocks <- 6, NSlots <- 2, MaxErrors <- 1,
    vol <- v1, th <- v2, fate <- v3, errors <- v4, synced <- v5
ASSUME Bad!VolumeAssumption
BadInit == part = "volume" /\ Bad!Init /\ Off5 /\ LocksIdle
BadNext == part = "volume" /\ Bad!Next /\ Same5 /\ UNCHANGED vars

\* The menu: a line of four characters from the boot loader, then one that is typed.
Boot1 == INSTANCE Menu WITH
    Chars <- {"s", "p", "q", "!", ";", " "}, BootLen <- 4, LineLen <- 1, MaxLines <- 1,
    MAXMENUARGS <- 2,
    mem <- v1, typed <- v2, cur <- v3, ctx <- v4, ictx <- v5, frame <- v6, nargs <- v7, at <- v8,
    lines <- v9, done <- v10, progs <- v11, ran <- v12, system <- v13
ASSUME Boot1!MenuAssumption
Boot1Init == part = "bootline" /\ Boot1!Init /\ Off13 /\ LocksIdle
Boot1Next == part = "bootline" /\ Boot1!Next /\ Same13 /\ UNCHANGED vars

\* The menu: one typed line, of commands with a device.
Line == INSTANCE Menu WITH
    Chars <- {"m", "u", "b", "c", ";", " ", ":"}, BootLen <- 0, LineLen <- 4, MaxLines <- 1,
    MAXMENUARGS <- 3,
    mem <- v1, typed <- v2, cur <- v3, ctx <- v4, ictx <- v5, frame <- v6, nargs <- v7, at <- v8,
    lines <- v9, done <- v10, progs <- v11, ran <- v12, system <- v13
LineInit == part = "menuline" /\ Line!Init /\ Off13 /\ LocksIdle
LineNext == part = "menuline" /\ Line!Next /\ Same13 /\ UNCHANGED vars

\* printf: numbers of four and seven bits, every flag, and buffers that are too small.
Fmt == INSTANCE Printf WITH
    IntBits <- 4, LongLongBits <- 7, Directives <- SomeDirectives, Args <- SomeArgs,
    NullStr <- NullString, Lens <- {0, 1, 4, 20},
    dir <- v1, arg <- v2, len <- v3, format <- v4, i <- v5, pf <- v6, taken <- v7, sent <- v8,
    charcount <- v9, digits <- v10, buf <- v11, bufpos <- v12
ASSUME Fmt!BitsAssumption
FmtInit == part = "printf" /\ Fmt!Init /\ Off12 /\ LocksIdle
FmtNext == part = "printf" /\ Fmt!Next /\ Same12 /\ UNCHANGED vars

\* Loading a program, with pages of two bytes.
Load == INSTANCE ProgramLoad WITH
    PAGE_SIZE <- 2, AddrSize <- 16, Executables <- SomeExecutables,
    Failures <- {"open", "space", "io", "rewrite"},
    exe <- v1, refs <- v2, space <- v3, prepared <- v4, mem <- v5, i <- v6, pc <- v7,
    result <- v8, first <- v9, clean <- v10
ASSUME Load!SizesAssumption
LoadInit == part = "load" /\ Load!Init /\ Off10 /\ LocksIdle
LoadNext == part = "load" /\ Load!Next /\ Same10 /\ UNCHANGED vars

\* Arrays of up to five elements, under any calls.
Arr == INSTANCE Containers WITH
    Mode <- "array", Vals <- {0, 1}, NULL <- 1000, Junk <- 1001, MaxNum <- 5, TESTSIZE <- 9,
    BITS_PER_WORD <- 3, Sizes <- {1},
    v <- v1, max <- v2, num <- v3, model <- v4, script <- v5, nbits <- v6, words <- v7,
    index <- v8, pc <- v9, i <- v10, data <- v11, ok <- v12
ASSUME Arr!SizesAssumption
ArrInit == part = "array" /\ Arr!Init /\ Off12 /\ LocksIdle
ArrNext == part = "array" /\ Arr!Next /\ Same12 /\ UNCHANGED vars

\* arraytest with eleven elements.
ArrT == INSTANCE Containers WITH
    Mode <- "arraytest", Vals <- {0, 1}, NULL <- 1000, Junk <- 1001, MaxNum <- 30, TESTSIZE <- 11,
    BITS_PER_WORD <- 3, Sizes <- {1},
    v <- v1, max <- v2, num <- v3, model <- v4, script <- v5, nbits <- v6, words <- v7,
    index <- v8, pc <- v9, i <- v10, data <- v11, ok <- v12
ArrTInit == part = "arraytest" /\ ArrT!Init /\ Off12 /\ LocksIdle
ArrTNext == part = "arraytest" /\ ArrT!Next /\ Same12 /\ UNCHANGED vars

\* Bitmaps of some sizes, under any calls.
Map == INSTANCE Containers WITH
    Mode <- "bitmap", Vals <- {0, 1}, NULL <- 1000, Junk <- 1001, MaxNum <- 5, TESTSIZE <- 9,
    BITS_PER_WORD <- 3, Sizes <- {1, 3, 5, 6, 7},
    v <- v1, max <- v2, num <- v3, model <- v4, script <- v5, nbits <- v6, words <- v7,
    index <- v8, pc <- v9, i <- v10, data <- v11, ok <- v12
MapInit == part = "bitmap" /\ Map!Init /\ Off12 /\ LocksIdle
MapNext == part = "bitmap" /\ Map!Next /\ Same12 /\ UNCHANGED vars

\* bitmaptest.
MapT == INSTANCE Containers WITH
    Mode <- "bitmaptest", Vals <- {0, 1}, NULL <- 1000, Junk <- 1001, MaxNum <- 5, TESTSIZE <- 9,
    BITS_PER_WORD <- 3, Sizes <- {1, 5, 6, 7},
    v <- v1, max <- v2, num <- v3, model <- v4, script <- v5, nbits <- v6, words <- v7,
    index <- v8, pc <- v9, i <- v10, data <- v11, ok <- v12
MapTInit == part = "bitmaptest" /\ MapT!Init /\ Off12 /\ LocksIdle
MapTNext == part = "bitmaptest" /\ MapT!Next /\ Same12 /\ UNCHANGED vars

\* Eight user bytes, of which two are not mapped and one is read-only.
Copy == INSTANCE CopyInOut WITH
    AddrSize <- 24, USERSPACETOP <- 8, Mapped <- {1, 2, 3, 4, 6, 7}, ReadOnly <- {4},
    Calls <- {"copyin", "copyout", "copyinstr", "copyoutstr", "uiomove", "uiomovezeros"},
    Lens <- {1, 2, 3, 4, 13, 20}, Nuls <- {2, 6, 9, 10}, Iovs <- SomeIovs,
    mem <- v1, pc <- v2, fn <- v3, job <- v4, badfault <- v5, uio <- v6, n <- v7, kptr <- v8,
    left <- v9, result <- v10, before <- v11
ASSUME Copy!SizesAssumption
CopyInit == part = "copy" /\ Copy!Init /\ Off11 /\ LocksIdle
CopyNext == part = "copy" /\ Copy!Next /\ Same11 /\ UNCHANGED vars

-----------------------------------------------------------------------------
KernelInit ==
    /\ part \in Following
    /\ \/ LocksInit \/ ThrInit \/ ListInit \/ IpiInit \/ TrapInit \/ HeapInit \/ InpInit
       \/ BusInit \/ DiskInit \/ BadInit \/ Boot1Init \/ LineInit \/ FmtInit \/ LoadInit
       \/ ArrInit \/ ArrTInit \/ MapInit \/ MapTInit \/ CopyInit

KernelNext ==
    \/ LocksNext \/ ThrNext \/ ListNext \/ IpiNext \/ TrapNext \/ HeapNext \/ InpNext
    \/ BusNext \/ DiskNext \/ BadNext \/ Boot1Next \/ LineNext \/ FmtNext \/ LoadNext
    \/ ArrNext \/ ArrTNext \/ MapNext \/ MapTNext \/ CopyNext

KernelSpec == KernelInit /\ [][KernelNext]_kernelvars

-----------------------------------------------------------------------------
\* No KASSERT fails and nothing panics, in spinlock_acquire and spinlock_release (holders),
\* mips_trap and syscall (levels), thread_consider_migration (it finds the threads it counted),
\* kfree (a block that is held is recognised), and in arraytest and bitmaptest.
KernelAssertsHold ==
    /\ NoPanic
    /\ part = "threads" => Thr!EnoughVictims
    /\ part = "traps" => Trap!AssertsHold
    /\ part = "heap" => Heap!KfreeRecognises
    /\ part = "arraytest" => ArrT!AssertsHold
    /\ part = "bitmaptest" => MapT!AssertsHold

\* No two CPUs are on one kernel stack, though an idle CPU stays on the stack of a thread that may
\* have been woken; every thread is in one place and t_cpu, which is read without a lock, is the CPU
\* of that place; a CPU that waits with a thread on its queue has an interrupt coming. The pending
\* shootdowns are what was asked for, and no interrupt is sent for nothing.
ThreadsSound ==
    /\ part = "threads" => Thr!TypeOK /\ Thr!OneStack /\ Thr!OnePlace /\ Thr!HomeKnown
           /\ Thr!UnidleComes
    /\ part = "ipi" => Ipi!TypeOK /\ Ipi!ListMatches /\ Ipi!NoStray

\* Interrupts are on exactly when the recorded level is low: threads that do not run all have the
\* same count, an interrupt leaves the level it found whatever it switched to meanwhile, and a
\* program runs only on a processor that is ready for its next trap. Traps nest three deep at most,
\* and a program is told of an error exactly when its call was not carried out.
LevelsTracked ==
    /\ part = "threads" => Thr!LevelsMatch
    /\ part = "traps" => Trap!TypeOK /\ Trap!UserReady /\ Trap!LevelIsReal
           /\ Trap!InterruptTransparent /\ Trap!NestingBounded /\ Trap!ErrorFlag /\ Trap!OnePlace

\* checksubpages: the free list of every page has nfree different blocks of the page, the lists by
\* size and the list of all pages agree; no memory is held by two callers, and no pageref is kept
\* for a page that is free, though kmalloc lets go of the lock while it asks for a page.
HeapSound ==
    part = "heap" => Heap!TypeOK /\ Heap!FreeListsWhole /\ Heap!ListsAgree /\ Heap!HeldOnce
        /\ Heap!NoIdlePage

\* What the console accepted from its interrupt handler is read once and in order, through a full or
\* wrapped buffer that no lock protects; devices of a kind are numbered in the order of their slots,
\* though configuring fails on the way, CPUs have the numbers they were created with, and whatever
\* handler is called has what it uses.
DevicesRight ==
    /\ part = "input" => Inp!TypeOK /\ Inp!InputInOrder
    /\ part = "bus" => Bus!TypeOK /\ Bus!UnitsInOrder /\ Bus!CpuNumbersAgree /\ Bus!HandlersReady

\* Whatever transfer of SFS fails, between calls the link count of a file is the number of its
\* names, and every block of the directory, of a named or of an open file is marked and has one use.
\* On every path out of a failed program start the file is closed once and the address space is
\* gone.
FailuresUnwound ==
    /\ part = "volume" => Bad!TypeOK /\ Bad!LinkCounts /\ Bad!BlocksSafe
    /\ part = "load" => Load!FileClosed /\ Load!SpaceFreed

\* The menu runs the commands of a line whole, in order and once each, though two tokenizers cut the
\* same memory, and stops the boot line at the first failure; the text that printf and snprintf make
\* is the one the directive means, in a number buffer that is long enough, cut to leave room for the
\* terminator.
TextRight ==
    /\ part = "bootline" => Boot1!TypeOK /\ Boot1!CutRight /\ Boot1!FailureStops
    /\ part = "menuline" => Line!CutRight /\ Line!DeviceNamed
    /\ part = "printf" => Fmt!TypeOK /\ Fmt!FieldRight /\ Fmt!NumberFits /\ Fmt!Truncated

\* A linked list of threads shows the same threads in both directions and acts as a deque; an array
\* has the elements its calls describe and doubles its block; the bits of a bitmap that are set are
\* those in use, and bitmap_alloc gives the lowest free one.
ContainersRight ==
    /\ [](part = "lists" => List!TypeOK /\ List!BothWays)
    /\ [](part = "array" => Arr!TypeOK /\ Arr!SameElements)
    /\ [](part = "bitmap" => Map!TypeOK /\ Map!InUse)
    /\ [][part = "lists" => List!ActsAsDeque]_kernelvars
    /\ [][part = "array" => Arr!Doubles]_kernelvars
    /\ [][part = "bitmap" => Map!AllocFresh]_kernelvars

\* A program starts exactly when its executable is complete, with the image that it describes, and
\* whatever the file holds when its headers are read again, nothing is stored outside the regions
\* defined from the first reading. A bad user pointer ends a copy and never the kernel, and through
\* a user pointer the kernel is neither read nor written; a copy succeeds exactly when all of it is
\* user memory, a string copy exactly when the string ends in time, and a uio accounts for what was
\* moved.
UserMemoryRight ==
    /\ [](part = "load" => Load!TypeOK /\ Load!ImageExact /\ Load!StoresInRegions)
    /\ [](part = "copy" => Copy!TypeOK /\ Copy!FaultsContained /\ Copy!KernelApart
           /\ Copy!UioAccounts)
    /\ [][part = "copy" => Copy!BlockExact /\ Copy!StringExact]_kernelvars

\* What a disk promises.
Abstract == INSTANCE BlockDevice WITH
    Thread <- {h1, h2}, NSECT <- 2, Data <- {d1, d2}, disk <- v1, req <- [t \in {h1, h2} |-> Disk!Request(t)]

\* The driver implements the disk (Abstract!Spec, for the part that has one): sectors reach the
\* medium and the callers whole, in order, each once, and none of another thread's. One thread at a
\* time is between P(lh_clear) and V(lh_clear), the completion it waits for is its own, and the
\* controller is asked for no sector that it does not have.
ImplementsDisk ==
    /\ [](part = "disk" => Disk!TypeOK /\ Disk!OneUser /\ Disk!OnDisk)
    /\ part = "disk" => Abstract!Init
    /\ [][part = "disk" => Abstract!Next \/ UNCHANGED Abstract!vars]_kernelvars
=============================================================================
