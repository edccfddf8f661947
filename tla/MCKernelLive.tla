---------------------------- MODULE MCKernelLive ----------------------------
(***************************************************************************)
(* What the kernel owes in the end: components whose runs need fairness,   *)
(* for TLC.  Each behaviour follows one part, as in MCKernel; the variables*)
(* of Semaphore keep their names.                                          *)
(***************************************************************************)
EXTENDS Semaphore, TLC

CONSTANTS
    Following,    \* the parts that the run follows
    Nil, t1, t2, t3, h1, h2, c1, c2, c3, p1, w1, w2, d1    \* model values

VARIABLES
    part,     \* the part a behaviour follows
    v1, v2, v3, v4, v5, v6, v7, v8, v9, v10, v11, v12, v13, v14, v15, v16, v17, v18, v19, v20,
    v21, v22    \* its variables, in the order of its module

livevars ==
    <<part, vars, v1, v2, v3, v4, v5, v6, v7, v8, v9, v10, v11, v12, v13, v14, v15, v16, v17, v18,
      v19, v20, v21, v22>>

\* The semaphore while another part is followed.
SemIdle == Init
\* The variables a part does not use.
Off22 == TRUE
Same22 == UNCHANGED part
Off20 == v21 = 0 /\ v22 = 0 /\ Off22
Same20 == UNCHANGED <<v21, v22>> /\ Same22
Off15 == v16 = 0 /\ v17 = 0 /\ v18 = 0 /\ v19 = 0 /\ v20 = 0 /\ Off20
Same15 == UNCHANGED <<v16, v17, v18, v19, v20>> /\ Same20
Off13 == v14 = 0 /\ v15 = 0 /\ Off15
Same13 == UNCHANGED <<v14, v15>> /\ Same15
Off8 == v9 = 0 /\ v10 = 0 /\ v11 = 0 /\ v12 = 0 /\ v13 = 0 /\ Off13
Same8 == UNCHANGED <<v9, v10, v11, v12, v13>> /\ Same13
Off6 == v7 = 0 /\ v8 = 0 /\ Off8
Same6 == UNCHANGED <<v7, v8>> /\ Same8
Off0 == v1 = 0 /\ v2 = 0 /\ v3 = 0 /\ v4 = 0 /\ v5 = 0 /\ v6 = 0 /\ Off6
Same0 == UNCHANGED <<v1, v2, v3, v4, v5, v6>> /\ Same6
-----------------------------------------------------------------------------
\* Semaphores: three threads.
SemInit == part = "semaphore" /\ Init /\ Off0
SemNext == part = "semaphore" /\ Next /\ Same0

\* The console's output: two writers with a character or two, one of them before the console is
\* there, and a poller.
Out == INSTANCE Console WITH
    Writers <- {w1, w2}, Boot <- w1, Pollers <- {p1}, Readers <- {}, Nobody <- Nil, MaxWrite <- 2,
    MaxTyped <- 0, BufSize <- 2, DelaySize <- 4,
    delayed <- v1, attached <- v2, todo <- v3, pc <- v4, wsem <- v5, rsem <- v6, buf <- v7,
    head <- v8, tail <- v9, lslock <- v10, wbusy <- v11, sending <- v12, wactive <- v13,
    received <- v14, irq <- v15, irqpending <- v16, out <- v17, sent <- v18, accepted <- v19,
    got <- v20, typed <- v21, panicked <- v22
ASSUME Out!ConsoleAssumption
OutInit == part = "output" /\ Out!Init /\ Off22 /\ SemIdle
OutNext == part = "output" /\ Out!Next /\ Same22 /\ UNCHANGED vars

\* The disk driver again: two threads with two requests each, of one or both sectors.
Req == INSTANCE Lhd WITH
    Thread <- {h1, h2}, Data <- {d1}, NSECT <- 2, SECTSIZE <- 2, Positions <- {0},
    Lengths <- {2, 4}, MaxReq <- 2, Errors <- {},
    disk <- v1, stat <- v2, sect <- v3, buf <- v4, irq <- v5, lh_clear <- v6, lh_done <- v7,
    lh_result <- v8, pc <- v9, pos <- v10, job <- v11, i <- v12, result <- v13, got <- v14,
    count <- v15
ReqInit == part = "requests" /\ Req!Init /\ Off15 /\ SemIdle
ReqNext == part = "requests" /\ Req!Next /\ Same15 /\ UNCHANGED vars

\* panic: one of three CPUs panics.
Panic == INSTANCE KernelPanic WITH
    CPUs <- {c1, c2, c3}, MayPanic <- {c1}, None <- Nil,
    evil <- v1, pc <- v2, stage <- v3, spl <- v4, ipi <- v5, lock <- v6, off <- v7, did <- v8
PanicInit == part = "panic" /\ Panic!Init /\ Off8 /\ SemIdle
PanicNext == part = "panic" /\ Panic!Next /\ Same8 /\ UNCHANGED vars

\* Booting four processors, and one reboot.
Boot == INSTANCE BootShutdown WITH
    NCpu <- 4, MaxReboots <- 1,
    step <- v1, have <- v2, missed <- v3, at <- v4, irq <- v5, sem <- v6, waits <- v7, dead <- v8,
    todo <- v9, pending <- v10, ipilock <- v11, reboots <- v12, machine <- v13
ASSUME Boot!BootAssumption
BootInit == part = "boot" /\ Boot!Init /\ Off13 /\ SemIdle
BootNext == part = "boot" /\ Boot!Next /\ Same13 /\ UNCHANGED vars

\* The bus once more: a slot with a device nobody knows, and a glitch.
Sig == INSTANCE Lamebus WITH
    NSlots <- 2, Present <- {"emu", "lser", "unknown"}, HwCpus <- {0}, MaxDuds <- 3,
    MaxGlitch <- 1, None <- Nil,
    kind <- v1, cpumask <- v2, self <- v3, number <- v4, cram <- v5, irqe <- v6, inuse <- v7,
    hooked <- v8, ready <- v9, fields <- v10, unit <- v11, nextunit <- v12, child <- v13,
    boot <- v14, line <- v15, irq <- v16, duds <- v17, glitches <- v18, strange <- v19,
    panicked <- v20
ASSUME Sig!LamebusAssumption
SigInit == part = "signals" /\ Sig!Init /\ Off20 /\ SemIdle
SigNext == part = "signals" /\ Sig!Next /\ Same20 /\ UNCHANGED vars

\* Threads again: three that are all there and do not exit, on two CPUs.
Que == INSTANCE Threads WITH
    Threads <- {t1, t2, t3}, NCpus <- 2, Nobody <- Nil,
    cur <- v1, runq <- v2, idle <- v3, zombies <- v4, line <- v5, pc <- v6, woken <- v7,
    mig <- v8, tcpu <- v9, tstate <- v10, level <- v11, sleepers <- v12, wlock <- v13
QueInit == part = "queues" /\ Que!Started /\ Off13 /\ SemIdle
QueNext == part = "queues" /\ Que!Scheduling /\ Same13 /\ UNCHANGED vars

\* The page replacement policies on a table of five frames.
Rep == INSTANCE PageReplacement WITH
    MAX_PM_SIZE <- 5, CLOCK_ANGLE <- 2,
    policy <- v1, ref_bit <- v2, clock_hand <- v3, ep_hand <- v4, rp_hand <- v5, victim <- v6
RepInit == part = "clock" /\ Rep!Init /\ Off6 /\ SemIdle
RepNext == part = "clock" /\ Rep!Next /\ Same6 /\ UNCHANGED vars

-----------------------------------------------------------------------------
LiveInit ==
    /\ part \in Following
    /\ \/ SemInit \/ OutInit \/ ReqInit \/ PanicInit \/ BootInit \/ SigInit \/ QueInit
       \/ RepInit

LiveNext ==
    \/ SemNext \/ OutNext \/ ReqNext \/ PanicNext \/ BootNext \/ SigNext \/ QueNext
    \/ RepNext

LiveSpec == LiveInit /\ [][LiveNext]_livevars

\* Steps that are taken in the end if they are possible again and again.
Strong1 ==
    \/ part = "semaphore" /\ Step(t1) /\ Same0
    \/ part = "output" /\ Out!Handler /\ Same22 /\ UNCHANGED vars
    \/ part = "panic" /\ Panic!panic(c1) /\ Same8 /\ UNCHANGED vars
    \/ part = "boot" /\ Boot!kmain /\ Same13 /\ UNCHANGED vars
    \/ part = "queues" /\ Que!hardclock(1) /\ Same13 /\ UNCHANGED vars
Strong2 ==
    \/ part = "semaphore" /\ Step(t2) /\ Same0
    \/ part = "output" /\ Out!Printing(w1) /\ Same22 /\ UNCHANGED vars
    \/ part = "panic" /\ Panic!StopDead(c2) /\ Same8 /\ UNCHANGED vars
    \/ part = "boot" /\ Boot!cpu_hatch(1) /\ Same13 /\ UNCHANGED vars
    \/ part = "queues" /\ Que!hardclock(2) /\ Same13 /\ UNCHANGED vars
Strong3 ==
    \/ part = "semaphore" /\ Step(t3) /\ Same0
    \/ part = "output" /\ Out!Printing(w2) /\ Same22 /\ UNCHANGED vars
    \/ part = "panic" /\ Panic!StopDead(c3) /\ Same8 /\ UNCHANGED vars
    \/ part = "boot" /\ Boot!cpu_hatch(2) /\ Same13 /\ UNCHANGED vars
Strong4 ==
    \/ part = "output" /\ Out!Polling(p1) /\ Same22 /\ UNCHANGED vars
    \/ part = "boot" /\ Boot!cpu_hatch(3) /\ Same13 /\ UNCHANGED vars

LiveFairSpec ==
    /\ LiveSpec /\ SF_livevars(Strong1) /\ SF_livevars(Strong2) /\ SF_livevars(Strong3) /\ SF_livevars(Strong4)
    \* Sem: a spinlock that is free again and again is had; nothing makes a thread call P or V.
    \* Out: the port works, interrupts are handled, and the semaphore and the lock serve everyone
    \* who keeps asking.
    /\ WF_livevars(part = "output" /\ Out!PortDone /\ Same22 /\ UNCHANGED vars)
    /\ WF_livevars(part = "output" /\ Out!config_con /\ Same22 /\ UNCHANGED vars)
    \* Req: the controller finishes what it began, its interrupt is taken, and a thread that can run
    \* does.
    /\ WF_livevars(part = "requests" /\ Req!Device(TRUE) /\ Same15 /\ UNCHANGED vars)
    /\ WF_livevars(part = "requests" /\ Req!lhd_irq /\ Same15 /\ UNCHANGED vars)
    /\ \A t \in {h1, h2} : WF_livevars(part = "requests" /\ Req!Proceed(t) /\ Same15 /\ UNCHANGED vars)
    \* Panic: CPUs run, and take an interrupt they do not mask; a spinlock that is free again and
    \* again is had.
    /\ \A c \in {c1, c2, c3} : WF_livevars(part = "panic" /\ Panic!Printed(c) /\ Same8 /\ UNCHANGED vars)
    \* Boot: processors run and take their interrupts; whoever spins on the lock of the semaphore
    \* gets it.
    /\ \A c \in 0 .. 3 : WF_livevars(part = "boot" /\ Boot!Reboot(c) /\ Same13 /\ UNCHANGED vars)
    /\ \A c \in 0 .. 3 : WF_livevars(part = "boot" /\ Boot!Offline(c) /\ Same13 /\ UNCHANGED vars)
    \* Sig: the processor handles what is signalled.
    /\ WF_livevars(part = "signals" /\ Sig!Handle /\ Same20 /\ UNCHANGED vars)
    \* Que: kernel code runs on, and a timer interrupt stays pending until the CPU takes it.
    /\ \A c \in {1, 2} : WF_livevars(part = "queues" /\ Que!KernelStep(c) /\ Same13 /\ UNCHANGED vars)
    \* Rep: programs keep the kernel short of frames.
    /\ WF_livevars(part = "clock" /\ Rep!replace_page /\ Same6 /\ UNCHANGED vars)

-----------------------------------------------------------------------------
\* The two locks and the wait channel implement the counting semaphore, its fairness included: the
\* count changes by one for the one thread whose call ends, no P passes at 0, no unit is lost to a
\* thread that tests at the same time, and while there is something to give and someone to have it,
\* someone is served.
IsSemaphore == Promise!Spec

\* The port is never written to while it is busy, by threads that wait for its interrupt and pollers
\* that do not, and the one right to send is never lost: what was sent comes out whole and in order.
OutputRight ==
    part = "output" => Out!TypeOK /\ Out!OutputWhole /\ Out!OneRight

\* No step of boot, nor an interrupt it lets in, uses what a later step sets up; the boot processor
\* destroys its semaphore only when no processor is inside V. A panic is not begun twice by a CPU,
\* no CPU is stopped with the kprintf spinlock, and the machine is not left with no CPU that could
\* switch it off.
MachineSound ==
    /\ part = "boot" => Boot!TypeOK /\ Boot!OrderRight /\ Boot!SemaphoreAlive
    /\ part = "panic" => Panic!TypeOK /\ Panic!NoRetry /\ Panic!LockNotLost /\ Panic!NotStuck

\* second_chance_replace never gives up its search: the frame it would pick has its reference bit
\* clear, and it is found after at most CLOCK_ANGLE of the CLOCK_ANGLE + 2 rounds allowed; the
\* operators of ClockPolicies compute what the two loops compute, on every pattern of bits and
\* hands.
PicksUnreferenced ==
    part = "clock" => Rep!TypeOK /\ Rep!PicksUnreferenced /\ Rep!LoopsAgree

\* Every V returns and every P returns or sleeps: the semaphore's two locks never deadlock.  Every
\* request the disk driver accepts returns.  A thread runs again whenever it is put on a queue,
\* wherever migration moves it.  (Threads are alike: one is followed.)  Everything printed comes
\* out, before the console was there, with interrupts, or polled.
CallsEnd ==
    []<>(CASE part = "semaphore" -> Returned(t1)
           [] part = "requests" -> Req!Returned(h1)
           [] part = "queues" -> ~Que!Ready(t1)
           [] part = "output" -> Out!AllOut
           [] OTHER -> TRUE)

\* panic "prints the printf arguments it's passed and then halts the system"; a reboot ends with the
\* machine halted or off, whatever the other processors are doing; a slot that signals and that
\* nobody can quiet does not hang the system but panics it.
MachineStops ==
    []<>(CASE part = "panic" -> Panic!Panicking => v7
           [] part = "boot" -> Boot!Booted /\ (Boot!Rebooting => v13 # "on")
           [] part = "signals" -> Sig!Stuck => Sig!Panicked
           [] OTHER -> TRUE)

\* A device whose handler is installed does not signal for ever without an answer, whatever the
\* other slot does.
Served == \A s \in 0 .. 1 : []<>(part = "signals" /\ Sig!Signals(s) => Sig!Answered(s))

\* second_chance_replace overlooks no frame: again and again each one is referenced or picked.
NoneOverlooked == \A f \in 0 .. 4 : []<>(part = "clock" /\ Rep!SecondChanceUsed => Rep!Looked(f))


\* Everyone who waits for the kernel is served: callers of semaphores and of the disk, printers,
\* devices, threads on a run queue, and frames of the clock.
EveryoneServed == CallsEnd /\ Served /\ NoneOverlooked

\* The machine boots with all its processors, and stops when it must.
BootsAndStops == MachineStops
=============================================================================
