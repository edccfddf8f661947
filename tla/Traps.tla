-------------------------------- MODULE Traps --------------------------------
(***************************************************************************)
(* Traps, system calls and interrupts: kern/arch/mips/locore               *)
(* (exception-mips1.S, trap.c), kern/arch/mips/syscall/syscall.c, the      *)
(* interrupt switches of kern/arch/mips/thread/cpu.c and                   *)
(* kern/thread/spl.c, and the part of thread_switch that crosses them.     *)
(* Threads move between processors whenever they are not running.          *)
(* The registers of a program are abstracted to the ones traps decide on:  *)
(* the three pairs of mode and interrupt bits of the status register, the  *)
(* stack and thread loaded on entry, and the outcome of a system call.     *)
(***************************************************************************)
EXTENDS Integers, Sequences, FiniteSets

CONSTANTS
    Cpu, Thread,
    Calls,      \* system calls the programs make
    Codes,      \* exceptions of the programs
    Levels      \* levels that system calls and faults set

\* A pair of status bits: user or kernel mode, interrupts on or off.
UserOn == "user, on"
KernOn == "kernel, on"
KernOff == "kernel, off"
None == "none"

VARIABLES
    cur,            \* curthread of a processor
    idle,           \* c_isidle
    sr,             \* status register: current, previous and old pair
    cpustacks, cputhreads,
    runqueue,       \* ready threads, of all processors
    pc,             \* what a thread is doing
    stk,            \* its trap frames, innermost first
    spl,            \* t_curspl, t_iplhigh_count, t_in_interrupt
    call,           \* the system call being served, whether it was carried out, and v0 / a3
    badfault,       \* tm_badfaultfunc is set
    panicked

vars == <<cur, idle, sr, cpustacks, cputhreads, runqueue, pc, stk, spl, call, badfault, panicked>>
cpuVars == <<cpustacks, cputhreads>>
schedVars == <<cur, idle, runqueue>>

NoCall == [no |-> None, done |-> FALSE, a3 |-> 0]
Low == [cur |-> 0, high |-> 0, intr |-> 0]

\* As many threads as processors have started the way cpu_machdep_init sets up: in the kernel, interrupts off,
\* about to enter a program; the others are ready.
Init ==
    /\ cur \in [Cpu -> Thread] /\ \A c, d \in Cpu : c # d => cur[c] # cur[d]
    /\ runqueue = Thread \ {cur[c] : c \in Cpu}
    /\ idle = [c \in Cpu |-> FALSE]
    /\ sr = [c \in Cpu |-> <<KernOn, KernOff, KernOff>>]
    /\ cpustacks = cur /\ cputhreads = cur
    /\ pc = [t \in Thread |-> IF t \in runqueue THEN "switched" ELSE "new"]
    /\ stk = [t \in Thread |-> IF t \in runqueue THEN <<[kind |-> "switch", spl |-> 0, pc |-> "new"]>> ELSE <<>>]
    /\ spl = [t \in Thread |-> IF t \in runqueue THEN [cur |-> 1, high |-> 2, intr |-> 0] ELSE Low]
    /\ call = [t \in Thread |-> NoCall] /\ badfault = [t \in Thread |-> FALSE] /\ panicked = FALSE

-----------------------------------------------------------------------------
\* cpu_irqon, cpu_irqoff: the current pair of the status register.
irq(c, bits) == [sr EXCEPT ![c][1] = bits]

\* splx, with splraise and spllower: interrupts change on the first raise and on the last lower.
Raised(s) == [s EXCEPT !.high = @ + 1]
splx(s, n) ==
    IF s.cur < n THEN [Raised(s) EXCEPT !.cur = n]
    ELSE IF s.cur > n THEN [s EXCEPT !.cur = n, !.high = @ - 1]
    ELSE s
\* The current status bits after a change of level from s to r.
Switched(bits, s, r) == IF s.high = 0 /\ r.high > 0 THEN KernOff ELSE IF s.high > 0 /\ r.high = 0 THEN KernOn ELSE bits

\* The processor takes an exception: the pairs are pushed.
Pushed(s) == <<KernOff, s[1], s[2]>>
\* rfe
Popped(s) == <<s[2], s[3], s[3]>>

Frame(code, t, s) ==
    [kind |-> "trap", code |-> code, pc |-> pc[t], sr |-> Pushed(s), oldin |-> 0, adjusted |-> FALSE, was |-> spl[t]]

\* The thread a trap from user mode finds.
Curthread(c) == cputhreads[c]

\* common_exception from user mode: stack and current thread come from the processor's entries.
UserTrap(c, code) ==
    /\ pc[cur[c]] = "user"
    /\ code = "IRQ" => sr[c][1] = UserOn
    /\ cur' = [cur EXCEPT ![c] = Curthread(c)]
    /\ stk' = [stk EXCEPT ![cpustacks[c]] = <<Frame(code, cur[c], sr[c])>>]
    /\ sr' = [sr EXCEPT ![c] = Pushed(@)]
    /\ pc' = [pc EXCEPT ![cur'[c]] = "trap"]
    /\ \E no \in Calls : call' = [call EXCEPT ![cur[c]] = IF code = "SYS" THEN [NoCall EXCEPT !.no = no] ELSE NoCall]
    /\ UNCHANGED <<idle, runqueue, cpuVars, spl, badfault, panicked>>

\* common_exception from kernel mode: the stack in use is kept.
KernTrap(c, t, code, s) ==
    /\ stk' = [stk EXCEPT ![t] = <<Frame(code, t, s)>> \o @]
    /\ sr' = [sr EXCEPT ![c] = Pushed(s)]
    /\ pc' = [pc EXCEPT ![t] = "trap"]
    /\ UNCHANGED <<cur, idle, runqueue, cpuVars, spl, call, badfault, panicked>>

\* An interrupt in the kernel, when interrupts are on; or as cpu_idle turns them on and off again.
KernIrq(c) ==
    /\ pc[cur[c]] \in {"sys", "fault", "irq", "ret", "new"} /\ sr[c][1] = KernOn
    /\ KernTrap(c, cur[c], "IRQ", sr[c])
IdleIrq(c) ==
    /\ pc[cur[c]] = "idle"
    /\ KernTrap(c, cur[c], "IRQ", irq(c, KernOn)[c])

\* A system call touches the program's memory, between copyin's setting of badfaultfunc and its clearing.
Touch(c) ==
    /\ pc[cur[c]] = "sys" /\ badfault[cur[c]]
    /\ KernTrap(c, cur[c], "TLB", sr[c])

-----------------------------------------------------------------------------
Top(t) == Head(stk[t])

\* mips_trap on an interrupt: the recorded level is raised to what the processor did.
\* Variant: the recorded level is left alone.
AdjustNot(s) == [s EXCEPT !.intr = 1]
Adjust(s) == [s EXCEPT !.intr = 1, !.cur = 1, !.high = IF s.cur = 0 THEN @ + 1 ELSE @]
\* Variant: interrupts are turned on as for the other traps.
TrapIrqOn(c) ==
    LET t == cur[c]
    IN  /\ pc[t] = "trap" /\ Top(t).code = "IRQ"
        /\ spl' = [spl EXCEPT ![t] = Adjust(@)]
        /\ stk' = [stk EXCEPT ![t] = <<[Top(t) EXCEPT !.oldin = spl[t].intr, !.adjusted = spl[t].cur = 0]>> \o Tail(@)]
        /\ pc' = [pc EXCEPT ![t] = "irq"]
        /\ sr' = irq(c, KernOn)
        /\ UNCHANGED <<schedVars, cpuVars, call, badfault, panicked>>
TrapIrq(c) ==
    LET t == cur[c]
    IN  /\ pc[t] = "trap" /\ Top(t).code = "IRQ"
        /\ spl' = [spl EXCEPT ![t] = Adjust(@)]
        /\ stk' = [stk EXCEPT ![t] = <<[Top(t) EXCEPT !.oldin = spl[t].intr, !.adjusted = spl[t].cur = 0]>> \o Tail(@)]
        /\ pc' = [pc EXCEPT ![t] = "irq"]
        /\ UNCHANGED <<schedVars, sr, cpuVars, call, badfault, panicked>>

\* mips_trap otherwise: splhigh and splx bring the processor back to the level of the context that trapped.
Restored(s) == splx(splx(s, 1), s.cur)
\* Variant: interrupts stay off.
RestoreIrqNot(c, t) == UNCHANGED sr
RestoreIrq(c, t) == sr' = irq(c, IF spl[t].cur = 0 /\ Restored(spl[t]).high = 0 THEN KernOn ELSE sr[c][1])
TrapOther(c) ==
    LET t == cur[c]
    IN  /\ pc[t] = "trap" /\ Top(t).code # "IRQ"
        /\ spl' = [spl EXCEPT ![t] = Restored(@)]
        /\ RestoreIrq(c, t)
        /\ pc' = [pc EXCEPT ![t] = IF Top(t).code = "SYS" THEN "sys" ELSE "fault"]
        /\ UNCHANGED <<schedVars, cpuVars, stk, call, badfault, panicked>>

Store(c, t) == cputhreads' = [cputhreads EXCEPT ![c] = t] /\ cpustacks' = [cpustacks EXCEPT ![c] = t]

\* done: cpu_irqoff, with the recorded level unchanged.
done(c) == sr' = irq(c, KernOff)

Leave(c, t) == done(c) /\ Store(c, t) /\ pc' = [pc EXCEPT ![t] = "ret"]

\* The rest of an interrupt, after mainbus_interrupt.
\* Variant: the count of raised levels is not lowered again.
UnadjustCur(s, f) == [s EXCEPT !.intr = f.oldin, !.cur = IF f.adjusted THEN 0 ELSE @]
Unadjust(s, f) ==
    [s EXCEPT !.intr = f.oldin, !.cur = IF f.adjusted THEN 0 ELSE @, !.high = IF f.adjusted THEN @ - 1 ELSE @]
IrqDone(c) ==
    LET t == cur[c]
    IN  /\ pc[t] = "irq"
        /\ spl' = [spl EXCEPT ![t] = Unadjust(@, Top(t))]
        /\ Store(c, t)
        /\ pc' = [pc EXCEPT ![t] = "ret"]
        /\ UNCHANGED <<schedVars, sr, stk, call, badfault, panicked>>

\* exception_return
Return(c) ==
    LET t == cur[c]
    IN  /\ pc[t] = "ret"
        /\ sr' = [sr EXCEPT ![c] = Popped(Top(t).sr)]
        /\ pc' = [pc EXCEPT ![t] = Top(t).pc]
        /\ stk' = [stk EXCEPT ![t] = Tail(@)]
        /\ call' = [call EXCEPT ![t] = IF Top(t).pc = "user" THEN NoCall ELSE @]
        /\ UNCHANGED <<schedVars, cpuVars, spl, badfault, panicked>>

\* A program's fatal trap, of whatever kind, stops the system, as the kernel's own does.
kill_curthread == panicked' = TRUE

\* vm_fault succeeds; or the fault is fatal: to the whole system from user mode (kill_curthread), and from
\* the kernel unless copyin or copyout expected it, which then goes on in copyfail and returns EFAULT.
FaultDone(c, ok) ==
    LET t == cur[c]
        expected == Top(t).pc = "sys" /\ badfault[t]
    IN  /\ pc[t] = "fault" /\ spl[t].cur = Top(t).was.cur
        /\ IF ok \/ expected
           THEN Leave(c, t) /\ UNCHANGED panicked
           ELSE kill_curthread /\ UNCHANGED <<sr, cpuVars, pc>>
        /\ badfault' = [badfault EXCEPT ![t] = @ /\ (ok \/ ~expected)]
        /\ call' = [call EXCEPT ![t] = IF ~ok /\ expected THEN [@ EXCEPT !.done = FALSE, !.a3 = 1] ELSE @]
        /\ UNCHANGED <<schedVars, stk, spl>>

-----------------------------------------------------------------------------
\* The bodies of system calls.  __time copies out its answer twice; the level is raised and lowered again.
CopyStart(c) ==
    LET t == cur[c]
    IN  /\ pc[t] = "sys" /\ call[t].no = "time" /\ ~call[t].done /\ call[t].a3 = 0 /\ ~badfault[t] /\ spl[t].cur = 0
        /\ badfault' = [badfault EXCEPT ![t] = TRUE]
        /\ UNCHANGED <<schedVars, sr, cpuVars, pc, stk, spl, call, panicked>>
CopyEnd(c) ==
    LET t == cur[c]
    IN  /\ pc[t] = "sys" /\ badfault[t]
        /\ badfault' = [badfault EXCEPT ![t] = FALSE]
        /\ call' = [call EXCEPT ![t].done = TRUE]
        /\ UNCHANGED <<schedVars, sr, cpuVars, pc, stk, spl, panicked>>
SetSpl(c, n) ==
    LET t == cur[c]
    IN  /\ pc[t] \in {"sys", "fault"} /\ spl[t].cur # n /\ ~(pc[t] = "sys" /\ badfault[t])
        /\ spl' = [spl EXCEPT ![t] = splx(@, n)]
        /\ sr' = irq(c, Switched(sr[c][1], spl[t], splx(spl[t], n)))
        /\ UNCHANGED <<schedVars, cpuVars, pc, stk, call, badfault, panicked>>

\* What a call returns in err: the demonstrations return what kprintf printed, sleepdemo returns nothing.
\* Variant: __time ignores the result of copyout.
ErrsZero(t) == IF call[t].no = "time" THEN {0} ELSE {1}
Errs(t) ==
    CASE call[t].no \in {"helloworld", "PrintInt", "PrintString"} -> {1}
      [] call[t].no = "sleepdemo" -> {0, 1}
      [] call[t].no = "threaddemo" -> {0}
      [] call[t].no = "time" -> {IF call[t].done THEN 0 ELSE 1}
      [] OTHER -> {1}
Served(t) == call[t].no \in {"helloworld", "PrintInt", "PrintString", "sleepdemo", "threaddemo"} \/ call[t].done

\* syscall, after the body: v0 and a3 are set and the program counter is advanced.
SyscallDone(c) ==
    LET t == cur[c]
    IN  /\ pc[t] = "sys" /\ call[t].no # "exit" /\ spl[t].cur = 0 /\ ~badfault[t]
        /\ call[t].no = "time" => call[t].done \/ call[t].a3 = 1
        /\ \E err \in Errs(t) : call' = [call EXCEPT ![t] = [no |-> call[t].no, done |-> Served(t), a3 |-> err]]
        /\ Leave(c, t)
        /\ UNCHANGED <<schedVars, stk, spl, badfault, panicked>>

-----------------------------------------------------------------------------
\* mips_usermode, of a thread that enters a program.
Enter(c) ==
    LET t == cur[c]
    IN  /\ pc[t] = "new"
        /\ spl' = [spl EXCEPT ![t] = splx(@, 0)]
        /\ stk' = [stk EXCEPT ![t] = <<[Frame("NEW", t, sr[c]) EXCEPT !.pc = "user", !.sr = <<KernOff, UserOn, KernOff>>]>>]
        /\ Leave(c, t)
        /\ UNCHANGED <<schedVars, call, badfault, panicked>>

\* thread_switch: the level goes up, the run queue's lock raises it once more, and the thread that is resumed
\* lowers both on its own account.
SwitchFrame(t) == [kind |-> "switch", spl |-> spl[t].cur, pc |-> pc[t]]
Away(t) == Raised(splx(spl[t], 1))
Resume(c, t, s, p, k) ==
    /\ cur' = [cur EXCEPT ![c] = t] /\ idle' = [idle EXCEPT ![c] = FALSE]
    /\ spl' = [s EXCEPT ![t] = splx([s[t] EXCEPT !.high = @ - 1], Head(k[t]).spl)]
    /\ sr' = irq(c, IF spl'[t].high = 0 THEN KernOn ELSE KernOff)
    /\ pc' = [p EXCEPT ![t] = Head(k[t]).pc]
    /\ stk' = [k EXCEPT ![t] = Tail(@)]

\* The ready threads a processor may get: thread_consider_migration leaves alone the thread in whose context
\* its processor idles.
\* Variant: that one is migrated too.
MigratableAny(c) == runqueue
Migratable(c) == {n \in runqueue : \A d \in Cpu \ {c} : cur[d] # n}

\* A thread leaves the processor: it yields from an interrupt, sleeps in a system call or a fault, or exits.
\* Nothing happens on an idle processor, nor when it yields and nobody is ready.
SwitchOut(c, how) ==
    LET t == cur[c]
        s == [spl EXCEPT ![t] = Away(t)]
        k == [stk EXCEPT ![t] = <<SwitchFrame(t)>> \o @]
        p == [pc EXCEPT ![t] = IF how = "exit" THEN "zombie" ELSE "switched"]
    IN  /\ ~idle[c]
        /\ CASE how = "yield" -> pc[t] = "irq" /\ Migratable(c) # {}
             [] how = "sleep" -> pc[t] \in {"sys", "fault"} /\ ~badfault[t] /\ spl[t].cur = 0
             [] how = "exit" -> pc[t] = "sys" /\ call[t].no = "exit" /\ spl[t].cur = 0
        /\ IF Migratable(c) = {}
           THEN /\ idle' = [idle EXCEPT ![c] = TRUE]
                /\ spl' = [spl EXCEPT ![t] = splx(@, 1)]
                /\ sr' = irq(c, KernOff)
                /\ pc' = [pc EXCEPT ![t] = "idle"]
                /\ stk' = IF how = "exit" THEN [k EXCEPT ![t][1].pc = "zombie"] ELSE k
                /\ UNCHANGED <<cur, runqueue>>
           ELSE \E n \in Migratable(c) :
                    /\ Resume(c, n, s, p, k)
                    /\ runqueue' = (runqueue \ {n}) \cup (IF how = "yield" THEN {t} ELSE {})
        /\ UNCHANGED <<cpuVars, call, badfault, panicked>>

\* The idle loop: a thread has become ready, perhaps the one whose context idles.
IdleEnd(c) ==
    LET t == cur[c]
        s == [spl EXCEPT ![t] = Raised(@)]
        p == [pc EXCEPT ![t] = IF Top(t).pc = "zombie" THEN "zombie" ELSE "switched"]
    IN  /\ pc[t] = "idle" /\ Top(t).kind = "switch"
        /\ \E n \in Migratable(c) : Resume(c, n, s, p, stk) /\ runqueue' = runqueue \ {n}
        /\ UNCHANGED <<cpuVars, call, badfault, panicked>>

\* An interrupt wakes a sleeping thread.
Wake(c, t) ==
    /\ pc[cur[c]] = "irq" /\ t \notin runqueue
    /\ \/ pc[t] = "switched"
       \/ \E d \in Cpu : idle[d] /\ cur[d] = t /\ Head(SelectSeq(stk[t], LAMBDA f : f.kind = "switch")).pc # "zombie"
    /\ runqueue' = runqueue \cup {t}
    /\ UNCHANGED <<cur, idle, sr, cpuVars, pc, stk, spl, call, badfault, panicked>>

Next ==
    /\ ~panicked
    /\ \E c \in Cpu :
          \/ \E code \in Codes : UserTrap(c, code)
          \/ KernIrq(c) \/ IdleIrq(c) \/ Touch(c)
          \/ TrapIrq(c) \/ TrapOther(c) \/ IrqDone(c) \/ Return(c)
          \/ \E ok \in BOOLEAN : FaultDone(c, ok)
          \/ CopyStart(c) \/ CopyEnd(c) \/ SyscallDone(c) \/ Enter(c)
          \/ \E n \in Levels : SetSpl(c, n)
          \/ \E how \in {"yield", "sleep", "exit"} : SwitchOut(c, how)
          \/ IdleEnd(c)
          \/ \E t \in Thread : Wake(c, t)

Spec == Init /\ [][Next]_vars

-----------------------------------------------------------------------------
\* Type invariant: what each variable may hold.
TypeOK ==
    /\ cur \in [Cpu -> Thread] /\ idle \in [Cpu -> BOOLEAN] /\ runqueue \subseteq Thread
    /\ \A c \in Cpu : sr[c] \in [1..3 -> {UserOn, KernOn, KernOff}]
    /\ cpustacks \in [Cpu -> Thread] /\ cputhreads \in [Cpu -> Thread]
    /\ \A t \in Thread :
          /\ pc[t] \in {"new", "user", "trap", "sys", "fault", "irq", "ret", "idle", "switched", "zombie"}
          /\ spl[t].cur \in {0, 1} /\ spl[t].high \in 0..2 /\ spl[t].intr \in {0, 1}

Running(t) == \E c \in Cpu : cur[c] = t

\* Whenever a program runs, the processor it runs on is ready for its next trap: the entries hold this
\* thread and its stack, though the thread may have come to the processor since its last trap, interrupts are
\* on, and nothing of the thread's levels is left raised.
UserReady ==
    \A c \in Cpu :
        pc[cur[c]] = "user" =>
            /\ cpustacks[c] = cur[c] /\ cputhreads[c] = cur[c]
            /\ sr[c][1] = UserOn /\ spl[cur[c]] = Low /\ stk[cur[c]] = <<>>

\* No thread runs on two processors, and the kernel never runs in user mode.
OnePlace ==
    /\ \A c, d \in Cpu : c # d => cur[c] # cur[d]
    /\ \A c \in Cpu : pc[cur[c]] # "user" => sr[c][1] # UserOn

\* Interrupts are on only when the thread's recorded level is low, and off only when it is raised: nothing
\* is interrupted while it holds a spinlock, and nothing that should be interrupted stays closed to it.
LevelIsReal ==
    \A c \in Cpu :
        pc[cur[c]] \in {"sys", "fault", "irq", "new"} => (sr[c][1] = KernOn <=> spl[cur[c]].cur = 0 /\ spl[cur[c]].high = 0)

\* The assertions of mips_trap, mainbus_interrupt and syscall about the level.
AssertsHold ==
    \A c \in Cpu :
        LET t == cur[c]
        IN  /\ pc[t] = "trap" /\ Top(t).code = "IRQ" /\ spl[t].cur = 0 => spl[t].high = 0
            /\ pc[t] = "irq" => spl[t].cur > 0 /\ (Top(t).adjusted => spl[t].high = 1)
            /\ pc[t] = "trap" /\ Top(t).code = "SYS" => spl[t].cur = 0 /\ spl[t].high = 0

\* An interrupt leaves the thread it interrupted at the level it found, whatever it switched to meanwhile.
InterruptTransparent ==
    \A c \in Cpu : LET t == cur[c] IN pc[t] = "ret" /\ Top(t).code = "IRQ" => spl[t] = Top(t).was

\* Traps nest at most three deep on a kernel stack: a trap of the program, a fault of the kernel in it, and an
\* interrupt; interrupts do not pile up.
NestingBounded ==
    \A t \in Thread :
        /\ Len(SelectSeq(stk[t], LAMBDA f : f.kind = "trap")) <= 3
        /\ Len(SelectSeq(stk[t], LAMBDA f : f.kind = "trap" /\ f.code = "IRQ")) <= 1

\* A program that gets its system call back is told of an error exactly when the call was not carried out.
ErrorFlag ==
    \A t \in Thread :
        pc[t] = "ret" /\ Top(t).code = "SYS" => (call[t].a3 = 0 <=> call[t].done)
=============================================================================
