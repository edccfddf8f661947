----------------------------- MODULE KernelPanic -----------------------------
(* panic of kern/lib/kprintf.c, with thread_panic of kern/thread/thread.c: a  *)
(* CPU whose assertion fails stops the other CPUs, prints, syncs the disks    *)
(* and switches the machine off.  A step of this may itself panic.  The       *)
(* static variable evil, which no lock protects, says how far panic has got.  *)
EXTENDS Naturals, FiniteSets

CONSTANTS CPUs,
          MayPanic,    \* the CPUs whose code fails an assertion
          None

VARIABLES
    evil,
    pc,          \* "run", "print" (in kprintf, with the spinlock), "check", "set", "do", "last", "halted"
    stage,       \* the part of panic, 0..4
    spl,         \* interrupts are off on the CPU
    ipi,         \* IPI_PANIC is pending
    lock,        \* kprintf_spinlock: its holder
    off,         \* the machine is switched off
    did          \* the parts each CPU has begun (history): how often

vars == <<evil, pc, stage, spl, ipi, lock, off, did>>
Stages == 0 .. 4

Init ==
    /\ evil = 0 /\ pc = [c \in CPUs |-> "run"] /\ stage = [c \in CPUs |-> 0]
    /\ spl = [c \in CPUs |-> FALSE] /\ ipi = [c \in CPUs |-> FALSE]
    /\ lock = None /\ off = FALSE /\ did = [c \in CPUs |-> [s \in Stages |-> 0]]

At(c, l) == ~ off /\ pc[c] = l
To(c, l) == pc' = [pc EXCEPT ![c] = l]

\* kprintf outside panic, at a high interrupt level: under the spinlock.
\* Variant: interrupts stay on
kprintf_open(c) ==
    /\ At(c, "run") /\ lock = None /\ lock' = c /\ To(c, "print")
    /\ UNCHANGED <<evil, stage, spl, ipi, off, did>>
kprintf(c) ==
    /\ At(c, "run") /\ lock = None /\ lock' = c /\ spl' = [spl EXCEPT ![c] = TRUE]
    /\ To(c, "print") /\ UNCHANGED <<evil, stage, ipi, off, did>>
Printed(c) ==
    /\ At(c, "print") /\ lock' = None /\ spl' = [spl EXCEPT ![c] = FALSE]
    /\ To(c, "run") /\ UNCHANGED <<evil, stage, ipi, off, did>>

\* badassert: panic is entered, also from inside panic.
Enter(c) == pc' = [pc EXCEPT ![c] = "check"] /\ stage' = [stage EXCEPT ![c] = 0]
badassert(c) ==
    /\ c \in MayPanic /\ (At(c, "run") \/ At(c, "print"))
    /\ Enter(c) /\ UNCHANGED <<evil, spl, ipi, lock, off, did>>
Nested(c) ==
    /\ At(c, "do") /\ stage[c] \in 1 .. 3      \* the last part only writes a register
    /\ Enter(c) /\ UNCHANGED <<evil, spl, ipi, lock, off, did>>

\* "if (evil == k)", and after the last part the endless loop.
Check(c) ==
    /\ At(c, "check")
    /\ IF evil = stage[c] THEN To(c, "set") /\ UNCHANGED stage
       ELSE IF stage[c] < 4 THEN stage' = [stage EXCEPT ![c] = @ + 1] /\ UNCHANGED pc
       ELSE To(c, "last") /\ UNCHANGED stage
    /\ UNCHANGED <<evil, spl, ipi, lock, off, did>>
\* Variant: evil is not raised before the message
SetEvilNot(c) ==
    /\ At(c, "set") /\ To(c, "do") /\ evil' = IF stage[c] = 2 THEN evil ELSE stage[c] + 1
    /\ did' = [did EXCEPT ![c][stage[c]] = IF @ < 2 THEN @ + 1 ELSE @]
    /\ UNCHANGED <<stage, spl, ipi, lock, off>>
\* "evil = k + 1"
SetEvil(c) ==
    /\ At(c, "set") /\ evil' = stage[c] + 1 /\ To(c, "do")
    /\ did' = [did EXCEPT ![c][stage[c]] = IF @ < 2 THEN @ + 1 ELSE @]
    /\ UNCHANGED <<stage, spl, ipi, lock, off>>

Done(c) ==
    IF stage[c] < 4 THEN To(c, "check") /\ stage' = [stage EXCEPT ![c] = @ + 1]
    ELSE To(c, "last") /\ UNCHANGED stage

splhigh(c) ==
    /\ At(c, "do") /\ stage[c] = 0 /\ spl' = [spl EXCEPT ![c] = TRUE]
    /\ Done(c) /\ UNCHANGED <<evil, ipi, lock, off, did>>
\* thread_panic: ipi_broadcast; the CPU's own run queue is dropped.
\* Variant: the CPU sends it to itself too
thread_panic_all(c) ==
    /\ At(c, "do") /\ stage[c] = 1 /\ ipi' = [d \in CPUs |-> TRUE] /\ spl' = [spl EXCEPT ![c] = FALSE]
    /\ Done(c) /\ UNCHANGED <<evil, lock, off, did>>
thread_panic(c) ==
    /\ At(c, "do") /\ stage[c] = 1 /\ ipi' = [d \in CPUs |-> ipi[d] \/ d # c]
    /\ Done(c) /\ UNCHANGED <<evil, spl, lock, off, did>>
Message(c) ==
    /\ At(c, "do") /\ stage[c] = 2 /\ lock \in {None, c}
    /\ IF lock = c THEN Enter(c) ELSE Done(c)
    /\ UNCHANGED <<evil, spl, ipi, lock, off, did>>
vfs_sync(c) ==
    /\ At(c, "do") /\ stage[c] = 3 /\ Done(c) /\ UNCHANGED <<evil, spl, ipi, lock, off, did>>
mainbus_panic(c) ==
    /\ At(c, "do") /\ stage[c] = 4 /\ off' = TRUE /\ Done(c) /\ UNCHANGED <<evil, spl, ipi, lock, did>>
panic(c) ==
    Check(c) \/ SetEvil(c) \/ splhigh(c) \/ thread_panic(c) \/ Message(c) \/ vfs_sync(c) \/ mainbus_panic(c)

\* interprocessor_interrupt: "panic on another cpu - just stop dead".
StopDead(c) ==
    /\ ~ off /\ ipi[c] /\ ~ spl[c] /\ pc[c] # "halted"
    /\ To(c, "halted") /\ UNCHANGED <<evil, stage, spl, ipi, lock, off, did>>

Next == \E c \in CPUs : kprintf(c) \/ Printed(c) \/ badassert(c) \/ Nested(c) \/ panic(c) \/ StopDead(c)

Spec == Init /\ [][Next]_vars

------------------------------------------------------------------------------
(* Properties *)

\* Values are in range; the spinlock's holder exists.
TypeOK ==
    /\ evil \in 0 .. 5 /\ stage \in [CPUs -> Stages] /\ lock \in CPUs \cup {None}
    /\ \A c \in CPUs : pc[c] \in {"run", "print", "check", "set", "do", "last", "halted"}

\* A panic inside panic "doesn't try again": no part is begun twice by a CPU.
NoRetry == \A c \in CPUs, s \in Stages : did[c][s] <= 1

\* A CPU is stopped dead only between its own holds of the kprintf spinlock, so
\* the message of another CPU's panic is never waiting for a CPU that is gone.
LockNotLost == lock # None => pc[lock] # "halted"

\* A CPU has entered panic.
Panicking == \E c \in CPUs : pc[c] \in {"check", "set", "do", "last", "halted"}

\* The machine is not left running with no CPU that could switch it off.
NotStuck == off \/ \E c \in CPUs : pc[c] \notin {"last", "halted"}
=============================================================================
