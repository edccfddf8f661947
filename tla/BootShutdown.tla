---------------------------- MODULE BootShutdown ----------------------------
(***************************************************************************)
(* Starting and stopping the machine: boot, the hatching of the secondary  *)
(* processors and sys_reboot (kern/startup/main.c, kern/thread/thread.c).  *)
(* The semaphore cpu_hatch is used by processors that are starting while   *)
(* the boot processor waits on it and destroys it, so V is taken apart     *)
(* into its writes.                                                        *)
(***************************************************************************)
EXTENDS Integers, Sequences, FiniteSets

CONSTANTS NCpu,        \* processors
          MaxReboots   \* bound: threads that call sys_reboot

BootAssumption == NCpu \in Nat \ {0} /\ MaxReboots \in Nat

VARIABLES
    step,      \* how far boot has got
    have,      \* what has been initialised
    missed,    \* history: steps run without what they use
    at,        \* where each processor is
    irq,       \* interrupts on
    sem,       \* cpu_startup_sem: count, lock, destroyed or not
    waits,     \* P(cpu_startup_sem) done
    dead,      \* history: the semaphore was used after sem_destroy
    todo,      \* processors ipi_broadcast has still to send to
    pending,   \* IPI_OFFLINE in c_ipi_pending
    ipilock,   \* processors that hold their own c_ipi_lock for good
    reboots,
    machine    \* "on", "halted" or "off"

boots == <<step, have, missed, sem, waits, dead>>
stops == <<todo, pending, ipilock, reboots, machine>>
vars == <<boots, at, irq, stops>>

Cpus == 0..NCpu - 1

Init ==
    /\ step = 1 /\ have = {} /\ missed = {} /\ waits = 0 /\ dead = FALSE
    /\ at = [c \in Cpus |-> IF c = 0 THEN "boot" ELSE "off"]
    /\ irq = [c \in Cpus |-> FALSE]
    /\ sem = [count |-> 0, locked |-> FALSE, holder |-> FALSE, made |-> FALSE]
    /\ todo = [c \in Cpus |-> {}] /\ pending = {} /\ ipilock = {} /\ reboots = 0 /\ machine = "on"
---------------------------------------------------------------------------
\* A step of boot, what it and what it switches on may use, and what is there after it.
Step(name, uses, gives) == [name |-> name, uses |-> uses, gives |-> gives]

\* Variant: the devices are found before there is a list to put them on.
BootDevicesEarly == <<
    Step("ram_bootstrap", {}, {"memory"}),
    Step("thread_bootstrap", {"memory"}, {"curthread"}),
    Step("hardclock_bootstrap", {"memory"}, {"lbolt"}),
    Step("mainbus_bootstrap", {"memory", "curthread", "lbolt", "knowndevs"}, {"devices"}),
    Step("vfs_bootstrap", {"memory"}, {"knowndevs"}),
    Step("vm_bootstrap", {"memory", "knowndevs", "devices"}, {"swap"}),
    Step("kprintf_bootstrap", {"memory"}, {"kprintf_lock"}),
    Step("thread_start_cpus", {"memory", "devices", "curthread"}, {}),
    Step("vfs_setbootfs", {"knowndevs", "devices"}, {"bootfs"}) >>

\* boot.  kmalloc needs the bounds of memory; spl, curcpu and the spinlocks' holders a current thread; the
\* clock interrupts that mainbus_bootstrap lets in, lbolt; vfs_adddev, knowndevs; the swap disk, the devices.
boot == <<
    Step("ram_bootstrap", {}, {"memory"}),
    Step("thread_bootstrap", {"memory"}, {"curthread"}),
    Step("hardclock_bootstrap", {"memory"}, {"lbolt"}),
    Step("vfs_bootstrap", {"memory"}, {"knowndevs"}),
    Step("mainbus_bootstrap", {"memory", "curthread", "lbolt", "knowndevs"}, {"devices"}),
    Step("vm_bootstrap", {"memory", "knowndevs", "devices"}, {"swap"}),
    Step("kprintf_bootstrap", {"memory"}, {"kprintf_lock"}),
    Step("thread_start_cpus", {"memory", "devices", "curthread"}, {}),
    Step("vfs_setbootfs", {"knowndevs", "devices"}, {"bootfs"}) >>

\* The next step of boot other than thread_start_cpus, which waits; after the last one, the menu.
Bootstrap ==
    /\ at[0] = "boot" /\ boot[step].name # "thread_start_cpus"
    /\ LET b == boot[step] IN
       /\ have' = have \cup b.gives
       /\ missed' = IF b.uses \subseteq have THEN missed ELSE missed \cup {b.name}
       /\ irq' = [irq EXCEPT ![0] = @ \/ b.name = "mainbus_bootstrap"]
    /\ step' = step + 1
    /\ at' = [at EXCEPT ![0] = IF step = Len(boot) THEN "up" ELSE "boot"]
    /\ UNCHANGED <<sem, waits, dead, stops>>

\* thread_start_cpus: the semaphore, then mainbus_start_cpus lets the others go.
thread_start_cpus ==
    /\ at[0] = "boot" /\ boot[step].name = "thread_start_cpus"
    /\ sem' = [sem EXCEPT !.made = TRUE]
    /\ missed' = IF boot[step].uses \subseteq have THEN missed ELSE missed \cup {"thread_start_cpus"}
    /\ at' = [c \in Cpus |-> IF c = 0 THEN "wait" ELSE "hatch"]
    /\ UNCHANGED <<step, have, waits, dead, irq, stops>>

\* P(cpu_startup_sem), when it gets the lock and finds the count above zero.
P ==
    /\ at[0] = "wait" /\ waits < NCpu - 1
    /\ ~sem.locked /\ sem.count > 0
    /\ sem' = [sem EXCEPT !.count = @ - 1] /\ waits' = waits + 1
    /\ UNCHANGED <<step, have, missed, dead, at, irq, stops>>

\* Variant: the boot processor waits for itself too.
DestroyLate ==
    /\ at[0] = "wait" /\ waits = NCpu
    /\ sem' = [sem EXCEPT !.made = FALSE]
    /\ at' = [at EXCEPT ![0] = "boot"] /\ step' = step + 1
    /\ UNCHANGED <<have, missed, waits, dead, irq, stops>>

sem_destroy ==
    /\ at[0] = "wait" /\ waits = NCpu - 1
    /\ sem' = [sem EXCEPT !.made = FALSE]
    /\ at' = [at EXCEPT ![0] = "boot"] /\ step' = step + 1
    /\ UNCHANGED <<have, missed, waits, dead, irq, stops>>

\* cpu_hatch: interrupts on, V(cpu_startup_sem), thread_exit.
Used == dead' = (dead \/ ~sem.made)

Hatch(c) ==
    /\ at[c] = "hatch"
    /\ irq' = [irq EXCEPT ![c] = TRUE] /\ at' = [at EXCEPT ![c] = "V"]
    /\ UNCHANGED <<boots, stops>>

\* V takes the lock ...
VLock(c) ==
    /\ at[c] = "V" /\ ~sem.locked
    /\ sem' = [sem EXCEPT !.locked = TRUE, !.holder = TRUE]
    /\ irq' = [irq EXCEPT ![c] = FALSE] /\ at' = [at EXCEPT ![c] = "count"] /\ Used
    /\ UNCHANGED <<step, have, missed, waits, stops>>

\* Variant: the count is raised and the waiter woken after the lock is given back.
VCountUnlocked(c) ==
    /\ at[c] = "count"
    /\ sem' = [sem EXCEPT !.count = @ + 1, !.locked = FALSE]
    /\ at' = [at EXCEPT ![c] = "holder"] /\ Used
    /\ UNCHANGED <<step, have, missed, waits, irq, stops>>

\* ... raises the count and wakes the waiter ...
VCount(c) ==
    /\ at[c] = "count"
    /\ sem' = [sem EXCEPT !.count = @ + 1]
    /\ at' = [at EXCEPT ![c] = "holder"] /\ Used
    /\ UNCHANGED <<step, have, missed, waits, irq, stops>>

\* ... and spinlock_release clears the holder, then the lock word, the last it touches.
VHolder(c) ==
    /\ at[c] = "holder"
    /\ sem' = [sem EXCEPT !.holder = FALSE]
    /\ at' = [at EXCEPT ![c] = "word"] /\ Used
    /\ UNCHANGED <<step, have, missed, waits, irq, stops>>

VWord(c) ==
    /\ at[c] = "word"
    /\ sem' = [sem EXCEPT !.locked = FALSE]
    /\ irq' = [irq EXCEPT ![c] = TRUE] /\ at' = [at EXCEPT ![c] = "up"] /\ Used
    /\ UNCHANGED <<step, have, missed, waits, stops>>

cpu_hatch(c) == Hatch(c) \/ VLock(c) \/ VCount(c) \/ VHolder(c) \/ VWord(c)
---------------------------------------------------------------------------
\* sys_reboot and shutdown up to thread_shutdown: the file systems are unmounted with interrupts on.
sys_reboot(c) ==
    /\ at[c] = "up" /\ step > Len(boot) /\ reboots < MaxReboots
    /\ at' = [at EXCEPT ![c] = "offline"] /\ reboots' = reboots + 1
    /\ todo' = [todo EXCEPT ![c] = Cpus \ {c}]
    /\ UNCHANGED <<boots, irq, pending, ipilock, machine>>

\* thread_shutdown, ipi_broadcast, ipi_send: one processor after the other, each under its c_ipi_lock.
\* One that halted in interprocessor_interrupt holds it for good.
thread_shutdown(c) ==
    /\ at[c] = "offline" /\ todo[c] # {} /\ irq[c]
    /\ LET t == CHOOSE t \in todo[c] : \A u \in todo[c] : t <= u IN
       IF t \in ipilock
       THEN irq' = [irq EXCEPT ![c] = FALSE] /\ UNCHANGED <<pending, todo>>
       ELSE /\ pending' = pending \cup {t} /\ todo' = [todo EXCEPT ![c] = @ \ {t}]
            /\ UNCHANGED irq
    /\ UNCHANGED <<boots, at, ipilock, reboots, machine>>

\* splhigh at the end of shutdown.
shutdown(c) ==
    /\ at[c] = "offline" /\ todo[c] = {}
    /\ irq' = [irq EXCEPT ![c] = FALSE] /\ at' = [at EXCEPT ![c] = "stop"]
    /\ UNCHANGED <<boots, stops>>

\* mainbus_halt stops the processor; mainbus_reboot and mainbus_poweroff take the power away.
Stop(c) ==
    /\ at[c] = "stop"
    /\ at' = [at EXCEPT ![c] = "halted"]
    /\ machine' \in {"halted", "off"}
    /\ UNCHANGED <<boots, irq, todo, pending, ipilock, reboots>>

\* interprocessor_interrupt with IPI_OFFLINE: the processor halts, inside its c_ipi_lock.
Offline(c) ==
    /\ c \in pending /\ irq[c] /\ at[c] \notin {"halted", "off"}
    /\ at' = [at EXCEPT ![c] = "halted"] /\ irq' = [irq EXCEPT ![c] = FALSE]
    /\ ipilock' = ipilock \cup {c}
    /\ UNCHANGED <<boots, todo, pending, reboots, machine>>

kmain == Bootstrap \/ thread_start_cpus \/ P \/ sem_destroy
Reboot(c) == thread_shutdown(c) \/ shutdown(c) \/ Stop(c)

Next ==
    /\ machine = "on"
    /\ \/ kmain
       \/ \E c \in Cpus : cpu_hatch(c) \/ sys_reboot(c) \/ Reboot(c) \/ Offline(c)

Spec == Init /\ [][Next]_vars
---------------------------------------------------------------------------
\* Type invariant: what each variable may hold.
TypeOK ==
    /\ step \in 1..Len(boot) + 1 /\ waits \in 0..NCpu - 1 /\ sem.count \in 0..NCpu - 1
    /\ \A c \in Cpus : at[c] \in {"off", "boot", "wait", "hatch", "V", "count", "holder", "word", "up",
                                  "offline", "stop", "halted"}
    /\ ipilock \subseteq pending /\ machine \in {"on", "halted", "off"}

\* No step of boot, nor an interrupt it lets in, uses what a later step sets up ("The order of these is
\* important!").
OrderRight == missed = {}

\* The boot processor destroys the semaphore only when no processor is inside V any more, and by then all of
\* them have hatched.
SemaphoreAlive ==
    /\ ~dead
    /\ waits = NCpu - 1 /\ ~sem.made => ~sem.holder /\ \A c \in Cpus : at[c] \notin {"hatch", "V", "count"}

\* Every processor is started, and the menu is reached.
Booted == step > Len(boot) /\ \A c \in Cpus : at[c] \notin {"off", "boot", "hatch"}

Rebooting == \E c \in Cpus : at[c] \in {"offline", "stop", "halted"}
=============================================================================
