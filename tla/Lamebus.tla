------------------------------- MODULE Lamebus -------------------------------
(***************************************************************************)
(* The system bus: finding the processors and the devices at boot          *)
(* (kern/arch/sys161/dev/lamebus_machdep.c, the generated autoconf.c, the  *)
(* attach and config functions of the drivers) and the dispatch of device  *)
(* interrupts (kern/dev/lamebus/lamebus.c), which are on while devices are *)
(* being found.                                                            *)
(***************************************************************************)
EXTENDS Integers, Sequences, FiniteSets, FiniteSetsExt

CONSTANTS NSlots,     \* LB_NSLOTS, 32; the last one is the controller's
          Present,    \* kinds of device that may be in a slot
          HwCpus,     \* hardware numbers a processor may have, of 0..31
          MaxDuds,    \* 10000
          MaxGlitch,  \* bound: interrupts that nobody signals
          None

LamebusAssumption == NSlots \in Nat \ {0} /\ MaxDuds \in Nat /\ HwCpus # {}

VARIABLES
    kind,      \* what is in each slot
    cpumask, self,      \* the processors there are, and the one that boots
    number,    \* c_number of each processor created
    cram,      \* software number in each processor's CRAM
    irqe,      \* processors that device interrupts are sent to
    inuse,     \* ls_slotsinuse
    hooked,    \* slots with ls_irqfuncs set
    ready,     \* slots whose device is configured
    fields,    \* what is set in the data of the device in each slot
    unit,      \* unit number of the device in each slot
    nextunit,  \* nextunit_X
    child,     \* the_console, the_random, the_beep, the_clock: slot of the device below
    boot,      \* where the boot thread is: kind tried, unit, slot
    line,      \* slots that signal an interrupt
    irq,       \* lamebus_interrupt, when it runs
    duds,
    glitches,
    strange,   \* slots whose handler was called without what it needs
    panicked

hardware == <<kind, cpumask, self>>
cpus == <<number, cram, irqe>>
slots == <<inuse, hooked, ready, fields, unit>>
units == <<nextunit, child>>
intr == <<line, irq, duds, glitches, strange>>
vars == <<hardware, cpus, slots, units, boot, intr, panicked>>

Slots == 0..NSlots - 1
Controller == NSlots - 1

\* The order of autoconf_lamebus, and what autoconf_X attaches to a device of kind X.
Order == <<"emu", "ltrace", "ltimer", "lrandom", "lhd", "lser">>
Children == [k \in {"emu", "ltrace", "ltimer", "lrandom", "lhd", "lser"} |->
    CASE k = "ltimer" -> <<"beep", "rtclock">> [] k = "lrandom" -> <<"random">>
      [] k = "lser" -> <<"con">> [] OTHER -> <<>>]
ChildKinds == {"beep", "rtclock", "random", "con"}
NoIrq == [on |-> FALSE, irqs |-> {}, pos |-> 0, dudsnow |-> 0, last |-> None, reload |-> FALSE]

Init ==
    /\ kind \in [Slots -> Present \cup {None}] /\ kind[Controller] = None
    /\ cpumask \in SUBSET HwCpus /\ self \in cpumask
    /\ number = [h \in {self} |-> 0]
    /\ cram = [h \in {} |-> 0] /\ irqe = {}
    /\ inuse = {Controller} /\ hooked = {} /\ ready = {}
    /\ fields = [s \in Slots |-> {}]
    /\ unit = [s \in {} |-> 0]
    /\ nextunit = [k \in DOMAIN Children \cup ChildKinds |-> 0]
    /\ child = [c \in ChildKinds |-> None]
    /\ boot = [at |-> "cpus", k |-> 1, unit |-> 0, slot |-> None, c |-> 1]
    /\ line = {} /\ irq = NoIrq /\ duds = 0 /\ glitches = 0 /\ strange = {}
    /\ panicked = "no"

\* The boot thread goes on while no interrupt is being handled on its processor.
Booting(at) == boot.at = at /\ ~irq.on
---------------------------------------------------------------------------
Rank(h) == Cardinality({g \in cpumask : g < h})

\* lamebus_find_cpus: the others get their numbers in order of hardware number.
lamebus_find_cpus ==
    /\ Booting("cpus")
    /\ number' = [h \in cpumask |-> IF h = self THEN 0
                                    ELSE IF h < self THEN Rank(h) + 1 ELSE Rank(h)]
    /\ irqe' = {self}
    /\ boot' = [boot EXCEPT !.at = "probe"]
    /\ UNCHANGED <<hardware, cram, slots, units, intr, panicked>>

\* Variant: the boot processor is counted.
StartCounted ==
    /\ Booting("devices")
    /\ cram' = [h \in cpumask \ {self} |-> Rank(h) + 1]
    /\ boot' = [boot EXCEPT !.at = "done"]
    /\ UNCHANGED <<hardware, number, irqe, slots, units, intr, panicked>>

\* lamebus_start_cpus counts the processors other than itself from 1.
lamebus_start_cpus ==
    /\ Booting("devices")
    /\ cram' = [h \in cpumask \ {self} |-> Cardinality({g \in cpumask \ {self} : g <= h})]
    /\ boot' = [boot EXCEPT !.at = "done"]
    /\ UNCHANGED <<hardware, number, irqe, slots, units, intr, panicked>>
---------------------------------------------------------------------------
Candidates(k) == {s \in Slots \ inuse : kind[s] = k}

\* The loop of autoconf_lamebus goes to the next kind of device.
NextKind == [boot EXCEPT !.at = IF boot.k < Len(Order) THEN "probe" ELSE "devices",
                         !.k = IF boot.k < Len(Order) THEN @ + 1 ELSE 1,
                         !.unit = 0, !.slot = None]

\* Variant: the last slot that fits is taken.
ProbeLast ==
    /\ Booting("probe")
    /\ boot' = IF Candidates(Order[boot.k]) = {} THEN NextKind
               ELSE [boot EXCEPT !.at = "mark", !.slot = Max(Candidates(Order[boot.k]))]
    /\ UNCHANGED <<hardware, cpus, slots, units, intr, panicked>>

\* lamebus_probe from attach_X_to_lamebus; nothing found, or no memory for the driver's data, ends the loop.
lamebus_probe ==
    /\ Booting("probe")
    /\ boot' = IF Candidates(Order[boot.k]) = {} THEN NextKind
               ELSE [boot EXCEPT !.at = "mark", !.slot = Min(Candidates(Order[boot.k]))]
    /\ UNCHANGED <<hardware, cpus, slots, units, intr, panicked>>

AttachNoMemory ==
    /\ Booting("mark")
    /\ boot' = NextKind
    /\ UNCHANGED <<hardware, cpus, slots, units, intr, panicked>>

lamebus_mark ==
    /\ Booting("mark")
    /\ inuse' = inuse \cup {boot.slot}
    /\ boot' = [boot EXCEPT !.at = "hook"]
    /\ panicked' = IF boot.slot \in inuse THEN "assert" ELSE panicked
    /\ UNCHANGED <<hardware, cpus, hooked, ready, fields, unit, units, intr>>

\* attach_X_to_lamebus: the fields set before the interrupt is hooked, and whether it is.
attach_emu_to_lamebus == [sets |-> {"bus"}, irq |-> TRUE]
attach_ltrace_to_lamebus == [sets |-> {"bus"}, irq |-> FALSE]
attach_ltimer_to_lamebus == [sets |-> {"bus"}, irq |-> TRUE]
attach_lrandom_to_lamebus == [sets |-> {"bus"}, irq |-> FALSE]
attach_lhd_to_lamebus == [sets |-> {"bus", "unit"}, irq |-> TRUE]
attach_lser_to_lamebus == [sets |-> {"bus", "maskinterrupt", "unmaskinterrupt"}, irq |-> TRUE]

AttachOf(k) ==
    CASE k = "emu" -> attach_emu_to_lamebus       [] k = "ltrace" -> attach_ltrace_to_lamebus
      [] k = "ltimer" -> attach_ltimer_to_lamebus [] k = "lrandom" -> attach_lrandom_to_lamebus
      [] k = "lhd" -> attach_lhd_to_lamebus       [] k = "lser" -> attach_lser_to_lamebus

\* config_X: the fields set.  Only the first timer is the timer clock; the others' lt_timerclock stays unset.
config_emu == {"lock", "sem", "iobuf"}
\* Variant: the clock is started without saying that it is the clock.
TimerUnsaid(u) == {"hardclock"}
config_ltimer(u) == IF u = 0 THEN {"hardclock", "timerclock"} ELSE {"hardclock"}
config_lhd == {"buf", "clear", "done", "dev"}
config_lser == {"lock", "wbusy"}

ConfigOf(k, u) ==
    CASE k = "emu" -> config_emu [] k = "ltimer" -> config_ltimer(u) [] k = "lhd" -> config_lhd
      [] k = "lser" -> config_lser [] OTHER -> {}

\* attach_con_to_lser hands the console's functions to the port before config_con makes its semaphores.
attach_con_to_lser == {"start", "input", "devdata"}
config_con == {"console"}

\* The fields the interrupt handlers use, those of the console below lser_irq included.
emu_irq == {"bus", "sem"}
ltimer_irq == {"bus", "hardclock", "timerclock"}
lhd_irq == {"bus", "done"}
lser_irq == {"bus", "lock", "wbusy", "start", "input", "devdata", "console"}

HandlerOf(k) ==
    CASE k = "emu" -> emu_irq [] k = "ltimer" -> ltimer_irq [] k = "lhd" -> lhd_irq [] k = "lser" -> lser_irq

lamebus_attach_interrupt ==
    LET a == AttachOf(Order[boot.k]) IN
    /\ Booting("hook")
    /\ panicked' = IF boot.slot \notin inuse \/ boot.slot \in hooked THEN "assert" ELSE panicked
    /\ hooked' = IF a.irq THEN hooked \cup {boot.slot} ELSE hooked
    /\ fields' = [fields EXCEPT ![boot.slot] = a.sets]
    /\ unit' = [s \in DOMAIN unit \cup {boot.slot} |-> IF s = boot.slot THEN boot.unit ELSE unit[s]]
    /\ boot' = [boot EXCEPT !.at = "config"]
    /\ UNCHANGED <<hardware, cpus, inuse, ready, units, intr>>

\* config_X, with what tryattach_X_to_lamebus does with its result.
Config ==
    LET k == Order[boot.k] IN
    /\ Booting("config")
    /\ ready' = ready \cup {boot.slot}
    /\ fields' = [fields EXCEPT ![boot.slot] = @ \cup ConfigOf(k, boot.unit)]
    /\ nextunit' = [nextunit EXCEPT ![k] = boot.unit + 1]
    /\ boot' = [boot EXCEPT !.at = "children", !.c = 1]
    /\ UNCHANGED <<hardware, cpus, inuse, hooked, unit, child, intr, panicked>>

\* config_emu and config_lhd may fail; the slot stays in use and no further device of the kind is tried.
ConfigFails ==
    /\ Booting("config") /\ Order[boot.k] \in {"emu", "lhd"}
    /\ boot' = NextKind
    /\ UNCHANGED <<hardware, cpus, slots, units, intr, panicked>>

\* autoconf_X: each generic device that has no unit yet is tried on this one.  That may fail for want of
\* memory in attach_Y_to_X, in config_con before the console is recorded, or in config_con and config_random
\* after the device is recorded.
Attach(c, how) ==
    /\ panicked' = IF how # "noattach" /\ child[c] # None THEN "assert" ELSE panicked
    /\ child' = IF how \in {"late", "ok"} THEN [child EXCEPT ![c] = boot.slot] ELSE child
    /\ nextunit' = IF how = "ok" THEN [nextunit EXCEPT ![c] = 1] ELSE nextunit
    /\ fields' = [fields EXCEPT ![boot.slot] = @ \cup
           (IF c # "con" \/ how = "noattach" THEN {}
            ELSE IF how = "noconfig" THEN attach_con_to_lser ELSE attach_con_to_lser \cup config_con)]

\* How it may go, from the errors the attach and config functions return.
attach_beep_to_ltimer == {"ok", "noattach"}
attach_rtclock_to_ltimer == {"ok", "noattach"}
attach_random_to_lrandom == {"ok", "noattach"}
config_random == {"late"}
Ways(c) ==
    CASE c = "beep" -> attach_beep_to_ltimer
      [] c = "rtclock" -> attach_rtclock_to_ltimer
      [] c = "random" -> attach_random_to_lrandom \cup config_random
      [] c = "con" -> {"ok", "noattach", "noconfig", "late"}

AttachChild ==
    LET cs == Children[Order[boot.k]] IN
    /\ Booting("children") /\ boot.c <= Len(cs)
    /\ LET c == cs[boot.c] IN
       IF nextunit[c] <= 0
       THEN \E how \in Ways(c) : Attach(c, how)
       ELSE UNCHANGED <<panicked, child, nextunit, fields>>
    /\ boot' = [boot EXCEPT !.c = @ + 1]
    /\ UNCHANGED <<hardware, cpus, inuse, hooked, ready, unit, intr>>

\* The loop of autoconf_lamebus tries the next unit.
NextUnit ==
    /\ Booting("children") /\ boot.c > Len(Children[Order[boot.k]])
    /\ boot' = [boot EXCEPT !.at = "probe", !.unit = @ + 1, !.slot = None]
    /\ UNCHANGED <<hardware, cpus, slots, units, intr, panicked>>
---------------------------------------------------------------------------
\* Devices signal when they were told to: a serial port and the timer once configured, a disk or the
\* emulated file system once in use, one no driver knows at any time.
Signal ==
    \E s \in Slots \ line :
        /\ \/ kind[s] = "lser" /\ s \in ready
           \/ kind[s] = "ltimer" /\ s \in ready /\ unit[s] = 0
           \/ kind[s] \in {"lhd", "emu"} /\ s \in ready /\ boot.at = "done"
           \/ kind[s] = "unknown"
        /\ line' = line \cup {s}
        /\ UNCHANGED <<hardware, cpus, slots, units, boot, irq, duds, glitches, strange, panicked>>

\* lamebus_interrupt, on the one processor that gets device interrupts; it may find that nobody signals.
lamebus_interrupt ==
    /\ irqe # {} /\ ~irq.on
    /\ \/ line # {} /\ UNCHANGED glitches
       \/ line = {} /\ glitches < MaxGlitch /\ glitches' = glitches + 1
    /\ duds' = IF line = {} THEN duds + 1 ELSE duds
    /\ irq' = [on |-> TRUE, irqs |-> line, pos |-> 0, dudsnow |-> IF line = {} THEN 1 ELSE 0,
               last |-> None, reload |-> FALSE]
    /\ UNCHANGED <<hardware, cpus, slots, units, boot, line, strange, panicked>>

Left == {s \in irq.irqs : s >= irq.pos}

\* The next slot that signals: a dud, or its handler, which quiets the device.
CallHandler ==
    /\ irq.on /\ ~irq.reload /\ Left # {}
    /\ LET s == Min(Left) IN
       IF s \notin inuse \/ s \notin hooked
       THEN /\ duds' = duds + 1
            /\ irq' = [irq EXCEPT !.pos = s + 1, !.dudsnow = @ + 1]
            /\ UNCHANGED <<line, strange>>
       ELSE /\ line' = line \ {s}
            /\ irq' = [irq EXCEPT !.pos = s + 1, !.last = s, !.reload = TRUE]
            /\ strange' = IF HandlerOf(kind[s]) \subseteq fields[s] THEN strange ELSE strange \cup {s}
            /\ UNCHANGED duds
    /\ UNCHANGED <<hardware, cpus, slots, units, boot, glitches, panicked>>

\* Variant: the slot just served is looked at again.
ReloadSame ==
    /\ irq.reload
    /\ irq' = [irq EXCEPT !.irqs = line, !.reload = FALSE, !.pos = irq.last]
    /\ UNCHANGED <<hardware, cpus, slots, units, boot, line, duds, glitches, strange, panicked>>

\* The register is read again, with what has been signalled in the meantime.
Reload ==
    /\ irq.reload
    /\ irq' = [irq EXCEPT !.irqs = line, !.reload = FALSE]
    /\ UNCHANGED <<hardware, cpus, slots, units, boot, line, duds, glitches, strange, panicked>>

\* Variant: any interrupt that was served clears the count.
EndForgiving ==
    /\ irq.on /\ ~irq.reload /\ Left = {}
    /\ duds' = IF irq.dudsnow <= 1 THEN 0 ELSE duds
    /\ panicked' = IF duds' > MaxDuds THEN "duds" ELSE panicked
    /\ irq' = NoIrq
    /\ UNCHANGED <<hardware, cpus, slots, units, boot, line, glitches, strange>>

EndInterrupt ==
    /\ irq.on /\ ~irq.reload /\ Left = {}
    /\ duds' = IF irq.dudsnow = 0 THEN 0 ELSE duds
    /\ panicked' = IF duds' > MaxDuds THEN "duds" ELSE panicked
    /\ irq' = NoIrq
    /\ UNCHANGED <<hardware, cpus, slots, units, boot, line, glitches, strange>>
---------------------------------------------------------------------------
autoconf_lamebus ==
    \/ lamebus_probe \/ AttachNoMemory \/ lamebus_mark \/ lamebus_attach_interrupt
    \/ Config \/ ConfigFails \/ AttachChild \/ NextUnit

mainbus_bootstrap == lamebus_find_cpus \/ autoconf_lamebus \/ lamebus_start_cpus
Handle == lamebus_interrupt \/ CallHandler \/ Reload \/ EndInterrupt

Next == panicked = "no" /\ (mainbus_bootstrap \/ Signal \/ Handle)

Spec == Init /\ [][Next]_vars
---------------------------------------------------------------------------
\* Type invariant: what each variable may hold.
TypeOK ==
    /\ hooked \subseteq inuse /\ ready \subseteq inuse
    /\ inuse \subseteq Slots /\ line \subseteq Slots /\ hooked \subseteq DOMAIN unit
    /\ duds \in 0..MaxDuds + NSlots /\ panicked \in {"no", "duds", "assert"}

\* Devices of one kind get unit numbers in the order of their slots, with no gap and none twice, though
\* memory may run out and configuring may fail on the way.
UnitsInOrder ==
    \A s \in DOMAIN unit :
        unit[s] = Cardinality({r \in DOMAIN unit : kind[r] = kind[s] /\ r < s})

\* The numbers written into the CRAM of the other processors are the ones they were created with.
CpuNumbersAgree == \A h \in DOMAIN cram : cram[h] = number[h]

\* Whatever handler is called has the functions and data it uses.
HandlersReady == strange = {}

Panicked == panicked # "no"
\* A device with a handler signals, and it has been called.
Signals(s) == s \in line /\ s \in hooked
Answered(s) == irq.last = s \/ Panicked
\* A slot signals that nobody can quiet.
Stuck == \E s \in Slots : s \in line /\ kind[s] = "unknown" /\ irqe # {}
=============================================================================
