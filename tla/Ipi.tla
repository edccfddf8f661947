--------------------------------- MODULE Ipi ---------------------------------
(***************************************************************************)
(* Interprocessor interrupts: ipi_send, ipi_broadcast, ipi_tlbshootdown and*)
(* interprocessor_interrupt of thread.c, with the dispatch and the         *)
(* interrupt line of the system board (lamebus_machdep.c, lamebus.c).      *)
(* Sections under c_ipi_lock are one step.                                 *)
(***************************************************************************)
EXTENDS Integers, Sequences, FiniteSets

CONSTANTS Cpus, Pages,
          MaxShootdown,   \* TLBSHOOTDOWN_MAX, 16
          MaxAsked        \* bound: shootdowns asked of a CPU before it takes the interrupt

IpiAssumption == MaxShootdown \in Nat \ {0} /\ MaxAsked \in Nat

All == -1                 \* TLBSHOOTDOWN_ALL

VARIABLES
    pending,    \* c_ipi_pending: a set of IPI numbers
    num,        \* c_numshootdown
    shootdown,  \* c_shootdown, what has been written of it
    line,       \* the line the bus controller asserts
    pc,
    asked       \* the mappings other CPUs asked this one to remove since it last did

vars == <<pending, num, shootdown, line, pc, asked>>

Slots == 0..MaxShootdown - 1

Init ==
    /\ pending = [c \in Cpus |-> {}]
    /\ num = [c \in Cpus |-> 0]
    /\ shootdown = [c \in Cpus |-> <<>>]
    /\ line = [c \in Cpus |-> FALSE]
    /\ pc = [c \in Cpus |-> "run"]
    /\ asked = [c \in Cpus |-> <<>>]

Assert(target, code) ==
    /\ pending' = [pending EXCEPT ![target] = @ \cup {code}]
    /\ line' = [line EXCEPT ![target] = TRUE]

ipi_send(c, target) ==
    /\ pc[c] = "run" /\ target # c
    /\ Assert(target, "UNIDLE")
    /\ UNCHANGED <<num, shootdown, pc, asked>>

\* thread_panic and thread_shutdown: every other CPU is told, and the sender stops.
ipi_broadcast(c, code) ==
    /\ pc[c] = "run" \/ (pc[c] = "panic" /\ code = "PANIC")
    /\ pending' = [d \in Cpus |-> IF d = c THEN pending[d] ELSE pending[d] \cup {code}]
    /\ line' = [d \in Cpus |-> d # c \/ line[d]]
    /\ pc' = [pc EXCEPT ![c] = "halted"]
    /\ UNCHANGED <<num, shootdown, asked>>

\* c_shootdown[n] = *mapping, for n = c_numshootdown: index -1 is before the array.
Stored(s, n, page) == IF n \in Slots THEN Append(SubSeq(s, 1, n), page) ELSE s

\* Variant: the list is one longer than it may be.
ShootdownPastEnd(c, target, page) ==
    /\ pc[c] = "run" /\ target # c /\ Len(asked[target]) < MaxAsked
    /\ shootdown' = [shootdown EXCEPT ![target] = Stored(@, num[target], page)]
    /\ num' = [num EXCEPT ![target] = @ + 1]
    /\ Assert(target, "TLBSHOOTDOWN")
    /\ asked' = [asked EXCEPT ![target] = Append(@, page)]
    /\ UNCHANGED pc

ipi_tlbshootdown(c, target, page) ==
    LET n == num[target] IN
    /\ pc[c] = "run" /\ target # c /\ Len(asked[target]) < MaxAsked
    /\ \/ /\ n = MaxShootdown
          /\ num' = [num EXCEPT ![target] = All]
          /\ UNCHANGED shootdown
       \/ /\ n # MaxShootdown
          /\ shootdown' = [shootdown EXCEPT ![target] = Stored(@, n, page)]
          /\ num' = [num EXCEPT ![target] = n + 1]
    /\ Assert(target, "TLBSHOOTDOWN")
    /\ asked' = [asked EXCEPT ![target] = Append(@, page)]
    /\ UNCHANGED pc

\* vm_tlbshootdown and vm_tlbshootdown_all of addrspace.c: this VM has no shootdown, and panics.
Removes(c) == "TLBSHOOTDOWN" \in pending[c] /\ num[c] # 0

\* mainbus_interrupt finds the line asserted and calls interprocessor_interrupt, which works from the
\* bits and the list it finds under the lock, and clears them.
interprocessor_interrupt(c) ==
    /\ pc[c] = "run" /\ line[c]
    /\ \/ /\ pending[c] \cap {"PANIC", "OFFLINE"} # {}
          /\ pc' = [pc EXCEPT ![c] = "halted"]
          /\ UNCHANGED <<pending, num>>
       \/ /\ pending[c] \cap {"PANIC", "OFFLINE"} = {} /\ Removes(c)
          /\ pc' = [pc EXCEPT ![c] = "panic"]
          /\ UNCHANGED <<pending, num>>
       \/ /\ pending[c] \cap {"PANIC", "OFFLINE"} = {} /\ ~Removes(c)
          /\ pending' = [pending EXCEPT ![c] = {}]
          /\ num' = [num EXCEPT ![c] = IF "TLBSHOOTDOWN" \in pending[c] THEN 0 ELSE @]
          /\ pc' = [pc EXCEPT ![c] = "clear"]
    /\ UNCHANGED <<shootdown, line, asked>>

\* Variant: the line stays as it is.
ClearNothing(c) ==
    /\ pc[c] = "clear"
    /\ pc' = [pc EXCEPT ![c] = "run"]
    /\ UNCHANGED <<pending, num, shootdown, line, asked>>

\* lamebus_clear_ipi, when the handler has returned and released c_ipi_lock.
lamebus_clear_ipi(c) ==
    /\ pc[c] = "clear"
    /\ line' = [line EXCEPT ![c] = FALSE]
    /\ pc' = [pc EXCEPT ![c] = "run"]
    /\ UNCHANGED <<pending, num, shootdown, asked>>

Next == \E c \in Cpus :
    \/ \E target \in Cpus : ipi_send(c, target)
    \/ \E code \in {"PANIC", "OFFLINE"} : ipi_broadcast(c, code)
    \/ \E target \in Cpus, page \in Pages : ipi_tlbshootdown(c, target, page)
    \/ interprocessor_interrupt(c) \/ lamebus_clear_ipi(c)

Spec == Init /\ [][Next]_vars
---------------------------------------------------------------------------
\* Type invariant: what each variable may hold.
TypeOK ==
    /\ pending \in [Cpus -> SUBSET {"PANIC", "OFFLINE", "UNIDLE", "TLBSHOOTDOWN"}]
    /\ num \in [Cpus -> All..MaxShootdown]
    /\ \A c \in Cpus : shootdown[c] \in Seq(Pages) /\ asked[c] \in Seq(Pages)
    /\ line \in [Cpus -> BOOLEAN]
    /\ pc \in [Cpus -> {"run", "clear", "panic", "halted"}]

\* What the list of a CPU says is to be removed.
Listed(c) == IF num[c] = All THEN Pages ELSE {shootdown[c][i] : i \in 1..num[c]}

\* Up to one request more than the list holds, the list says what was asked: the mappings, in order,
\* and then all.
ListMatches == \A c \in Cpus :
    /\ Len(asked[c]) <= MaxShootdown => num[c] = Len(asked[c]) /\ SubSeq(shootdown[c], 1, num[c]) = asked[c]
    /\ Len(asked[c]) = MaxShootdown + 1 => num[c] = All

\* A CPU with its line asserted has something pending, or is about to clear the line: no interrupt
\* is taken for nothing.
NoStray == \A c \in Cpus : line[c] /\ pc[c] = "run" => pending[c] # {}

=============================================================================
