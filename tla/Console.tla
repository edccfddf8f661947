------------------------------- MODULE Console -------------------------------
(***************************************************************************)
(* The console (kern/dev/generic/console.c) on the serial port             *)
(* (kern/dev/lamebus/lser.c): output by interrupts, with one character in  *)
(* flight and a semaphore for the right to send; output by polling, from   *)
(* handlers and with interrupts off, on the same port; input through a ring*)
(* buffer filled by the interrupt handler; and the output held back until  *)
(* there is a console.  Sleep locks do nothing in this kernel (synch.c).   *)
(***************************************************************************)
EXTENDS Integers, Sequences, FiniteSets

CONSTANTS Writers,    \* threads in con_io or kprintf with interrupts on
          Boot,       \* the one that is there before the console is
          Pollers,    \* code that prints with interrupts off
          Readers,    \* threads in con_io reading
          Nobody,
          MaxWrite,   \* bound: characters a writer or poller prints
          MaxTyped,   \* bound: characters typed
          BufSize,    \* CONSOLE_INPUT_BUFFER_SIZE, 32
          DelaySize   \* DELAYBUFSIZE, 1024

ConsoleAssumption == Boot \in Writers /\ BufSize \in Nat /\ BufSize > 1 /\ DelaySize \in Nat

VARIABLES
    delayed,    \* delayed_outbuf
    attached,   \* the_console # NULL
    todo,       \* what each writer or poller has yet to print
    pc,
    wsem, rsem, \* the semaphores' counts
    buf, head, tail,   \* cs_gotchars and its two indexes
    lslock,     \* holder of ls_lock
    wbusy,      \* ls_wbusy
    sending,    \* characters the port is sending: none or one
    wactive,    \* LSER_IRQ_ACTIVE in LSER_REG_WIRQ
    received,   \* characters received and not read: none or one
    irq,        \* where the interrupt handler is, and what it has read
    irqpending, \* local of lser_writepolled, of the poller that has the lock
    out,        \* what the port has sent
    sent,       \* what it was given to send
    accepted, got,  \* input: what con_input took, what readers got
    typed,      \* number of characters typed
    panicked

boot == <<delayed, attached>>
output == <<wbusy, sending, wactive, out, sent>>
input == <<buf, head, tail, received, accepted, got, typed>>
vars == <<boot, todo, pc, wsem, rsem, input, lslock, output, irq, irqpending, panicked>>

Idle == [at |-> "none", start |-> FALSE, chars |-> <<>>]

Init ==
    /\ delayed = <<>> /\ attached = FALSE
    /\ todo = [w \in Writers \cup Pollers |-> [i \in 1..MaxWrite |-> <<w, i>>]]
    /\ pc = [t \in Writers \cup Pollers \cup Readers |-> "start"]
    /\ wsem = 1 /\ rsem = 0
    /\ buf = [i \in 0..BufSize - 1 |-> 0] /\ head = 0 /\ tail = 0
    /\ lslock = Nobody
    /\ wbusy = FALSE /\ sending = <<>> /\ wactive = FALSE
    /\ received = <<>>
    /\ irq = Idle
    /\ irqpending = FALSE
    /\ out = <<>> /\ sent = <<>>
    /\ accepted = <<>> /\ got = <<>> /\ typed = 0
    /\ panicked = FALSE

Goto(t, where) == pc' = [pc EXCEPT ![t] = where]
---------------------------------------------------------------------------
\* Before config_con: the character is kept, and the assertion fails when there is no room.
putch_delayed ==
    /\ ~attached /\ todo[Boot] # <<>>
    /\ IF Len(delayed) < DelaySize
       THEN delayed' = Append(delayed, Head(todo[Boot])) /\ UNCHANGED panicked
       ELSE panicked' = TRUE /\ UNCHANGED delayed
    /\ todo' = [todo EXCEPT ![Boot] = Tail(@)]
    /\ UNCHANGED <<attached, pc, wsem, rsem, input, lslock, output, irq, irqpending>>

\* config_con: the thread that configures it prints what was held back before anything else.
config_con ==
    /\ ~attached
    /\ attached' = TRUE
    /\ todo' = [todo EXCEPT ![Boot] = delayed \o @]
    /\ delayed' = <<>>
    /\ UNCHANGED <<pc, wsem, rsem, input, lslock, output, irq, irqpending, panicked>>

\* putch_intr: P(cs_wsem) and then lser_write, which must find the port free.
putch_intr(w) ==
    /\ attached /\ pc[w] = "start" /\ todo[w] # <<>>
    /\ wsem > 0 /\ wsem' = wsem - 1
    /\ Goto(w, "write")
    /\ UNCHANGED <<boot, todo, rsem, input, lslock, output, irq, irqpending, panicked>>

lser_write(w) ==
    /\ pc[w] = "write" /\ lslock = Nobody
    /\ panicked' = (panicked \/ wbusy)
    /\ wbusy' = TRUE
    /\ sending' = <<Head(todo[w])>>
    /\ sent' = Append(sent, Head(todo[w]))
    /\ todo' = [todo EXCEPT ![w] = Tail(@)]
    /\ Goto(w, "start")
    /\ UNCHANGED <<boot, wsem, rsem, input, lslock, wactive, out, irq, irqpending>>

\* The port has sent its character.
PortDone ==
    /\ sending # <<>>
    /\ out' = out \o sending
    /\ sending' = <<>>
    /\ wactive' = TRUE
    /\ UNCHANGED <<boot, todo, pc, wsem, rsem, input, lslock, wbusy, sent, irq, irqpending, panicked>>
---------------------------------------------------------------------------
\* Variant: a poller does not wait for the character in flight.
PollAtOnce(p) ==
    /\ attached /\ pc[p] = "start" /\ todo[p] # <<>> /\ lslock = Nobody
    /\ lslock' = p
    /\ irqpending' = FALSE
    /\ Goto(p, "poll")
    /\ UNCHANGED <<boot, todo, wsem, rsem, input, output, irq, panicked>>
\* lser_writepolled: when a character is in flight, its completion is waited for here, and the
\* interrupt it is owed is left to the character sent now.
PollStart(p) ==
    /\ attached /\ pc[p] = "start" /\ todo[p] # <<>> /\ lslock = Nobody
    /\ lslock' = p
    /\ irqpending' = wbusy
    /\ Goto(p, IF wbusy THEN "drain" ELSE "poll")
    /\ UNCHANGED <<boot, todo, wsem, rsem, input, output, irq, panicked>>

PollDrain(p) ==
    /\ pc[p] = "drain" /\ wactive
    /\ wactive' = FALSE
    /\ Goto(p, "poll")
    /\ UNCHANGED <<boot, todo, wsem, rsem, input, lslock, wbusy, sending, out, sent, irq, irqpending, panicked>>

PollSend(p) ==
    /\ pc[p] = "poll"
    /\ sending' = <<Head(todo[p])>>
    /\ sent' = Append(sent, Head(todo[p]))
    /\ todo' = [todo EXCEPT ![p] = Tail(@)]
    /\ Goto(p, "wait")
    /\ UNCHANGED <<boot, wsem, rsem, input, lslock, wbusy, wactive, out, irq, irqpending, panicked>>

\* Variant: the ready condition is cleared whoever is waiting for it.
PollAlwaysClears(p) ==
    /\ pc[p] = "wait" /\ wactive
    /\ wactive' = FALSE
    /\ lslock' = Nobody /\ irqpending' = FALSE
    /\ Goto(p, "start")
    /\ UNCHANGED <<boot, todo, wsem, rsem, input, wbusy, sending, out, sent, irq, panicked>>

PollEnd(p) ==
    /\ pc[p] = "wait" /\ wactive
    /\ wactive' = irqpending
    /\ lslock' = Nobody /\ irqpending' = FALSE
    /\ Goto(p, "start")
    /\ UNCHANGED <<boot, todo, wsem, rsem, input, wbusy, sending, out, sent, irq, panicked>>

---------------------------------------------------------------------------
\* Variant: the port stays marked busy.
IrqStaysBusy ==
    /\ irq.at = "none" /\ lslock = Nobody /\ (wactive \/ received # <<>>)
    /\ irq' = [at |-> "start", start |-> wactive, chars |-> received]
    /\ wactive' = FALSE
    /\ received' = <<>>
    /\ UNCHANGED <<boot, todo, pc, wsem, rsem, buf, head, tail, accepted, got, typed, lslock,
                   wbusy, sending, out, sent, irqpending, panicked>>

\* lser_irq under ls_lock: both conditions are acknowledged together.
lser_irq ==
    /\ irq.at = "none" /\ lslock = Nobody /\ (wactive \/ received # <<>>)
    /\ irq' = [at |-> "start", start |-> wactive, chars |-> received]
    /\ wbusy' = (wbusy /\ ~wactive)
    /\ wactive' = FALSE
    /\ received' = <<>>
    /\ UNCHANGED <<boot, todo, pc, wsem, rsem, buf, head, tail, accepted, got, typed, lslock,
                   sending, out, sent, irqpending, panicked>>

\* con_start, after the lock is released.
con_start ==
    /\ irq.at = "start"
    /\ wsem' = IF irq.start THEN wsem + 1 ELSE wsem
    /\ irq' = [irq EXCEPT !.at = "input"]
    /\ UNCHANGED <<boot, todo, pc, rsem, input, lslock, output, irqpending, panicked>>

\* Variant: the buffer is never found full.
InputUnchecked ==
    /\ irq.at = "input"
    /\ irq' = Idle
    /\ IF irq.chars # <<>>
       THEN /\ buf' = [buf EXCEPT ![head] = Head(irq.chars)]
            /\ head' = (head + 1) % BufSize
            /\ rsem' = rsem + 1
            /\ accepted' = Append(accepted, Head(irq.chars))
       ELSE UNCHANGED <<buf, head, rsem, accepted>>
    /\ UNCHANGED <<boot, todo, pc, wsem, tail, received, got, typed, lslock, output, irqpending, panicked>>

\* con_input: a full buffer drops the character.
con_input ==
    LET next == (head + 1) % BufSize IN
    /\ irq.at = "input"
    /\ irq' = Idle
    /\ IF irq.chars # <<>> /\ next # tail
       THEN /\ buf' = [buf EXCEPT ![head] = Head(irq.chars)]
            /\ head' = next
            /\ rsem' = rsem + 1
            /\ accepted' = Append(accepted, Head(irq.chars))
       ELSE UNCHANGED <<buf, head, rsem, accepted>>
    /\ UNCHANGED <<boot, todo, pc, wsem, tail, received, got, typed, lslock, output, irqpending, panicked>>

\* A character arrives at the port; one that was not read yet is overwritten.
Type ==
    /\ attached /\ typed < MaxTyped
    /\ typed' = typed + 1
    /\ received' = <<typed + 1>>
    /\ UNCHANGED <<boot, todo, pc, wsem, rsem, buf, head, tail, accepted, got, lslock, output, irq,
                   irqpending, panicked>>

\* getch_intr: P(cs_rsem), the character, the index.
getch_intr(r) ==
    /\ pc[r] = "start" /\ rsem > 0
    /\ rsem' = rsem - 1
    /\ Goto(r, "get")
    /\ UNCHANGED <<boot, todo, wsem, input, lslock, output, irq, irqpending, panicked>>

GetChar(r) ==
    /\ pc[r] = "get"
    /\ got' = Append(got, buf[tail])
    /\ Goto(r, "advance")
    /\ UNCHANGED <<boot, todo, wsem, rsem, buf, head, tail, received, accepted, typed, lslock, output,
                   irq, irqpending, panicked>>

Advance(r) ==
    /\ pc[r] = "advance"
    /\ tail' = (tail + 1) % BufSize
    /\ Goto(r, "start")
    /\ UNCHANGED <<boot, todo, wsem, rsem, buf, head, received, accepted, got, typed, lslock, output,
                   irq, irqpending, panicked>>
---------------------------------------------------------------------------
\* con_io's loop over the characters of a write, putch with interrupts off, and con_io's over a read.
Printing(w) == putch_intr(w) \/ lser_write(w)
Polling(p) == PollStart(p) \/ PollDrain(p) \/ PollSend(p) \/ PollEnd(p)
Reading(r) == getch_intr(r) \/ GetChar(r) \/ Advance(r)
Handler == lser_irq \/ con_start \/ con_input

Next ==
    /\ ~panicked
    /\ \/ putch_delayed \/ config_con
       \/ \E w \in Writers : Printing(w)
       \/ \E p \in Pollers : Polling(p)
       \/ \E r \in Readers : Reading(r)
       \/ PortDone \/ Handler \/ Type

Spec == Init /\ [][Next]_vars
---------------------------------------------------------------------------
\* Type invariant: what each variable may hold.
TypeOK ==
    /\ attached \in BOOLEAN /\ Len(delayed) <= DelaySize
    /\ wsem \in 0..1 /\ rsem \in 0..BufSize - 1
    /\ head \in 0..BufSize - 1 /\ tail \in 0..BufSize - 1
    /\ lslock \in Pollers \cup {Nobody}
    /\ wbusy \in BOOLEAN /\ wactive \in BOOLEAN /\ irqpending \in BOOLEAN
    /\ Len(sending) <= 1 /\ Len(received) <= 1
    /\ irq.at \in {"none", "start", "input"}
    /\ pc \in [Writers \cup Pollers \cup Readers ->
                 {"start", "write", "drain", "poll", "wait", "get", "advance"}]

\* The port is never written to while it is busy, by threads that wait for its interrupt and pollers
\* that do not: nobody panics, and what was sent comes out whole and in order.
OutputWhole == ~panicked /\ out \o sending = sent

\* There is one right to send, and it is never lost: it is the semaphore's, a writer's, the port's,
\* the handler's, or owed by a poller that waits in place of the handler.
OneRight ==
    wsem + Cardinality({w \in Writers : pc[w] = "write"}) + (IF wbusy THEN 1 ELSE 0)
         + (IF irq.at = "start" /\ irq.start THEN 1 ELSE 0) = 1

Buffered == [i \in 1..((head - tail + BufSize) % BufSize) |-> buf[(tail + i - 1) % BufSize]]

\* What the interrupt handler accepted is read once and in order, though nothing keeps the reader and
\* the handler apart: the buffer, full or wrapped around, holds exactly what is still to be read.
InputInOrder ==
    accepted = got \o (IF \E r \in Readers : pc[r] = "advance" THEN Tail(Buffered) ELSE Buffered)

\* Everything printed has come out, before the console was there, with interrupts, or polled.
AllOut ==
    /\ delayed = <<>> /\ sending = <<>>
    /\ \A w \in Writers \cup Pollers : todo[w] = <<>>
=============================================================================
