------------------------------- MODULE Threads -------------------------------
(***************************************************************************)
(* The thread system of kern/thread/thread.c on several CPUs: run queues,  *)
(* a wait channel, the idle loop, zombies, interprocessor wakeups and the  *)
(* migration that the timer starts.  Whatever is done under one run queue  *)
(* lock is one step: no such section waits for another lock that is held   *)
(* across a switch.  The channel's lock is held into the switch and is a   *)
(* variable.  What the threads and the device handlers do is left open.    *)
(***************************************************************************)
EXTENDS Integers, Sequences, FiniteSets

CONSTANTS Threads, NCpus, Nobody

ThreadsAssumption == NCpus \in Nat \ {0} /\ Nobody \notin 1..NCpus

Cpus == 1..NCpus

VARIABLES
    cur,        \* c_curthread
    runq,       \* c_runqueue
    idle,       \* c_isidle
    zombies,    \* c_zombies
    line,     \* IPI_UNIDLE in c_ipi_pending
    pc,         \* where the CPU is
    woken,      \* threads off the channel that the CPU is making runnable
    mig,        \* locals of thread_consider_migration
    tcpu,       \* t_cpu
    tstate,     \* t_state; "FREE": no thread structure
    level,      \* t_iplhigh_count
    sleepers,   \* wc_threads
    wlock       \* holder of wc_lock

cpuvars == <<cur, runq, idle, zombies, line, pc>>
vars == <<cpuvars, woken, mig, tcpu, tstate, level, sleepers, wlock>>

NoMig == [next |-> 1, mine |-> 0, total |-> 0, share |-> 0, send |-> 0, victims |-> <<>>]

\* cpu_create: every CPU comes with a thread that is already running.
Init ==
    /\ cur \in [Cpus -> Threads] /\ \A c, d \in Cpus : cur[c] = cur[d] => c = d
    /\ runq = [c \in Cpus |-> <<>>]
    /\ idle = [c \in Cpus |-> FALSE]
    /\ zombies = [c \in Cpus |-> {}]
    /\ line = [c \in Cpus |-> FALSE]
    /\ pc = [c \in Cpus |-> "run"]
    /\ woken = [c \in Cpus |-> <<>>]
    /\ mig = [c \in Cpus |-> NoMig]
    /\ tcpu \in [Threads -> Cpus] /\ \A c \in Cpus : tcpu[cur[c]] = c
    /\ \A t \in Threads : (\A c \in Cpus : t # cur[c]) => tcpu[t] = 1
    /\ tstate = [t \in Threads |-> IF \E c \in Cpus : t = cur[c] THEN "RUN" ELSE "FREE"]
    /\ level = [t \in Threads |-> 0]
    /\ sleepers = <<>>
    /\ wlock = Nobody

Goto(c, where) == pc' = [pc EXCEPT ![c] = where]

SeqSet(s) == {s[i] : i \in DOMAIN s}

\* Variant: a wakeup never interrupts the idle CPU.
NoUnidle(c, u) == u

\* ipi_send(c, IPI_UNIDLE), by whoever put something on the queue of a CPU that is idle.
SendUnidle(c, u) == [u EXCEPT ![c] = @ \/ idle[c]]
---------------------------------------------------------------------------
\* Variant: the parent's count is not corrected for the lock a new thread comes out with.
ForkUncounted(c) ==
    /\ pc[c] = "run"
    /\ \E t \in Threads :
          /\ tstate[t] = "FREE"
          /\ tstate' = [tstate EXCEPT ![t] = "READY"]
          /\ tcpu' = [tcpu EXCEPT ![t] = c]
          /\ level' = [level EXCEPT ![t] = 1]
          /\ runq' = [runq EXCEPT ![c] = Append(@, t)]
    /\ UNCHANGED <<cur, idle, zombies, line, pc, woken, mig, sleepers, wlock>>

\* thread_fork: the new thread starts on its parent's CPU, at the level of a thread that was switched
\* away from.  (When there is no memory nothing changes.)
thread_fork(c) ==
    /\ pc[c] = "run"
    /\ \E t \in Threads :
          /\ tstate[t] = "FREE"
          /\ tstate' = [tstate EXCEPT ![t] = "READY"]
          /\ tcpu' = [tcpu EXCEPT ![t] = c]
          /\ level' = [level EXCEPT ![t] = 2]
          /\ runq' = [runq EXCEPT ![c] = Append(@, t)]
    /\ UNCHANGED <<cur, idle, zombies, line, pc, woken, mig, sleepers, wlock>>

\* exorcise, after the switch: every zombie of this CPU, none of which is the thread now running.
Exorcised(next, z, states) == [t \in Threads |->
    IF t = next THEN "RUN" ELSE IF t \in z THEN "FREE" ELSE states[t]]

\* What is left of the interrupt count once the run queue lock is released and splx, or in
\* thread_startup spl0, is done.
Lowered(n) == n - 2

\* The second half of thread_switch, and the start of thread_startup: next runs, the queue is
\* unlocked, the zombies are destroyed and the level is what it was before the switch.  (The fields
\* of a destroyed thread are set to fixed values: nothing may read them.)
SwitchIn(c, queue, z, states) ==
    LET next == Head(queue) IN
    /\ cur' = [cur EXCEPT ![c] = next]
    /\ runq' = [runq EXCEPT ![c] = Tail(queue)]
    /\ idle' = [idle EXCEPT ![c] = FALSE]
    /\ tstate' = Exorcised(next, z, states)
    /\ zombies' = [zombies EXCEPT ![c] = {}]
    /\ level' = [t \in Threads |->
          CASE t \in z -> 0
            [] t = next -> IF t = cur[c] /\ ~idle[c] THEN level[t] ELSE Lowered(level[t])
            [] t = cur[c] /\ t # next /\ ~idle[c] -> level[t] + 2
            [] OTHER -> level[t]]
    /\ tcpu' = [t \in Threads |-> IF t \in z THEN 1 ELSE tcpu[t]]
    /\ Goto(c, "run")

\* The CPU finds no thread: it is idle, and stays on the stack of the thread it had.
GoIdle(c, z, states) ==
    /\ idle' = [idle EXCEPT ![c] = TRUE]
    /\ zombies' = [zombies EXCEPT ![c] = z]
    /\ tstate' = states
    /\ level' = [level EXCEPT ![cur[c]] = IF idle[c] THEN @ ELSE @ + 2]
    /\ Goto(c, "wait")
    /\ UNCHANGED <<cur, runq, tcpu>>

SwitchTo(c, queue, z, state) ==
    LET states == [tstate EXCEPT ![cur[c]] = state] IN
    IF queue # <<>> THEN SwitchIn(c, queue, z, states) ELSE GoIdle(c, z, states)

\* thread_switch(S_READY): nothing happens on an idle CPU, nor when no other thread is ready.
thread_yield(c) ==
    /\ pc[c] \in {"run", "yield"}
    /\ \/ /\ idle[c]
          /\ Goto(c, "relock")
          /\ UNCHANGED <<cur, runq, idle, zombies, tcpu, tstate, level>>
       \/ /\ ~idle[c] /\ runq[c] = <<>>
          /\ Goto(c, "run")
          /\ UNCHANGED <<cur, runq, idle, zombies, tcpu, tstate, level>>
       \/ /\ ~idle[c] /\ runq[c] # <<>>
          /\ SwitchTo(c, Append(runq[c], cur[c]), zombies[c], "READY")
    /\ UNCHANGED <<line, woken, mig, sleepers, wlock>>

thread_exit(c) ==
    /\ pc[c] = "run"
    /\ SwitchTo(c, runq[c], zombies[c] \cup {cur[c]}, "ZOMBIE")
    /\ UNCHANGED <<line, woken, mig, sleepers, wlock>>

wchan_lock(c) ==
    /\ pc[c] = "run" /\ wlock = Nobody
    /\ wlock' = c
    /\ Goto(c, "chan")
    /\ UNCHANGED <<cur, runq, idle, zombies, line, woken, mig, tcpu, tstate, level, sleepers>>

\* thread_switch(S_SLEEP): on the channel, which is unlocked before another thread is looked for.
wchan_sleep(c) ==
    /\ pc[c] = "chan"
    /\ sleepers' = Append(sleepers, cur[c])
    /\ wlock' = Nobody
    /\ SwitchTo(c, runq[c], zombies[c], "SLEEP")
    /\ UNCHANGED <<line, woken, mig>>

\* Variant: the CPU waits again without another look at its queue.
WaitAgain(c) ==
    /\ pc[c] = "relock"
    /\ Goto(c, "wait")
    /\ UNCHANGED <<cur, runq, idle, zombies, line, woken, mig, tcpu, tstate, level, sleepers, wlock>>

\* The idle loop: cpu_idle has returned, the queue is locked and looked at again.
Relock(c) ==
    /\ pc[c] = "relock"
    /\ SwitchTo(c, runq[c], zombies[c], tstate[cur[c]])
    /\ UNCHANGED <<line, woken, mig, sleepers, wlock>>

\* interprocessor_interrupt: there is nothing to do for IPI_UNIDLE but to have left cpu_idle.
interprocessor_interrupt(c) ==
    /\ pc[c] \in {"run", "wait"} /\ line[c]
    /\ Goto(c, "ipi")
    /\ UNCHANGED <<cur, runq, idle, zombies, line, woken, mig, tcpu, tstate, level, sleepers, wlock>>

\* lamebus_clear_ipi, after the handler: it also clears what came since.
lamebus_clear_ipi(c) ==
    /\ pc[c] = "ipi"
    /\ line' = [line EXCEPT ![c] = FALSE]
    /\ Goto(c, IF idle[c] THEN "relock" ELSE "run")
    /\ UNCHANGED <<cur, runq, idle, zombies, woken, mig, tcpu, tstate, level, sleepers, wlock>>

\* wchan_wakeone and wchan_wakeall, by a thread or by a handler that interrupts it or the idle loop.
wchan_wake(c) ==
    /\ pc[c] \in {"run", "wait"} /\ wlock = Nobody /\ sleepers # <<>>
    /\ \E n \in {1, Len(sleepers)} :
          /\ woken' = [woken EXCEPT ![c] = SubSeq(sleepers, 1, n)]
          /\ sleepers' = SubSeq(sleepers, n + 1, Len(sleepers))
    /\ Goto(c, "wake")
    /\ UNCHANGED <<cur, runq, idle, zombies, line, mig, tcpu, tstate, level, wlock>>

\* Variant: a woken thread is queued on the CPU of the waker.
MakeRunnableHere(c) ==
    /\ pc[c] = "wake"
    /\ runq' = [runq EXCEPT ![c] = Append(@, Head(woken[c]))]
    /\ line' = SendUnidle(c, line)
    /\ woken' = [woken EXCEPT ![c] = Tail(@)]
    /\ Goto(c, IF Len(woken[c]) > 1 THEN "wake" ELSE IF idle[c] THEN "relock" ELSE "run")
    /\ UNCHANGED <<cur, idle, zombies, mig, tcpu, tstate, level, sleepers, wlock>>

\* thread_make_runnable, for each thread taken off the channel.
thread_make_runnable(c) ==
    LET t == Head(woken[c])
        target == tcpu[t] IN
    /\ pc[c] = "wake"
    /\ runq' = [runq EXCEPT ![target] = Append(@, t)]
    /\ line' = SendUnidle(target, line)
    /\ woken' = [woken EXCEPT ![c] = Tail(@)]
    /\ Goto(c, IF Len(woken[c]) > 1 THEN "wake" ELSE IF idle[c] THEN "relock" ELSE "run")
    /\ UNCHANGED <<cur, idle, zombies, mig, tcpu, tstate, level, sleepers, wlock>>
---------------------------------------------------------------------------
\* hardclock, in a timer interrupt: a thread or the idle loop is interrupted, with every 16th
\* interrupt going through thread_consider_migration before the yield.
hardclock(c) ==
    /\ pc[c] \in {"run", "wait"}
    /\ mig' = [mig EXCEPT ![c] = NoMig]
    /\ \E where \in {"count", "yield"} : Goto(c, where)
    /\ UNCHANGED <<cur, runq, idle, zombies, line, woken, tcpu, tstate, level, sleepers, wlock>>

MigrationUnchanged ==
    UNCHANGED <<cur, idle, zombies, woken, tstate, level, sleepers, wlock>>

\* Variant: the thread that runs is counted with the queue.
CountRunning(c) ==
    LET m == mig[c]
        n == Len(runq[m.next]) + 1 IN
    /\ pc[c] = "count" /\ m.next <= NCpus
    /\ mig' = [mig EXCEPT ![c] = [m EXCEPT !.next = @ + 1, !.total = @ + n,
                                           !.mine = IF m.next = c THEN n ELSE @]]
    /\ UNCHANGED <<runq, line, pc, tcpu>> /\ MigrationUnchanged

\* The queues are counted one after the other.
CountQueue(c) ==
    LET m == mig[c]
        n == Len(runq[m.next]) IN
    /\ pc[c] = "count" /\ m.next <= NCpus
    /\ mig' = [mig EXCEPT ![c] = [m EXCEPT !.next = @ + 1, !.total = @ + n,
                                           !.mine = IF m.next = c THEN n ELSE @]]
    /\ UNCHANGED <<runq, line, pc, tcpu>> /\ MigrationUnchanged

\* DIVROUNDUP(total_count, numcpus), and the surplus taken from the tail.
TakeVictims(c) ==
    LET m == mig[c]
        share == (m.total + NCpus - 1) \div NCpus
        send == m.mine - share
        q == runq[c] IN
    /\ pc[c] = "count" /\ m.next > NCpus
    /\ \/ /\ m.mine < share
          /\ Goto(c, "yield")
          /\ UNCHANGED <<runq, mig>>
       \/ /\ m.mine >= share
          /\ runq' = [runq EXCEPT ![c] = SubSeq(q, 1, Len(q) - send)]
          /\ mig' = [mig EXCEPT ![c] = [m EXCEPT !.next = 1, !.mine = 0, !.total = 0, !.share = share, !.send = send,
                                         !.victims = SubSeq(q, Len(q) - send + 1, Len(q))]]
          /\ Goto(c, "give")
    /\ UNCHANGED <<line, tcpu>> /\ MigrationUnchanged

Position(t, s) == IF t \in SeqSet(s) THEN CHOOSE i \in DOMAIN s : s[i] = t ELSE Len(s) + 1

Smaller(a, b) == IF a < b THEN a ELSE b

\* Variant: the current thread is given away like any other.
ShuffledAll(c, d) ==
    LET m == mig[c]
        room == m.share - Len(runq[d])
        n == IF room <= 0 THEN 0 ELSE Smaller(m.send, room) IN
    [given |-> SubSeq(m.victims, 1, n),
     left |-> SubSeq(m.victims, n + 1, Len(m.victims)), send |-> m.send - n]

\* The inner loop for CPU d: victims leave from the head while d has less than its share, but the
\* current thread goes to the tail, and counts as sent.
Shuffled(c, d) ==
    LET m == mig[c]
        room == m.share - Len(runq[d])
        here == Position(cur[c], m.victims)
        n == IF room <= 0 THEN 0 ELSE Smaller(m.send, IF here <= room THEN room + 1 ELSE room)
        first == SubSeq(m.victims, 1, n) IN
    [given |-> SelectSeq(first, LAMBDA t : t # cur[c]),
     left |-> SubSeq(m.victims, n + 1, Len(m.victims)) \o SelectSeq(first, LAMBDA t : t = cur[c]),
     send |-> m.send - n]

GiveVictims(c) ==
    LET m == mig[c]
        d == m.next
        s == Shuffled(c, d) IN
    /\ pc[c] = "give" /\ d <= NCpus /\ m.send > 0
    /\ \/ /\ d = c
          /\ mig' = [mig EXCEPT ![c].next = d + 1]
          /\ UNCHANGED <<runq, line, tcpu>>
       \/ /\ d # c
          /\ mig' = [mig EXCEPT ![c] = [m EXCEPT !.next = d + 1, !.victims = s.left, !.send = s.send]]
          /\ runq' = [runq EXCEPT ![d] = @ \o s.given]
          /\ tcpu' = [t \in Threads |-> IF t \in SeqSet(s.given) THEN d ELSE tcpu[t]]
          /\ line' = IF s.given # <<>> THEN SendUnidle(d, line) ELSE line
    /\ UNCHANGED pc /\ MigrationUnchanged

\* Variant: what could not be placed is forgotten.
DropVictims(c) ==
    /\ pc[c] = "give" /\ (mig[c].next > NCpus \/ mig[c].send = 0)
    /\ mig' = [mig EXCEPT ![c] = NoMig]
    /\ Goto(c, "yield")
    /\ UNCHANGED <<runq, line, tcpu>> /\ MigrationUnchanged

\* What could not be placed goes back on our own queue.
ReturnVictims(c) ==
    /\ pc[c] = "give" /\ (mig[c].next > NCpus \/ mig[c].send = 0)
    /\ runq' = [runq EXCEPT ![c] = @ \o mig[c].victims]
    /\ mig' = [mig EXCEPT ![c] = NoMig]
    /\ Goto(c, "yield")
    /\ UNCHANGED <<line, tcpu>> /\ MigrationUnchanged
---------------------------------------------------------------------------
KernelStep(c) ==
    \/ wchan_sleep(c) \/ Relock(c) \/ interprocessor_interrupt(c) \/ lamebus_clear_ipi(c)
    \/ thread_make_runnable(c)
    \/ CountQueue(c) \/ TakeVictims(c) \/ GiveVictims(c) \/ ReturnVictims(c)
    \/ pc[c] = "yield" /\ thread_yield(c)

Next == \E c \in Cpus :
    \/ KernelStep(c) \/ hardclock(c)
    \/ thread_fork(c) \/ thread_yield(c) \/ thread_exit(c) \/ wchan_lock(c) \/ wchan_wake(c)

Spec == Init /\ [][Next]_vars

\* The system in full swing: every CPU runs a thread, the others are on the first queue, nobody
\* forks or exits.
Order == CHOOSE s \in [1..Cardinality(Threads) -> Threads] :
            \A i, j \in DOMAIN s : s[i] = s[j] => i = j
Running(t) == \E c \in Cpus : cur[c] = t /\ ~idle[c]
Ready(t) == tstate[t] = "READY"
Started ==
    /\ cur = [c \in Cpus |-> Order[c]]
    /\ runq = [c \in Cpus |-> IF c = 1 THEN SubSeq(Order, NCpus + 1, Len(Order)) ELSE <<>>]
    /\ idle = [c \in Cpus |-> FALSE] /\ zombies = [c \in Cpus |-> {}]
    /\ line = [c \in Cpus |-> FALSE] /\ pc = [c \in Cpus |-> "run"]
    /\ woken = [c \in Cpus |-> <<>>] /\ mig = [c \in Cpus |-> NoMig]
    /\ tcpu = [t \in Threads |-> IF Running(t) THEN CHOOSE c \in Cpus : t = Order[c] ELSE 1]
    /\ tstate = [t \in Threads |-> IF Running(t) THEN "RUN" ELSE "READY"]
    /\ level = [t \in Threads |-> IF Running(t) THEN 0 ELSE 2]
    /\ sleepers = <<>> /\ wlock = Nobody
Scheduling == \E c \in Cpus :
    KernelStep(c) \/ hardclock(c) \/ thread_yield(c) \/ wchan_lock(c) \/ wchan_wake(c)
---------------------------------------------------------------------------
\* Type invariant: what each variable may hold.
TypeOK ==
    /\ cur \in [Cpus -> Threads]
    /\ \A c \in Cpus : runq[c] \in Seq(Threads) /\ woken[c] \in Seq(Threads)
                       /\ zombies[c] \subseteq Threads
    /\ idle \in [Cpus -> BOOLEAN] /\ line \in [Cpus -> BOOLEAN]
    /\ pc \in [Cpus -> {"run", "wait", "ipi", "relock", "chan", "wake", "count", "give", "yield"}]
    /\ \A c \in Cpus : /\ mig[c].send \in 0..Cardinality(Threads)
                       /\ mig[c].victims \in Seq(Threads)
    /\ tcpu \in [Threads -> Cpus]
    /\ tstate \in [Threads -> {"FREE", "RUN", "READY", "SLEEP", "ZOMBIE"}]
    /\ level \in [Threads -> Nat]
    /\ sleepers \in Seq(Threads) /\ wlock \in Cpus \cup {Nobody}

\* No two CPUs are ever on one kernel stack, though an idle CPU stays on the stack of a thread that
\* may since have been woken: such a thread is queued where it is, and never migrated.
OneStack == \A c, d \in Cpus : cur[c] = cur[d] => c = d

Occurrences(t, s) == Cardinality({i \in DOMAIN s : s[i] = t})

\* In how many lists a thread is, or is running.
Places(t) ==
    Occurrences(t, sleepers)
    + Cardinality({c \in Cpus : cur[c] = t /\ ~idle[c]})
    + Cardinality({c \in Cpus : t \in zombies[c]})
    + Cardinality({<<c, i>> \in Cpus \X (1..Cardinality(Threads)) :
                      \/ i <= Len(runq[c]) /\ runq[c][i] = t
                      \/ i <= Len(woken[c]) /\ woken[c][i] = t
                      \/ i <= Len(mig[c].victims) /\ mig[c].victims[i] = t})

\* Every thread is in exactly one place: none is lost on the way from a channel to a queue or between
\* two queues, none is queued twice, and a destroyed one is nowhere.
OnePlace == \A t \in Threads : Places(t) = IF tstate[t] = "FREE" THEN 0 ELSE 1

\* t_cpu, which thread_make_runnable reads without a lock, is right: a thread queued, asleep, or on
\* its way to a queue belongs to the CPU whose queue it is on or whose idle loop is on its stack.
HomeKnown == \A c \in Cpus :
    /\ \A i \in DOMAIN runq[c] : tcpu[runq[c][i]] = c
    /\ tcpu[cur[c]] = c

\* A CPU that waits for an interrupt with a thread on its queue has one coming, though the line is
\* cleared after the handler and may have been raised again meanwhile.
UnidleComes == \A c \in Cpus : pc[c] = "wait" /\ runq[c] # <<>> => line[c]

\* Threads that do not run all have the same interrupt count, so that the release of the run queue
\* lock after a switch, which a different thread took, brings any of them back to zero.
LevelsMatch == \A t \in Threads :
    CASE tstate[t] = "RUN" -> level[t] = 0
      [] tstate[t] \in {"READY", "SLEEP", "ZOMBIE"} -> level[t] = 2
      [] OTHER -> TRUE

\* Migration never finds its own queue shorter than it counted it.
EnoughVictims == \A c \in Cpus :
    pc[c] = "count" /\ mig[c].next > c => mig[c].mine <= Len(runq[c])
=============================================================================
