----------------------------- MODULE ThreadTests -----------------------------
(* The thread tests of the menu: threadtest and threadtest2                   *)
(* (kern/test/threadtest.c), threadtest3 (kern/test/tt3.c) and the skeleton   *)
(* of whalemating (kern/synchprobs/whalemating.c), run one after the other.   *)
(* The wait channels are those of kern/thread/thread.c: a thread that holds   *)
(* the channel's lock and sleeps cannot miss a wakeup.                        *)
EXTENDS Naturals, Sequences, FiniteSets

CONSTANTS
    NTHREADS,     \* of threadtest (8)
    Sleepalots, Computes,   \* numbers given to threadtest3 (5 and 2)
    Sleeps,       \* SLEEPALOT_PRINTS * SLEEPALOT_ITERS (80)
    COMPUTE_ITERS, WAKER_WAKES, NWAITCHANS,     \* 10, 100, 12
    NMATING,      \* 10
    Scripts       \* tests given in the menu: sequences of "loud", "quiet", "tt3", "whale"

SizeAssumption ==
    /\ {Sleeps, COMPUTE_ITERS, WAKER_WAKES, NWAITCHANS, NTHREADS, NMATING} \subseteq Nat \ {0}
    /\ Sleepalots \in Nat /\ Computes \in Nat

Kind(k, n) == {<<k, j>> : j \in 0 .. n - 1}
Waker == <<"waker", 0>>
\* The threads each test makes, in order.
Group(test) ==
    CASE test \in {"loud", "quiet"} -> Kind(test, NTHREADS)
      [] test = "tt3" -> Kind("sleepalot", Sleepalots) \cup {Waker} \cup Kind("compute", Computes)
      [] test = "whale" -> Kind("male", NMATING) \cup Kind("female", NMATING) \cup Kind("matchmaker", NMATING)
Ids == UNION {Group(t) : t \in {"loud", "quiet", "tt3", "whale"}}
Chans == 0 .. NWAITCHANS - 1

VARIABLES
    script, pc, joined,   \* the menu thread: tests to run, where it is, its P(donesem)s
    tpc, left,            \* each thread's place and the rounds it has left
    chan,                 \* the channel a sleepalot thread sleeps on
    tsem, donesem, wakersem,   \* counts
    wakerdone, sawdone    \* the flag, and the waker's reading of it

main == <<script, pc, joined>>
sems == <<tsem, donesem, wakersem>>
flags == <<wakerdone, sawdone>>
vars == <<main, tpc, left, chan, sems, flags>>

Init ==
    /\ script \in Scripts /\ pc = "menu" /\ joined = 0
    /\ tpc = [t \in Ids |-> "gone"] /\ left = [t \in Ids |-> 0] /\ chan = [t \in Ids |-> 0]
    /\ tsem = 0 /\ donesem = 0 /\ wakersem = 1
    /\ wakerdone = FALSE /\ sawdone = FALSE

Test == Head(script)
Rounds(t) ==
    CASE t[1] = "sleepalot" -> Sleeps
      [] t[1] = "compute" -> COMPUTE_ITERS
      [] OTHER -> 0

------------------------------------------------------------------------------
(* The menu thread. *)

\* setup, at every threadtest3.  Variant: the flag stays as the last test left it
setup_once == UNCHANGED wakerdone
setup == wakerdone' = FALSE

\* runtest3, runthreads, whalemating: all threads are forked.
Begin ==
    /\ pc = "menu" /\ script # <<>>
    /\ IF Test = "tt3" THEN setup ELSE UNCHANGED wakerdone
    /\ pc' = "fork" /\ UNCHANGED <<script, joined, tpc, left, chan, sems, sawdone>>
\* whalemating waits for nobody.
whalemating == pc' = "menu" /\ script' = Tail(script)
\* The order of creation within a test is fixed; a new thread may run at once.
Order(t) == CASE t[1] = "sleepalot" -> t[2] [] t[1] = "waker" -> Sleepalots [] t[1] = "compute" -> Sleepalots + 1 + t[2]
              [] t[1] \in {"loud", "quiet", "male"} -> t[2]
              [] t[1] = "female" -> NMATING + t[2] [] t[1] = "matchmaker" -> 2 * NMATING + t[2]
Fork ==
    /\ pc = "fork"
    /\ \E t \in Group(Test) :
          /\ Order(t) = joined
          /\ tpc' = [tpc EXCEPT ![t] = "start"] /\ left' = [left EXCEPT ![t] = Rounds(t)]
    /\ IF joined + 1 < Cardinality(Group(Test)) THEN joined' = joined + 1 /\ UNCHANGED <<script, pc>>
       ELSE /\ joined' = 0
            /\ IF Test = "whale" THEN whalemating
               ELSE pc' = "join" /\ UNCHANGED script
    /\ UNCHANGED <<chan, sems, flags>>

\* runthreads: P(tsem) for each thread.
JoinPlain ==
    /\ pc = "join" /\ Test # "tt3" /\ tsem > 0 /\ tsem' = tsem - 1
    /\ IF joined + 1 < NTHREADS THEN joined' = joined + 1 /\ UNCHANGED <<script, pc>>
       ELSE joined' = 0 /\ pc' = "menu" /\ script' = Tail(script)
    /\ UNCHANGED <<tpc, left, chan, donesem, wakersem, flags>>

\* Variant: the compute threads are forgotten.
Join3_short ==
    /\ pc = "join" /\ Test = "tt3"
    /\ IF joined < Sleepalots
       THEN donesem > 0 /\ donesem' = donesem - 1 /\ joined' = joined + 1 /\ UNCHANGED <<pc, wakersem>>
       ELSE wakersem > 0 /\ wakersem' = wakersem - 1 /\ joined' = 0 /\ pc' = "flag" /\ UNCHANGED donesem
    /\ UNCHANGED <<script, tpc, left, chan, tsem, flags>>
\* finish: P(donesem) for every sleepalot and compute thread, then the flag
\* under wakersem, then P(donesem) for the waker.
Join3 ==
    /\ pc = "join" /\ Test = "tt3"
    /\ IF joined < Sleepalots + Computes
       THEN donesem > 0 /\ donesem' = donesem - 1 /\ joined' = joined + 1 /\ UNCHANGED <<pc, wakersem>>
       ELSE wakersem > 0 /\ wakersem' = wakersem - 1 /\ joined' = 0 /\ pc' = "flag" /\ UNCHANGED donesem
    /\ UNCHANGED <<script, tpc, left, chan, tsem, flags>>
SetFlag ==
    /\ pc = "flag" /\ wakerdone' = TRUE /\ wakersem' = wakersem + 1 /\ pc' = "last"
    /\ UNCHANGED <<script, joined, tpc, left, chan, tsem, donesem, sawdone>>
JoinWaker ==
    /\ pc = "last" /\ donesem > 0 /\ donesem' = donesem - 1
    /\ pc' = "menu" /\ script' = Tail(script)
    /\ UNCHANGED <<joined, tpc, left, chan, tsem, wakersem, flags>>

------------------------------------------------------------------------------
(* The threads. *)

At(t, l) == tpc[t] = l
To(t, l) == tpc' = [tpc EXCEPT ![t] = l]

\* loudthread, quietthread: output, then V(tsem).
Plain(t) ==
    /\ t[1] \in {"loud", "quiet"} /\ At(t, "start")
    /\ To(t, "gone") /\ tsem' = tsem + 1 /\ UNCHANGED <<main, left, chan, donesem, wakersem, flags>>
\* male, female and matchmaker only say that they start.
Whale(t) ==
    /\ t[1] \in {"male", "female", "matchmaker"} /\ At(t, "start")
    /\ To(t, "gone") /\ UNCHANGED <<main, left, chan, sems, flags>>

\* compute_thread: a product of matrices, then thread_yield.
Compute(t) ==
    /\ t[1] = "compute" /\ At(t, "start")
    /\ IF left[t] > 0 THEN left' = [left EXCEPT ![t] = @ - 1] /\ UNCHANGED <<tpc, donesem>>
       ELSE To(t, "gone") /\ donesem' = donesem + 1 /\ UNCHANGED left
    /\ UNCHANGED <<main, chan, tsem, wakersem, flags>>

\* sleepalot_thread: sleep on a channel chosen at random.
Sleep(t) ==
    /\ t[1] = "sleepalot" /\ At(t, "start")
    /\ IF left[t] > 0
       THEN \E c \in Chans : chan' = [chan EXCEPT ![t] = c] /\ To(t, "asleep")
                             /\ left' = [left EXCEPT ![t] = @ - 1] /\ UNCHANGED donesem
       ELSE To(t, "gone") /\ donesem' = donesem + 1 /\ UNCHANGED <<left, chan>>
    /\ UNCHANGED <<main, tsem, wakersem, flags>>

\* waker_thread: the flag is read under wakersem; WAKER_WAKES channels are
\* woken between two readings.
ReadFlag ==
    \/ /\ At(Waker, "start") /\ wakersem > 0
       /\ wakersem' = wakersem - 1 /\ sawdone' = wakerdone /\ To(Waker, "read")
       /\ UNCHANGED <<main, left, chan, tsem, donesem, wakerdone>>
    \/ /\ At(Waker, "read") /\ wakersem' = wakersem + 1
       /\ IF sawdone THEN To(Waker, "gone") /\ donesem' = donesem + 1 /\ UNCHANGED left
          ELSE To(Waker, "wake") /\ left' = [left EXCEPT ![Waker] = WAKER_WAKES] /\ UNCHANGED donesem
       /\ UNCHANGED <<main, chan, tsem, flags>>
Woken(c) == {t \in Ids : At(t, "asleep") /\ chan[t] = c}
WakeAll(c) ==
    /\ At(Waker, "wake")
    /\ left' = [left EXCEPT ![Waker] = @ - 1]
    /\ tpc' = [t \in Ids |-> IF t \in Woken(c) THEN "start"
                             ELSE IF t = Waker /\ left[Waker] = 1 THEN "start" ELSE tpc[t]]
    /\ UNCHANGED <<main, chan, sems, flags>>

Main == Begin \/ Fork \/ JoinPlain \/ Join3 \/ SetFlag \/ JoinWaker
Thread(t) == Plain(t) \/ Whale(t) \/ Compute(t) \/ Sleep(t)
Next == Main \/ ReadFlag \/ (\E t \in Ids : Thread(t)) \/ \E c \in Chans : WakeAll(c)
Spec == Init /\ [][Next]_vars

------------------------------------------------------------------------------
(* Properties *)

\* Counts are small numbers.
TypeOK ==
    /\ tsem \in 0 .. NTHREADS /\ wakersem \in 0 .. 1
    /\ donesem \in 0 .. Sleepalots + Computes + 1
    /\ left \in [Ids -> Nat]

\* A test that is over has left no thread behind and its semaphores as the next
\* one needs them, except for whalemating, which waits for none of its threads.
JoinsAll ==
    pc = "menu" =>
        /\ tsem = 0 /\ donesem = 0 /\ wakersem = 1
        /\ \A t \in Ids : t[1] \notin {"male", "female", "matchmaker"} => At(t, "gone")

\* The waker stays until nobody needs it: when it sees the flag, no sleepalot
\* thread of the test is left.
WakerLast ==
    (At(Waker, "read") /\ sawdone) => \A t \in Kind("sleepalot", Sleepalots) : At(t, "gone")

Ended == pc = "menu" /\ script = <<>>
=============================================================================
