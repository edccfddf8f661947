----------------------------- MODULE SynchTests -----------------------------
(* The synchronisation tests of kern/test/synchtest.c, run from the menu one  *)
(* after the other, on the semaphores of kern/thread/synch.c and on its locks *)
(* and condition variables, whose operations are empty: lock_acquire,         *)
(* lock_release, cv_wait and cv_broadcast return at once.                     *)
EXTENDS Naturals, Sequences

CONSTANTS
    NTHREADS,      \* 32
    NLOCKLOOPS,    \* 120
    NCVLOOPS,      \* 5
    Scripts        \* the tests given in the menu: sequences of "sem", "lock", "cv"

SizeAssumption == NTHREADS \in Nat \ {0} /\ NLOCKLOOPS \in Nat \ {0} /\ NCVLOOPS \in Nat \ {0}

Nums == 0 .. NTHREADS - 1

VARIABLES
    script, pc, i,        \* the menu thread: tests to run, where it is, its loop
    tpc, loop,            \* the threads of the test
    testsem, donesem,     \* counts of the semaphores
    testval1, testval2, testval3,
    printed,              \* cvtest: the numbers printed (history)
    failed, toofast       \* threads that saw a mismatch, that found cv_wait too fast (history)

main == <<script, pc, i>>
sems == <<testsem, donesem>>
vals == <<testval1, testval2, testval3>>
seen == <<printed, failed, toofast>>
vars == <<main, tpc, loop, sems, vals, seen>>

\* inititems, at the first test: testsem starts at 2, donesem at 0.
Init ==
    /\ script \in Scripts /\ pc = "menu" /\ i = 0
    /\ tpc = [n \in Nums |-> "gone"] /\ loop = [n \in Nums |-> 0]
    /\ testsem = 2 /\ donesem = 0
    /\ testval1 = 0 /\ testval2 = 0 /\ testval3 = 0
    /\ printed = <<>> /\ failed = {} /\ toofast = {}

Test == Head(script)
Go(next) == pc' = next /\ UNCHANGED <<script, i>>

------------------------------------------------------------------------------
(* The menu thread: semtest, locktest, cvtest. *)

Begin ==
    /\ pc = "menu" /\ script # <<>>
    /\ Go(IF Test = "sem" THEN "take1" ELSE "fork")
    /\ testval1' = (IF Test = "cv" THEN NTHREADS - 1 ELSE testval1)
    /\ printed' = <<>>
    /\ UNCHANGED <<tpc, loop, sems, testval2, testval3, failed, toofast>>

\* semtest: P(testsem) twice.
Take ==
    /\ pc \in {"take1", "take2"} /\ testsem > 0
    /\ testsem' = testsem - 1
    /\ Go(IF pc = "take1" THEN "take2" ELSE "fork")
    /\ UNCHANGED <<tpc, loop, donesem, vals, seen>>

Fork ==
    /\ pc = "fork"
    /\ tpc' = [tpc EXCEPT ![i] = Test] /\ loop' = [loop EXCEPT ![i] = 0]
    /\ IF i + 1 < NTHREADS THEN i' = i + 1 /\ UNCHANGED pc
       ELSE i' = 0 /\ pc' = (IF Test = "sem" THEN "let" ELSE "wait")
    /\ UNCHANGED <<script, sems, vals, seen>>

\* semtest: V(testsem) before each P(donesem).  Variant: two at a time
LetTwo ==
    /\ pc = "let" /\ testsem' = testsem + 2 /\ Go("wait")
    /\ UNCHANGED <<tpc, loop, donesem, vals, seen>>
Let ==
    /\ pc = "let" /\ testsem' = testsem + 1 /\ Go("wait")
    /\ UNCHANGED <<tpc, loop, donesem, vals, seen>>

Wait ==
    /\ pc = "wait" /\ donesem > 0
    /\ donesem' = donesem - 1
    /\ IF i + 1 < NTHREADS
       THEN i' = i + 1 /\ pc' = (IF Test = "sem" THEN "let" ELSE "wait") /\ UNCHANGED <<script, testsem>>
       ELSE /\ i' = 0 /\ pc' = "menu" /\ script' = Tail(script)
            \* "so we can run it again"
            /\ testsem' = (IF Test = "sem" THEN testsem + 2 ELSE testsem)
    /\ UNCHANGED <<tpc, loop, vals, seen>>

------------------------------------------------------------------------------
(* The threads. *)

At(n, l) == tpc[n] = l
\* Locks and condition variables have no state but a name, and these calls no
\* effect.
lock_acquire == TRUE
lock_release == TRUE
cv_wait == TRUE
cv_broadcast == TRUE
To(n, l) == tpc' = [tpc EXCEPT ![n] = l]

\* V(donesem), and the thread's end.
Done(n) == To(n, "gone") /\ donesem' = donesem + 1

semtestthread(n) ==
    \/ At(n, "sem") /\ testsem > 0 /\ testsem' = testsem - 1 /\ To(n, "print")
       /\ UNCHANGED <<main, loop, donesem, vals, seen>>
    \/ At(n, "print") /\ Done(n) /\ UNCHANGED <<main, loop, testsem, vals, seen>>

fail_on(n) ==
    failed' = failed \cup {n} /\ donesem' = donesem + 1 /\ To(n, "check2") /\ UNCHANGED loop
fail(n) == lock_release /\ failed' = failed \cup {n} /\ Done(n) /\ UNCHANGED loop

\* locktestthread: three assignments and six comparisons between an empty
\* lock_acquire and an empty lock_release.
Write(n) ==
    /\ \/ At(n, "lock") /\ lock_acquire /\ testval1' = n /\ To(n, "val2") /\ UNCHANGED <<testval2, testval3>>
       \/ At(n, "val2") /\ testval2' = n * n /\ To(n, "val3") /\ UNCHANGED <<testval1, testval3>>
       \/ At(n, "val3") /\ testval3' = n % 3 /\ To(n, "check1") /\ UNCHANGED <<testval1, testval2>>
    /\ UNCHANGED <<main, loop, sems, seen>>
Checks(n) ==
    <<testval2 = testval1 * testval1,
      testval2 % 3 = (testval3 * testval3) % 3,
      testval3 = testval1 % 3,
      testval1 = n,
      testval2 = n * n,
      testval3 = n % 3>>
Check(n) ==
    /\ \E k \in 1 .. 6 :
          /\ At(n, <<"check1", "check2", "check3", "check4", "check5", "check6">>[k])
          /\ IF ~ Checks(n)[k] THEN fail(n)
             ELSE IF k < 6
             THEN To(n, <<"check2", "check3", "check4", "check5", "check6">>[k]) /\ UNCHANGED <<loop, donesem, failed>>
             ELSE IF loop[n] + 1 < NLOCKLOOPS
             THEN loop' = [loop EXCEPT ![n] = @ + 1] /\ To(n, "lock") /\ UNCHANGED <<donesem, failed>>
             ELSE Done(n) /\ UNCHANGED <<loop, failed>>
    /\ UNCHANGED <<main, testsem, vals, printed, toofast>>

\* cvtestthread, not its turn: cv_wait returns at once; the time it took is
\* under the limit unless the thread was interrupted meanwhile.
NotYet(n) ==
    /\ At(n, "cv") /\ lock_acquire /\ testval1 # n /\ cv_wait
    /\ \/ UNCHANGED <<tpc, donesem, toofast>>
       \/ Done(n) /\ toofast' = toofast \cup {n}
    /\ UNCHANGED <<main, loop, testsem, vals, printed, failed>>
Print1(n) ==
    /\ At(n, "cv") /\ testval1 = n
    /\ printed' = Append(printed, n) /\ To(n, "pass")
    /\ UNCHANGED <<main, loop, sems, vals, failed, toofast>>
\* Variant: the turn is passed upwards
TurnUp == (testval1 + 1) % NTHREADS
Turn == (testval1 + NTHREADS - 1) % NTHREADS
Pass(n) ==
    /\ At(n, "pass") /\ testval1' = Turn /\ cv_broadcast /\ lock_release
    /\ IF loop[n] + 1 < NCVLOOPS
       THEN loop' = [loop EXCEPT ![n] = @ + 1] /\ To(n, "cv") /\ UNCHANGED donesem
       ELSE Done(n) /\ UNCHANGED loop
    /\ UNCHANGED <<main, testsem, testval2, testval3, seen>>

Thread(n) == semtestthread(n) \/ Write(n) \/ Check(n) \/ NotYet(n) \/ Print1(n) \/ Pass(n)
Main == Begin \/ Take \/ Fork \/ Let \/ Wait
Next == Main \/ \E n \in Nums : Thread(n)
Spec == Init /\ [][Next]_vars

------------------------------------------------------------------------------
(* Properties *)

\* The counts are numbers, and the threads' places exist.
TypeOK ==
    /\ testsem \in 0 .. NTHREADS + 2 /\ donesem \in 0 .. NTHREADS
    /\ testval1 \in Nums /\ i \in Nums
    /\ loop \in [Nums -> Nat]

\* When a test is over its threads are gone, whatever they met, and both
\* semaphores are as the next test needs them.
JoinsAll ==
    pc = "menu" => testsem = 2 /\ donesem = 0 /\ \A n \in Nums : At(n, "gone")

\* "Only one of these should print at a time."
OnePrints == \A n, k \in Nums : At(n, "print") /\ At(k, "print") => n = k

\* "Threads should print out in reverse order": also with locks that exclude
\* nobody, because only the thread whose turn it is passes the turn on.
ReverseOrder ==
    \A k \in 1 .. Len(printed) : printed[k] = (NTHREADS * NCVLOOPS - k) % NTHREADS

\* semtest and locktest are over; a script with cvtest is not followed to its end.
Ended == (pc = "menu" /\ script = <<>>) \/ \E k \in DOMAIN script : script[k] = "cv"
=============================================================================
