-------------------------- MODULE CountingSemaphore --------------------------
(***************************************************************************)
(* What a semaphore promises its callers: a count that P lowers, waiting   *)
(* while it is 0, and V raises.  It does not promise whose turn it is.     *)
(***************************************************************************)
EXTENDS Naturals

CONSTANTS Threads, Initial

VARIABLES count, call      \* call[t]: what thread t has asked for and not yet had

vars == <<count, call>>

Init ==
    /\ count = Initial
    /\ call = [t \in Threads |-> "none"]

Ask(t) ==
    /\ call[t] = "none"
    /\ \E what \in {"P", "V"} : call' = [call EXCEPT ![t] = what]
    /\ UNCHANGED count

Down(t) ==
    /\ call[t] = "P" /\ count > 0
    /\ count' = count - 1
    /\ call' = [call EXCEPT ![t] = "none"]

Up(t) ==
    /\ call[t] = "V"
    /\ count' = count + 1
    /\ call' = [call EXCEPT ![t] = "none"]

SomeDown == \E t \in Threads : Down(t)

Next == \E t \in Threads : Ask(t) \/ Down(t) \/ Up(t)

\* Someone is served whenever someone can be, and a V never waits for ever.
Spec ==
    /\ Init /\ [][Next]_vars
    /\ SF_vars(SomeDown)
    /\ \A t \in Threads : WF_vars(Up(t))
=============================================================================
