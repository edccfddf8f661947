---------------------------- MODULE BlockDevice ----------------------------
(***************************************************************************)
(* What a disk promises to the threads that use it: a request moves its    *)
(* sectors one after the other, each at one moment between the call and    *)
(* the return, and a call that returns success has moved all of them.      *)
(***************************************************************************)
EXTENDS Integers, Sequences

CONSTANTS
    Thread, NSECT,
    Data        \* contents of a sector

VARIABLES
    disk,       \* contents of the sectors
    req         \* request of a thread: operation, first sector, data to write, data read, sectors moved

vars == <<disk, req>>
Sectors == 0..(NSECT - 1)
Idle == [op |-> "none", sector |-> 0, out |-> <<>>, in |-> <<>>, moved |-> 0]

Init == disk \in [Sectors -> Data] /\ req = [t \in Thread |-> Idle]

Begin(t, op, sector, out) ==
    /\ req[t] = Idle
    /\ req' = [req EXCEPT ![t] = [op |-> op, sector |-> sector, out |-> out, in |-> <<>>, moved |-> 0]]
    /\ UNCHANGED disk
MoveIn(t) ==
    /\ req[t].op = "read" /\ req[t].moved < Len(req[t].out)
    /\ req' = [req EXCEPT ![t].moved = @ + 1, ![t].in = Append(@, disk[req[t].sector + req[t].moved])]
    /\ UNCHANGED disk
MoveOut(t) ==
    /\ req[t].op = "write" /\ req[t].moved < Len(req[t].out)
    /\ disk' = [disk EXCEPT ![req[t].sector + req[t].moved] = req[t].out[req[t].moved + 1]]
    /\ req' = [req EXCEPT ![t].moved = @ + 1]
Return(t, result) ==
    /\ req[t].op # "none"
    /\ result = "ok" => req[t].moved = Len(req[t].out)
    /\ req' = [req EXCEPT ![t] = Idle]
    /\ UNCHANGED disk

Next ==
    \E t \in Thread :
        \/ \E op \in {"read", "write"}, s \in Sectors, out \in UNION {[1..n -> Data] : n \in 0..NSECT} :
              s + Len(out) <= NSECT /\ Begin(t, op, s, out)
        \/ MoveIn(t) \/ MoveOut(t)
        \/ \E result \in {"ok", "error"} : Return(t, result)

Spec == Init /\ [][Next]_vars
=============================================================================
