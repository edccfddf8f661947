------------------------------ MODULE ByteFile ------------------------------
(***************************************************************************)
(* What a file promises, as man/syscall/write, read and ftruncate say it:  *)
(* a size and a byte for every position, zero where nothing was written.   *)
(***************************************************************************)
EXTENDS Integers, Sequences

CONSTANTS
    Bytes,    \* byte values a program writes; none is zero
    MaxLen,   \* bound: longest request
    MaxPos    \* bound: highest position

VARIABLES
    size,     \* length of the file
    bytes,    \* byte at each position, zero past the end
    result    \* what the last read returned

vars == <<size, bytes, result>>

Positions == 0 .. MaxPos

Init ==
    /\ size = 0
    /\ bytes = [i \in Positions |-> 0]
    /\ result = <<>>

\* A write may be cut short when the disk fills or the file may not grow.
Write ==
    \E o \in Positions, n \in 0 .. MaxLen, v \in Bytes :
        /\ o + n <= MaxPos + 1
        /\ result' = <<>>
        /\ size' = IF n > 0 /\ o + n > size THEN o + n ELSE size
        /\ bytes' = [i \in Positions |-> IF i \in o .. o + n - 1 THEN v ELSE bytes[i]]

Read ==
    \E o \in Positions, n \in 1 .. MaxLen :
        /\ result' = [i \in 1 .. (IF o + n <= size THEN n ELSE IF o < size THEN size - o ELSE 0)
                          |-> bytes[o + i - 1]]
        /\ UNCHANGED <<size, bytes>>

Truncate ==
    \E len \in 0 .. MaxPos + 1 :
        /\ size' = len
        /\ bytes' = [i \in Positions |-> IF i < len THEN bytes[i] ELSE 0]
        /\ result' = <<>>

Next == Write \/ Read \/ Truncate

Spec == Init /\ [][Next]_vars
=============================================================================
