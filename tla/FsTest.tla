-------------------------------- MODULE FsTest --------------------------------
(***************************************************************************)
(* The kernel's file system tests fs1 to fs5 (kern/test/fstest.c), run     *)
(* against a file system that may misbehave: a call may fail, a write may  *)
(* be short, lost or put in the wrong place, a read may return the wrong   *)
(* data.  The question is whether the verdict the tests print is right,    *)
(* with their threads in any order.  The line of chunk i is the slogan     *)
(* rotated by i; only the rotation is kept.                                *)
(***************************************************************************)
EXTENDS Integers, Sequences, FiniteSets

CONSTANTS NTHREADS, NCHUNKS, NCREATES,
          Letters,     \* 26, the alphabet a line is rotated in
          Kinds,       \* which of fs1 to fs5
          MaxFaults    \* bound: faults of the file system

FsTestAssumption == NTHREADS \in Nat \ {0} /\ NCHUNKS \in Nat \ {0} /\ Letters \in Nat \ {0}

VARIABLES
    kind,
    dir,       \* the file each name refers to, 0 for none
    data,      \* the contents of each file, by chunk
    op, chunk, file,   \* for each thread: step of its script, chunk it is at, file it has open (0 for none)
    threadsem,
    faults,
    failed     \* threads that have printed a failure

vars == <<kind, dir, data, op, chunk, file, threadsem, faults, failed>>

Main == 0
Workers == 1..NTHREADS
Threads == {Main} \cup Workers
Chunks == 0..NCHUNKS - 1
Hole == -1        \* never written: reads as zeros
Bad == -2
EndOp == 99

rotate(amt) == (amt + 100 * Letters) % Letters

\* The steps of a test.
Write(n, size, pos) == [do |-> "write", name |-> n, size |-> size, pos |-> pos]
Do(what, n) == [do |-> what, name |-> n, size |-> 1, pos |-> 0]
Shared == <<0, 0>>
NameOf(t, i) == <<t, i>>
Names == {Shared} \cup {NameOf(t, i) : t \in Workers, i \in 1..NCREATES}

dofstest == <<Write(Shared, 1, 0), Do("read", Shared), Do("remove", Shared)>>
doreadstress == <<Write(Shared, 1, 0), Do("fork", Shared), Do("join", Shared), Do("remove", Shared)>>
dowritestress == <<Do("fork", Shared), Do("join", Shared)>>
dowritestress2 ==
    <<Do("create", Shared), Do("fork", Shared), Do("join", Shared), Do("read", Shared), Do("remove", Shared)>>
docreatestress == dowritestress

readstress_thread == <<Do("read", Shared)>>
writestress_thread(t) == <<Write(NameOf(t, 1), 1, 0), Do("read", NameOf(t, 1)), Do("remove", NameOf(t, 1))>>

\* Variant: every thread starts its writing at the first chunk.
Stress2Overlap(t) == <<Write(Shared, NTHREADS, 0)>>
writestress2_thread(t) == <<Write(Shared, NTHREADS, t - 1)>>

\* Variant: the files are not removed.
CreateKeeps(t) ==
    [k \in 1..2 * NCREATES |->
        LET n == NameOf(t, (k + 1) \div 2) IN IF k % 2 = 1 THEN Write(n, 1, 0) ELSE Do("read", n)]
createstress_thread(t) ==
    [k \in 1..3 * NCREATES |->
        LET n == NameOf(t, (k + 2) \div 3) IN
        IF k % 3 = 1 THEN Write(n, 1, 0) ELSE IF k % 3 = 2 THEN Do("read", n) ELSE Do("remove", n)]

Script(t) ==
    IF t = Main
    THEN CASE kind = 1 -> dofstest [] kind = 2 -> doreadstress [] kind = 3 -> dowritestress
           [] kind = 4 -> dowritestress2 [] kind = 5 -> docreatestress
    ELSE CASE kind = 2 -> readstress_thread [] kind = 3 -> writestress_thread(t)
           [] kind = 4 -> writestress2_thread(t) [] kind = 5 -> createstress_thread(t) [] OTHER -> <<>>

Init ==
    /\ kind \in Kinds
    /\ dir = [n \in Names |-> 0] /\ data = <<>>
    /\ op = [t \in Threads |-> IF t = Main THEN 1 ELSE 0]     \* 0: not forked
    /\ chunk = [t \in Threads |-> 0] /\ file = [t \in Threads |-> 0]
    /\ threadsem = 0 /\ faults = 0 /\ failed = {}
---------------------------------------------------------------------------
At(t, what) == op[t] >= 1 /\ op[t] <= Len(Script(t)) /\ Script(t)[op[t]].do = what
Cur(t) == Script(t)[op[t]]

Fault == faults < MaxFaults /\ faults' = faults + 1

\* The thread goes on to its next step; or prints a failure and gives up.
Done(t) == op' = [op EXCEPT ![t] = @ + 1] /\ chunk' = [chunk EXCEPT ![t] = 0] /\ UNCHANGED failed
Failed(t) == /\ op' = [op EXCEPT ![t] = EndOp] /\ chunk' = [chunk EXCEPT ![t] = 0]
             /\ failed' = failed \cup {t}

\* vfs_open: fails, finds the file or, with O_CREAT, makes it; O_TRUNC empties it.
vfs_open(t, creat, trunc) ==
    LET n == Cur(t).name
        f == IF dir[n] # 0 THEN dir[n] ELSE Len(data) + 1
    IN  /\ dir[n] # 0 \/ creat
        /\ dir' = [dir EXCEPT ![n] = f]
        /\ data' = IF f > Len(data) THEN Append(data, [c \in Chunks |-> Hole])
                   ELSE IF trunc THEN [data EXCEPT ![f] = [c \in Chunks |-> Hole]] ELSE data
        /\ file' = [file EXCEPT ![t] = f]
        /\ UNCHANGED <<op, chunk, failed, faults>>

OpenFails(t) ==
    /\ \/ Fault
       \/ At(t, "read") /\ dir[Cur(t).name] = 0 /\ UNCHANGED faults
    /\ Failed(t) /\ UNCHANGED <<dir, data, file>>

Open(t) ==
    /\ At(t, "write") \/ At(t, "read")
    /\ file[t] = 0
    /\ \/ At(t, "write") /\ vfs_open(t, TRUE, Cur(t).size = 1)
       \/ At(t, "read") /\ vfs_open(t, FALSE, FALSE)
       \/ OpenFails(t)
    /\ UNCHANGED <<kind, threadsem>>

\* dowritestress2 creates and truncates the file all threads write.
Create(t) ==
    /\ At(t, "create")
    /\ \/ LET f == IF dir[Shared] # 0 THEN dir[Shared] ELSE Len(data) + 1 IN
          /\ dir' = [dir EXCEPT ![Shared] = f]
          /\ data' = IF f > Len(data) THEN Append(data, [c \in Chunks |-> Hole])
                     ELSE [data EXCEPT ![f] = [c \in Chunks |-> Hole]]
          /\ Done(t) /\ UNCHANGED faults
       \/ Fault /\ Failed(t) /\ UNCHANGED <<dir, data>>
    /\ UNCHANGED <<kind, file, threadsem>>

\* The chunks of its stride, in order; the others are skipped.
Mine(t, i) == i % Cur(t).size = Cur(t).pos
NextMine(t, i) == IF \E j \in Chunks : j >= i /\ Mine(t, j)
                  THEN CHOOSE j \in Chunks : j >= i /\ Mine(t, j) /\ \A k \in i..j - 1 : ~Mine(t, k)
                  ELSE NCHUNKS

\* VOP_WRITE of one line: stored; or, at fault, an error or a short write, which the test sees, removes the
\* file for and gives up; or lost, wrong or misplaced, which it does not see here.
fstest_write(t) ==
    /\ At(t, "write") /\ file[t] # 0 /\ NextMine(t, chunk[t]) < NCHUNKS
    /\ LET i == NextMine(t, chunk[t])
           f == file[t]
           Goes == chunk' = [chunk EXCEPT ![t] = i + 1] /\ UNCHANGED <<op, failed, file, dir>>
       IN  \/ data' = [data EXCEPT ![f][i] = rotate(i)] /\ Goes /\ UNCHANGED faults
           \/ Fault /\ Goes /\ \/ UNCHANGED data
                               \/ data' = [data EXCEPT ![f][i] = Bad]
                               \/ \E j \in Chunks \ {i} : data' = [data EXCEPT ![f][j] = rotate(i)]
           \/ Fault /\ Failed(t) /\ UNCHANGED data
              /\ file' = [file EXCEPT ![t] = 0] /\ dir' = [dir EXCEPT ![Cur(t).name] = 0]
    /\ UNCHANGED <<kind, threadsem>>

\* Variant: the line is read and not compared.
ReadTrusting(t) ==
    /\ At(t, "read") /\ file[t] # 0 /\ chunk[t] < NCHUNKS
    /\ \/ chunk' = [chunk EXCEPT ![t] = @ + 1] /\ UNCHANGED <<op, failed, file, faults>>
       \/ Fault /\ Failed(t) /\ file' = [file EXCEPT ![t] = 0]
    /\ UNCHANGED <<kind, threadsem, dir, data>>

\* VOP_READ of one line, rotated back and compared; at fault, an error or other data.
fstest_read(t) ==
    /\ At(t, "read") /\ file[t] # 0 /\ chunk[t] < NCHUNKS
    /\ \/ /\ LET d == data[file[t]][chunk[t]] IN
             IF d >= 0 /\ rotate(d - chunk[t]) = 0
             THEN chunk' = [chunk EXCEPT ![t] = @ + 1] /\ UNCHANGED <<op, failed, file>>
             ELSE Failed(t) /\ file' = [file EXCEPT ![t] = 0]
          /\ UNCHANGED faults
       \/ Fault /\ Failed(t) /\ file' = [file EXCEPT ![t] = 0]
    /\ UNCHANGED <<kind, threadsem, dir, data>>

\* vfs_close at the end of fstest_write and fstest_read.
Close(t) ==
    /\ file[t] # 0
    /\ \/ At(t, "write") /\ NextMine(t, chunk[t]) = NCHUNKS
       \/ At(t, "read") /\ chunk[t] = NCHUNKS
    /\ file' = [file EXCEPT ![t] = 0] /\ Done(t)
    /\ UNCHANGED <<kind, threadsem, dir, data, faults>>

fstest_remove(t) ==
    /\ At(t, "remove")
    /\ \/ dir[Cur(t).name] # 0 /\ dir' = [dir EXCEPT ![Cur(t).name] = 0] /\ Done(t) /\ UNCHANGED faults
       \/ dir[Cur(t).name] = 0 /\ Failed(t) /\ UNCHANGED <<dir, faults>>
       \/ Fault /\ Failed(t) /\ UNCHANGED dir
    /\ UNCHANGED <<kind, data, file, threadsem>>

Fork ==
    /\ At(Main, "fork")
    /\ op' = [t \in Threads |-> IF t = Main THEN op[t] + 1 ELSE 1]
    /\ UNCHANGED <<kind, dir, data, chunk, file, threadsem, faults, failed>>

\* Variant: a thread that fails does not do its V.
EndsSilent(t) ==
    /\ t # Main /\ op[t] > Len(Script(t)) /\ op[t] < EndOp
    /\ op' = [op EXCEPT ![t] = EndOp + 1] /\ threadsem' = threadsem + 1
    /\ UNCHANGED <<kind, dir, data, chunk, file, faults, failed>>

\* A thread ends with V(threadsem), whether it failed or not.
WorkerEnds(t) ==
    /\ t # Main /\ op[t] > Len(Script(t)) /\ op[t] <= EndOp
    /\ op' = [op EXCEPT ![t] = EndOp + 1] /\ threadsem' = threadsem + 1
    /\ UNCHANGED <<kind, dir, data, chunk, file, faults, failed>>

\* The loop of NTHREADS P(threadsem).
Join ==
    /\ At(Main, "join") /\ threadsem > 0
    /\ threadsem' = threadsem - 1
    /\ IF chunk[Main] = NTHREADS - 1
       THEN Done(Main)
       ELSE chunk' = [chunk EXCEPT ![Main] = @ + 1] /\ UNCHANGED <<op, failed>>
    /\ UNCHANGED <<kind, dir, data, file, faults>>

Step(t) ==
    \/ Open(t) \/ Create(t) \/ fstest_write(t) \/ fstest_read(t) \/ Close(t) \/ fstest_remove(t)
    \/ WorkerEnds(t)
Next == Fork \/ Join \/ \E t \in Threads : Step(t)

Ended == op[Main] > Len(Script(Main))
Spec == Init /\ [][Next]_vars
---------------------------------------------------------------------------
\* Type invariant: what each variable may hold.
TypeOK ==
    /\ \A n \in Names : dir[n] \in 0..Len(data)
    /\ \A t \in Threads : chunk[t] \in 0..NCHUNKS + NTHREADS /\ file[t] \in 0..Len(data)
    /\ threadsem \in 0..NTHREADS - (IF At(Main, "join") THEN chunk[Main] ELSE 0) /\ faults \in 0..MaxFaults

\* On a file system that does what it should, no test reports a failure, though the threads of fs4 write
\* into one file and all of them come and go in any order.
NoFalseAlarm == faults = 0 => failed = {}

\* Whatever the file system did wrong, the test has reported a failure by the time it is over.
FaultsSeen == Ended /\ faults > 0 => failed # {}

\* A test that reports no failure leaves no file behind, and none open.
LeavesNothing ==
    Ended /\ failed = {} => (\A n \in Names : dir[n] = 0) /\ (\A t \in Threads : file[t] = 0)

\* The test is over and its semaphore at zero for the next one: no thread is left running or uncounted.
EndedClean == Ended /\ threadsem = 0 /\ \A t \in Workers : op[t] \in {0, EndOp + 1}
=============================================================================
