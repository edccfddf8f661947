-------------------------------- MODULE Lhd --------------------------------
(***************************************************************************)
(* The hard disk driver (kern/dev/lamebus/lhd.c) under the device vnode    *)
(* (kern/vfs/device.c): threads share one controller with a sector buffer, *)
(* a sector register and a status register; lh_clear lets one of them use  *)
(* it at a time and lh_done carries the completion from the interrupt.     *)
(***************************************************************************)
EXTENDS Integers, Sequences, FiniteSets

CONSTANTS
    Thread, Data,
    NSECT,          \* d_blocks
    SECTSIZE,       \* d_blocksize, in bytes
    Positions,      \* file positions that are tried
    Lengths,        \* lengths of requests, in bytes
    MaxReq,         \* bound on the requests of a thread
    Errors          \* faults that happen: of the "media", of the caller's "memory"

VARIABLES
    disk,           \* the medium
    stat, sect, buf,    \* the controller's registers and buffer; stat carries the direction
    irq,            \* the interrupt line
    lh_clear, lh_done, lh_result,
    pc, pos, job,   \* where a thread is in lhd_io, its file position, and its uio: direction, first sector, data
    i, result,      \* the loop's sector and result
    got,            \* data uiomove has delivered
    count           \* requests made

vars == <<disk, stat, sect, buf, irq, lh_clear, lh_done, lh_result, pc, pos, job, i, result, got, count>>
ctlr == <<disk, stat, sect, buf, irq>>
sems == <<lh_clear, lh_done, lh_result>>

NoJob == [op |-> "none", sector |-> 0, out |-> <<>>]

\* config_lhd
Init ==
    /\ disk \in [0..(NSECT - 1) -> Data]
    /\ stat = "idle" /\ sect = 0 /\ buf \in Data /\ irq = FALSE
    /\ lh_clear = 1 /\ lh_done = 0 /\ lh_result = "ok"
    /\ pc = [t \in Thread |-> "out"] /\ pos = [t \in Thread |-> 0] /\ job = [t \in Thread |-> NoJob]
    /\ i = [t \in Thread |-> 0] /\ result = [t \in Thread |-> "ok"] /\ got = [t \in Thread |-> <<>>]
    /\ count = [t \in Thread |-> 0]

\* dev_tryseek, of a device with blocks
dev_tryseek(p) == p % SECTSIZE = 0 /\ p >= 0 /\ p \div SECTSIZE < NSECT

Seek(t, p) ==
    /\ pc[t] = "out" /\ count[t] < MaxReq /\ pos[t] # p
    /\ dev_tryseek(p)
    /\ pos' = [pos EXCEPT ![t] = p]
    /\ UNCHANGED <<ctlr, sems, pc, job, i, result, got, count>>

\* Variant: the end of the request is not checked.
AcceptedStart(p, n) == p % SECTSIZE = 0 /\ n % SECTSIZE = 0 /\ p \div SECTSIZE < NSECT
\* lhd_io's checks: whole sectors, inside the disk.
Accepted(p, n) ==
    /\ p % SECTSIZE = 0 /\ n % SECTSIZE = 0
    /\ (p \div SECTSIZE) + (n \div SECTSIZE) <= NSECT

\* dev_read and dev_write: lhd_io begins; EINVAL leaves everything as it is.
lhd_io(t, op, n) ==
    /\ pc[t] = "out" /\ count[t] < MaxReq
    /\ count' = [count EXCEPT ![t] = @ + 1]
    /\ IF Accepted(pos[t], n)
       THEN /\ \E out \in [1..(n \div SECTSIZE) -> IF op = "write" THEN Data ELSE {CHOOSE d \in Data : TRUE}] :
                  job' = [job EXCEPT ![t] = [op |-> op, sector |-> pos[t] \div SECTSIZE, out |-> out]]
            /\ pc' = [pc EXCEPT ![t] = "loop"]
       ELSE UNCHANGED <<job, pc>>
    /\ UNCHANGED <<ctlr, sems, pos, i, result, got>>

Goto(t, l) == pc' = [pc EXCEPT ![t] = l]

\* P(lh_clear)
PClear(t) ==
    /\ pc[t] = "loop" /\ i[t] < Len(job[t].out)
    /\ lh_clear > 0 /\ lh_clear' = lh_clear - 1
    /\ UNCHANGED <<lh_done, lh_result>>
Take(t) ==
    /\ PClear(t)
    /\ Goto(t, IF job[t].op = "write" THEN "fill" ELSE "start")
    /\ UNCHANGED <<ctlr, pos, job, i, result, got, count>>

\* uiomove into the controller's buffer; it may fail, and then the controller is given up.
Fill(t, ok) ==
    /\ pc[t] = "fill"
    /\ IF ok
       THEN /\ buf' = job[t].out[i[t] + 1]
            /\ Goto(t, "start") /\ UNCHANGED <<lh_clear, result>>
       ELSE /\ lh_clear' = lh_clear + 1 /\ result' = [result EXCEPT ![t] = "error"]
            /\ Goto(t, "return") /\ UNCHANGED buf
    /\ UNCHANGED <<disk, stat, sect, irq, lh_done, lh_result, pos, job, i, got, count>>

\* Variant: the first sector every time.
StartSame(t) ==
    /\ pc[t] = "start"
    /\ sect' = job[t].sector
    /\ stat' = IF job[t].op = "write" THEN "writing" ELSE "reading"
    /\ Goto(t, "wait")
    /\ UNCHANGED <<disk, buf, irq, sems, pos, job, i, result, got, count>>
\* The sector and status registers are written.
Start(t) ==
    /\ pc[t] = "start"
    /\ sect' = job[t].sector + i[t]
    /\ stat' = IF job[t].op = "write" THEN "writing" ELSE "reading"
    /\ Goto(t, "wait")
    /\ UNCHANGED <<disk, buf, irq, sems, pos, job, i, result, got, count>>

\* The controller carries the operation out, or reports an error, and interrupts.
Device(ok) ==
    /\ stat \in {"reading", "writing"}
    /\ irq' = TRUE
    /\ IF sect \notin DOMAIN disk THEN stat' = "invsect" /\ UNCHANGED <<disk, buf>>
       ELSE IF ~ok THEN stat' = "media" /\ UNCHANGED <<disk, buf>>
       ELSE /\ stat' = "ok"
            /\ disk' = IF stat = "writing" THEN [disk EXCEPT ![sect] = buf] ELSE disk
            /\ buf' = IF stat = "reading" THEN disk[sect] ELSE buf
    /\ UNCHANGED <<sect, sems, pc, pos, job, i, result, got, count>>

\* lhd_irq acts on a finished operation only.
Finished == stat \in {"ok", "invsect", "media"}

lhd_code_to_errno(code) == IF code = "ok" THEN "ok" ELSE "error"
lhd_iodone(err) == lh_result' = err /\ lh_done' = lh_done + 1
lhd_irq ==
    /\ irq /\ irq' = FALSE
    /\ IF Finished
       THEN stat' = "idle" /\ lhd_iodone(lhd_code_to_errno(stat))
       ELSE UNCHANGED <<stat, lh_result, lh_done>>
    /\ UNCHANGED <<disk, sect, buf, lh_clear, pc, pos, job, i, result, got, count>>

\* P(lh_done), and the result the interrupt left.
\* Variant: the thread does not wait for the interrupt.
PDoneNot == lh_done \in Nat /\ UNCHANGED lh_done
PDone == lh_done > 0 /\ lh_done' = lh_done - 1
Wait(t) ==
    /\ pc[t] = "wait" /\ PDone
    /\ result' = [result EXCEPT ![t] = lh_result]
    /\ Goto(t, "done")
    /\ UNCHANGED <<ctlr, lh_clear, lh_result, pos, job, i, got, count>>

VClear(res) == lh_clear' = lh_clear + 1
Done(t, ok) ==
    /\ pc[t] = "done"
    /\ LET moves == job[t].op = "read" /\ result[t] = "ok"
           res == IF moves /\ ~ok THEN "error" ELSE result[t]
       IN  /\ ok \/ moves
           /\ got' = [got EXCEPT ![t] = IF moves /\ ok THEN Append(@, buf) ELSE @]
           /\ result' = [result EXCEPT ![t] = res]
           /\ Goto(t, IF res = "ok" THEN "loop" ELSE "return")
           /\ i' = [i EXCEPT ![t] = IF res = "ok" THEN @ + 1 ELSE @]
           /\ VClear(res)
    /\ UNCHANGED <<ctlr, lh_done, lh_result, pos, job, count>>

\* lhd_io returns, after the last sector or with an error; the position moves by what was transferred.
Return(t) ==
    /\ pc[t] = "return" \/ (pc[t] = "loop" /\ i[t] = Len(job[t].out))
    /\ Goto(t, "out")
    /\ job' = [job EXCEPT ![t] = NoJob] /\ i' = [i EXCEPT ![t] = 0]
    /\ result' = [result EXCEPT ![t] = "ok"] /\ got' = [got EXCEPT ![t] = <<>>]
    /\ UNCHANGED <<ctlr, sems, pos, count>>

Next ==
    \/ \E t \in Thread :
          \/ \E p \in Positions : Seek(t, p)
          \/ \E op \in {"read", "write"}, n \in Lengths : lhd_io(t, op, n)
          \/ Take(t) \/ Start(t) \/ Wait(t) \/ Return(t)
          \/ \E ok \in BOOLEAN : (ok \/ "memory" \in Errors) /\ (Fill(t, ok) \/ Done(t, ok))
    \/ \E ok \in BOOLEAN : (ok \/ "media" \in Errors) /\ Device(ok)
    \/ lhd_irq

\* A thread that can go on does.
Proceed(t) == Take(t) \/ Fill(t, TRUE) \/ Start(t) \/ Wait(t) \/ Done(t, TRUE) \/ Return(t)

Spec == Init /\ [][Next]_vars

-----------------------------------------------------------------------------
\* Type invariant: what each variable may hold.
TypeOK ==
    /\ disk \in [0..(NSECT - 1) -> Data] /\ buf \in Data
    /\ stat \in {"idle", "reading", "writing", "ok", "invsect", "media"} /\ irq \in BOOLEAN
    /\ lh_clear \in 0..1 /\ lh_done \in 0..1
    /\ \A t \in Thread : pc[t] \in {"out", "loop", "fill", "start", "wait", "done", "return"}

\* At most one thread is between P(lh_clear) and V(lh_clear), the controller works only for it, and the
\* completion it waits for is its own: none is left over from an earlier request.
OneUser ==
    LET users == {t \in Thread : pc[t] \in {"fill", "start", "wait", "done"}}
    IN  /\ Cardinality(users) + lh_clear = 1
        /\ (stat # "idle" \/ lh_done > 0) => \E t \in users : pc[t] = "wait"
        /\ ~(stat # "idle" /\ lh_done > 0)

\* The controller is never asked for a sector it does not have: what dev_tryseek and lhd_io let through is on
\* the disk.
OnDisk ==
    /\ stat # "invsect"
    /\ \A t \in Thread : pc[t] = "out" => Accepted(pos[t], SECTSIZE)

Returned(t) == pc[t] = "out"

\* The sectors a thread has moved; one that is written has moved when the controller wrote it.
Written(t) ==
    /\ job[t].op = "write"
    /\ \/ pc[t] = "wait" /\ (stat = "ok" \/ (lh_done = 1 /\ lh_result = "ok"))
       \/ pc[t] = "done" /\ result[t] = "ok"
Request(t) ==
    [op |-> job[t].op, sector |-> job[t].sector, out |-> job[t].out, in |-> got[t],
     moved |-> i[t] + (IF Written(t) THEN 1 ELSE 0)]
=============================================================================
