---------------------------- MODULE ParallelSort ----------------------------
(* user/testbin/psort: the parallel sort.  A parent forks one process for     *)
(* each part of every phase (make keys, toss them into bins, sort the bins,   *)
(* merge them, assemble the output, validate it), waits for all of them, and  *)
(* checks sizes and sums in between.  Files are sequences of keys; a process  *)
(* writes only files of its own, or its own part of a shared one.  Calls of   *)
(* the kernel may fail, which ends the process that made them.                *)
EXTENDS Naturals, Sequences, SequencesExt, FiniteSetsExt, TLC

CONSTANTS numprocs, numkeys, RANDOM_MAX, WORKNUM,
          Faults     \* what may go wrong: "fork", "io"

SizeAssumption ==
    numprocs \in Nat \ {0} /\ numkeys \in Nat /\ RANDOM_MAX \in Nat /\ RANDOM_MAX >= numprocs /\ WORKNUM \in Nat \ {0}

Procs == 0 .. numprocs - 1
Keys == 1 .. RANDOM_MAX - 1
Phases == <<"keys", "toss", "sort", "merge", "assemble", "validate">>

VARIABLES
    phase, mpc,          \* the parent: phase, and "fork", "wait", "check", "done", "failed"
    next, bad,           \* doforkall: the process to fork or wait for; something failed
    st, pos,             \* a process: "none", "run", "ok", "bad"; its progress in the phase
    work, taken,         \* mergebins: the keys not yet written, how many were read of each bin
    keys, bins, merged, output, valid,  \* the files
    exists,              \* the files there are
    checksum,
    result, failed, asserted   \* history: the final output, a failure, an assertion that failed

parent == <<phase, mpc, next, bad>>
procs == <<st, pos, work, taken>>
files == <<keys, bins, merged, output, valid, exists>>
hist == <<result, failed, asserted>>
vars == <<parent, procs, files, checksum, hist>>

Init ==
    /\ phase = 1 /\ mpc = "fork" /\ next = 0 /\ bad = FALSE
    /\ st = [p \in Procs |-> "none"] /\ pos = [p \in Procs |-> 0]
    /\ work = [p \in Procs |-> <<>>] /\ taken = [p \in Procs |-> [b \in Procs |-> 0]]
    /\ keys = <<>> /\ exists = {<<"sortkeys">>}           \* docreate(PATH_KEYS)
    /\ bins = [p \in Procs |-> [b \in Procs |-> <<>>]]
    /\ merged = [p \in Procs |-> <<>>] /\ output = <<>> /\ valid = [p \in Procs |-> <<>>]
    /\ checksum = 0 /\ result = <<>> /\ failed = FALSE /\ asserted = FALSE

Phase == Phases[phase]
keys_per == numkeys \div numprocs
\* seekmyplace
seekmyplace(p) == p * keys_per
getmykeys(p) == IF p < numprocs - 1 THEN keys_per ELSE numkeys - p * keys_per

\* A write of s at offset o; a gap before it reads as zeroes.
Put(file, o, s) ==
    [k \in 1 .. (IF o + Len(s) > Len(file) THEN o + Len(s) ELSE Len(file)) |->
        IF k > o /\ k <= o + Len(s) THEN s[k - o] ELSE IF k <= Len(file) THEN file[k] ELSE 0]
Part(file, o, n) == SubSeq(file, o + 1, o + n)
Smaller(a, b) == IF a < b THEN a ELSE b
Total(f, S) == MapThenSumSet(LAMBDA x : Len(f[x]), S)
\* checksum_file: the sum of all bytes (keys are below 256 here).
checksum_file(file) == FoldLeft(LAMBDA a, k : a + k, 0, file)

------------------------------------------------------------------------------
(* doforkall and dowait. *)

Fork ==
    /\ mpc = "fork" /\ next < numprocs
    /\ \/ st' = [st EXCEPT ![next] = "run"] /\ UNCHANGED <<bad, failed>>
       \/ "fork" \in Faults /\ bad' = TRUE /\ failed' = TRUE /\ UNCHANGED st
    /\ pos' = [pos EXCEPT ![next] = 0]
    /\ next' = (next + 1) % numprocs
    /\ mpc' = (IF next + 1 < numprocs THEN "fork" ELSE "wait")
    /\ UNCHANGED <<phase, work, taken, files, checksum, result, asserted>>

\* Variant: the status is not looked at.
dowait_blind(p) == st[p] # "run" /\ UNCHANGED bad
\* waitpid, and the exit status; there is nothing to wait for if fork failed.
dowait(p) == st[p] # "run" /\ bad' = (bad \/ st[p] = "bad")
\* Variant: the waiting ends at the first failure
doforkall_hasty ==
    /\ mpc = "wait" /\ dowait(next)
    /\ st' = [st EXCEPT ![next] = "none"]
    /\ IF bad' THEN next' = 0 /\ mpc' = "failed"
       ELSE IF next + 1 < numprocs THEN next' = next + 1 /\ UNCHANGED mpc
       ELSE next' = 0 /\ mpc' = "check"
    /\ UNCHANGED <<phase, pos, work, taken, files, checksum, hist>>
doforkall ==
    /\ mpc = "wait" /\ dowait(next)
    /\ st' = [st EXCEPT ![next] = "none"]
    /\ IF next + 1 < numprocs THEN next' = next + 1 /\ UNCHANGED mpc
       ELSE next' = 0 /\ mpc' = (IF bad' THEN "failed" ELSE "check")
    /\ UNCHANGED <<phase, pos, work, taken, files, checksum, hist>>

------------------------------------------------------------------------------
(* The processes, one file operation at a time. *)

Run(p, ph) == st[p] = "run" /\ Phase = ph
Finish(p) == st' = [st EXCEPT ![p] = "ok"]
Advance(p, n) == pos' = [pos EXCEPT ![p] = @ + n]
Chunk(p) == Smaller(WORKNUM, getmykeys(p) - pos[p])

genkeys_sub(p) ==
    /\ Run(p, "keys")
    /\ IF pos[p] < getmykeys(p)
       THEN \E ks \in [1 .. Chunk(p) -> Keys] :
               keys' = Put(keys, seekmyplace(p) + pos[p], ks) /\ Advance(p, Chunk(p)) /\ UNCHANGED st
       ELSE Finish(p) /\ UNCHANGED <<keys, pos>>
    /\ UNCHANGED <<parent, work, taken, bins, merged, output, valid, exists, checksum, hist>>

pivot == RANDOM_MAX \div numprocs
binnum(k) == k \div pivot
bin(p) ==
    /\ Run(p, "toss")
    /\ IF pos[p] < getmykeys(p)
       THEN LET chunk == Part(keys, seekmyplace(p) + pos[p], Chunk(p))
            IN IF Len(chunk) < Chunk(p) \/ \E k \in DOMAIN chunk : binnum(chunk[k]) >= numprocs
               THEN /\ st' = [st EXCEPT ![p] = "bad"] /\ failed' = TRUE     \* short count, or the assertion
                    /\ asserted' = (asserted \/ Len(chunk) = Chunk(p))
                    /\ UNCHANGED <<bins, exists, pos>>
               ELSE /\ bins' = [bins EXCEPT ![p] = [b \in Procs |->
                                   @[b] \o SelectSeq(chunk, LAMBDA k : binnum(k) = b)]]
                    /\ exists' = exists \cup {<<"bin", p, b>> : b \in Procs}
                    /\ Advance(p, Chunk(p)) /\ UNCHANGED <<st, failed, asserted>>
       ELSE Finish(p) /\ exists' = exists \cup {<<"bin", p, b>> : b \in Procs} /\ UNCHANGED <<bins, pos, failed, asserted>>
    /\ UNCHANGED <<parent, work, taken, keys, merged, output, valid, checksum, result>>

sortints(s) == SortSeq(s, <)
sortbins(p) ==
    /\ Run(p, "sort")
    /\ IF pos[p] < numprocs
       THEN IF Len(bins[p][pos[p]]) > WORKNUM
            THEN st' = [st EXCEPT ![p] = "bad"] /\ failed' = TRUE /\ UNCHANGED <<bins, pos>>   \* bin too large
            ELSE bins' = [bins EXCEPT ![p][pos[p]] = sortints(@)] /\ Advance(p, 1) /\ UNCHANGED <<st, failed>>
       ELSE Finish(p) /\ UNCHANGED <<bins, pos, failed>>
    /\ UNCHANGED <<parent, work, taken, keys, merged, output, valid, exists, checksum, result, asserted>>

\* mergebins: the smallest of the keys next in the bins, the first such bin;
\* the keys are written when WORKNUM of them are there, and at the end.
Ready(p) == {b \in Procs : taken[p][b] < Len(bins[b][p])}
KeyAt(p, b) == bins[b][p][taken[p][b] + 1]
\* Variant: the largest
PlaceLargest(p) == Min({b \in Ready(p) : \A c \in Ready(p) : KeyAt(p, b) >= KeyAt(p, c)})
Place(p) == Min({b \in Ready(p) : \A c \in Ready(p) : KeyAt(p, b) <= KeyAt(p, c)})
mergebins(p) ==
    /\ Run(p, "merge")
    /\ exists' = exists \cup {<<"merged", p>>}
    /\ IF Ready(p) # {}
       THEN \E ks \in {Append(work[p], KeyAt(p, Place(p)))} :
            /\ taken' = [taken EXCEPT ![p][Place(p)] = @ + 1]
            /\ IF Len(ks) >= WORKNUM
               THEN merged' = [merged EXCEPT ![p] = @ \o ks] /\ work' = [work EXCEPT ![p] = <<>>]
               ELSE work' = [work EXCEPT ![p] = ks] /\ UNCHANGED merged
            /\ UNCHANGED st
       ELSE /\ merged' = [merged EXCEPT ![p] = @ \o work[p]] /\ work' = [work EXCEPT ![p] = <<>>]
            /\ Finish(p) /\ UNCHANGED taken
    /\ UNCHANGED <<parent, pos, keys, bins, output, valid, checksum, hist>>

mypos(p) == Total(merged, 0 .. p - 1)
assemble(p) ==
    /\ Run(p, "assemble")
    /\ output' = Put(output, mypos(p), merged[p]) /\ Finish(p)
    /\ UNCHANGED <<parent, pos, work, taken, keys, bins, merged, valid, exists, checksum, hist>>

\* dovalidate: the smallest and the largest key of the process's part.
dovalidate(p) ==
    /\ Run(p, "validate")
    /\ LET mine == Part(output, seekmyplace(p), getmykeys(p))
       IN IF \E k \in DOMAIN mine : mine[k] = 0 \/ mine[k] >= RANDOM_MAX
          THEN st' = [st EXCEPT ![p] = "bad"] /\ failed' = TRUE /\ UNCHANGED <<valid, exists>>
          ELSE /\ valid' = [valid EXCEPT ![p] = IF mine = <<>> THEN <<RANDOM_MAX, 0>>
                                                ELSE <<Min(ToSet(mine)), Max(ToSet(mine))>>]
               /\ exists' = exists \cup {<<"valid", p>>} /\ Finish(p) /\ UNCHANGED failed
    /\ UNCHANGED <<parent, pos, work, taken, keys, bins, merged, output, checksum, result, asserted>>

\* Any file operation of a process may fail: it complains and exits with 1.
ProcFails(p) ==
    /\ "io" \in Faults /\ st[p] = "run" /\ st' = [st EXCEPT ![p] = "bad"] /\ failed' = TRUE
    /\ UNCHANGED <<parent, pos, work, taken, files, checksum, result, asserted>>

------------------------------------------------------------------------------
(* The parent between the phases: genkeys, sort, validate. *)

\* Variant: only the bins of the first process are removed
BinFilesFirst == {<<"bin", 0, b>> : b \in Procs}
BinFiles == {<<"bin", p, b>> : p, b \in Procs}
\* The cross-checks of genkeys and sort.
genkeys == Len(keys) = numkeys
checksize_bins == MapThenSumSet(LAMBDA p : Total(bins[p], Procs), Procs) = numkeys
checksize_merge == Total(merged, Procs) = numkeys
SumsMatch == Len(output) = numkeys /\ checksum_file(output) = checksum
checksize_valid == Total(valid, Procs) = 2 * numprocs
\* prev_largest, which the smallest key is compared with, is 1 throughout.
validate ==
    checksize_valid /\ \A p \in Procs : valid[p][1] >= 1 /\ valid[p][2] < RANDOM_MAX /\ valid[p][1] <= valid[p][2]
Passed ==
    CASE Phase = "keys" -> genkeys
      [] Phase \in {"toss", "sort"} -> checksize_bins
      [] Phase = "merge" -> checksize_merge
      [] Phase = "assemble" -> SumsMatch
      [] Phase = "validate" -> validate
\* doremove, docreate and unsetdir after each phase.
Left ==
    CASE Phase = "merge" -> (exists \ BinFiles) \cup {<<"output">>}
      [] Phase = "assemble" -> exists \ {<<"merged", p>> : p \in Procs}
      [] Phase = "validate" -> exists \ ({<<"valid", p>> : p \in Procs} \cup {<<"sortkeys">>, <<"output">>})
      [] OTHER -> exists
Check ==
    /\ mpc = "check"
    /\ checksum' = (IF Phase = "keys" THEN checksum_file(keys) ELSE checksum)
    /\ IF Passed
       THEN /\ exists' = Left
            /\ IF phase < Len(Phases) THEN phase' = phase + 1 /\ mpc' = "fork" /\ UNCHANGED result
               ELSE mpc' = "done" /\ result' = output /\ UNCHANGED phase
       ELSE mpc' = "failed" /\ UNCHANGED <<phase, exists, result>>
    /\ UNCHANGED <<next, bad, procs, keys, bins, merged, output, valid, failed, asserted>>

\* A file operation of the parent fails.
ParentFails ==
    /\ "io" \in Faults /\ mpc = "check" /\ mpc' = "failed"
    /\ UNCHANGED <<phase, next, bad, procs, files, checksum, hist>>

Proc(p) == genkeys_sub(p) \/ bin(p) \/ sortbins(p) \/ mergebins(p) \/ assemble(p) \/ dovalidate(p)
Parent == Fork \/ doforkall \/ Check
Next == Parent \/ ParentFails \/ \E p \in Procs : Proc(p) \/ ProcFails(p)

Spec == Init /\ [][Next]_vars

------------------------------------------------------------------------------
(* Properties *)

\* Keys are in range, counters within their loops.
TypeOK ==
    /\ ToSet(keys) \subseteq Keys \cup {0} /\ next \in Procs
    /\ \A p \in Procs : pos[p] <= numkeys + numprocs /\ st[p] \in {"none", "run", "ok", "bad"}

\* "Succeeded.": the output is the keys, in order, whatever the order in which
\* the processes of each phase ran.
SortsKeys ==
    mpc = "done" =>
        /\ Len(result) = numkeys
        /\ \A a \in 1 .. Len(result) - 1 : result[a] <= result[a + 1]
        /\ \A k \in Keys : Len(SelectSeq(result, LAMBDA x : x = k)) = Len(SelectSeq(keys, LAMBDA x : x = k))

\* When psort ends no process it made is still running.
NoOrphans == mpc \in {"done", "failed"} => \A p \in Procs : st[p] # "run"

\* A process that failed or could not be made is noticed: no success.
FailureSeen == mpc = "done" => ~ failed

\* After a success none of the working files is left.
FilesGone == mpc = "done" => exists = {}

Ended == mpc \in {"done", "failed"}
=============================================================================
