------------------------------- MODULE Shell -------------------------------
(* The shell (user/bin/sh): it runs a program and waits for it, or puts it in *)
(* the background and remembers its pid in a table.  Children end whenever    *)
(* they like; fork, waitpid and the reuse of pids are the kernel's part, as   *)
(* their manual pages have it.  A key stands for the letters of a word.       *)
EXTENDS Integers, Sequences, SequencesExt

CONSTANTS MAXBG,       \* slots for background jobs (128)
          NARG_MAX,    \* words on a line
          CMDLINE_MAX, \* length of a line, with its end
          NPids,       \* bound: processes at a time
          Inputs,      \* lines as they are typed: sequences of keys
          Ends         \* how a process can end: <<what happened, value>>

ShellAssumption == MAXBG \in Nat \ {0} /\ NARG_MAX > 1 /\ CMDLINE_MAX > 1

Pids  == 1 .. NPids
Slots == 0 .. MAXBG - 1

VARIABLES
    bgpids,      \* pid of each background job, 0 for none
    pc,          \* "prompt", "run", "wait", "waitall", "poll", "gone"
    pid, i,      \* the process waited for; the slot a loop is at
    shown,       \* the status printed last
    proc, ended, \* the kernel: "none", "run" or "zombie"; how each process ended
    nohang       \* the kernel: waitpid knows WNOHANG, and does not wait

vars == <<bgpids, pc, pid, i, shown, proc, ended, nohang>>
kernel == <<proc, ended>>
----------------------------------------------------------------------------
(* kern/include/kern/wait.h: the low two bits say what happened. *)
Whats == <<"exit", "signal", "core", "stop">>
WWHAT(x) == x % 4
WVAL(x)  == x \div 4
MKWAIT(end) == 4 * end[2] + (CHOOSE k \in 1 .. 4 : Whats[k] = end[1]) - 1

\* Variant: a core dump is taken for a signal.
printstatus_nocore(status) == <<IF WWHAT(status) = 0 THEN "exit" ELSE "signal", WVAL(status)>>

printstatus(status) == <<Whats[WWHAT(status) + 1], WVAL(status)>>
----------------------------------------------------------------------------
\* getcmd: backspace takes the last key back, other control characters and what does not fit ring the bell.
getcmd(keys) ==
    FoldLeft(LAMBDA buf, ch :
                 IF ch = "backspace" THEN (IF buf = <<>> THEN buf ELSE Front(buf))
                 ELSE IF ch # "control" /\ Len(buf) < CMDLINE_MAX - 1 THEN Append(buf, ch)
                 ELSE buf,
             <<>>, keys)

\* strtok on blanks.
Words(buf) ==
    LET split == FoldLeft(LAMBDA ws, ch : IF ch = " " THEN Append(ws, <<>>)
                                          ELSE Append(Front(ws), Append(Last(ws), ch)),
                          << <<>> >>, buf)
    IN  SelectSeq(split, LAMBDA w : w # <<>>)

Digits == <<"1", "2", "3", "4", "5", "6", "7", "8", "9">>
atoi(word) == IF \E n \in Pids : word = <<Digits[n]>> THEN CHOOSE n \in Pids : word = <<Digits[n]>> ELSE 0

can_bg == \E k \in Slots : bgpids[k] = 0

\* The first open slot; the assertion fails when there is none.
remember_bg(p) ==
    [bgpids EXCEPT ![CHOOSE k \in Slots : bgpids[k] = 0 /\ \A j \in 0 .. k - 1 : bgpids[j] # 0] = p]
----------------------------------------------------------------------------
Init ==
    /\ bgpids = [k \in Slots |-> 0] /\ pc = "prompt" /\ pid = 0 /\ i = 0 /\ shown = <<"exit", 0>>
    /\ proc = [p \in Pids |-> "none"] /\ ended = [p \in Pids |-> <<"exit", 0>>]
    /\ nohang \in BOOLEAN

\* interactive, after docommand: a status that is not 0 is printed, then the jobs are polled.
Back(status) ==
    /\ pc' = "poll" /\ i' = 0 /\ pid' = 0
    /\ shown' = IF status = 0 THEN shown ELSE printstatus(status)

Reaped(p) == proc' = [proc EXCEPT ![p] = "none"] /\ ended' = [ended EXCEPT ![p] = <<"exit", 0>>]

\* cmd_wait, cmd_chdir (which may fail) and cmd_exit, up to where they wait.
Builtin(args) ==
    /\ UNCHANGED <<bgpids, kernel>>
    /\ \/ /\ args[1] = <<"wait">> /\ Len(args) = 2
          /\ pc' = "wait" /\ pid' = atoi(args[2]) /\ UNCHANGED <<i, shown>>
       \/ /\ args[1] = <<"wait">> /\ Len(args) = 1
          /\ pc' = "waitall" /\ i' = 0 /\ UNCHANGED <<pid, shown>>
       \/ args[1] = <<"wait">> /\ Len(args) > 2 /\ Back(1)
       \/ args[1] = <<"cd">> /\ (Back(1) \/ (Len(args) = 2 /\ Back(0)))
       \/ args[1] = <<"exit">> /\ Len(args) <= 2 /\ pc' = "gone" /\ UNCHANGED <<pid, i, shown>>
       \/ args[1] = <<"exit">> /\ Len(args) > 2 /\ Back(1)

\* A job beyond the table's size is refused with -1, which reads as "stopped".
Run(bg) ==
    IF bg /\ ~can_bg THEN Back(-1) /\ UNCHANGED <<bgpids, kernel>>
    ELSE \/ /\ \A p \in Pids : proc[p] # "none"      \* fork fails
            /\ Back(4 * 255) /\ UNCHANGED <<bgpids, kernel>>
         \/ \E p \in Pids :
                /\ proc[p] = "none"
                /\ proc' = [proc EXCEPT ![p] = "run"] /\ UNCHANGED ended
                /\ \/ bg /\ bgpids' = remember_bg(p) /\ Back(0)
                   \/ ~bg /\ pc' = "run" /\ pid' = p /\ UNCHANGED <<bgpids, i, shown>>

\* getcmd and docommand
docommand ==
    /\ pc = "prompt"
    /\ \E keys \in Inputs :
           LET args == Words(getcmd(keys))
           IN  \/ Len(args) > NARG_MAX /\ Back(1) /\ UNCHANGED <<bgpids, kernel>>
               \/ args = <<>> /\ Back(0) /\ UNCHANGED <<bgpids, kernel>>
               \/ /\ Len(args) \in 1 .. NARG_MAX
                  /\ IF args[1] \in {<<"wait">>, <<"cd">>, <<"exit">>} THEN Builtin(args)
                     ELSE Run(Last(args) = <<"&">>)

\* The command in the foreground has ended.
RunDone ==
    /\ pc = "run" /\ proc[pid] = "zombie"
    /\ Back(MKWAIT(ended[pid])) /\ Reaped(pid) /\ UNCHANGED bgpids

\* dowait: waitpid fails for a pid that is no child's.
dowait(p) ==
    \/ p \in Pids /\ proc[p] = "zombie" /\ Reaped(p) /\ shown' = printstatus(MKWAIT(ended[p]))
    \/ (p \in Pids => proc[p] = "none") /\ UNCHANGED <<kernel, shown>>

\* dowaitpoll: it may also fail because options are not known, or answer 0.
dowaitpoll(p) == IF nohang /\ proc[p] # "run" THEN dowait(p) ELSE UNCHANGED <<kernel, shown>>

\* Variant: the pid stays in its slot.
cmd_wait_kept ==
    /\ pc = "wait" /\ dowait(pid)
    /\ UNCHANGED bgpids
    /\ pc' = "poll" /\ i' = 0 /\ pid' = 0

\* wait with a pid: whatever waitpid said, the pid is no job any more.
cmd_wait ==
    /\ pc = "wait" /\ dowait(pid)
    /\ bgpids' = [k \in Slots |-> IF bgpids[k] = pid THEN 0 ELSE bgpids[k]]
    /\ pc' = "poll" /\ i' = 0 /\ pid' = 0

Done == pc' = "poll" /\ i' = 0
Step == IF i + 1 \in Slots THEN pc' = pc /\ i' = i + 1 ELSE Done

\* Variant: an empty slot ends the loop.
cmd_wait_all_upto ==
    /\ pc = "waitall" /\ UNCHANGED pid
    /\ IF bgpids[i] = 0 THEN Done /\ UNCHANGED <<bgpids, kernel, shown>>
       ELSE dowait(bgpids[i]) /\ bgpids' = [bgpids EXCEPT ![i] = 0] /\ Step

\* wait without one: every job, slot by slot.
cmd_wait_all ==
    /\ pc = "waitall" /\ UNCHANGED pid
    /\ IF bgpids[i] = 0 THEN Step /\ UNCHANGED <<bgpids, kernel, shown>>
       ELSE dowait(bgpids[i]) /\ bgpids' = [bgpids EXCEPT ![i] = 0] /\ Step

\* Variant: a job that is still running loses its slot.
StillThere_not(p) == FALSE

\* dowaitpoll has got nothing.
StillThere(p) == proc'[p] # "none" \/ proc[p] = "none"

\* waitpoll, then the next prompt.
waitpoll ==
    /\ pc = "poll" /\ UNCHANGED pid
    /\ IF bgpids[i] = 0 THEN UNCHANGED <<bgpids, kernel, shown>>
       ELSE /\ dowaitpoll(bgpids[i])
            /\ bgpids' = [bgpids EXCEPT ![i] = IF StillThere(@) THEN @ ELSE 0]
    /\ IF i + 1 \in Slots THEN pc' = pc /\ i' = i + 1 ELSE pc' = "prompt" /\ i' = 0

\* The kernel: a process ends.
Exit(p) ==
    /\ proc[p] = "run"
    /\ proc' = [proc EXCEPT ![p] = "zombie"]
    /\ \E e \in Ends : ended' = [ended EXCEPT ![p] = e]
    /\ UNCHANGED <<bgpids, pc, pid, i, shown, nohang>>

Shell == (docommand \/ RunDone \/ cmd_wait \/ cmd_wait_all \/ waitpoll) /\ UNCHANGED nohang
Next == Shell \/ \E p \in Pids : Exit(p)
Spec == Init /\ [][Next]_vars
----------------------------------------------------------------------------
\* Slots and pids stay in range, and what is printed is a status.
TypeOK ==
    /\ bgpids \in [Slots -> {0} \cup Pids] /\ i \in Slots /\ pid \in {0} \cup Pids
    /\ pc \in {"prompt", "run", "wait", "waitall", "poll", "gone"}
    /\ proc \in [Pids -> {"none", "run", "zombie"}]
    /\ shown[1] \in {"exit", "signal", "core", "stop"}

\* Every child, running or ended, is the command in the foreground or a job in one slot of the table,
\* and the table names no other pid: no zombie stays for ever, no poll and no wait goes to a stranger
\* that was given the pid of a job.
NoneForgotten ==
    \A p \in Pids :
        LET slots == {k \in Slots : bgpids[k] = p}
        IN  IF proc[p] = "none" \/ (pc = "run" /\ p = pid) THEN slots = {} ELSE \E k \in Slots : slots = {k}

\* When wait without an argument is over there is no child left, though others may have ended or been
\* polled in any order before.
WaitsForAll == (pc = "waitall" /\ pc' # "waitall") => \A p \in Pids : proc'[p] = "none"

\* The end of every child that is waited for or polled is printed as it was (a success in the
\* foreground is not printed).
StatusShown ==
    \A p \in Pids :
        (proc[p] = "zombie" /\ proc'[p] = "none" /\ ended[p] # <<"exit", 0>>) => shown' = ended[p]
----------------------------------------------------------------------------
\* For liveness: a process has ended and nobody knows yet.
Zombie(p) == proc[p] = "zombie" /\ nohang
Told(p) == proc[p] # "zombie" \/ pc = "gone"
Prompting == pc \in {"prompt", "gone"}
=============================================================================
