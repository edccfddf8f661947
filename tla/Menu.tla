-------------------------------- MODULE Menu --------------------------------
(***************************************************************************)
(* The kernel menu (kern/startup/menu.c): the bootloader's line and then   *)
(* the typed lines are cut at semicolons and blanks by two nested strtok_r *)
(* loops over the same memory, and each command is looked up and run.  A   *)
(* program is started by a thread that reads its name later, from the      *)
(* argument array on the menu's stack.                                     *)
(* One character stands for a command name: s, p, mount as m, unmount as   *)
(* u, bootfs as b, cd as c, sync as y, q; "!" is the panic command.        *)
(***************************************************************************)
EXTENDS Integers, Sequences, FiniteSets, FiniteSetsExt, SequencesExt

CONSTANTS Chars,        \* characters of a line
          BootLen,      \* bound: length of the bootloader's line
          LineLen,      \* bound: length of a typed line
          MaxLines,     \* bound: typed lines
          MAXMENUARGS   \* 16

MenuAssumption == MAXMENUARGS \in Nat \ {0} /\ "0" \notin Chars

VARIABLES
    mem,     \* the two lines, as the tokenizer leaves them; "0" is the NUL
    typed,   \* history: the line being executed, as it was
    cur,     \* the line being executed
    ctx,     \* context of menu_execute's strtok_r, 0 for NULL
    ictx,    \* context of cmd_dispatch's strtok_r
    frame,   \* args of cmd_dispatch: pointers into the lines
    nargs,
    at,      \* where the menu thread is
    lines,   \* lines typed
    done,    \* history: the commands of the line that were looked up, and what became of them
    progs,   \* threads that will run cmd_progthread
    ran,     \* history: program names asked for and used
    system   \* "up", "panic" or "off"

vars == <<mem, typed, cur, ctx, ictx, frame, nargs, at, lines, done, progs, ran, system>>

NUL == "0"
Lines(n) == UNION {[1..k -> Chars] : k \in 0..n}
Junk == [m |-> "junk", i |-> 0]
_PATH_SHELL == [m |-> "shell", i |-> 0]
NoArgs == [k \in 1..MAXMENUARGS |-> Junk]
First(s, i, S) == Min({j \in i..Len(s) : s[j] \in S})

Init ==
    /\ \E l \in Lines(BootLen) : /\ mem = [boot |-> l \o <<NUL>>, line |-> <<NUL>>]
                                 /\ typed = l
    /\ cur = "boot" /\ ctx = 1 /\ ictx = 0 /\ frame = NoArgs /\ nargs = 0
    /\ at = "exec" /\ lines = 0 /\ done = <<>> /\ progs = {} /\ ran = {} /\ system = "up"

\* Variant: the separator after the word is not skipped over, nor overwritten.
TokKeeps(s, c, seps) ==
    LET head == First(s, c, (Chars \cup {NUL}) \ seps)
        tail == First(s, head, seps \cup {NUL})
    IN  IF c = 0 \/ s[head] = NUL THEN [s |-> s, word |-> 0, ctx |-> 0]
        ELSE [s |-> s, word |-> head, ctx |-> IF s[tail] = NUL THEN 0 ELSE tail]

\* strtok_r: the word found from context c on (0 for none), the text with the separator after it overwritten,
\* and the context for the next call.
strtok_r(s, c, seps) ==
    LET head == First(s, c, (Chars \cup {NUL}) \ seps)
        tail == First(s, head, seps \cup {NUL})
    IN  IF c = 0 THEN [s |-> s, word |-> 0, ctx |-> 0]
        ELSE IF s[head] = NUL THEN [s |-> s, word |-> 0, ctx |-> 0]
        ELSE IF s[tail] = NUL THEN [s |-> s, word |-> head, ctx |-> 0]
        ELSE [s |-> [s EXCEPT ![tail] = NUL], word |-> head, ctx |-> tail + 1]

\* The string a pointer points to.
Text(p) ==
    CASE p.m \in {"boot", "line"} -> SubSeq(mem[p.m], p.i, First(mem[p.m], p.i, {NUL}) - 1)
      [] p.m = "shell" -> <<"/bin/sh">>
      [] p.m = "junk" -> <<"?">>
---------------------------------------------------------------------------
\* What a command may answer: result, what it does, and to which device or program.
Ok(op, dev) == [r |-> 0, op |-> op, dev |-> dev]
Fails(op, dev) == [r |-> 1, op |-> op, dev |-> dev]
EINVAL == {Fails("none", <<>>)}

\* A colon after the device name is allowed.
Device(w) == IF w[Len(w)] = ":" THEN SubSeq(w, 1, Len(w) - 1) ELSE w

cmd_prog(w) == IF Len(w) < 2 THEN EINVAL ELSE {Ok("prog", w[2]), Fails("none", <<>>)}
cmd_shell(w) == IF Len(w) # 1 THEN EINVAL ELSE {Ok("shell", <<"/bin/sh">>), Fails("none", <<>>)}
cmd_chdir(w) == IF Len(w) # 2 THEN EINVAL ELSE {Ok("cd", w[2]), Fails("cd", w[2])}
cmd_sync(w) == {Ok("sync", <<>>)}
cmd_panic(w) == {Ok("panic", <<>>)}
cmd_quit(w) == {Ok("quit", <<>>)}
\* Variant: the colon is left.
MountColon(w) ==
    IF Len(w) # 3 THEN EINVAL ELSE {Ok("mount", w[3]), Fails("mount", w[3])}

cmd_mount(w) ==
    IF Len(w) # 3 THEN EINVAL
    ELSE {Ok("mount", Device(w[3])), Fails("mount", Device(w[3])), Fails("none", <<>>)}

cmd_unmount(w) ==
    IF Len(w) # 2 THEN EINVAL ELSE {Ok("unmount", Device(w[2])), Fails("unmount", Device(w[2]))}
cmd_bootfs(w) ==
    IF Len(w) # 2 THEN EINVAL ELSE {Ok("bootfs", Device(w[2])), Fails("bootfs", Device(w[2]))}

\* cmdtable; the tests and the menus print, and change nothing the menu depends on.
cmdtable(w) ==
    CASE w[1] = <<"p">> -> cmd_prog(w)   [] w[1] = <<"s">> -> cmd_shell(w)
      [] w[1] = <<"c">> -> cmd_chdir(w)  [] w[1] = <<"y">> -> cmd_sync(w)
      [] w[1] = <<"!">> -> cmd_panic(w)  [] w[1] = <<"q">> -> cmd_quit(w)
      [] w[1] = <<"m">> -> cmd_mount(w)  [] w[1] = <<"u">> -> cmd_unmount(w)
      [] w[1] = <<"b">> -> cmd_bootfs(w) [] OTHER -> EINVAL
---------------------------------------------------------------------------
\* The loop of menu_execute: the next command, which is printed first when it comes from the bootloader.
menu_execute ==
    /\ at = "exec"
    /\ LET t == strtok_r(mem[cur], ctx, {";"}) IN
       /\ mem' = [mem EXCEPT ![cur] = t.s]
       /\ ctx' = t.ctx /\ ictx' = t.word /\ nargs' = 0
       /\ at' = IF t.word = 0 THEN "prompt" ELSE "split"
       /\ frame' = IF cur = "boot" /\ t.word # 0 THEN NoArgs ELSE frame
    /\ UNCHANGED <<typed, cur, lines, done, progs, ran, system>>

\* Variant: a typed command that fails panics too.
ResultStrict(o, w) ==
    /\ done' = Append(done, [words |-> w, op |-> o.op, dev |-> o.dev, r |-> o.r])
    /\ system' = IF o.op = "quit" THEN "off" ELSE IF o.op = "panic" \/ o.r # 0 THEN "panic" ELSE system
    /\ at' = "exec"

\* After a command: a failure is reported, and ends the boot if it is the bootloader's line.
Result(o, w) ==
    /\ done' = Append(done, [words |-> w, op |-> o.op, dev |-> o.dev, r |-> o.r])
    /\ system' = IF o.op = "quit" THEN "off"
                 ELSE IF o.op = "panic" \/ (o.r # 0 /\ cur = "boot") THEN "panic" ELSE system
    /\ at' = "exec"


\* The loop of cmd_dispatch that fills args.
Split ==
    /\ at = "split"
    /\ LET t == strtok_r(mem[cur], ictx, {" "}) IN
       IF t.word = 0
       THEN at' = "lookup" /\ UNCHANGED <<mem, ictx, frame, nargs, done, system>>
       ELSE IF nargs >= MAXMENUARGS
       THEN /\ mem' = [mem EXCEPT ![cur] = t.s]
            /\ Result(Fails("E2BIG", <<>>), <<>>)
            /\ UNCHANGED <<ictx, frame, nargs>>
       ELSE /\ mem' = [mem EXCEPT ![cur] = t.s] /\ ictx' = t.ctx
            /\ frame' = [frame EXCEPT ![nargs + 1] = [m |-> cur, i |-> t.word]]
            /\ nargs' = nargs + 1 /\ UNCHANGED <<at, done, system>>
    /\ UNCHANGED <<typed, cur, ctx, lines, progs, ran>>

\* common_prog: thread_fork with the array and its count.
common_prog(o) ==
    IF o.op = "prog" THEN /\ progs' = progs \cup {[slot |-> 2, named |-> o.dev]} /\ UNCHANGED frame
    ELSE IF o.op = "shell" THEN /\ progs' = progs \cup {[slot |-> 1, named |-> o.dev]}
                                /\ frame' = [frame EXCEPT ![1] = _PATH_SHELL]
    ELSE UNCHANGED <<progs, frame>>

\* The rest of cmd_dispatch.  The array stays as it is until its place on the stack is used again.
cmd_dispatch ==
    /\ at = "lookup"
    /\ IF nargs = 0
       THEN at' = "exec" /\ UNCHANGED <<done, system, progs, frame>>
       ELSE LET w == [k \in 1..nargs |-> Text(frame[k])] IN
            \E o \in cmdtable(w) : Result(o, w) /\ common_prog(o)
    /\ UNCHANGED <<mem, typed, cur, ctx, ictx, nargs, lines, ran>>

\* menu: the prompt and kgets use the stack below menu, and kgets the line.
menu ==
    /\ at = "prompt" /\ lines < MaxLines
    /\ \E l \in Lines(LineLen) : /\ mem' = [mem EXCEPT !.line = l \o <<NUL>>]
                                 /\ typed' = l
    /\ cur' = "line" /\ ctx' = 1 /\ frame' = NoArgs /\ at' = "exec"
    /\ lines' = lines + 1 /\ done' = <<>>
    /\ UNCHANGED <<ictx, nargs, progs, ran, system>>

\* The new thread copies the name it finds in the array.
cmd_progthread ==
    \E p \in progs :
        /\ ran' = ran \cup {[named |-> p.named, got |-> Text(frame[p.slot])]}
        /\ progs' = progs \ {p}
        /\ UNCHANGED <<mem, typed, cur, ctx, ictx, frame, nargs, at, lines, done, system>>

Next == system = "up" /\ (menu_execute \/ Split \/ cmd_dispatch \/ menu \/ cmd_progthread)

Spec == Init /\ [][Next]_vars
---------------------------------------------------------------------------
\* Type invariant: what each variable may hold.
TypeOK ==
    /\ at \in {"exec", "split", "lookup", "prompt"} /\ nargs \in 0..MAXMENUARGS
    /\ ctx \in 0..Len(mem[cur]) /\ ictx \in 0..Len(mem[cur])
    /\ \A k \in 1..MAXMENUARGS : frame[k].m \in {"boot", "line", "shell", "junk"}

\* The pieces of s between separators, those that are empty left out.
Pieces(s, sep) ==
    LET n == Len(s)
        Ends(i, j) == /\ \A k \in i..j : s[k] # sep
                      /\ i = 1 \/ s[i - 1] = sep
                      /\ j = n \/ s[j + 1] = sep
        P == {p \in (1..n) \X (1..n) : p[1] <= p[2] /\ Ends(p[1], p[2])}
        Sorted == SetToSortSeq(P, LAMBDA a, b : a[1] < b[1])
    IN  [k \in 1..Len(Sorted) |-> SubSeq(s, Sorted[k][1], Sorted[k][2])]

\* The commands a line should give: its pieces, each cut into words.
Expected == SelectSeq([k \in 1..Len(Pieces(typed, ";")) |-> Pieces(Pieces(typed, ";")[k], " ")],
                      LAMBDA w : w # <<>>)

\* cmd_dispatch is given the commands of the line, whole, in order and once each, though the two tokenizers
\* cut the same memory; a command with more words than args holds is refused and the next one is unharmed.
CutRight ==
    /\ Len(done) <= Len(Expected)
    /\ \A k \in 1..Len(done) :
          IF Len(Expected[k]) > MAXMENUARGS THEN done[k].op = "E2BIG" ELSE done[k].words = Expected[k]
    /\ at = "prompt" => Len(done) = Len(Expected)

\* After a command of the bootloader's line has failed nothing more of the line is run, and only there does
\* a failure stop the system.
FailureStops ==
    /\ cur = "boot" => \A k \in 1..Len(done) : done[k].r # 0 => k = Len(done) /\ system = "panic"
    /\ cur = "line" /\ system = "panic" => done[Len(done)].op = "panic"

\* mount, unmount and bootfs act on the device named, whether a colon follows the name or not.
DeviceNamed ==
    \A k \in 1..Len(done) :
        done[k].op \in {"mount", "unmount", "bootfs"} =>
            LET w == Expected[k]
                n == w[Len(w)]
            IN  /\ Len(w) = IF done[k].op = "mount" THEN 3 ELSE 2
                /\ n \in {done[k].dev, done[k].dev \o <<":">>}
                /\ done[k].dev # <<>> => done[k].dev[Len(done[k].dev)] # ":" \/ n = done[k].dev \o <<":">>

=============================================================================
