------------------------------ MODULE BadCall ------------------------------
(* The badcall test program (user/testbin/badcall): wrong system calls, one   *)
(* after another, each judged by what the kernel answers.  A test is a script *)
(* of system calls; the kernel answers every call rightly, with ENOSYS when   *)
(* it does not have the call yet, or, up to MaxWrong times, wrongly.  objs is *)
(* what the tests leave in the system between them: test files (file, dir,    *)
(* link, foo), descriptors (fd, fd10, fd11, fdx, pipe) and a child (kid).     *)
(* The tests whose processes wait for each other in a circle are left out.    *)
EXTENDS Integers, Sequences, SequencesExt

CONSTANTS Levels,     \* the assignments whose calls the kernel may have
          MaxWrong    \* how many calls may be answered wrongly
BadCallAssumption == Levels \subseteq 0 .. 5 /\ MaxWrong \in Nat

VARIABLES level,      \* the kernel has the calls of assignments up to this one
          objs,       \* what exists now
          req,        \* the last request typed (a character code)
          queue,      \* indices in ops still to run for it
          fresh,      \* nothing of the queue has run yet
          op, ti,     \* the call being tested and the number of its test
          rest,       \* the system calls the test has still to make
          last,       \* the answer to the previous one
          said,       \* the verdicts the test has reported
          slips,      \* whether a call it judges, or another, was answered wrongly
          wrong       \* the number of wrong answers so far

vars == <<level, objs, req, queue, fresh, op, ti, rest, last, said, slips, wrong>>
----------------------------------------------------------------------------
(* Scripts.  kind says who looks at the answer, want what is accepted, when   *)
(* whether the call depends on the previous answer; add and del are what it   *)
(* does when it succeeds, need, free and excl what its answer rests on (what  *)
(* must exist, what must not for the error, what must not for success), and   *)
(* fail the calls that remain when the test gives up here.                    *)
Step(kind, call, want) ==
  [kind |-> kind, call |-> call, want |-> want, when |-> "any", add |-> {},
   del |-> {}, need |-> {}, free |-> {}, excl |-> {}, fail |-> <<>>]

Adds(s, o)  == [s EXCEPT !.add = o]
Dels(s, o)  == [s EXCEPT !.del = o]
Needs(s, o) == [s EXCEPT !.need = o]
Free(s, o)  == [s EXCEPT !.free = o]
New(s, o)   == [s EXCEPT !.add = o, !.excl = o]
Else(s, f)  == [s EXCEPT !.fail = f]
When(s, w)  == [s EXCEPT !.when = w]

Setup(call)       == Step("setup", call, {"ok"})
Probe(call, want) == Step("probe", call, want)
Clean(call, o)    == Dels(Step("clean", call, {"ok"}), {o})

\* Variant: the test file must not exist yet.
OpenExclusive(string, then) ==
  <<Else(New(Setup("open"), {"fd", "file"}), then)>>

\* open_testfile: what was made is unmade when a later step fails.
open_testfile(string, then) ==
  LET undo == <<Clean("close", "fd"), Clean("remove", "file")>> \o then
  IN  <<Else(Adds(Setup("open"), {"fd", "file"}), then)>>
      \o IF string THEN <<Else(Setup("write"), undo), Else(Setup("lseek"), undo)>>
                   ELSE <<>>

\* A failing close leaves the file behind.
create_testfile == open_testfile(FALSE, <<>>) \o <<Dels(Setup("close"), {"fd"})>>

create_testdir == <<New(Setup("mkdir"), {"dir"})>>

create_testlink(then) == <<Else(New(Setup("symlink"), {"link"}), then)>>

Thrice(s) == <<s, s, s>>     \* NULL, an invalid and a kernel pointer
----------------------------------------------------------------------------
\* common_fds.c: -1, -5, a closed one, an impossible one and OPEN_MAX.
any_badfd(call, add, closed, cleanup) ==
  <<Free(Adds(Probe(call, {"EBADF"}), add), closed)>> \o cleanup

runtest(call, add, cleanup) ==
  <<any_badfd(call, add, {}, cleanup), any_badfd(call, add, {}, cleanup),
    any_badfd(call, add, {"fd10"}, cleanup), any_badfd(call, add, {}, cleanup),
    any_badfd(call, add, {}, cleanup)>>

test_fd(call) == runtest(call, {}, <<>>)

test_dup2_fd == runtest("dup2", {"fd11"}, <<Clean("close", "fd11")>>)

\* common_buf.c: the result of setup is not looked at.
common_badbuf(setup, call, need, cleanup) ==
  LET judged == <<Needs(Probe(call, {"EFAULT"}), need)>> \o cleanup
  IN  Thrice(CASE setup = "read"     -> open_testfile(TRUE, judged) \o judged
               [] setup = "write"    -> open_testfile(FALSE, judged) \o judged
               [] setup = "."        -> <<Else(Adds(Setup("open"), {"fd"}), judged)>> \o judged
               [] setup = "link"     -> create_testlink(judged) \o judged
               [] setup = "nothing"  -> judged)

read_buf        == common_badbuf("read", "read", {"fd"},
                                 <<Clean("close", "fd"), Clean("remove", "file")>>)
write_buf       == common_badbuf("write", "write", {"fd"},
                                 <<Clean("close", "fd"), Clean("remove", "file")>>)
getdirentry_buf == common_badbuf(".", "getdirentry", {"fd"}, <<Clean("close", "fd")>>)
readlink_buf    == common_badbuf("link", "readlink", {"link"}, <<Clean("remove", "link")>>)
getcwd_buf      == common_badbuf("nothing", "__getcwd", {}, <<>>)

\* common_path.c: mk makes TESTFILE first, mk or rm removes it afterwards.
common_badpath(st, mk, rm) ==
  Thrice((IF mk THEN create_testfile ELSE <<>>) \o <<st>>
         \o IF mk \/ rm THEN <<Clean("remove", "file")>> ELSE <<>>)

test_path(call) == common_badpath(Probe(call, {"EFAULT"}), FALSE, FALSE)

test_open_path == common_badpath(Adds(Probe("open", {"EFAULT"}), {"fdx"}), FALSE, FALSE)

test_paths(call) ==
  common_badpath(Adds(Probe(call, {"EFAULT"}), {"file"}), FALSE, TRUE)
  \o common_badpath(IF call = "rename" THEN Dels(Probe(call, {"EFAULT"}), {"file"})
                                       ELSE Probe(call, {"EFAULT"}), TRUE, TRUE)
----------------------------------------------------------------------------
\* bad_execv.c: the child makes the call; its exit status tells the parent
\* whether the call came back.
exec_common(want) ==
  <<Adds(Setup("fork"), {"kid"}), Step("exec", "execv", want),
    Dels(Step("reap", "waitpid", {"ok"}), {"kid"})>>

test_execv ==
  Thrice(exec_common({"EFAULT"})) \o <<exec_common({"EINVAL", "EISDIR"})>>
  \o Thrice(exec_common({"EFAULT"})) \o <<exec_common({"EFAULT"}), exec_common({"EFAULT"})>>

\* bad_waitpid.c, the tests with one process at a time.
wait_badpid == <<Probe("waitpid", {"EINVAL", "ESRCH"})>>

wait_bad(want) ==
  <<Adds(Setup("fork"), {"kid"}), Dels(Probe("waitpid", want), {"kid"}), Clean("waitpid", "kid")>>

wait_unaligned ==
  <<Adds(Setup("fork"), {"kid"}), Dels(Step("survive", "waitpid", {"ok", "EFAULT"}), {"kid"}),
    When(Clean("waitpid", "kid"), "error")>>

wait_badstatus == wait_bad({"EFAULT"})
wait_badflags == wait_bad({"EINVAL"})

wait_self == <<Step("survive", "waitpid", {"EINVAL", "ESRCH"})>>

test_waitpid ==
  Thrice(wait_badpid) \o <<wait_badpid>> \o Thrice(wait_badstatus)
  \o <<wait_unaligned, wait_badflags, wait_self>>

\* bad_open.c
open_badflags == <<Adds(Probe("open", {"EINVAL"}), {"fdx"})>>

open_empty ==
  <<Adds(Probe("open", {"ok", "EINVAL"}), {"fdx"}), When(Clean("close", "fdx"), "ok")>>

test_open == test_open_path \o <<open_badflags, open_empty>>

\* bad_sbrk.c knows no unimplemented call.
enforce_sbrk(want) == <<Step("strict", "sbrk", want)>>

test_sbrk == <<enforce_sbrk({"EINVAL"}), enforce_sbrk({"ENOMEM"}), enforce_sbrk({"EINVAL"}),
               enforce_sbrk({"ok", "EINVAL"}), enforce_sbrk({"ok", "EINVAL"})>>
----------------------------------------------------------------------------
\* bad_lseek.c
lseek_fd_device ==
  <<Adds(Setup("open"), {"fd"}), Needs(Probe("lseek", {"ESPIPE"}), {"fd"}), Clean("close", "fd")>>

\* In a child, whose exit closes what it still has open.
lseek_file_stdin ==
  LET wait == <<Dels(Step("wait", "waitpid", {"ok"}), {"kid"})>>
      gone == <<Clean("remove", "file")>> \o wait
  IN  <<Adds(Setup("fork"), {"kid"})>> \o open_testfile(FALSE, wait)
      \o <<Else(Setup("dup2"), <<Clean("close", "fd")>> \o gone), Clean("close", "fd"),
           Else(Setup("write"), gone), Probe("lseek", {"ok"}), Probe("lseek", {"ok"})>> \o gone

on_testfile(string, steps) ==
  open_testfile(string, <<>>) \o steps \o <<Clean("close", "fd"), Clean("remove", "file")>>

lseek_inval == on_testfile(FALSE, <<Needs(Probe("lseek", {"EINVAL"}), {"fd"})>>)

\* Each of the three seeks must succeed and give the right offset.
lseek_loc_pasteof ==
  LET out  == <<Clean("close", "fd"), Clean("remove", "file")>>
      seek == Else(Needs(Step("strict", "lseek", {"ok"}), {"fd"}), out)
  IN  on_testfile(TRUE, <<seek, seek, seek>>)

test_lseek == test_fd("lseek") \o <<lseek_fd_device, lseek_file_stdin, lseek_inval,
                                    lseek_loc_pasteof, lseek_inval>>

\* bad_ftruncate.c, bad_ioctl.c, bad_reboot.c, bad_stat.c, bad_time.c
test_ftruncate ==
  test_fd("ftruncate") \o
  <<<<Adds(Setup("open"), {"fd"}), Needs(Probe("ftruncate", {"EINVAL"}), {"fd"}),
      Clean("close", "fd")>>,
    on_testfile(FALSE, <<Needs(Probe("ftruncate", {"EINVAL"}), {"fd"})>>)>>

test_ioctl  == test_fd("ioctl") \o <<<<Probe("ioctl", {"EIOCTL"})>>>>
test_reboot == <<<<Probe("reboot", {"EINVAL"})>>>>
stat_badbuf(call) == Thrice(<<Probe(call, {"EFAULT"})>>)
stat_empty(call)  == <<<<Probe(call, {"ok", "EINVAL"})>>>>
test_fstat        == test_fd("fstat") \o stat_badbuf("fstat")
test_stat(call)   == test_path(call) \o stat_empty(call) \o stat_badbuf(call)
test_time         == Thrice(<<Probe("__time", {"EFAULT"})>>) \o <<<<Probe("__time", {"EFAULT"})>>>>
----------------------------------------------------------------------------
\* bad_remove.c, bad_rmdir.c, bad_mkdir.c
test_remove ==
  test_path("remove")
  \o <<create_testdir \o <<Dels(Probe("remove", {"EISDIR"}), {"dir"}), Clean("rmdir", "dir")>>>>
  \o Thrice(<<Probe("remove", {"EISDIR", "EINVAL"})>>)

test_rmdir ==
  test_path("rmdir")
  \o <<create_testfile \o <<Dels(Probe("rmdir", {"ENOTDIR"}), {"file"}), Clean("remove", "file")>>,
       <<Probe("rmdir", {"EINVAL"})>>, <<Probe("rmdir", {"EINVAL", "ENOTEMPTY"})>>,
       <<Probe("rmdir", {"EINVAL"})>>>>

test_mkdir == test_path("mkdir") \o <<<<Probe("mkdir", {"EEXIST"})>>, <<Probe("mkdir", {"EEXIST"})>>,
                                      <<Probe("mkdir", {"EINVAL"})>>>>

\* bad_rename.c: a rename that went through is taken back, or moved aside.
rename_dot ==
  <<Adds(Probe("rename", {"EINVAL"}), {"dir"}), When(Clean("rename", "dir"), "ok")>>

rename_empty1 ==
  <<Adds(Probe("rename", {"EISDIR", "EINVAL"}), {"dir"}),
    When(Adds(Clean("rename", "dir"), {"foo"}), "ok")>>

rename_empty2 ==
  create_testdir
  \o <<Dels(Probe("rename", {"EISDIR", "EINVAL"}), {"dir"}), Clean("rmdir", "dir")>>

test_rename == test_paths("rename") \o <<rename_dot, rename_dot, rename_empty1, rename_empty2>>

\* bad_link.c: the link of the empty string is not taken back.
link_dir    == <<Adds(Probe("link", {"EINVAL"}), {"dir"}), When(Clean("remove", "dir"), "ok")>>
link_empty1 == <<Adds(Probe("link", {"EINVAL"}), {"dir"})>>
\* Variant: the directory is not removed.
LinkKeepsDir == create_testdir \o <<Probe("link", {"EINVAL"})>>

link_empty2 == create_testdir \o <<Probe("link", {"EINVAL"}), Clean("rmdir", "dir")>>
test_link   == test_paths("link") \o <<link_dir, link_empty1, link_empty2>>

\* bad_symlink.c, bad_readlink.c, bad_chdir.c, bad_pipe.c
test_symlink ==
  test_paths("symlink")
  \o <<<<New(Probe("symlink", {"ok", "EINVAL"}), {"link"}), Clean("remove", "link")>>,
       <<Probe("symlink", {"EINVAL"})>>>>

test_readlink ==
  test_path("readlink") \o readlink_buf
  \o <<open_testfile(TRUE, <<>>) \o <<Clean("close", "fd"), Probe("readlink", {"EINVAL"}),
                                      Clean("remove", "file")>>,
       <<Probe("readlink", {"EISDIR"})>>, <<Probe("readlink", {"EISDIR", "EINVAL"})>>>>

test_chdir == test_path("chdir") \o <<<<Probe("chdir", {"EINVAL", "ok"})>>>>

test_pipe ==
  Thrice(<<Adds(Probe("pipe", {"EFAULT"}), {"pipe"})>>)
  \o <<<<Adds(Step("survive", "pipe", {"ok", "EFAULT"}), {"pipe"})>>>>

\* bad_dup2.c: the last test copies a descriptor to itself, then looks at it
\* with fstat, or with lseek when there is no fstat.
dup2_fd2 == <<Adds(Probe("dup2", {"EBADF"}), {"fdx"}), When(Clean("close", "fdx"), "ok")>>

\* Variant: no second look when there is no fstat.
SelfNoFallback ==
  <<Adds(Setup("dup2"), {"fd10"}), Needs(Step("strict", "dup2", {"ok"}), {"fd10"}),
    Needs(Probe("fstat", {"ok"}), {"fd10"}), Clean("close", "fd10")>>

\* Variant: the copy is never closed.
SelfKeepsCopy ==
  <<Adds(Setup("dup2"), {"fd10"}), Needs(Step("strict", "dup2", {"ok"}), {"fd10"}),
    Needs(Step("try", "fstat", {"ok"}), {"fd10"})>>

dup2_self ==
  LET end  == <<Clean("close", "fd10")>>
      seek == Else(Needs(Step("strict", "lseek", {"ok", "ESPIPE"}), {"fd10"}), end)
      look == <<Needs(Step("try", "fstat", {"ok"}), {"fd10"}), When(seek, "ENOSYS")>> \o end
  IN  <<Adds(Setup("dup2"), {"fd10"}),
        Else(Needs(Step("strict", "dup2", {"ok"}), {"fd10"}), look)>> \o look

test_dup2 == test_dup2_fd \o Thrice(dup2_fd2) \o <<dup2_fd2, dup2_self>>
----------------------------------------------------------------------------
\* driver.c: the table of tests, with the assignment of each call.
ops ==
  << <<"execv", 2>>, <<"waitpid", 2>>, <<"open", 2>>, <<"read", 2>>, <<"write", 2>>, <<"close", 2>>,
     <<"reboot", 0>>, <<"sbrk", 3>>, <<"ioctl", 5>>, <<"lseek", 2>>, <<"fsync", 4>>,
     <<"ftruncate", 4>>, <<"fstat", 4>>, <<"remove", 4>>, <<"rename", 4>>, <<"link", 5>>,
     <<"mkdir", 4>>, <<"rmdir", 4>>, <<"chdir", 2>>, <<"getdirentry", 4>>, <<"symlink", 5>>,
     <<"readlink", 5>>, <<"dup2", 2>>, <<"pipe", 5>>, <<"__time", 5>>, <<"__getcwd", 2>>,
     <<"stat", 5>>, <<"lstat", 5>> >>

\* The function of each entry: the tests it makes.
Tests(call) ==
  CASE call = "execv"       -> test_execv
    [] call = "waitpid"     -> test_waitpid
    [] call = "open"        -> test_open
    [] call = "read"        -> test_fd("read") \o read_buf
    [] call = "write"       -> test_fd("write") \o write_buf
    [] call = "reboot"      -> test_reboot
    [] call = "sbrk"        -> test_sbrk
    [] call = "ioctl"       -> test_ioctl
    [] call = "lseek"       -> test_lseek
    [] call = "ftruncate"   -> test_ftruncate
    [] call = "fstat"       -> test_fstat
    [] call = "remove"      -> test_remove
    [] call = "rename"      -> test_rename
    [] call = "link"        -> test_link
    [] call = "mkdir"       -> test_mkdir
    [] call = "rmdir"       -> test_rmdir
    [] call = "chdir"       -> test_chdir
    [] call = "getdirentry" -> test_fd("getdirentry") \o getdirentry_buf
    [] call = "symlink"     -> test_symlink
    [] call = "readlink"    -> test_readlink
    [] call = "dup2"        -> test_dup2
    [] call = "pipe"        -> test_pipe
    [] call = "__time"      -> test_time
    [] call = "__getcwd"    -> getcwd_buf
    [] call \in {"stat", "lstat"}   -> test_stat(call)
    [] call \in {"close", "fsync"}  -> test_fd(call)

\* The calls a kernel of level k has: those of the table, and fork.
Has(k, call) ==
  IF call = "fork" THEN k >= 2 ELSE \E i \in DOMAIN ops : ops[i][1] = call /\ ops[i][2] <= k

UpTo(k) == SelectSeq([i \in DOMAIN ops |-> i], LAMBDA i : ops[i][2] <= k)

\* runit: * is everything, 1 to 4 an assignment, a letter one call.
runit(c) ==
  CASE c = 42          -> UpTo(5)
    [] c \in 49 .. 52  -> UpTo(c - 48)
    [] c \in 97 .. 124 -> <<c - 96>>
    [] OTHER           -> <<>>
----------------------------------------------------------------------------
\* What the kernel should answer, and what it may answer when it goes wrong.
Right(s) ==
  IF ~Has(level, s.call) THEN {"ENOSYS"}
  ELSE IF s.free \cap objs # {} THEN {"ok"}
  ELSE IF s.need \ objs # {} THEN {"EBADF"} \cup (s.want \ {"ok"})
  ELSE IF s.kind = "clean" /\ s.del \ objs # {} THEN {"ENOENT"}
  ELSE IF s.excl \cap objs # {} THEN {"EEXIST"} \cup (s.want \ {"ok"})
  ELSE s.want

Wrong(s) == IF wrong < MaxWrong /\ Has(level, s.call) THEN {"ok", "EIO"} \ Right(s) ELSE {}

\* A waitpid that fails on the status pointer may have reaped the child.
Effect(s, a) ==
  IF a = "ok" THEN {(objs \ s.del) \cup s.add}
  ELSE IF s.call = "waitpid" /\ a = "EFAULT" THEN {objs, objs \ s.del}
  ELSE {objs}

\* Variant: any error passes.
VerdictAnyError(s, a) ==
  CASE s.kind = "clean"                     -> {}
    [] s.kind \in {"setup", "wait", "reap"} -> IF a = "ok" THEN {} ELSE {"UH-OH"}
    [] a \in s.want \/ a # "ok"             -> {"passed"}
    [] OTHER                                -> {"FAILURE"}

\* report_test, report_test2, report_survival and the tests' own verdicts.
Verdict(s, a) ==
  CASE s.kind = "clean"                              -> {}
    [] s.kind = "survive"                            -> {"passed"}
    [] s.kind = "reap" /\ a = "ok"                   -> IF last = "ok" THEN {"FAILURE"} ELSE {}
    [] s.kind \in {"setup", "wait", "reap"}          -> IF a = "ok" THEN {} ELSE {"UH-OH"}
    [] a \in s.want                                  -> {"passed"}
    [] s.kind = "exec" /\ a = "ok"                   -> {}
    [] s.kind = "try" /\ a = "ENOSYS"                -> {}
    [] s.kind \in {"probe", "exec"} /\ a = "ENOSYS"  -> {"unimplemented"}
    [] OTHER                                         -> {"FAILURE"}

GivesUp(s, a) == s.kind \in {"setup", "strict"} /\ a \notin s.want
Judges(s)     == s.kind \in {"probe", "exec", "strict", "try"}
Skips(s)      == CASE s.when = "any"    -> FALSE
                   [] s.when = "error"  -> last = "ok"
                   [] OTHER             -> last # s.when
----------------------------------------------------------------------------
Init ==
  /\ level \in Levels
  /\ objs = {} /\ req = 0 /\ queue = <<>> /\ fresh = FALSE
  /\ op = 0 /\ ti = 0 /\ rest = <<>> /\ last = "ok" /\ said = {} /\ slips = {} /\ wrong = 0

Characters == {33, 42, 63, 125} \cup (48 .. 57) \cup (97 .. 124)

Prompt == op = 0 /\ queue = <<>> /\ req # 33

\* main: read a request; ! ends the program.
Choose ==
  /\ Prompt
  /\ \E c \in Characters : req' = c /\ queue' = runit(c)
  /\ fresh' = TRUE
  /\ said' = {} /\ slips' = {}
  /\ UNCHANGED <<level, objs, op, ti, rest, last, wrong>>

\* The next call of the queue, and the next test of a call.
NextOp ==
  /\ op = 0 /\ queue # <<>>
  /\ op' = Head(queue) /\ queue' = Tail(queue)
  /\ ti' = 1 /\ rest' = Tests(ops[Head(queue)][1])[1]
  /\ fresh' = FALSE /\ said' = {} /\ slips' = {} /\ last' = "ok"
  /\ UNCHANGED <<level, objs, req, wrong>>

NextTest ==
  /\ op # 0 /\ rest = <<>>
  /\ LET tests == Tests(ops[op][1])
     IN  IF ti < Len(tests)
         THEN op' = op /\ ti' = ti + 1 /\ rest' = tests[ti + 1]
         ELSE op' = 0 /\ ti' = 0 /\ rest' = <<>>
  /\ said' = {} /\ slips' = {} /\ last' = "ok"
  /\ UNCHANGED <<level, objs, req, queue, fresh, wrong>>

\* One system call of a test.
Call ==
  /\ rest # <<>>
  /\ LET s == Head(rest) IN
     IF Skips(s)
     THEN rest' = Tail(rest) /\ UNCHANGED <<objs, last, said, slips, wrong>>
     ELSE \E a \in Right(s) \cup Wrong(s) :
            /\ \E o \in Effect(s, a) : objs' = o
            /\ last' = IF s.kind = "clean" THEN last ELSE a
            /\ said' = said \cup Verdict(s, a)
            /\ slips' = IF a \in Right(s) THEN slips
                        ELSE slips \cup {IF Judges(s) THEN "judged" ELSE "other"}
            /\ wrong' = IF a \in Right(s) THEN wrong ELSE wrong + 1
            /\ rest' = IF GivesUp(s, a) THEN s.fail ELSE Tail(rest)
  /\ UNCHANGED <<level, req, queue, fresh, op, ti>>

Next == Choose \/ NextOp \/ NextTest \/ Call
Spec == Init /\ [][Next]_vars
----------------------------------------------------------------------------
Objects  == {"file", "dir", "link", "foo", "fd", "fd10", "fd11", "fdx", "pipe", "kid"}
Verdicts == {"passed", "unimplemented", "FAILURE", "UH-OH"}

\* The state stays within the program's data: a request, a place in the table
\* and its test, and the objects and verdicts the tests know.
TypeOK ==
  /\ level \in Levels /\ objs \subseteq Objects /\ req \in {0} \cup Characters
  /\ op \in 0 .. Len(ops) /\ (op # 0 => ti \in DOMAIN Tests(ops[op][1]))
  /\ said \subseteq Verdicts /\ slips \subseteq {"judged", "other"} /\ wrong \in 0 .. MaxWrong
  /\ \A i \in DOMAIN queue : queue[i] \in DOMAIN ops

TestOver == op # 0 /\ rest = <<>>

\* A kernel that has the calls of its assignment and answers them rightly
\* passes every test of that assignment and the ones before it, whichever
\* tests ran earlier: no test of an assignment rests on a later one's calls
\* (the clean-up does, and what it leaves does not disturb the next test).
PassesAtLevel ==
  (TestOver /\ wrong = 0 /\ ops[op][2] <= level) => said = {"passed"}

\* With every call there and answered rightly a test leaves nothing behind
\* (but the pipe made through an unaligned pointer); when remove is missing
\* it leaves at most the test file.
LeavesNothing ==
  (TestOver /\ wrong = 0) =>
     objs \subseteq CASE level = 5 -> {"pipe"} [] level = 4 -> {} [] OTHER -> {"file"}

\* No wrong answer to a call that a test judges goes unreported: whatever the
\* test does next, FAILURE is printed before it ends.
WrongIsReported == (TestOver /\ "judged" \in slips) => "FAILURE" \in said

\* FAILURE is only said when the kernel has given a wrong answer, in this
\* test or in one before it, provided it has all calls.
NoFalseAlarm == ("FAILURE" \in said /\ level = 5) => wrong > 0

\* A test in which every call was answered rightly gives up (UH-OH) only
\* because an earlier wrong answer left TESTDIR or TESTLINK behind: a test
\* file or a descriptor left open never spoils a later test.
SpoiltByNamesOnly ==
  (said = {"UH-OH"} /\ slips = {} /\ level = 5) => objs \cap {"dir", "link"} # {}

=============================================================================
