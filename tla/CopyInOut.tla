------------------------------ MODULE CopyInOut ------------------------------
(* Transfers between the kernel and user memory: copyin, copyout, copyinstr   *)
(* and copyoutstr (kern/vm/copyinout.c) and, on top of them, uiomove and      *)
(* uiomovezeros (kern/lib/uio.c).                                             *)
(*                                                                            *)
(* Memory is one array of bytes: user addresses below USERSPACETOP, kernel    *)
(* addresses above it, and address arithmetic wraps at AddrSize.  Every user  *)
(* byte is touched by a step of its own, since each touch may fault; a fault  *)
(* the VM system cannot serve teleports to copyfail, or, when tm_badfaultfunc *)
(* is not set, is the end of the kernel.                                      *)
EXTENDS Integers, Sequences, SequencesExt, FiniteSetsExt

CONSTANTS
    AddrSize,      \* number of addresses
    USERSPACETOP,  \* first kernel address
    Mapped,        \* user addresses the VM system can serve
    ReadOnly,      \* those of them that cannot be written
    Calls,         \* the functions called
    Lens,          \* lengths given to copyin, copyout and the string copies
    Nuls,          \* addresses that may hold a NUL byte
    Iovs           \* the iovec arrays of a uio: sequences of <<base, length>>

SizesAssumption ==
    /\ USERSPACETOP \in Nat \ {0} /\ AddrSize \in Nat
    /\ AddrSize >= USERSPACETOP + 12
    /\ ReadOnly \subseteq Mapped /\ Mapped \subseteq 0 .. USERSPACETOP - 1

Addrs == 0 .. AddrSize - 1
KBuf == USERSPACETOP .. USERSPACETOP + 3          \* the caller's kernel buffer
SysBuf == USERSPACETOP + 4 .. USERSPACETOP + 5    \* where kernel iovecs point
ZerosBuf == USERSPACETOP + 6 .. USERSPACETOP + 7  \* the array zeros of uiomovezeros
Private == {a \in Addrs : a > USERSPACETOP + 7}   \* the rest of the kernel

VARIABLES
    mem,          \* contents of memory
    pc,           \* "ready", "idle" (returned), "move", "zeros", "check", "copy", "panic"
    fn,           \* the function called from outside
    job,          \* the copy under way
    badfault,     \* tm_badfaultfunc is set
    uio,          \* the uio of the call
    n, kptr,      \* what uiomove has left to move, and its kernel pointer
    left,         \* what uiomovezeros has left after the current uiomove
    result,       \* what the last call returned
    before        \* the call: its memory, its uio, its n (history)

vars == <<mem, pc, fn, job, badfault, uio, n, kptr, left, result, before>>

\* Memories the callers may start from: bytes are distinct, but for the NULs
\* and the array of zeros.
Contents(z) == [a \in Addrs |-> IF a \in z \cup ZerosBuf THEN 0 ELSE a + 1]
Memories == {Contents(z) : z \in SUBSET Nuls}

NoJob == [op |-> "none", user |-> 0, kern |-> 0, len |-> 0, stop |-> 0, i |-> 0]
Job(op, user, kern, len) == [op |-> op, user |-> user, kern |-> kern, len |-> len, stop |-> 0, i |-> 0]

NoUio == [iov |-> <<>>, resid |-> 0, offset |-> 0, seg |-> "sys", rw |-> "read"]
Total(iov) == FoldLeft(LAMBDA sum, v : sum + v[2], 0, iov)

\* What a caller of uiomove sets up; for one kernel buffer this is uio_kinit.
uio_kinit(iov, seg, rw) ==
    [iov |-> iov, resid |-> Total(iov), offset |-> 0, seg |-> seg, rw |-> rw]

InBuf(iov, seg) ==
    \A k \in DOMAIN iov : \A a \in iov[k][1] .. iov[k][1] + iov[k][2] - 1 :
        IF seg = "sys" THEN a \in SysBuf ELSE a < AddrSize

Init ==
    /\ mem = Contents({})
    /\ pc = "ready" /\ fn = "none" /\ job = NoJob /\ badfault = FALSE
    /\ uio = NoUio /\ n = 0 /\ kptr = 0 /\ left = 0 /\ result = "none"
    /\ before = [mem |-> mem, uio |-> NoUio, n |-> 0]

------------------------------------------------------------------------------
(* copyinout.c *)

\* Variant: the first kernel byte passes for a user byte
copycheck_off(user, len) ==
    LET top == (user + len + AddrSize - 1) % AddrSize
    IN IF top < user \/ user >= USERSPACETOP THEN [err |-> "EFAULT", stop |-> len]
       ELSE [err |-> "0", stop |-> IF top > USERSPACETOP THEN USERSPACETOP - user ELSE len]
\* copycheck: the verdict and the length that can be copied.
copycheck(user, len) ==
    LET top == (user + len + AddrSize - 1) % AddrSize
    IN IF top < user \/ user >= USERSPACETOP THEN [err |-> "EFAULT", stop |-> len]
       ELSE [err |-> "0", stop |-> IF top >= USERSPACETOP THEN USERSPACETOP - user ELSE len]

Block == {"copyin", "copyout"}
Out == {"copyout", "copyoutstr"}

\* The copy ends: back to uiomove, or out to the caller.
Finish(err) ==
    /\ job' = NoJob
    /\ badfault' = FALSE
    /\ IF fn \in {"uiomove", "uiomovezeros"}
       THEN /\ pc' = IF err = "0" THEN "move" ELSE "idle"
            /\ result' = IF err = "0" THEN result ELSE err
       ELSE pc' = "idle" /\ result' = err

\* The checks at the head of the four functions, and the arming of copyfail.
Begin(armed) ==
    /\ pc = "check"
    /\ LET c == copycheck(job.user, job.len)
       IN IF c.err # "0" \/ (job.op \in Block /\ c.stop # job.len)
          THEN Finish("EFAULT")
          ELSE /\ pc' = "copy" /\ badfault' = armed
               /\ job' = [job EXCEPT !.stop = c.stop]
               /\ UNCHANGED result
    /\ UNCHANGED <<mem, fn, uio, n, kptr, left, before>>
CheckUnarmed == Begin(FALSE)
Check == Begin(TRUE)

\* The VM system serves the touch of a user byte.  A kernel address needs no
\* serving: the processor is in kernel mode.
Served(a, writing) == a >= USERSPACETOP \/ (a \in Mapped /\ (writing => a \notin ReadOnly))
User == (job.user + job.i) % AddrSize
Kern == job.kern + job.i
Source == IF job.op \in Out THEN Kern ELSE User
Dest == IF job.op \in Out THEN User ELSE Kern

\* One byte of memcpy or of the loop of copystr.
More == IF job.op \in Block THEN job.i < job.len ELSE job.i < job.len /\ job.i < job.stop
Touch ==
    /\ pc = "copy" /\ More
    /\ Served(User, job.op \in Out)
    /\ mem' = [mem EXCEPT ![Dest] = mem[Source]]
    /\ IF job.op \notin Block /\ mem[Source] = 0
       THEN Finish("0") /\ UNCHANGED uio
       ELSE job' = [job EXCEPT !.i = @ + 1] /\ UNCHANGED <<pc, badfault, result, uio>>
    /\ UNCHANGED <<fn, n, kptr, left, before>>

\* A fatal fault in kernel mode: mips_trap resumes at tm_badfaultfunc, where
\* copyfail jumps back to the function, which returns EFAULT; without the hook
\* it panics.
copyfail ==
    /\ pc = "copy" /\ More
    /\ ~ Served(User, job.op \in Out)
    /\ IF badfault THEN Finish("EFAULT") ELSE pc' = "panic" /\ UNCHANGED <<job, badfault, result>>
    /\ UNCHANGED <<mem, fn, uio, n, kptr, left, before>>

\* After the last byte: the block is copied, uiomove accounts for it; or the
\* string did not end in time.
AccountNoLen(v, size) ==
    [v EXCEPT !.iov = <<<<Head(@)[1] + size, Head(@)[2]>>>> \o Tail(@),
              !.resid = @ - size, !.offset = @ + size]
Account(v, size) ==
    [v EXCEPT !.iov = <<<<Head(@)[1] + size, Head(@)[2] - size>>>> \o Tail(@),
              !.resid = @ - size, !.offset = @ + size]
Copied ==
    /\ pc = "copy" /\ ~ More
    /\ job.op \in Block
    /\ Finish("0")
    /\ IF fn \in {"uiomove", "uiomovezeros"}
       THEN uio' = Account(uio, job.len) /\ n' = n - job.len /\ kptr' = kptr + job.len
       ELSE UNCHANGED <<uio, n, kptr>>
    /\ UNCHANGED <<mem, fn, left, before>>

\* Variant: every string that does not end is too long
copystrEndLong ==
    /\ pc = "copy" /\ ~ More
    /\ job.op \notin Block
    /\ Finish("ENAMETOOLONG")
    /\ UNCHANGED <<mem, fn, uio, n, kptr, left, before>>
copystrEnd ==
    /\ pc = "copy" /\ ~ More
    /\ job.op \notin Block
    /\ Finish(IF job.stop < job.len THEN "EFAULT" ELSE "ENAMETOOLONG")
    /\ UNCHANGED <<mem, fn, uio, n, kptr, left, before>>

------------------------------------------------------------------------------
(* uio.c *)

Zeros == USERSPACETOP + 6
ZeroChunk == 2     \* sizeof(zeros)

\* The loop of uiomove: an empty iovec is skipped, a kernel one is copied with
\* memmove, a user one through copyin or copyout.
uiomove ==
    /\ pc = "move" /\ n > 0 /\ uio.resid > 0
    /\ LET v == Head(uio.iov)
           size == Min({v[2], n})
       IN \/ /\ size = 0
             /\ IF Len(uio.iov) = 1 THEN pc' = "panic" /\ UNCHANGED uio
                ELSE uio' = [uio EXCEPT !.iov = Tail(@)] /\ UNCHANGED pc
             /\ UNCHANGED <<mem, job, n, kptr>>
          \/ /\ size > 0 /\ uio.seg = "sys"
             /\ mem' = [a \in Addrs |->
                          IF uio.rw = "read" /\ a \in v[1] .. v[1] + size - 1 THEN mem[kptr + (a - v[1])]
                          ELSE IF uio.rw = "write" /\ a \in kptr .. kptr + size - 1 THEN mem[v[1] + (a - kptr)]
                          ELSE mem[a]]
             /\ uio' = Account(uio, size) /\ n' = n - size /\ kptr' = kptr + size
             /\ UNCHANGED <<pc, job>>
          \/ /\ size > 0 /\ uio.seg = "user"
             /\ pc' = "check"
             /\ job' = Job(IF uio.rw = "read" THEN "copyout" ELSE "copyin", v[1], kptr, size)
             /\ UNCHANGED <<mem, uio, n, kptr>>
    /\ UNCHANGED <<fn, badfault, left, result, before>>

\* uiomove returns, to its caller or to the loop of uiomovezeros.
uiomoveEnd ==
    /\ pc = "move" /\ (n = 0 \/ uio.resid = 0)
    /\ IF fn = "uiomove" THEN pc' = "idle" /\ result' = "0" ELSE pc' = "zeros" /\ UNCHANGED result
    /\ UNCHANGED <<mem, fn, job, badfault, uio, n, kptr, left, before>>

\* Variant: the zeros are taken to be as long as the request.
uiomovezerosWhole ==
    /\ pc = "zeros"
    /\ IF left = 0 THEN pc' = "idle" /\ result' = "0" /\ UNCHANGED <<n, kptr, left>>
       ELSE pc' = "move" /\ n' = left /\ kptr' = Zeros /\ left' = 0 /\ UNCHANGED result
    /\ UNCHANGED <<mem, fn, job, badfault, uio, before>>
uiomovezeros ==
    /\ pc = "zeros"
    /\ IF left = 0 THEN pc' = "idle" /\ result' = "0" /\ UNCHANGED <<n, kptr, left>>
       ELSE LET amt == Min({ZeroChunk, left})
            IN pc' = "move" /\ n' = amt /\ kptr' = Zeros /\ left' = left - amt /\ UNCHANGED result
    /\ UNCHANGED <<mem, fn, job, badfault, uio, before>>

------------------------------------------------------------------------------
(* Callers.  Between calls memory may be given other contents. *)

CallCopy(f) ==
    \E user \in Addrs, len \in Lens, contents \in Memories :
        /\ f \in {"copyinstr", "copyoutstr"} => len <= 4
        /\ mem' = contents
        /\ job' = Job(f, user, USERSPACETOP, len)
        /\ pc' = "check" /\ fn' = f
        /\ before' = [mem |-> contents, uio |-> NoUio, n |-> len]
        /\ uio' = NoUio /\ n' = 0 /\ kptr' = 0 /\ left' = 0 /\ result' = "none"
        /\ UNCHANGED badfault

CallUio(f) ==
    \E iov \in Iovs, seg \in {"sys", "user"}, rw \in {"read", "write"}, len \in 1 .. 4 :
        /\ f = "uiomovezeros" => rw = "read"
        /\ InBuf(iov, seg)
        /\ mem' = Contents({})
        /\ uio' = uio_kinit(iov, seg, rw)
        /\ pc' = (IF f = "uiomove" THEN "move" ELSE "zeros") /\ fn' = f
        /\ n' = (IF f = "uiomove" THEN len ELSE 0)
        /\ left' = (IF f = "uiomove" THEN 0 ELSE len)
        /\ kptr' = (IF f = "uiomove" THEN USERSPACETOP ELSE Zeros)
        /\ before' = [mem |-> mem', uio |-> uio', n |-> len]
        /\ result' = "none"
        /\ UNCHANGED <<job, badfault>>

\* uiomove again, on what is left of the same uio.
CallAgain ==
    /\ pc = "idle" /\ fn = "uiomove" /\ result = "0" /\ uio.resid > 0
    /\ \E len \in 1 .. 4 :
          /\ n' = len /\ kptr' = USERSPACETOP
          /\ before' = [mem |-> Contents({}), uio |-> uio, n |-> len]
    /\ mem' = Contents({})
    /\ pc' = "move" /\ result' = "none"
    /\ UNCHANGED <<fn, job, badfault, uio, left>>

Call ==
    /\ pc = "ready"
    /\ \/ \E f \in Calls \cap {"copyin", "copyout", "copyinstr", "copyoutstr"} : CallCopy(f)
       \/ \E f \in Calls \cap {"uiomove", "uiomovezeros"} : CallUio(f)

\* The caller has used the result.
Used ==
    /\ pc = "idle"
    /\ mem' = Contents({}) /\ pc' = "ready" /\ fn' = "none"
    /\ uio' = NoUio /\ n' = 0 /\ kptr' = 0 /\ left' = 0 /\ result' = "none"
    /\ before' = [mem |-> mem', uio |-> NoUio, n |-> 0]
    /\ UNCHANGED <<job, badfault>>

Next ==
    \/ Call \/ CallAgain \/ Used
    \/ Check \/ Touch \/ copyfail \/ Copied \/ copystrEnd
    \/ uiomove \/ uiomoveEnd \/ uiomovezeros

Spec == Init /\ [][Next]_vars

------------------------------------------------------------------------------
(* Properties *)

\* Types of the variables.
TypeOK ==
    /\ mem \in [Addrs -> 0 .. AddrSize]
    /\ pc \in {"ready", "idle", "move", "zeros", "check", "copy", "panic"}
    /\ badfault \in BOOLEAN
    /\ job.kern \in 0 .. AddrSize - 1 /\ job.user \in 0 .. AddrSize
    /\ n \in 0 .. 4 /\ left \in 0 .. 4
    /\ uio.resid \in Nat /\ uio.offset \in Nat

\* The kernel does not die of a bad user pointer, and uiomove never runs out of
\* buffers for a uio whose uio_resid is the total of its iovecs.  The hook is
\* set exactly while user memory is being touched, so no other kernel fault is
\* ever swallowed by copyfail.
FaultsContained == pc # "panic" /\ (badfault <=> pc = "copy")

\* Through a pointer that comes from the user, the kernel is neither read nor
\* written: the bytes of the rest of the kernel stay where they are and appear
\* nowhere else, and a copy in leaves everything but the kernel buffer alone.
KernelApart ==
    /\ \A a \in Private : mem[a] = before.mem[a]
    /\ \A a \in Addrs \ Private : mem[a] \notin {before.mem[p] : p \in Private}
    /\ \A a \in ZerosBuf : mem[a] = 0
    /\ fn \in {"copyout", "copyoutstr"} => \A a \in Addrs : a >= USERSPACETOP => mem[a] = before.mem[a]
    /\ fn \in {"copyin", "copyinstr"} => \A a \in Addrs \ KBuf : mem[a] = before.mem[a]

\* A finished copyin or copyout succeeded exactly when every byte of the region
\* is user memory the VM system serves, and then all of it was copied.
BlockExact ==
    (pc \in {"check", "copy"} /\ fn \in Block /\ pc' = "idle") =>
          LET good == \A k \in 0 .. job.len - 1 :
                        job.user + k < USERSPACETOP /\ Served(job.user + k, job.op \in Out)
          IN /\ result' = "0" <=> good
             /\ result' \in {"0", "EFAULT"}
             /\ good => \A k \in 0 .. job.len - 1 :
                   IF fn = "copyin" THEN mem'[job.kern + k] = before.mem[job.user + k]
                   ELSE mem'[job.user + k] = before.mem[job.kern + k]

\* A finished string copy: 0 when the string ends within the given length and
\* all of it, with its NUL, could be touched, and then it is all there;
\* ENAMETOOLONG when it does not end within the length; EFAULT when user memory
\* ends first.
StringExact ==
    (pc \in {"check", "copy"} /\ fn \in {"copyinstr", "copyoutstr"} /\ pc' = "idle") =>
          LET src(k) == before.mem[IF fn = "copyinstr" THEN (job.user + k) % AddrSize ELSE job.kern + k]
              dst(k) == mem'[IF fn = "copyinstr" THEN job.kern + k ELSE (job.user + k) % AddrSize]
              ends == {k \in 0 .. job.len - 1 : src(k) = 0}
              last == IF ends = {} THEN job.len - 1 ELSE Min(ends)
              good == \A k \in 0 .. last :
                        job.user + k < USERSPACETOP /\ Served(job.user + k, job.op \in Out)
          IN /\ result' = IF ~ good THEN "EFAULT" ELSE IF ends = {} THEN "ENAMETOOLONG" ELSE "0"
             /\ result' = "0" => \A k \in 0 .. last : dst(k) = src(k)

\* uio_resid and uio_offset move together by the amount transferred, what is
\* left of the iovecs is uio_resid, and the bytes accounted for are, in order,
\* those of the kernel buffer (or zeros): all that was asked for and fits when
\* the call returns 0, whole pieces before the bad one when it fails.
Places(iov) == FoldLeft(LAMBDA s, v : s \o [k \in 1 .. v[2] |-> v[1] + k - 1], <<>>, iov)
UioAccounts ==
    (pc = "idle" /\ fn \in {"uiomove", "uiomovezeros"}) =>
        LET moved == uio.offset - before.uio.offset
            want == Min({before.n, before.uio.resid})
            place == Places(before.uio.iov)
        IN /\ before.uio.resid - uio.resid = moved
           /\ Total(uio.iov) = uio.resid
           /\ IF result = "0" THEN moved = want ELSE moved < want
           /\ \A k \in 1 .. moved :
                 IF uio.rw = "read"
                 THEN mem[place[k]] = IF fn = "uiomove" THEN before.mem[USERSPACETOP + k - 1] ELSE 0
                 ELSE mem[USERSPACETOP + k - 1] = before.mem[place[k]]

=============================================================================
