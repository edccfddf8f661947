----------------------------- MODULE ProgramLoad -----------------------------
(* Starting a program: runprogram (kern/syscall/runprogram.c), load_elf and   *)
(* load_segment (kern/syscall/loadelf.c), and the as_ functions of            *)
(* kern/vm/addrspace.c that set up the regions.  The executable is read       *)
(* piece by piece; every read can fail or come up short, and the file can be  *)
(* written by others between two reads.  Frames and swapping are the matter   *)
(* of VirtualMemory: here a page is prepared (zeroed) or comes with whatever  *)
(* its swap slot held.                                                        *)
EXTENDS Integers, Sequences, FiniteSets

CONSTANTS
    PAGE_SIZE,     \* bytes of a page
    AddrSize,      \* number of addresses; sums wrap there
    Executables,   \* what the file may hold: [hdr, phs, whole, size]
    Failures       \* what may fail: "open", "space", "io", "rewrite"

SizesAssumption ==
    /\ PAGE_SIZE \in Nat \ {0} /\ AddrSize \in Nat /\ AddrSize % PAGE_SIZE = 0

(* An executable: hdr is "good", "bad" (not an ELF file for this machine) or  *)
(* "short"; phs are its program headers, of which the first whole ones can be *)
(* read in full; byte k of the rest of the file, k < size, is k + 1.          *)

VARIABLES
    exe,        \* contents of the file
    refs,       \* times the file is open
    space,      \* t_addrspace: "none" or the two regions
    prepared,   \* pages as_prepare_load has zeroed
    mem,        \* user memory
    i,          \* program header being looked at
    pc, result,
    first,      \* history: the executable when its header was read
    clean       \* history: nothing failed and nobody wrote the file

vars == <<exe, refs, space, prepared, mem, i, pc, result, first, clean>>

Old == AddrSize + 1     \* what memory held before; no byte of the file

NoSpace == [live |-> FALSE, vbase1 |-> 0, npages1 |-> 0, vbase2 |-> 0, npages2 |-> 0]
as_create == [NoSpace EXCEPT !.live = TRUE]

Init ==
    /\ exe \in Executables /\ refs = 0
    /\ space = NoSpace /\ prepared = {} /\ mem = [a \in 0 .. AddrSize - 1 |-> Old]
    /\ i = 1 /\ pc = "open" /\ result = "none"
    /\ first = exe /\ clean = TRUE

\* runprogram gives up: the file is closed, the error goes to the menu's thread
\* function, which exits.
Return(err) ==
    /\ pc' = "exit" /\ result' = err
    /\ refs' = 0
\* Variant: load_elf's error leaves the file open
LoadFailedOpen(err) ==
    /\ pc' = "exit" /\ result' = err
    /\ UNCHANGED refs
LoadFailed(err) == Return(err)

\* runprogram up to as_activate
runprogram ==
    /\ pc = "open"
    /\ \/ /\ "open" \in Failures
          /\ pc' = "exit" /\ result' = "ENOENT" /\ clean' = FALSE
          /\ UNCHANGED <<refs, space>>
       \/ /\ "space" \in Failures
          /\ Return("ENOMEM") /\ clean' = FALSE /\ UNCHANGED space
       \/ /\ refs' = refs + 1 /\ space' = as_create
          /\ pc' = "header" /\ UNCHANGED <<result, clean>>
    /\ UNCHANGED <<exe, prepared, mem, i, first>>

\* The number of program headers is taken from the header, which is read once.
e_phnum == Len(first.phs)

\* A read of the file fails.
ReadError ==
    /\ pc \in {"header", "define", "load"}
    /\ pc = "header" \/ i <= e_phnum
    /\ "io" \in Failures
    /\ LoadFailed("EIO") /\ clean' = FALSE
    /\ UNCHANGED <<exe, space, prepared, mem, i, first>>

\* The executable header, and the checks on it
ReadHeader ==
    /\ pc = "header"
    /\ IF exe.hdr = "good" THEN pc' = "define" /\ i' = 1 /\ UNCHANGED <<refs, result>>
       ELSE LoadFailed("ENOEXEC") /\ UNCHANGED i
    /\ first' = exe
    /\ UNCHANGED <<exe, space, prepared, mem, clean>>

Skipped == {"null", "phdr", "reginfo"}
PageOf(a) == (a \div PAGE_SIZE) * PAGE_SIZE
Pages(base, n) == {base + k * PAGE_SIZE : k \in 0 .. n - 1}

\* as_define_region: the base is rounded down, the length up, in the machine's
\* arithmetic; the first region whose base is still 0 is taken.
Aligned(ph) ==
    LET off == ph.vaddr % PAGE_SIZE
        sz == (ph.memsz + off) % AddrSize
    IN [base |-> PageOf(ph.vaddr), npages |-> ((sz + PAGE_SIZE - 1) % AddrSize) \div PAGE_SIZE]
as_define_region(ph) ==
    LET r == Aligned(ph)
    IN IF space.vbase1 = 0 THEN [err |-> "0", as |-> [space EXCEPT !.vbase1 = r.base, !.npages1 = r.npages]]
       ELSE IF space.vbase2 = 0 THEN [err |-> "0", as |-> [space EXCEPT !.vbase2 = r.base, !.npages2 = r.npages]]
       ELSE [err |-> "EUNIMP", as |-> space]

\* One round of the first loop of load_elf
DefineSegment ==
    /\ pc = "define" /\ i <= e_phnum
    /\ IF i > exe.whole \/ exe.phs[i].type \notin Skipped \cup {"load"}
       THEN LoadFailed("ENOEXEC") /\ UNCHANGED <<space, i>>
       ELSE IF exe.phs[i].type \in Skipped THEN i' = i + 1 /\ UNCHANGED <<space, pc, refs, result>>
       ELSE LET d == as_define_region(exe.phs[i])
            IN IF d.err # "0" THEN LoadFailed(d.err) /\ UNCHANGED <<space, i>>
               ELSE space' = d.as /\ i' = i + 1 /\ UNCHANGED <<pc, refs, result>>
    /\ UNCHANGED <<exe, prepared, mem, first, clean>>

\* as_prepare_load: all of the first region and one page of the second are
\* mapped and zeroed (the stack is left out); swapspace_load_as.
as_prepare_load ==
    /\ pc = "define" /\ i > e_phnum
    /\ prepared' = Pages(space.vbase1, space.npages1) \cup Pages(space.vbase2, 1)
    /\ mem' = [a \in DOMAIN mem |-> IF PageOf(a) \in prepared' THEN 0 ELSE mem[a]]
    /\ pc' = "load" /\ i' = 1
    /\ UNCHANGED <<exe, refs, space, result, first, clean>>

\* vm_fault: its assertions, and where it serves an address
RegionsSet == space.vbase1 # 0 /\ space.npages1 # 0 /\ space.vbase2 # 0 /\ space.npages2 # 0
Region == Pages(space.vbase1, space.npages1) \cup Pages(space.vbase2, space.npages2)
Touchable(a) == PageOf(a) \in Region

\* load_segment: the bytes of the file are stored one after the other until the
\* file ends or an address is refused.
load_segment(ph) ==
    LET filesz == IF ph.filesz > ph.memsz THEN ph.memsz ELSE ph.filesz
        count == {n \in 0 .. filesz :
                    /\ \A k \in 0 .. n - 1 : ph.vaddr + k < AddrSize /\ Touchable(ph.vaddr + k)
                    /\ ph.off + n <= exe.size \/ n = 0}
        n == CHOOSE n \in count : \A k \in count : k <= n
    IN [n |-> n, err |-> IF n = filesz THEN "0" ELSE IF ph.off + n >= exe.size THEN "ENOEXEC" ELSE "EFAULT"]
\* Variants: vm_fault is not asked; a short segment is accepted
LoadedAnywhere(ph) ==
    [n |-> IF ph.filesz > exe.size - ph.off THEN exe.size - ph.off ELSE ph.filesz, err |-> "0"]
LoadedShort(ph) == [load_segment(ph) EXCEPT !.err = "0"]
Loaded(ph) == load_segment(ph)

\* One round of the second loop of load_elf, which reads the headers again
LoadSegment ==
    /\ pc = "load" /\ i <= e_phnum
    /\ IF i > exe.whole \/ exe.phs[i].type \notin Skipped \cup {"load"}
       THEN LoadFailed("ENOEXEC") /\ UNCHANGED <<i, mem>>
       ELSE IF exe.phs[i].type \in Skipped THEN i' = i + 1 /\ UNCHANGED <<pc, refs, result, mem>>
       ELSE IF ~ RegionsSet /\ exe.phs[i].filesz > 0 THEN pc' = "panic" /\ UNCHANGED <<i, refs, result, mem>>
       ELSE LET ph == exe.phs[i]
                l == Loaded(ph)
            IN /\ mem' = [a \in DOMAIN mem |->
                            IF a \in ph.vaddr .. ph.vaddr + l.n - 1 THEN ph.off + (a - ph.vaddr) + 1 ELSE mem[a]]
               /\ IF l.err # "0" THEN LoadFailed(l.err) /\ UNCHANGED i
                  ELSE i' = i + 1 /\ UNCHANGED <<pc, refs, result>>
    /\ UNCHANGED <<exe, space, prepared, first, clean>>

\* load_elf is done: the file is closed, as_define_stack, enter_new_process
EnterProcess ==
    /\ pc = "load" /\ i > e_phnum
    /\ refs' = refs - 1
    /\ pc' = "user"
    /\ UNCHANGED <<exe, space, prepared, mem, i, result, first, clean>>
\* The program's first fault: vm_fault's assertions
FirstFault ==
    /\ pc = "user"
    /\ pc' = IF RegionsSet THEN "running" ELSE "panic"
    /\ UNCHANGED <<exe, refs, space, prepared, mem, i, result, first, clean>>

\* thread_exit destroys the address space, of a program that ran or never did.
\* Variant: only a program that ran has its address space destroyed
thread_exit_ran ==
    /\ pc \in {"exit", "running"}
    /\ IF pc = "running" THEN space' = NoSpace /\ prepared' = {} ELSE UNCHANGED <<space, prepared>>
    /\ pc' = "gone"
    /\ UNCHANGED <<exe, refs, mem, i, result, first, clean>>
thread_exit ==
    /\ pc \in {"exit", "running"}
    /\ space' = NoSpace /\ prepared' = {}
    /\ pc' = "gone"
    /\ UNCHANGED <<exe, refs, mem, i, result, first, clean>>

\* The executable is replaced while it is being loaded.
Rewrite ==
    /\ "rewrite" \in Failures /\ clean
    /\ pc \in {"define", "load"}
    /\ exe' \in Executables \ {exe}
    /\ clean' = FALSE
    /\ UNCHANGED <<refs, space, prepared, mem, i, pc, result, first>>

Next ==
    \/ runprogram \/ ReadError \/ ReadHeader \/ DefineSegment \/ as_prepare_load \/ LoadSegment
    \/ EnterProcess \/ FirstFault \/ thread_exit \/ Rewrite
Spec == Init /\ [][Next]_vars

------------------------------------------------------------------------------
(* Properties *)

\* Types of the variables.
TypeOK ==
    /\ exe \in Executables /\ refs \in 0 .. 1
    /\ space.npages1 \in 0 .. AddrSize \div PAGE_SIZE /\ space.npages2 \in 0 .. AddrSize \div PAGE_SIZE
    /\ space.vbase1 % PAGE_SIZE = 0 /\ space.vbase2 % PAGE_SIZE = 0
    /\ mem \in [0 .. AddrSize - 1 -> 0 .. Old] /\ i \in Nat
    /\ pc \in {"open", "header", "define", "load", "user", "running", "exit", "gone", "panic"}

\* On every path out of runprogram, the file is closed exactly once, and not
\* while it is still being read.
FileClosed == pc # "panic" => refs = IF pc \in {"header", "define", "load"} THEN 1 ELSE 0

\* A complete executable: a good header, headers all there and of known types,
\* at most two segments to load, each with its bytes in the file.
Loads(e) == {k \in 1 .. Len(e.phs) : e.phs[k].type = "load"}
FileBytes(ph) == IF ph.filesz < ph.memsz THEN ph.filesz ELSE ph.memsz
Runnable(e) ==
    /\ e.hdr = "good" /\ Len(e.phs) <= e.whole
    /\ \A k \in 1 .. Len(e.phs) : e.phs[k].type \in Skipped \cup {"load"}
    /\ Cardinality(Loads(e)) <= 2
    /\ \A k \in Loads(e) : FileBytes(e.phs[k]) = 0 \/ e.phs[k].off + FileBytes(e.phs[k]) <= e.size

\* When nothing fails and nobody writes the file, a program starts exactly when
\* the executable is complete, and it starts with the image the executable
\* describes: the bytes of the file at their addresses and zeroes behind them
\* as far as as_prepare_load maps the segment.  With two segments the assertions
\* of vm_fault hold.
ImageExact ==
    clean =>
        /\ pc \in {"user", "running"} => Runnable(first)
        /\ pc = "exit" => ~ Runnable(first)
        /\ Cardinality(Loads(first)) >= 2 => pc # "panic"
        /\ pc = "user" => \A k \in Loads(first) :
              LET ph == first.phs[k]
              IN \A n \in 0 .. ph.memsz - 1 :
                    LET a == ph.vaddr + n
                    IN IF n < FileBytes(ph) THEN mem[a] = ph.off + n + 1
                       ELSE PageOf(a) \in prepared => mem[a] = 0

\* Whatever the file holds when its headers are read the second time, nothing
\* is stored outside the regions defined from the first reading.
StoresInRegions ==
    pc \in {"load", "user"} =>
        \A a \in DOMAIN mem : mem[a] \notin {Old, 0} => Touchable(a)

\* A thread that is gone has no address space, and one that failed never ran.
SpaceFreed == pc = "gone" => ~ space.live /\ prepared = {}

=============================================================================
