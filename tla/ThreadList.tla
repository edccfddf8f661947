----------------------------- MODULE ThreadList -----------------------------
(* The doubly linked lists of threads of kern/thread/threadlist.c: run queues *)
(* and wait channels are made of them.  A list has a head node and a tail     *)
(* node of its own; the node of a thread is part of the thread, so a thread   *)
(* can be on one list only.                                                   *)
EXTENDS Naturals, Sequences, SequencesExt, FiniteSets

CONSTANTS Lists, Threads,
          None          \* no node, no thread

HeadOf(l) == <<l, "head">>
TailOf(l) == <<l, "tail">>
Nodes == {HeadOf(l) : l \in Lists} \cup {TailOf(l) : l \in Lists} \cup {<<t, "self">> : t \in Threads}
Node(t) == <<t, "self">>
NoNode == <<None, "none">>

VARIABLES tln_next, tln_prev,   \* the links of every node
          tl_count,             \* the length each list keeps
          did                   \* the last call, with its answer (history)

vars == <<tln_next, tln_prev, tl_count, did>>

\* threadlist_init and threadlistnode_init
Init ==
    /\ tln_next = [n \in Nodes |-> IF n[2] = "head" THEN TailOf(n[1]) ELSE NoNode]
    /\ tln_prev = [n \in Nodes |-> IF n[2] = "tail" THEN HeadOf(n[1]) ELSE NoNode]
    /\ tl_count = [l \in Lists |-> 0]
    /\ did = <<"init", None, None, None>>

\* A thread may be added when its node is on no list (the assertions of
\* threadlist_insertafternode and threadlist_insertbeforenode).
Unlinked(t) == tln_next[Node(t)] = NoNode /\ tln_prev[Node(t)] = NoNode

threadlist_insertafternode(on, t) ==
    /\ tln_next' = [tln_next EXCEPT ![Node(t)] = tln_next[on], ![on] = Node(t)]
    /\ tln_prev' = [tln_prev EXCEPT ![Node(t)] = on, ![tln_next[on]] = Node(t)]

threadlist_insertbeforenode(t, on) ==
    /\ tln_prev' = [tln_prev EXCEPT ![Node(t)] = tln_prev[on], ![on] = Node(t)]
    /\ tln_next' = [tln_next EXCEPT ![Node(t)] = on, ![tln_prev[on]] = Node(t)]

\* Variant: the removed node keeps its links
threadlist_removenode_dangling(n) ==
    /\ tln_next' = [tln_next EXCEPT ![tln_prev[n]] = tln_next[n]]
    /\ tln_prev' = [tln_prev EXCEPT ![tln_next[n]] = tln_prev[n]]
threadlist_removenode(n) ==
    /\ tln_next' = [tln_next EXCEPT ![tln_prev[n]] = tln_next[n], ![n] = NoNode]
    /\ tln_prev' = [tln_prev EXCEPT ![tln_next[n]] = tln_prev[n], ![n] = NoNode]

Counted(l, d) == tl_count' = [tl_count EXCEPT ![l] = @ + d]

threadlist_addhead(l, t) ==
    /\ Unlinked(t)
    /\ threadlist_insertafternode(HeadOf(l), t)
    /\ Counted(l, 1) /\ did' = <<"addhead", l, t, None>>

\* Variant: added at the head
threadlist_addtail_head(l, t) ==
    /\ Unlinked(t)
    /\ threadlist_insertafternode(HeadOf(l), t)
    /\ Counted(l, 1) /\ did' = <<"addtail", l, t, None>>
threadlist_addtail(l, t) ==
    /\ Unlinked(t)
    /\ threadlist_insertbeforenode(t, TailOf(l))
    /\ Counted(l, 1) /\ did' = <<"addtail", l, t, None>>

threadlist_remhead(l) ==
    LET n == tln_next[HeadOf(l)]
    IN IF tln_next[n] = NoNode
       THEN did' = <<"remhead", l, None, None>> /\ UNCHANGED <<tln_next, tln_prev, tl_count>>
       ELSE /\ threadlist_removenode(n)
            /\ tl_count' = [tl_count EXCEPT ![l] = @ - 1]
            /\ did' = <<"remhead", l, n[1], None>>

threadlist_remtail(l) ==
    LET n == tln_prev[TailOf(l)]
    IN IF tln_prev[n] = NoNode
       THEN did' = <<"remtail", l, None, None>> /\ UNCHANGED <<tln_next, tln_prev, tl_count>>
       ELSE /\ threadlist_removenode(n)
            /\ tl_count' = [tl_count EXCEPT ![l] = @ - 1]
            /\ did' = <<"remtail", l, n[1], None>>

------------------------------------------------------------------------------
(* THREADLIST_FORALL and THREADLIST_FORALL_REV: the nodes met from one end    *)
(* until a node without a successor (predecessor), at most all there are.     *)

Follow(link, from) ==
    LET limit == 1 + Cardinality(Threads)
        step == [n \in Nodes \cup {NoNode} |-> IF n = NoNode THEN NoNode ELSE link[n]]
        at[k \in 0 .. limit] == IF k = 0 THEN from ELSE step[at[k - 1]]
        ends == {k \in 1 .. limit : at[k][2] # "self"}
        n == IF ends = {} THEN limit ELSE (CHOOSE k \in ends : \A j \in ends : k <= j) - 1
    IN [k \in 1 .. n |-> at[k][1]]
THREADLIST_FORALL(l) == Follow(tln_next, HeadOf(l))
THREADLIST_FORALL_REV(l) == Follow(tln_prev, TailOf(l))

On(l) == ToSet(THREADLIST_FORALL(l))

threadlist_insertafter(l, on, t) ==
    /\ Unlinked(t)
    /\ threadlist_insertafternode(Node(on), t)
    /\ Counted(l, 1) /\ did' = <<"insertafter", l, t, on>>

threadlist_insertbefore(l, t, on) ==
    /\ Unlinked(t)
    /\ threadlist_insertbeforenode(t, Node(on))
    /\ Counted(l, 1) /\ did' = <<"insertbefore", l, t, on>>

threadlist_remove(l, t) ==
    /\ t \in On(l)
    /\ threadlist_removenode(Node(t))
    /\ tl_count' = [tl_count EXCEPT ![l] = @ - 1]
    /\ did' = <<"remove", l, t, None>>

Next ==
    \E l \in Lists :
        \/ \E t \in Threads : threadlist_addhead(l, t) \/ threadlist_addtail(l, t) \/ threadlist_remove(l, t)
        \/ threadlist_remhead(l) \/ threadlist_remtail(l)
        \/ \E t \in Threads : \E on \in On(l) : threadlist_insertafter(l, on, t) \/ threadlist_insertbefore(l, t, on)
Spec == Init /\ [][Next]_vars

------------------------------------------------------------------------------
(* Properties *)

\* Links lead to nodes or nowhere; counts are numbers.
TypeOK ==
    /\ tln_next \in [Nodes -> Nodes \cup {NoNode}]
    /\ tln_prev \in [Nodes -> Nodes \cup {NoNode}]
    /\ tl_count \in [Lists -> Nat]
    /\ did[3] \in Threads \cup {None}

\* Both directions show the same threads, each once, and as many as tl_count
\* says; a thread on no list has no links, so it can be added again and passes
\* threadlistnode_cleanup.
BothWays ==
    /\ \A l \in Lists :
          /\ THREADLIST_FORALL_REV(l) = Reverse(THREADLIST_FORALL(l))
          /\ IsInjective(THREADLIST_FORALL(l))
          /\ Len(THREADLIST_FORALL(l)) = tl_count[l]
    /\ \A t \in Threads : Unlinked(t) <=> \A l \in Lists : t \notin On(l)

\* The linked lists are deques: a call changes one list, by the thread it names and at the place it
\* names, and the removals answer with the thread that was at that end, or with none.
ActsAsDeque ==
    \A l \in Lists :
        LET t == did'[3]
            was == THREADLIST_FORALL(l)
            now == THREADLIST_FORALL(l)'
            k == SelectInSeq(was, LAMBDA u : u = did'[4])
        IN IF did'[2] # l THEN now = was
           ELSE CASE did'[1] = "addhead" -> now = <<t>> \o was
                  [] did'[1] = "addtail" -> now = Append(was, t)
                  [] did'[1] = "insertafter" -> now = InsertAt(was, k + 1, t)
                  [] did'[1] = "insertbefore" -> now = InsertAt(was, k, t)
                  [] did'[1] = "remhead" -> IF was = <<>> THEN t = None /\ now = was
                                            ELSE was = <<t>> \o now
                  [] did'[1] = "remtail" -> IF was = <<>> THEN t = None /\ now = was
                                            ELSE was = Append(now, t)
                  [] did'[1] = "remove" -> now = SelectSeq(was, LAMBDA u : u # t)
=============================================================================
