----------------------------- MODULE UserMemory ----------------------------
(***************************************************************************)
(* What a process is promised of its memory: the pages it has hold what it *)
(* stored in them, whatever the others do; a page it did not have comes    *)
(* zeroed; fork gives the child a copy of everything, or nothing; and      *)
(* execve gives a process the whole new image or leaves it the old one.    *)
(*                                                                         *)
(* memory[p][v] is what page v of process p holds, ABSENT when it has no   *)
(* such page.                                                              *)
(***************************************************************************)
EXTENDS Integers

CONSTANTS Procs, Pages, ABSENT, Images

VARIABLE memory

Nothing == [v \in Pages |-> ABSENT]

Init == memory = [p \in Procs |-> Nothing]

Others(S) == \A q \in Procs \ S : memory'[q] = memory[q]

Store(p) ==
    \E v \in Pages :
        /\ memory[p][v] # ABSENT
        /\ memory'[p][v] # ABSENT
        /\ \A w \in Pages \ {v} : memory'[p][w] = memory[p][w]

\* mmap, munmap, brk and the growth of the stack: one range of pages becomes
\* zero or goes away, all of it, and no other page changes.
Remap(p) ==
    \E value \in {ABSENT, 0}, lo \in Pages, hi \in Pages :
        memory'[p] = [v \in Pages |-> IF lo <= v /\ v <= hi THEN value ELSE memory[p][v]]

Fork(p, q) ==
    /\ memory[q] = Nothing
    /\ memory'[q] = memory[p]
    /\ memory'[p] = memory[p]

Exec(p) == memory'[p] \in Images

Exit(p) == memory'[p] = Nothing

Next ==
    \E p \in Procs :
        \/ Others({p}) /\ (Store(p) \/ Exec(p) \/ Exit(p) \/ Remap(p))
        \/ \E q \in Procs \ {p} : Others({p, q}) /\ Fork(p, q)

Spec == Init /\ [][Next]_memory
=============================================================================
