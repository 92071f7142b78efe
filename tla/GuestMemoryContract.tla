------------------------- MODULE GuestMemoryContract -------------------------
(***************************************************************************)
(* What the guest is promised of its memory: every process has a flat      *)
(* array of pages of its own.  There are no VMAs here, no allocations, no  *)
(* sharing and no switching; AddressSpace implements this specification.   *)
(***************************************************************************)
EXTENDS Integers

CONSTANTS Pids, Pages, Protections, Zero, Image, Written, Patched, Spoiled

VARIABLE mem    \* pid -> << >> (no such process), Spoiled, or page -> [val, prot, kind]

\* A page that is not mapped
Unmapped == [val |-> 0 - 1, prot |-> {"unmapped"}, kind |-> "none"]

Exists(pid) == DOMAIN mem[pid] = Pages

\* Pages a .. b take new cells; everything else, of every process, stays
Update(pid, a, b, Cell(_)) ==
    mem' = [mem EXCEPT ![pid] = [p \in Pages |-> IF a <= p /\ p <= b THEN Cell(@[p]) ELSE @[p]]]

\* mmap: zero pages, or those of a file as far as it has them
Map(pid, a, b) ==
    \E prot \in Protections, to \in a - 1 .. b :
        mem' = [mem EXCEPT ![pid] = [p \in Pages |->
                    IF p < a \/ p > b THEN @[p]
                    ELSE [val |-> IF p <= to THEN Image ELSE Zero, prot |-> prot, kind |-> "anonymous"]]]

\* A break that grows: zero pages where nothing was mapped.  The pages of the heap keep
\* what they hold, and all become writable again, whatever mprotect made of them.
Grow(pid, a, b) ==
    /\ \A p \in a .. b : mem[pid][p] = Unmapped \/ mem[pid][p].kind = "heap"
    /\ Update(pid, a, b, LAMBDA c : [val |-> IF c = Unmapped THEN Zero ELSE c.val,
                                     prot |-> {"r", "w"}, kind |-> "heap"])

\* A break that shrinks: what other mappings have taken of the heap stays
Shrink(pid, a) ==
    mem' = [mem EXCEPT ![pid] = [p \in Pages |-> IF a <= p /\ @[p].kind = "heap" THEN Unmapped ELSE @[p]]]

\* munmap, and MAP_FIXED whose new mapping then fails
Unmap(pid, a, b) == Update(pid, a, b, LAMBDA c : Unmapped)

\* mprotect: only of mapped pages, whose contents stay
Protect(pid, a, b) ==
    /\ \A p \in a .. b : mem[pid][p] # Unmapped
    /\ \E prot \in Protections : Update(pid, a, b, LAMBDA c : [c EXCEPT !.prot = prot])

\* A write, or the part of one before the page it faults on: only to writable pages
Write(pid, a, b) ==
    /\ \A p \in a .. b : "w" \in mem[pid][p].prot
    /\ Update(pid, a, b, LAMBDA c : [c EXCEPT !.val = Written])

\* memmove: pages a .. b of a readable range n away, as they were before
Move(pid, a, b, n) ==
    /\ \A p \in a .. b : p + n \in Pages /\ "r" \in mem[pid][p + n].prot /\ "w" \in mem[pid][p].prot
    /\ mem' = [mem EXCEPT ![pid] = [p \in Pages |->
                    IF a <= p /\ p <= b THEN [@[p] EXCEPT !.val = mem[pid][p + n].val] ELSE @[p]]]

\* The runtime patches code whatever its protection
PatchPage(pid, p) ==
    /\ mem[pid][p] # Unmapped
    /\ Update(pid, p, p, LAMBDA c : [c EXCEPT !.val = Patched])

Fork(pid) == \E child \in Pids : mem[child] = << >> /\ mem' = [mem EXCEPT ![child] = mem[pid]]

\* The memories of some processes are spoiled.  Nothing more is promised of them: a
\* step of such a process is seen by the others only when it forks or exits.
Spoil(pids) == mem' = [p \in Pids |-> IF p \in pids /\ mem[p] # << >> THEN Spoiled ELSE mem[p]]

\* When a process exits, another memory has to be placed, which may spoil it.
Exit(pid) ==
    \E pids \in SUBSET (Pids \ {pid}) :
        mem' = [p \in Pids |-> IF p = pid THEN << >>
                               ELSE IF p \in pids /\ mem[p] # << >> THEN Spoiled ELSE mem[p]]

Step(pid) ==
    /\ mem[pid] # << >>
    /\ Fork(pid) \/ Exit(pid) \/ \E pids \in SUBSET Pids : Spoil(pids)

\* Of the memories only pages a .. b of pid may change
Within(pid, a, b) ==
    /\ \A other \in Pids \ {pid} : mem'[other] = mem[other]
    /\ DOMAIN mem'[pid] = Pages
    /\ \A p \in Pages \ (a .. b) : mem'[pid][p] = mem[pid][p]

\* The steps of a process whose memory is not spoiled
FlatStep(pid) ==
    /\ Exists(pid)
    /\ \E a, b \in Pages :
         /\ a <= b
         /\ Within(pid, a, b)
         /\ \/ a = b /\ PatchPage(pid, a)
            \/ Map(pid, a, b) \/ Grow(pid, a, b) \/ Shrink(pid, a) \/ Unmap(pid, a, b)
            \/ Protect(pid, a, b) \/ Write(pid, a, b)
            \/ \E c \in Pages : Move(pid, a, b, c - a)

Init == \A pid \in Pids : mem[pid] = << >> \/ Exists(pid)

Spec == Init /\ [][\E pid \in Pids : Step(pid) \/ FlatStep(pid)]_mem
=============================================================================
