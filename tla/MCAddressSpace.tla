--------------------------- MODULE MCAddressSpace ---------------------------
(* Small guests for AddressSpace: a mixture of all calls, a heap in pieces, *)
(* a host that refuses twice, and memory that a fork shared and that is     *)
(* detached, unmapped, mapped again and replaced.                           *)
EXTENDS AddressSpace

AllCalls == {"mmap", "mmap_file", "munmap", "mprotect", "brk", "write", "memmove", "slice",
             "patch", "fork", "exit"}

Mixture ==
    [calls |-> AllCalls, max |-> 3, starts |-> {2, 4}, lengths |-> {1, 2},
     prots |-> {{"r"}, {"r", "w", "x"}}, breaks |-> {5, 7, 10, 17},
     native |-> BOOLEAN, refusals |-> 1, before |-> <<>>]

\* brk after parts of the heap were unmapped, protected or mapped over
HeapPieces ==
    [Mixture EXCEPT !.calls = {"mmap", "munmap", "mprotect", "brk", "write"}, !.max = 4,
                    !.starts = {3, 4}, !.lengths = {1}, !.prots = {{"r"}}, !.breaks = {6, 8, 9, 11},
                    !.refusals = 0]

\* the host refuses an allocation and then what the code does about it
Refused ==
    [Mixture EXCEPT !.calls = {"mmap", "brk", "memmove", "fork", "exit", "write"}, !.starts = {4},
                    !.prots = {{"r", "w"}}, !.refusals = 2]

\* A read-only mapping of four pages that a fork shared, three of them detached since:
\* a page of the three that is mapped again lies in the older allocation, which the
\* newer one overlaps.
MapBefore == [call |-> "mmap", page |-> 4, len |-> 4, prot |-> {"r"}]
ForkBefore == [MapBefore EXCEPT !.call = "fork", !.page = 2]
DetachBefore == [MapBefore EXCEPT !.call = "mprotect", !.len = 3, !.prot = {"r", "w"}]
Reused ==
    [Mixture EXCEPT !.calls = {"mmap", "munmap", "write", "brk"},
                    !.starts = {3, 5}, !.prots = {{"r", "w"}},
                    !.native = {FALSE}, !.refusals = 0,
                    !.before = <<MapBefore, ForkBefore, DetachBefore>>]

MCScenarios == {Mixture, HeapPieces, Refused, Reused}
=============================================================================
