---------------------------- MODULE AddressSpace ----------------------------
(***************************************************************************)
(* The guest memory manager (crates/mcr-memory) and the switching of the   *)
(* runtime between the memories of its processes                           *)
(* (mcr-runtime/src/subsystems/process.rs).                                *)
(*                                                                         *)
(* A guest memory is a map of VMAs (BTreeMap keyed by start) over a map of *)
(* host allocations; several VMAs may lie in one allocation, a clone may   *)
(* share a read-only allocation with its original (Arc), and a write to a  *)
(* shared page detaches it into an allocation of its own.  Addresses are   *)
(* pages; a page holds one value.  The program break counts half pages, so *)
(* that rounding it up matters.                                            *)
(***************************************************************************)
EXTENDS Integers, Sequences, FiniteSets, TLC, SequencesExt, FiniteSetsExt

CONSTANTS
    Pids,             \* process ids; 1 is the initial process
    BrkBase,          \* page of brk_base
    MmapBase,         \* page of mmap_base
    End,              \* address_space_end
    Granularity,      \* host allocation granularity in pages
    Scenarios,        \* what the guests of an instance do, see below
    MaxAllocations,   \* bound on next_allocation_id
    MaxAsked,         \* bound on the allocations of one call that may be refused
    NoMemory          \* model value: no memory for this pid

\* A scenario has the calls the guests make (calls), how many of them (max), the first
\* pages and the lengths of their ranges (starts, lengths), the protections they ask
\* for, subsets of {"r", "w", "x"} (prots), the breaks they ask for (breaks), whether
\* native execution may be enabled (native), how often the host may refuse an allocation (refusals), and the calls
\* made before the behaviour starts (before).

ASSUME LayoutAssumption ==
    /\ 1 \in Pids
    /\ {BrkBase, MmapBase, End} \subseteq Nat \ {0}
    /\ Granularity \in Nat \ {0}
    /\ {MaxAllocations, MaxAsked} \subseteq Nat
    /\ \A s \in Scenarios : {s.max, s.refusals} \subseteq Nat

Initial == 1
Pages == 1 .. End - 1
RW == {"r", "w"}

\* What a page may hold: zeros, the image, bytes the guest wrote, bytes the runtime patched
Zero == 0
Image == 1
Written == 2
Patched == 3

VARIABLES
    scenario,   \* the scenario of this behaviour
    lives,      \* the processes that have not exited
    stored,     \* process.memory: pid -> memory of a process not selected
    current,    \* files.memory: the selected memory
    selected,   \* process.selected_memory_pid
    host,       \* live host allocations: id -> [at, val, prot]
    native,     \* native.enabled
    failures,   \* allocations the host has refused so far
    calls,      \* calls made so far
    outcome,    \* how the last call went
    spoiled,    \* history: the processes whose memory was spoiled, see Spoil
    view        \* what every process reads of its memory; derived from the rest

vars == <<scenario, lives, stored, current, selected, host, native, failures, calls, outcome,
          spoiled, view>>

-----------------------------------------------------------------------------
(* Ranges and protections.                                                 *)

AlignDown(a, g) == (a \div g) * g
AlignUp(a, g) == AlignDown(a + g - 1, g)

\* GuestMemoryProtection::to_host
ToHost(prot) ==
    IF "w" \in prot THEN IF "x" \in prot THEN "xrw" ELSE "rw"
    ELSE IF "x" \in prot THEN "xr"
    ELSE IF "r" \in prot THEN "ro" ELSE "none"

-----------------------------------------------------------------------------
(* VMAs: a set of records, at most one for a start.                        *)

\* vma_containing: the VMA with the greatest start not above the page, if it reaches it
VmaContaining(vmas, p) ==
    LET below == {v \in vmas : v.start <= p}
    IN  {v \in below : (\A o \in below : o.start <= v.start) /\ p < v.end}

\* The element of a singleton
The(S) == CHOOSE x \in S : TRUE

\* BTreeMap::insert replaces a VMA with the same start
InsertVma(vmas, vma) == {v \in vmas : v.start # vma.start} \cup {vma}

\* split_vma_at
SplitVmaAt(vmas, p) ==
    LET hit == {v \in VmaContaining(vmas, p) : v.start # p}
    IN  (vmas \ hit)
        \cup UNION {{[v EXCEPT !.end = p],
                     [v EXCEPT !.start = p, !.off = @ + (p - v.start)]} : v \in hit}

StartsIn(vmas, a, b) == {v \in vmas : a <= v.start /\ v.start < b}
Overlapping(vmas, a, b) == {v \in vmas : v.start < b /\ a < v.end}

\* The order in which a BTreeMap yields its entries
Ascending(S) == [i \in 1 .. Cardinality(S) |->
                   CHOOSE x \in S : Cardinality({y \in S : y < x}) = i - 1]
ByStart(vmas) ==
    LET starts == Ascending({v.start : v \in vmas})
    IN  [i \in DOMAIN starts |-> CHOOSE v \in vmas : v.start = starts[i]]

\* can_merge
CanMerge(left, right) ==
    /\ left.end = right.start
    /\ left.prot = right.prot
    /\ left.kind = right.kind
    /\ left.alloc = right.alloc
    /\ left.off + (left.end - left.start) = right.off

\* coalesce_adjacent
CoalesceAdjacent(vmas) ==
    Range(FoldLeft(LAMBDA merged, v :
                     IF merged # <<>> /\ CanMerge(Last(merged), v)
                     THEN [merged EXCEPT ![Len(merged)].end = v.end]
                     ELSE Append(merged, v),
                   <<>>, ByStart(vmas)))

\* find_free_range: first fit at or after the hint; End when there is none
FindFreeRange(vmas, hint, len) ==
    LET start == FoldLeft(LAMBDA c, v :
                            IF c + len <= v.start THEN c
                            ELSE IF c < v.end THEN v.end ELSE c,
                          IF hint < 1 THEN 1 ELSE hint, ByStart(vmas))
    IN  IF start + len <= End THEN start ELSE End

\* is_range_mapped: the VMAs of a range leave no gap in it
IsRangeMapped(vmas, a, b) ==
    \A p \in a .. b - 1 : \E v \in vmas : v.start <= p /\ p < v.end

-----------------------------------------------------------------------------
(* A call works on a world: the two maps, the host's memory, which of the  *)
(* allocations it asks for the host refuses, and how the call went.        *)

World(refused) ==
    [lives |-> lives, stored |-> stored, current |-> current, selected |-> selected, host |-> host,
     spoiled |-> spoiled, refused |-> refused, asked |-> 0, mem |-> 0, at |-> <<0, 0>>, err |-> "ok"]

\* History: the memory of pid is not what its guest made of it any more.  There are four
\* ways to that, all of them in the code: the break grows over a heap that is not one
\* VMA from brk_base (ResizeHeap); allocations are replaced of which an older one holds
\* a page and a newer one a stale copy of it (ReplaceOverlapping); the host refuses
\* to give a replaced allocation back (RestoreSaved); and it refuses the addresses
\* of the only copy of a memory (Placed, SelectNative).
Spoil(w, pid) == [w EXCEPT !.spoiled = @ \cup {pid}]

Ok(w) == w.err = "ok"
Failed(w, e) == [w EXCEPT !.err = e]

\* What comes after a call that may fail (the code's `?`)
Then(w, f(_)) == IF Ok(w) THEN f(w) ELSE w

\* Do f for every element in turn, until one fails (a for loop with `?` in its body)
ForEach(w, seq, f(_, _)) == FoldLeft(LAMBDA x, e : IF Ok(x) THEN f(x, e) ELSE x, w, seq)

\* References to a host allocation (Arc::strong_count)
StrongCount(w, m) ==
    LET Refs(sp) == IF sp = NoMemory THEN 0
                    ELSE Cardinality({id \in DOMAIN sp.allocs : sp.allocs[id].mem = m})
    IN  Refs(w.current) + MapThenSumSet(LAMBDA p : Refs(w.stored[p]), Pids)

\* Memory is released when its last reference goes (impl Drop for HostMemory)
Collect(w) ==
    [w EXCEPT !.host = [m \in {m \in DOMAIN w.host : StrongCount(w, m) > 0} |-> w.host[m]]]

Uniform(n, x) == [i \in 0 .. n - 1 |-> x]
Size(o) == Cardinality(DOMAIN o.val)

\* HostMemory::allocate (at = 0) and allocate_at: read-write memory, unless the host refuses
AllocateHost(w, at, val) ==
    LET n == w.asked + 1
        len == Cardinality(DOMAIN val)
        taken == /\ at # 0
                 /\ \E m \in DOMAIN w.host :
                      /\ w.host[m].at # 0
                      /\ w.host[m].at < at + len /\ at < w.host[m].at + Size(w.host[m])
        m == Min((1 .. Cardinality(DOMAIN w.host) + 1) \ DOMAIN w.host)
    IN  IF taken \/ n \in w.refused THEN [Failed(w, "host") EXCEPT !.asked = n]
        ELSE [w EXCEPT !.asked = n, !.mem = m,
                       !.host = @ @@ (m :> [at |-> at, val |-> val, prot |-> Uniform(len, "rw")])]

\* Where a memory wants an allocation for guest page p
At(sp, p) == IF sp.fixed THEN p ELSE 0

\* allocation_protection_ranges
ProtectionRanges(sp, id) ==
    {[start |-> v.start, off |-> v.off, len |-> v.end - v.start, prot |-> v.prot] :
        v \in {v \in sp.vmas : v.alloc = id}}

\* apply_allocation_protections: in the order of the VMAs, so the last one wins
ApplyProtections(o, ranges) ==
    [o EXCEPT !.prot = [i \in DOMAIN o.prot |->
        LET on == {r \in ranges : r.off <= i /\ i < r.off + r.len}
        IN  IF on = {} THEN o.prot[i]
            ELSE ToHost((CHOOSE r \in on : \A q \in on : q.start <= r.start).prot)]]

\* HostMemory::protect(ReadWrite) over the whole allocation
Unprotect(o) == [o EXCEPT !.prot = Uniform(Size(o), "rw")]

\* AllocationProtectionGuard: the whole allocation is opened, then the VMAs of
\* this memory (not those of a memory that shares it) are protected again
Guarded(o, ranges) == ApplyProtections(Unprotect(o), ranges)

\* drop_unreferenced_allocations
DropUnreferenced(w) ==
    LET used == {v.alloc : v \in w.current.vmas}
    IN  Collect([w EXCEPT !.current.allocs =
                    [id \in DOMAIN w.current.allocs \cap used |-> w.current.allocs[id]]])

\* ensure_allocation_unique
EnsureAllocationUnique(w, id) ==
    LET a == w.current.allocs[id]
        ranges == ProtectionRanges(w.current, id)
    IN  IF id \notin DOMAIN w.current.allocs THEN Failed(w, "NotMapped")
        ELSE IF StrongCount(w, a.mem) = 1 THEN w
        ELSE Then(AllocateHost([w EXCEPT !.host[a.mem] = Guarded(@, ranges)],
                               At(w.current, a.start), w.host[a.mem].val),
                  LAMBDA x : [x EXCEPT !.host[x.mem] = ApplyProtections(@, ranges),
                                       !.current.allocs[id].mem = x.mem])

\* self.allocations.insert(next_allocation_id, ..)
InsertAllocation(w, start) ==
    [w EXCEPT !.current.allocs = @ @@ (w.current.next :> [start |-> start, mem |-> w.mem]),
              !.current.next = @ + 1]

\* detach_shared_vma
DetachSharedVma(w, v) ==
    LET m == w.current.allocs[v.alloc].mem
    IN  IF v.alloc \notin DOMAIN w.current.allocs THEN Failed(w, "NotMapped")
        ELSE IF StrongCount(w, m) = 1 THEN w
        ELSE Then(AllocateHost([w EXCEPT !.host[m] =
                                   Guarded(@, ProtectionRanges(w.current, v.alloc))],
                               At(w.current, v.start),
                               [i \in 0 .. v.end - v.start - 1 |-> w.host[m].val[v.off + i]]),
                  LAMBDA x : [InsertAllocation(x, v.start) EXCEPT
                                !.host[x.mem].prot = Uniform(v.end - v.start, ToHost(v.prot)),
                                !.current.vmas =
                                    InsertVma(@, [v EXCEPT !.alloc = x.current.next, !.off = 0])])

\* ensure_guest_range_unique
EnsureRangeUnique(w, a, b) ==
    IF w.current.fixed
    THEN ForEach(w, Ascending({v.alloc : v \in Overlapping(w.current.vmas, a, b)}),
                 EnsureAllocationUnique)
    ELSE Then(ForEach([w EXCEPT !.current.vmas = SplitVmaAt(SplitVmaAt(@, a), b)],
                      ByStart(StartsIn(SplitVmaAt(SplitVmaAt(w.current.vmas, a), b), a, b)),
                      DetachSharedVma),
              DropUnreferenced)

-----------------------------------------------------------------------------
(* Host memory for a mapping.                                              *)

\* Mutant: the bytes are not copied back
RestoreSavedBlank(w, saved, ranges) ==
    ForEach(Collect(w), Ascending(DOMAIN saved), LAMBDA x, id :
        Then(AllocateHost(x, At(x.current, saved[id].start), Uniform(Cardinality(DOMAIN saved[id].val), Zero)),
             LAMBDA y : [y EXCEPT !.host[y.mem] = ApplyProtections(@, ranges[id]),
                                  !.current.allocs =
                                      @ @@ (id :> [start |-> saved[id].start, mem |-> y.mem])]))

\* restore_saved_allocations: each in memory of its own, as long as the host gives it
RestoreSaved(w, saved, ranges) ==
    ForEach(Collect(w), Ascending(DOMAIN saved), LAMBDA x, id :
        Then(AllocateHost(x, At(x.current, saved[id].start), saved[id].val),
             LAMBDA y : [y EXCEPT !.host[y.mem] = ApplyProtections(@, ranges[id]),
                                  !.current.allocs =
                                      @ @@ (id :> [start |-> saved[id].start, mem |-> y.mem])]))

\* replace_overlapping_allocations: one allocation over guest pages a .. b - 1 for
\* those in ids, their bytes copied in the order of their ids
ReplaceOverlapping(w, start, a, b, ids) ==
    LET saved == [id \in ids |-> [start |-> w.current.allocs[id].start,
                                  val |-> w.host[w.current.allocs[id].mem].val]]
        ranges == [id \in ids |-> ProtectionRanges(w.current, id)]
        Open(x, id) == [x EXCEPT !.host[x.current.allocs[id].mem] = Guarded(@, ranges[id])]
        Cut(x) == Collect([x EXCEPT !.current.allocs = [id \in DOMAIN @ \ ids |-> @[id]]])
        Holder(p) == {id \in ids : /\ saved[id].start <= p
                                   /\ p < saved[id].start + Cardinality(DOMAIN saved[id].val)}
        Byte(p, on) == IF on = {} THEN Zero ELSE saved[Max(on)].val[p - saved[Max(on)].start]
        stale == \E v \in w.current.vmas : \E p \in v.start .. v.end - 1 :
                    v.alloc \in ids /\ v.alloc # Max(Holder(p))
        Move(x) == [InsertAllocation(IF stale THEN Spoil(x, x.selected) ELSE x, a) EXCEPT
                      !.current.vmas = {IF v.alloc \in ids
                                        THEN [v EXCEPT !.alloc = x.current.next, !.off = v.start - a]
                                        ELSE v : v \in @},
                      !.at = <<x.current.next, start - a>>]
        Protect(x) == [x EXCEPT !.host[x.mem] =
                          ApplyProtections(@, ProtectionRanges(x.current, x.at[1]))]
        Back(x) == IF Ok(x) THEN Failed(x, "host") ELSE Spoil(x, x.selected)
        Finish(x) == IF Ok(x) THEN Protect(Move(x))
                     ELSE Back(RestoreSaved([x EXCEPT !.err = "ok"], saved, ranges))
    IN  Finish(AllocateHost(Cut(ForEach(w, Ascending(ids), Open)), At(w.current, a),
                            [i \in 0 .. b - a - 1 |-> Byte(a + i, Holder(a + i))]))

\* ensure_host_allocation: (id, offset) of host memory for the range, in `at`
EnsureHostAllocation(w, start, len) ==
    LET allocs == w.current.allocs
        EndOf(id) == allocs[id].start + Size(w.host[allocs[id].mem])
        holding == {id \in DOMAIN allocs : allocs[id].start <= start /\ start + len <= EndOf(id)}
        a == AlignDown(start, Granularity)
        b == AlignUp(start + len, Granularity)
        overlapping == {id \in DOMAIN allocs : allocs[id].start < b /\ a < EndOf(id)}
    IN  IF holding # {}
        THEN [w EXCEPT !.at = <<Min(holding), start - allocs[Min(holding)].start>>]
        ELSE IF overlapping # {}
        THEN ReplaceOverlapping(w, start, Min({a} \cup {allocs[id].start : id \in overlapping}),
                                Max({b} \cup {EndOf(id) : id \in overlapping}), overlapping)
        ELSE Then(AllocateHost(w, At(w.current, a), Uniform(b - a, Zero)),
                  LAMBDA x : [InsertAllocation(x, a) EXCEPT !.at = <<x.current.next, start - a>>])

\* Mutant: memory is taken to be fresh
ZeroNothing(w, id, off, len) == EnsureAllocationUnique(w, id)

\* zero_allocation_range
ZeroAllocationRange(w, id, off, len) ==
    LET Zeroed(o) == [o EXCEPT !.val = [i \in DOMAIN @ |->
                                          IF off <= i /\ i < off + len THEN Zero ELSE @[i]]]
    IN  Then(EnsureAllocationUnique(w, id),
             LAMBDA x : [x EXCEPT !.host[x.current.allocs[id].mem] =
                            Guarded(Zeroed(@), ProtectionRanges(x.current, id))])

\* HostMemory::protect_range
ProtectRange(o, off, len, prot) ==
    [o EXCEPT !.prot = [i \in DOMAIN @ |->
                          IF off <= i /\ i < off + len THEN ToHost(prot) ELSE @[i]]]

NewVma(w, start, end, prot, kind) ==
    [start |-> start, end |-> end, prot |-> prot, kind |-> kind,
     alloc |-> w.at[1], off |-> w.at[2]]

\* insert_mapping
InsertMapping(w, start, len, prot) ==
    LET Insert(x) == [x EXCEPT
            !.host[x.current.allocs[x.at[1]].mem] = ProtectRange(@, x.at[2], len, prot),
            !.current.vmas = InsertVma(@, NewVma(x, start, start + len, prot, "anonymous"))]
    IN  IF start + len > End THEN Failed(w, "OutOfMemory")
        ELSE IF Overlapping(w.current.vmas, start, start + len) # {} THEN Failed(w, "AddressInUse")
        ELSE Then(Then(EnsureHostAllocation(w, start, len),
                       LAMBDA x : ZeroAllocationRange(x, x.at[1], x.at[2], len)),
                  Insert)

\* unmap_range
UnmapRange(w, a, b) ==
    LET Cut(vmas) == vmas \ StartsIn(vmas, a, b)
    IN  DropUnreferenced([w EXCEPT !.current.vmas = Cut(SplitVmaAt(SplitVmaAt(@, a), b))])

-----------------------------------------------------------------------------
(* The calls of mcr-memory on the selected memory.                         *)

\* next_retry_mmap_start and the loop of GuestMemory::mmap: on native memory a
\* range whose address the host refuses is given up for the next free one (64 times
\* at most).  MAP_FIXED unmaps what was there first; "replaced" is its failure after that.
RECURSIVE MmapFrom(_, _, _, _, _)
MmapFrom(w, start, len, prot, fixed) ==
    LET Again(x, next) ==
            IF next = End THEN Failed(x, "OutOfMemory")
            ELSE MmapFrom([x EXCEPT !.err = "ok"], next, len, prot, fixed)
        Tried(x) ==
            IF Ok(x) THEN [x EXCEPT !.at = <<start, len>>]
            ELSE IF fixed THEN Failed(x, "replaced")
            ELSE IF x.err # "host" \/ ~x.current.fixed THEN x
            ELSE Again(x, FindFreeRange(x.current.vmas, start + len, len))
    IN  Tried(InsertMapping(IF fixed THEN UnmapRange(w, start, start + len) ELSE w,
                            start, len, prot))

\* GuestMemory::mmap with mmap_start: `how` is "hint", "fixed" or "noreplace";
\* MAP_FIXED_NOREPLACE is not retried either
Mmap(w, how, page, len, prot) ==
    LET free == FindFreeRange(w.current.vmas, IF page = 0 THEN MmapBase ELSE page, len)
    IN  CASE how = "hint" ->
               IF free = End THEN Failed(w, "OutOfMemory") ELSE MmapFrom(w, free, len, prot, FALSE)
          [] how = "fixed" ->
               IF page + len > End THEN Failed(w, "OutOfMemory")
               ELSE MmapFrom(w, page, len, prot, TRUE)
          [] how = "noreplace" ->
               IF Overlapping(w.current.vmas, page, page + len) # {}
               THEN Failed(w, "AddressInUse") ELSE InsertMapping(w, page, len, prot)

\* GuestMemory::mprotect
Mprotect(w, a, b, prot) ==
    LET Protect(x, v) == [x EXCEPT !.host[x.current.allocs[v.alloc].mem] =
                            ProtectRange(@, v.off, v.end - v.start, prot)]
        Set(vmas, inside) == CoalesceAdjacent(
                                (vmas \ inside) \cup {[v EXCEPT !.prot = prot] : v \in inside})
        Finish(x) == [x EXCEPT !.current.vmas = Set(@, StartsIn(@, a, b))]
    IN  IF ~IsRangeMapped(w.current.vmas, a, b) THEN Failed(w, "NotMapped")
        ELSE Then(EnsureRangeUnique(
                      [w EXCEPT !.current.vmas = SplitVmaAt(SplitVmaAt(@, a), b)], a, b),
                  LAMBDA x : Finish(ForEach(x, ByStart(StartsIn(x.current.vmas, a, b)), Protect)))

\* record_executable_write: a wrapping counter; only whether it moved matters
NextGeneration(g) == (g + 1) % 4

HeapVmas(sp) == {v \in sp.vmas : v.kind = "heap"}

\* heap_mapped_end: the end of the first heap VMA
HeapMappedEnd(sp) ==
    LET heap == HeapVmas(sp)
    IN  IF heap = {} THEN BrkBase
        ELSE Max({BrkBase, (CHOOSE v \in heap : \A o \in heap : v.start <= o.start).end})

\* The heap is one VMA from brk_base, or nothing
HeapWhole(sp) == Cardinality(HeapVmas(sp)) <= 1 /\ \A v \in HeapVmas(sp) : v.start = BrkBase

\* resize_heap
ResizeHeap(w, end) ==
    LET from == HeapMappedEnd(w.current)
        Zeroed(x) == ZeroAllocationRange(x, x.at[1], x.at[2] + (from - BrkBase), end - from)
        Insert(x) == [IF HeapWhole(x.current) THEN x ELSE Spoil(x, x.selected) EXCEPT
                        !.current.vmas = InsertVma(@, NewVma(x, BrkBase, end, RW, "heap"))]
        Alone(x) == EnsureAllocationUnique(Insert(x), x.at[1])
        Protect(x) == [x EXCEPT !.host[x.current.allocs[x.at[1]].mem] =
                         ProtectRange(@, x.at[2], end - BrkBase, RW)]
    IN  Then(Then(Then(EnsureHostAllocation(w, BrkBase, end - BrkBase), Zeroed), Alone), Protect)

\* shrink_heap and remove_heap_vmas
ShrinkHeap(w, end) ==
    LET split == IF end <= BrkBase THEN w.current.vmas ELSE SplitVmaAt(w.current.vmas, end)
    IN  DropUnreferenced([w EXCEPT !.current.vmas =
            {v \in split : ~(v.kind = "heap" /\ v.start >= end)}])

\* set_brk and try_set_brk; the break is in half pages
SetBrk(w, brk) ==
    LET end == (brk + 1) \div 2
        old == HeapMappedEnd(w.current)
        blocked == \E v \in w.current.vmas :
                     v.kind # "heap" /\ v.start < end /\ old < v.end
        sized == IF end > old THEN ResizeHeap(w, end)
                 ELSE IF end < old THEN ShrinkHeap(w, end) ELSE w
    IN  IF brk < 2 * BrkBase THEN Failed(w, "InvalidAddress")
        ELSE IF end > End \/ (end > old /\ blocked) THEN Failed(w, "OutOfMemory")
        ELSE IF Ok(sized) THEN [sized EXCEPT !.current.brk = brk] ELSE sized

\* copy_from_slice into the pages cur .. to - 1 of one VMA
Store(w, v, cur, to, val) ==
    [w EXCEPT !.host[w.current.allocs[v.alloc].mem].val =
        [i \in DOMAIN @ |-> LET p == v.start + (i - v.off)
                            IN  IF cur <= p /\ p < to THEN val[p] ELSE @[i]]]

\* write_guest: chunk by chunk, a VMA at a time; what is written before a fault stays
RECURSIVE WriteFrom(_, _, _, _, _)
WriteFrom(w, cur, b, val, exec) ==
    LET at == VmaContaining(w.current.vmas, cur)
        Chunk(x, v) == WriteFrom(Store(x, v, cur, Min({v.end, b}), val), Min({v.end, b}), b, val,
                                 exec \/ "x" \in v.prot)
    IN  IF cur >= b THEN [w EXCEPT !.current.gen = IF exec THEN NextGeneration(@) ELSE @]
        ELSE IF at = {} THEN Failed(w, "NotMapped")
        ELSE IF \E v \in at : "w" \notin v.prot THEN Failed(w, "AccessDenied")
        ELSE Then(EnsureRangeUnique(w, cur, Min({b} \cup {v.end : v \in at})),
                  LAMBDA x : Chunk(x, The(VmaContaining(x.current.vmas, cur))))

\* slice_mut: one writable VMA or nothing, counted as an executable write beforehand
SliceMut(w, a, b, val) ==
    LET at == VmaContaining(w.current.vmas, a)
        exec == \E o \in Overlapping(w.current.vmas, a, b) : "x" \in o.prot
    IN  IF at = {} THEN Failed(w, "NotMapped")
        ELSE IF "w" \notin The(at).prot THEN Failed(w, "AccessDenied")
        ELSE IF b > The(at).end THEN Failed(w, "None")
        ELSE Then(EnsureRangeUnique([w EXCEPT !.current.gen = IF exec THEN NextGeneration(@) ELSE @], a, b),
                  LAMBDA x : Store(x, The(VmaContaining(x.current.vmas, a)), a, b, val))

\* patch_code_fixed and patch_code: bytes are written whatever the protection
PatchCode(w, p) ==
    LET Write(x, v) == [Store(x, v, p, p + 1, [q \in Pages |-> Patched]) EXCEPT
                          !.host[x.current.allocs[v.alloc].mem] =
                              Guarded(@, ProtectionRanges(x.current, v.alloc))]
    IN  IF VmaContaining(w.current.vmas, p) = {} THEN Failed(w, "NotMapped")
        ELSE Then(EnsureRangeUnique(w, p, p + 1),
                  LAMBDA x : Write(x, The(VmaContaining(x.current.vmas, p))))

-----------------------------------------------------------------------------
(* Cloning a memory, and selecting the memory of a process.                *)

\* Mutant: writable memory is shared too
ShareableAll(sp, id) == ~sp.fixed

\* allocation_is_readonly_shareable
Shareable(sp, id) ==
    ~sp.fixed /\ \A v \in sp.vmas : v.alloc = id => "w" \notin v.prot

\* try_clone_runtime_with_allocator: the allocations of a clone of sp, in `clone`.
\* A flexible clone shares what is read-only; the source is opened while it is copied.
CloneAllocations(w, sp, atGuest) ==
    ForEach([allocs |-> << >>] @@ w, Ascending(DOMAIN sp.allocs), LAMBDA x, id :
        LET a == sp.allocs[id]
            ranges == ProtectionRanges(sp, id)
        IN  IF ~atGuest /\ Shareable(sp, id) THEN [x EXCEPT !.allocs = @ @@ (id :> a)]
            ELSE Then(AllocateHost([x EXCEPT !.host[a.mem] = Guarded(@, ranges)],
                                   IF atGuest THEN a.start ELSE 0, x.host[a.mem].val),
                      LAMBDA y : [y EXCEPT
                            !.host[y.mem] = ApplyProtections(@, ranges),
                            !.allocs = @ @@ (id :> [a EXCEPT !.mem = y.mem])]))

CloneOf(sp, w, atGuest) == [sp EXCEPT !.allocs = w.allocs, !.fixed = atGuest]

\* empty_clone_layout
EmptyLayout(sp) == [sp EXCEPT !.vmas = {}, !.allocs = << >>, !.next = 1]

\* The clone of pid's memory sp becomes the selected memory; its original is gone already,
\* so that a refusal leaves the empty layout and no copy
Placed(sp, pid, w) ==
    IF Ok(w) THEN [w EXCEPT !.current = CloneOf(sp, w, TRUE)] ELSE Spoil(w, pid)

\* materialize_selected_memory_at_guest_addresses: a flexible copy is taken, the
\* original dropped, and the copy cloned to the guest's addresses
MaterializeSelected(w) ==
    LET Place(x, copy) ==
            Placed(copy, w.selected,
                   CloneAllocations([x EXCEPT !.current = EmptyLayout(copy)], copy, TRUE))
        Take(x) == Place(x, CloneOf(w.current, x, FALSE))
    IN  Collect(Then(CloneAllocations(w, w.current, FALSE), Take))

\* select_native_memory_for_process
SelectNative(w, pid) ==
    LET old == w.selected
        target == w.stored[pid]
        Back(x, copy) ==
            IF Ok(x) THEN Failed([x EXCEPT !.current = CloneOf(copy, x, TRUE)], "host")
            ELSE Spoil(Collect([x EXCEPT !.stored[old] = NoMemory]), old)
        Place(x, copy) ==
            IF Ok(x)
            THEN Collect([x EXCEPT !.current = CloneOf(target, x, TRUE),
                                   !.stored[pid] = NoMemory, !.selected = pid])
            ELSE Back(CloneAllocations([Collect(x) EXCEPT !.err = "ok"], copy, TRUE), copy)
        Switch(x, copy) ==
            Place(CloneAllocations(
                      Collect([x EXCEPT !.current = EmptyLayout(@), !.stored[old] = copy]),
                      target, TRUE), copy)
        Take(x) == IF Ok(x) THEN Switch(x, CloneOf(w.current, x, FALSE)) ELSE Collect(x)
    IN  Take(CloneAllocations(w, w.current, FALSE))

\* select_memory_for_process (children waiting for an exec are ProcessContext's; a
\* selected process that has exited is a zombie, so its memory is kept as any other)
SelectMemory(w, pid) ==
    IF pid = w.selected
    THEN IF native /\ ~w.current.fixed THEN MaterializeSelected(w) ELSE w
    ELSE IF w.stored[pid] = NoMemory THEN Failed(w, "ESRCH")
    ELSE IF native THEN SelectNative(w, pid)
    ELSE [w EXCEPT !.current = w.stored[pid], !.selected = pid,
                   !.stored = [@ EXCEPT ![pid] = NoMemory, ![w.selected] = w.current]]

-----------------------------------------------------------------------------
(* What the guest sees.                                                    *)

Unmapped == [val |-> 0 - 1, prot |-> {"unmapped"}, kind |-> "none"]

\* copy_guest and guest_slice: what a page of a memory holds
ViewOf(sp, h) ==
    [p \in Pages |->
        LET at == VmaContaining(sp.vmas, p)
            v == CHOOSE v \in at : TRUE
        IN  IF at = {} \/ v.alloc \notin DOMAIN sp.allocs THEN Unmapped
            ELSE [val |-> h[sp.allocs[v.alloc].mem].val[v.off + (p - v.start)], prot |-> v.prot,
                  kind |-> v.kind]]

\* The memory of every process, as its reads see it, unless it was spoiled
Spoiled == <<"spoiled">>
GuestView(w) ==
    [pid \in Pids |-> IF pid \notin w.lives THEN << >>
                      ELSE IF pid \in w.spoiled THEN Spoiled
                      ELSE ViewOf(IF pid = w.selected THEN w.current ELSE w.stored[pid], w.host)]

-----------------------------------------------------------------------------
(* Actions.                                                                *)

\* memory_for_process
MemoryOf(pid) == IF pid = selected THEN current ELSE stored[pid]

\* The image of the initial process: one page of code below the heap
ImageVma == [start |-> BrkBase - 1, end |-> BrkBase, prot |-> {"r", "x"}, kind |-> "anonymous",
             alloc |-> 1, off |-> BrkBase - 1 - AlignDown(BrkBase - 1, Granularity)]

\* from_image and insert_loaded_mapping
ImageWorld ==
    [lives |-> {Initial}, stored |-> [p \in Pids |-> NoMemory], selected |-> Initial,
     current |-> [vmas |-> {ImageVma}, next |-> 2, brk |-> 2 * BrkBase, fixed |-> FALSE, gen |-> 0,
                  allocs |-> <<[start |-> ImageVma.start - ImageVma.off, mem |-> 1]>>],
     host |-> <<[at |-> 0,
                 val |-> [Uniform(Granularity, Zero) EXCEPT ![ImageVma.off] = Image],
                 prot |-> [Uniform(Granularity, "rw") EXCEPT ![ImageVma.off] = "xr"]]>>,
     spoiled |-> {}, refused |-> {}, asked |-> 0, mem |-> 0, at |-> <<0, 0>>, err |-> "ok"]

\* A refusal that is never reached is not one: the behaviour is the one without it.
Refusals ==
    {r \in SUBSET (1 .. MaxAsked) : failures + Cardinality(r) <= scenario.refusals}

Commit(w) ==
    /\ w.refused \subseteq 1 .. w.asked
    /\ w.current.next <= MaxAllocations
    /\ lives' = w.lives
    /\ stored' = w.stored
    /\ current' = w.current
    /\ selected' = w.selected
    /\ host' = w.host
    /\ spoiled' = w.spoiled
    /\ failures' = failures + Cardinality(w.refused)
    /\ calls' = calls + 1
    /\ outcome' = w.err
    /\ view' = GuestView(w)
    /\ UNCHANGED <<scenario, native>>

\* A process makes a call, unless the runtime has panicked
MayCall(name, pid) ==
    /\ name \in scenario.calls
    /\ calls < scenario.max
    /\ pid \in lives
    /\ outcome # "panic"

\* A memory system call: select the memory of the caller, then work on it
Call(name, pid, op(_)) ==
    /\ MayCall(name, pid)
    /\ \E r \in Refusals :
         Commit(Collect(Then(SelectMemory(World(r), pid), op)))

SysMmap(pid) ==
    \E how \in {"hint", "fixed", "noreplace"}, page \in scenario.starts \cup {0},
       len \in scenario.lengths, prot \in scenario.prots :
        /\ (how = "hint") => page = 0
        /\ (how # "hint") => page # 0
        /\ Call("mmap", pid, LAMBDA w : Mmap(w, how, page, len, prot))

\* mmap of a file and populate_file_backed_mmap: an anonymous mapping first, whose
\* pages then take what the file has of them (bytes pages; -1 is a file that cannot
\* be read).  The mapping stays when that fails.
PopulateFile(w, len, prot, bytes) ==
    LET start == w.at[1]
        Close(x, failed) ==
            Then(Mprotect([x EXCEPT !.err = "ok"], start, start + len, prot),
                 LAMBDA y : IF failed THEN Failed(y, "unpopulated") ELSE y)
        Fill(x) == Close(x, ~Ok(x))
    IN  IF bytes < 0 THEN Failed(w, "unpopulated")
        ELSE Then(Mprotect(w, start, start + len, RW),
                  LAMBDA x : Fill(WriteFrom(x, start, start + bytes,
                                            [p \in Pages |-> Image], FALSE)))

SysMmapFile(pid) ==
    \E len \in scenario.lengths, prot \in scenario.prots, bytes \in {-1, 1} :
        Call("mmap_file", pid, LAMBDA w :
            Then(Mmap(w, "hint", 0, len, prot), LAMBDA x : PopulateFile(x, len, prot, bytes)))

SysMunmap(pid) ==
    \E page \in scenario.starts, len \in scenario.lengths :
        page + len <= End /\ Call("munmap", pid, LAMBDA w : UnmapRange(w, page, page + len))

SysMprotect(pid) ==
    \E page \in scenario.starts, len \in scenario.lengths, prot \in scenario.prots :
        /\ page + len <= End
        /\ Call("mprotect", pid, LAMBDA w : Mprotect(w, page, page + len, prot))

SysBrk(pid) ==
    \E brk \in scenario.breaks :
        Call("brk", pid, LAMBDA w : SetBrk(w, brk))

WriteGuest(pid) ==
    \E page \in scenario.starts, len \in scenario.lengths :
        /\ page + len <= End
        /\ Call("write", pid,
                LAMBDA w : WriteFrom(w, page, page + len, [p \in Pages |-> Written], FALSE))

\* copy_guest: the pages of a range must be mapped and readable, and the VMAs must
\* reference live allocations, otherwise the runtime panics
CopyGuest(w, a, b) ==
    LET read == UNION {VmaContaining(w.current.vmas, p) : p \in a .. b - 1}
    IN  IF \E v \in read : "r" \in v.prot /\ v.alloc \notin DOMAIN w.current.allocs
        THEN Failed(w, "panic")
        ELSE IF \A p \in a .. b - 1 : \E v \in VmaContaining(w.current.vmas, p) : "r" \in v.prot
        THEN w ELSE Failed(w, "NotReadable")

\* intrinsic_memmove, of memcpy too: all is read before anything is written
Memmove(pid) ==
    \E from \in scenario.starts \cup {p + 1 : p \in scenario.starts}, to \in scenario.starts,
       len \in scenario.lengths :
        /\ from # to /\ from + len <= End /\ to + len <= End
        /\ Call("memmove", pid, LAMBDA w :
               Then(CopyGuest(w, from, from + len), LAMBDA x :
                    WriteFrom(x, to, to + len,
                              [p \in Pages |-> IF to <= p /\ p < to + len
                                               THEN ViewOf(x.current, x.host)[from + (p - to)].val
                                               ELSE Zero], FALSE)))

BorrowMut(pid) ==
    \E page \in scenario.starts, len \in scenario.lengths :
        /\ page + len <= End
        /\ Call("slice", pid, LAMBDA w : SliceMut(w, page, page + len, [p \in Pages |-> Written]))

Patch(pid) ==
    \E page \in scenario.starts :
        Call("patch", pid, LAMBDA w : PatchCode(w, page))

\* fork: the memory of a child that does not exist yet is a flexible clone
ForkMemory(w, child) ==
    Then(CloneAllocations(w, w.current, FALSE),
         LAMBDA x : [x EXCEPT !.stored[child] = CloneOf(w.current, x, FALSE),
                              !.lives = @ \cup {child},
                              !.spoiled = IF x.selected \in @ THEN @ \cup {child} ELSE @ \ {child}])

Fork(pid) ==
    \E child \in Pids \ ({Initial} \cup lives) :
        Call("fork", pid, LAMBDA w : ForkMemory(w, child))

\* drop_process_memory and restore_initial_memory_after_selected_drop: when the host
\* refuses the addresses of the initial memory, the empty one stays selected
DropProcessMemory(w, pid) ==
    LET first == w.stored[Initial]
        Selected(x) == IF Ok(x) THEN [x EXCEPT !.selected = Initial] ELSE x
        Restored(x) == Collect(Selected([x EXCEPT !.stored[Initial] = NoMemory]))
    IN  IF pid # w.selected THEN Collect([w EXCEPT !.stored[pid] = NoMemory])
        ELSE IF first = NoMemory THEN Failed(w, "ESRCH")
        ELSE IF ~native THEN Restored([w EXCEPT !.current = first])
        ELSE Restored(Placed(first, Initial,
                CloneAllocations(Collect([w EXCEPT !.current = EmptyLayout(@)]), first, TRUE)))

Exit(pid) ==
    /\ MayCall("exit", pid)
    /\ pid # Initial
    /\ \E r \in Refusals :
         Commit(DropProcessMemory([World(r) EXCEPT !.lives = @ \ {pid}], pid))

\* The calls of the initial process before the behaviour starts
CallBefore(w, c) ==
    CASE c.call = "mmap" -> Mmap(w, "fixed", c.page, c.len, c.prot)
      [] c.call = "mprotect" -> Mprotect(w, c.page, c.page + c.len, c.prot)
      [] c.call = "write" -> WriteFrom(w, c.page, c.page + c.len, [p \in Pages |-> Written], FALSE)
      [] c.call = "fork" -> ForkMemory(w, c.page)

Init ==
    /\ scenario \in Scenarios
    /\ native \in scenario.native
    /\ LET w == Collect(FoldLeft(CallBefore, ImageWorld, scenario.before))
       IN  /\ lives = w.lives
           /\ stored = w.stored
           /\ current = w.current
           /\ selected = w.selected
           /\ host = w.host
           /\ spoiled = w.spoiled
           /\ view = GuestView(w)
    /\ failures = 0
    /\ calls = 0
    /\ outcome = "ok"

Next ==
    \E pid \in Pids :
        \/ SysMmap(pid)
        \/ SysMmapFile(pid)
        \/ SysMunmap(pid)
        \/ SysMprotect(pid)
        \/ SysBrk(pid)
        \/ WriteGuest(pid)
        \/ Memmove(pid)
        \/ BorrowMut(pid)
        \/ Patch(pid)
        \/ Fork(pid)
        \/ Exit(pid)

Spec == Init /\ [][Next]_vars

-----------------------------------------------------------------------------
(* Properties.                                                             *)

\* The processes whose memory is as their guest made it
Whole == lives \ spoiled

\* The type of the two maps: every VMA lies in a live allocation, as the code's
\* expect("VMA references live allocation") takes for granted.
TypeOK ==
    \A pid \in Whole :
        LET sp == MemoryOf(pid)
        IN  /\ \A v \in sp.vmas :
                 /\ v.alloc \in DOMAIN sp.allocs
                 /\ v.off + (v.end - v.start) <= Size(host[sp.allocs[v.alloc].mem])
                 /\ 1 <= v.start /\ v.start < v.end /\ v.end <= End
            /\ \A id \in DOMAIN sp.allocs : sp.allocs[id].mem \in DOMAIN host

\* No two VMAs of a memory overlap, and no two of them share a host page.
VmasDisjoint ==
    \A pid \in Whole : \A v, u \in MemoryOf(pid).vmas : v # u =>
        /\ v.end <= u.start \/ u.end <= v.start
        /\ (v.alloc = u.alloc) =>
             \/ v.off + (v.end - v.start) <= u.off
             \/ u.off + (u.end - u.start) <= v.off

\* Host memory a guest can write is referenced by one memory only: a page that two
\* processes share is read-only in both (allocation_is_readonly_shareable,
\* ensure_allocation_unique, detach_shared_vma).
SharedIsReadOnly ==
    \A pid \in lives : MemoryOf(pid) # NoMemory =>
        \A v \in MemoryOf(pid).vmas :
            "w" \in v.prot /\ v.alloc \in DOMAIN MemoryOf(pid).allocs =>
                LET w == World({}) IN StrongCount(w, MemoryOf(pid).allocs[v.alloc].mem) = 1

\* Memory that native code runs on carries, page by page, the protection of its VMA:
\* every opening of an allocation is undone (AllocationProtectionGuard).
HostProtectionMatches ==
    current.fixed /\ selected \in Whole =>
        \A v \in current.vmas : \A i \in 0 .. v.end - v.start - 1 :
            host[current.allocs[v.alloc].mem].prot[v.off + i] = ToHost(v.prot)

\* After every call the maps of every process are what the code's own lookups take for
\* granted: the four statements above together.  Excepted by name are the spoiled
\* memories (Spoil): a break that grew over a heap in pieces leaves VMAs that overlap
\* (heap_mapped_end looks at the first piece), and a refused restore VMAs without an
\* allocation.  Even these share no page that a guest can write.
MemoryWellFormed == TypeOK /\ VmasDisjoint /\ SharedIsReadOnly /\ HostProtectionMatches

\* Every process has a flat memory of its own: a call changes the memory of its
\* caller as the contract says, and no other; splitting, sharing, detaching and
\* moving host memory, and switching between processes, change nothing that a read
\* sees.  The contract promises nothing of a memory that was spoiled (Spoil), and
\* everything of the memories of the other processes.
Contract == INSTANCE GuestMemoryContract WITH
    mem <- view, Protections <- UNION {s.prots : s \in Scenarios} \cup {RW}, Zero <- Zero, Image <- Image,
    Written <- Written, Patched <- Patched, Spoiled <- Spoiled
\* The memory manager implements flat memories.
FlatMemory == Contract!Spec

\* A call that fails for want of memory or of a free address leaves every page of
\* every process as it was: replaced allocations are restored, the memory a process
\* was switched from is placed again (restore_saved_allocations,
\* select_native_memory_for_process).  Excepted are a memory that the call spoiled because
\* the host refused it a second time, and MAP_FIXED, which has unmapped its range
\* before it fails ("replaced").
FailedCallKeepsMemory ==
    outcome' \in {"host", "OutOfMemory", "AddressInUse", "InvalidAddress", "ESRCH"} =>
        \A pid \in lives' \ spoiled' : view'[pid] = view[pid]

\* pid's guest wrote to a page that is executable before and after the step
WroteExecutable(pid) ==
    /\ pid \in Whole /\ pid \in Whole'
    /\ \E p \in Pages : /\ {"w", "x"} \subseteq view[pid][p].prot
                        /\ view'[pid][p].prot = view[pid][p].prot
                        /\ view[pid][p].val # Written /\ view'[pid][p].val = Written

\* A guest write that completes and reached an executable page moves
\* executable_write_generation, which the native patch cache compares before it
\* trusts its scan (patch_cache.rs).  A write that fails half way is excepted: it
\* returns before it counts (lib.rs:1616).
CompletedWriteSeen ==
    \A pid \in Pids : outcome' = "ok" /\ WroteExecutable(pid) => MemoryOf(pid)'.gen # MemoryOf(pid).gen

\* What a call reports is what it did: it keeps both of the promises above.
CallsReportTheirChanges == [][FailedCallKeepsMemory /\ CompletedWriteSeen]_vars
=============================================================================
