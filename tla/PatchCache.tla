----------------------------- MODULE PatchCache -----------------------------
(***************************************************************************)
(* Native patching: guest code runs on the host processor, so before every *)
(* native entry the runtime rewrites, in the guest's own memory, what the  *)
(* host must not execute: a syscall becomes an int3, a load through the FS *)
(* segment becomes an absolute load for the FS base of the entering task,  *)
(* every other FS form is trapped.  Per process it caches which ranges it  *)
(* scanned and what it rewrote there; what a scan found is kept by the     *)
(* content of the code, in memory and on disk, for other processes and     *)
(* later runs.  One page holds one instruction of interest.                *)
(*                                                                         *)
(* code and touched are history variables: what the guest put at each page *)
(* and how that page was treated since.  The build is Windows on x86-64.   *)
(***************************************************************************)
EXTENDS Integers, Sequences, FiniteSets, FiniteSetsExt, Functions, TLC

CONSTANTS Procs,             \* process ids; the first execution is Initial's
          Initial,
          PageCount,
          Bases,             \* FS bases of tasks; 0 is "not set"
          AddressLimit,      \* i32::MAX: absolute addresses a rewrite can hold
          MaterializeLimit,  \* FS_RELATIVE_PATCH_MATERIALIZE_LIMIT
          Images,            \* code of executables: sequences of instructions
          ImageBases,        \* where an executable may be loaded
          Mappings,          \* what mmap may map: [ins, prot]
          Stores,            \* instructions a guest may store
          Cuts,              \* lengths at which a crash may cut a file
          MaxChanges,        \* bound on what guests do and on crashes
          MaxEntries         \* bound on native entries

VARIABLES mem,         \* process -> page -> instruction in memory
          code,        \* process -> page -> instruction the guest put there
          vmas,        \* process -> set of [start, end, prot]
          generation,  \* process -> executable_write_generation
          caches,      \* process -> NativePatchCache
          images,      \* process -> image key and its ranges
          intrinsics,  \* process -> pages with a libc intrinsic patch
          known,       \* image_patch_metadata: key -> [base, metadata]
          disk,        \* the persistent cache: key -> file
          touched,     \* process -> page -> how the page was treated
          entered,     \* the process and FS base now in native code
          stopped,     \* an entry failed: the runtime has given up
          changes, entries

vars == <<mem, code, vmas, generation, caches, images, intrinsics, known, disk,
          touched, entered, stopped, changes, entries>>

Pages == 1..PageCount
Ins(op, arg) == [op |-> op, arg |-> arg]
Zero == Ins("plain", 0)
Unmapped == Ins("unmapped", 0)
EmptyMap == [a \in {} |-> Zero]

Protections == {"rx", "rwx", "rw"}
Executable(vma) == vma.prot # "rw"
Writable(vma) == vma.prot # "rx"

PagesOf(range) == range.start..(range.end - 1)
RangeOf(vma) == [start |-> vma.start, end |-> vma.end]
ExecutableRanges(vs) == {RangeOf(v) : v \in {w \in vs : Executable(w)}}
PagesIn(ranges) == UNION {PagesOf(r) : r \in ranges}
MappedPages(vs) == PagesIn(vs)
ExecutablePages(vs) == PagesIn(ExecutableRanges(vs))

----------------------------------------------------------------------------
(* Instructions as the scanner sees them.                                  *)

fs_relative_replacement(original, base) ==
    IF base = 0 \/ base + original.arg \notin 0..AddressLimit
    THEN original
    ELSE Ins("abs", base + original.arg)

fs_relative_original_from_replacement(ins, base) == Ins("tls", ins.arg - base)

IsReplacement(ins, base) == base # 0 /\ ins.op = "abs"

\* The first byte becomes 0xcc; the rest of the instruction stays.
Trapped(ins) == Ins("trap", ins.arg)

\* 0xcc 0x90: over a syscall nothing of it is left, over a libc function the
\* bytes after the second one are.
Int3(ins) == Ins("int3", IF ins.op = "syscall" THEN 0 ELSE ins.arg)

\* A load through FS, or what a rewrite for the previous base made of one.
LoadSites(m, pages, previous) ==
    {a \in pages : m[a].op = "tls" \/ IsReplacement(m[a], previous)}

\* Any other instruction with an FS memory operand.
TrapSites(m, pages) == {a \in pages : m[a].op = "fs"}

SyscallSites(m, pages) == {a \in pages : m[a].op = "syscall"}

\* scan_executable_native_patch_range over each range.  The ranges are scanned
\* on the worker pool, or all of them synchronously when the pool refuses or
\* loses a job; their bytes were read before, so the result is the same.
ScanRanges(m, ranges, previous) ==
    [scanned |-> ranges,
     syscalls |-> SyscallSites(m, PagesIn(ranges)),
     fs |-> [a \in LoadSites(m, PagesIn(ranges), previous) |->
                IF m[a].op = "tls" THEN m[a]
                ELSE fs_relative_original_from_replacement(m[a], previous)],
     traps |-> [a \in TrapSites(m, PagesIn(ranges)) |-> m[a]]]

\* Sites that are in memory as the guest wrote them.
Unmaterialized(m, sites) == {a \in sites : m[a].op = "tls"}

----------------------------------------------------------------------------
(* Ranges and caches.                                                      *)

range_is_covered(range, ranges) ==
    \E r \in ranges : range.start >= r.start /\ range.end <= r.end
ranges_overlap(left, right) == left.start < right.end /\ right.start < left.end

DefaultCache == [base |-> 0, scanned |-> {}, generation |-> 0,
                 checked |-> FALSE, eligible |-> TRUE,
                 fs |-> EmptyMap, traps |-> EmptyMap]

invalidate(c) == [c EXCEPT !.scanned = {}, !.eligible = FALSE,
                           !.fs = EmptyMap, !.traps = EmptyMap]

Without(f, pages) == Restrict(f, DOMAIN f \ pages)

\* Clears nothing when no scanned range overlaps.
invalidate_range(c, range) ==
    IF ~\E r \in c.scanned : ranges_overlap(range, r)
    THEN c
    ELSE [c EXCEPT !.eligible = FALSE,
                   !.scanned = {r \in @ : ~ranges_overlap(range, r)},
                   !.fs = Without(@, PagesOf(range)),
                   !.traps = Without(@, PagesOf(range))]

\* What is already cached wins.
merge_metadata(c, md) ==
    [c EXCEPT !.scanned = @ \cup {r \in md.scanned : ~range_is_covered(r, @)},
              !.fs = @ @@ md.fs,
              !.traps = @ @@ md.traps]

metadata_for_ranges(md, ranges) ==
    [scanned |-> {r \in md.scanned : range_is_covered(r, ranges)},
     syscalls |-> md.syscalls \cap PagesIn(ranges),
     fs |-> Restrict(md.fs, DOMAIN md.fs \cap PagesIn(ranges)),
     traps |-> Restrict(md.traps, DOMAIN md.traps \cap PagesIn(ranges))]

Moved(f, by) == [a \in {b + by : b \in DOMAIN f} |-> f[a - by]]

rebase_native_patch_metadata(md, from, to) ==
    [scanned |-> {[start |-> r.start + to - from, end |-> r.end + to - from] :
                     r \in md.scanned},
     syscalls |-> {a + to - from : a \in md.syscalls},
     fs |-> Moved(md.fs, to - from),
     traps |-> Moved(md.traps, to - from)]

----------------------------------------------------------------------------
(* The key of code is its extent, protection and content, relative to its  *)
(* base: an executable with one executable segment and the range it is     *)
(* loaded at have the same key.                                            *)

PatchKey(m, range, prot) ==
    [prot |-> prot, content |-> [i \in 1..(range.end - range.start) |->
                                    m[range.start + i - 1]]]

(* Persistent metadata: counts and entries, addresses relative to the base. *)

NoMetadata == [scanned |-> {}, syscalls |-> {}, fs |-> EmptyMap,
               traps |-> EmptyMap]

Word(n) == Ins("word", n)
InOrder(pages) == SelectSeq([i \in 1..PageCount |-> i], LAMBDA a : a \in pages)
Offsets(pages, base) ==
    [i \in 1..Cardinality(pages) |-> Word(InOrder(pages)[i] - base)]
Entries(f) == [i \in 1..Cardinality(DOMAIN f) |-> f[InOrder(DOMAIN f)[i]]]

\* The entries of each list follow their offsets here; the file interleaves
\* them, with the same number of words.
encode_native_patch_metadata(md, base) ==
    <<Word(Cardinality(md.scanned))>>
        \o Offsets({r.start : r \in md.scanned}, base)
        \o Offsets({r.end - 1 : r \in md.scanned}, base)
        \o <<Word(Cardinality(md.syscalls))>> \o Offsets(md.syscalls, base)
        \o <<Word(Cardinality(DOMAIN md.fs))>>
        \o Offsets(DOMAIN md.fs, base) \o Entries(md.fs)
        \o <<Word(Cardinality(DOMAIN md.traps))>>
        \o Offsets(DOMAIN md.traps, base) \o Entries(md.traps)

\* The positions of the four counts in a file, or 0 where it is cut before.
CountAt(words, i) == IF i \in 1..Len(words) THEN words[i].arg ELSE 0
NextCount(words, i, width) == IF i = 0 \/ i > Len(words) THEN 0
                              ELSE i + width * words[i].arg + 1

PageAt(words, i, base) == words[i].arg + base

ListAt(words, i, base) ==
    [a \in {PageAt(words, i + k, base) : k \in 1..CountAt(words, i)} |->
        words[i + CountAt(words, i) +
              (CHOOSE k \in 1..CountAt(words, i) :
                  PageAt(words, i + k, base) = a)]]

Decoded(words, base, s, f, t) ==
    [scanned |-> {[start |-> PageAt(words, 1 + k, base),
                   end |-> PageAt(words, 1 + words[1].arg + k, base) + 1] :
                      k \in 1..words[1].arg},
     syscalls |-> {PageAt(words, s + k, base) : k \in 1..words[s].arg},
     fs |-> ListAt(words, f, base),
     traps |-> ListAt(words, t, base)]

\* BUG: a file that ends after the loads is read as one without traps.
DecodeToleratesCut(words, base, s, f, t) ==
    IF t = 0 \/ t > Len(words) + 1 THEN NoMetadata
    ELSE Decoded(words, base, s, f, t)

\* Every count must be there with all its entries, and nothing after them.
DecodeAt(words, base, s, f, t) ==
    IF t = 0 \/ t > Len(words) \/ NextCount(words, t, 2) # Len(words) + 1
    THEN NoMetadata
    ELSE Decoded(words, base, s, f, t)

DecodeFrom(words, base, s, f) ==
    DecodeAt(words, base, s, f, NextCount(words, f, 2))

decode_native_patch_metadata(words, base) ==
    DecodeFrom(words, base, NextCount(words, 1, 2),
               NextCount(words, NextCount(words, 1, 2), 1))

load_persistent_native_patch_metadata(key, base) ==
    IF key \in DOMAIN disk THEN decode_native_patch_metadata(disk[key], base)
    ELSE NoMetadata

\* What is known of a key, at the base where its code now is; metadata that
\* covers no range is never stored.
cached_native_patch_metadata(key, base) ==
    IF key \in DOMAIN known
    THEN rebase_native_patch_metadata(known[key].metadata, known[key].base, base)
    ELSE load_persistent_native_patch_metadata(key, base)

----------------------------------------------------------------------------
(* ensure_native_patch_cache, as a work record passed from phase to phase:  *)
(* memory and cache so far, what was learnt from disk, the keys that were   *)
(* not known, and whether any load was rewritten.                           *)

should_materialize_fs_relative_patches(f) ==
    Cardinality(DOMAIN f) <= MaterializeLimit

apply_native_patch_metadata(m, base, md) ==
    [a \in DOMAIN m |->
        CASE a \in md.syscalls -> Int3(m[a])
          [] a \in DOMAIN md.traps -> Trapped(m[a])
          [] a \in DOMAIN md.fs /\ should_materialize_fs_relative_patches(md.fs) ->
                fs_relative_replacement(md.fs[a], base)
          [] OTHER -> m[a]]

UseMetadata(w, base, key, range, md) ==
    IF md = NoMetadata
    THEN [w EXCEPT !.missing = @ \cup {[key |-> key, range |-> range]}]
    ELSE [w EXCEPT !.mem = apply_native_patch_metadata(@, base, md),
                   !.cache = merge_metadata(@, md),
                   !.learnt = @ @@ (key :> [base |-> range.start, metadata |-> md]),
                   !.rewritten = @ \/ (DOMAIN md.fs # {} /\
                                       should_materialize_fs_relative_patches(md.fs))]

\* The image's own metadata is used once, before anything was invalidated.
UseImage(w, base, image) ==
    IF w.cache.checked \/ ~w.cache.eligible
    THEN w
    ELSE UseMetadata([w EXCEPT !.cache.checked = TRUE], base, image.key, image.range,
                     cached_native_patch_metadata(image.key, image.range.start))

UseRange(w, base, vma, key) ==
    UseMetadata(w, base, key, RangeOf(vma), cached_native_patch_metadata(key, vma.start))

UseRanges(w, base, vs) ==
    FoldSet(LAMBDA vma, x : UseRange(x, base, vma, PatchKey(x.mem, vma, vma.prot)),
            w, {v \in vs : Executable(v) /\ ~range_is_covered(v, w.cache.scanned)})

Start(m, c, gen) ==
    [mem |-> m, cache |-> IF c.generation # gen THEN invalidate(c) ELSE c,
     learnt |-> [k \in {} |-> 0], missing |-> {}, rewritten |-> FALSE]

Scan(w, vs) ==
    ScanRanges(w.mem, {r \in ExecutableRanges(vs) : ~range_is_covered(r, w.cache.scanned)},
               w.cache.base)

\* BUG: loads already rewritten for another task are left alone.
WorkIsNew(cachedBase, base, cached, unmaterialized, materialized) ==
    IF base # 0 /\ unmaterialized > 0 THEN "New" ELSE "None"

fs_relative_patch_work(cachedBase, base, cached, unmaterialized, materialized) ==
    IF cachedBase # base
    THEN IF base # 0 \/ cached > 0 \/ materialized > 0 THEN "All" ELSE "None"
    ELSE IF base # 0 /\ unmaterialized > 0 THEN "New" ELSE "None"

\* The loads to write and the base to write them for: too many loads all go
\* back to what the guest wrote.
LoadsToWrite(w, s, base, fs, new) ==
    IF ~should_materialize_fs_relative_patches(fs)
    THEN IF w.cache.base # 0 \/ w.rewritten THEN DOMAIN fs ELSE {}
    ELSE CASE fs_relative_patch_work(w.cache.base, base, Cardinality(DOMAIN w.cache.fs),
                    Cardinality(Unmaterialized(w.mem, new)),
                    Cardinality(new \ Unmaterialized(w.mem, new))) = "All" -> DOMAIN fs
           [] fs_relative_patch_work(w.cache.base, base, Cardinality(DOMAIN w.cache.fs),
                    Cardinality(Unmaterialized(w.mem, new)),
                    Cardinality(new \ Unmaterialized(w.mem, new))) = "New" ->
                    Unmaterialized(w.mem, new)
           [] OTHER -> {}

MaterializedBase(base, fs) ==
    IF should_materialize_fs_relative_patches(fs) THEN base ELSE 0

\* Syscalls, then the traps that are new to the cache, then the loads: the
\* last write stays.
PatchedMemory(w, s, base, fs, loads) ==
    [a \in Pages |->
        CASE a \in loads -> fs_relative_replacement(fs[a], MaterializedBase(base, fs))
          [] a \in DOMAIN s.traps \ DOMAIN w.cache.traps -> Trapped(w.mem[a])
          [] a \in s.syscalls -> Int3(w.mem[a])
          [] OTHER -> w.mem[a]]

EnsuredCache(w, s, base, fs, vs, gen) ==
    [w.cache EXCEPT !.fs = fs, !.traps = @ @@ s.traps,
                    !.base = MaterializedBase(base, fs),
                    !.generation = gen,
                    !.scanned = ExecutableRanges(vs)]

\* What the scan found for each key that was not known, where it found a range.
Found(w, s) ==
    {[key |-> x.key, base |-> x.range.start,
      metadata |-> metadata_for_ranges(s, {x.range})] : x \in w.missing}
Stored(w, s) == {x \in Found(w, s) : x.metadata.scanned # {}}
ByKey(stored) ==
    [k \in {x.key : x \in stored} |-> CHOOSE x \in stored : x.key = k]

\* A page that was scanned, is still mapped and is no longer executable when
\* the process enters native code.
Demoted(p) ==
    (PagesIn(caches[p].scanned) \cap MappedPages(vmas[p])) \ ExecutablePages(vmas[p])

NoEntry == [proc |-> Initial, base |-> -1]

EnterWith(p, base, w, s, fs, loads) ==
    /\ mem' = [mem EXCEPT ![p] = IF loads \subseteq MappedPages(vmas[p])
                                 THEN PatchedMemory(w, s, base, fs, loads)
                                 ELSE PatchedMemory(w, s, base, fs, {})]
    /\ IF loads \subseteq MappedPages(vmas[p])
       THEN /\ caches' = [caches EXCEPT ![p] =
                             EnsuredCache(w, s, base, fs, vmas[p], generation[p])]
            /\ known' = ByKey(Stored(w, s)) @@ w.learnt @@ known
            /\ disk' = [k \in {x.key : x \in Stored(w, s)} |->
                           encode_native_patch_metadata(ByKey(Stored(w, s))[k].metadata,
                                                        ByKey(Stored(w, s))[k].base)] @@ disk
            /\ entered' = [proc |-> p, base |-> base]
            /\ UNCHANGED stopped
       ELSE /\ caches' = [caches EXCEPT ![p] = DefaultCache]
            /\ known' = w.learnt @@ known
            /\ entered' = NoEntry
            /\ stopped' = TRUE
            /\ UNCHANGED disk

EnterScanned(p, base, w, s) ==
    EnterWith(p, base, w, s, w.cache.fs @@ s.fs,
              LoadsToWrite(w, s, base, w.cache.fs @@ s.fs,
                           DOMAIN s.fs \ DOMAIN w.cache.fs))

EnterWorked(p, base, w) ==
    EnterScanned(p, base, w, Scan(w, vmas[p]))

\* dispatch_native_guest_task_with_dispatcher up to the native entry: a task
\* of the process with this FS base is about to run there.
Enter(p, base) ==
    /\ ~stopped
    /\ entries < MaxEntries
    /\ ExecutablePages(vmas[p]) # {}
    /\ EnterWorked(p, base,
           UseRanges(UseImage(Start(mem[p], caches[p], generation[p]), base, images[p]),
                     base, vmas[p]))
    /\ touched' = [touched EXCEPT ![p] = [a \in Pages |->
                      @[a] \cup (IF a \in Demoted(p) THEN {"demoted"} ELSE {})
                           \cup (IF a \in ExecutablePages(vmas[p]) THEN {"ran"} ELSE {})]]
    /\ entries' = entries + 1
    /\ UNCHANGED <<code, vmas, generation, images, intrinsics, changes>>

----------------------------------------------------------------------------
(* What a guest does to its memory.                                        *)

Cut(vs, a) ==
    {v \in vs : a \notin PagesOf(v)}
        \cup {[start |-> v.start, end |-> a, prot |-> v.prot] :
                 v \in {w \in vs : a \in PagesOf(w) /\ w.start < a}}
        \cup {[start |-> a + 1, end |-> v.end, prot |-> v.prot] :
                 v \in {w \in vs : a \in PagesOf(w) /\ w.end > a + 1}}
Page(a) == [start |-> a, end |-> a + 1]
VmaOf(p, a) == CHOOSE v \in vmas[p] : a \in PagesOf(v)

\* The guest acts from native code; a system call leaves it.
Change(p) ==
    /\ entered # NoEntry
    /\ entered.proc = p
    /\ changes < MaxChanges
    /\ changes' = changes + 1
    /\ entered' = NoEntry
    /\ UNCHANGED <<known, disk, stopped, entries>>

\* A libc intrinsic stays registered when its page gets other code.
LibcGone(p, a) == IF a \in intrinsics[p] THEN {"libc"} ELSE {}

\* register_file_backed_libc_intrinsic_patches: the functions it knows in an
\* executable page of a file.
IsIntrinsic(ins, prot) == ins.op = "libc" /\ prot # "rw"

\* dispatch_memory drops what is cached of a range that may now be executed.
Invalidated(c, a, prot) == IF prot # "rw" THEN invalidate_range(c, Page(a)) ELSE c

\* mmap of a page of a file, or of zeroes, at a fixed address.  Executable
\* file pages get their libc intrinsics patched before the range is
\* invalidated.
Mmap(p, a, ins, prot) ==
    /\ Change(p)
    /\ vmas' = [vmas EXCEPT ![p] = Cut(@, a) \cup {Page(a) @@ [prot |-> prot]}]
    /\ code' = [code EXCEPT ![p][a] = ins]
    /\ mem' = [mem EXCEPT ![p][a] = IF IsIntrinsic(ins, prot) THEN Int3(ins) ELSE ins]
    /\ intrinsics' = [intrinsics EXCEPT ![p] =
                         @ \cup (IF IsIntrinsic(ins, prot) THEN {a} ELSE {})]
    /\ caches' = [caches EXCEPT ![p] = Invalidated(@, a, prot)]
    /\ touched' = [touched EXCEPT ![p][a] =
                      (@ \ {"ran", "again"}) \cup (IF ins.op # "libc" THEN LibcGone(p, a)
                                                   ELSE {})]
    /\ UNCHANGED <<generation, images>>

MunmapInvalidates(c, a) == invalidate_range(c, Page(a))

Munmap(p, a) ==
    /\ Change(p)
    /\ a \in MappedPages(vmas[p])
    /\ vmas' = [vmas EXCEPT ![p] = Cut(@, a)]
    /\ code' = [code EXCEPT ![p][a] = Unmapped]
    /\ mem' = [mem EXCEPT ![p][a] = Unmapped]
    /\ caches' = [caches EXCEPT ![p] = MunmapInvalidates(@, a)]
    /\ touched' = [touched EXCEPT ![p][a] = (@ \ {"ran", "again"}) \cup LibcGone(p, a)]
    /\ UNCHANGED <<generation, images, intrinsics>>

Mprotect(p, a, prot) ==
    /\ Change(p)
    /\ a \in MappedPages(vmas[p])
    /\ vmas' = [vmas EXCEPT ![p] = Cut(@, a) \cup {Page(a) @@ [prot |-> prot]}]
    /\ caches' = [caches EXCEPT ![p] = Invalidated(@, a, prot)]
    /\ touched' = [touched EXCEPT ![p][a] =
                      @ \cup (IF prot # "rw" THEN {"again"} ELSE {})]
    /\ UNCHANGED <<mem, code, generation, images, intrinsics>>

\* A write through GuestMemory into an executable page is counted.
record_executable_write(p, a) ==
    generation' = [generation EXCEPT ![p] =
                      IF Executable(VmaOf(p, a)) THEN @ + 1 ELSE @]

\* A system call (read, say) writes an instruction into guest memory.
KernelWrite(p, a, ins) ==
    /\ Change(p)
    /\ a \in MappedPages(vmas[p])
    /\ Writable(VmaOf(p, a))
    /\ code' = [code EXCEPT ![p][a] = ins]
    /\ mem' = [mem EXCEPT ![p][a] = ins]
    /\ record_executable_write(p, a)
    /\ touched' = [touched EXCEPT ![p] = [b \in Pages |->
                      IF Executable(VmaOf(p, a)) THEN
                          @[b] \cup {"again"} \cup (IF b = a THEN LibcGone(p, a) ELSE {})
                      ELSE @[b] \cup (IF b = a THEN LibcGone(p, a) ELSE {})]]
    /\ UNCHANGED <<vmas, caches, images, intrinsics>>

\* Native code writes an instruction itself; the runtime does not see it.
NativeWrite(p, a, ins) ==
    /\ Change(p)
    /\ a \in MappedPages(vmas[p])
    /\ Writable(VmaOf(p, a))
    /\ code' = [code EXCEPT ![p][a] = ins]
    /\ mem' = [mem EXCEPT ![p][a] = ins]
    /\ touched' = [touched EXCEPT ![p][a] = @ \cup LibcGone(p, a) \cup
                      (IF Executable(VmaOf(p, a)) THEN {"unseen"} ELSE {})]
    /\ UNCHANGED <<vmas, generation, caches, images, intrinsics>>

----------------------------------------------------------------------------
(* Processes.                                                              *)

LoadedCode(image, base) ==
    [a \in Pages |-> IF a \in base..(base + Len(image) - 1) THEN image[a - base + 1]
                     ELSE Unmapped]
ImageRange(image, base) == [start |-> base, end |-> base + Len(image)]

LoadedVma(image, base) == ImageRange(image, base) @@ [prot |-> "rx"]
LoadedImage(image, base) ==
    [key |-> PatchKey(LoadedCode(image, base), ImageRange(image, base), "rx"),
     range |-> ImageRange(image, base)]
Untouched == [a \in Pages |-> {}]
NoKey == [prot |-> "rx", content |-> <<>>]
NoImage == [key |-> NoKey, range |-> [start |-> 1, end |-> 1]]

\* execve: replace_memory_from_image, then the cache and the intrinsics of the
\* process are dropped.
Exec(p, image, base) ==
    /\ Change(p)
    /\ code' = [code EXCEPT ![p] = LoadedCode(image, base)]
    /\ mem' = [mem EXCEPT ![p] = LoadedCode(image, base)]
    /\ vmas' = [vmas EXCEPT ![p] = {LoadedVma(image, base)}]
    /\ generation' = [generation EXCEPT ![p] = 0]
    /\ images' = [images EXCEPT ![p] = LoadedImage(image, base)]
    /\ caches' = [caches EXCEPT ![p] = DefaultCache]
    /\ intrinsics' = [intrinsics EXCEPT ![p] = {}]
    /\ touched' = [touched EXCEPT ![p] = Untouched]

\* materialize_pending_fork_exec_child: a clone of the parent's memory with the
\* parent's cache, image key and intrinsics.
Fork(p, child) ==
    /\ Change(p)
    /\ vmas[child] = {}
    /\ mem' = [mem EXCEPT ![child] = mem[p]]
    /\ code' = [code EXCEPT ![child] = code[p]]
    /\ vmas' = [vmas EXCEPT ![child] = vmas[p]]
    /\ generation' = [generation EXCEPT ![child] = generation[p]]
    /\ caches' = [caches EXCEPT ![child] = caches[p]]
    /\ images' = [images EXCEPT ![child] = images[p]]
    /\ intrinsics' = [intrinsics EXCEPT ![child] = intrinsics[p]]
    /\ touched' = [touched EXCEPT ![child] = touched[p]]

\* drop_native_patch_cache_for_process, with the memory of the process.
Exit(p) ==
    /\ Change(p)
    /\ code' = [code EXCEPT ![p] = LoadedCode(<<>>, 1)]
    /\ mem' = [mem EXCEPT ![p] = LoadedCode(<<>>, 1)]
    /\ vmas' = [vmas EXCEPT ![p] = {}]
    /\ generation' = [generation EXCEPT ![p] = 0]
    /\ images' = [images EXCEPT ![p] = NoImage]
    /\ caches' = [caches EXCEPT ![p] = DefaultCache]
    /\ intrinsics' = [intrinsics EXCEPT ![p] = {}]
    /\ touched' = [touched EXCEPT ![p] = Untouched]

(* The runtime's own life: it starts with one program, and what it learnt    *)
(* outlives it only on disk, where a file may be found cut short.            *)

OnlyInitial(x, y) == [p \in Procs |-> IF p = Initial THEN x ELSE y]

Init ==
    /\ \E image \in Images :
          /\ mem = OnlyInitial(LoadedCode(image, 1), LoadedCode(<<>>, 1))
          /\ vmas = OnlyInitial({LoadedVma(image, 1)}, {})
          /\ images = OnlyInitial(LoadedImage(image, 1), NoImage)
    /\ code = mem
    /\ generation = [p \in Procs |-> 0]
    /\ caches = [p \in Procs |-> DefaultCache]
    /\ intrinsics = [p \in Procs |-> {}]
    /\ known = [k \in {} |-> 0]
    /\ disk = [k \in {} |-> <<>>]
    /\ touched = [p \in Procs |-> Untouched]
    /\ entered = NoEntry
    /\ stopped = FALSE
    /\ changes = 0
    /\ entries = 0

\* The host crashes and the runtime is started again, with this or another
\* program.  A file whose rename was done may be found cut.
Restart(image, base, torn) ==
    /\ changes < MaxChanges
    /\ changes' = changes + 1
    /\ mem' = OnlyInitial(LoadedCode(image, base), LoadedCode(<<>>, 1))
    /\ vmas' = OnlyInitial({LoadedVma(image, base)}, {})
    /\ images' = OnlyInitial(LoadedImage(image, base), NoImage)
    /\ code' = mem'
    /\ generation' = [p \in Procs |-> 0]
    /\ caches' = [p \in Procs |-> DefaultCache]
    /\ intrinsics' = [p \in Procs |-> {}]
    /\ known' = [k \in {} |-> 0]
    /\ touched' = [p \in Procs |-> Untouched]
    /\ entered' = NoEntry
    /\ stopped' = FALSE
    /\ disk' = [k \in DOMAIN disk |->
                  IF torn.key = k /\ torn.length < Len(disk[k])
                  THEN SubSeq(disk[k], 1, torn.length) ELSE disk[k]]
    /\ UNCHANGED entries

Next ==
    \/ \E p \in Procs, base \in Bases : Enter(p, base)
    \/ \E p \in Procs, a \in Pages, m \in Mappings : Mmap(p, a, m.ins, m.prot)
    \/ \E p \in Procs, a \in Pages : Munmap(p, a)
    \/ \E p \in Procs, a \in Pages, prot \in Protections : Mprotect(p, a, prot)
    \/ \E p \in Procs, a \in Pages, ins \in Stores : KernelWrite(p, a, ins)
    \/ \E p \in Procs, a \in Pages, ins \in Stores : NativeWrite(p, a, ins)
    \/ \E p \in Procs, image \in Images, base \in ImageBases : Exec(p, image, base)
    \/ \E p, child \in Procs : Fork(p, child)
    \/ \E p \in Procs : Exit(p)
    \/ \E image \in Images, base \in ImageBases :
          \E torn \in [key : DOMAIN disk \cup {NoKey}, length : Cuts] :
             Restart(image, base, torn)

Spec == Init /\ [][Next]_vars

----------------------------------------------------------------------------
(* Properties.                                                             *)

\* Every variable keeps its shape; a page has an instruction exactly when it
\* is mapped.
PatchTypeOK ==
    /\ \A p \in Procs : \A a \in Pages :
          (mem[p][a].op = "unmapped") <=> (a \notin MappedPages(vmas[p]))
    /\ \A p \in Procs : \A v, w \in vmas[p] :
          v # w => PagesOf(v) \cap PagesOf(w) = {}
    /\ entered.proc \in Procs
    /\ stopped \in BOOLEAN

Runs(a) == a \in ExecutablePages(vmas[entered.proc])
Treated(a, ways) == touched[entered.proc][a] \cap ways # {}

\* Whenever a task enters native code (ensure_native_patch_cache), every load
\* through FS it can reach is one for its own FS base, or still the guest's
\* own instruction, which faults and is emulated: never one for the base of
\* another thread, of the parent or of an earlier run.  Pages demoted to data
\* at an earlier entry and code the guest stored natively are excepted.
TlsLoadsUseTheTasksBase ==
    entered # NoEntry =>
        \A a \in Pages :
            Runs(a) /\ code[entered.proc][a].op = "tls" /\ ~Treated(a, {"demoted", "unseen"}) =>
                mem[entered.proc][a] \in
                    {code[entered.proc][a],
                     fs_relative_replacement(code[entered.proc][a], entered.base)}

\* How an int3 is dispatched: a trap entry, then a libc intrinsic, then a
\* system call.
Handler(p, a) ==
    IF a \in DOMAIN caches[p].traps THEN "fs"
    ELSE IF a \in intrinsics[p] THEN "libc"
    ELSE "syscall"

Interrupts(p, a) == mem[p][a].op \in {"int3", "trap"}

\* Whenever a task enters native code, every system call, trapped FS form and
\* libc intrinsic it can reach is an int3, and the trap that int3 raises is
\* dispatched as the instruction the guest has there.  Excepted are pages
\* demoted or written natively, pages that lost a libc function, and FS forms
\* whose page was granted PROT_EXEC again or written by the kernel.
InterruptsReachTheirHandler ==
    entered # NoEntry =>
        \A a \in Pages :
            /\ Runs(a)
            /\ code[entered.proc][a].op \in {"syscall", "fs", "libc"}
            /\ ~Treated(a, {"demoted", "unseen", "libc"})
            /\ code[entered.proc][a].op = "fs" => ~Treated(a, {"again"})
            => \/ Interrupts(entered.proc, a) /\ Handler(entered.proc, a) = code[entered.proc][a].op
               \/ code[entered.proc][a].op = "libc" /\ ~Interrupts(entered.proc, a)

\* No FS form falls through to the host or to the wrong handler: as above,
\* without the exception for code that is made executable again.
EveryFsSiteIsHandled ==
    entered # NoEntry =>
        \A a \in Pages :
            Runs(a) /\ code[entered.proc][a].op = "fs" /\ ~Treated(a, {"demoted", "unseen"}) =>
                Interrupts(entered.proc, a) /\ Handler(entered.proc, a) = "fs"

\* Patching writes only where the process has had executable code: a page
\* mapped as data since then holds what the guest put there.  Pages that were
\* demoted are excepted: their cached loads are still written.
DataIsNotPatched ==
    \A p \in Procs : \A a \in Pages :
        /\ a \in MappedPages(vmas[p]) \ ExecutablePages(vmas[p])
        /\ touched[p][a] \cap {"ran", "demoted"} = {}
        /\ a \notin intrinsics[p]
        => mem[p][a] = code[p][a]

\* A native entry fails only when a demoted page was unmapped: no other
\* cached patch outlives the mapping it was made in.
EntryFailsOnlyAfterDemotion ==
    stopped => \E p \in Procs : \E a \in Pages : "demoted" \in touched[p][a]

\* A native entry runs the guest's code and nothing else: the statements above
\* on loads, interrupts, data pages and failed entries together.
NativeCodeIsTheGuests ==
    /\ PatchTypeOK
    /\ TlsLoadsUseTheTasksBase /\ InterruptsReachTheirHandler
    /\ DataIsNotPatched /\ EntryFailsOnlyAfterDemotion

\* What is kept for a key, in memory or in a readable file, is what a scan of
\* that code finds: reuse in another process, at another base or in a later
\* run patches the sites a scan would.
Scanned(key) ==
    ScanRanges(LoadedCode(key.content, 1), {ImageRange(key.content, 1)}, 0)

\* No guest's image holds the load from an absolute address that fs-relative
\* patching writes ("abs").  A key whose content has one was taken of code that was
\* already patched, for the fs base of the task that ran then: what a scan of it
\* finds depends on that base, so such keys are left out.
FromTheGuest(key) == \A i \in DOMAIN key.content : key.content[i].op # "abs"

\* The metadata caches of native_patch.rs hold what a scan finds.
MetadataIsWhatAScanFinds ==
    /\ \A key \in DOMAIN known :
          FromTheGuest(key) =>
              rebase_native_patch_metadata(known[key].metadata, known[key].base, 1)
                  = Scanned(key)
    /\ \A key \in DOMAIN disk :
          FromTheGuest(key) =>
              decode_native_patch_metadata(disk[key], 1) \in {Scanned(key), NoMetadata}
=============================================================================
