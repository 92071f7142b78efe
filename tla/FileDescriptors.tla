-------------------------- MODULE FileDescriptors ---------------------------
(***************************************************************************)
(* The file descriptor tables (crates/mcr-vfs/src/fd.rs), the pipes and    *)
(* event counters their entries refer to (node.rs) and the transfers on    *)
(* them (io_helpers.rs).  v.fds[p] is the table of process p; an entry     *)
(* names its inode, its shared open file description and the path it was   *)
(* opened by.  A pipe that has a pair of host handles keeps its bytes with *)
(* the host and counts them with zeros in its own buffer.                  *)
(***************************************************************************)
EXTENDS GuestPaths

CONSTANTS
    Pid,
    FIRST_ALLOC_FD,
    MaxFd,               \* descriptors this instance gives out
    DEFAULT_PIPE_CAPACITY,
    MIN_PIPE_CAPACITY,
    MAX_COUNTER,         \* an event counter's limit; one more is u64::MAX
    NameOrder            \* the names of files, in the order listings have

FIRST_PIPE_INODE_ID == 100
FIRST_EVENTFD_INODE_ID == 200

\* a description's flags; the access mode, the status flags and O_CLOEXEC
CanRead(flags) == "r" \in flags
CanWrite(flags) == "w" \in flags
SETFL_MUTABLE_FLAGS == {"append", "nonblock"}
WithStatusFlags(flags, status) ==
    (flags \ SETFL_MUTABLE_FLAGS) \cup (status \cap SETFL_MUTABLE_FLAGS)

Seekable == {"Regular", "Symlink", "Directory"}
PipeKinds == {"PipeRead", "PipeWrite"}

HasFd(v, p, fd) == fd \in DOMAIN v.fds[p]
FlagsOf(v, e) == v.descs[e.desc].flags
OffsetOf(v, e) == v.descs[e.desc].offset
SetOffset(v, e, n) == [v EXCEPT !.descs[e.desc].offset = n]
OnFd(v, p, fd, F(_)) ==
    IF HasFd(v, p, fd) THEN F(v.fds[p][fd]) ELSE Err(v, "BadFd")
-----------------------------------------------------------------------------
(***************************************************************************)
(* Entries.                                                                *)
(***************************************************************************)
AddEnds(v, e, n) ==
    CASE e.kind = "PipeRead" -> [v EXCEPT !.pipes[e.inode].readers = @ + n]
      [] e.kind = "PipeWrite" -> [v EXCEPT !.pipes[e.inode].writers = @ + n]
      [] OTHER -> v
RegisterEndpoint(v, e) == AddEnds(v, e, 1)
UnregisterEndpoint(v, e) == AddEnds(v, e, -1)

NextFdFrom(v, p, min) ==
    LET free == {fd \in min .. MaxFd : ~HasFd(v, p, fd)}
    IN IF free = {} THEN NoInode ELSE Least(free)

SetCloexec(v, p, fd, cloexec) ==
    IF ~HasFd(v, p, fd) THEN Err(v, "BadFd")
    ELSE Ok([v EXCEPT !.cloexec[p] = IF cloexec THEN @ \cup {fd}
                                     ELSE @ \ {fd}], fd)

Put(v, p, fd, e, cloexec) ==
    SetCloexec(RegisterEndpoint([v EXCEPT !.fds[p] = With(@, fd, e)], e),
               p, fd, cloexec)

FreshDesc(v) == Least(1 .. Cardinality(DOMAIN v.descs) + 1 \ DOMAIN v.descs)
InsertDescribed(v, p, fd, kind, inode, flags, path, d) ==
    Put([v EXCEPT !.descs = With(@, d, [offset |-> 0, dir_cursor |-> 0,
                                        flags |-> flags \ {"cloexec"}])],
        p, fd, [kind |-> kind, inode |-> inode, desc |-> d, path |-> path],
        "cloexec" \in flags)
InsertEntry(v, p, fd, kind, inode, flags, path) ==
    InsertDescribed(v, p, fd, kind, inode, flags, path, FreshDesc(v))

InsertOpen(v, p, kind, inode, flags, path) ==
    InsertEntry(v, p, NextFdFrom(v, p, FIRST_ALLOC_FD), kind, inode, flags,
                {path})

\* descriptors, pipes and counters nobody refers to any more are dropped
Drop(v) ==
    LET entries == UNION {{v.fds[p][fd] : fd \in DOMAIN v.fds[p]} : p \in Pid}
        inodes == {e.inode : e \in entries}
    IN [v EXCEPT !.descs = Restrict(@, {e.desc : e \in entries}),
                 !.pipes = Restrict(@, DOMAIN @ \cap inodes),
                 !.eventfds = Restrict(@, DOMAIN @ \cap inodes)]

CloseEntry(v, p, fd, e) ==
    Ok(Drop(UnregisterEndpoint(
            [v EXCEPT !.fds[p] = Without(@, {fd}), !.cloexec[p] = @ \ {fd}],
            e)),
       e)
FdClose(v, p, fd) == OnFd(v, p, fd, LAMBDA e : CloseEntry(v, p, fd, e))

Dup(v, p, oldfd, min, cloexec) ==
    OnFd(v, p, oldfd, LAMBDA e :
        IF NextFdFrom(v, p, min) = NoInode THEN Err(v, "BadFd")
        ELSE Put(v, p, NextFdFrom(v, p, min), e, cloexec))
Dup2(v, p, oldfd, newfd, cloexec) ==
    OnFd(v, p, oldfd, LAMBDA e :
        IF oldfd = newfd THEN Ok(v, newfd)
        ELSE Put(FdClose(v, p, newfd).v, p, newfd, e, cloexec))

CloseAll(v, p, F) ==
    FoldSet(LAMBDA fd, w : UnregisterEndpoint(w, v.fds[p][fd]), v, F)
CloseOnExec(v, p) ==
    Drop([CloseAll(v, p, v.cloexec[p]) EXCEPT
            !.fds[p] = Without(@, v.cloexec[p]), !.cloexec[p] = {}])
CloneTableUnregistered(v, p, q) ==
    [v EXCEPT !.fds[q] = v.fds[p], !.cloexec[q] = v.cloexec[p]]
CloneTable(v, p, q) ==
    [FoldSet(LAMBDA fd, w : RegisterEndpoint(w, v.fds[p][fd]), v,
             DOMAIN v.fds[p]) EXCEPT
        !.fds[q] = v.fds[p], !.cloexec[q] = v.cloexec[p]]
DropTable(v, p) ==
    Drop([CloseAll(v, p, DOMAIN v.fds[p]) EXCEPT
            !.fds[p] = <<>>, !.cloexec[p] = {}])

\* open_count: descriptors of the selected process's table only
OpenCount(v, p, i) ==
    Cardinality({fd \in DOMAIN v.fds[p] : v.fds[p][fd].inode = i})

RebindEntry(e, old, new) ==
    [e EXCEPT !.path = {IF StartsWith(q, old) THEN ReplacePrefix(q, old, new)
                        ELSE q : q \in @}]
RebindPaths(v, p, old, new) ==
    [v EXCEPT !.fds[p] = [fd \in DOMAIN @ |-> RebindEntry(@[fd], old, new)]]
-----------------------------------------------------------------------------
(***************************************************************************)
(* Pipes.                                                                  *)
(***************************************************************************)
NewPipe(backed) == [buffer |-> <<>>, host |-> <<>>, backed |-> backed,
                    capacity |-> DEFAULT_PIPE_CAPACITY, readers |-> 0,
                    writers |-> 0]

\* next_pipe_id is the table's own, and two tables may give out the same id:
\* the model tells their pipes apart
FreshNode(f, first) == Least({first + k : k \in 1 .. Cardinality(DOMAIN f) + 1}
                                \ DOMAIN f)
PipeEnds(v, p, rfd, wfd, inode, flags) ==
    Then(InsertEntry(v, p, rfd, "PipeRead", inode, {"r"} \cup flags, {}),
         LAMBDA w, x : Then(
            InsertEntry(w, p, wfd, "PipeWrite", inode, {"w"} \cup flags, {}),
            LAMBDA u, y : Ok(u, <<rfd, wfd>>)))
InsertPipe(v, p, rfd, flags, backed) ==
    PipeEnds([v EXCEPT !.pipes = With(@, FreshNode(@, FIRST_PIPE_INODE_ID),
                                      NewPipe(backed))],
             p, rfd, NextFdFrom(v, p, rfd + 1),
             FreshNode(v.pipes, FIRST_PIPE_INODE_ID), flags)
Pipe(v, p, flags, backed) ==
    IF ~(flags \subseteq {"cloexec", "nonblock"}) THEN Err(v, "InvalidPath")
    ELSE InsertPipe(v, p, NextFdFrom(v, p, FIRST_ALLOC_FD), flags, backed)

PipeTake(v, i, count) ==
    IF v.pipes[i].backed
    THEN Ok([v EXCEPT !.pipes[i].buffer = SubSeq(@, count + 1, Len(@)),
                      !.pipes[i].host = SubSeq(@, count + 1, Len(@))],
            SubSeq(v.pipes[i].host, 1, count))
    ELSE Ok([v EXCEPT !.pipes[i].buffer = SubSeq(@, count + 1, Len(@))],
            SubSeq(v.pipes[i].buffer, 1, count))
PipeReadEnd(v, i, n) ==
    IF v.pipes[i].buffer = <<>> /\ n > 0 /\ v.pipes[i].writers > 0
    THEN Err(v, "WouldBlock")
    ELSE PipeTake(v, i, Lesser(n, Len(v.pipes[i].buffer)))

PipeAdd(v, i, bytes) ==
    IF v.pipes[i].backed
    THEN Ok([v EXCEPT !.pipes[i].buffer = @ \o [k \in 1 .. Len(bytes) |-> 0],
                      !.pipes[i].host = @ \o bytes], Len(bytes))
    ELSE Ok([v EXCEPT !.pipes[i].buffer = @ \o bytes], Len(bytes))
PipeSpace(v, i) == v.pipes[i].capacity - Len(v.pipes[i].buffer)
PipeWriteEnd(v, i, bytes) ==
    IF v.pipes[i].readers = 0 THEN Err(v, "BrokenPipe")
    ELSE IF PipeSpace(v, i) = 0 /\ bytes # <<>> THEN Err(v, "WouldBlock")
    ELSE PipeAdd(v, i, SubSeq(bytes, 1, Lesser(Len(bytes), PipeSpace(v, i))))

Greater(m, n) == IF m < n THEN n ELSE m
SetPipeCapacity(v, p, fd, capacity) ==
    OnFd(v, p, fd, LAMBDA e :
        IF e.kind \notin PipeKinds THEN Err(v, "BadFd")
        ELSE IF Greater(capacity, MIN_PIPE_CAPACITY)
                  < Len(v.pipes[e.inode].buffer)
        THEN Err(v, "Busy")
        ELSE Ok([v EXCEPT !.pipes[e.inode].capacity =
                    Greater(capacity, MIN_PIPE_CAPACITY)],
                Greater(capacity, MIN_PIPE_CAPACITY)))
-----------------------------------------------------------------------------
(***************************************************************************)
(* Event counters.  A buffer of eight bytes or more is one value here.     *)
(***************************************************************************)
Eventfd(v, p, initial, flags) ==
    IF ~(flags \subseteq {"r", "w", "cloexec", "nonblock"})
    THEN Err(v, "InvalidPath")
    ELSE InsertEntry(
            [v EXCEPT !.eventfds =
                With(@, FreshNode(@, FIRST_EVENTFD_INODE_ID), initial)],
            p, NextFdFrom(v, p, FIRST_ALLOC_FD), "Eventfd",
            FreshNode(v.eventfds, FIRST_EVENTFD_INODE_ID),
            {"r", "w"} \cup flags, {})
EventfdRead(v, i) ==
    IF v.eventfds[i] = 0 THEN Err(v, "WouldBlock")
    ELSE Ok([v EXCEPT !.eventfds[i] = 0], <<v.eventfds[i]>>)
EventfdWrite(v, i, value) ==
    IF value > MAX_COUNTER THEN Err(v, "InvalidPath")
    ELSE IF v.eventfds[i] + value > MAX_COUNTER THEN Err(v, "WouldBlock")
    ELSE Ok([v EXCEPT !.eventfds[i] = @ + value], 1)
-----------------------------------------------------------------------------
(***************************************************************************)
(* Transfers through the table: what VirtualFileSystem does not take over. *)
(* A device takes everything and gives nothing (/dev/null).                *)
(***************************************************************************)
ReadKind(v, e, n) ==
    CASE e.kind = "Dev" -> Ok(v, <<>>)
      [] e.kind = "PipeRead" -> PipeReadEnd(v, e.inode, n)
      [] e.kind = "Eventfd" -> IF n = 0 THEN Err(v, "InvalidPath")
                               ELSE EventfdRead(v, e.inode)
      [] e.kind = "Directory" -> Err(v, "IsDirectory")
      [] OTHER -> Err(v, "BadFd")
FdRead(v, p, fd, n) ==
    OnFd(v, p, fd, LAMBDA e :
        IF ~CanRead(FlagsOf(v, e)) THEN Err(v, "BadFd") ELSE ReadKind(v, e, n))

WriteOffset(v, e) ==
    IF "append" \in FlagsOf(v, e) THEN v.inodes[e.inode].size
    ELSE OffsetOf(v, e)
WriteRegular(v, e, bytes, offset) ==
    Then(WriteAt(v, e.inode, offset, bytes), LAMBDA w, count :
        Ok(SetOffset(w, e, offset + count), count))
WriteKind(v, e, bytes) ==
    CASE e.kind = "Regular" ->
             IF e.inode \notin DOMAIN v.inodes THEN Err(v, "NoEntry")
             ELSE WriteRegular(v, e, bytes, WriteOffset(v, e))
      [] e.kind = "Dev" -> Ok(v, Len(bytes))
      [] e.kind = "PipeWrite" -> PipeWriteEnd(v, e.inode, bytes)
      [] e.kind = "Eventfd" ->
             IF bytes = <<>> THEN Err(v, "InvalidPath")
             ELSE EventfdWrite(v, e.inode, bytes[1])
      [] e.kind = "Directory" -> Err(v, "IsDirectory")
      [] e.kind = "Symlink" -> Err(v, "InvalidPath")
      [] OTHER -> Err(v, "BadFd")
FdWrite(v, p, fd, bytes) ==
    OnFd(v, p, fd, LAMBDA e :
        IF ~CanWrite(FlagsOf(v, e)) THEN Err(v, "BadFd")
        ELSE WriteKind(v, e, bytes))

SeekTo(v, e, next) ==
    IF next < 0 THEN Err(v, "InvalidPath")
    ELSE IF e.kind = "Directory"
    THEN Ok([SetOffset(v, e, next) EXCEPT !.descs[e.desc].dir_cursor = next],
            next)
    ELSE Ok(SetOffset(v, e, next), next)
SeekBase(v, e, whence) ==
    CASE whence = "Set" -> 0
      [] whence = "Cur" -> OffsetOf(v, e)
      [] whence = "End" -> IF e.kind = "Directory" THEN 0
                           ELSE v.inodes[e.inode].size
Seek(v, p, fd, offset, whence) ==
    OnFd(v, p, fd, LAMBDA e :
        IF e.kind \notin Seekable THEN Err(v, "NotSeekable")
        ELSE IF e.kind # "Directory" /\ e.inode \notin DOMAIN v.inodes
        THEN Err(v, "NoEntry")
        ELSE SeekTo(v, e, SeekBase(v, e, whence) + offset))
-----------------------------------------------------------------------------
(***************************************************************************)
(* Directory listings: the entry of a name, in order.                      *)
(***************************************************************************)
DirectoryEntries(v, path) ==
    LET names == SelectSeq(NameOrder,
                           LAMBDA n : n \in DOMAIN ChildrenOf(v, path))
        self == [name |-> ".", inode |-> LookupPath(v, path),
                 kind |-> "Directory"]
    IN <<self, [self EXCEPT !.name = ".."]>>
        \o [k \in 1 .. Len(names) |->
              [name |-> names[k], inode |-> v.children[path][names[k]],
               kind |-> v.inodes[v.children[path][names[k]]].kind]]

\* a record takes one unit of the caller's buffer
Consume(v, e, cursor, count) ==
    Ok([v EXCEPT !.descs[e.desc].dir_cursor = cursor + count,
                 !.descs[e.desc].offset = IF count = 0 THEN @
                                          ELSE cursor + count], count)
ConsumeDirectoryEntries(v, e, max, entries) ==
    LET cursor == v.descs[e.desc].dir_cursor
        left == Len(entries) - cursor
    IN IF left > 0 /\ max = 0 THEN Err(v, "InvalidPath")
       ELSE Consume(v, e, cursor, IF left <= 0 THEN 0 ELSE Lesser(max, left))
=============================================================================
