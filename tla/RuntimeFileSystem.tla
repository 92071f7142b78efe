------------------------- MODULE RuntimeFileSystem --------------------------
(***************************************************************************)
(* The file system calls of the guest's processes                          *)
(* (crates/mcr-runtime/src/filesystem.rs), each one action: the runtime    *)
(* selects the caller's descriptor table, which drops the views cached for *)
(* the process selected before, moves bytes between the virtual file       *)
(* system and guest memory, and reports the outcome.                       *)
(*                                                                         *)
(* A buffer of the guest is "direct" (the runtime works on the guest's     *)
(* bytes), "copied" (it goes through a copy) or "bad" (not mapped).  A     *)
(* scenario is the initial tree, the calls and the arguments one part of   *)
(* the state space is explored with; scenario.direct says that the calls   *)
(* are made on the VirtualFileSystem itself, without the runtime's         *)
(* selection, as the crate's own users make them.                          *)
(***************************************************************************)
EXTENDS VirtualFileSystem

CONSTANT Scenarios

VARIABLES
    v,          \* the file system: tree, descriptor tables, pipes, caches
    outcome,    \* the last call and its error, "" when it succeeded
    calls,      \* calls made
    missed,     \* history: the keys (inode, generation) a call left in use
                \* although it changed the contents or the names behind them
    scenario

vars == <<v, outcome, calls, missed, scenario>>
-----------------------------------------------------------------------------
(***************************************************************************)
(* Transfers between descriptors and guest buffers.  An iovec is a buffer  *)
(* with a length (reads) or with bytes (writes).                           *)
(***************************************************************************)
ReadInto(s, p, fd, iov) ==
    Then(VfsRead(s, p, fd, iov.len), LAMBDA w, bytes :
        IF iov.buf = "bad" /\ bytes # <<>> THEN Err(w, "Fault")
        ELSE Ok(w, bytes))
\* nothing is read from an empty buffer, wherever it points
Unreadable(iov) == iov.buf = "bad" /\ iov.bytes # <<>>
WriteFrom(s, p, fd, iov) ==
    IF Unreadable(iov) THEN Err(s, "Fault")
    ELSE VfsWrite(s, p, fd, iov.bytes)
PwriteFrom(s, p, fd, offset, iov) ==
    IF Unreadable(iov) THEN Err(s, "Fault")
    ELSE VfsPwrite(s, p, fd, offset, iov.bytes)

Borrowable(iovs) == \A k \in DOMAIN iovs : iovs[k].buf = "direct"
BorrowableBytes(iovs) ==
    \A k \in DOMAIN iovs : iovs[k].buf = "direct" \/ iovs[k].bytes = <<>>
Faulty(iovs) == \E k \in DOMAIN iovs : iovs[k].buf = "bad"
TotalLen(iovs) == FoldLeft(LAMBDA n, iov : n + iov.len, 0, iovs)
AllBytes(iovs) == FoldLeft(LAMBDA s, iov : s \o iov.bytes, <<>>, iovs)

\* one transfer per iovec, up to the first short one
RECURSIVE ReadEach(_, _, _, _, _)
ReadEach(s, p, fd, iovs, total) ==
    IF iovs = <<>> THEN Ok(s, total)
    ELSE Then(ReadInto(s, p, fd, Head(iovs)), LAMBDA w, bytes :
            IF Len(bytes) < Head(iovs).len THEN Ok(w, total \o bytes)
            ELSE ReadEach(w, p, fd, Tail(iovs), total \o bytes))
RECURSIVE WriteEach(_, _, _, _, _)
WriteEach(s, p, fd, iovs, total) ==
    IF iovs = <<>> THEN Ok(s, total)
    ELSE Then(WriteFrom(s, p, fd, Head(iovs)), LAMBDA w, count :
            IF count < Len(Head(iovs).bytes) THEN Ok(w, total + count)
            ELSE WriteEach(w, p, fd, Tail(iovs), total + count))
RECURSIVE PwriteEach(_, _, _, _, _, _)
PwriteEach(s, p, fd, offset, iovs, total) ==
    IF iovs = <<>> THEN Ok(s, total)
    ELSE Then(PwriteFrom(s, p, fd, offset, Head(iovs)), LAMBDA w, count :
            PwriteEach(w, p, fd, offset + count, Tail(iovs), total + count))

Readv(s, p, fd, iovs) ==
    OnReadable(s, p, fd, LAMBDA e :
        IF Borrowable(iovs) \/ e.kind \notin {"Regular", "Symlink"}
        THEN ReadEach(s, p, fd, iovs, <<>>)
        ELSE Then(ReadvRegular(s, p, fd, TotalLen(iovs)), LAMBDA w, bytes :
                IF Faulty(iovs) /\ bytes # <<>> THEN Err(w, "Fault")
                ELSE Ok(w, bytes)))
Writev(s, p, fd, iovs) ==
    OnFd(s, p, fd, LAMBDA e :
        IF ~CanWrite(FlagsOf(s, e)) THEN Err(s, "BadFd")
        ELSE IF BorrowableBytes(iovs) \/ e.kind # "Regular"
        THEN WriteEach(s, p, fd, iovs, 0)
        ELSE IF \E k \in DOMAIN iovs : Unreadable(iovs[k]) THEN Err(s, "Fault")
        ELSE WritevRegular(s, p, fd, AllBytes(iovs)))

\* close_process_fd_range: every open descriptor of the range
CloseRange(s, p, first, last) ==
    Ok(FoldSet(LAMBDA fd, w : CloseWithFile(w, p, fd).v, s,
               (first .. last) \cap DOMAIN s.fds[p]), 0)

\* load_guest_executable: open, read to the end, close, and say what failed
ReadToEnd(s, p, fd) == VfsRead(s, p, fd, 2 * SMALL_READ_CACHE_LIMIT)
LoadGuestExecutable(s, p, arg) ==
    Then(Openat(s, p, AT_FDCWD, arg, {"r"}, {}), LAMBDA w, fd :
        LET r == ReadToEnd(w, p, fd)
        IN [CloseWithFile(r.v, p, fd) EXCEPT !.err = r.err, !.val = r.val])

\* fcntl and the FIONBIO ioctl, without the pipe sizes and locks
Fcntl(s, p, fd, cmd, arg) ==
    OnFd(s, p, fd, LAMBDA e :
        CASE cmd = "F_DUPFD" -> Dup(s, p, fd, arg, FALSE)
          [] cmd = "F_DUPFD_CLOEXEC" -> Dup(s, p, fd, arg, TRUE)
          [] cmd = "F_SETFD" -> SetCloexec(s, p, fd, arg)
          [] cmd = "F_SETFL" ->
                 Ok([s EXCEPT !.descs[e.desc].flags = WithStatusFlags(@, arg)],
                    0)
          [] cmd = "F_SETLK" -> Ok(s, 0)
          [] cmd = "F_SETPIPE_SZ" -> SetPipeCapacity(s, p, fd, arg))
FionbioFlags(s, e, on) ==
    IF on THEN FlagsOf(s, e) \cup {"nonblock"}
    ELSE FlagsOf(s, e) \ {"nonblock"}
Fionbio(s, p, fd, on) ==
    OnFd(s, p, fd, LAMBDA e :
        Fcntl(s, p, fd, "F_SETFL", FionbioFlags(s, e, on)))
-----------------------------------------------------------------------------
(***************************************************************************)
(* Calls.                                                                  *)
(***************************************************************************)
Fds == FIRST_ALLOC_FD .. MaxFd
Room(p, n) == Cardinality(Fds \ DOMAIN v.fds[p]) >= n

\* select_process_context: sync_proc_self drops the cached views
Selected == IF scenario.direct THEN v ELSE InvalidateProcCaches(v)
Call(op) == op \in scenario.ops /\ calls < scenario.max
ReturnMissing(op, r, inodes) ==
    /\ v' = r.v
    /\ outcome' = [op |-> op, err |-> r.err]
    /\ calls' = calls + 1
    /\ missed' = missed \cup {<<i, KeyGeneration(r.v.cache, i)>> : i \in inodes}
    /\ UNCHANGED scenario
Return(op, r) == ReturnMissing(op, r, {})

\* the calls that change the files without a word to the caches: a write of no
\* bytes, which still extends the file up to its offset, and an open that
\* creates the file it then refuses as not being a directory
WrittenEmpty(p, fd, bytes) ==
    IF bytes = <<>> THEN {v.fds[p][fd].inode} ELSE {}
CreatesForDirectory(flags) == {"creat", "directory"} \subseteq flags
ParentsOfNew(r) ==
    {r.v.nodes[Parent(q)] : q \in DOMAIN r.v.nodes \ DOMAIN v.nodes}

SysOpenat(p) ==
    /\ Call("openat") /\ Room(p, 1)
    /\ \E dirfd \in scenario.dirfds, arg \in scenario.args,
          flags \in scenario.flags :
         LET r == Openat(Selected, p, dirfd, arg, flags, {"r", "w"})
         IN IF CreatesForDirectory(flags)
            THEN ReturnMissing("open_creat_directory", r, ParentsOfNew(r))
            ELSE Return("openat", r)
SysClose(p) ==
    /\ Call("close")
    /\ \E fd \in DOMAIN v.fds[p] :
         Return("close", CloseWithFile(Selected, p, fd))
SysCloseRange(p) ==
    /\ Call("close_range")
    /\ \E first \in Fds :
         Return("close_range", CloseRange(Selected, p, first, MaxFd))

SysRead(p) ==
    /\ Call("read")
    /\ \E fd \in DOMAIN v.fds[p], n \in scenario.lens, buf \in scenario.bufs :
         Return("read", ReadInto(Selected, p, fd, [len |-> n, buf |-> buf]))
SysWrite(p) ==
    /\ Call("write")
    /\ \E fd \in DOMAIN v.fds[p], bytes \in scenario.bytes,
          buf \in scenario.bufs :
         ReturnMissing("write",
             WriteFrom(Selected, p, fd, [bytes |-> bytes, buf |-> buf]),
             WrittenEmpty(p, fd, bytes))
SysPread64(p) ==
    /\ Call("pread64")
    /\ \E fd \in DOMAIN v.fds[p], offset \in scenario.offsets,
          n \in scenario.lens :
         Return("pread64", VfsPread(Selected, p, fd, offset, n))
SysPwrite64(p) ==
    /\ Call("pwrite64")
    /\ \E fd \in DOMAIN v.fds[p], offset \in scenario.offsets,
          bytes \in scenario.bytes, buf \in scenario.bufs :
         ReturnMissing("pwrite64",
             PwriteFrom(Selected, p, fd, offset,
                           [bytes |-> bytes, buf |-> buf]),
             WrittenEmpty(p, fd, bytes))
SysReadv(p) ==
    /\ Call("readv")
    /\ \E fd \in DOMAIN v.fds[p], n \in scenario.lens, b1 \in scenario.bufs,
          b2 \in scenario.bufs :
         Return("readv",
             Readv(Selected, p, fd, <<[len |-> n, buf |-> b1],
                                         [len |-> n, buf |-> b2]>>))
SysWritev(p) ==
    /\ Call("writev")
    /\ \E fd \in DOMAIN v.fds[p], bytes \in scenario.bytes,
          b1 \in scenario.bufs, b2 \in scenario.bufs :
         ReturnMissing("writev",
             Writev(Selected, p, fd, <<[bytes |-> bytes, buf |-> b1],
                                          [bytes |-> bytes, buf |-> b2]>>),
             WrittenEmpty(p, fd, bytes))
SysPwritev2(p) ==
    /\ Call("pwritev2")
    /\ \E fd \in DOMAIN v.fds[p], offset \in scenario.offsets,
          bytes \in scenario.bytes, b1 \in scenario.bufs,
          b2 \in scenario.bufs :
         ReturnMissing("pwritev2",
             PwriteEach(Selected, p, fd, offset,
                           <<[bytes |-> bytes, buf |-> b1],
                             [bytes |-> bytes, buf |-> b2]>>, 0),
             WrittenEmpty(p, fd, bytes))
SysLseek(p) ==
    /\ Call("lseek")
    /\ \E fd \in DOMAIN v.fds[p], offset \in scenario.offsets,
          whence \in {"Set", "Cur", "End"} :
         Return("lseek", Seek(Selected, p, fd, offset, whence))
SysFtruncate(p) ==
    /\ Call("ftruncate")
    /\ \E fd \in DOMAIN v.fds[p], len \in scenario.lens :
         Return("ftruncate", Ftruncate(Selected, p, fd, len))
SysFallocate(p) ==
    /\ Call("fallocate")
    /\ \E fd \in DOMAIN v.fds[p], offset \in scenario.offsets,
          len \in scenario.lens \ {0} :
         Return("fallocate", Fallocate(Selected, p, fd, offset, len))

SysFstat(p) ==
    /\ Call("stat")
    /\ \E fd \in DOMAIN v.fds[p] : Return("stat", Fstat(Selected, p, fd))
SysNewfstatat(p) ==
    /\ Call("stat")
    /\ \E dirfd \in scenario.dirfds, arg \in scenario.args,
          flags \in {{}, {"nofollow"}, {"empty"}} :
         Return("stat", Newfstatat(Selected, p, dirfd, arg, flags))
SysFaccessat2(p) ==
    /\ Call("access")
    /\ \E dirfd \in scenario.dirfds, arg \in scenario.args :
         Return("access", Faccessat2(Selected, p, dirfd, arg, {"w"}, {}))
SysReadlinkat(p) ==
    /\ Call("readlink")
    /\ \E dirfd \in scenario.dirfds, arg \in scenario.args :
         Return("readlink", Readlinkat(Selected, p, dirfd, arg))
SysGetdents64(p) ==
    /\ Call("getdents64")
    /\ \E fd \in DOMAIN v.fds[p], max \in scenario.lens :
         Return("getdents64", Getdents64(Selected, p, fd, max))
SysChmod(p) ==
    /\ Call("chmod")
    /\ \E arg \in scenario.args, mode \in {{"r"}, {"r", "x"}, {"r", "w"}} :
         Return("chmod", Chmod(Selected, p, arg, mode))
\* the times of the file are read before the new ones are set
SysUtimensat(p) ==
    /\ Call("utimensat")
    /\ \E dirfd \in scenario.dirfds, arg \in scenario.args,
          flags \in {{}, {"nofollow"}} :
         Return("utimensat",
             Utimensat(Newfstatat(Selected, p, dirfd, arg, flags).v,
                          p, dirfd, arg, 1, flags))

SysMkdirat(p) ==
    /\ Call("mkdir")
    /\ \E dirfd \in scenario.dirfds, arg \in scenario.args :
         Return("mkdir", Mkdirat(Selected, p, dirfd, arg, {"r", "w", "x"}))
SysUnlinkat(p) ==
    /\ Call("unlink")
    /\ \E dirfd \in scenario.dirfds, arg \in scenario.args,
          removeDir \in BOOLEAN :
         Return("unlink", Unlinkat(Selected, p, dirfd, arg, removeDir))
SysRenameat2(p) ==
    /\ Call("rename")
    /\ \E olddirfd \in scenario.dirfds, old \in scenario.args,
          new \in scenario.args, flag \in {"", "noreplace", "exchange"} :
         Return(IF flag = "exchange" THEN flag ELSE "rename",
             Renameat2(Selected, p, olddirfd, old, AT_FDCWD, new, flag))
SysSymlinkat(p) ==
    /\ Call("symlink")
    /\ \E target \in scenario.args, dirfd \in scenario.dirfds,
          arg \in scenario.args :
         Return("symlink", Symlinkat(Selected, p, target, dirfd, arg))
SysLinkat(p) ==
    /\ Call("link")
    /\ \E dirfd \in scenario.dirfds, old \in scenario.args,
          new \in scenario.args, flags \in {{}, {"follow"}, {"empty"}} :
         Return("link", Linkat(Selected, p, dirfd, old, AT_FDCWD, new, flags))
SysChdir(p) ==
    /\ Call("chdir")
    /\ \E arg \in scenario.args : Return("chdir", Chdir(Selected, p, arg))
SysUmask(p) ==
    /\ Call("umask")
    /\ \E mask \in {{}, {"w"}} : Return("umask", Umask(Selected, mask))

SysPipe2(p) ==
    /\ Call("pipe") /\ Room(p, 2)
    /\ \E flags \in {{}, {"cloexec"}}, backed \in BOOLEAN :
         Return("pipe", Pipe(Selected, p, flags, backed))
SysEventfd2(p) ==
    /\ Call("eventfd") /\ Room(p, 1)
    /\ \E initial \in 0 .. 1 :
         Return("eventfd", Eventfd(Selected, p, initial, {}))
SysDup3(p) ==
    /\ Call("dup")
    /\ \E oldfd \in DOMAIN v.fds[p], newfd \in Fds, cloexec \in BOOLEAN :
         Return("dup", Dup2(Selected, p, oldfd, newfd, cloexec))
SysFcntl(p) ==
    /\ Call("fcntl") /\ Room(p, 1)
    /\ \E fd \in DOMAIN v.fds[p] :
         \/ \E cmd \in {"F_DUPFD", "F_DUPFD_CLOEXEC"} :
              Return("fcntl", Fcntl(Selected, p, fd, cmd, FIRST_ALLOC_FD))
         \/ \E on \in BOOLEAN :
              Return("fcntl", Fcntl(Selected, p, fd, "F_SETFD", on))
         \/ \E status \in {{}, {"append"}} :
              Return("fcntl", Fcntl(Selected, p, fd, "F_SETFL", status))
         \/ \E size \in 1 .. MIN_PIPE_CAPACITY + 2 :
              Return("fcntl", Fcntl(Selected, p, fd, "F_SETPIPE_SZ", size))
         \/ Return("fcntl", Fcntl(Selected, p, fd, "F_SETLK", 0))
SysIoctl(p) ==
    /\ Call("ioctl")
    /\ \E fd \in DOMAIN v.fds[p], on \in BOOLEAN :
         Return("ioctl", Fionbio(Selected, p, fd, on))

\* the tables of a process: copied by fork, thinned by exec, dropped by exit
SysFork(p) ==
    /\ Call("fork")
    /\ \E q \in Pid \ v.procs :
         Return("fork",
             Ok([CloneTable(Selected, p, q)
                                EXCEPT !.procs = @ \cup {q}], 0))
SysExecve(p) ==
    /\ Call("exec") /\ Room(p, 1)
    /\ \E arg \in scenario.args :
         Return("exec",
             Then(LoadGuestExecutable(Selected, p, arg), LAMBDA w, bytes :
                    Ok(CloseOnExec(w, p), 0)))
SysExit(p) ==
    /\ Call("exit")
    /\ Cardinality(v.procs) > 1
    /\ Return("exit",
               Ok([DropTable(Selected, p)
                            EXCEPT !.procs = @ \ {p}], 0))

\* the host file behind the deferred inodes goes away (environment)
HostFileGone ==
    /\ Call("host_gone") /\ v.host_readable
    /\ Return("host_gone", Ok([v EXCEPT !.host_readable = FALSE], 0))

Init ==
    /\ scenario \in Scenarios
    /\ v = scenario.tree
    /\ outcome = [op |-> "", err |-> ""]
    /\ calls = 0
    /\ missed = {}

Transfer(p) ==
    \/ SysRead(p) \/ SysWrite(p) \/ SysPread64(p) \/ SysPwrite64(p)
    \/ SysReadv(p) \/ SysWritev(p) \/ SysPwritev2(p) \/ SysLseek(p)
    \/ SysFtruncate(p) \/ SysFallocate(p)
Metadata(p) ==
    \/ SysFstat(p) \/ SysNewfstatat(p) \/ SysFaccessat2(p)
    \/ SysReadlinkat(p) \/ SysGetdents64(p) \/ SysChmod(p) \/ SysUtimensat(p)
    \/ SysChdir(p) \/ SysUmask(p)
Names(p) ==
    \/ SysOpenat(p) \/ SysMkdirat(p) \/ SysUnlinkat(p) \/ SysRenameat2(p)
    \/ SysSymlinkat(p) \/ SysLinkat(p)
Descriptors(p) ==
    \/ SysClose(p) \/ SysCloseRange(p) \/ SysPipe2(p) \/ SysEventfd2(p)
    \/ SysDup3(p) \/ SysFcntl(p) \/ SysIoctl(p) \/ SysFork(p) \/ SysExecve(p)
    \/ SysExit(p)
Next ==
    \/ \E p \in v.procs :
         Transfer(p) \/ Metadata(p) \/ Names(p) \/ Descriptors(p)
    \/ HostFileGone

Spec == Init /\ [][Next]_vars
-----------------------------------------------------------------------------
(***************************************************************************)
(* Properties.                                                             *)
(***************************************************************************)
Entries == UNION {{<<p, fd>> : fd \in DOMAIN v.fds[p]} : p \in Pid}
EntryAt(x) == v.fds[x[1]][x[2]]

\* Every descriptor has its open file description, pipes and counters exist
\* while a descriptor names them, and nothing is over its limit.
TypeOK ==
    /\ \A x \in Entries :
         /\ x[1] \in v.procs
         /\ EntryAt(x).desc \in DOMAIN v.descs
         /\ EntryAt(x).kind \in PipeKinds =>
              EntryAt(x).inode \in DOMAIN v.pipes
         /\ EntryAt(x).kind = "Eventfd" =>
              EntryAt(x).inode \in DOMAIN v.eventfds
    /\ \A p \in Pid : v.cloexec[p] \subseteq DOMAIN v.fds[p]
    /\ \A i \in DOMAIN v.pipes :
         Len(v.pipes[i].buffer) <= v.pipes[i].capacity
    /\ \A i \in DOMAIN v.eventfds : v.eventfds[i] <= MAX_COUNTER
    /\ \A i \in DOMAIN v.inodes :
         v.inodes[i].kind = "File" /\ ~v.inodes[i].deferred =>
            v.inodes[i].size = Len(v.inodes[i].data)

\* The three maps of PathTree tell one story, whatever was created, linked,
\* moved, exchanged and removed: every path lies in a directory and names an
\* inode, the index of children holds exactly the paths, and a file's link
\* count is the number of its names.
TreeConsistent ==
    /\ \A q \in DOMAIN v.nodes :
         /\ LookupPath(v, q) # NoInode
         /\ q # Root => IsDirectory(v, Parent(q))
                        /\ Last(q) \in DOMAIN ChildrenOf(v, Parent(q))
                        /\ v.children[Parent(q)][Last(q)] = v.nodes[q]
    /\ \A q \in DOMAIN v.children :
         /\ v.children[q] # <<>>
         /\ \A n \in DOMAIN v.children[q] : Append(q, n) \in DOMAIN v.nodes
    /\ \A i \in DOMAIN v.inodes :
         v.inodes[i].kind # "Directory" => v.inodes[i].nlink = LinkCount(v, i)

\* What the caches would answer is what the tree says: an operation that
\* changes attributes, contents or names invalidates every view of them.  Two
\* calls are known not to: write, pwrite64 and their vectored forms invalidate
\* only when they wrote a byte, yet a write of none past the end extends the
\* file (its attributes and its small contents are then stale), and openat
\* with O_CREAT and O_DIRECTORY leaves the created name out of the listing of
\* its parent.  Such a view stays stale until the key is next invalidated.
Overlooked(i) == <<i, KeyGeneration(v.cache, i)>> \in missed
CachesFresh ==
    LET c == v.cache
    IN /\ \A i \in DOMAIN c.metadata \cap DOMAIN v.inodes :
            Cached(c, c.metadata, i) =>
                \/ c.metadata[i].is = Attr(v.inodes[i])
                \/ Overlooked(i)
       /\ \A i \in DOMAIN c.small \cap DOMAIN v.inodes :
            Cached(c, c.small, i) =>
                \/ c.small[i].is = v.inodes[i].data
                \/ Overlooked(i)
       /\ \A q \in DOMAIN v.nodes :
            Cached(c, c.listings, v.nodes[q]) =>
                \/ c.listings[v.nodes[q]].is = DirectoryEntries(v, q)
                \/ Overlooked(v.nodes[q])

\* The open host files are at most HOST_READ_HANDLE_CACHE_LIMIT, and the
\* queue that decides which one to close holds each of them once.
HostHandlesBounded ==
    /\ Cardinality(DOMAIN v.cache.handles) <= HOST_READ_HANDLE_CACHE_LIMIT
    /\ Len(v.cache.lru) = Cardinality(DOMAIN v.cache.handles)
    /\ Range(v.cache.lru) = DOMAIN v.cache.handles

\* A pipe's counts of readers and writers are the descriptors that all
\* processes have on it, through dup, fork, exec and exit; a pipe whose bytes
\* the host holds knows how many they are.
EndpointsCounted ==
    \A i \in DOMAIN v.pipes :
        LET Ends(kind) == {x \in Entries : /\ EntryAt(x).kind = kind
                                          /\ EntryAt(x).inode = i}
        IN /\ v.pipes[i].readers = Cardinality(Ends("PipeRead"))
           /\ v.pipes[i].writers = Cardinality(Ends("PipeWrite"))
           /\ v.pipes[i].backed =>
                Len(v.pipes[i].host) = Len(v.pipes[i].buffer)

\* The file system is well formed after every call: the three maps, the table
\* of open host files and the pipes.
FilesConsistent == TypeOK /\ TreeConsistent /\ HostHandlesBounded

Content(n) == IF n.deferred THEN HostData ELSE n.data
PipeBytes(pipe) == IF pipe.backed THEN pipe.host ELSE pipe.buffer

\* A step that changes a file's contents changes the key (inode, generation)
\* that pages mapped from the file are cached under.  The exception is a write
\* of no bytes past the end, which appends zeros under the old key.
ContentChangeAdvancesKey ==
    \A i \in DOMAIN v.inodes \cap DOMAIN v'.inodes :
        LET old == Content(v.inodes[i])
            new == Content(v'.inodes[i])
        IN old # new =>
            \/ RegularFileCacheKey(v', i) > RegularFileCacheKey(v, i)
            \/ /\ <<i, KeyGeneration(v'.cache, i)>> \in missed'
               /\ IsPrefix(old, new)
               /\ \A k \in Len(old) + 1 .. Len(new) : new[k] = 0

\* A call that fails leaves the tree and the files alone.  Two exceptions:
\* pwritev2 fails on a later buffer after earlier ones were written, and
\* openat with O_CREAT and O_DIRECTORY may leave one new, empty file behind.
FailedCallKeepsFiles ==
    outcome'.err # "" /\ outcome'.op # "pwritev2" =>
        LET new == DOMAIN v'.nodes \ DOMAIN v.nodes
        IN /\ \/ new = {}
              \/ /\ outcome' = [op |-> "open_creat_directory",
                                 err |-> "NotDirectory"]
                 /\ \E q \in new :
                      /\ new = {q}
                      /\ Inode(v', v'.nodes[q]).kind = "File"
                      /\ Inode(v', v'.nodes[q]).data = <<>>
           /\ \A q \in DOMAIN v.nodes :
                q \in DOMAIN v'.nodes /\ v'.nodes[q] = v.nodes[q]
           /\ DOMAIN v'.inodes = DOMAIN v.inodes \cup {v'.nodes[q] : q \in new}
           /\ \A i \in DOMAIN v.inodes :
                /\ Content(v'.inodes[i]) = Content(v.inodes[i])
                /\ Attr(v'.inodes[i]) = Attr(v.inodes[i])

\* A file that is open keeps its inode, and so stays readable, with two
\* exceptions: once its last name is gone the first close of any of its
\* descriptors removes it, and the call that takes the last name away looks
\* for descriptors in the table of its own process only.
OpenFileKeepsInode ==
    \A p \in Pid : \A fd \in DOMAIN v'.fds[p] :
        LET e == v'.fds[p][fd]
        IN e.kind = "Regular" /\ e.inode \in DOMAIN v.inodes \ DOMAIN v'.inodes =>
            \/ /\ outcome'.op \in {"close", "close_range", "exec"}
               /\ LinkCount(v, e.inode) = 0
            \/ /\ outcome'.op \in {"unlink", "rename"}
               /\ \E q \in v.procs : OpenCount(v, q, e.inode) = 0

\* A call takes the last name away from one file at most, the one unlinked
\* or replaced: moving whole directories loses nothing else, exchanging
\* them nothing at all.
Named(w) == {w.nodes[q] : q \in DOMAIN w.nodes}
OneFileLosesItsName ==
    /\ Cardinality(Named(v) \ Named(v')) <= 1
    /\ ~(Named(v) \subseteq Named(v')) =>
         outcome'.op \in {"unlink", "rename"}

\* Bytes leave a pipe from the front and enter at the back, in order.
PipeFifo ==
    \A i \in DOMAIN v.pipes \cap DOMAIN v'.pipes :
        \/ IsPrefix(PipeBytes(v.pipes[i]), PipeBytes(v'.pipes[i]))
        \/ IsSuffix(PipeBytes(v'.pipes[i]), PipeBytes(v.pipes[i]))

\* Every call keeps these five promises.
CallsKeepTheirPromises ==
    [][/\ ContentChangeAdvancesKey /\ FailedCallKeepsFiles
       /\ OpenFileKeepsInode /\ OneFileLosesItsName /\ PipeFifo]_vars
=============================================================================
