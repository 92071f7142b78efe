------------------------- MODULE VirtualFileSystem --------------------------
(***************************************************************************)
(* The operations of the virtual file system                               *)
(* (crates/mcr-vfs/src/filesystem.rs) and its caches (cache.rs).  The      *)
(* working directory, the umask and the caches are one for all processes,  *)
(* as they are in the code.                                                *)
(***************************************************************************)
EXTENDS FileDescriptors

CONSTANTS
    SMALL_READ_CACHE_LIMIT,
    HOST_READ_HANDLE_CACHE_LIMIT

AT_FDCWD == -100
EmptyPath(arg) == ~arg.abs /\ arg.comps = <<>>
Follows(flags) == "nofollow" \notin flags
PathOf(e) == CHOOSE q \in e.path : TRUE
-----------------------------------------------------------------------------
(***************************************************************************)
(* VfsCache.                                                               *)
(***************************************************************************)
EmptyCache == [global |-> 0, gens |-> <<>>, listings |-> <<>>,
               metadata |-> <<>>, small |-> <<>>, handles |-> <<>>,
               lru |-> <<>>]

GenOf(c, i) == IF i \in DOMAIN c.gens THEN c.gens[i] ELSE 0
KeyGeneration(c, i) == c.global + GenOf(c, i)
Cached(c, f, i) == i \in DOMAIN f /\ f[i].gen = KeyGeneration(c, i)
Entry(c, i, x) == [gen |-> KeyGeneration(c, i), is |-> x]

CacheInvalidateAll(c) == [EmptyCache EXCEPT !.global = c.global + 1,
                                            !.gens = c.gens]
CacheInvalidateProcViews(c) ==
    [c EXCEPT !.listings = <<>>, !.metadata = <<>>, !.small = <<>>]
BumpInodeGeneration(c, i) == [c EXCEPT !.gens = With(@, i, GenOf(c, i) + 1)]
RemoveInodeEntries(c, i) ==
    [c EXCEPT !.listings = Without(@, {i}), !.metadata = Without(@, {i}),
              !.small = Without(@, {i}), !.handles = Without(@, {i}),
              !.lru = SelectSeq(@, LAMBDA j : j # i)]
CacheInvalidateInode(c, i) == RemoveInodeEntries(BumpInodeGeneration(c, i), i)

TouchLru(c, i) ==
    [c EXCEPT !.lru = Append(SelectSeq(@, LAMBDA j : j # i), i)]
EvictHostReadHandles(c) ==
    IF Cardinality(DOMAIN c.handles) > HOST_READ_HANDLE_CACHE_LIMIT
    THEN [c EXCEPT !.handles = Without(@, {Head(c.lru)}), !.lru = Tail(@)]
    ELSE c
InsertHandle(c, i) == [c EXCEPT !.handles = With(@, i, KeyGeneration(c, i))]

\* host_read_handle: the open host file behind a deferred inode
HostReadHandle(v, i) ==
    IF i \in DOMAIN v.cache.handles
        /\ v.cache.handles[i] = KeyGeneration(v.cache, i)
    THEN Ok([v EXCEPT !.cache = TouchLru(@, i)], i)
    ELSE IF ~v.host_readable THEN Err(v, "NoEntry")
    ELSE Ok([v EXCEPT !.cache =
                EvictHostReadHandles(TouchLru(InsertHandle(@, i), i))], i)

InvalidateVfsCaches(v) == [v EXCEPT !.cache = CacheInvalidateAll(@)]
InvalidateProcCaches(v) == [v EXCEPT !.cache = CacheInvalidateProcViews(@)]
InvalidateInodeCache(v, i) == [v EXCEPT !.cache = CacheInvalidateInode(@, i)]
InvalidateInodeCaches(v, S) ==
    FoldSet(LAMBDA i, w : InvalidateInodeCache(w, i), v, S \ {NoInode})

CachedMetadata(v, i) ==
    IF Cached(v.cache, v.cache.metadata, i)
    THEN Ok(v, v.cache.metadata[i].is)
    ELSE Ok([v EXCEPT !.cache.metadata =
                With(@, i, Entry(v.cache, i, Attr(v.inodes[i])))],
            Attr(v.inodes[i]))
CachedDirectoryEntries(v, i, path) ==
    IF Cached(v.cache, v.cache.listings, i)
    THEN Ok(v, v.cache.listings[i].is)
    ELSE IF ~IsDirectory(v, path) THEN Err(v, "NotDirectory")
    ELSE Ok([v EXCEPT !.cache.listings =
                With(@, i, Entry(v.cache, i, DirectoryEntries(v, path)))],
            DirectoryEntries(v, path))
CachedSmallReadData(v, i) ==
    IF Cached(v.cache, v.cache.small, i) THEN Ok(v, v.cache.small[i].is)
    ELSE Ok([v EXCEPT !.cache.small =
                With(@, i, Entry(v.cache, i, v.inodes[i].data))],
            v.inodes[i].data)
-----------------------------------------------------------------------------
(***************************************************************************)
(* Names.                                                                  *)
(***************************************************************************)
CheckTraversalPermissions(v, path) ==
    IF \E n \in 1 .. Len(path) - 1 :
            /\ IsDirectory(v, SubSeq(path, 1, n))
            /\ ~CheckAccess(v.inodes[v.nodes[SubSeq(path, 1, n)]], {"x"})
    THEN Err(v, "PermissionDenied")
    ELSE Ok(v, path)
ResolveFrom(v, base, arg, follow) ==
    Then(ResolvePath(v, base, arg, follow),
         LAMBDA w, path : CheckTraversalPermissions(w, path))
ResolveBelow(v, e, arg, follow) ==
    IF e.path = {} THEN Err(v, "NotDirectory")
    ELSE IF LookupPath(v, PathOf(e)) = NoInode THEN Err(v, "NoEntry")
    ELSE IF ~IsDirectory(v, PathOf(e)) THEN Err(v, "NotDirectory")
    ELSE ResolveFrom(v, PathOf(e), arg, follow)
ResolveAt(v, p, dirfd, arg, follow) ==
    IF EmptyPath(arg) THEN Err(v, "NoEntry")
    ELSE IF arg.abs \/ dirfd = AT_FDCWD
    THEN ResolveFrom(v, v.cwd, arg, follow)
    ELSE OnFd(v, p, dirfd, LAMBDA e : ResolveBelow(v, e, arg, follow))

ParentInode(v, path) ==
    IF path = Root THEN NoInode ELSE LookupPath(v, Parent(path))
CheckParentWritePermissions(v, path) ==
    IF ParentInode(v, path) = NoInode THEN Err(v, "NoEntry")
    ELSE IF ~IsDirectory(v, Parent(path)) THEN Err(v, "NotDirectory")
    ELSE IF ~CheckAccess(v.inodes[ParentInode(v, path)], {"w", "x"})
    THEN Err(v, "PermissionDenied")
    ELSE Ok(v, path)
\* a name that may be made: a directory above it that may be written
NewName(v, path) ==
    IF LookupPath(v, path) # NoInode THEN Err(v, "AlreadyExists")
    ELSE Then(EnsureParentDir(v, path),
              LAMBDA w, x : CheckParentWritePermissions(w, path))
InsertNew(v, path, node) ==
    Then(NewName(v, path), LAMBDA w, x :
        Then(InsertPathNode(w, path, node), LAMBDA u, i :
            Ok(InvalidateInodeCache(u, ParentInode(u, path)), i)))

DropLink(v, p, i) ==
    LET w == [v EXCEPT !.inodes[i].nlink = IF @ = 0 THEN 0 ELSE @ - 1]
    IN IF LinkCount(w, i) = 0 /\ OpenCount(w, p, i) = 0
       THEN [w EXCEPT !.inodes = Without(@, {i})] ELSE w
-----------------------------------------------------------------------------
(***************************************************************************)
(* Opening and closing.                                                    *)
(***************************************************************************)
FileKind(kind) == CASE kind = "File" -> "Regular"
                    [] kind = "Device" -> "Dev"
                    [] OTHER -> kind
WantedAccess(flags) == flags \cap {"r", "w"}
Truncates(v, i, flags) ==
    "trunc" \in flags /\ CanWrite(flags) /\ v.inodes[i].kind = "File"

OpenInode(v, p, path, flags, i, created, truncated) ==
    Then(InsertOpen(v, p, FileKind(v.inodes[i].kind), i,
                    flags \ {"creat", "excl", "trunc"}, path), LAMBDA w, fd :
        Ok(InvalidateInodeCaches(w,
                (IF created THEN {ParentInode(w, path)} ELSE {})
                    \cup (IF truncated THEN {i} ELSE {})), fd))
OpenNode(v, p, path, flags, i, created) ==
    LET kind == v.inodes[i].kind
    IN IF "directory" \in flags /\ kind # "Directory"
       THEN Err(v, "NotDirectory")
       ELSE IF kind = "Symlink" /\ "nofollow" \in flags THEN Err(v, "Loop")
       ELSE IF kind = "Directory" /\ CanWrite(flags)
       THEN Err(v, "IsDirectory")
       ELSE IF ~created /\ ~CheckAccess(v.inodes[i], WantedAccess(flags))
       THEN Err(v, "PermissionDenied")
       ELSE Then(IF Truncates(v, i, flags) THEN SetLen(v, i, 0) ELSE Ok(v, 0),
                 LAMBDA w, x : OpenInode(w, p, path, flags, i, created,
                                         Truncates(v, i, flags)))
CreateResolvedFile(v, path, mode) ==
    Then(EnsureParentDir(v, path), LAMBDA w, x :
        Then(CheckParentWritePermissions(w, path), LAMBDA u, y :
            InsertPathNode(u, path, FileNode(mode \ v.umask))))
OpenPath(v, p, path, flags, mode, i) ==
    IF i = NoInode
    THEN IF "creat" \notin flags THEN Err(v, "NoEntry")
         ELSE Then(CreateResolvedFile(v, path, mode), LAMBDA w, j :
                    OpenNode(w, p, path, flags, j, TRUE))
    ELSE IF {"creat", "excl"} \subseteq flags THEN Err(v, "AlreadyExists")
    ELSE OpenNode(v, p, path, flags, i, FALSE)
Openat(v, p, dirfd, arg, flags, mode) ==
    Then(ResolveAt(v, p, dirfd, arg, Follows(flags)),
         LAMBDA w, path : OpenPath(w, p, path, flags, mode,
                                   LookupPath(w, path)))

ForgetUnlinked(v, i) ==
    IF i \in DOMAIN v.inodes /\ LinkCount(v, i) = 0
    THEN InvalidateInodeCache([v EXCEPT !.inodes = Without(@, {i})], i)
    ELSE v
CloseWithFile(v, p, fd) ==
    Then(FdClose(v, p, fd),
         LAMBDA w, e : Ok(ForgetUnlinked(w, e.inode), e))
-----------------------------------------------------------------------------
(***************************************************************************)
(* Reading and writing.                                                    *)
(***************************************************************************)
ReadMemoryAt(data, offset, n) ==
    SubSeq(data, offset + 1, Lesser(offset + n, Len(data)))
ReadRegularInodeAt(v, i, offset, n) ==
    IF i \notin DOMAIN v.inodes THEN Err(v, "NoEntry")
    ELSE IF ~v.inodes[i].deferred
    THEN Ok(v, ReadMemoryAt(v.inodes[i].data, offset, n))
    ELSE Then(HostReadHandle(v, i), LAMBDA w, x :
                Ok(w, ReadMemoryAt(HostData, offset, n)))

\* cached_small_read_for_entry, and the read of a larger or deferred file
ReadFileAt(v, e, offset, n) ==
    IF n = 0 THEN Ok(v, <<>>)
    ELSE IF e.inode \notin DOMAIN v.inodes THEN Err(v, "NoEntry")
    ELSE IF v.inodes[e.inode].deferred
            \/ Len(v.inodes[e.inode].data) > SMALL_READ_CACHE_LIMIT
    THEN ReadRegularInodeAt(v, e.inode, offset, n)
    ELSE Then(CachedSmallReadData(v, e.inode), LAMBDA w, data :
                Ok(w, ReadMemoryAt(data, offset, n)))

OnReadable(v, p, fd, F(_)) ==
    OnFd(v, p, fd, LAMBDA e :
        IF ~CanRead(FlagsOf(v, e)) THEN Err(v, "BadFd") ELSE F(e))
Advance(v, e, offset, bytes) ==
    Ok(SetOffset(v, e, offset + Len(bytes)), bytes)
VfsRead(v, p, fd, n) ==
    OnReadable(v, p, fd, LAMBDA e :
        IF e.kind # "Regular" THEN FdRead(v, p, fd, n)
        ELSE Then(ReadFileAt(v, e, OffsetOf(v, e), n), LAMBDA w, bytes :
                    Advance(w, e, OffsetOf(v, e), bytes)))
ReadvRegular(v, p, fd, n) ==
    OnReadable(v, p, fd, LAMBDA e :
        IF n = 0 THEN Ok(v, <<>>)
        ELSE Then(ReadRegularInodeAt(v, e.inode, OffsetOf(v, e), n),
                  LAMBDA w, bytes : Advance(w, e, OffsetOf(v, e), bytes)))
VfsPread(v, p, fd, offset, n) ==
    OnReadable(v, p, fd, LAMBDA e :
        IF e.kind = "Regular" THEN ReadFileAt(v, e, offset, n)
        ELSE IF e.kind = "Dev" THEN Ok(v, <<>>)
        ELSE Err(v, "BadFd"))

InvalidateWritten(v, e, count) ==
    IF e.kind = "Regular" /\ count > 0
    THEN Ok(InvalidateInodeCache(v, e.inode), count) ELSE Ok(v, count)
VfsWrite(v, p, fd, bytes) ==
    OnFd(v, p, fd, LAMBDA e :
        Then(FdWrite(v, p, fd, bytes),
             LAMBDA w, count : InvalidateWritten(w, e, count)))
WritevRegular(v, p, fd, bytes) ==
    OnFd(v, p, fd, LAMBDA e :
        IF ~CanWrite(FlagsOf(v, e)) THEN Err(v, "BadFd")
        ELSE IF e.inode \notin DOMAIN v.inodes THEN Err(v, "NoEntry")
        ELSE IF bytes = <<>> THEN Ok(v, 0)
        ELSE Then(WriteRegular(v, e, bytes, WriteOffset(v, e)),
                  LAMBDA w, count : InvalidateWritten(w, e, count)))
VfsPwrite(v, p, fd, offset, bytes) ==
    OnFd(v, p, fd, LAMBDA e :
        IF ~CanWrite(FlagsOf(v, e)) \/ e.kind # "Regular" THEN Err(v, "BadFd")
        ELSE IF e.inode \notin DOMAIN v.inodes THEN Err(v, "NoEntry")
        ELSE Then(WriteAt(v, e.inode, offset, bytes),
                  LAMBDA w, count : InvalidateWritten(w, e, count)))

OnWritableFile(v, p, fd, F(_)) ==
    OnFd(v, p, fd, LAMBDA e :
        IF ~CanWrite(FlagsOf(v, e)) THEN Err(v, "BadFd")
        ELSE IF e.kind # "Regular" THEN Err(v, "InvalidPath")
        ELSE IF e.inode \notin DOMAIN v.inodes THEN Err(v, "NoEntry")
        ELSE F(e))
ResizeFileQuietly(v, i, len) == SetLen(v, i, len)
ResizeFile(v, i, len) ==
    Then(SetLen(v, i, len),
         LAMBDA w, x : Ok(InvalidateInodeCache(w, i), x))
Ftruncate(v, p, fd, len) ==
    OnWritableFile(v, p, fd, LAMBDA e : ResizeFile(v, e.inode, len))
Fallocate(v, p, fd, offset, len) ==
    OnWritableFile(v, p, fd, LAMBDA e :
        IF v.inodes[e.inode].size < offset + len
        THEN ResizeFile(v, e.inode, offset + len) ELSE Ok(v, 0))

\* regular_file_cache_key: what the executable page cache goes by
RegularFileCacheKey(v, i) == KeyGeneration(v.cache, i)
-----------------------------------------------------------------------------
(***************************************************************************)
(* Metadata and directories.                                               *)
(***************************************************************************)
\* a file that no inode of the tree describes
AnonymousAttr == Attr(Node("Anonymous", {"r", "w"}, 1, <<>>))
Fstat(v, p, fd) ==
    OnFd(v, p, fd, LAMBDA e :
        IF e.kind \in Seekable \cup {"Dev"} /\ e.inode \in DOMAIN v.inodes
        THEN CachedMetadata(v, e.inode) ELSE Ok(v, AnonymousAttr))
StatPath(v, path) ==
    IF LookupPath(v, path) = NoInode THEN Err(v, "NoEntry")
    ELSE CachedMetadata(v, LookupPath(v, path))
Newfstatat(v, p, dirfd, arg, flags) ==
    IF EmptyPath(arg) /\ "empty" \in flags THEN Fstat(v, p, dirfd)
    ELSE Then(ResolveAt(v, p, dirfd, arg, Follows(flags)),
              LAMBDA w, path : StatPath(w, path))
Faccessat2(v, p, dirfd, arg, want, flags) ==
    Then(Newfstatat(v, p, dirfd, arg, flags), LAMBDA w, attr :
        IF CheckAccess(attr, want) THEN Ok(w, 0)
        ELSE Err(w, "PermissionDenied"))

ReadlinkResolved(v, path) ==
    IF LookupPath(v, path) = NoInode THEN Err(v, "NoEntry")
    ELSE IF v.inodes[v.nodes[path]].kind # "Symlink" THEN Err(v, "InvalidPath")
    ELSE Ok(v, v.inodes[v.nodes[path]].target)
\* an empty path names the file of the descriptor
Readlinkat(v, p, dirfd, arg) ==
    IF EmptyPath(arg)
    THEN OnFd(v, p, dirfd, LAMBDA e :
            IF e.path = {} THEN Err(v, "NoEntry")
            ELSE ReadlinkResolved(v, PathOf(e)))
    ELSE Then(ResolveAt(v, p, dirfd, arg, FALSE),
              LAMBDA w, path : ReadlinkResolved(w, path))

\* chmod, chown and utimensat: one attribute of an inode
SetMetadata(v, i, F(_)) ==
    IF i \notin DOMAIN v.inodes THEN Err(v, "NoEntry")
    ELSE Ok(InvalidateInodeCache([v EXCEPT !.inodes[i] = F(@)], i), 0)
Chmod(v, p, arg, mode) ==
    Then(ResolveAt(v, p, AT_FDCWD, arg, TRUE), LAMBDA w, path :
        SetMetadata(w, LookupPath(w, path),
                    LAMBDA n : [n EXCEPT !.mode = mode]))
Utimensat(v, p, dirfd, arg, time, flags) ==
    IF EmptyPath(arg) /\ "empty" \in flags
    THEN OnFd(v, p, dirfd, LAMBDA e :
            SetMetadata(v, e.inode, LAMBDA n : [n EXCEPT !.time = time]))
    ELSE Then(ResolveAt(v, p, dirfd, arg, Follows(flags)), LAMBDA w, path :
            SetMetadata(w, LookupPath(w, path),
                        LAMBDA n : [n EXCEPT !.time = time]))

ListingOf(v, e, max, path) ==
    IF LookupPath(v, path) = NoInode THEN Err(v, "NoEntry")
    ELSE Then(CachedDirectoryEntries(v, LookupPath(v, path), path),
              LAMBDA w, entries : ConsumeDirectoryEntries(w, e, max, entries))
Getdents64(v, p, fd, max) ==
    OnFd(v, p, fd, LAMBDA e :
        IF e.kind # "Directory" THEN Err(v, "NotDirectory")
        ELSE ListingOf(v, e, max, PathOf(e)))

Mkdirat(v, p, dirfd, arg, mode) ==
    Then(ResolveAt(v, p, dirfd, arg, FALSE), LAMBDA w, path :
        InsertNew(w, path, DirectoryNode(mode \ v.umask)))
Symlinkat(v, p, target, dirfd, arg) ==
    IF EmptyPath(target) THEN Err(v, "InvalidPath")
    ELSE Then(ResolveAt(v, p, dirfd, arg, FALSE), LAMBDA w, path :
            InsertNew(w, path, SymlinkNode(target)))

RemoveNameParentOnly(v, p, path, parent) ==
    Then(RemovePathLink(v, path), LAMBDA w, i :
        Ok(InvalidateInodeCache(DropLink(w, p, i), parent), i))
RemoveName(v, p, path, parent) ==
    Then(RemovePathLink(v, path), LAMBDA w, i :
        Ok(InvalidateInodeCaches(DropLink(w, p, i), {parent, i}), i))
UnlinkPath(v, p, path, removeDir) ==
    IF path = Root THEN Err(v, "PermissionDenied")
    ELSE IF LookupPath(v, path) = NoInode THEN Err(v, "NoEntry")
    ELSE IF removeDir /\ ~IsDirectory(v, path) THEN Err(v, "NotDirectory")
    ELSE IF removeDir /\ ~IsEmptyDirectory(v, path) THEN Err(v, "NotEmpty")
    ELSE IF ~removeDir /\ IsDirectory(v, path) THEN Err(v, "IsDirectory")
    ELSE Then(CheckParentWritePermissions(v, path), LAMBDA w, x :
            RemoveName(w, p, path, ParentInode(w, path)))
Unlinkat(v, p, dirfd, arg, removeDir) ==
    Then(ResolveAt(v, p, dirfd, arg, FALSE),
         LAMBDA w, path : UnlinkPath(w, p, path, removeDir))

LinkToUncounted(v, old, path) ==
    Then(NewName(v, path), LAMBDA w, x :
        Then(InsertLink(w, path, old), LAMBDA u, i :
            Ok(InvalidateInodeCaches(u, {ParentInode(u, path), i}), i)))
LinkTo(v, old, path) ==
    Then(NewName(v, path), LAMBDA w, x :
        Then(InsertLink([w EXCEPT !.inodes[old].nlink = @ + 1], path, old),
             LAMBDA u, i :
                Ok(InvalidateInodeCaches(u, {ParentInode(u, path), i}), i)))
LinkInode(v, p, old, newdirfd, newarg) ==
    IF old \notin DOMAIN v.inodes THEN Err(v, "NoEntry")
    ELSE IF v.inodes[old].kind = "Directory" THEN Err(v, "NotPermitted")
    ELSE Then(ResolveAt(v, p, newdirfd, newarg, FALSE),
              LAMBDA w, path : LinkTo(w, old, path))
\* an empty oldpath (AT_EMPTY_PATH) links the file of the descriptor
Linkat(v, p, olddirfd, oldarg, newdirfd, newarg, flags) ==
    IF EmptyPath(oldarg) /\ "empty" \in flags
    THEN OnFd(v, p, olddirfd, LAMBDA e :
            IF e.path = {} THEN Err(v, "NoEntry")
            ELSE LinkInode(v, p, e.inode, newdirfd, newarg))
    ELSE Then(ResolveAt(v, p, olddirfd, oldarg, "follow" \in flags),
              LAMBDA w, path :
            LinkInode(w, p, LookupPath(w, path), newdirfd, newarg))

Chdir(v, p, arg) ==
    Then(ResolveAt(v, p, AT_FDCWD, arg, TRUE), LAMBDA w, path :
        IF LookupPath(w, path) = NoInode THEN Err(w, "NoEntry")
        ELSE IF ~IsDirectory(w, path) THEN Err(w, "NotDirectory")
        ELSE IF ~CheckAccess(w.inodes[w.nodes[path]], {"x"})
        THEN Err(w, "PermissionDenied")
        ELSE Ok([w EXCEPT !.cwd = path], 0))
Umask(v, mask) == Ok([v EXCEPT !.umask = mask], 0)
-----------------------------------------------------------------------------
(***************************************************************************)
(* renameat2.                                                              *)
(***************************************************************************)
RemoveLinks(v, paths) ==
    FoldSet(LAMBDA q, w : RemovePathLink(w, q).v, v, paths)
\* moves maps the paths that take part to where they go
InsertLinks(v, from, moves) ==
    FoldSet(LAMBDA q, w : InsertLink(w, moves[q], from[q]).v, v, DOMAIN moves)
Relink(v, moves) == InsertLinks(RemoveLinks(v, DOMAIN moves), v.nodes, moves)

Moves(v, old, new) ==
    [q \in PathsUnderPrefix(v, old) |-> ReplacePrefix(q, old, new)]
MovePath(v, p, old, new) ==
    RebindPaths(Relink(v, Moves(v, old, new)), p, old, new)

ValidateRenameReplacement(v, old, new) ==
    CASE IsDirectory(v, old) /\ ~IsDirectory(v, new) -> "NotDirectory"
      [] ~IsDirectory(v, old) /\ IsDirectory(v, new) -> "IsDirectory"
      [] IsDirectory(v, old) /\ IsDirectory(v, new)
            /\ ~IsEmptyDirectory(v, new) -> "NotEmpty"
      [] OTHER -> ""
RemoveExistingRenameTarget(v, p, new) ==
    IF LookupPath(v, new) = NoInode THEN v
    ELSE DropLink(RemovePathLink(v, new).v, p, LookupPath(v, new))

ReplaceByRename(v, p, old, new) ==
    IF LookupPath(v, new) # NoInode
        /\ ValidateRenameReplacement(v, old, new) # ""
    THEN Err(v, ValidateRenameReplacement(v, old, new))
    ELSE Ok(InvalidateInodeCaches(
                MovePath(RemoveExistingRenameTarget(v, p, new), p, old, new),
                {ParentInode(v, old), ParentInode(v, new),
                 LookupPath(v, new)}), 0)

ExchangePaths(v, p, old, new) ==
    IF \/ IsDirectory(v, old) /\ StartsWith(new, old)
       \/ IsDirectory(v, new) /\ StartsWith(old, new)
    THEN Err(v, "InvalidPath")
    ELSE Ok(InvalidateVfsCaches(RebindPaths(RebindPaths(
                Relink(v, Moves(v, old, new) @@ Moves(v, new, old)),
                p, old, new), p, new, old)), 0)

RenameResolved(v, p, old, new, flag) ==
    IF old = Root \/ new = Root THEN Err(v, "PermissionDenied")
    ELSE IF LookupPath(v, old) = NoInode THEN Err(v, "NoEntry")
    ELSE IF old = new THEN Ok(v, 0)
    ELSE IF flag = "noreplace" /\ LookupPath(v, new) # NoInode
    THEN Err(v, "AlreadyExists")
    ELSE IF IsDirectory(v, old) /\ StartsWith(new, old) /\ flag # "exchange"
    THEN Err(v, "InvalidPath")
    ELSE Then(EnsureParentDir(v, new), LAMBDA w, x :
        Then(CheckParentWritePermissions(w, old), LAMBDA u, y :
        Then(CheckParentWritePermissions(u, new), LAMBDA t, z :
            IF flag # "exchange" THEN ReplaceByRename(t, p, old, new)
            ELSE IF LookupPath(t, new) = NoInode THEN Err(t, "NoEntry")
            ELSE ExchangePaths(t, p, old, new))))
Renameat2(v, p, olddirfd, oldarg, newdirfd, newarg, flag) ==
    Then(ResolveAt(v, p, olddirfd, oldarg, FALSE), LAMBDA w, old :
        Then(ResolveAt(w, p, newdirfd, newarg, FALSE), LAMBDA u, new :
            RenameResolved(u, p, old, new, flag)))
=============================================================================
