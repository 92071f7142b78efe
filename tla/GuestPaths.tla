----------------------------- MODULE GuestPaths -----------------------------
(***************************************************************************)
(* The guest's tree of paths (crates/mcr-vfs/src/path.rs): the map from    *)
(* paths to inodes, the inodes, the index of a directory's children, and   *)
(* the resolver that walks a path through directories and symbolic links.  *)
(* The operators take and return the record v of the whole file system; a  *)
(* call returns the record, an error ("" for none) and a value.            *)
(*                                                                         *)
(* A path is the sequence of its components, a path argument also says     *)
(* whether it is absolute.  Permission bits are the sets r, w, x: the code *)
(* asks whether anybody has them.  Sizes count bytes of a small alphabet;  *)
(* times are one value, the one utimensat sets.                            *)
(***************************************************************************)
EXTENDS Integers, Sequences, FiniteSets, Functions, SequencesExt

CONSTANTS
    SYMLINK_LIMIT,  \* links one walk may follow
    HostData        \* contents of the host file behind a deferred inode

ROOT_INODE_ID == 1
NoInode == 0
Root == <<>>

Ok(v, x) == [v |-> v, err |-> "", val |-> x]
Err(v, e) == [v |-> v, err |-> e, val |-> NoInode]
Then(r, F(_, _)) == IF r.err = "" THEN F(r.v, r.val) ELSE r

With(f, k, x) == [y \in DOMAIN f \cup {k} |-> IF y = k THEN x ELSE f[y]]
Without(f, K) == Restrict(f, DOMAIN f \ K)
Least(S) == CHOOSE n \in S : \A m \in S : n <= m
Lesser(m, n) == IF m < n THEN m ELSE n
-----------------------------------------------------------------------------
(***************************************************************************)
(* GuestPath.                                                              *)
(***************************************************************************)
Parent(p) == SubSeq(p, 1, Len(p) - 1)
StartsWith(p, q) == IsPrefix(q, p)
ReplacePrefix(p, old, new) == new \o SubSeq(p, Len(old) + 1, Len(p))
-----------------------------------------------------------------------------
(***************************************************************************)
(* PathNode.                                                               *)
(***************************************************************************)
NoTarget == [abs |-> FALSE, comps |-> <<>>]
Node(kind, mode, nlink, data) ==
    [kind |-> kind, mode |-> mode, nlink |-> nlink, size |-> Len(data),
     time |-> 0, data |-> data, deferred |-> FALSE, target |-> NoTarget]
DirectoryNode(mode) == Node("Directory", mode, 2, <<>>)
FileNode(mode) == Node("File", mode, 1, <<>>)
SymlinkNode(target) ==
    [Node("Symlink", {"r", "w", "x"}, 1, <<>>)
        EXCEPT !.target = target, !.size = Len(target.comps)]

Attr(n) == [kind |-> n.kind, mode |-> n.mode, nlink |-> n.nlink,
            size |-> n.size, time |-> n.time]

\* check_access, for somebody
CheckAccess(n, want) == want \subseteq n.mode

Resize(data, len) ==
    [k \in 1 .. len |-> IF k <= Len(data) THEN data[k] ELSE 0]

\* materialize_deferred_content: one read of the host file, which may fail
Materialize(v, i) ==
    IF ~v.inodes[i].deferred THEN Ok(v, i)
    ELSE IF ~v.host_readable THEN Err(v, "NoEntry")
    ELSE Ok([v EXCEPT !.inodes[i].data = HostData,
                      !.inodes[i].deferred = FALSE], i)

SetLen(v, i, len) ==
    IF v.inodes[i].kind # "File" THEN Err(v, "InvalidPath")
    ELSE Then(Materialize(v, i), LAMBDA w, x :
            Ok([w EXCEPT !.inodes[i].data = Resize(@, len),
                         !.inodes[i].size = len], len))

Overwrite(data, offset, bytes) ==
    [k \in 1 .. Len(data) |->
        IF k \in offset + 1 .. offset + Len(bytes) THEN bytes[k - offset]
        ELSE data[k]]
Grow(data, len) == IF Len(data) < len THEN Resize(data, len) ELSE data
StoreData(v, i, data) ==
    [v EXCEPT !.inodes[i].data = data, !.inodes[i].size = Len(data)]
WriteAt(v, i, offset, bytes) ==
    IF v.inodes[i].kind # "File" THEN Err(v, "InvalidPath")
    ELSE Then(Materialize(v, i), LAMBDA w, x :
            Ok(StoreData(w, i,
                    Overwrite(Grow(w.inodes[i].data, offset + Len(bytes)),
                              offset, bytes)),
               Len(bytes)))
-----------------------------------------------------------------------------
(***************************************************************************)
(* PathTree.                                                               *)
(***************************************************************************)
LookupPath(v, p) ==
    IF p \in DOMAIN v.nodes /\ v.nodes[p] \in DOMAIN v.inodes
    THEN v.nodes[p] ELSE NoInode
IsDirectory(v, p) ==
    LookupPath(v, p) # NoInode /\ v.inodes[v.nodes[p]].kind = "Directory"
Inode(v, i) == v.inodes[i]

ChildrenOf(v, p) ==
    IF p \in DOMAIN v.children THEN v.children[p] ELSE <<>>
IndexChild(v, p, i) ==
    IF p = Root THEN v
    ELSE [v EXCEPT !.children =
            With(@, Parent(p), With(ChildrenOf(v, Parent(p)), Last(p), i))]
\* a directory without children has no entry of its own
UnindexOnly(v, p, rest) ==
    [v EXCEPT !.children =
        IF DOMAIN rest = {} THEN Without(@, {Parent(p)})
        ELSE With(@, Parent(p), rest)]
UnindexChild(v, p) ==
    IF p = Root \/ Parent(p) \notin DOMAIN v.children THEN v
    ELSE UnindexOnly(v, p, Without(v.children[Parent(p)], {Last(p)}))

EnsureParentDir(v, p) ==
    IF p = Root THEN Err(v, "InvalidPath")
    ELSE IF LookupPath(v, Parent(p)) = NoInode THEN Err(v, "NoEntry")
    ELSE IF ~IsDirectory(v, Parent(p)) THEN Err(v, "NotDirectory")
    ELSE Ok(v, p)

InsertLink(v, p, i) ==
    IF p \in DOMAIN v.nodes THEN Err(v, "AlreadyExists")
    ELSE IF i \notin DOMAIN v.inodes THEN Err(v, "NoEntry")
    ELSE Ok(IndexChild([v EXCEPT !.nodes = With(@, p, i)], p, i), i)

\* allocate_inode_id and insert_path_node
InsertPathNode(v, p, n) ==
    IF p \in DOMAIN v.nodes THEN Err(v, "AlreadyExists")
    ELSE Ok(IndexChild(
                [v EXCEPT !.inodes = With(@, v.next_inode_id, n),
                          !.nodes = With(@, p, v.next_inode_id),
                          !.next_inode_id = @ + 1],
                p, v.next_inode_id),
            v.next_inode_id)

RemovePathLink(v, p) ==
    IF p \notin DOMAIN v.nodes THEN Err(v, "NoEntry")
    ELSE Ok(UnindexChild([v EXCEPT !.nodes = Without(@, {p})], p), v.nodes[p])

IsEmptyDirectory(v, p) == p \notin DOMAIN v.children
PathsUnderPrefix(v, p) == {q \in DOMAIN v.nodes : StartsWith(q, p)}
LinkCount(v, i) == Cardinality({q \in DOMAIN v.nodes : v.nodes[q] = i})
-----------------------------------------------------------------------------
(***************************************************************************)
(* PathResolver.                                                           *)
(***************************************************************************)
\* the longest prefixes of p that are something other than a directory
NonDirectories(v, p) ==
    {n \in 1 .. Len(p) : /\ LookupPath(v, SubSeq(p, 1, n)) # NoInode
                         /\ ~IsDirectory(v, SubSeq(p, 1, n))}
LinkAt(v, p, n) ==
    IF Inode(v, LookupPath(v, SubSeq(p, 1, n))).kind = "Symlink"
    THEN {[parent |-> SubSeq(p, 1, n - 1),
           abs |-> Inode(v, LookupPath(v, SubSeq(p, 1, n))).target.abs,
           comps |-> Inode(v, LookupPath(v, SubSeq(p, 1, n))).target.comps
                        \o SubSeq(p, n + 1, Len(p))]}
    ELSE {}
LookupSymlinkPlaceholder(v, p) ==
    UNION {LinkAt(v, p, n) : n \in {m \in NonDirectories(v, p) :
                                    \A k \in NonDirectories(v, p) : k <= m}}

Followed(link) == IF link.abs THEN Root ELSE link.parent

RECURSIVE Walk(_, _, _, _, _)
Step(v, next, rest, follow, links, placeholder) ==
    CASE placeholder # {} /\ ~follow /\ rest = <<>> ->
             Walk(v, next, rest, follow, links)
      [] placeholder # {} /\ (follow \/ rest # <<>>) ->
             IF links + 1 > SYMLINK_LIMIT THEN Err(v, "Loop")
             ELSE LET link == CHOOSE l \in placeholder : TRUE
                  IN Walk(v, Followed(link), link.comps \o rest, follow,
                          links + 1)
      [] placeholder = {} /\ LookupPath(v, next) # NoInode ->
             IF ~IsDirectory(v, next) /\ rest # <<>>
             THEN Err(v, "NotDirectory")
             ELSE Walk(v, next, rest, follow, links)
      [] OTHER -> IF rest = <<>> THEN Ok(v, next) ELSE Err(v, "NoEntry")
Walk(v, current, pending, follow, links) ==
    CASE pending = <<>> -> Ok(v, current)
      [] pending # <<>> /\ Head(pending) = "." ->
             Walk(v, current, Tail(pending), follow, links)
      [] pending # <<>> /\ Head(pending) = ".." ->
             Walk(v, IF current = Root THEN Root ELSE Parent(current),
                  Tail(pending), follow, links)
      [] OTHER ->
             LET next == Append(current, Head(pending))
             IN Step(v, next, Tail(pending), follow, links,
                     LookupSymlinkPlaceholder(v, next))

\* resolve_path_with_options from a directory; the value is a path
ResolvePath(v, base, arg, follow) ==
    IF ~arg.abs /\ arg.comps = <<>> THEN Err(v, "InvalidPath")
    ELSE Walk(v, IF arg.abs THEN Root ELSE base, arg.comps, follow, 0)
=============================================================================
