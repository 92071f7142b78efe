---------------------------- MODULE MCFilesystem ----------------------------
(***************************************************************************)
(* The scenarios RuntimeFileSystem is checked with.                        *)
(***************************************************************************)
EXTENDS RuntimeFileSystem, TLC

MCNameOrder == <<"a", "b", "c">>
MCHostData == <<7, 8>>

Abs(comps) == [abs |-> TRUE, comps |-> comps]
Rel(comps) == [abs |-> FALSE, comps |-> comps]

Stdin == [kind |-> "Dev", inode |-> 300, desc |-> 1, path |-> {}]
EmptyTree ==
    [nodes |-> (Root :> ROOT_INODE_ID),
     inodes |-> (ROOT_INODE_ID :> DirectoryNode({"r", "w", "x"})),
     children |-> <<>>, next_inode_id |-> 2, procs |-> {1},
     fds |-> [p \in Pid |-> IF p = 1 THEN (0 :> Stdin) ELSE <<>>],
     cloexec |-> [p \in Pid |-> {}],
     descs |-> (1 :> [offset |-> 0, dir_cursor |-> 0, flags |-> {"r"}]),
     pipes |-> <<>>, eventfds |-> <<>>, cwd |-> Root, umask |-> {},
     cache |-> EmptyCache, host_readable |-> TRUE]

AddDir(s, path) == InsertPathNode(s, path, DirectoryNode({"r", "w", "x"})).v
AddFile(s, path, data) ==
    InsertPathNode(s, path, Node("File", {"r", "w"}, 1, data)).v
AddHostFile(s, path) ==
    InsertPathNode(s, path, [Node("File", {"r", "w"}, 1, <<>>)
                    EXCEPT !.deferred = TRUE, !.size = Len(HostData)]).v
AddLink(s, path, target) == InsertPathNode(s, path, SymlinkNode(target)).v
Opened(s, arg, flags) == Openat(s, 1, AT_FDCWD, arg, flags, {}).v

Scenario(direct, ops, max, tree) ==
    [direct |-> direct, ops |-> ops, max |-> max, tree |-> tree,
     args |-> {}, flags |-> {}, dirfds |-> {AT_FDCWD}, lens |-> {2},
     bytes |-> {<<5>>}, offsets |-> {0}, bufs |-> {"direct"}]

\* a directory with a file, a file and a symbolic link to the directory
SmallTree ==
    AddLink(AddFile(AddFile(AddDir(EmptyTree, <<"a">>), <<"a", "b">>, <<1>>),
                    <<"b">>, <<2>>),
            <<"c">>, Rel(<<"a">>))

\* names: every call that makes, moves or removes one
NamesScenario ==
    [Scenario(FALSE, {"openat", "unlink", "rename", "link", "close"}, 3,
              SmallTree) EXCEPT
        !.args = {Abs(<<"a">>), Rel(<<"b">>), Rel(<<"c">>),
                  Rel(<<"c", "b">>), Rel(<<"a", "c">>)},
        !.flags = {{"r"}, {"w", "creat"}}]
MakingScenario ==
    [Scenario(FALSE, {"mkdir", "symlink", "rename", "unlink", "chdir",
                      "readlink", "umask"}, 3,
              SmallTree) EXCEPT
        !.args = {Abs(<<"a">>), Rel(<<"b">>), Rel(<<"c", "..", "b">>),
                  Rel(<<"c", ".", "c">>), Rel(<<>>), Rel(<<"b", "b">>)}]

\* an open directory as the base of the names, and permission bits
DirfdScenario ==
    [Scenario(FALSE, {"openat", "mkdir", "unlink", "rename", "chmod",
                      "access", "link", "stat"}, 2,
              Opened(Opened(SmallTree, Abs(<<"a">>), {"r"}),
                     Abs(<<"b">>), {"r"})) EXCEPT
        !.args = {Rel(<<"b">>), Rel(<<"c">>), Abs(<<"a">>), Rel(<<>>)},
        !.flags = {{"w", "creat", "excl"}, {"r", "directory"},
                   {"w", "nofollow"}, {"r", "creat", "directory"}},
        !.dirfds = {AT_FDCWD, 1, 2}]

\* a file that is unlinked while several descriptors have it open
UnlinkScenario ==
    [Scenario(FALSE, {"unlink", "close", "dup", "fork", "exit", "read",
                      "link"}, 3,
              Opened(SmallTree, Abs(<<"b">>), {"r"})) EXCEPT
        !.args = {Abs(<<"b">>), Abs(<<"a", "c">>)}]

\* the caches, used without the runtime's selection in between
CacheScenario ==
    [Scenario(TRUE, {"stat", "getdents64", "read", "write", "chmod",
                     "utimensat", "unlink", "rename", "link", "mkdir",
                     "ftruncate"}, 3,
              Opened(Opened(SmallTree, Abs(<<"a">>), {"r"}),
                     Abs(<<"b">>), {"r", "w"})) EXCEPT
        !.args = {Abs(<<"b">>), Rel(<<"a", "c">>)}]
\* what the caches are not told: writes of no bytes beyond the end of a file,
\* and files created by opening a directory
QuietScenario(direct) ==
    [Scenario(direct, {"stat", "read", "getdents64", "write", "pwrite64",
                       "writev", "pwritev2", "lseek", "openat"}, 3,
              Opened(Opened(SmallTree, Abs(<<"a">>), {"r"}),
                     Abs(<<"b">>), {"r", "w"})) EXCEPT
        !.args = {Abs(<<"b">>), Rel(<<"a", "c">>)},
        !.flags = {{"r", "creat", "directory"}},
        !.bytes = {<<>>, <<5>>}, !.offsets = {2},
        !.bufs = {"direct", "bad"}]
\* large and small files, appended to and truncated
ContentScenario ==
    [Scenario(TRUE, {"read", "write", "pread64", "pwrite64", "writev",
                     "readv", "pwritev2", "lseek", "ftruncate", "fallocate",
                     "openat"}, 3,
              Opened(AddFile(EmptyTree, <<"a">>, <<1>>),
                     Abs(<<"a">>), {"r", "w", "append"})) EXCEPT
        !.args = {Abs(<<"a">>)}, !.flags = {{"r", "w", "trunc"}},
        !.offsets = {0, 2}, !.bufs = {"direct", "copied", "bad"},
        !.bytes = {<<5>>}, !.lens = {1}]
\* more host files than the runtime keeps open, one gone from the host
HostScenario ==
    [Scenario(FALSE, {"read", "write", "pread64", "host_gone", "unlink",
                      "exec", "close_range", "ftruncate"}, 4,
              Opened(Opened(AddHostFile(AddHostFile(EmptyTree, <<"a">>),
                                        <<"b">>),
                            Abs(<<"a">>), {"r", "w"}),
                     Abs(<<"b">>), {"r", "w"})) EXCEPT
        !.args = {Abs(<<"a">>), Abs(<<"b">>)}, !.lens = {1}]

\* pipes and counters shared by two processes
PipeScenario ==
    [Scenario(FALSE, {"read", "write", "close", "dup", "fork", "exit"}, 4,
              Pipe(EmptyTree, 1, {}, TRUE).v) EXCEPT
        !.bytes = {<<5, 6>>}, !.lens = {1}]
VectorScenario ==
    [Scenario(FALSE, {"pipe", "readv", "writev", "fork", "exec", "fcntl",
                      "eventfd", "read", "write", "ioctl"}, 3,
              AddFile(EmptyTree, <<"a">>, <<1>>)) EXCEPT
        !.args = {Abs(<<"a">>)}, !.bufs = {"direct", "bad"},
        !.bytes = {<<2>>}, !.lens = {1}]

MCScenarios ==
    {NamesScenario, MakingScenario, DirfdScenario, UnlinkScenario,
     CacheScenario, QuietScenario(TRUE), QuietScenario(FALSE), ContentScenario, HostScenario, PipeScenario, VectorScenario}
=============================================================================
