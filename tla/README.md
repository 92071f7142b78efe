# A TLA+ development of mcr

mcr runs Linux guest processes on Windows: it interprets guest code or runs it
natively, traps its system calls and answers them from its own kernel, file
system and network stack; it also builds and moves the images those guests start
from. These modules model the parts whose correctness depends on the order of
events, or on arithmetic and parsing that a test samples only here and there.
TLC checks all of them on small instances; TLAPS proves what the guest kernel,
the run loop, the process contexts, the worker pool and the cache of resolved
names promise, for instances of every size.

## The system

| Part of the repository (`src/crates`) | State | Modules |
|---|---|---|
| guest kernel, `mcr-task/src/kernel` | process and task tables, scheduler indexes, signals, ids | `GuestKernel` |
| process contexts, `mcr-runtime/src/subsystems` | selected and stored memories and fd tables, deferred forks | `ProcessContext`, promise `ProcessIsolation` |
| run loop, deadlines, `mcr-runtime/src/runtime.rs` | order of the tasks, yield budget, futex and sleep deadlines | `RunLoop` |
| poll, epoll, eventfd, `mcr-runtime/src/event_state.rs` | watches, readiness, blocked calls | `EventLoop` (extends `RunLoop`) |
| address spaces, `mcr-memory` | VMAs, host allocations, program break | `AddressSpace`, promise `GuestMemoryContract` |
| native execution, `mcr-jit`, `mcr-runtime/src/native_patch.rs` | patched sites, caches by process and by content | `PatchCache`, `FsEmulation` |
| files, `mcr-vfs`, `mcr-runtime/src/filesystem.rs` | paths, inodes, descriptions, pipes, caches | `GuestPaths`, `FileDescriptors`, `VirtualFileSystem`, `RuntimeFileSystem` |
| sockets, `mcr-net`, host sockets of `mcr-win` | socket table, handles, overlapped operations, DNS cache | `SocketTable`, `HostSocket`, `DnsCache` |
| worker pool, `mcr-win/src/host_worker_pool.rs` | queue, counters, threads, condition variable | `HostWorkerPool`, promise `HostWorkerPoolContract` |
| builds, snapshots, images, `mcr-build`, `mcr-snapshot`, `mcr-image` | context, plan, layers, blobs, layout | `BuildContext`, `BuildPlanner`, `SnapshotLayers`, `ImageBuild`, `OciImages`, `ContentStore` |

The run loop resumes the blocked tasks that can go on, picks a runnable one,
selects the memory and the fd table of its process, lets it run to a system call
and dispatches that to the kernel, the files or the sockets. The runtime has one
thread, so a dispatch is one step, and concurrency among guests is the order of
the dispatches. What really runs beside it are the threads of the worker pool,
the host's completions of overlapped socket operations, and other builders on the
same content store.

`PROJECT.json` lists the hazards of this design with the line where each bites
and the properties that watch it, and for every definition the lines it models.

## Modules and code

**GuestKernel.** One action per system call handler and per scheduler function.
A map is a total function whose absent keys hold a special value. A task state is
a record of a kind and an argument; `SetTaskStates` is `set_task_state` with its
four indexes. The constant `Calls` selects the calls guests make, so that an
instance can explore one part deeply. Registers, images, exit statuses and
sessions are left out: no transition depends on them. One over-approximation:
exec and exit may happen while a signal is deliverable for any runnable task,
while the code allows that only for the first call of a forked child.

**ProcessContext.** The memories are one record (`stored`, `selected`, `pid`,
`pending`) and the tables another, with one operator per helper of `process.rs`;
an action composes them in the order of the handler. An address space is one
value. A guest's work and the system call that ends it are two steps where the
code does both in one dispatch, and the blocked waits that one dispatch resumes
are resumed one at a time; both add interleavings. **ProcessIsolation** is the
promise: each process has a memory and a table of its own, and fork copies both
at once.

**RunLoop** and **EventLoop.** A step is one turn of `run_guest_until_exit_loop`:
the scheduler with its sticky order and yield budget, or one task up to its
next system call. A call that would block leaves the task at the call instruction
and is made again once the scheduler finds the fd ready, so readiness is decided
in four places. Time is a counter that may pass between steps.

**AddressSpace.** Addresses are pages and a page holds one value; the break counts
half pages, so that rounding matters. A call is one step with the host calls it
makes, any of which may be refused. **GuestMemoryContract** is a flat array of
pages per process, without VMAs, allocations, sharing or switching.

**PatchCache** and **FsEmulation.** A page holds one instruction of interest. A
native entry patches what is not yet patched and then executes; history variables
keep what the guest put at each page. `FsEmulation` decodes, addresses, computes
and sets flags as the code does, with bytes of `ByteBits` bits so that widths,
wrapping and sign extension stay real, and defines the processor beside it.

**GuestPaths, FileDescriptors, VirtualFileSystem, RuntimeFileSystem.** Operators
on one record of the whole file system, from path resolution up to the calls;
`RuntimeFileSystem` has the actions, with buffers of the guest that are direct,
copied or unmapped.

**SocketTable** and **HostSocket.** A handle is a record with the fields of
`WinHostSocketHandle` and, marked as external, those of Winsock and the completion
port. A call that waits in the host, or talks to it more than once, stays in
`call` while completions go on. **DnsCache** is every operation of the cache.

**HostWorkerPool.** A critical section is one action, and what a thread does
between two of them another. **HostWorkerPoolContract** says that an accepted job
ends exactly once, that a bounded number is unfinished, and that the pool closes
after the last of them.

**BuildContext, BuildPlanner, SnapshotLayers, ImageBuild.** From a host directory
with ignore rules, through the instructions, to a plan, a layer, a tar archive
and back. Texts are sequences of characters only where the code cuts or matches
them. **OciImages** has references and configuration JSON; **ContentStore** has
builders that share a store and a registry, where `fs::write` is two steps and a
builder may crash between them.

The `MC...` modules give the constants their values and name the scenarios: a
behaviour stays in one scenario, that is one set of calls, so that the calls that
interact are explored deeply together.

## Runs

Each run is `tlc -config <cfg> <module>` with the names in `PROJECT.json`.

| Run | What it shows | Distinct states |
|---|---|---|
| `kernel_tree` | Through forks, vforks, threads, execs, exits and waits the tables, indexes and process tree stay consistent (`KernelInv`); only zombies leave the table and the dead stay dead (`LivesEndOnce`); every wait4 that resumes has a zombie of its own (`EachWaiterReapsItsOwnChild`); a zombie somebody waits for goes, and a blocked wait4 is left without a child only when another took it (`WaitsAreForChildren`). | 102,471 |
| `kernel_waits` | The indexes follow the states through signals, masks and futexes (`IndexesMatchStates`); no signal is slept through (`NoSignalIsSleptThrough`), one signal wakes one waiter and a thread's signal only its target (`SignalsReachTheirTarget`); SIGKILL and SIGSTOP are never masked (`UnblockableNeverMasked`); private futexes stay private through requeues (`PrivateFutexStaysInProcess`). | 195,167 |
| `contexts` | Memories and fd tables are in one place each and an execve replaces all or nothing (`ContextsAreWhole`); sockets and epoll instances are open while somebody names them and closed with the last name (`OpenWhileNamed`); the deferred fork cannot be observed (`ProcessesAreIsolated`). | 67,217 |
| `worker_pool` | No wakeup is lost (`NoLostWakeup`), shutdown drains (`ShutdownDrains`), the contract is implemented (`ImplementsContract`), a receiver is answered (`AcceptedJobIsAnswered`). | 149,121 |
| `events` | A wait has its own deadline and no other (`DeadlineOfTheWait`), ends when due (`TimeoutsAreDue`); scheduler, poll, select, epoll and the calls agree on readiness (`ReadinessAgrees`); a woken task runs (`WokenTaskRuns`). | 231,497 |
| `address_space` | The maps stay well formed (`MemoryWellFormed`), a call reports what it did (`CallsReportTheirChanges`), and each process has a flat memory (`FlatMemory`). | 45,144 |
| `filesystem` | Tree, host files and pipes are consistent (`FilesConsistent`), caches follow every change (`CachesFresh`), pipe ends are counted right (`EndpointsCounted`), failed calls change nothing and transfers move what they report (`CallsKeepTheirPromises`). | 83,061 |
| `network` | Tables and completion port describe the same operations (`HandlesAreTracked`); no byte is lost, doubled or overtaken (`StreamIntact`); outcomes reach the guest (`OutcomesAreReported`); a polled connect is resolved (`ConnectResolves`); no stale name is answered (`AnswersAreFresh`). | 191,260 |
| `native_code` | An entry executes the guest's code for the entering task (`NativeCodeIsTheGuests`); cached metadata is what a scan finds (`MetadataIsWhatAScanFinds`); emulated FS instructions do what the processor does (`EmulationIsTheProcessors`). | 85,520 |
| `images` | Plans follow the instructions (`PlanFollowsInstructions`), layers are read back (`LayersReadBack`), texts are read as meant (`TextsAreReadRight`), images travel whole (`ImagesTravelWhole`), crashes leave a layout that a build can mend (`LayoutRecovers`). | 626,311 |
| `epoll_reused_fd` | Violated: see below. | |
| `code_granted_again` | Violated: see below. | |

Deadlock is not checked: guests may all have exited or blocked for good, and the
inputs of the smaller machines are used up.

### Bounds

* Kernel. The last id is never handed out, because the `checked_add` of the
  counter fails first, so `MaxPid = 5` and `MaxTid = 6` are four processes and
  five tasks: a tree with grandchildren, or two threads in wait4 and two
  children. `kernel_waits` has three tasks in up to two processes, which two
  waiters and a sender need, and two addresses for a requeue.
* Contexts. Three processes are a pending child, its parent that was forked
  itself, and a third party; the second workload has two fds for one socket.
* Pool. Three jobs, two workers and a queue of two: the queue can be full with a
  worker idle. There are too few jobs to meet the contract's limit (queue plus
  workers); the proof covers it.
* Events. Three tasks: waiter, waker and a bystander in the order; two words for
  a requeue; timeouts up to 2, so that two deadlines differ; a yield credit of 2
  and a limit of 4 keep their proportion to the code's. Three fds and three
  nodes let a number be used again. An eventfd counts to 2, so that a write of 2
  may find room for 1 only.
* Address space. Two processes, three calls and one refusal: a mapping, a call
  that splits or shares it and one that finds the result. A heap in pieces has
  four calls, a host that refuses again what the code does about the first
  refusal has two refusals, and allocations that overlap start from three calls
  already made. Five allocations hold the mappings and their copies.
* Files. Two or three calls from prepared trees, four for host files and pipes;
  symbolic link limit 2, pipes of 3 bytes and cache limits of 1 or 2 put every
  limit within reach. Writes may be empty and begin past the end of a file.
* Network. Two bytes show an overtaking, a backlog of two a forgotten accept,
  three sockets a listener with two connections.
* Native code. Three pages make neighbouring ranges that merge and split, two
  changes of the mappings between five entries reuse what was cached before.
  `ByteBits = 2` gives operands of 2, 4, 8 and 16 bits, for which the edge values
  enumerate carries and overflows.
* Images. Two builders, three attempts and one fault: a crash, the competitor
  that meets the torn file, and the repair. Three instructions make a path that
  is copied, copied over and needed again. Texts up to length 4 over the
  characters the parsers tell apart; names of snapshots include a backslash, a
  character that is not ASCII and a trailing space.

### Fairness

* `kernel_tree`: weak fairness of `ResumeWaitingTasks` alone, which the run loop
  calls at the head of every round.
* `worker_pool`: a worker thread that can step does; a caller inside submit or
  shutdown finishes; a caller that keeps its handle receives once there is
  something. Submitting, shutting down, timing out and dropping a handle are
  not assumed to happen.
* `events`: the loop turns while a woken task has not run. It is one host thread
  that never waits; a guest that computes for ever without a system call keeps
  that thread, and is left out.
* `network`: the host answers a connect, a call that can go on does, and the
  guest polls its socket for writing again and again: the premise of
  `ConnectResolves`, which speaks of such a guest.

## Disagreements

Two runs end in a violation: TLC reaches what a document excludes.

* `epoll_reused_fd`: a watched fd is closed and its number used again; epoll_wait
  reports the new file to the old watch (`docs/architecture/networking.md:95`).
* `code_granted_again`: mprotect(PROT_EXEC) over code that already ran forgets the
  traps that are still in the code (`docs/architecture/runtime.md:174`).

In the points below the code does not do what a document, POSIX or the code around
it leads one to expect, and a property of a passing run would be false without an
exception. The property names the exception; the instance of its run reaches it,
and without it TLC finds a violation.

| Property | Exception | Code |
|---|---|---|
| `WaitsAreForChildren` | a thread stays in wait4 when a sibling reaped its only child, or when the child or its parent changed the process group (`ChildTaken`) | `wait.rs:82` |
| `ContextsAreWhole`, `OpenWhileNamed` | guests with two fds for one socket, or with a bad pointer (`ReleasesSucceed`): the second close fails, execve stops with the task replaced and the memory not, the release of a process stops half way, wait4 ends the run, and dup2 over the last fd of a socket leaves it open | `task.rs:1075`, `fd.rs:581` |
| `ReadinessAgrees` | the number of the fd was used again (`NumberReused`); a write to an eventfd of more than the room is resumed in every turn, to block again (`LargerThanTheRoom`); a wait that only a socket can end is never ended (`OnlySocketsReady`, against `networking.md:145`) | `lib.rs:661` |
| `MemoryWellFormed`, `FlatMemory`, `CallsReportTheirChanges` | spoiled memories (`Spoil`): brk grew over a heap in pieces, zeroing what was written and overlapping other VMAs; a page was moved out of an allocation that a newer one overlaps, which has old copies; the host refused the restore after a refusal, or the placing of a memory | `lib.rs:1458` |
| `FlatMemory` | brk growth makes all of the heap readable and writable (`GuestMemoryContract`) | `lib.rs:1458` |
| `CallsReportTheirChanges` | MAP_FIXED has unmapped its range before it fails; a write to executable memory that fails half way does not move the generation | `lib.rs:1616` |
| `CachesFresh`, `CallsKeepTheirPromises` | a write of no bytes past the end of a file appends zeros, and openat with O_CREAT and O_DIRECTORY creates a file before it fails, without a word to the caches (`missed`) | `filesystem.rs` |
| `CallsKeepTheirPromises` | an unlinked file is lost at the first close of any of its descriptors, and at the unlink when only another process has it open (`OpenFileKeepsInode`, against `runtime.md:363`); pwritev2 fails after it wrote earlier buffers | `filesystem.rs:208` |
| `StreamIntact` | recvmsg does not see bytes that a poll for reading received, so later bytes overtake them (`overtaken`) | `win_transport.rs:585` |
| `HandlesAreTracked`, `ConnectResolves` | a poll for reading takes the packet of a connect that completes meanwhile, and drops it (`connectDropped`) | `complete_recv_packet` |
| `AnswersAreFresh` | addresses resolved before the configuration changed are inserted after it (`overtaken`) | `insert_addresses` |
| `MetadataIsWhatAScanFinds`, `EmulationIsTheProcessors` | keys taken of code that was already patched (`FromTheGuest`); encodings that are decoded as others (`ReadDifferently`, below) | `mcr-jit` |
| `PlanFollowsInstructions` | a copied directory that is needed again loses its time (`NeededAgain`, against `build.md`); a path planned both as a directory and as a file is what came last in the plan | `push_parent_directories` |
| `LayersReadBack` | names and link targets that end in a space (`PadsAway`), that are not ASCII or have a backslash (`RefusedByReader`) are exported and not read back; names that begin like a whiteout are taken for one | `mcr-snapshot` |
| `TextsAreReadRight` | an empty word in quotes is dropped; a glob misses a match when the text behind its last `*` overlaps itself | `mcr-build` |

The models follow the code in these points too, of which no property speaks:

* Kernel and contexts. kill leaves a thread in a futex wait, while tkill ends the
  wait (`signal.rs:324`); a shared futex is known by its address alone
  (`runtime.md:269`).
* Files. dup2, close-on-exec and the end of a table never remove an unlinked
  inode; the getdents64 cursor is an index into a list that may change; a rename
  between two links of one file removes one; pwritev2 reads the low half of its
  offset; a read into a bad buffer has consumed its bytes; pipe2 with a bad pointer
  leaves its fds open; F_SETPIPE_SZ may exceed the host's buffer.
* Network. Polling an unconnected socket leaves ENOTCONN behind; SO_ERROR while
  connecting returns EINPROGRESS once and then 0; options set after the handle
  was opened do not reach the host; a failed connect makes a whole poll fail;
  accept4 leaves a socket behind when no fd is free; blocking receives and
  accepts block the run.
* Events. poll, select and a timed epoll_wait without sockets never wait; removing
  the watch of a closed fd fails; a full result favours the lowest fds; wakes by
  requeue, exit and timeout do not yield, so `WokenTaskRuns` is about the others;
  forced expiry ends a sleep early when nothing can run.
* Native code. Two-byte operands under prefix 66 are taken as four bytes; stores
  of ah, ch, dh and bh take another register; index R12 is ignored (these three are
  `ReadDifferently`); an access to unmapped memory ends the run; a page that lost
  its execute permission keeps its patches; native stores into writable code are
  not seen (`runtime.md:311`).
* Images. Re-including a file of an ignored directory has no effect; `WORKDIR /`
  and `COPY . /` cannot be exported; long names are split at the last slash only;
  blobs are written in place, also over an existing one; layers of equal digest
  give a docker archive two entries of one name.

## Proofs

Every theorem holds for all values of the constants that satisfy the named
assumptions: `KernelConstants` (at least two pids and tids, signals in 1..64 with
SIGCHLD, a value that is no address), `PoolConstants` (finite sets of workers and
jobs, at least one worker and a queue with room), `ContextConstants` (absent
values differ from real ones, sockets from epoll instances, fds are numbers), and
`RunLoopAssumption` and `EventLoopAssumption` (at least one task, a yield credit
within its limit, counts and times that are natural numbers, scenarios that open no
more fds and files than there are).

### The guest kernel

| Theorem | Property |
|---|---|
| `KernelInvariant` | `KernelInv` |
| `IndexesCorrect` | `IndexesMatchStates` |
| `LivesEnd` | `LivesEndOnce` |
| `SignalsWake` | `NoSignalIsSleptThrough` |
| `SignalsReach` | `SignalsReachTheirTarget` |
| `MasksCorrect` | `UnblockableNeverMasked` |
| `PrivateFutexesCorrect` | `PrivateFutexStaysInProcess` |
| `WaitersReapTheirOwn` | `EachWaiterReapsItsOwnChild` |

`KernelInv` joins the types, the indexes and the shape of the process tree, and is
inductive only as a whole: a delivery reads the dispositions of the task's
process, which must exist; the tree needs the ids to be fresh; exits and reaps
read the indexes. `GuestKernelStepProofs` divides the steps into *quiet* ones,
which move living tasks between states and leave ids and tree alone (signals,
futexes, blocking and resuming), and structural ones, and shows that quiet steps,
forks, clones and execs keep the invariant. `GuestKernelWaitProofs` treats what
the steps do to waiting tasks and their signals. `GuestKernelProofs` treats
exits and reaps, and holds the theorems.

`NoSignalIsSleptThrough`, `UnblockableNeverMasked` and
`PrivateFutexStaysInProcess` follow from `WaitInv`, which
says of every tid: nothing it waits for is pending, a futex waiter has only masked
signals of its own and a key of its process or none, a kept signal belongs to a
task that runs or has exited, SIGKILL and SIGSTOP are not masked, and an absent tid
has nothing pending. The last part is needed because a new thread starts with the
queue of its tid, and `KernelInv` because the process of a waiter decides what is pending for
it. A step is *calm* when it wakes no waiter for a signal or a child; then each
task either is undisturbed or follows its own rule. The others queue a signal:
`Queueing` says what a call may add to the queues, `OneOffer` that what it added
can be taken by one waiter only, and from these `wake_signal_waiters` wakes at most
one. That is `SignalsReachTheirTarget`.

For `WaitersReapTheirOwn`, one round of `resume_waiting_tasks` resumes the waiters
in the order of their tids, each with what the ones before it left. The children
assigned to them are pairwise different, so the resumed tasks of a process inject
into its reaped children.

### The worker pool and the cache of names

`HostServiceProofs` holds the proofs of both.

`PoolCorrect` and `PoolShutdown` prove `NoLostWakeup`, the sums of the counters and
`ShutdownDrains`. `PoolInv` adds `Located`: a job whose channel is open is queued
or on a running thread, a thread returns only after shutdown with the queue
empty, and no submission is under way by then. `PoolImplementsContract` proves the
refinement `ImplementsContract`. It needs `JobsOnce` as well, that no job is in the
queue twice, on two threads, or in both; then the unfinished jobs are no more
than queue and threads hold, and taking a job, which the contract does not see,
finishes none. This includes instances in which the contract's limit is met.

`AnswersCorrect` proves `AnswersAreFresh` of the cache of resolved names. An answer
is copied from its entry, so the invariant is about the entries: all of them were
inserted under the current configuration, since `update_resolver_config` clears the
cache when it changes it, and came from a resolution that began under it or was
overtaken by a change. A lookup then only has to compare the time.

### The process contexts

`ContextsCorrect` proves `ContextsAreWhole`, `ObjectsOpenWhileNamed` proves
`OpenWhileNamed`. The first joins `ContextsInOnePlace` and `ExecIsWhole`, which
follows from it step by step: without a second fd for a socket, no close of an
execve fails. `ContextsInOnePlace` and `OpenWhileNamed` are inductive together,
since a release counts names in
tables that must be where the code looks for them. A step passes through several
records of memories and tables, so `ProcessContextSteps` states the invariants of
any such record (`Placed`, `TablesPlaced`) and what each operator of `process.rs`
does to it, and treats the calls of a process that goes on; `ProcessContextProofs`
treats its end, forks and waits.

`ContextsIsolate` proves that every behaviour is one of `ProcessIsolation`, under
the mapping that gives a running process the memory and the table that
`MemoryForProcess` and `FdTableForProcess` find: switches and the late copy of a
pending child's memory are stuttering steps, and a fork copies both although it
moves no memory. The heart is that the copy is made before anybody writes the
shared memory, so that the late copy is the value at the fork.

### The run loop

| Theorem | Property |
|---|---|
| `DeadlinesCorrect` | `DeadlineOfTheWait` |
| `WaitsEndWhenDue` | `TimeoutsAreDue` |
| `ReadinessCorrect` | `ReadinessAgrees` |

All three rest on `EventInv` (in `EventLoop`), which TLC finds true of the instance
of `events` as well. Beside the types and the deadlines it says that the call of a
waiting task is one that can wait on the kind of file behind its fd (`WaitsFit`), that cached watch lists are current, and that the loop idles or gives up only when
nobody can run and no waiter is ready, and gives up only when no deadline is left
(`IdleIsIdle`). The parts need each other. An early end of a wait is excluded
because the deadline that `expire_next_futex_timeout` finds is the wait's own, and
because the loop forces an expiry only when idle; that nobody is overlooked when it
idles needs the readiness of every waiter, hence the kinds of the files they wait
for.

`EventLoopStepProofs` treats the scheduler. What `prioritize_pending_fork_exec_tids`
and `apply_sticky_scheduler_order` make of the runnable tasks is a recursive
function over a sequence (`OnlyIn`). That a pass visits tasks and leaves none out
is shown by induction on the length: a set of lengths for which it failed would
have a least element. `EventLoopProofs` treats the calls on fds, compares in any
state with these files the four places that decide readiness, the scheduler
(`fd_wait_ready_or_epoll`), poll and select, epoll, and the call itself, and puts
the actions together.

### Model-checked only

Liveness (`ZombieWaitedForIsReaped` in `WaitsAreForChildren`,
`AcceptedJobIsAnswered`, `ConnectResolves`, `WokenTaskRuns`) needs fairness and
ENABLED, which these provers do not handle. `ChildlessWaitLostItsChild`, the other
half of `WaitsAreForChildren`, is an action property that has not been proved.
The properties of `address_space`, `filesystem`, `native_code` and `images`, and
those of the sockets in `network` (`HandlesAreTracked`, `StreamIntact`,
`OutcomesAreReported`), are checked by TLC alone. The other properties of
`kernel_tree`, `kernel_waits`, `contexts`, `events` and `worker_pool`, and
`AnswersAreFresh` of `network`, are proved. In files, images and
FS emulation they speak of what recursive definitions over paths, texts and bytes
compute; the induction over a length that serves for the order of a pass does
not carry over to definitions of that size, and some of these modules use
recursive operators, which the provers do not take. The same holds of the
allocations in `AddressSpace` and of the patches, which are folded over sets and
sequences. For sockets the argument would be inductive as above, and has not been
written.

## Not modelled

Instruction semantics other than the FS emulation, ELF parsing, ABI tables and
codecs, signal frame layout, the command line, diagnostics and test support have no
state that outlives a call. The remaining wrappers of host services do what the
host does. The worker pool boundary of `mcr-task` is a diagnostics record that no
production call drives. Within modelled parts are left out: /proc, statfs and
owners (files); address and option values (sockets); the cache of file mappings
(memory); the native trampoline; failures of host allocations in
`ProcessContext`, which `AddressSpace` has; the step limit of a run.
