------------------------------ MODULE EventLoop ------------------------------
(***************************************************************************)
(* The run loop with what its tasks wait for: pipes, eventfds, sockets and *)
(* epoll instances behind the fds of one process (mcr-runtime/src/         *)
(* subsystems/event.rs, event_state.rs, lib.rs and mcr-vfs/src/fd.rs).     *)
(*                                                                         *)
(* A call that would block (EAGAIN on a blocking fd) leaves the task at    *)
(* the system call instruction, waiting for the fd; once the scheduler     *)
(* finds the fd ready the task executes the call again.  Readiness is thus *)
(* decided in four places: by the call itself, by the scheduler, by poll   *)
(* and select, and by epoll_wait.                                          *)
(***************************************************************************)
EXTENDS RunLoop

CONSTANTS MaxFd, MaxNodes

ASSUME EventLoopAssumption ==
  /\ MaxFd \in Nat /\ MaxNodes \in Nat
  /\ \A s \in Scenarios : s.open \in 0 .. MaxFd /\ s.nodes \in 0 .. MaxNodes

VARIABLES
  fds,        \* fd -> [kind, node]
  level,      \* node -> bytes in a pipe, counter of an eventfd, 1 for a socket with data
  watches,    \* epoll node -> fd -> [events, node]; node is history
  cached      \* epoll node -> the cached list of watches in a set, empty when there is none

eventVars == <<fds, level, watches, cached>>
vars == <<loopVars, eventVars>>

Fds == 1 .. MaxFd
Nodes == 1 .. MaxNodes
Capacity == 1          \* of a pipe
MaxCounter == 2        \* MAX_COUNTER of an eventfd
Interests == {{"IN"}, {"OUT"}}

EventInit ==
  /\ LoopInit
  /\ fds = << >> /\ level = << >> /\ watches = << >> /\ cached = << >>

Ends(kind, n) == {f \in DOMAIN fds : fds[f] = [kind |-> kind, node |-> n]}

----------------------------------------------------------------------------
(* Readiness.                                                              *)

NotReady == [readable |-> FALSE, writable |-> FALSE, hangUp |-> FALSE]

\* FdTable::poll_readiness: nothing is known of sockets and epolls here.
PollReadiness(f) ==
  CASE fds[f].kind = "PipeRead" ->
         [NotReady EXCEPT !.readable = level[fds[f].node] > 0 \/ Ends("PipeWrite", fds[f].node) = {},
                          !.hangUp = Ends("PipeWrite", fds[f].node) = {}]
    [] fds[f].kind = "PipeWrite" ->
         [NotReady EXCEPT !.writable = Ends("PipeRead", fds[f].node) # {} /\ level[fds[f].node] < Capacity,
                          !.hangUp = Ends("PipeRead", fds[f].node) = {}]
    [] fds[f].kind = "Eventfd" ->
         [NotReady EXCEPT !.readable = level[fds[f].node] > 0, !.writable = level[fds[f].node] < MaxCounter]
    [] OTHER -> NotReady

\* poll_revents_from_vfs; poll_revents_from_socket_events is the same function.
Revents(readiness, events) ==
  {e \in events : IF e = "IN" THEN readiness.readable ELSE readiness.writable}
    \cup IF readiness.hangUp THEN {"HUP"} ELSE {}

SocketReadiness(f) == [NotReady EXCEPT !.readable = level[fds[f].node] > 0, !.writable = TRUE]

\* poll_fd_base_revents_and_socket and poll_socket_slots: a socket is asked too.
PollFdRevents(f, events) ==
  IF f \notin DOMAIN fds THEN {"NVAL"}
  ELSE IF fds[f].kind = "Socket"
       THEN Revents(PollReadiness(f), events) \cup Revents(SocketReadiness(f), events)
       ELSE Revents(PollReadiness(f), events)

\* poll_fds: the fds with an answer.
PollFds(interest) == {f \in DOMAIN interest : PollFdRevents(f, interest[f]) # {}}

SelectReadable(revents) == revents \cap {"IN", "ERR", "HUP"} # {}
SelectWritable(revents) == revents \cap {"OUT", "ERR", "HUP"} # {}

\* select_fds: every fd is polled once for all the sets it is in.
SelectFds(readSet, writeSet) ==
  LET events(f) == (IF f \in readSet THEN {"IN"} ELSE {}) \cup IF f \in writeSet THEN {"OUT"} ELSE {} IN
  [read |-> {f \in readSet : SelectReadable(PollFdRevents(f, events(f)))},
   write |-> {f \in writeSet : SelectWritable(PollFdRevents(f, events(f)))}]

\* poll_revents_to_epoll_events: errors are reported whatever was asked for.
EpollEvents(revents, interest) == revents \cap (interest \cup {"ERR", "HUP"})

\* epoll_watch_revents: a closed fd is an error with a hang up.
ClosedAsHangUp(revents) == IF "NVAL" \in revents THEN {"ERR", "HUP"} ELSE revents

\* epoll_ready_events over the list of watches.
EpollReadyEvents(list) ==
  {f \in DOMAIN list : EpollEvents(ClosedAsHangUp(PollFdRevents(f, list[f].events)), list[f].events) # {}}

\* epoll_fd_wait_ready looks at the fd table only.
EpollFdWaitReady(n) ==
  \E f \in DOMAIN watches[n] :
    EpollEvents(IF f \in DOMAIN fds THEN Revents(PollReadiness(f), watches[n][f].events)
                ELSE {"ERR", "HUP"}, watches[n][f].events) # {}

FdWaitReady(f, write) ==
  LET readiness == PollReadiness(f) IN
  readiness.hangUp \/ IF write THEN readiness.writable ELSE readiness.readable

FdWaitReadyOrEpoll(f, write) ==
  IF ~write /\ fds[f].kind = "Epoll" THEN EpollFdWaitReady(fds[f].node) ELSE FdWaitReady(f, write)

\* write_two is a write of the value 2 to an eventfd; a pipe takes what fits.
Writes == {"write", "write_two"}
ValueOf(op) == IF op = "write_two" THEN 2 ELSE 1

\* blocking_fd_wait: which way the fd of a call is waited for.
WaitsForWrite(call) == call.op \in Writes

\* resume_fd_waiters: a waiter whose fd is gone runs again.
WaiterReady(t) ==
  task[t].state = "fd" /\
    (task[t].call.fd \notin DOMAIN fds \/ FdWaitReadyOrEpoll(task[t].call.fd, WaitsForWrite(task[t].call)))

----------------------------------------------------------------------------
(* The calls.                                                              *)

\* epoll_wait takes the list from the cache.
CachedWatches(n) == IF cached[n] = {} THEN watches[n] ELSE CHOOSE list \in cached[n] : TRUE

\* The calls that can block, with the cases in which they return EAGAIN.
WouldBlock(call) ==
  /\ call.fd \in DOMAIN fds
  /\ LET entry == fds[call.fd] IN
     CASE entry.kind = "PipeRead" ->
            call.op = "read" /\ level[entry.node] = 0 /\ Ends("PipeWrite", entry.node) # {}
       [] entry.kind = "PipeWrite" ->
            call.op \in Writes /\ level[entry.node] >= Capacity /\ Ends("PipeRead", entry.node) # {}
       [] entry.kind = "Eventfd" ->
            \/ call.op = "read" /\ level[entry.node] = 0
            \/ call.op \in Writes /\ level[entry.node] + ValueOf(call.op) > MaxCounter
       [] entry.kind = "Socket" -> call.op = "read" /\ level[entry.node] = 0
       [] OTHER -> call.op = "epoll_wait" /\ EpollReadyEvents(CachedWatches(entry.node)) = {}

\* What a call that does not block does to the bytes or the counter.
LevelAfter(call) ==
  IF call.fd \notin DOMAIN fds THEN level
  ELSE CASE call.op = "read" /\ fds[call.fd].kind \in {"PipeRead", "Eventfd", "Socket"} ->
              [level EXCEPT ![fds[call.fd].node] = 0]
         [] call.op \in Writes /\ fds[call.fd].kind = "PipeWrite" ->
              [level EXCEPT ![fds[call.fd].node] =
                 IF Ends("PipeRead", fds[call.fd].node) = {} THEN @ ELSE Capacity]
         [] call.op \in Writes /\ fds[call.fd].kind = "Eventfd" ->
              [level EXCEPT ![fds[call.fd].node] = @ + ValueOf(call.op)]
         [] OTHER -> level

\* A dispatched call: a fresh one, or the one the task waited with.
BlockingCall(t, call) ==
  /\ Runs(t, call.op)
  /\ task[t].call \in {NoCall, call}
  /\ call.fd \in DOMAIN fds \/ task[t].call = call
  /\ IF WouldBlock(call)
     THEN /\ task' = [task EXCEPT ![t] = [Task("fd", NoKey, 0, call) EXCEPT !.file = fds[call.fd].node]]
          /\ UNCHANGED level
     ELSE /\ task' = [task EXCEPT ![t] = Runnable(NoCall)]
          /\ level' = LevelAfter(call)
  /\ cached' = IF call.op = "epoll_wait" /\ call.fd \in DOMAIN fds /\ fds[call.fd].kind = "Epoll"
               THEN [cached EXCEPT ![fds[call.fd].node] = {CachedWatches(fds[call.fd].node)}] ELSE cached
  /\ woken' = woken \ {t}
  /\ UNCHANGED <<word, futexTimeouts, sleepTimeouts, budget, fds, watches>>

FdCall(t, name) ==
  /\ RunsFresh(t, name)
  /\ UNCHANGED <<task, word, futexTimeouts, sleepTimeouts, budget>>

\* poll, ppoll and select return at once when no socket is among the fds, whatever
\* the timeout; their answer is PollFds or SelectFds.
PollCall(t) == FdCall(t, "poll") /\ UNCHANGED eventVars

\* epoll_wait, epoll_pwait and epoll_pwait2 with a timeout: the same.
EpollWaitTimed(t, e) ==
  /\ FdCall(t, "epoll_wait") /\ e \in DOMAIN fds /\ fds[e].kind = "Epoll"
  /\ cached' = [cached EXCEPT ![fds[e].node] = {CachedWatches(fds[e].node)}]
  /\ UNCHANGED <<fds, level, watches>>

\* next_fd_from gives the lowest free number; pipe2 inserts the read end first.
LowestFd(free) == CHOOSE f \in free : \A g \in free : f <= g
FreeFds == (1 .. scenario.open) \ DOMAIN fds

\* A new file.
NewNodes == (1 .. scenario.nodes) \ DOMAIN level
NewNode == CHOOSE n \in NewNodes : TRUE

Pipe2(t) ==
  LET reader == LowestFd(FreeFds)
      writer == LowestFd(FreeFds \ {reader}) IN
  /\ FdCall(t, "pipe2") /\ FreeFds # {} /\ FreeFds \ {reader} # {} /\ NewNodes # {}
  /\ fds' = With(With(fds, reader, [kind |-> "PipeRead", node |-> NewNode]),
                 writer, [kind |-> "PipeWrite", node |-> NewNode])
  /\ level' = With(level, NewNode, 0)
  /\ UNCHANGED <<watches, cached>>

\* eventfd2 and socket: one new fd, for a new object.
NewFd(t, kind) ==
  /\ FdCall(t, kind) /\ FreeFds # {} /\ NewNodes # {}
  /\ fds' = With(fds, LowestFd(FreeFds), [kind |-> kind, node |-> NewNode])
  /\ level' = With(level, NewNode, 0)

Eventfd2(t) == NewFd(t, "Eventfd") /\ UNCHANGED <<watches, cached>>
Socket(t) == NewFd(t, "Socket") /\ UNCHANGED <<watches, cached>>

EpollCreate1(t) ==
  /\ NewFd(t, "Epoll")
  /\ watches' = With(watches, NewNode, << >>)
  /\ cached' = With(cached, NewNode, {})

\* epoll_ctl on an open fd f of the instance behind the fd e.
EpollCtl(t, e, f) ==
  /\ FdCall(t, "epoll_ctl")
  /\ {e, f} \subseteq DOMAIN fds /\ e # f /\ fds[e].kind = "Epoll"
  /\ UNCHANGED <<fds, level>>

InsertWatch(t, e, f, events) ==
  /\ EpollCtl(t, e, f) /\ f \notin DOMAIN watches[fds[e].node]
  /\ watches' = [watches EXCEPT ![fds[e].node] = With(@, f, [events |-> events, node |-> fds[f].node])]
  /\ cached' = [cached EXCEPT ![fds[e].node] = {}]

UpdateWatch(t, e, f, events) ==
  /\ EpollCtl(t, e, f) /\ f \in DOMAIN watches[fds[e].node]
  /\ watches' = [watches EXCEPT ![fds[e].node][f].events = events]
  /\ cached' = [cached EXCEPT ![fds[e].node] = {}]

RemoveWatch(t, e, f) ==
  /\ EpollCtl(t, e, f) /\ f \in DOMAIN watches[fds[e].node]
  /\ watches' = [watches EXCEPT ![fds[e].node] = [g \in DOMAIN @ \ {f} |-> @[g]]]
  /\ cached' = [cached EXCEPT ![fds[e].node] = {}]

\* close: the watches of the fd stay in every instance.
CloseFd(t, f) ==
  /\ FdCall(t, "close") /\ f \in DOMAIN fds
  /\ fds' = [g \in DOMAIN fds \ {f} |-> fds[g]]
  /\ UNCHANGED <<level, watches, cached>>

\* The peer of a socket sends; nothing in the loop notices by itself.
Arrives(n) ==
  /\ "arrives" \in scenario.calls /\ pc = "loop"
  /\ \E f \in DOMAIN fds : fds[f] = [kind |-> "Socket", node |-> n]
  /\ level[n] = 0
  /\ level' = [level EXCEPT ![n] = 1]
  /\ UNCHANGED <<loopVars, fds, watches, cached>>

----------------------------------------------------------------------------

Ops == {"read", "write", "write_two", "epoll_wait"}

LoopStep ==
  \/ SchedulerEnter([t \in Tids |-> WaiterReady(t)]) /\ UNCHANGED eventVars
  \/ (ExpireNextFutex \/ ExpireNextSleep \/ NoRunnableTasks \/ InitialExited) /\ UNCHANGED eventVars
  \/ SkipTask /\ UNCHANGED eventVars
  \/ \E t \in Tids :
       \/ TaskStep(t) /\ UNCHANGED eventVars
       \/ \E f \in Fds, op \in Ops : BlockingCall(t, [op |-> op, fd |-> f])
       \/ Pipe2(t) \/ Eventfd2(t) \/ Socket(t) \/ EpollCreate1(t)
       \/ \E e, f \in Fds : \/ \E events \in Interests : InsertWatch(t, e, f, events)
                                                         \/ UpdateWatch(t, e, f, events)
                            \/ RemoveWatch(t, e, f)
       \/ \E f \in Fds : CloseFd(t, f) \/ EpollWaitTimed(t, f)
       \/ PollCall(t)

Next ==
  \/ LoopStep
  \/ Tick /\ UNCHANGED eventVars
  \/ \E n \in Nodes : Arrives(n)

\* The loop is one thread that never waits, and guests make system calls.  That
\* the loop goes on is needed only while a woken task has not run.
Spec == EventInit /\ [][Next]_vars /\ WF_vars(woken # {} /\ LoopStep)

----------------------------------------------------------------------------
(* Properties.                                                             *)

TaskRecords ==
  [state : {"runnable", "futex", "sleep", "fd", "exited", "unborn"},
   key : Words \cup {NoKey}, deadline : Nat,
   call : [op : Ops \cup {"none"}, fd : 0 .. MaxFd],
   file : 0 .. MaxNodes]

Kinds == {"PipeRead", "PipeWrite", "Eventfd", "Socket", "Epoll"}

IsTable(table, T) == DOMAIN table \subseteq Tids /\ \A t \in DOMAIN table : table[t] \in T

\* The state of the scheduler
LoopTyped ==
  /\ task \in [Tids -> TaskRecords]
  /\ IsTable(futexTimeouts, Nat) /\ IsTable(sleepTimeouts, Nat)
  /\ budget \in 0 .. YieldLimit /\ DOMAIN pending \subseteq Tids /\ woken \subseteq Tids
  /\ pc \in {"loop", "idle", "stuck", "exited"}
  /\ pass \in Seq(Tids) /\ now \in Nat /\ scenario \in Scenarios

\* The files of the process: numbered as they are made, each watch list in both places
FilesTyped ==
  /\ DOMAIN level \subseteq Nodes
  /\ \A n \in DOMAIN level : level[n] \in 0 .. MaxCounter
  /\ DOMAIN fds \subseteq Fds
  /\ \A f \in DOMAIN fds : fds[f] \in [kind : Kinds, node : DOMAIN level]
  /\ \A f \in DOMAIN fds : fds[f].kind = "Epoll" => fds[f].node \in DOMAIN watches
  /\ DOMAIN watches \subseteq DOMAIN level /\ DOMAIN cached = DOMAIN watches
  /\ \A n \in DOMAIN watches : watches[n] \in [DOMAIN watches[n] -> [events : Interests, node : Nodes]]

EventTypeOK == LoopTyped /\ FilesTyped

\* Another file has taken the number of the fd the task waits for.
NumberReused(t) ==
  task[t].call.fd \in DOMAIN fds /\ fds[task[t].call.fd].node # task[t].file

\* A write to an eventfd of more than the room there is: EventfdState::writable
\* asks only whether one more would fit.
LargerThanTheRoom(call) ==
  /\ call.fd \in DOMAIN fds /\ fds[call.fd].kind = "Eventfd" /\ call.op \in Writes
  /\ level[fds[call.fd].node] < MaxCounter /\ level[fds[call.fd].node] + ValueOf(call.op) > MaxCounter

\* Nothing but sockets can end the call: fd_wait_ready and epoll_fd_wait_ready do
\* not ask them.
OnlySocketsReady(call) ==
  /\ call.fd \in DOMAIN fds
  /\ \/ fds[call.fd].kind = "Socket"
     \/ /\ fds[call.fd].kind = "Epoll"
        /\ \A f \in EpollReadyEvents(watches[fds[call.fd].node]) : f \in DOMAIN fds /\ fds[f].kind = "Socket"

\* A task waits for an fd exactly as long as the call it would execute again would
\* block: none sleeps on although its call could go on, and none is resumed only
\* to block again.  The scheduler decides from the fd table, the call from the
\* object behind it.  Three cases are excepted, in which the code does not do so:
\* another file has taken the number of the fd before the scheduler looks, and the
\* wait is for that file; the writer of a large value to an eventfd is resumed in
\* every turn, to block again; the wait for a socket is never ended.
WaitersAgree ==
  \A t \in Tids :
    task[t].state = "fd" /\ ~NumberReused(t) =>
      /\ WaiterReady(t) => ~WouldBlock(task[t].call) \/ LargerThanTheRoom(task[t].call)
      /\ ~WouldBlock(task[t].call) => WaiterReady(t) \/ OnlySocketsReady(task[t].call)

\* poll, select and the calls themselves agree: an fd is reported exactly when
\* the call in that direction returns at once, for an eventfd the write of one.
PollAgreesWithIo ==
  \A f \in DOMAIN fds :
    /\ fds[f].kind \in {"PipeRead", "Eventfd", "Socket"} =>
         LET ready == ~WouldBlock([op |-> "read", fd |-> f]) IN
         /\ f \in PollFds([g \in {f} |-> {"IN"}]) <=> ready
         /\ f \in SelectFds({f}, {}).read <=> ready
         /\ f \in SelectFds({f}, Fds \cap DOMAIN fds).read <=> ready
    /\ fds[f].kind \in {"PipeWrite", "Eventfd"} =>
         LET ready == ~WouldBlock([op |-> "write", fd |-> f]) IN
         /\ f \in PollFds([g \in {f} |-> {"OUT"}]) <=> ready
         /\ f \in SelectFds({}, {f}).write <=> ready

\* The run gives up (NoRunnableTasks) only when no task can ever go on: each is
\* gone, waits for a futex without a deadline, or for a call that blocks or that
\* only a socket could end.
GivesUpOnlyOnDeadlock ==
  pc = "stuck" =>
    \A t \in Tids : \/ task[t].state \in {"exited", "unborn"}
                    \/ task[t].state = "futex" /\ task[t].deadline = 0
                    \/ /\ task[t].state = "fd"
                       /\ (WouldBlock(task[t].call) \/ NumberReused(t) \/ OnlySocketsReady(task[t].call))

\* epoll_wait never answers from a list of watches that epoll_ctl has changed.
CachedWatchesAreCurrent ==
  \A n \in DOMAIN watches : cached[n] \subseteq {watches[n]}

\* The scheduler, poll, select, epoll and the calls themselves agree on what is
\* ready, but for the cases WaitersAgree excepts, so that no task is overlooked and
\* the run gives up only on a deadlock.
ReadinessAgrees ==
  EventTypeOK /\ WaitersAgree /\ PollAgreesWithIo /\ CachedWatchesAreCurrent /\ GivesUpOnlyOnDeadlock

\* "a reused integer fd cannot satisfy an old poll or epoll watch": what epoll_wait
\* reports is the file the watch was made for.
WatchReportsItsFile ==
  \A n \in DOMAIN watches : \A f \in EpollReadyEvents(watches[n]) :
    f \in DOMAIN fds => fds[f].node = watches[n][f].node

----------------------------------------------------------------------------
(* What the proofs keep of a state of the loop: its inductive invariant.     *)

\* The calls that can wait for an fd of this kind
Waits(op, kind) ==
  CASE kind = "PipeRead" -> op = "read"
    [] kind = "PipeWrite" -> op \in Writes
    [] kind = "Eventfd" -> op = "read" \/ op \in Writes
    [] kind = "Socket" -> op = "read"
    [] kind = "Epoll" -> op = "epoll_wait"

Deadlines ==
  /\ DeadlineOfTheWait
  /\ \A t \in Tids : task[t].state = "sleep" => task[t].deadline # 0

\* A task waits for the file its fd named, unless that fd is gone or another file's
WaitFits(t) ==
  task[t].state = "fd" =>
    /\ task[t].file \in DOMAIN level
    /\ task[t].call.op \in Ops /\ task[t].call.fd \in Fds
    /\ task[t].call.fd \in DOMAIN fds /\ fds[task[t].call.fd].node = task[t].file
         => Waits(task[t].call.op, fds[task[t].call.fd].kind)

WaitsFit == \A t \in Tids : WaitFits(t)

\* When the loop finds nobody to run there is nobody to run
IdleIsIdle ==
  /\ pc \in {"idle", "stuck"} =>
       /\ pass = << >>
       /\ \A t \in Tids : task[t].state # "runnable" /\ ~WaiterReady(t)
  /\ pc = "stuck" =>
       \A t \in Tids : task[t].state # "sleep" /\ (task[t].state = "futex" => task[t].deadline = 0)

EventInv ==
  LoopTyped /\ FilesTyped /\ Deadlines /\ WaitsFit /\ IdleIsIdle /\ CachedWatchesAreCurrent

=============================================================================
