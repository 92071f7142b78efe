-------------------------- MODULE EventLoopProofs ---------------------------
(***************************************************************************)
(* Proofs about the run loop: that the deadline tables are the waits'      *)
(* (DeadlineOfTheWait), that the scheduler ends no wait early while a task *)
(* can run (TimeoutsAreDue), and that scheduler, poll, select, epoll and   *)
(* the calls agree on readiness (ReadinessAgrees), for every number of     *)
(* tasks, fds and files, and every timeout.                                *)
(***************************************************************************)
EXTENDS EventLoopStepProofs

-----------------------------------------------------------------------------
(* Files, fds and watches.                                                 *)

\* Files are only added, and an fd is an old one or one of a new file
FilesGrow ==
  /\ DOMAIN level \subseteq DOMAIN level'
  /\ \A f \in DOMAIN fds' :
       \/ f \in DOMAIN fds /\ fds'[f] = fds[f]
       \/ fds'[f].node \notin DOMAIN level

LEMMA SameFilesGrow ==
  ASSUME UNCHANGED fds, DOMAIN level' = DOMAIN level
  PROVE  FilesGrow
BY DEF FilesGrow

LEMMA EventFrame ==
  ASSUME FilesTyped, CachedWatchesAreCurrent, UNCHANGED eventVars
  PROVE  FilesTyped' /\ CachedWatchesAreCurrent' /\ FilesGrow
BY DEF FilesTyped, CachedWatchesAreCurrent, FilesGrow, eventVars

LEMMA LoopGoesOn ==
  ASSUME pc' \in {"loop", "exited"}
  PROVE  IdleIsIdle'
BY DEF IdleIsIdle

\* The lowest free fd is free
LEMMA LowestIsFree ==
  ASSUME scenario \in Scenarios, NEW free, free \subseteq FreeFds, free # {}
  PROVE  LowestFd(free) \in free /\ LowestFd(free) \in Fds \ DOMAIN fds
<1>1. scenario.open \in 0 .. MaxFd /\ MaxFd \in Nat
  BY EventLoopAssumption
<1>2. FreeFds \subseteq Nat /\ FreeFds \subseteq Fds \ DOMAIN fds
  BY <1>1 DEF FreeFds, Fds
<1>3. \E f \in free : \A g \in free : f <= g
  BY Zenon, <1>2, LeastNatural
<1> QED BY Zenon, <1>2, <1>3 DEF LowestFd

\* What a system call that leaves the tasks alone has to keep
EventKept == FilesTyped' /\ CachedWatchesAreCurrent' /\ FilesGrow

\* A new file has a number of its own
LEMMA NewFileTyped ==
  ASSUME FilesTyped, NewNodes # {}, scenario \in Scenarios, level' = With(level, NewNode, 0)
  PROVE  /\ DOMAIN level' \subseteq Nodes
         /\ DOMAIN level' = DOMAIN level \cup {NewNode} /\ NewNode \notin DOMAIN level
         /\ \A n \in DOMAIN level' : level'[n] \in 0 .. MaxCounter
<1>1. scenario.nodes \in 0 .. MaxNodes /\ MaxNodes \in Nat
  BY EventLoopAssumption
<1>2. NewNode \in Nodes \ DOMAIN level
  BY <1>1 DEF NewNode, NewNodes, Nodes
<1> QED BY <1>2 DEF With, FilesTyped, MaxCounter

\* An fd is added: of the new file, and of an epoll instance only with its list
AddsFd(map, new, f, kind) ==
  /\ f \in Fds \ DOMAIN map /\ kind \in Kinds
  /\ kind = "Epoll" => NewNode \in DOMAIN watches'
  /\ new = With(map, f, [kind |-> kind, node |-> NewNode])

FitsFiles(map) ==
  /\ DOMAIN map \subseteq Fds
  /\ \A f \in DOMAIN map :
       /\ map[f] \in [kind : Kinds, node : DOMAIN level']
       /\ map[f].kind = "Epoll" => map[f].node \in DOMAIN watches'
       /\ \/ f \in DOMAIN fds /\ map[f] = fds[f]
          \/ map[f].node \notin DOMAIN level

LEMMA AddedFdFits ==
  ASSUME NEW map, NEW new, NEW f, NEW kind, FitsFiles(map), AddsFd(map, new, f, kind),
         NewNode \in DOMAIN level' \ DOMAIN level
  PROVE  FitsFiles(new)
<1>1. DOMAIN new = DOMAIN map \cup {f} /\ f \in Fds
  BY DEF AddsFd, With
<1>2. \A g \in DOMAIN map : new[g] = map[g]
  BY DEF AddsFd, With
<1>3. new[f] = [kind |-> kind, node |-> NewNode]
  BY DEF AddsFd, With
<1>4. /\ new[f] \in [kind : Kinds, node : DOMAIN level']
      /\ new[f].kind = "Epoll" => new[f].node \in DOMAIN watches'
      /\ new[f].node \notin DOMAIN level
  BY <1>3 DEF AddsFd
<1> QED BY Zenon, <1>1, <1>2, <1>4 DEF FitsFiles

\* The fds of before still fit
LEMMA OldFdsFit ==
  ASSUME FilesTyped, DOMAIN level \subseteq DOMAIN level', DOMAIN watches \subseteq DOMAIN watches'
  PROVE  FitsFiles(fds)
BY DEF FilesTyped, FitsFiles

LEMMA Pipe2Keeps ==
  ASSUME FilesTyped, CachedWatchesAreCurrent, scenario \in Scenarios, NEW t, Pipe2(t)
  PROVE  EventKept
<1> DEFINE reader == LowestFd(FreeFds)
           writer == LowestFd(FreeFds \ {reader})
           one == With(fds, reader, [kind |-> "PipeRead", node |-> NewNode])
<1>1. /\ FreeFds # {} /\ FreeFds \ {reader} # {} /\ NewNodes # {} /\ level' = With(level, NewNode, 0)
      /\ UNCHANGED <<watches, cached>> /\ fds' = With(one, writer, [kind |-> "PipeWrite", node |-> NewNode])
  BY DEF Pipe2
<1>2. reader \in Fds \ DOMAIN fds
  BY <1>1, LowestIsFree
<1>3. writer \in FreeFds \ {reader} /\ writer \in Fds \ DOMAIN fds
  BY <1>1, LowestIsFree
<1> HIDE DEF reader, writer
<1>4. AddsFd(fds, one, reader, "PipeRead")
  BY <1>2 DEF AddsFd, Kinds
<1>5. AddsFd(one, fds', writer, "PipeWrite")
  BY <1>1, <1>3 DEF AddsFd, Kinds, With
<1> HIDE DEF one
<1>6. /\ DOMAIN level' \subseteq Nodes
      /\ DOMAIN level' = DOMAIN level \cup {NewNode} /\ NewNode \notin DOMAIN level
      /\ \A n \in DOMAIN level' : level'[n] \in 0 .. MaxCounter
  BY <1>1, NewFileTyped
<1>7. FitsFiles(fds')
  BY <1>1, <1>4, <1>5, <1>6, OldFdsFit, AddedFdFits
<1> QED BY <1>1, <1>6, <1>7 DEF FitsFiles, EventKept, FilesTyped, FilesGrow, CachedWatchesAreCurrent

\* eventfd2, socket and epoll_create1 add one fd of a new file
LEMMA NewFdFits ==
  ASSUME FilesTyped, scenario \in Scenarios, NEW t, NEW kind \in Kinds, NewFd(t, kind),
         kind = "Epoll" => NewNode \in DOMAIN watches', DOMAIN watches \subseteq DOMAIN watches'
  PROVE  /\ FitsFiles(fds')
         /\ DOMAIN level' \subseteq Nodes
         /\ DOMAIN level' = DOMAIN level \cup {NewNode} /\ NewNode \notin DOMAIN level
         /\ \A n \in DOMAIN level' : level'[n] \in 0 .. MaxCounter
<1>1. /\ FreeFds # {} /\ NewNodes # {} /\ level' = With(level, NewNode, 0)
      /\ fds' = With(fds, LowestFd(FreeFds), [kind |-> kind, node |-> NewNode])
  BY DEF NewFd
<1>2. AddsFd(fds, fds', LowestFd(FreeFds), kind)
  BY <1>1, LowestIsFree DEF AddsFd
<1>3. /\ DOMAIN level' \subseteq Nodes
      /\ DOMAIN level' = DOMAIN level \cup {NewNode} /\ NewNode \notin DOMAIN level
      /\ \A n \in DOMAIN level' : level'[n] \in 0 .. MaxCounter
  BY <1>1, NewFileTyped
<1> QED BY <1>2, <1>3, OldFdsFit, AddedFdFits

LEMMA EventfdOrSocketKeeps ==
  ASSUME FilesTyped, CachedWatchesAreCurrent, scenario \in Scenarios, NEW t, Eventfd2(t) \/ Socket(t)
  PROVE  EventKept
<1>1. PICK kind \in {"Eventfd", "Socket"} : NewFd(t, kind) /\ UNCHANGED <<watches, cached>>
  BY DEF Eventfd2, Socket
<1>2. kind \in Kinds /\ kind # "Epoll"
  BY DEF Kinds
<1>3. /\ FitsFiles(fds') /\ DOMAIN level' \subseteq Nodes
      /\ DOMAIN level' = DOMAIN level \cup {NewNode}
      /\ \A n \in DOMAIN level' : level'[n] \in 0 .. MaxCounter
  BY <1>1, <1>2, NewFdFits
<1> QED BY <1>1, <1>3 DEF FitsFiles, EventKept, FilesTyped, FilesGrow, CachedWatchesAreCurrent

LEMMA EpollCreate1Keeps ==
  ASSUME FilesTyped, CachedWatchesAreCurrent, scenario \in Scenarios, NEW t, EpollCreate1(t)
  PROVE  EventKept
<1>1. /\ NewFd(t, "Epoll") /\ watches' = With(watches, NewNode, << >>) /\ cached' = With(cached, NewNode, {})
  BY DEF EpollCreate1
<1>2. DOMAIN watches' = DOMAIN watches \cup {NewNode} /\ DOMAIN cached' = DOMAIN cached \cup {NewNode}
  BY <1>1 DEF With
<1>3. /\ FitsFiles(fds') /\ DOMAIN level' \subseteq Nodes
      /\ DOMAIN level' = DOMAIN level \cup {NewNode} /\ NewNode \notin DOMAIN level
      /\ \A n \in DOMAIN level' : level'[n] \in 0 .. MaxCounter
  BY Zenon, <1>1, <1>2, NewFdFits DEF Kinds
<1>4. /\ watches'[NewNode] = << >> /\ cached'[NewNode] = {}
      /\ \A n \in DOMAIN watches : watches'[n] = watches[n] /\ cached'[n] = cached[n]
  BY <1>1, <1>3 DEF With, FilesTyped
<1>5. \A n \in DOMAIN watches' : watches'[n] \in [DOMAIN watches'[n] -> [events : Interests, node : Nodes]]
  <2>1. << >> \in [DOMAIN << >> -> [events : Interests, node : Nodes]]
    OBVIOUS
  <2> QED BY Zenon, <1>2, <1>4, <2>1 DEF FilesTyped
<1>6. FilesTyped'
  BY <1>2, <1>3, <1>5 DEF FilesTyped, FitsFiles
<1>7. FilesGrow
  BY Zenon, <1>3 DEF FilesGrow, FitsFiles
<1>8. CachedWatchesAreCurrent'
  BY <1>2, <1>4 DEF CachedWatchesAreCurrent
<1> QED BY <1>6, <1>7, <1>8 DEF EventKept

\* The watch list of one instance changes: the cached one is dropped
LEMMA WatchesKeep ==
  ASSUME FilesTyped, CachedWatchesAreCurrent, UNCHANGED <<fds, level>>, NEW n \in DOMAIN watches, NEW list,
         list \in [DOMAIN list -> [events : Interests, node : Nodes]],
         watches' = [watches EXCEPT ![n] = list], cached' = [cached EXCEPT ![n] = {}]
  PROVE  EventKept
<1>1. /\ DOMAIN watches' = DOMAIN watches /\ DOMAIN cached' = DOMAIN cached /\ DOMAIN cached = DOMAIN watches
      /\ watches'[n] = list /\ cached'[n] = {}
      /\ \A m \in DOMAIN watches : m # n => watches'[m] = watches[m] /\ cached'[m] = cached[m]
  BY DEF FilesTyped
<1>2. \A m \in DOMAIN watches' : watches'[m] \in [DOMAIN watches'[m] -> [events : Interests, node : Nodes]]
  BY <1>1 DEF FilesTyped
<1>3. FilesTyped'
  BY <1>1, <1>2 DEF FilesTyped
<1>4. CachedWatchesAreCurrent'
  BY <1>1 DEF CachedWatchesAreCurrent
<1> QED BY <1>3, <1>4, SameFilesGrow DEF EventKept

LEMMA EpollCtlKeeps ==
  ASSUME FilesTyped, CachedWatchesAreCurrent, NEW t, NEW e, NEW f,
         \/ \E events \in Interests : InsertWatch(t, e, f, events) \/ UpdateWatch(t, e, f, events)
         \/ RemoveWatch(t, e, f)
  PROVE  EventKept
<1> DEFINE n == fds[e].node
           W == [events : Interests, node : Nodes]
<1>1. EpollCtl(t, e, f) /\ cached' = [cached EXCEPT ![n] = {}]
  BY Zenon DEF InsertWatch, UpdateWatch, RemoveWatch
<1>2. /\ UNCHANGED <<fds, level>> /\ e \in DOMAIN fds /\ f \in DOMAIN fds /\ fds[e].kind = "Epoll"
  BY <1>1 DEF EpollCtl
<1>3. n \in DOMAIN watches /\ watches[n] \in [DOMAIN watches[n] -> W]
  BY <1>2 DEF FilesTyped
<1>4. fds[f].node \in Nodes
  BY <1>2 DEF FilesTyped
<1> DEFINE w == watches[n]
<1>5. ASSUME NEW events \in Interests, InsertWatch(t, e, f, events)
      PROVE  EventKept
  <2> DEFINE list == With(w, f, [events |-> events, node |-> fds[f].node])
  <2>1. watches' = [watches EXCEPT ![n] = list]
    BY <1>5 DEF InsertWatch
  <2>2. [events |-> events, node |-> fds[f].node] \in W
    BY <1>4
  <2>3. list \in [DOMAIN list -> W]
    BY <1>3, <2>2 DEF With
  <2> HIDE DEF list, n
  <2> QED BY Zenon, <1>1, <1>2, <1>3, <2>1, <2>3, WatchesKeep
<1>6. ASSUME NEW events \in Interests, UpdateWatch(t, e, f, events)
      PROVE  EventKept
  <2> DEFINE list == [w EXCEPT ![f] = [w[f] EXCEPT !.events = events]]
  <2>1. watches' = [watches EXCEPT ![n] = list] /\ f \in DOMAIN w
    BY Zenon, <1>6 DEF UpdateWatch
  <2>2. [w[f] EXCEPT !.events = events] \in W
    BY <1>3, <2>1
  <2>3. list \in [DOMAIN list -> W]
    BY <1>3, <2>1, <2>2
  <2> HIDE DEF list, n
  <2> QED BY Zenon, <1>1, <1>2, <1>3, <2>1, <2>3, WatchesKeep
<1>7. CASE RemoveWatch(t, e, f)
  <2> DEFINE list == [g \in DOMAIN w \ {f} |-> w[g]]
  <2>1. watches' = [watches EXCEPT ![n] = list]
    BY <1>7 DEF RemoveWatch
  <2>2. list \in [DOMAIN list -> W]
    BY <1>3
  <2> HIDE DEF list, n
  <2> QED BY Zenon, <1>1, <1>2, <1>3, <2>1, <2>2, WatchesKeep
<1> QED BY <1>5, <1>6, <1>7

LEMMA CloseFdKeeps ==
  ASSUME FilesTyped, CachedWatchesAreCurrent, NEW t, NEW f, CloseFd(t, f)
  PROVE  EventKept
<1>1. /\ DOMAIN fds' = DOMAIN fds \ {f} /\ \A g \in DOMAIN fds' : fds'[g] = fds[g]
      /\ UNCHANGED <<level, watches, cached>>
  BY DEF CloseFd
<1> QED BY <1>1 DEF EventKept, FilesTyped, CachedWatchesAreCurrent, FilesGrow

\* The list epoll_wait takes, from the cache or not, is the current one
LEMMA CachedListIsCurrent ==
  ASSUME CachedWatchesAreCurrent, NEW n \in DOMAIN watches
  PROVE  CachedWatches(n) = watches[n]
<1>1. cached[n] \subseteq {watches[n]}
  BY DEF CachedWatchesAreCurrent
<1>2. CASE cached[n] = {}
  BY <1>2 DEF CachedWatches
<1>3. CASE cached[n] # {}
  <2>1. cached[n] = {watches[n]}
    BY <1>1, <1>3
  <2>2. (CHOOSE list \in {watches[n]} : TRUE) = watches[n]
    OBVIOUS
  <2> QED BY <1>3, <2>1, <2>2 DEF CachedWatches
<1> QED BY <1>2, <1>3

\* epoll_wait fills the cache
LEMMA CacheKeeps ==
  ASSUME FilesTyped, CachedWatchesAreCurrent, NEW n \in DOMAIN watches,
         cached' = [cached EXCEPT ![n] = {CachedWatches(n)}], UNCHANGED watches
  PROVE  DOMAIN cached' = DOMAIN watches' /\ CachedWatchesAreCurrent'
<1>1. CachedWatches(n) = watches[n]
  BY CachedListIsCurrent
<1>2. DOMAIN cached = DOMAIN watches
  BY DEF FilesTyped
<1> QED BY <1>1, <1>2 DEF CachedWatchesAreCurrent

LEMMA EpollWaitTimedKeeps ==
  ASSUME FilesTyped, CachedWatchesAreCurrent, NEW t, NEW e, EpollWaitTimed(t, e)
  PROVE  EventKept
<1> DEFINE n == fds[e].node
<1>1. e \in DOMAIN fds /\ fds[e].kind = "Epoll" /\ cached' = [cached EXCEPT ![n] = {CachedWatches(n)}]
      /\ UNCHANGED <<fds, level, watches>>
  BY DEF EpollWaitTimed
<1>2. n \in DOMAIN watches
  BY <1>1 DEF FilesTyped
<1> HIDE DEF n
<1>3. DOMAIN cached' = DOMAIN watches' /\ CachedWatchesAreCurrent'
  BY Zenon, <1>1, <1>2, CacheKeeps
<1>4. FilesTyped'
  BY <1>1, <1>3 DEF FilesTyped
<1> QED BY <1>1, <1>3, <1>4, SameFilesGrow DEF EventKept

\* What a call does to the bytes of a pipe or the counter of an eventfd.  An
\* eventfd's counter is raised only by what fits: the write would block otherwise.
LEMMA LevelsStay ==
  ASSUME FilesTyped, NEW call, ~WouldBlock(call)
  PROVE  /\ DOMAIN LevelAfter(call) = DOMAIN level
         /\ \A n \in DOMAIN level : LevelAfter(call)[n] \in 0 .. MaxCounter
<1>1. CASE call.fd \notin DOMAIN fds
  BY <1>1 DEF LevelAfter, FilesTyped
<1>2. CASE call.fd \in DOMAIN fds
  <2> DEFINE n == fds[call.fd].node
             kind == fds[call.fd].kind
  <2>1. n \in DOMAIN level /\ \A m \in DOMAIN level : level[m] \in 0 .. MaxCounter
    BY Zenon, <1>2 DEF FilesTyped
  <2>2. \/ LevelAfter(call) = level
        \/ LevelAfter(call) = [level EXCEPT ![n] = 0]
        \/ LevelAfter(call) = [level EXCEPT ![n] = Capacity] \/ LevelAfter(call) = [level EXCEPT ![n] = level[n]]
        \/ call.op \in Writes /\ kind = "Eventfd" /\ LevelAfter(call) = [level EXCEPT ![n] = level[n] + ValueOf(call.op)]
    <3>1. CASE call.op = "read" /\ kind \in {"PipeRead", "Eventfd", "Socket"}
      BY <1>2, <3>1 DEF LevelAfter
    <3>2. CASE call.op \in Writes /\ kind = "PipeWrite"
      <4>1. LevelAfter(call) = [level EXCEPT ![n] = IF Ends("PipeRead", n) = {} THEN level[n] ELSE Capacity]
        BY <1>2, <3>2 DEF LevelAfter
      <4> QED BY Zenon, <4>1
    <3>3. CASE call.op \in Writes /\ kind = "Eventfd"
      BY <1>2, <3>3 DEF LevelAfter
    <3>4. CASE /\ ~(call.op = "read" /\ kind \in {"PipeRead", "Eventfd", "Socket"})
               /\ ~(call.op \in Writes /\ kind = "PipeWrite") /\ ~(call.op \in Writes /\ kind = "Eventfd")
      BY <1>2, <3>4 DEF LevelAfter
    <3> QED BY <3>1, <3>2, <3>3, <3>4
  <2>3. call.op \in Writes /\ kind = "Eventfd" => level[n] + ValueOf(call.op) <= MaxCounter
    <3>1. call.op \in Writes /\ kind = "Eventfd" => ~(level[n] + ValueOf(call.op) > MaxCounter)
      BY <1>2 DEF WouldBlock
    <3>2. level[n] + ValueOf(call.op) \in Nat /\ MaxCounter \in Nat
      BY <2>1 DEF ValueOf, MaxCounter
    <3> HIDE DEF n, kind
    <3> QED BY <3>1, <3>2
  <2>4. 0 \in 0 .. MaxCounter /\ Capacity \in 0 .. MaxCounter
    BY DEF Capacity, MaxCounter
  <2>5. level[n] + ValueOf(call.op) <= MaxCounter => level[n] + ValueOf(call.op) \in 0 .. MaxCounter
    BY <2>1 DEF ValueOf, MaxCounter
  <2> HIDE DEF n, kind
  <2>6. PICK x \in 0 .. MaxCounter : LevelAfter(call) \in {level, [level EXCEPT ![n] = x]}
    BY <2>1, <2>2, <2>3, <2>4, <2>5
  <2> QED BY <2>1, <2>6
<1> QED BY <1>1, <1>2

\* A call waits only for an fd that it can wait for
LEMMA WaitsForItsKind ==
  ASSUME FilesTyped, NEW call, call.op \in Ops, WouldBlock(call)
  PROVE  call.fd \in DOMAIN fds /\ Waits(call.op, fds[call.fd].kind)
<1>1. call.fd \in DOMAIN fds /\ fds[call.fd].kind \in Kinds
  BY DEF WouldBlock, FilesTyped
<1> DEFINE kind == fds[call.fd].kind
<1>2. CASE kind = "PipeRead"
  BY <1>1, <1>2 DEF WouldBlock, Waits
<1>3. CASE kind = "PipeWrite"
  BY <1>1, <1>3 DEF WouldBlock, Waits
<1>4. CASE kind = "Eventfd"
  BY <1>1, <1>4 DEF WouldBlock, Waits
<1>5. CASE kind = "Socket"
  BY <1>1, <1>5 DEF WouldBlock, Waits
<1>6. CASE kind = "Epoll"
  BY <1>1, <1>6 DEF WouldBlock, Waits
<1> QED BY <1>1, <1>2, <1>3, <1>4, <1>5, <1>6 DEF Kinds

LEMMA BlockingCallFiles ==
  ASSUME FilesTyped, CachedWatchesAreCurrent, NEW t, NEW call, BlockingCall(t, call)
  PROVE  EventKept /\ UNCHANGED fds /\ DOMAIN level' = DOMAIN level
<1>1. UNCHANGED <<fds, watches>>
  BY DEF BlockingCall
<1>2. DOMAIN level' = DOMAIN level /\ \A n \in DOMAIN level : level'[n] \in 0 .. MaxCounter
  <2>1. CASE WouldBlock(call)
    BY <2>1 DEF BlockingCall, FilesTyped
  <2>2. CASE ~WouldBlock(call)
    <3>1. level' = LevelAfter(call)
      BY <2>2 DEF BlockingCall
    <3> QED BY <2>2, <3>1, LevelsStay
  <2> QED BY <2>1, <2>2
<1>3. DOMAIN cached' = DOMAIN watches' /\ CachedWatchesAreCurrent'
  <2>1. CASE call.op = "epoll_wait" /\ call.fd \in DOMAIN fds /\ fds[call.fd].kind = "Epoll"
    <3> DEFINE n == fds[call.fd].node
    <3>1. cached' = [cached EXCEPT ![n] = {CachedWatches(n)}]
      BY <2>1 DEF BlockingCall
    <3>2. n \in DOMAIN watches
      BY <2>1 DEF FilesTyped
    <3> HIDE DEF n
    <3> QED BY Zenon, <1>1, <3>1, <3>2, CacheKeeps
  <2>2. CASE ~(call.op = "epoll_wait" /\ call.fd \in DOMAIN fds /\ fds[call.fd].kind = "Epoll")
    <3>1. cached' = cached
      BY <2>2 DEF BlockingCall
    <3> QED BY <1>1, <3>1 DEF FilesTyped, CachedWatchesAreCurrent
  <2> QED BY <2>1, <2>2
<1>4. FilesTyped'
  BY <1>1, <1>2, <1>3 DEF FilesTyped
<1> QED BY <1>1, <1>2, <1>3, <1>4, SameFilesGrow DEF EventKept

-----------------------------------------------------------------------------
(* Readiness.                                                              *)

\* Readiness is a matter of the fds, the files and the watches
LEMMA ReadinessFrame ==
  ASSUME UNCHANGED eventVars, NEW t, task'[t] = task[t]
  PROVE  WaiterReady(t)' <=> WaiterReady(t)
<1>1. UNCHANGED <<fds, level, watches>>
  BY DEF eventVars
<1>2. \A k, n : Ends(k, n)' = Ends(k, n)
  BY <1>1 DEF Ends
<1>3. \A f : PollReadiness(f)' = PollReadiness(f)
  BY Zenon, <1>1, <1>2 DEF PollReadiness, NotReady, Capacity, MaxCounter
<1>4. \A n : EpollFdWaitReady(n)' <=> EpollFdWaitReady(n)
  BY <1>1, <1>3 DEF EpollFdWaitReady, EpollEvents, Revents
<1>5. \A f, w : FdWaitReady(f, w)' <=> FdWaitReady(f, w)
  BY <1>3 DEF FdWaitReady
<1>6. \A f, w : FdWaitReadyOrEpoll(f, w)' <=> FdWaitReadyOrEpoll(f, w)
  BY <1>1, <1>4, <1>5 DEF FdWaitReadyOrEpoll
<1> QED BY <1>1, <1>6 DEF WaiterReady, WaitsForWrite, Writes

LEMMA LevelOfFd ==
  ASSUME FilesTyped, NEW f \in DOMAIN fds
  PROVE  level[fds[f].node] \in 0 .. 2 /\ fds[f].kind \in Kinds
BY DEF FilesTyped, MaxCounter

\* What the scheduler waits for
LEMMA WaitsForData ==
  ASSUME NEW f, fds[f].kind = "PipeRead", NEW write, ~write
  PROVE  FdWaitReady(f, write) <=> level[fds[f].node] > 0 \/ Ends("PipeWrite", fds[f].node) = {}
BY Zenon DEF FdWaitReady, PollReadiness, NotReady, Capacity

LEMMA WaitsForSpace ==
  ASSUME NEW f, fds[f].kind = "PipeWrite", NEW write, write
  PROVE  FdWaitReady(f, write) <=> level[fds[f].node] < 1 \/ Ends("PipeRead", fds[f].node) = {}
BY Zenon DEF FdWaitReady, PollReadiness, NotReady, Capacity

LEMMA WaitsForCounter ==
  ASSUME NEW f, fds[f].kind = "Eventfd", NEW write
  PROVE  FdWaitReady(f, write) <=> IF write THEN level[fds[f].node] < 2 ELSE level[fds[f].node] > 0
BY Zenon DEF FdWaitReady, PollReadiness, NotReady, MaxCounter

\* Nothing but the events asked for and a hang up is reported of an open fd
LEMMA OpenFdRevents ==
  ASSUME NEW r, NEW events \in SUBSET {"IN", "OUT"}
  PROVE  /\ Revents(r, events) \subseteq {"IN", "OUT", "HUP"}
         /\ "IN" \in Revents(r, events) <=> "IN" \in events /\ r.readable
         /\ "OUT" \in Revents(r, events) <=> "OUT" \in events /\ r.writable
         /\ "HUP" \in Revents(r, events) <=> r.hangUp
BY Zenon DEF Revents

\* epoll_wait and the scheduler look at the same watches and see the same events
\* of all but sockets, of which the scheduler sees none
LEMMA EpollSidesAgree ==
  ASSUME FilesTyped, CachedWatchesAreCurrent, NEW n \in DOMAIN watches
  PROVE  /\ CachedWatches(n) = watches[n]
         /\ EpollFdWaitReady(n) => EpollReadyEvents(watches[n]) # {}
         /\ \A f \in EpollReadyEvents(watches[n]) :
              f \notin DOMAIN fds \/ fds[f].kind # "Socket" => EpollFdWaitReady(n)
<1> DEFINE w == watches[n]
           Told(f) == ClosedAsHangUp(PollFdRevents(f, w[f].events))
           Seen(f) == IF f \in DOMAIN fds THEN Revents(PollReadiness(f), w[f].events) ELSE {"ERR", "HUP"}
<1>1. CachedWatches(n) = w
  BY CachedListIsCurrent
<1>2. \A f \in DOMAIN w : w[f].events \in SUBSET {"IN", "OUT"}
  <2>1. w \in [DOMAIN w -> [events : Interests, node : Nodes]]
    BY DEF FilesTyped
  <2>2. \A f \in DOMAIN w : w[f].events \in Interests
    BY <2>1
  <2> QED BY <2>2 DEF Interests
<1>3. ASSUME NEW f \in DOMAIN w
      PROVE  /\ Seen(f) \subseteq Told(f)
             /\ f \notin DOMAIN fds \/ fds[f].kind # "Socket" => Told(f) = Seen(f)
  <2>1. CASE f \in DOMAIN fds
    <3> DEFINE r == PollReadiness(f)
               s == SocketReadiness(f)
               events == w[f].events
    <3>1. events \in SUBSET {"IN", "OUT"}
      BY <1>2, <1>3
    <3>2. \/ PollFdRevents(f, events) = Revents(r, events)
          \/ /\ fds[f].kind = "Socket"
             /\ PollFdRevents(f, events) = Revents(r, events) \cup Revents(s, events)
      BY <2>1 DEF PollFdRevents
    <3>3. Seen(f) = Revents(r, events)
      BY <2>1
    <3>4. Told(f) = ClosedAsHangUp(PollFdRevents(f, events))
      OBVIOUS
    <3> HIDE DEF r, s, events, Seen, Told
    <3>5. "NVAL" \notin Revents(r, events) /\ "NVAL" \notin Revents(s, events)
      BY <3>1, OpenFdRevents
    <3>6. Told(f) = PollFdRevents(f, events)
      BY <3>2, <3>4, <3>5 DEF ClosedAsHangUp
    <3> QED BY <2>1, <3>2, <3>3, <3>6
  <2>2. CASE f \notin DOMAIN fds
    BY <2>2 DEF PollFdRevents, ClosedAsHangUp
  <2> QED BY <2>1, <2>2
<1>4. EpollFdWaitReady(n) <=> \E f \in DOMAIN w : EpollEvents(Seen(f), w[f].events) # {}
  BY DEF EpollFdWaitReady
<1>5. EpollReadyEvents(w) = {f \in DOMAIN w : EpollEvents(Told(f), w[f].events) # {}}
  BY DEF EpollReadyEvents
<1> HIDE DEF Seen, Told
<1>6. \A f \in DOMAIN w : EpollEvents(Seen(f), w[f].events) \subseteq EpollEvents(Told(f), w[f].events)
  BY <1>3 DEF EpollEvents
<1> HIDE DEF w
<1>7. EpollFdWaitReady(n) => EpollReadyEvents(w) # {}
  BY <1>4, <1>5, <1>6
<1>8. \A f \in EpollReadyEvents(w) : f \notin DOMAIN fds \/ fds[f].kind # "Socket" => EpollFdWaitReady(n)
  BY <1>3, <1>4, <1>5
<1> QED BY Zenon, <1>1, <1>7, <1>8 DEF w

\* The fd table, asked of reading ...
LEMMA ReadableKinds ==
  ASSUME NEW f
  PROVE  LET r == PollReadiness(f)
             n == fds[f].node
         IN  /\ fds[f].kind = "PipeRead" => /\ r.readable <=> level[n] > 0 \/ Ends("PipeWrite", n) = {}
                                            /\ r.hangUp <=> Ends("PipeWrite", n) = {}
             /\ fds[f].kind = "Eventfd" => (r.readable <=> level[n] > 0) /\ ~r.hangUp
             /\ fds[f].kind = "Socket" => ~r.readable /\ ~r.hangUp
BY Zenon DEF PollReadiness, NotReady

\* ... and of writing
LEMMA WritableKinds ==
  ASSUME NEW f
  PROVE  LET r == PollReadiness(f)
             n == fds[f].node
         IN  /\ fds[f].kind = "PipeWrite" => /\ r.writable <=> Ends("PipeRead", n) # {} /\ level[n] < Capacity
                                             /\ r.hangUp <=> Ends("PipeRead", n) = {}
             /\ fds[f].kind = "Eventfd" => (r.writable <=> level[n] < MaxCounter) /\ ~r.hangUp
BY Zenon DEF PollReadiness, NotReady

\* The scheduler finds a waiter ready exactly when its call would not block, but
\* for sockets and large values
LEMMA ReadyIsNotBlocked ==
  ASSUME EventInv, NEW t \in Tids, task[t].state = "fd", ~NumberReused(t)
  PROVE  /\ WaiterReady(t) => ~WouldBlock(task[t].call) \/ LargerThanTheRoom(task[t].call)
         /\ ~WouldBlock(task[t].call) => WaiterReady(t) \/ OnlySocketsReady(task[t].call)
<1> DEFINE call == task[t].call
           f == call.fd
           kind == fds[f].kind
           n == fds[f].node
<1>1. FilesTyped /\ WaitsFit /\ CachedWatchesAreCurrent
  BY DEF EventInv
<1>2. CASE f \notin DOMAIN fds
  BY <1>2 DEF WaiterReady, WouldBlock
<1>3. CASE f \in DOMAIN fds
  <2>1. WaiterReady(t) <=> FdWaitReadyOrEpoll(f, WaitsForWrite(call))
    BY <1>3 DEF WaiterReady
  <2>2. Waits(call.op, kind)
    BY <1>1, <1>3 DEF WaitsFit, WaitFits, NumberReused
  <2>3. level[n] \in 0 .. 2 /\ kind \in Kinds
    BY <1>1, <1>3, LevelOfFd
  <2>4. kind # "Epoll" => (WaiterReady(t) <=> FdWaitReady(f, WaitsForWrite(call)))
    BY <2>1 DEF FdWaitReadyOrEpoll
  <2>5. CASE kind = "PipeRead"
    <3>1. call.op = "read" /\ ~WaitsForWrite(call)
      BY <2>2, <2>5 DEF Waits, WaitsForWrite, Writes
    <3>2. FdWaitReady(f, WaitsForWrite(call)) <=> level[n] > 0 \/ Ends("PipeWrite", n) = {}
      BY Zenon, <2>5, <3>1, WaitsForData
    <3>3. WouldBlock(call) <=> level[n] = 0 /\ Ends("PipeWrite", n) # {}
      BY <1>3, <2>5, <3>1 DEF WouldBlock
    <3> HIDE DEF call, f, kind, n
    <3>4. WaiterReady(t) <=> ~WouldBlock(call)
      BY <2>3, <2>4, <2>5, <3>2, <3>3
    <3> QED BY Zenon, <3>4 DEF call
  <2>6. CASE kind = "PipeWrite"
    <3>1. call.op \in Writes /\ WaitsForWrite(call)
      BY <2>2, <2>6 DEF Waits, WaitsForWrite
    <3>2. FdWaitReady(f, WaitsForWrite(call)) <=> level[n] < 1 \/ Ends("PipeRead", n) = {}
      BY Zenon, <2>6, <3>1, WaitsForSpace
    <3>3. WouldBlock(call) <=> level[n] >= 1 /\ Ends("PipeRead", n) # {}
      BY <1>3, <2>6, <3>1 DEF WouldBlock, Capacity
    <3> HIDE DEF call, f, kind, n
    <3>4. WaiterReady(t) <=> ~WouldBlock(call)
      BY <2>3, <2>4, <2>6, <3>2, <3>3
    <3> QED BY Zenon, <3>4 DEF call
  <2>7. CASE kind = "Eventfd"
    <3>1. WaitsForWrite(call) <=> call.op \in Writes
      BY DEF WaitsForWrite
    <3>2. FdWaitReady(f, WaitsForWrite(call)) <=> IF call.op \in Writes THEN level[n] < 2 ELSE level[n] > 0
      BY <2>7, <3>1, WaitsForCounter
    <3>3. CASE call.op = "read"
      <4>1. call.op \notin Writes
        BY <3>3 DEF Writes
      <4>2. WouldBlock(call) <=> level[n] = 0
        BY <1>3, <2>7, <3>3, <4>1 DEF WouldBlock
      <4> HIDE DEF call, f, kind, n
      <4>3. WaiterReady(t) <=> ~WouldBlock(call)
        BY <2>3, <2>4, <2>7, <3>2, <4>1, <4>2
      <4> QED BY Zenon, <4>3 DEF call
    <3>4. CASE call.op \in Writes
      <4>1. ValueOf(call.op) \in {1, 2} /\ call.op # "read"
        BY <3>4 DEF ValueOf, Writes
      <4>2. WouldBlock(call) <=> level[n] + ValueOf(call.op) > 2
        BY <1>3, <2>7, <3>4, <4>1 DEF WouldBlock, MaxCounter
      <4>3. LargerThanTheRoom(call) <=> level[n] < 2 /\ level[n] + ValueOf(call.op) > 2
        BY <1>3, <2>7, <3>4 DEF LargerThanTheRoom, MaxCounter
      <4> HIDE DEF call, f, kind, n
      <4>4. WaiterReady(t) <=> level[n] < 2
        BY <2>4, <2>7, <3>2, <3>4
      <4>5. /\ WaiterReady(t) => ~WouldBlock(call) \/ LargerThanTheRoom(call)
            /\ ~WouldBlock(call) => WaiterReady(t)
        BY <2>3, <4>1, <4>2, <4>3, <4>4
      <4> QED BY Zenon, <4>5 DEF call
    <3> QED BY <2>2, <2>7, <3>3, <3>4 DEF Waits
  <2>8. CASE kind = "Socket"
    <3>1. OnlySocketsReady(call)
      BY <1>3, <2>8 DEF OnlySocketsReady
    <3>2. ~FdWaitReady(f, WaitsForWrite(call))
      <4>1. call.op = "read" /\ ~WaitsForWrite(call)
        BY <2>2, <2>8 DEF Waits, WaitsForWrite, Writes
      <4> QED BY Zenon, <2>8, <4>1, ReadableKinds DEF FdWaitReady
    <3> QED BY <2>4, <2>8, <3>1, <3>2
  <2>9. CASE kind = "Epoll"
    <3>1. call.op = "epoll_wait" /\ ~WaitsForWrite(call)
      BY <2>2, <2>9 DEF Waits, WaitsForWrite, Writes
    <3>2. n \in DOMAIN watches
      BY <1>1, <1>3, <2>9 DEF FilesTyped
    <3>3. WaiterReady(t) <=> EpollFdWaitReady(n)
      BY Zenon, <2>1, <2>9, <3>1 DEF FdWaitReadyOrEpoll
    <3>4. WouldBlock(call) <=> EpollReadyEvents(CachedWatches(n)) = {}
      BY <1>3, <2>9, <3>1 DEF WouldBlock
    <3>5. OnlySocketsReady(call) <=>
            \A g \in EpollReadyEvents(watches[n]) : g \in DOMAIN fds /\ fds[g].kind = "Socket"
      BY <1>3, <2>9 DEF OnlySocketsReady
    <3> HIDE DEF call, f, kind, n
    <3>6. /\ CachedWatches(n) = watches[n]
          /\ EpollFdWaitReady(n) => EpollReadyEvents(watches[n]) # {}
          /\ \A g \in EpollReadyEvents(watches[n]) :
               g \notin DOMAIN fds \/ fds[g].kind # "Socket" => EpollFdWaitReady(n)
      BY Zenon, <1>1, <3>2, EpollSidesAgree
    <3>7. (WaiterReady(t) => ~WouldBlock(call)) /\ (~WouldBlock(call) => WaiterReady(t) \/ OnlySocketsReady(call))
      BY Zenon, <3>3, <3>4, <3>5, <3>6
    <3> QED BY Zenon, <3>7 DEF call
  <2> QED BY Zenon, <2>3, <2>5, <2>6, <2>7, <2>8, <2>9 DEF Kinds
<1> QED BY <1>2, <1>3

\* What poll reports of an open fd
LEMMA PollReports ==
  ASSUME NEW f \in DOMAIN fds, NEW events \in SUBSET {"IN", "OUT"}
  PROVE  LET v == PollFdRevents(f, events)
             r == PollReadiness(f)
             socket == fds[f].kind = "Socket"
         IN  /\ v \subseteq {"IN", "OUT", "HUP"}
             /\ "IN" \in v <=> "IN" \in events /\ (r.readable \/ (socket /\ level[fds[f].node] > 0))
             /\ "OUT" \in v <=> "OUT" \in events /\ (r.writable \/ socket)
             /\ "HUP" \in v <=> r.hangUp
<1> DEFINE r == PollReadiness(f)
           s == SocketReadiness(f)
<1>1. CASE fds[f].kind # "Socket"
  <2>1. PollFdRevents(f, events) = Revents(r, events)
    BY <1>1 DEF PollFdRevents
  <2> HIDE DEF r
  <2> QED BY <1>1, <2>1, OpenFdRevents DEF r
<1>2. CASE fds[f].kind = "Socket"
  <2>1. PollFdRevents(f, events) = Revents(r, events) \cup Revents(s, events)
    BY <1>2 DEF PollFdRevents
  <2>2. (s.readable <=> level[fds[f].node] > 0) /\ s.writable /\ ~s.hangUp
    BY Zenon DEF SocketReadiness, NotReady
  <2> HIDE DEF r, s
  <2>3. /\ Revents(r, events) \subseteq {"IN", "OUT", "HUP"} /\ Revents(s, events) \subseteq {"IN", "OUT", "HUP"}
        /\ "IN" \in Revents(r, events) <=> "IN" \in events /\ r.readable
        /\ "OUT" \in Revents(r, events) <=> "OUT" \in events /\ r.writable
        /\ "HUP" \in Revents(r, events) <=> r.hangUp
        /\ "IN" \in Revents(s, events) <=> "IN" \in events /\ s.readable
        /\ "OUT" \in Revents(s, events) <=> "OUT" \in events /\ s.writable
        /\ "HUP" \in Revents(s, events) <=> s.hangUp
    BY OpenFdRevents
  <2> QED BY Zenon, <1>2, <2>1, <2>2, <2>3 DEF r
<1> QED BY <1>1, <1>2

\* An fd is reported readable exactly when a read would return at once ...
LEMMA ReadAgrees ==
  ASSUME FilesTyped, NEW f \in DOMAIN fds, fds[f].kind \in {"PipeRead", "Eventfd", "Socket"},
         NEW events \in SUBSET {"IN", "OUT"}, "IN" \in events
  PROVE  /\ PollFdRevents(f, events) \cap {"IN", "ERR", "HUP"} # {} <=> ~WouldBlock([op |-> "read", fd |-> f])
         /\ events = {"IN"} => (PollFdRevents(f, events) # {} <=> ~WouldBlock([op |-> "read", fd |-> f]))
<1> DEFINE v == PollFdRevents(f, events)
           r == PollReadiness(f)
           n == fds[f].node
           block == WouldBlock([op |-> "read", fd |-> f])
<1>1. /\ v \subseteq {"IN", "OUT", "HUP"}
      /\ "IN" \in v <=> r.readable \/ (fds[f].kind = "Socket" /\ level[n] > 0)
      /\ "OUT" \in v => "OUT" \in events
      /\ "HUP" \in v <=> r.hangUp
  BY PollReports
<1>2. level[n] \in 0 .. 2
  BY LevelOfFd
<1>3. "IN" \in v \/ "HUP" \in v <=> ~block
  <2>1. CASE fds[f].kind = "PipeRead"
    <3>1. block <=> level[n] = 0 /\ Ends("PipeWrite", n) # {}
      BY <2>1 DEF WouldBlock
    <3>2. (r.readable <=> level[n] > 0 \/ Ends("PipeWrite", n) = {}) /\ (r.hangUp <=> Ends("PipeWrite", n) = {})
      BY <2>1, ReadableKinds
    <3> HIDE DEF v, r, n, block
    <3> QED BY <1>1, <1>2, <2>1, <3>1, <3>2
  <2>2. CASE fds[f].kind = "Eventfd"
    <3>1. block <=> level[n] = 0
      BY <2>2 DEF WouldBlock, Writes
    <3>2. (r.readable <=> level[n] > 0) /\ ~r.hangUp
      BY <2>2, ReadableKinds
    <3> HIDE DEF v, r, n, block
    <3> QED BY <1>1, <1>2, <2>2, <3>1, <3>2
  <2>3. CASE fds[f].kind = "Socket"
    <3>1. block <=> level[n] = 0
      BY <2>3 DEF WouldBlock
    <3>2. ~r.readable /\ ~r.hangUp
      BY <2>3, ReadableKinds
    <3> HIDE DEF v, r, n, block
    <3> QED BY <1>1, <1>2, <2>3, <3>1, <3>2
  <2> QED BY <2>1, <2>2, <2>3
<1> HIDE DEF v, r, n, block
<1>4. v \cap {"IN", "ERR", "HUP"} # {} <=> ~block
  BY <1>1, <1>3
<1>5. events = {"IN"} => (v # {} <=> ~block)
  BY Zenon, <1>1, <1>3
<1> QED BY <1>4, <1>5 DEF v, block

\* ... and writable exactly when a write would
LEMMA WriteAgrees ==
  ASSUME FilesTyped, NEW f \in DOMAIN fds, fds[f].kind \in {"PipeWrite", "Eventfd"}
  PROVE  /\ PollFdRevents(f, {"OUT"}) \cap {"OUT", "ERR", "HUP"} # {} <=> ~WouldBlock([op |-> "write", fd |-> f])
         /\ PollFdRevents(f, {"OUT"}) # {} <=> ~WouldBlock([op |-> "write", fd |-> f])
<1> DEFINE v == PollFdRevents(f, {"OUT"})
           r == PollReadiness(f)
           n == fds[f].node
           block == WouldBlock([op |-> "write", fd |-> f])
           events == {"OUT"}
<1>1. /\ v \subseteq {"OUT", "HUP"} /\ ("OUT" \in v <=> r.writable) /\ ("HUP" \in v <=> r.hangUp)
  <2>1. events \in SUBSET {"IN", "OUT"} /\ "IN" \notin events /\ "OUT" \in events
    OBVIOUS
  <2> HIDE DEF events
  <2>2. /\ PollFdRevents(f, events) \subseteq {"IN", "OUT", "HUP"} /\ "IN" \notin PollFdRevents(f, events)
        /\ "OUT" \in PollFdRevents(f, events) <=> r.writable
        /\ "HUP" \in PollFdRevents(f, events) <=> r.hangUp
    BY <2>1, PollReports
  <2> QED BY <2>2 DEF events
<1>2. level[n] \in 0 .. 2
  BY LevelOfFd
<1>3. "OUT" \in v \/ "HUP" \in v <=> ~block
  <2>1. CASE fds[f].kind = "PipeWrite"
    <3>1. block <=> level[n] >= 1 /\ Ends("PipeRead", n) # {}
      BY <2>1 DEF WouldBlock, Writes, Capacity
    <3>2. (r.writable <=> Ends("PipeRead", n) # {} /\ level[n] < 1) /\ (r.hangUp <=> Ends("PipeRead", n) = {})
      BY <2>1, WritableKinds DEF Capacity
    <3> HIDE DEF v, r, n, block
    <3> QED BY <1>1, <1>2, <3>1, <3>2
  <2>2. CASE fds[f].kind = "Eventfd"
    <3>1. block <=> level[n] + 1 > 2
      BY <2>2 DEF WouldBlock, Writes, ValueOf, MaxCounter
    <3>2. (r.writable <=> level[n] < 2) /\ ~r.hangUp
      BY <2>2, WritableKinds DEF MaxCounter
    <3> HIDE DEF v, r, n, block
    <3> QED BY <1>1, <1>2, <3>1, <3>2
  <2> QED BY <2>1, <2>2
<1> HIDE DEF v, r, n, block
<1>4. v \cap {"OUT", "ERR", "HUP"} # {} <=> ~block
  BY <1>1, <1>3
<1>5. v # {} <=> ~block
  BY Zenon, <1>1, <1>3
<1> QED BY <1>4, <1>5 DEF v, block

LEMMA PollAndSelectAgree ==
  ASSUME FilesTyped
  PROVE  PollAgreesWithIo
<1>1. ASSUME NEW f \in DOMAIN fds, NEW events
      PROVE  f \in PollFds([g \in {f} |-> events]) <=> PollFdRevents(f, events) # {}
  BY DEF PollFds
<1>2. ASSUME NEW f \in DOMAIN fds, fds[f].kind \in {"PipeRead", "Eventfd", "Socket"}
      PROVE  LET ready == ~WouldBlock([op |-> "read", fd |-> f]) IN
             /\ f \in PollFds([g \in {f} |-> {"IN"}]) <=> ready
             /\ f \in SelectFds({f}, {}).read <=> ready
             /\ f \in SelectFds({f}, Fds \cap DOMAIN fds).read <=> ready
  <2> DEFINE ready == ~WouldBlock([op |-> "read", fd |-> f])
             one == {"IN"}
             both == {"IN"} \cup {"OUT"}
  <2>1. one \in SUBSET {"IN", "OUT"} /\ both \in SUBSET {"IN", "OUT"} /\ "IN" \in one /\ "IN" \in both
    OBVIOUS
  <2>2. f \in SelectFds({f}, {}).read <=> PollFdRevents(f, {"IN"} \cup {}) \cap {"IN", "ERR", "HUP"} # {}
    BY DEF SelectFds, SelectReadable
  <2>3. f \in SelectFds({f}, Fds \cap DOMAIN fds).read <=> PollFdRevents(f, both) \cap {"IN", "ERR", "HUP"} # {}
    <3>1. f \in Fds \cap DOMAIN fds
      BY <1>2 DEF FilesTyped
    <3> QED BY <3>1 DEF SelectFds, SelectReadable
  <2>4. {"IN"} \cup {} = one
    OBVIOUS
  <2>5. f \in PollFds([g \in {f} |-> {"IN"}]) <=> PollFdRevents(f, one) # {}
    BY Zenon, <1>1
  <2> HIDE DEF one, both, ready
  <2>6. /\ PollFdRevents(f, one) \cap {"IN", "ERR", "HUP"} # {} <=> ready
        /\ PollFdRevents(f, both) \cap {"IN", "ERR", "HUP"} # {} <=> ready
    BY <1>2, <2>1, ReadAgrees DEF ready
  <2>7. PollFdRevents(f, one) # {} <=> ready
    BY <1>2, <2>1, ReadAgrees DEF ready, one
  <2> QED BY <2>2, <2>3, <2>4, <2>5, <2>6, <2>7 DEF ready
<1>3. ASSUME NEW f \in DOMAIN fds, fds[f].kind \in {"PipeWrite", "Eventfd"}
      PROVE  LET ready == ~WouldBlock([op |-> "write", fd |-> f]) IN
             /\ f \in PollFds([g \in {f} |-> {"OUT"}]) <=> ready
             /\ f \in SelectFds({}, {f}).write <=> ready
  <2>1. f \in SelectFds({}, {f}).write <=> PollFdRevents(f, {} \cup {"OUT"}) \cap {"OUT", "ERR", "HUP"} # {}
    BY DEF SelectFds, SelectWritable
  <2>2. {} \cup {"OUT"} = {"OUT"}
    OBVIOUS
  <2> QED BY Zenon, <1>1, <1>3, <2>1, <2>2, WriteAgrees
<1> QED BY Zenon, <1>2, <1>3 DEF PollAgreesWithIo

-----------------------------------------------------------------------------
(* Calls on fds.                                                           *)

\* What tasks wait for stays a call of the guest while files are only added
LEMMA CallsFollow ==
  ASSUME WaitsFit, CallsKept, FilesGrow
  PROVE  WaitsFit'
<1>1. ASSUME NEW t \in Tids
      PROVE  WaitFits(t)'
  <2> SUFFICES ASSUME task'[t].state = "fd"
               PROVE  /\ task'[t].file \in DOMAIN level'
                      /\ task'[t].call.op \in Ops /\ task'[t].call.fd \in Fds
                      /\ task'[t].call.fd \in DOMAIN fds' /\ fds'[task'[t].call.fd].node = task'[t].file
                           => Waits(task'[t].call.op, fds'[task'[t].call.fd].kind)
    BY Zenon DEF WaitFits, Ops, Fds, Waits, Writes
  <2>1. task'[t] = task[t] /\ task[t].state = "fd"
    BY DEF CallsKept
  <2>2. WaitFits(t)
    BY DEF WaitsFit
  <2> DEFINE f == task[t].call.fd
  <2>3. /\ task[t].file \in DOMAIN level
        /\ task[t].call.op \in Ops /\ f \in Fds
        /\ f \in DOMAIN fds /\ fds[f].node = task[t].file => Waits(task[t].call.op, fds[f].kind)
    BY <2>1, <2>2 DEF WaitFits
  <2> HIDE DEF f
  <2>4. f \in DOMAIN fds' /\ fds'[f].node = task[t].file => f \in DOMAIN fds /\ fds'[f] = fds[f]
    BY <2>3 DEF FilesGrow
  <2>5. task[t].file \in DOMAIN level'
    BY <2>3 DEF FilesGrow
  <2> QED BY <2>1, <2>3, <2>4, <2>5 DEF f
<1> QED BY Zenon, <1>1 DEF WaitsFit

LEMMA BlockingCallKeeps ==
  ASSUME LoopInv, FilesTyped, CachedWatchesAreCurrent, WaitsFit,
         NEW t \in Tids, NEW f \in Fds, NEW op \in Ops, BlockingCall(t, [op |-> op, fd |-> f])
  PROVE  LoopInv' /\ EventKept /\ WaitsFit' /\ pc' = "loop"
<1> DEFINE call == [op |-> op, fd |-> f]
           waiting == [Task("fd", NoKey, 0, call) EXCEPT !.file = fds[f].node]
           after == task'[t]
<1>1. LoopTyped /\ Deadlines /\ task \in [Tids -> TaskRecords] /\ woken \subseteq Tids
      /\ DOMAIN pending \subseteq Tids
  BY DEF LoopInv, LoopTyped
<1>2. EventKept /\ UNCHANGED fds /\ DOMAIN level' = DOMAIN level
  <2> HIDE DEF call
  <2> QED BY BlockingCallFiles DEF call
<1>3. /\ Dispatch(t, op) /\ pending' = Keep(pending, StillPending(t)) /\ woken' = woken \ {t}
      /\ UNCHANGED <<futexTimeouts, sleepTimeouts, budget>>
  BY Zenon DEF BlockingCall, Runs
<1>4. /\ pc = "loop" /\ pc' = "loop" /\ pass' \in Seq(Tids) /\ now' = now /\ scenario' = scenario
      /\ task[t].state = "runnable" /\ op \in scenario.calls
  BY <1>1, <1>3, DispatchGives
<1>5. \/ /\ WouldBlock(call) /\ task' = [task EXCEPT ![t] = waiting]
      \/ task' = [task EXCEPT ![t] = Runnable(NoCall)]
  BY DEF BlockingCall
<1>6. WouldBlock(call) => /\ f \in DOMAIN fds /\ Waits(op, fds[f].kind) /\ fds[f].node \in DOMAIN level
                          /\ fds[f].node \in 0 .. MaxNodes
  <2>1. call.op = op /\ call.fd = f
    OBVIOUS
  <2> HIDE DEF call
  <2>2. WouldBlock(call) => f \in DOMAIN fds /\ Waits(op, fds[f].kind)
    BY <2>1, WaitsForItsKind
  <2>3. f \in DOMAIN fds => fds[f].node \in DOMAIN level
    BY DEF FilesTyped
  <2>4. \A n \in DOMAIN level : n \in 0 .. MaxNodes
    BY EventLoopAssumption DEF FilesTyped, Nodes
  <2> QED BY <2>2, <2>3, <2>4
<1>7. WouldBlock(call) => /\ waiting \in TaskRecords /\ waiting.state = "fd" /\ waiting.call = call
                          /\ waiting.file = fds[f].node
  <2>1. f \in 0 .. MaxFd
    BY EventLoopAssumption DEF Fds
  <2>2. call \in [op : Ops \cup {"none"}, fd : 0 .. MaxFd]
    BY <2>1
  <2>3. fds[f].node \in 0 .. MaxNodes => waiting \in TaskRecords
    <3> HIDE DEF call
    <3> QED BY <2>2 DEF TaskRecords, Task, NoKey
  <2>4. waiting.state = "fd" /\ waiting.call = call /\ waiting.file = fds[f].node
    BY DEF Task
  <2> QED BY <1>6, <2>3, <2>4
<1> HIDE DEF waiting, call
<1>8. /\ task' \in [Tids -> TaskRecords]
      /\ \A u \in Tids : u # t => task'[u] = task[u]
      /\ after \in {waiting, Runnable(NoCall)} /\ (after = waiting => WouldBlock(call) \/ after = Runnable(NoCall))
      /\ after.state \in {"fd", "runnable"}
  BY <1>1, <1>5, <1>7, RunnableRecord
<1>9. DOMAIN pending' \subseteq Tids /\ woken' \subseteq Tids
  BY Zenon, <1>1, <1>3 DEF Keep
<1>10. LoopTyped'
  BY Zenon, <1>1, <1>3, <1>4, <1>8, <1>9 DEF LoopTyped
<1>11. Deadlines'
  BY <1>1, <1>3, <1>8 DEF Deadlines, DeadlineOfTheWait
<1>12. ASSUME NEW u \in Tids
       PROVE  WaitFits(u)'
  <2>1. CASE u # t
    <3>1. WaitFits(u) /\ task'[u] = task[u]
      BY <1>8, <2>1 DEF WaitsFit
    <3> QED BY Zenon, <1>2, <3>1 DEF WaitFits, Ops, Fds, Waits, Writes
  <2>2. CASE u = t /\ after = Runnable(NoCall)
    <3>1. task'[u].state = "runnable"
      BY <2>2, RunnableRecord
    <3> QED BY <3>1 DEF WaitFits
  <2>3. CASE u = t /\ after = waiting /\ after # Runnable(NoCall)
    <3>1. task'[u].call = call /\ task'[u].file = fds[f].node /\ WouldBlock(call)
      BY <1>7, <1>8, <2>3
    <3>2. call.op = op /\ call.fd = f
      BY DEF call
    <3> QED BY Zenon, <1>2, <1>4, <1>6, <3>1, <3>2 DEF WaitFits, Ops, Fds, Waits, Writes
  <2> QED BY <1>8, <2>1, <2>2, <2>3
<1>13. WaitsFit'
  BY <1>2, <1>4, <1>12 DEF WaitsFit
<1> QED BY <1>2, <1>4, <1>10, <1>11, <1>13 DEF LoopInv

\* A call that makes, closes or watches fds
FdStep(t) ==
  \/ Pipe2(t) \/ Eventfd2(t) \/ Socket(t) \/ EpollCreate1(t)
  \/ \E e, f \in Fds : \/ \E events \in Interests : InsertWatch(t, e, f, events) \/ UpdateWatch(t, e, f, events)
                       \/ RemoveWatch(t, e, f)
  \/ \E f \in Fds : CloseFd(t, f) \/ EpollWaitTimed(t, f)
  \/ PollCall(t)

LEMMA FdStepKeeps ==
  ASSUME LoopInv, FilesTyped, CachedWatchesAreCurrent, NEW t \in Tids, FdStep(t)
  PROVE  LoopInv' /\ EventKept /\ CallsKept /\ pc' = "loop" /\ scenario' = scenario
<1>1. PICK name : FdCall(t, name)
  <2>1. Pipe2(t) \/ PollCall(t) => \E name : FdCall(t, name)
    BY DEF Pipe2, PollCall
  <2>2. Eventfd2(t) \/ Socket(t) \/ EpollCreate1(t) => \E name : FdCall(t, name)
    BY DEF Eventfd2, Socket, EpollCreate1, NewFd
  <2>3. ASSUME NEW e, NEW f, NEW events,
               InsertWatch(t, e, f, events) \/ UpdateWatch(t, e, f, events) \/ RemoveWatch(t, e, f)
        PROVE  \E name : FdCall(t, name)
    BY <2>3 DEF InsertWatch, UpdateWatch, RemoveWatch, EpollCtl
  <2>4. ASSUME NEW f, CloseFd(t, f) \/ EpollWaitTimed(t, f)
        PROVE  \E name : FdCall(t, name)
    BY <2>4 DEF CloseFd, EpollWaitTimed
  <2> QED BY <2>1, <2>2, <2>3, <2>4 DEF FdStep
<1>2. LoopInv' /\ CallsKept /\ pc' = "loop" /\ scenario' = scenario
  <2>1. RunsFresh(t, name) /\ UNCHANGED <<task, futexTimeouts, sleepTimeouts, budget>>
    BY <1>1 DEF FdCall
  <2> QED BY <2>1, QuietTaskKeeps
<1>3. scenario \in Scenarios
  BY DEF LoopInv, LoopTyped
<1>4. PollCall(t) => EventKept
  BY EventFrame DEF PollCall, EventKept
<1>5. EventKept
  BY <1>3, <1>4, Pipe2Keeps, EventfdOrSocketKeeps, EpollCreate1Keeps, EpollCtlKeeps, CloseFdKeeps,
     EpollWaitTimedKeeps DEF FdStep
<1> QED BY <1>2, <1>5

LEMMA ArrivesKeeps ==
  ASSUME LoopInv, FilesTyped, CachedWatchesAreCurrent, NEW n, Arrives(n)
  PROVE  LoopInv' /\ EventKept /\ CallsKept /\ pc' = "loop" /\ scenario' = scenario
<1>1. UNCHANGED <<loopVars, fds, watches, cached>> /\ level' = [level EXCEPT ![n] = 1] /\ pc = "loop"
  BY DEF Arrives
<1>2. UNCHANGED loopVars
  BY Zenon, <1>1
<1>3. LoopInv' /\ CallsKept /\ pc' = "loop" /\ scenario' = scenario
  BY Zenon, <1>1, <1>2 DEF LoopInv, LoopTyped, Deadlines, DeadlineOfTheWait, CallsKept, loopVars, IsTable
<1>4. DOMAIN level' = DOMAIN level /\ \A m \in DOMAIN level : level'[m] \in 0 .. MaxCounter
  BY <1>1 DEF FilesTyped, MaxCounter
<1>5. FilesTyped' /\ CachedWatchesAreCurrent'
  BY Zenon, <1>1, <1>4 DEF FilesTyped, CachedWatchesAreCurrent
<1> QED BY <1>1, <1>3, <1>4, <1>5, SameFilesGrow DEF EventKept

-----------------------------------------------------------------------------
(* The invariant.                                                          *)

\* The scheduler goes idle only when no task can run and no waiter is ready
LEMMA SchedulerEnterIdle ==
  ASSUME LoopTyped, SchedulerEnter([t \in Tids |-> WaiterReady(t)]), UNCHANGED eventVars
  PROVE  IdleIsIdle'
<1> DEFINE ready == [t \in Tids |-> WaiterReady(t)]
<1>1. pass' = Order(task', budget # 0) /\ pc' = IF pass' = << >> THEN "idle" ELSE "loop"
  BY DEF SchedulerEnter
<1> SUFFICES ASSUME pass' = << >>
             PROVE  \A t \in Tids : task'[t].state # "runnable" /\ ~WaiterReady(t)'
  BY <1>1 DEF IdleIsIdle
<1>2. \A t \in Tids : task'[t].state # "runnable"
  <2> DEFINE yield == budget # 0
             tasks == task'
  <2>1. Order(tasks, yield) = << >>
    BY <1>1
  <2> HIDE DEF yield, tasks
  <2>2. \A t \in Tids : tasks[t].state # "runnable"
    BY <2>1, OrderKeepsSome
  <2> QED BY <2>2 DEF tasks
<1>3. ASSUME NEW t \in Tids, task'[t].state = "fd"
      PROVE  task'[t] = task[t] /\ ~WaiterReady(t)
  <2>1. SchedulerEnter(ready) /\ (ready[t] <=> WaiterReady(t))
    OBVIOUS
  <2> HIDE DEF ready
  <2>2. task'[t] = CASE task[t].state = "futex" /\ t \in Due(futexTimeouts, now) -> Runnable(NoCall)
                     [] task[t].state = "sleep" /\ t \in Due(sleepTimeouts, now) -> Runnable(NoCall)
                     [] task[t].state = "fd" /\ ready[t] -> Runnable(task[t].call)
                     [] OTHER -> task[t]
    BY <2>1, SchedulerEnterTasks
  <2>3. task[t] \in TaskRecords
    BY DEF LoopTyped
  <2>4. Runnable(NoCall).state # "fd" /\ Runnable(task[t].call).state # "fd"
    BY <2>3, RunnableTyped
  <2> QED BY <1>3, <2>1, <2>2, <2>4
<1>4. ASSUME NEW t \in Tids
      PROVE  ~WaiterReady(t)'
  <2>1. CASE task'[t].state = "fd"
    BY <1>3, <2>1, ReadinessFrame
  <2>2. CASE task'[t].state # "fd"
    BY <2>2 DEF WaiterReady
  <2> QED BY <2>1, <2>2
<1> QED BY <1>2, <1>4

\* The run gives up only when nobody sleeps and nobody has a deadline
LEMMA NoRunnableTasksIdle ==
  ASSUME LoopInv, IdleIsIdle, NoRunnableTasks, UNCHANGED eventVars
  PROVE  IdleIsIdle'
<1>1. /\ pc = "idle" /\ pc' = "stuck" /\ UNCHANGED <<task, pass>>
      /\ Prune(futexTimeouts, task, "futex") = << >> /\ Prune(sleepTimeouts, task, "sleep") = << >>
  BY DEF NoRunnableTasks
<1>2. pass = << >> /\ \A t \in Tids : task[t].state # "runnable" /\ ~WaiterReady(t)
  BY <1>1 DEF IdleIsIdle
<1>3. IsTable(futexTimeouts, Nat) /\ IsTable(sleepTimeouts, Nat) /\ DeadlineOfTheWait
  BY DEF LoopInv, LoopTyped, Deadlines
<1>4. /\ \A t \in DOMAIN futexTimeouts : task[t].state # "futex"
      /\ \A t \in DOMAIN sleepTimeouts : task[t].state # "sleep"
  BY <1>1, <1>3, EmptyTable
<1>5. \A t \in Tids : task[t].state # "sleep" /\ (task[t].state = "futex" => task[t].deadline = 0)
  BY <1>3, <1>4 DEF DeadlineOfTheWait
<1>6. \A t \in Tids : ~WaiterReady(t)'
  BY <1>1, <1>2, ReadinessFrame
<1> QED BY <1>1, <1>2, <1>5, <1>6 DEF IdleIsIdle

\* The steps of the loop that leave tasks and deadlines alone
LEMMA QuietLoopKeeps ==
  ASSUME LoopInv, SkipTask \/ NoRunnableTasks \/ InitialExited \/ Tick
  PROVE  LoopInv' /\ CallsKept /\ scenario' = scenario
<1>1. UNCHANGED <<task, futexTimeouts, sleepTimeouts, budget, pending, woken, scenario>>
  BY DEF SkipTask, NoRunnableTasks, InitialExited, Tick
<1>2. LoopTyped
  BY DEF LoopInv
<1>3. pc' \in {"loop", "idle", "stuck", "exited"}
  BY <1>2 DEF SkipTask, NoRunnableTasks, InitialExited, Tick, LoopTyped
<1>4. now' \in Nat
  BY <1>2 DEF SkipTask, NoRunnableTasks, InitialExited, Tick, LoopTyped
<1>5. pass' \in Seq(Tids)
  <2>1. pass \in Seq(Tids)
    BY <1>2 DEF LoopTyped
  <2>2. pass # << >> => Tail(pass) \in Seq(Tids)
    BY <2>1
  <2> QED BY <2>1, <2>2 DEF SkipTask, NoRunnableTasks, InitialExited, Tick
<1>6. LoopTyped'
  BY <1>1, <1>2, <1>3, <1>4, <1>5 DEF LoopTyped
<1> QED BY <1>1, <1>6, QuietKeeps

LEMMA InitEvents ==
  ASSUME EventInit
  PROVE  EventInv
<1>1. /\ scenario \in Scenarios
      /\ task = [t \in Tids |-> IF t <= scenario.started THEN Runnable(NoCall) ELSE Unborn]
      /\ futexTimeouts = << >> /\ sleepTimeouts = << >>
      /\ budget = 0 /\ pass = << >> /\ pc = "loop" /\ pending = << >> /\ woken = {} /\ now = 0
      /\ fds = << >> /\ level = << >> /\ watches = << >> /\ cached = << >>
  BY DEF EventInit, LoopInit
<1>2. Unborn \in TaskRecords /\ Unborn.state = "unborn" /\ Unborn.call = NoCall
  BY EventLoopAssumption DEF TaskRecords, Unborn, Task, NoCall, NoKey
<1>3. /\ task \in [Tids -> TaskRecords]
      /\ \A t \in Tids : task[t].state \in {"runnable", "unborn"} /\ task[t].call = NoCall
  BY <1>1, <1>2, RunnableRecord
<1>4. LoopTyped
  <2>1. IsTable(futexTimeouts, Nat) /\ IsTable(sleepTimeouts, Nat)
    BY <1>1 DEF IsTable
  <2>2. pass \in Seq(Tids) /\ DOMAIN pending \subseteq Tids
    BY <1>1
  <2>3. budget \in 0 .. YieldLimit
    BY <1>1, RunLoopAssumption
  <2> QED BY <1>1, <1>3, <2>1, <2>2, <2>3 DEF LoopTyped
<1>5. DOMAIN level = {} /\ DOMAIN fds = {} /\ DOMAIN watches = {} /\ DOMAIN cached = {}
  BY <1>1
<1>6. FilesTyped
  BY <1>5 DEF FilesTyped
<1>7. Deadlines
  BY Zenon, <1>3 DEF Deadlines, DeadlineOfTheWait
<1>8. WaitsFit
  BY <1>3, <1>5 DEF WaitsFit, WaitFits, NoCall
<1>9. IdleIsIdle /\ CachedWatchesAreCurrent
  BY <1>1, <1>5 DEF IdleIsIdle, CachedWatchesAreCurrent
<1> QED BY <1>4, <1>6, <1>7, <1>8, <1>9 DEF EventInv

\* Every step of the loop, of a task and of the world keeps the invariant
LEMMA NextEvents ==
  ASSUME EventInv, [Next]_vars
  PROVE  EventInv'
<1>1. LoopInv /\ LoopTyped /\ FilesTyped /\ WaitsFit /\ IdleIsIdle /\ CachedWatchesAreCurrent
  BY DEF EventInv, LoopInv
<1> DEFINE Kept == LoopInv' /\ EventKept /\ CallsKept /\ scenario' = scenario
<1>2. Kept /\ IdleIsIdle' => EventInv'
  <2> SUFFICES ASSUME Kept, IdleIsIdle' PROVE EventInv'
    OBVIOUS
  <2>1. FilesGrow
    BY DEF EventKept
  <2>2. WaitsFit'
    BY <1>1, <2>1, CallsFollow
  <2> QED BY <2>2 DEF EventInv, LoopInv, EventKept
<1>3. UNCHANGED eventVars => EventKept
  BY <1>1, EventFrame DEF EventKept
<1>4. ASSUME SchedulerEnter([t \in Tids |-> WaiterReady(t)]), UNCHANGED eventVars
      PROVE  EventInv'
  <2> DEFINE ready == [t \in Tids |-> WaiterReady(t)]
  <2>1. IdleIsIdle'
    BY <1>1, <1>4, SchedulerEnterIdle
  <2>2. SchedulerEnter(ready) /\ scenario' = scenario
    BY <1>4 DEF SchedulerEnter
  <2> HIDE DEF ready
  <2>3. LoopInv' /\ CallsKept
    BY <1>1, <2>2, SchedulerEnterKeeps
  <2> QED BY <1>2, <1>3, <1>4, <2>1, <2>2, <2>3
<1>5. ASSUME ExpireNextFutex \/ ExpireNextSleep, UNCHANGED eventVars
      PROVE  EventInv'
  <2>1. pc' = "loop" /\ scenario' = scenario
    BY <1>5 DEF ExpireNextFutex, ExpireNextSleep
  <2>2. LoopInv' /\ CallsKept
    BY <1>1, <1>5, ExpireNextFutexKeeps, ExpireNextSleepKeeps
  <2>3. IdleIsIdle'
    BY <2>1, LoopGoesOn
  <2> QED BY <1>2, <1>3, <1>5, <2>1, <2>2, <2>3
<1>6. ASSUME SkipTask \/ NoRunnableTasks \/ InitialExited \/ Tick, UNCHANGED eventVars
      PROVE  EventInv'
  <2>1. IdleIsIdle'
    <3>1. CASE NoRunnableTasks
      BY <1>1, <1>6, <3>1, NoRunnableTasksIdle
    <3>2. CASE SkipTask \/ InitialExited \/ Tick
      <4>1. pc' \in {"loop", "exited"}
        BY Zenon, <3>2 DEF SkipTask, InitialExited, Tick
      <4> QED BY <4>1, LoopGoesOn
    <3> QED BY <1>6, <3>1, <3>2
  <2>2. LoopInv' /\ CallsKept /\ scenario' = scenario
    BY <1>1, <1>6, QuietLoopKeeps
  <2> QED BY <1>2, <1>3, <1>6, <2>1, <2>2
<1>7. ASSUME NEW t \in Tids, TaskStep(t), UNCHANGED eventVars
      PROVE  EventInv'
  <2>1. LoopInv' /\ CallsKept /\ pc' = "loop" /\ scenario' = scenario
    BY <1>1, <1>7, TaskStepKeeps
  <2>2. IdleIsIdle'
    BY <2>1, LoopGoesOn
  <2> QED BY <1>2, <1>3, <1>7, <2>1, <2>2
<1>8. ASSUME NEW t \in Tids, NEW f \in Fds, NEW op \in Ops, BlockingCall(t, [op |-> op, fd |-> f])
      PROVE  EventInv'
  <2>1. LoopInv' /\ EventKept /\ WaitsFit' /\ pc' = "loop"
    BY <1>1, <1>8, BlockingCallKeeps
  <2>2. IdleIsIdle'
    BY <2>1, LoopGoesOn
  <2> QED BY <2>1, <2>2 DEF EventInv, LoopInv, EventKept
<1>9. ASSUME NEW t \in Tids, FdStep(t)
      PROVE  EventInv'
  <2>1. LoopInv' /\ EventKept /\ CallsKept /\ pc' = "loop" /\ scenario' = scenario
    BY <1>1, <1>9, FdStepKeeps
  <2>2. IdleIsIdle'
    BY <2>1, LoopGoesOn
  <2> QED BY <1>2, <2>1, <2>2
<1>10. ASSUME NEW n \in Nodes, Arrives(n)
       PROVE  EventInv'
  <2>1. LoopInv' /\ EventKept /\ CallsKept /\ pc' = "loop" /\ scenario' = scenario
    BY <1>1, <1>10, ArrivesKeeps
  <2>2. IdleIsIdle'
    BY <2>1, LoopGoesOn
  <2> QED BY <1>2, <2>1, <2>2
<1>11. CASE UNCHANGED vars
  <2>1. UNCHANGED <<task, pass, pc>> /\ UNCHANGED eventVars
    BY Zenon, <1>11 DEF vars, loopVars
  <2>2. LoopInv' /\ CallsKept /\ scenario' = scenario
    BY <1>1, <1>11 DEF vars, loopVars, LoopInv, LoopTyped, IsTable, Deadlines, DeadlineOfTheWait, CallsKept
  <2>3. \A t \in Tids : WaiterReady(t)' <=> WaiterReady(t)
    BY Zenon, <2>1, ReadinessFrame
  <2>4. IdleIsIdle'
    BY <1>1, <2>1, <2>3 DEF IdleIsIdle
  <2> QED BY <1>2, <1>3, <2>1, <2>2, <2>4
<1>12. ASSUME LoopStep
       PROVE  EventInv'
  <2> HIDE DEF Kept
  <2>1. \/ SchedulerEnter([t \in Tids |-> WaiterReady(t)]) /\ UNCHANGED eventVars
        \/ (ExpireNextFutex \/ ExpireNextSleep \/ NoRunnableTasks \/ InitialExited) /\ UNCHANGED eventVars
        \/ SkipTask /\ UNCHANGED eventVars
        \/ \E t \in Tids :
             \/ TaskStep(t) /\ UNCHANGED eventVars
             \/ \E f \in Fds, op \in Ops : BlockingCall(t, [op |-> op, fd |-> f])
             \/ FdStep(t)
    BY <1>12 DEF LoopStep, FdStep, Ops
  <2> QED BY Zenon, <1>4, <1>5, <1>6, <1>7, <1>8, <1>9, <2>1
<1> QED BY <1>6, <1>10, <1>11, <1>12 DEF Next

LEMMA EventInvHolds == Spec => []EventInv
<1>1. EventInit => EventInv
  BY InitEvents
<1>2. EventInv /\ [Next]_vars => EventInv'
  BY NextEvents
<1> QED BY <1>1, <1>2, PTL DEF Spec

(***************************************************************************)
(* Whatever the guest does, a task that waits with a timeout has its own   *)
(* deadline in the table of its kind, and one that waits without has none: *)
(* no wake, requeue, signal, kill or exit loses a deadline or leaves one   *)
(* behind for a later wait (futex_timeouts, sleep_timeouts).               *)
(***************************************************************************)
THEOREM DeadlinesCorrect == Spec => []DeadlineOfTheWait
<1>1. EventInv => DeadlineOfTheWait
  BY DEF EventInv, Deadlines
<1> QED BY <1>1, EventInvHolds, PTL

-----------------------------------------------------------------------------
(* Waits end when they are due.                                            *)

\* The loop ends waits in three places only: everything else happens in a pass
LEMMA EndsOfWaits ==
  ASSUME LoopInv, [Next]_vars
  PROVE  \/ SchedulerEnter([t \in Tids |-> WaiterReady(t)])
         \/ ExpireNextFutex \/ ExpireNextSleep
         \/ pass # << >> \/ UNCHANGED task
<1>1. NoRunnableTasks \/ InitialExited \/ SkipTask \/ Tick => UNCHANGED task
  BY Zenon DEF NoRunnableTasks, InitialExited, SkipTask, Tick
<1>2. ASSUME NEW t \in Tids, TaskStep(t) PROVE pass # << >>
  BY <1>2, TaskStepKeeps
<1>3. ASSUME NEW t, NEW call, BlockingCall(t, call) PROVE pass # << >>
  BY <1>3 DEF BlockingCall, Runs, Dispatch
<1>4. ASSUME NEW t, FdStep(t) PROVE UNCHANGED task
  <2>1. ASSUME NEW name, FdCall(t, name) PROVE UNCHANGED task
    BY <2>1 DEF FdCall
  <2>2. Pipe2(t) \/ PollCall(t) => \E name : FdCall(t, name)
    BY Zenon DEF Pipe2, PollCall
  <2>3. Eventfd2(t) \/ Socket(t) \/ EpollCreate1(t) => \E name : FdCall(t, name)
    BY Zenon DEF Eventfd2, Socket, EpollCreate1, NewFd
  <2>4. ASSUME NEW e, NEW f, NEW events,
               InsertWatch(t, e, f, events) \/ UpdateWatch(t, e, f, events) \/ RemoveWatch(t, e, f)
        PROVE  \E name : FdCall(t, name)
    BY <2>4 DEF InsertWatch, UpdateWatch, RemoveWatch, EpollCtl
  <2>5. ASSUME NEW f, CloseFd(t, f) \/ EpollWaitTimed(t, f)
        PROVE  \E name : FdCall(t, name)
    BY Zenon, <2>5 DEF CloseFd, EpollWaitTimed
  <2> QED BY <1>4, <2>1, <2>2, <2>3, <2>4, <2>5 DEF FdStep
<1>5. ASSUME NEW n, Arrives(n) PROVE UNCHANGED task
  BY <1>5 DEF Arrives, loopVars
<1>6. UNCHANGED vars => UNCHANGED task
  BY DEF vars, loopVars
<1>7. ASSUME LoopStep
      PROVE  \/ SchedulerEnter([t \in Tids |-> WaiterReady(t)])
             \/ ExpireNextFutex \/ ExpireNextSleep
             \/ pass # << >> \/ UNCHANGED task
  <2>1. \/ SchedulerEnter([t \in Tids |-> WaiterReady(t)])
        \/ ExpireNextFutex \/ ExpireNextSleep \/ NoRunnableTasks \/ InitialExited \/ SkipTask
        \/ \E t \in Tids :
             \/ TaskStep(t)
             \/ \E f \in Fds, op \in Ops : BlockingCall(t, [op |-> op, fd |-> f])
             \/ FdStep(t)
    BY <1>7 DEF LoopStep, FdStep, Ops
  <2> QED BY Zenon, <1>1, <1>2, <1>3, <1>4, <2>1
<1> QED BY <1>1, <1>5, <1>6, <1>7 DEF Next

(***************************************************************************)
(* The scheduler ends a futex wait or a sleep only at its deadline, or     *)
(* when no task can run and no wait of the same kind ends earlier          *)
(* (expire_futex_timeouts, expire_next_futex_timeout and their twins for   *)
(* sleeps).                                                                *)
(***************************************************************************)
THEOREM WaitsEndWhenDue == Spec => TimeoutsAreDue
<1> DEFINE A == \A t \in Tids :
                  task[t].state \in {"futex", "sleep"} /\ task'[t].state = "runnable" /\ pass = << >>
                    => WaitWasDue(t)
<1>1. EventInv /\ [Next]_vars => [A]_loopVars
  <2> SUFFICES ASSUME EventInv, [Next]_vars, NEW t \in Tids,
                      task[t].state \in {"futex", "sleep"}, task'[t].state = "runnable", pass = << >>
               PROVE  WaitWasDue(t)
    BY Zenon
  <2>1. LoopInv /\ IdleIsIdle
    BY Zenon DEF EventInv, LoopInv
  <2>2. SchedulerEnter([u \in Tids |-> WaiterReady(u)]) \/ ExpireNextFutex \/ ExpireNextSleep
    BY <2>1, EndsOfWaits
  <2> QED BY Zenon, <2>1, <2>2, PassEndsDueWaits, IdleEndsNextFutex, IdleEndsNextSleep
<1>2. [A]_loopVars <=>
      [\A t \in Tids :
         task[t].state \in {"futex", "sleep"} /\ task'[t].state = "runnable" /\ pass = << >> =>
           /\ task[t].deadline # 0
           /\ \/ task[t].deadline <= now
              \/ /\ \A u \in Tids : task[u].state # "runnable"
                 /\ \A u \in Tids : task[u].state = task[t].state /\ task[u].deadline # 0
                                      => task[t].deadline <= task[u].deadline]_loopVars
  BY DEF WaitWasDue
<1> QED BY <1>1, <1>2, EventInvHolds, PTL DEF Spec, TimeoutsAreDue

-----------------------------------------------------------------------------
(* Readiness.                                                              *)

(***************************************************************************)
(* A task waits for an fd exactly as long as its call would block          *)
(* (resume_fd_waiters), poll, select and the calls agree, epoll_wait       *)
(* answers from the current watches and the run gives up (NoRunnableTasks) *)
(* only on a deadlock.  The cases in which the code does otherwise are the *)
(* ones WaitersAgree names: an fd number used again, a write to an eventfd *)
(* of more than its room, and a wait that only a socket can end.           *)
(***************************************************************************)
THEOREM ReadinessCorrect == Spec => []ReadinessAgrees
<1>1. EventInv => ReadinessAgrees
  <2> SUFFICES ASSUME EventInv PROVE ReadinessAgrees
    OBVIOUS
  <2>1. LoopTyped /\ FilesTyped /\ IdleIsIdle /\ CachedWatchesAreCurrent
    BY DEF EventInv
  <2>2. EventTypeOK
    BY <2>1 DEF EventTypeOK
  <2>3. WaitersAgree
    BY ReadyIsNotBlocked DEF WaitersAgree
  <2>4. PollAgreesWithIo
    BY <2>1, PollAndSelectAgree
  <2>5. GivesUpOnlyOnDeadlock
    <3> SUFFICES ASSUME pc = "stuck", NEW t \in Tids
                 PROVE  \/ task[t].state \in {"exited", "unborn"}
                        \/ task[t].state = "futex" /\ task[t].deadline = 0
                        \/ /\ task[t].state = "fd"
                           /\ (WouldBlock(task[t].call) \/ NumberReused(t) \/ OnlySocketsReady(task[t].call))
      BY DEF GivesUpOnlyOnDeadlock
    <3>1. /\ task[t].state # "runnable" /\ ~WaiterReady(t) /\ task[t].state # "sleep"
          /\ task[t].state = "futex" => task[t].deadline = 0
      BY <2>1 DEF IdleIsIdle
    <3>2. task[t].state \in {"runnable", "futex", "sleep", "fd", "exited", "unborn"}
      BY <2>1 DEF LoopTyped, TaskRecords
    <3>3. task[t].state = "fd" /\ ~NumberReused(t) => WouldBlock(task[t].call) \/ OnlySocketsReady(task[t].call)
      BY <3>1, ReadyIsNotBlocked
    <3> QED BY <3>1, <3>2, <3>3
  <2> QED BY <2>1, <2>2, <2>3, <2>4, <2>5 DEF ReadinessAgrees
<1> QED BY <1>1, EventInvHolds, PTL
=============================================================================
