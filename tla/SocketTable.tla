---------------------------- MODULE SocketTable -----------------------------
(***************************************************************************)
(* GuestSocketTable (mcr-net/src/table.rs) and the socket system calls of  *)
(* mcr-runtime/src/filesystem.rs over it, with one HostSocket per socket   *)
(* that has a host handle.                                                 *)
(*                                                                         *)
(* The guest makes one call at a time.  A call that waits inside the host, *)
(* or that talks to the host more than once, stays in `call` while the     *)
(* host goes on: that is where completions race with the code.  Calls that *)
(* fail without changing anything are not steps.  Addresses are left out:  *)
(* what matters here is which state a socket is in.                        *)
(***************************************************************************)
EXTENDS HostSocket, FiniteSets, TLC

CONSTANTS MaxSockets,    \* sockets ever created
          MaxBytes,      \* bytes a peer sends on one connection
          MaxBacklog,    \* connections queued on a listener
          Scenarios      \* what the guest does: see MCNetwork

ASSUME BoundsAssumption == MaxSockets \in Nat /\ MaxBytes \in Nat /\ MaxBacklog \in Nat

VARIABLES
  sockets,        \* the table; a socket's id is its position, none is removed
  handles,        \* host_handles: id -> [h, token]
  readiness,      \* readiness_cache: set of <<id, token, event>>
  generation,     \* next_readiness_generation
  call,           \* the call in progress
  scenario

netVars == <<sockets, handles, readiness, generation, call, scenario>>

Ids == 1 .. Len(sockets)
Idle == [op |-> "idle"]
Sockets(op, id) == call = Idle /\ op \in scenario.calls /\ id \in Ids

\* GuestSocket::new.  Three fields are history: `received`, the bytes the guest was
\* given; `overtaken`, a vectored receive gave it later bytes than the handle holds;
\* `connectDropped`, a poll took the completion of its connect off the port.
NewSocket(kind, nonblocking) ==
  [kind |-> kind, nonblocking |-> nonblocking, state |-> "created", options |-> 0,
   shutRead |-> FALSE, shutWrite |-> FALSE, lastError |-> "none", received |-> << >>,
   overtaken |-> FALSE, connectDropped |-> FALSE]

NetInit ==
  /\ scenario \in Scenarios
  /\ sockets = << >> /\ handles = << >> /\ readiness = {} /\ generation = 1
  /\ call = Idle

UsesHostTransport(id) == sockets[id].kind # "unix"

SetState(id, state) == sockets' = [sockets EXCEPT ![id].state = state]

SetHandle(hs, id, h) == [hs EXCEPT ![id].h = h]

\* clear_socket.
WithoutSocket(id) == {r \in readiness : r[1] # id}

\* ensure_host_entry_mut: the handles and the next generation after it.
Ensured(id) ==
  IF id \in DOMAIN handles
  THEN {[handles |-> handles, generation |-> generation]}
  ELSE {[handles |-> handles @@ (id :> [h |-> OpenSocket(sockets[id].kind, sockets[id].nonblocking,
                                                          port, sockets[id].options),
                                        token |-> generation]),
         generation |-> generation + 1] : port \in scenario.ports}

----------------------------------------------------------------------------
(* Creating, binding, options.                                             *)

\* create_socket_from_spec and sys_socket.
CreateSocket(kind, nonblocking) ==
  /\ call = Idle /\ "socket" \in scenario.calls
  /\ Len(sockets) < scenario.created
  /\ sockets' = Append(sockets, NewSocket(kind, nonblocking))
  /\ UNCHANGED <<handles, readiness, generation, call, scenario>>

\* set_option of one option that can be written: only the guest's copy changes.
SetOption(id) ==
  /\ Sockets("setsockopt", id)
  /\ sockets' = [sockets EXCEPT ![id].options = 1 - @]
  /\ UNCHANGED <<handles, readiness, generation, call, scenario>>

\* A failed host bind leaves the handle open.
Bind(id, ok) ==
  /\ Sockets("bind", id) /\ sockets[id].state = "created"
  /\ IF UsesHostTransport(id)
     THEN \E e \in Ensured(id) : handles' = e.handles /\ generation' = e.generation
     ELSE UNCHANGED <<handles, generation>>
  /\ IF ok \/ ~UsesHostTransport(id) THEN SetState(id, "bound") ELSE UNCHANGED sockets
  /\ UNCHANGED <<readiness, call, scenario>>

Listen(id) ==
  /\ Sockets("listen", id) /\ sockets[id].kind # "dgram"
  /\ sockets[id].state \in {"bound", "listening"}
  /\ IF UsesHostTransport(id)
     THEN \E e \in Ensured(id) :
            /\ handles' = [e.handles EXCEPT ![id].h.listening = TRUE]
            /\ generation' = e.generation
     ELSE UNCHANGED <<handles, generation>>
  /\ SetState(id, "listening")
  /\ UNCHANGED <<readiness, call, scenario>>

SetNonblocking(id) ==
  /\ Sockets("nonblock", id)
  /\ sockets' = [sockets EXCEPT ![id].nonblocking = ~@]
  /\ handles' = IF id \in DOMAIN handles
                THEN [handles EXCEPT ![id].h.nonblocking = ~sockets[id].nonblocking]
                ELSE handles
  /\ UNCHANGED <<readiness, generation, call, scenario>>

----------------------------------------------------------------------------
(* Connecting.                                                             *)

\* finish_nonblocking_connect on socket s with handle h: what both become and
\* whether it failed.  peer_addr fails while the host is still connecting.
FinishConnect(s, h) ==
  CASE s.state # "connecting" \/ ConnectCompletion(h) = "pending" ->
         [s |-> s, h |-> h, failed |-> FALSE]
    [] s.state = "connecting" /\ ConnectCompletion(h) # "pending" /\ HasError(h) ->
         [s |-> [s EXCEPT !.state = "created", !.lastError = "refused"],
          h |-> TakeError(CompleteConnectFastPath(h)), failed |-> TRUE]
    [] s.state = "connecting" /\ ConnectCompletion(h) # "pending" /\ ~HasError(h)
         /\ h.link = "connecting" ->
         [s |-> s, h |-> CompleteConnectFastPath(h), failed |-> TRUE]
    [] OTHER ->
         [s |-> [s EXCEPT !.state = "connected", !.lastError = "none"],
          h |-> CompleteConnectFastPath(h), failed |-> FALSE]

\* connect returned would-block: the socket is connecting, whatever its mode.
BecomeConnecting(id) ==
  sockets' = [sockets EXCEPT ![id].state = "connecting", ![id].lastError = "inprogress"]

ConnectStream(id, e) ==
  LET h == e.handles[id].h IN
  \/ /\ UsesConnectEx(h)
     /\ handles' = SetHandle(e.handles, id, ConnectFastPath(h))
     /\ BecomeConnecting(id)
     /\ UNCHANGED call
  \/ /\ ~UsesConnectEx(h)
     /\ handles' = [e.handles EXCEPT ![id].h.link = "connecting"]
     /\ IF h.nonblocking
        THEN BecomeConnecting(id) /\ UNCHANGED call
        ELSE call' = [op |-> "connect", id |-> id] /\ UNCHANGED sockets

\* validate_connect: a second connect fails.
ConnectAllowed(id) == sockets[id].state \in {"created", "bound"}

Connect(id) ==
  /\ Sockets("connect", id) /\ ConnectAllowed(id)
  /\ \/ /\ ~UsesHostTransport(id)
        /\ SetState(id, "connected")
        /\ UNCHANGED <<handles, generation, call>>
     \/ /\ sockets[id].kind = "dgram"
        /\ \E e \in Ensured(id) : handles' = e.handles /\ generation' = e.generation
        /\ SetState(id, "connected")
        /\ UNCHANGED call
     \/ /\ sockets[id].kind = "stream"
        /\ \E e \in Ensured(id) : ConnectStream(id, e) /\ generation' = e.generation
  /\ UNCHANGED <<readiness, scenario>>

\* A blocking connect without a completion port waits in the host.
ConnectReturns ==
  /\ call.op = "connect" /\ handles[call.id].h.link \in {"up", "refused", "reset"}
  /\ IF handles[call.id].h.link = "refused"
     THEN handles' = [handles EXCEPT ![call.id].h.link = "idle"] /\ UNCHANGED sockets
     ELSE SetState(call.id, "connected") /\ UNCHANGED handles
  /\ call' = Idle
  /\ UNCHANGED <<readiness, generation, scenario>>

\* get_option(SO_ERROR).
GetSocketError(id) ==
  /\ Sockets("so_error", id)
  /\ IF sockets[id].state = "connecting"
     THEN LET r == FinishConnect(sockets[id], handles[id].h) IN
          /\ sockets' = [sockets EXCEPT ![id] = [r.s EXCEPT !.lastError = "none"]]
          /\ handles' = SetHandle(handles, id, r.h)
     ELSE /\ sockets' = [sockets EXCEPT ![id].lastError = "none"]
          /\ UNCHANGED handles
  /\ UNCHANGED <<readiness, generation, call, scenario>>

\* local_address and peer_address finish a connect first and ignore its error.
GetAddress(id) ==
  /\ Sockets("getsockname", id) /\ sockets[id].state = "connecting"
  /\ LET r == FinishConnect(sockets[id], handles[id].h) IN
     /\ sockets' = [sockets EXCEPT ![id] = r.s]
     /\ handles' = SetHandle(handles, id, r.h)
  /\ UNCHANGED <<readiness, generation, call, scenario>>

----------------------------------------------------------------------------
(* Accepting.                                                              *)

\* register_accepted_socket, after clear_socket of the listener.
Register(id, h) ==
  /\ Len(sockets) < MaxSockets
  /\ sockets' = Append(sockets, [NewSocket("stream", sockets[id].nonblocking)
                                   EXCEPT !.state = "connected"])
  /\ handles' = SetHandle(handles, id, h)
                  @@ (Len(sockets) + 1 :> [h |-> AcceptedSocket(h), token |-> generation])
  /\ generation' = generation + 1
  /\ readiness' = WithoutSocket(id)

AcceptFromBacklog(id) ==
  /\ handles[id].h.backlog > 0
  /\ Register(id, [handles[id].h EXCEPT !.backlog = @ - 1])

\* accept_fast_path.
AcceptFastPath(id) ==
  LET h == handles[id].h IN
  \/ /\ h.acceptError
     /\ handles' = SetHandle(handles, id, [h EXCEPT !.acceptError = FALSE])
     /\ UNCHANGED <<sockets, generation, readiness>>
  \/ /\ ~h.acceptError /\ h.acceptedFastPath
     /\ Register(id, [h EXCEPT !.acceptedFastPath = FALSE])
  \/ /\ ~h.acceptError /\ ~h.acceptedFastPath /\ ~h.pendingAccept /\ h.port
     /\ handles' = SetHandle(handles, id, [SubmitAcceptEx(h) EXCEPT !.pendingAccept = TRUE])
     /\ UNCHANGED <<sockets, generation, readiness>>

\* The plain accept comes first; a blocking listener waits in it.
Accept(id) ==
  /\ Sockets("accept", id) /\ sockets[id].state = "listening" /\ UsesHostTransport(id)
  /\ \/ AcceptFromBacklog(id) /\ UNCHANGED call
     \/ /\ handles[id].h.backlog = 0 /\ handles[id].h.nonblocking
        /\ AcceptFastPath(id) /\ UNCHANGED call
     \/ /\ handles[id].h.backlog = 0 /\ ~handles[id].h.nonblocking
        /\ call' = [op |-> "accept", id |-> id]
        /\ UNCHANGED <<sockets, handles, readiness, generation>>
  /\ UNCHANGED scenario

AcceptReturns ==
  /\ call.op = "accept" /\ AcceptFromBacklog(call.id)
  /\ call' = Idle
  /\ UNCHANGED scenario

----------------------------------------------------------------------------
(* Sending and receiving.                                                  *)

\* validate_connected_io; AF_UNIX connections have no host socket to use.
ConnectedIo(id) == sockets[id].state = "connected" /\ id \in DOMAIN handles

\* validate_datagram_io.
DatagramIo(id) == sockets[id].kind = "dgram" /\ sockets[id].state # "closed"

\* A send that fails, or that the fast path hands to a worker; a plain send
\* that succeeds changes nothing here.
Send(id) ==
  /\ Sockets("send", id) /\ ConnectedIo(id) /\ ~sockets[id].shutWrite
  /\ \/ /\ handles[id].h.link = "reset"
        /\ sockets' = [sockets EXCEPT ![id].lastError = "reset"]
        /\ UNCHANGED <<handles, call>>
     \/ /\ handles[id].h.link = "up" /\ CanUseIocpSend(handles[id].h)
        /\ handles' = [handles EXCEPT ![id].h = SubmitOverlappedSend(@)]
        /\ call' = [op |-> "send", id |-> id]
        /\ UNCHANGED sockets
  /\ UNCHANGED <<readiness, generation, scenario>>

\* wait_socket_io_completion_on_worker: packets of other operations are dropped.
WorkerTakesPacket ==
  /\ call.op = "send" /\ handles[call.id].h.packets # << >>
  /\ LET p == Head(handles[call.id].h.packets) IN
     /\ call' = IF p.op = "send" THEN Idle ELSE call
     /\ sockets' = IF p.op = "send" /\ ~p.ok
                   THEN [sockets EXCEPT ![call.id].lastError = "reset"] ELSE sockets
  /\ handles' = SetHandle(handles, call.id, TakePacket(handles[call.id].h))
  /\ UNCHANGED <<readiness, generation, scenario>>

\* What a receive on the handle gives: recv for read, recvfrom and readv of one
\* buffer, recv_vectored for recvmsg and readv.
HandleRecv(op, h, n) == IF op = "recvmsg" THEN RecvVectored(h, n) ELSE Recv(h, n)

\* The bytes a handle holds for the guest: the cached ones, then those on the port.
BytesOf(packets) == FlattenSeq([i \in 1 .. Len(packets) |-> packets[i].bytes])
HeldBytes(h) == h.recvReady \o BytesOf(h.packets)

\* The receive has an answer r: success clears the cached readiness, an error
\* is remembered as the socket's last error.
Received(op, id, r) ==
  /\ handles' = SetHandle(handles, id, r.h)
  /\ sockets' = IF r.res = "ok"
                THEN [sockets EXCEPT
                        ![id].received = @ \o r.bytes,
                        ![id].overtaken = @ \/ (/\ op = "recvmsg" /\ r.bytes # << >>
                                                /\ HeldBytes(handles[id].h) # << >>)]
                ELSE [sockets EXCEPT ![id].lastError = IF r.res = "wait" THEN "wouldblock" ELSE r.res]
  /\ readiness' = IF r.res = "ok" THEN WithoutSocket(id) ELSE readiness

ReceiveConnected(op, id, n) ==
  /\ Sockets(op, id) /\ ConnectedIo(id) /\ ~sockets[id].shutRead
  /\ LET r == HandleRecv(op, handles[id].h, n) IN
     IF r.res = "wait" /\ ~handles[id].h.nonblocking
     THEN call' = [op |-> op, id |-> id, n |-> n] /\ UNCHANGED <<sockets, handles, readiness>>
     ELSE Received(op, id, r) /\ UNCHANGED call
  /\ UNCHANGED <<generation, scenario>>

RecvConnected(id, n) == ReceiveConnected("recv", id, n)

RecvConnectedVectored(id, n) == ReceiveConnected("recvmsg", id, n)

\* A receive that waits in the host for the first byte, the end or an error.
ReceiveReturns ==
  /\ call.op \in {"recv", "recvmsg"}
  /\ LET r == HostRecv(handles[call.id].h, call.n) IN r.res # "wait" /\ Received(call.op, call.id, r)
  /\ call' = Idle
  /\ UNCHANGED <<generation, scenario>>

\* send_to opens the handle of a datagram socket if there is none.
SendTo(id) ==
  /\ Sockets("sendto", id) /\ DatagramIo(id) /\ ~sockets[id].shutWrite
  /\ \E e \in Ensured(id) : handles' = e.handles /\ generation' = e.generation
  /\ UNCHANGED <<sockets, readiness, call, scenario>>

\* recv_from on a datagram socket opens the handle if there is none.
ReceiveFrom(id) ==
  /\ Sockets("recvfrom", id) /\ DatagramIo(id) /\ ~sockets[id].shutRead
  /\ \E e \in Ensured(id) :
       LET r == HostRecv(e.handles[id].h, 1) IN
       /\ r.res # "wait" \/ sockets[id].nonblocking
       /\ handles' = SetHandle(e.handles, id, r.h)
       /\ generation' = e.generation
       /\ sockets' = IF r.res = "ok" THEN [sockets EXCEPT ![id].received = @ \o r.bytes]
                     ELSE [sockets EXCEPT ![id].lastError = "wouldblock"]
       /\ readiness' = IF r.res = "ok" THEN WithoutSocket(id) ELSE readiness
  /\ UNCHANGED <<call, scenario>>

Shutdown(id, how) ==
  /\ Sockets("shutdown", id) /\ sockets[id].state = "connected"
  /\ sockets' = [sockets EXCEPT ![id].shutRead = @ \/ how \in {"read", "both"},
                                ![id].shutWrite = @ \/ how \in {"write", "both"}]
  /\ UNCHANGED <<handles, readiness, generation, call, scenario>>

\* Dropping the handle cancels its pending operations and waits for them.
DropHandle(id) == [i \in DOMAIN handles \ {id} |-> handles[i]]

Close(id) ==
  /\ Sockets("close", id) /\ sockets[id].state # "closed"
  /\ sockets' = [sockets EXCEPT ![id].state = "closed", ![id].shutRead = TRUE,
                                ![id].shutWrite = TRUE]
  /\ handles' = DropHandle(id)
  /\ readiness' = WithoutSocket(id)
  /\ UNCHANGED <<generation, call, scenario>>

----------------------------------------------------------------------------
(* poll and poll_many.  Each socket first goes through the readiness cache; *)
(* then the sockets WSAPoll can answer, then those that poll by receiving.  *)

PollCall(interest, todo) ==
  [op |-> "poll", interest |-> interest, todo |-> todo, batch |-> << >>, fallback |-> << >>,
   submitted |-> FALSE, ready |-> {},
   asked |-> {todo[i] : i \in 1 .. Len(todo)}]

PollStart(ids, interest) ==
  /\ call = Idle /\ "poll" \in scenario.calls
  /\ \A i \in 1 .. Len(ids) : sockets[ids[i]].state # "closed"
  /\ call' = PollCall(interest, ids)
  /\ UNCHANGED <<sockets, handles, readiness, generation, scenario>>

\* Mutant: writable is reported and the connect left as it is.
FinishPolledReportsOnly(s, h, events) == [s |-> s, h |-> h, failed |-> FALSE]

\* finish_polled_readiness: writable finishes a connect, and a connect that
\* failed makes the whole poll fail.
FinishPolled(s, h, events) ==
  IF "writable" \in events THEN FinishConnect(s, h) ELSE [s |-> s, h |-> h, failed |-> FALSE]

\* The poll has the events of one socket s; rest is the call without it.
PolledSocket(hs, id, s, h, events, rest) ==
  LET r == FinishPolled(s, h, events) IN
  /\ sockets' = [sockets EXCEPT ![id] = r.s]
  /\ handles' = SetHandle(hs, id, r.h)
  /\ call' = IF r.failed THEN Idle
             ELSE [rest EXCEPT !.ready = @ \cup {<<id, event>> : event \in events}]

Polled(hs, id, h, events, rest) == PolledSocket(hs, id, sockets[id], h, events, rest)

\* The bits of the cache a poll for interest reports.
CachedFor(cache, id, token, interest) ==
  {event \in Event : /\ <<id, token, event>> \in cache
                     /\ event \in interest \cup {"error", "hang_up"}}

\* apply_completion for the completions of a drain.
ApplyCompletions(id, token, events) == readiness \cup {<<id, token, event>> : event \in events}

\* cached_poll_readiness for one socket, and prepare_batch_poll when it has no
\* cached readiness.
PollOne(e, id, d) ==
  LET token == e.handles[id].token
      cache == ApplyCompletions(id, token, d.events)
      rest == [call EXCEPT !.todo = Tail(@)]
      cached == CachedFor(cache, id, token, call.interest) IN
  /\ readiness' = cache
  /\ generation' = e.generation
  /\ \/ cached # {} /\ Polled(e.handles, id, d.h, cached, rest)
     \/ /\ cached = {}
        /\ handles' = SetHandle(e.handles, id, d.h)
        /\ call' = IF PollSubmits(d.h, call.interest)
                   THEN [rest EXCEPT !.fallback = Append(@, id)]
                   ELSE [rest EXCEPT !.batch = Append(@, id)]
        /\ UNCHANGED sockets

PollCached ==
  /\ call.op = "poll" /\ call.todo # << >>
  /\ LET id == Head(call.todo) IN
     IF UsesHostTransport(id)
     THEN \E e \in Ensured(id) : PollOne(e, id, DrainReadinessCompletions(e.handles[id].h))
     ELSE /\ call' = [call EXCEPT !.todo = Tail(@)]
          /\ UNCHANGED <<sockets, handles, readiness, generation>>
  /\ UNCHANGED scenario

\* poll_batch_requests: WSAPoll, one socket after the other.
PollBatch ==
  /\ call.op = "poll" /\ call.todo = << >> /\ call.batch # << >>
  /\ LET id == Head(call.batch)
         h == handles[id].h IN
     Polled(handles, id, h, HostPoll(h, call.interest), [call EXCEPT !.batch = Tail(@)])
  /\ UNCHANGED <<readiness, generation, scenario>>

\* WinHostSocketHandle::poll: the receive is submitted...
PollFallbackSubmit ==
  /\ call.op = "poll" /\ call.todo = << >> /\ call.batch = << >>
  /\ call.fallback # << >> /\ ~call.submitted
  /\ handles' = [handles EXCEPT ![Head(call.fallback)].h = SubmitRecvFastPath(@)]
  /\ call' = [call EXCEPT !.submitted = TRUE]
  /\ UNCHANGED <<sockets, readiness, generation, scenario>>

\* ... and one packet that arrives before the timeout is taken off the port; it is
\* lost when it is not the packet of the receive but that of the connect.
ConnectPacket(h) == h.packets # << >> /\ Head(h.packets).op = "connect"

PollFallbackTake ==
  /\ call.op = "poll" /\ call.submitted
  /\ LET id == Head(call.fallback)
         old == handles[id].h
         h == PollTakesPacket(old)
         s == [sockets[id] EXCEPT !.connectDropped = @ \/ (ConnectPacket(old) /\ h # old)] IN
     PolledSocket(handles, id, s, h, PollReadiness(h, call.interest),
                  [call EXCEPT !.fallback = Tail(@), !.submitted = FALSE])
  /\ UNCHANGED <<readiness, generation, scenario>>

PollReturns ==
  /\ call.op = "poll" /\ call.todo = << >> /\ call.batch = << >> /\ call.fallback = << >>
  /\ call' = Idle
  /\ UNCHANGED <<sockets, handles, readiness, generation, scenario>>

----------------------------------------------------------------------------
(* The host and the peers.                                                 *)

Host(id, h) ==
  /\ handles' = SetHandle(handles, id, h)
  /\ UNCHANGED <<sockets, readiness, generation, call, scenario>>

HostConnects(id, ok) ==
  /\ handles[id].h.link = "connecting"
  /\ LET h == handles[id].h IN
     IF "connect" \in h.flight
     THEN Host(id, HostCompletes([h EXCEPT !.link = IF ok THEN "up" ELSE "idle"],
                                 "connect", ok, << >>))
     ELSE Host(id, [h EXCEPT !.link = IF ok THEN "up" ELSE "refused"])

HostSends(id) ==
  /\ "send" \in handles[id].h.flight
  /\ LET h == handles[id].h IN Host(id, HostCompletes(h, "send", h.link = "up", << >>))

HostFailsAccept(id) ==
  /\ "accept" \in handles[id].h.flight
  /\ Host(id, HostCompletes(handles[id].h, "accept", FALSE, << >>))

PeerConnects(id) ==
  /\ handles[id].h.listening /\ handles[id].h.backlog < MaxBacklog
  /\ Host(id, ServeAccept([handles[id].h EXCEPT !.backlog = @ + 1]))

PeerSends(id) ==
  /\ "sends" \in scenario.peer
  /\ handles[id].h.link = "up" /\ ~handles[id].h.fin /\ handles[id].h.sent < scenario.bytes
  /\ Host(id, ServeRecv([handles[id].h EXCEPT !.sent = @ + 1]))

PeerCloses(id) ==
  /\ "closes" \in scenario.peer
  /\ handles[id].h.kind = "stream" /\ handles[id].h.link = "up" /\ ~handles[id].h.fin
  /\ Host(id, ServeRecv([handles[id].h EXCEPT !.fin = TRUE]))

PeerResets(id) ==
  /\ "resets" \in scenario.peer
  /\ handles[id].h.kind = "stream" /\ handles[id].h.link = "up"
  /\ Host(id, ServeRecv([handles[id].h EXCEPT !.link = "reset"]))

----------------------------------------------------------------------------

(* The system calls.                                                       *)

SysSocket == \E kind \in scenario.kinds, nonblocking \in scenario.modes : CreateSocket(kind, nonblocking)

SysBind(id) == \E ok \in BOOLEAN : Bind(id, ok)

SysConnect(id) == Connect(id)

SysListen(id) == Listen(id)

SysShutdown(id) == \E how \in {"read", "write", "both"} : Shutdown(id, how)

\* sendto and sendmsg: with an address, or on a connection.
SysSendto(id) == SendTo(id) \/ Send(id)

SysRecvfrom(id) == ReceiveFrom(id) \/ \E n \in 1 .. MaxBytes : RecvConnected(id, n)

SysRecvmsg(id) == \E n \in 1 .. MaxBytes : RecvConnectedVectored(id, n)

SysSetsockopt(id) == SetOption(id)

SysGetsockopt(id) == GetSocketError(id)

SysAccept(id) == Accept(id)

SysGetsockaddr(id) == GetAddress(id)

SysPoll ==
  \E interest \in SUBSET scenario.polls \ {{}} :
    \/ \E id \in Ids : PollStart(<<id>>, interest)
    \/ \E i, j \in Ids : i < j /\ PollStart(<<i, j>>, interest)

GuestCall ==
  \/ SysSocket \/ SysPoll
  \/ \E id \in Ids :
       \/ SysBind(id) \/ SysConnect(id) \/ SysListen(id) \/ SysShutdown(id) \/ SysSendto(id)
       \/ SysRecvfrom(id) \/ SysRecvmsg(id) \/ SysSetsockopt(id) \/ SysGetsockopt(id)
       \/ SysAccept(id) \/ SysGetsockaddr(id) \/ SetNonblocking(id) \/ Close(id)

CallContinues ==
  \/ ConnectReturns \/ AcceptReturns \/ WorkerTakesPacket \/ ReceiveReturns
  \/ PollCached \/ PollBatch \/ PollFallbackSubmit \/ PollFallbackTake \/ PollReturns

HostStep ==
  \E id \in DOMAIN handles :
    \/ \E ok \in BOOLEAN : HostConnects(id, ok)
    \/ HostSends(id) \/ HostFailsAccept(id) \/ PeerConnects(id)
    \/ PeerSends(id) \/ PeerCloses(id) \/ PeerResets(id)

NetNext == GuestCall \/ CallContinues \/ HostStep

----------------------------------------------------------------------------
(* Properties.                                                             *)

NetTypeOK ==
  /\ Len(sockets) <= MaxSockets
  /\ DOMAIN handles \subseteq Ids
  /\ readiness \subseteq Ids \X (1 .. generation) \X Event
  /\ \A id \in Ids :
       /\ sockets[id].state \in {"created", "bound", "listening", "connecting", "connected", "closed"}
       /\ sockets[id].lastError \in
            {"none", "inprogress", "refused", "wouldblock", "reset", "notconn"}
  /\ \A id \in DOMAIN handles :
       /\ handles[id].h.link \in {"idle", "connecting", "up", "refused", "reset"}
       /\ handles[id].h.flight \subseteq Operation
       /\ handles[id].h.recvError \in {"none", "notconn", "reset"}

\* What the host has handed out on a connection is what the guest was given,
\* then what the handle caches, then what waits on the completion port: no byte
\* is lost or doubled, and none is overtaken by a later one (submit_recv_fast_path,
\* drain_readiness_completions, complete_recv_packet, recv).  The exception is a
\* vectored receive of a socket that was polled for reading: recv_vectored goes to the
\* socket past the bytes the poll received, and the guest gets them out of order.
StreamIntact ==
  \A id \in DOMAIN handles :
    LET bytes == sockets[id].received \o HeldBytes(handles[id].h)
        taken == handles[id].h.taken IN
    /\ ~sockets[id].overtaken => bytes = [i \in 1 .. taken |-> i]
    /\ Len(bytes) = taken /\ {bytes[i] : i \in 1 .. Len(bytes)} = 1 .. taken

Pending(id) ==
  {op \in Operation :
     \/ op = "accept" /\ handles[id].h.pendingAccept
     \/ op = "recv" /\ handles[id].h.pendingRecv
     \/ op = "connect" /\ handles[id].h.pendingConnect
     \/ op = "send" /\ call.op = "send" /\ call.id = id}

\* Every operation the handle waits for is still with the host or has exactly one
\* packet on the port, and nothing else is: no loop that takes packets off the
\* port drops one that somebody waits for.  The exception is a connect that completes
\* between the two halves of a poll for reading: the poll takes its packet for that of
\* the receive and drops it (complete_recv_packet), and the connect stays pending.
OperationsAreTracked ==
  \A id \in DOMAIN handles :
    LET h == handles[id].h
        ops == {h.packets[i].op : i \in 1 .. Len(h.packets)} IN
    /\ Pending(id) \ (IF sockets[id].connectDropped THEN {"connect"} ELSE {}) = h.flight \cup ops
    /\ sockets[id].connectDropped => h.pendingConnect
    /\ h.flight \cap ops = {}
    /\ Cardinality(ops) = Len(h.packets)

\* The fields of the ConnectEx fast path are in use only while the guest socket is
\* connecting, so a finished connect leaves nothing behind that a later one would
\* take for its own; and a connected socket has a connected host socket.
ConnectMatchesHandle ==
  \A id \in DOMAIN handles :
    LET h == handles[id].h IN
    /\ h.pendingConnect \/ h.connectCompleted \/ h.connectError => sockets[id].state = "connecting"
    /\ sockets[id].state = "connected" => h.link \in {"up", "reset"}

\* Readiness is cached only under the token of a handle that is open now.
ReadinessHasAHandle ==
  \A r \in readiness : r[1] \in DOMAIN handles /\ handles[r[1]].token = r[2]

\* The socket table, the handle table and the completion port describe the same
\* operations: the statements above together.
HandlesAreTracked == NetTypeOK /\ OperationsAreTracked /\ ConnectMatchesHandle /\ ReadinessHasAHandle

\* A poll for reading that answers nothing for a connected socket was right: the
\* handle has no received bytes, no end of stream and no failure to report.
PollMissesNothing ==
  call.op = "poll" /\ call'.op = "idle" /\ PollReturns /\ "readable" \in call.interest =>
    \A id \in DOMAIN handles :
      (\E r \in call.ready : r[1] = id) \/ id \notin call.asked \/ sockets[id].state # "connected"
      \/ (~HasRecvReadiness(handles[id].h) /\ handles[id].h.recvError = "none")

\* When a connect fails its socket can be used again and the reason waits in
\* SO_ERROR, unless SO_ERROR is what found out.
FailedConnectKeepsError ==
  \A id \in Ids : sockets[id].state = "connecting" /\ sockets'[id].state = "created" =>
    sockets'[id].lastError = "refused" \/ GetSocketError(id)

\* What became of an operation reaches the guest: a step does both of the above.
OutcomesAreReported == [][PollMissesNothing /\ FailedConnectKeepsError]_netVars

FirstIsConnecting ==
  /\ scenario.created = 1 /\ Len(sockets) = 1 /\ sockets[1].state = "connecting"
  /\ ~sockets[1].connectDropped

\* A guest that polls its one connecting socket for writing again and again learns the
\* outcome, whatever else it polls it for, unless a poll for reading dropped the
\* completion (see OperationsAreTracked).
ConnectResolves == FirstIsConnecting ~> ~FirstIsConnecting
=============================================================================
