----------------------------- MODULE HostSocket -----------------------------
(***************************************************************************)
(* One host socket behind a guest socket: WinHostSocketHandle of           *)
(* mcr-net/src/win_transport.rs over the pending operations of mcr-win.    *)
(* A handle is a record; every operator takes one and returns the next.    *)
(*                                                                         *)
(* The handle's own fields are named after the source.  The fields of the  *)
(* host (Winsock and the completion port) are external:                    *)
(*   link     state of the host connection                                 *)
(*   backlog  connections a listener has queued                            *)
(*   sent     bytes (or datagrams) the peer has sent: byte n is number n   *)
(*   taken    how many of them a host receive has already handed out       *)
(*   fin      the peer will send no more                                   *)
(*   flight   overlapped operations the host has not completed             *)
(*   packets  the queue of the completion port                             *)
(* A packet names the operation its OVERLAPPED address belongs to.  The    *)
(* host serves an overlapped receive or accept before a later plain one,   *)
(* so it completes the moment there is something to give.                  *)
(***************************************************************************)
EXTENDS Naturals, Sequences, SequencesExt

Event == {"readable", "writable", "error", "hang_up"}

\* Overlapped operations, one of each kind per handle at a time.
Operation == {"accept", "recv", "connect", "send"}

Packet(op, ok, bytes) == [op |-> op, ok |-> ok, bytes |-> bytes]

\* open_socket: the completion port may be missing, the options are the
\* guest's at this moment and a nonblocking guest socket is nonblocking here.
OpenSocket(kind, nonblocking, port, options) ==
  [kind |-> kind, nonblocking |-> nonblocking, port |-> port, options |-> options,
   listening |-> FALSE,
   pendingAccept |-> FALSE, acceptedFastPath |-> FALSE, acceptError |-> FALSE,
   pendingRecv |-> FALSE, recvReady |-> << >>, recvEof |-> FALSE, recvError |-> "none",
   pendingConnect |-> FALSE, connectCompleted |-> FALSE, connectError |-> FALSE,
   link |-> IF kind = "dgram" THEN "up" ELSE "idle", backlog |-> 0,
   sent |-> 0, taken |-> 0, fin |-> FALSE, flight |-> {}, packets |-> << >>]

\* The handle of an accepted connection has no completion port.
AcceptedSocket(listener) ==
  [OpenSocket(listener.kind, listener.nonblocking, FALSE, listener.options)
     EXCEPT !.link = "up"]

----------------------------------------------------------------------------
(* The host.                                                               *)

Unread(h) == [i \in 1 .. h.sent - h.taken |-> h.taken + i]

\* The host finishes an operation: one packet, and it is in flight no more.
HostCompletes(h, op, ok, bytes) ==
  [h EXCEPT !.flight = @ \ {op}, !.packets = Append(@, Packet(op, ok, bytes)),
            !.taken = @ + Len(bytes)]

\* An overlapped receive completes as soon as there is something to report.
ServeRecv(h) ==
  CASE "recv" \notin h.flight -> h
    [] h.link = "reset" -> HostCompletes(h, "recv", FALSE, << >>)
    [] h.link # "reset" /\ (h.taken < h.sent \/ h.fin) -> HostCompletes(h, "recv", TRUE, Unread(h))
    [] OTHER -> h

ServeAccept(h) ==
  IF "accept" \in h.flight /\ h.backlog > 0
  THEN HostCompletes([h EXCEPT !.backlog = @ - 1], "accept", TRUE, << >>)
  ELSE h

\* A plain receive of at most n bytes: what it takes, "eof", an error, or it
\* has to wait.
HostRecv(h, n) ==
  CASE h.link = "reset" -> [h |-> h, res |-> "reset", bytes |-> << >>]
    [] h.link # "reset" /\ h.taken < h.sent ->
         [h |-> [h EXCEPT !.taken = @ + (IF n < h.sent - h.taken THEN n ELSE h.sent - h.taken)],
          res |-> "ok",
          bytes |-> SubSeq(Unread(h), 1, IF n < h.sent - h.taken THEN n ELSE h.sent - h.taken)]
    [] h.link # "reset" /\ h.taken = h.sent /\ h.fin -> [h |-> h, res |-> "ok", bytes |-> << >>]
    [] OTHER -> [h |-> h, res |-> "wait", bytes |-> << >>]

\* WSAPoll.
HostPoll(h, interest) ==
  (interest \cap
     ((IF h.backlog > 0 \/ h.taken < h.sent \/ h.fin \/ h.link = "reset" THEN {"readable"} ELSE {})
      \cup (IF h.link \in {"up", "refused", "reset"} THEN {"writable"} ELSE {})))
  \cup (IF h.link \in {"refused", "reset"} THEN {"error"} ELSE {})

----------------------------------------------------------------------------
(* The handle.                                                             *)

IsTcpStream(h) == h.kind = "stream"

CanUseIocpRecv(h) == ~h.listening /\ h.port /\ IsTcpStream(h)

CanUseIocpSend(h) ==
  /\ h.port /\ ~h.listening /\ ~h.nonblocking
  /\ ~h.pendingAccept /\ ~h.pendingConnect /\ ~h.pendingRecv
  /\ IsTcpStream(h)

HasRecvReadiness(h) == h.recvReady # << >> \/ h.recvEof

\* A receive on a socket that is not connected fails at once, and the failure
\* is kept as the handle's receive error.
SubmitOverlappedRecv(h) ==
  IF h.link \in {"up", "reset"}
  THEN ServeRecv([h EXCEPT !.pendingRecv = TRUE, !.flight = @ \cup {"recv"}])
  ELSE [h EXCEPT !.recvError = "notconn"]

SubmitRecvFastPath(h) ==
  IF h.pendingRecv \/ HasRecvReadiness(h) \/ h.recvError # "none"
  THEN h
  ELSE SubmitOverlappedRecv(h)

\* submit_overlapped_send.
SubmitOverlappedSend(h) == [h EXCEPT !.flight = @ \cup {"send"}]

\* apply_recv_submission and cache_recv_completion.
ApplyRecv(h, p) ==
  CASE ~p.ok -> [h EXCEPT !.pendingRecv = FALSE, !.recvError = "reset"]
    [] p.ok /\ p.bytes = << >> -> [h EXCEPT !.pendingRecv = FALSE, !.recvEof = TRUE]
    [] OTHER -> [h EXCEPT !.pendingRecv = FALSE, !.recvReady = @ \o p.bytes]

\* Any packet that is not the pending receive's is dropped.
CompleteRecvPacket(h, p) == IF h.pendingRecv /\ p.op = "recv" THEN ApplyRecv(h, p) ELSE h

\* port.get: the oldest packet, if there is one.
TakePacket(h) == [h EXCEPT !.packets = Tail(@)]

\* SocketCompletionKind::readiness of the kinds the handle reports.
CompletionReadiness(kind) ==
  CASE kind \in {"Accept", "Receive"} -> {"readable"}
    [] kind = "Connect" -> {"writable"}
    [] kind = "PeerClosed" -> {"readable", "hang_up"}
    [] kind = "Error" -> {"error"}

RecvCompletionKind(h) ==
  CASE h.recvError # "none" -> "Error"
    [] h.recvError = "none" /\ h.recvEof -> "PeerClosed"
    [] OTHER -> "Receive"

\* HostSocketCompletion: the readiness of one more completion.
Report(events, kind) == events \cup CompletionReadiness(kind)

\* One packet of drain_readiness_completions.  acc.events are the readiness
\* bits of the completions so far.
DrainAccept(acc, p) ==
  [h |-> [acc.h EXCEPT !.pendingAccept = FALSE, !.acceptedFastPath = @ \/ p.ok,
                       !.acceptError = @ \/ ~p.ok],
   events |-> IF p.ok THEN Report(acc.events, "Accept")
             ELSE Report(Report(acc.events, "Accept"), "Error")]

DrainRecv(acc, p) ==
  [h |-> ApplyRecv(acc.h, p),
   events |-> Report(acc.events, RecvCompletionKind(ApplyRecv(acc.h, p)))]

DrainConnect(acc, p) ==
  [h |-> [acc.h EXCEPT !.pendingConnect = FALSE, !.connectCompleted = @ \/ p.ok,
                       !.connectError = @ \/ ~p.ok],
   events |-> IF p.ok THEN Report(acc.events, "Connect")
             ELSE Report(Report(acc.events, "Connect"), "Error")]

DrainPacket(acc, p) ==
  CASE p.op = "accept" /\ acc.h.pendingAccept -> DrainAccept(acc, p)
    [] p.op = "recv" /\ acc.h.pendingRecv -> DrainRecv(acc, p)
    [] p.op = "connect" /\ acc.h.pendingConnect -> DrainConnect(acc, p)
    [] OTHER -> acc

DrainReadinessCompletions(h) ==
  FoldLeft(DrainPacket, [h |-> [h EXCEPT !.packets = << >>], events |-> {}], h.packets)

\* Mutant: a short read throws the rest of the cached bytes away.
RecvClearsCache(h, n) ==
  IF h.recvReady = << >> THEN HostRecv(h, n)
  ELSE [h |-> [h EXCEPT !.recvReady = << >>], res |-> "ok",
        bytes |-> SubSeq(h.recvReady, 1, IF n < Len(h.recvReady) THEN n ELSE Len(h.recvReady))]

\* recv: cached bytes first, then the end of the stream, then a failure, and
\* the socket only when no overlapped receive is pending.
Recv(h, n) ==
  CASE h.recvReady # << >> ->
         [h |-> [h EXCEPT !.recvReady = SubSeq(@, n + 1, Len(@))], res |-> "ok",
          bytes |-> SubSeq(h.recvReady, 1, IF n < Len(h.recvReady) THEN n ELSE Len(h.recvReady))]
    [] h.recvReady = << >> /\ h.recvEof -> [h |-> h, res |-> "ok", bytes |-> << >>]
    [] h.recvReady = << >> /\ ~h.recvEof /\ h.recvError # "none" ->
         [h |-> [h EXCEPT !.recvError = "none"], res |-> h.recvError, bytes |-> << >>]
    [] h.recvReady = << >> /\ ~h.recvEof /\ h.recvError = "none" /\ h.pendingRecv ->
         [h |-> h, res |-> "wouldblock", bytes |-> << >>]
    [] OTHER -> HostRecv(h, n)

\* recv_vectored goes to the socket, whatever is cached or pending.
RecvVectored(h, n) == HostRecv(h, n)

\* connect_fast_path and, in mcr-win, submit_connect_ex.
UsesConnectEx(h) == h.port /\ IsTcpStream(h) /\ ~h.pendingConnect

SubmitConnectEx(h) == [h EXCEPT !.flight = @ \cup {"connect"}, !.link = "connecting"]

ConnectFastPath(h) == [SubmitConnectEx(h) EXCEPT !.pendingConnect = TRUE]

\* submit_accept_ex.
SubmitAcceptEx(h) == ServeAccept([h EXCEPT !.flight = @ \cup {"accept"}])

\* complete_connect_fast_path.
ConnectCompletion(h) ==
  CASE h.connectCompleted \/ h.connectError -> "completed"
    [] ~h.connectCompleted /\ ~h.connectError /\ h.pendingConnect -> "pending"
    [] OTHER -> "inactive"

\* Mutant: the completion is looked at, not taken.
CompleteConnectPeeks(h) == h

CompleteConnectFastPath(h) == [h EXCEPT !.connectCompleted = FALSE]

\* take_error: the failure of the ConnectEx first, then SO_ERROR of the socket.
HasError(h) == h.connectError \/ h.link = "refused"

TakeError(h) ==
  IF h.connectError THEN [h EXCEPT !.connectError = FALSE]
  ELSE [h EXCEPT !.link = IF @ = "refused" THEN "idle" ELSE @]

\* The first half of poll for reading: submit a receive.  The second half takes
\* one packet if there is no readiness yet.
PollSubmits(h, interest) == "readable" \in interest /\ CanUseIocpRecv(h)

PollTakesPacket(h) ==
  IF ~HasRecvReadiness(h) /\ h.pendingRecv /\ h.packets # << >>
  THEN CompleteRecvPacket(TakePacket(h), Head(h.packets))
  ELSE h

\* Mutant: the end of the stream is not readiness.
PollReadinessBytesOnly(h, interest) ==
  IF PollSubmits(h, interest)
  THEN (IF h.recvReady # << >> THEN {"readable"} ELSE {})
       \cup (IF h.recvError # "none" THEN {"error"} ELSE {})
  ELSE HostPoll(h, interest)

PollReadiness(h, interest) ==
  IF PollSubmits(h, interest)
  THEN (IF HasRecvReadiness(h) THEN {"readable"} ELSE {})
       \cup (IF h.recvError # "none" THEN {"error"} ELSE {})
       \cup (IF interest = {"readable"} THEN {} ELSE HostPoll(h, interest \ {"readable"}))
  ELSE HostPoll(h, interest)

=============================================================================
