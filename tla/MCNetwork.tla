------------------------------ MODULE MCNetwork ------------------------------
(***************************************************************************)
(* The socket table and the DNS cache for TLC.  A scenario says which      *)
(* calls the guest makes, which kinds of sockets it creates, how many and  *)
(* in which modes, whether the host gives a socket a completion port, what *)
(* the guest polls sockets for, and what its peers do and how many bytes   *)
(* each sends.  The DNS cache is a scenario of its own.                     *)
(***************************************************************************)
EXTENDS SocketTable, DnsCache

Read == {"readable"}
Write == {"writable"}
Both == Read \cup Write

\* A client: connects, again after a failure, polls, sends and receives.
Client ==
  [calls |-> {"socket", "connect", "poll", "so_error", "getsockname", "send", "recv", "close"},
   kinds |-> {"stream"}, created |-> 1, modes |-> BOOLEAN, ports |-> BOOLEAN,
   polls |-> Both, peer |-> {"sends", "closes", "resets"}, bytes |-> MaxBytes]

\* The same with recvmsg, which reads past what a poll for reading has received.
VectoredClient ==
  [Client EXCEPT
     !.calls = {"socket", "connect", "poll", "so_error", "send", "recvmsg", "shutdown", "nonblock",
                "close"},
     !.peer = {"sends"}]

\* A server: one listener and the connections it accepts.
Server ==
  [Client EXCEPT !.calls = {"socket", "bind", "listen", "accept", "poll", "close"}, !.peer = {}]

\* A datagram socket or an AF_UNIX socket, which has no host transport.
Datagram ==
  [Client EXCEPT
     !.calls = {"socket", "bind", "connect", "recvfrom", "sendto", "poll", "recv", "setsockopt", "listen",
                "nonblock", "close"},
     !.kinds = {"dgram", "unix"}, !.ports = {TRUE}, !.peer = {"sends"}]

\* Two sockets in one poll: WSAPoll answers for both.
Pair ==
  [Datagram EXCEPT !.calls = {"socket", "recvfrom", "poll", "close"}, !.created = 2, !.polls = Read]

\* Two connections in one poll: both poll by receiving.
StreamPair ==
  [Client EXCEPT !.calls = {"socket", "connect", "poll"}, !.created = 2, !.modes = {TRUE},
                 !.ports = {TRUE}, !.peer = {"sends"}, !.bytes = 1]

Dns == [Client EXCEPT !.calls = {}, !.created = 0]

MCScenarios == {Client, VectoredClient, Server, Datagram, Pair, StreamPair, Dns}

----------------------------------------------------------------------------

MCInit ==
  /\ NetInit /\ DnsInit
  /\ scenario = Dns \/ resolverConfig = CHOOSE config \in Configs : TRUE

MCNext ==
  \/ scenario # Dns /\ NetNext /\ UNCHANGED dnsVars
  \/ scenario = Dns /\ DnsNext /\ UNCHANGED netVars

MCVars == <<netVars, dnsVars>>

\* The host answers every connect, a call that can go on does, and the guest
\* polls its first socket for writing again and again.
MCFairness ==
  /\ WF_MCVars(CallContinues /\ UNCHANGED dnsVars)
  /\ WF_MCVars(\E id \in DOMAIN handles, ok \in BOOLEAN : HostConnects(id, ok) /\ UNCHANGED dnsVars)
  /\ SF_MCVars(Len(sockets) = 1 /\ PollStart(<<1>>, Write) /\ UNCHANGED dnsVars)

MCSpec == MCInit /\ [][MCNext]_MCVars /\ MCFairness

=============================================================================
