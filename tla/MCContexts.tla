----------------------------- MODULE MCContexts -----------------------------
(***************************************************************************)
(* Two workloads for ProcessContext: three processes that share a socket   *)
(* and an epoll instance, and two that duplicate fds and pass bad          *)
(* pointers.                                                               *)
(***************************************************************************)
EXTENDS ProcessContext

CONSTANTS v0, v1, s1, s2, e1

Sharing ==
    [calls |-> {"fcntl"}, faults |-> {},
     pids |-> 3, values |-> {v0, v1}, fds |-> {3}, objects |-> {s1, e1}]
Duplicating ==
    [calls |-> {"dup", "dup2", "close_range"},
     faults |-> {"wstatus", "tid", "sockaddr"},
     pids |-> 2, values |-> {v0}, fds |-> {3, 4}, objects |-> {s1, s2}]
MCWorkloads == {Sharing, Duplicating}
=============================================================================
