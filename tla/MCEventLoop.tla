---------------------------- MODULE MCEventLoop ----------------------------
(* Small guests for the run loop.  A scenario names the calls its tasks make, *)
(* how many tasks there are at the start, whether the order is sticky, the    *)
(* longest timeout, and how many fds are open at a time and files made.       *)
EXTENDS EventLoop

Scenario(calls, started, sticky, timeout, open, nodes) ==
  [calls |-> calls, started |-> started, sticky |-> sticky, timeout |-> timeout, open |-> open, nodes |-> nodes]

\* Three threads and two words; waits with and without a deadline.
Futexes == Scenario({"compute", "futex_wait", "futex_wake", "futex_requeue", "tgkill"}, 3, TRUE, 1, 0, 0)

\* Sleeps and timed waits, threads that exit.
Sleepers == Scenario({"futex_wait", "nanosleep", "exit"}, 3, FALSE, 2, 0, 0)

\* Threads on the two ends of pipes; the fds are closed and used again.
Pipes == Scenario({"pipe2", "read", "write", "close"}, 3, FALSE, 0, 3, 2)

\* Threads that count up and down, with values that do not always fit.
Counters == Scenario({"Eventfd", "read", "write", "write_two", "close"}, 3, FALSE, 0, 2, 2)

\* An eventfd or a pipe behind an epoll instance.
Epolls == Scenario({"pipe2", "Eventfd", "Epoll", "epoll_ctl", "epoll_wait", "write", "close"}, 2, FALSE, 0, 3, 2)

\* The number of a watched eventfd is used again.
Reuse == Scenario({"Eventfd", "Epoll", "epoll_ctl", "epoll_wait", "write", "close"}, 1, FALSE, 0, 2, 3)

\* A child about to exec.
Forks == Scenario({"compute", "store", "fork", "kill", "futex_wait", "exit"}, 1, TRUE, 0, 0, 0)

\* Sockets that are only polled.
Polls == Scenario({"Socket", "arrives", "poll", "close"}, 1, TRUE, 0, 3, 2)

\* A socket or an eventfd behind an epoll instance.
Sockets == Scenario({"Socket", "Eventfd", "Epoll", "epoll_ctl", "epoll_wait", "arrives", "write"}, 2, TRUE, 0, 3, 2)

MCScenarios == {Futexes, Sleepers, Pipes, Counters, Epolls, Reuse, Forks, Polls, Sockets}
ReuseScenarios == {Reuse}

============================================================================
