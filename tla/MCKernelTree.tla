---------------------------- MODULE MCKernelTree ----------------------------
(* An instance of GuestKernel about the process tree.  A behaviour stays in *)
(* one scenario: the life of processes and threads, wait4 by pid and by     *)
(* process group while the groups change, or tasks that wait for            *)
(* descriptors and timers while others exit.                                *)
EXTENDS GuestKernel

VARIABLE scenario

MCSelectors == {-2, -1, 0, 2}

LifeCalls == {"fork", "vfork", "clone", "execve", "exit", "exit_group", "wait4"}
GroupCalls == {"fork", "clone", "exit_group", "wait4", "setpgid", "setsid"}
BlockingCalls == {"fork", "clone", "exit", "exit_group", "read", "nanosleep"}

Life(t) == SyscallOf(t, LifeCalls, {}, Signal, {}, Dispositions, {-1})

\* Three processes and threads suffice for two groups and a blocked wait4.
Groups(t) == /\ SyscallOf(t, GroupCalls, {}, Signal, {}, Dispositions, WaitSelectors)
             /\ next_pid' <= 4 /\ next_tid' <= 4

Blocking(t) == /\ SyscallOf(t, BlockingCalls, {}, Signal, {}, Dispositions, {})
               /\ next_pid' <= 3 /\ next_tid' <= 5

MCInit == Init /\ scenario \in {"life", "groups", "blocking"}

MCNext ==
    /\ UNCHANGED scenario
    /\ \/ scenario = "life" /\ \E t \in Tid : Life(t)
       \/ scenario = "groups" /\ \E t \in Tid : Groups(t)
       \/ scenario = "blocking" /\ \E t \in Tid : Blocking(t)
       \/ \E t \in Tid : Scheduler(t)
       \/ ResumeWaitingTasks
       \/ ResumeFdWaiters

\* The scheduler loop calls resume_waiting_tasks on every turn.
MCSpec == /\ MCInit /\ [][MCNext]_<<vars, scenario>>
          /\ WF_<<vars, scenario>>(scenario = "groups" /\ ResumeWaitingTasks
                                   /\ UNCHANGED scenario)

\* Liveness: in the scenario of the groups a zombie that some blocked wait4
\* of its parent matches does not stay, as long as the scheduler loop turns:
\* again and again there is none (resume_waiting_tasks).
ZombieWaitedForIsReaped ==
    []<>(scenario = "groups" => \A c \in Pid : ~WaitedFor(c))

\* A blocked wait4 gets the child it waits for, and blocks without one only if
\* another took it (resume_waiting_tasks, wait4).
WaitsAreForChildren ==
    ZombieWaitedForIsReaped /\ [][ChildlessWaitLostItsChild]_<<vars, scenario>>
=============================================================================
