---------------------------- MODULE MCKernelWaits ----------------------------
(* An instance of GuestKernel about blocked tasks and what wakes them.  A   *)
(* behaviour stays in one scenario: signals and their waiters, masks and    *)
(* handlers, or futexes.                                                    *)
EXTENDS GuestKernel

VARIABLE scenario

MCSigSets == {{10}, {10, 17}, {17}, {9, 17}}

SignalCalls == {"fork", "clone", "kill", "tkill", "sigtimedwait", "sigsuspend"}
MaskCalls == {"clone", "exit", "kill", "tkill", "sigprocmask", "sigaction",
              "sigreturn", "sigtimedwait", "sigsuspend", "futex_wait",
              "set_tid_address"}
FutexCalls == {"fork", "clone", "exit", "exit_group", "futex_wait", "futex_wake",
               "futex_requeue", "set_robust_list"}

Signals(t) == SyscallOf(t, SignalCalls, {}, {10, 17}, {{10}, {10, 17}}, {}, {})

\* Two threads suffice for masks and handlers.
MaskSets == {{17}, {9, 17}}
MaskDispositions == {d \in Dispositions : d.mask \in MaskSets \cup {{}}}
Masks(t) == /\ SyscallOf(t, MaskCalls, {CHOOSE a \in Addr : TRUE}, {9, 17}, MaskSets,
                         MaskDispositions, {})
            /\ next_tid' <= 3

Futexes(t) == SyscallOf(t, FutexCalls, Addr, {}, {}, {}, {})

MCInit == Init /\ scenario \in {"signals", "masks", "futexes"}

MCNext ==
    /\ UNCHANGED scenario
    /\ \/ scenario = "signals" /\ \E t \in Tid : Signals(t)
       \/ scenario = "masks" /\ \E t \in Tid : Masks(t)
       \/ scenario = "futexes" /\ \E t \in Tid : Futexes(t)
       \/ \E t \in Tid : Scheduler(t)
       \/ ResumeWaitingTasks
       \/ ResumeFdWaiters

MCSpec == MCInit /\ [][MCNext]_<<vars, scenario>>
=============================================================================
