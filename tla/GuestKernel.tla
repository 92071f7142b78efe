---------------------------- MODULE GuestKernel ----------------------------
(***************************************************************************)
(* The guest kernel of mcr (crates/mcr-task): the process table, the task  *)
(* table, the four indexes the scheduler reads instead of scanning the     *)
(* task table, and the operations the runtime calls on them: fork, vfork,  *)
(* clone, execve, exit, exit_group, wait4, futex waits, fd and sleep       *)
(* waits, and signals.                                                     *)
(*                                                                         *)
(* The runtime is single threaded: one call of the kernel is one step.     *)
(* What interleaves is the guest: the scheduler may dispatch any runnable  *)
(* task next, and between dispatches it resumes waiters.                   *)
(*                                                                         *)
(* A BTreeMap keyed by pid or tid is a function over every pid or tid; a   *)
(* key that is not in the map has exit_state "None" (processes) or state   *)
(* Absent (tasks).  Registers, images, fd tables, exit statuses and the    *)
(* session id are left out: no transition of the kernel depends on them.   *)
(***************************************************************************)
EXTENDS Integers, FiniteSets

CONSTANTS
    MaxPid,         \* the largest GuestPid (u32::MAX in the code)
    MaxTid,         \* the largest GuestTid (u32::MAX in the code)
    Addr,           \* guest addresses used as futexes
    Signal,         \* the signal numbers in play
    SigSets,        \* the signal sets guests pass to the kernel
    WaitSelectors,  \* the pid arguments guests pass to wait4
    Limits,         \* the counts guests pass to FUTEX_WAKE and FUTEX_REQUEUE
    Calls           \* the system calls the guests make

SIGKILL == 9
SIGCHLD == 17
SIGSTOP == 19
NoSignal == 0
NoPid == 0
NoAddr == "no address"

Pid == 1 .. MaxPid
Tid == 1 .. MaxTid

ASSUME KernelConstants ==
    /\ MaxPid \in Nat /\ MaxPid >= 2
    /\ MaxTid \in Nat /\ MaxTid >= 2
    /\ Signal \subseteq 1 .. 64
    /\ SIGCHLD \in Signal
    /\ NoAddr \notin Addr
    /\ SigSets \subseteq SUBSET Signal
    /\ WaitSelectors \subseteq Int
    /\ Limits \subseteq Nat

(***************************************************************************)
(* FutexWaitKey: private futexes carry the pid, shared ones carry none.    *)
(***************************************************************************)
FutexWaitKey == [pid : Pid \cup {NoPid}, uaddr : Addr]
NewKey(p, a, private) == [pid |-> IF private THEN p ELSE NoPid, uaddr |-> a]

(***************************************************************************)
(* TaskState, as a kind and the argument the kind carries.                 *)
(***************************************************************************)
NoArg == "none"
Absent == [kind |-> "Absent", arg |-> NoArg]
Runnable == [kind |-> "Runnable", arg |-> NoArg]
Exited == [kind |-> "Exited", arg |-> NoArg]
WaitingForFd == [kind |-> "WaitingForFd", arg |-> NoArg]
WaitingForSleep == [kind |-> "WaitingForSleep", arg |-> NoArg]
WaitingForChild(selector) == [kind |-> "WaitingForChild", arg |-> selector]
WaitingForVfork(child) == [kind |-> "WaitingForVfork", arg |-> child]
WaitingForFutex(key) == [kind |-> "WaitingForFutex", arg |-> key]
WaitingForSignalSet(set) == [kind |-> "WaitingForSignalSet", arg |-> set]
WaitingForSignalSuspend(set) ==
    [kind |-> "WaitingForSignalSuspend", arg |-> set]

TaskState ==
    {Absent, Runnable, Exited, WaitingForFd, WaitingForSleep}
        \cup {WaitingForChild(s) : s \in WaitSelectors}
        \cup {WaitingForVfork(p) : p \in Pid}
        \cup {WaitingForFutex(k) : k \in FutexWaitKey}
        \cup {WaitingForSignalSet(m) : m \in SUBSET Signal}
        \cup {WaitingForSignalSuspend(m) : m \in SUBSET Signal}

(***************************************************************************)
(* A disposition: the default action, ignored, or a handler with the set   *)
(* of signals blocked while it runs.                                       *)
(***************************************************************************)
Disposition ==
    [action : {"default", "ignore", "handler"}, mask : SUBSET Signal]
DefaultDisposition == [action |-> "default", mask |-> {}]

VARIABLES
    next_pid, next_tid,
    \* GuestProcess, by pid
    exit_state, parent, children, pgid, proc_pending, sigactions,
    \* GuestTask, by tid
    task_pid, signal_mask, task_pending, pending_signal_delivery,
    clear_child_tid, robust_list, state,
    \* indexes over task states
    runnable_tids, child_wait_tids, fd_wait_tids, futex_wait_tids

idVars == <<next_pid, next_tid>>
treeVars == <<exit_state, parent, children>>
procVars == <<treeVars, pgid, proc_pending, sigactions>>
attrVars == <<task_pid, signal_mask, clear_child_tid, robust_list>>
taskVars == <<attrVars, task_pending, pending_signal_delivery>>
stateVars == <<state, runnable_tids, child_wait_tids, fd_wait_tids,
               futex_wait_tids>>
vars == <<idVars, procVars, taskVars, stateVars>>

ProcessExists(p) == p \in Pid /\ exit_state[p] # "None"
Running(p) == p \in Pid /\ exit_state[p] = "Running"
TasksOf(p) == {t \in Tid : task_pid[t] = p}
-----------------------------------------------------------------------------
(***************************************************************************)
(* set_task_state, insert_task and remove_task for every task in the       *)
(* domain of new: the old state is taken out of its index, the new one is  *)
(* put into its index.  A futex key without waiters is the empty set.      *)
(***************************************************************************)
Leaving(new, kind) == {t \in DOMAIN new : state[t].kind = kind}
Entering(new, kind) == {t \in DOMAIN new : new[t].kind = kind}

LeavingFutexUnlessRequeued(new, k) ==
    {t \in DOMAIN new : /\ state[t] = WaitingForFutex(k)
                        /\ new[t].kind # "WaitingForFutex"}
LeavingFutex(new, k) == {t \in DOMAIN new : state[t] = WaitingForFutex(k)}
EnteringFutex(new, k) == {t \in DOMAIN new : new[t] = WaitingForFutex(k)}

SetTaskStates(new) ==
    /\ state' = [t \in Tid |-> IF t \in DOMAIN new THEN new[t] ELSE state[t]]
    /\ runnable_tids' = (runnable_tids \ Leaving(new, "Runnable"))
                            \cup Entering(new, "Runnable")
    /\ child_wait_tids' = (child_wait_tids \ Leaving(new, "WaitingForChild"))
                            \cup Entering(new, "WaitingForChild")
    /\ fd_wait_tids' = (fd_wait_tids \ Leaving(new, "WaitingForFd"))
                            \cup Entering(new, "WaitingForFd")
    /\ futex_wait_tids' =
        [k \in FutexWaitKey |->
            (futex_wait_tids[k] \ LeavingFutex(new, k))
                \cup EnteringFutex(new, k)]

Resume(tids) == [t \in tids |-> Runnable]

Init ==
    /\ next_pid = 2
    /\ next_tid = 2
    /\ exit_state = [p \in Pid |-> IF p = 1 THEN "Running" ELSE "None"]
    /\ parent = [p \in Pid |-> NoPid]
    /\ children = [p \in Pid |-> {}]
    /\ pgid = [p \in Pid |-> IF p = 1 THEN 1 ELSE NoPid]
    /\ proc_pending = [p \in Pid |-> {}]
    /\ sigactions = [p \in Pid |-> [s \in Signal |-> DefaultDisposition]]
    /\ task_pid = [t \in Tid |-> IF t = 1 THEN 1 ELSE NoPid]
    /\ signal_mask = [t \in Tid |-> {}]
    /\ task_pending = [t \in Tid |-> {}]
    /\ pending_signal_delivery = [t \in Tid |-> NoSignal]
    /\ clear_child_tid = [t \in Tid |-> NoAddr]
    /\ robust_list = [t \in Tid |-> FALSE]
    /\ state = [t \in Tid |-> IF t = 1 THEN Runnable ELSE Absent]
    /\ runnable_tids = {1}
    /\ child_wait_tids = {}
    /\ fd_wait_tids = {}
    /\ futex_wait_tids = [k \in FutexWaitKey |-> {}]
-----------------------------------------------------------------------------
(***************************************************************************)
(* Dispatch.  The runtime dispatches runnable tasks only, and takes a      *)
(* deliverable signal before it runs the task to its next system call.     *)
(* The exceptions are a fork-exec child's first execve or exit, which run  *)
(* before the signal hook.                                                 *)
(***************************************************************************)
Deliverable(t) == (task_pending[t] \cup proc_pending[task_pid[t]])
                      \ signal_mask[t]

AtSyscall(t) ==
    /\ state[t] = Runnable
    /\ pending_signal_delivery[t] = NoSignal
    /\ Deliverable(t) = {}
-----------------------------------------------------------------------------
(***************************************************************************)
(* Signals.  take_pending_signal takes the lowest pending signal that is   *)
(* in the mask; the task's own pending signals come before the process's.  *)
(***************************************************************************)
IsLowest(n, set) ==
    IF set = {} THEN n = 0 ELSE n \in set /\ \A m \in set : n <= m

(***************************************************************************)
(* take_pending_signal_for_task: t takes s out of the signals in set; the  *)
(* tasks and the processes are left with TaskLeft and ProcLeft.            *)
(***************************************************************************)
TakesOwn(t, set) == task_pending[t] \cap set # {}

Takes(t, set, s) ==
    IsLowest(s, set \cap IF TakesOwn(t, set) THEN task_pending[t]
                                             ELSE proc_pending[task_pid[t]])

TaskLeft(t, set, s) ==
    IF TakesOwn(t, set) THEN [task_pending EXCEPT ![t] = @ \ {s}]
                        ELSE task_pending

ProcLeft(t, set, s) ==
    IF TakesOwn(t, set) THEN proc_pending
                        ELSE [proc_pending EXCEPT ![task_pid[t]] =
                                 @ \ ({s} \cap set)]

(***************************************************************************)
(* wake_signal_waiters.  The loop offers the pending signals to the        *)
(* process's signal waiters in tid order; taken[w] is what waiter w gets.  *)
(* A waiter without a signal of its own gets what the lower waiters left   *)
(* of the process's.                                                       *)
(***************************************************************************)
SignalWaiters(p) ==
    {t \in TasksOf(p) :
        state[t].kind \in {"WaitingForSignalSet", "WaitingForSignalSuspend"}}

TakesShared(w, tp) == tp[w] \cap state[w].arg = {}

SignalsTakenTwice(p, tp, pp, taken) ==
    \A w \in SignalWaiters(p) :
        IsLowest(taken[w], (IF TakesShared(w, tp) THEN pp[p] ELSE tp[w])
                               \cap state[w].arg)
SignalsTaken(p, tp, pp, taken) ==
    \A w \in SignalWaiters(p) :
        LET lower == {v \in SignalWaiters(p) : v < w /\ TakesShared(v, tp)}
            offered == IF TakesShared(w, tp)
                       THEN pp[p] \ {taken[v] : v \in lower}
                       ELSE tp[w]
        IN  IsLowest(taken[w], offered \cap state[w].arg)

(***************************************************************************)
(* The waiters of p take from tp and pp; the woken ones resume, a          *)
(* suspended one with its signal kept for delivery.  dl are the deliveries *)
(* kept before, also the other task states the same call sets.             *)
(***************************************************************************)
WakeSignalWaiters(p, tp, pp, dl, also) ==
    \E taken \in [SignalWaiters(p) -> Signal \cup {NoSignal}] :
        LET waiters == SignalWaiters(p)
            woken == {w \in waiters : taken[w] # NoSignal}
            shared == {taken[w] : w \in {v \in waiters : TakesShared(v, tp)}}
        IN  /\ SignalsTaken(p, tp, pp, taken)
            /\ task_pending' =
                [t \in Tid |-> IF t \in waiters THEN tp[t] \ {taken[t]}
                                                ELSE tp[t]]
            /\ proc_pending' =
                [q \in Pid |-> IF q = p THEN pp[q] \ shared ELSE pp[q]]
            /\ pending_signal_delivery' =
                [t \in Tid |->
                    IF t \in woken
                       /\ state[t].kind = "WaitingForSignalSuspend"
                    THEN taken[t] ELSE dl[t]]
            /\ SetTaskStates([t \in woken \cup DOMAIN also |->
                    IF t \in woken THEN Runnable ELSE also[t]])

(***************************************************************************)
(* queue_process_signal: nothing is queued for a pid that is gone.         *)
(***************************************************************************)
Queued(pp, p, s) ==
    IF ProcessExists(p) THEN [pp EXCEPT ![p] = @ \cup {s}] ELSE pp

Kill(t, p, s) ==
    /\ AtSyscall(t)
    /\ ProcessExists(p)
    /\ WakeSignalWaiters(p, task_pending, Queued(proc_pending, p, s),
                         pending_signal_delivery, Resume({}))
    /\ UNCHANGED <<idVars, treeVars, pgid, sigactions, attrVars>>

(***************************************************************************)
(* tkill and tgkill: queue_task_signal wakes signal waiters, then          *)
(* interrupts the target's futex wait unless it blocks the signal.         *)
(***************************************************************************)
NotInterrupted(target, s) == {}
Interrupted(target, s) ==
    {t \in {target} : /\ state[t].kind = "WaitingForFutex"
                      /\ s \notin signal_mask[t]}

Tkill(t, target, s) ==
    /\ AtSyscall(t)
    /\ state[target] # Absent
    /\ WakeSignalWaiters(task_pid[target],
           [task_pending EXCEPT ![target] = @ \cup {s}],
           proc_pending, pending_signal_delivery,
           Resume(Interrupted(target, s)))
    /\ UNCHANGED <<idVars, treeVars, pgid, sigactions, attrVars>>

(***************************************************************************)
(* sanitize_signal_mask: SIGKILL and SIGSTOP are never blocked.            *)
(***************************************************************************)
SanitizeStopOnly(mask) == mask \ {SIGSTOP}
Sanitize(mask) == mask \ {SIGKILL, SIGSTOP}

RtSigprocmask(t, how, set) ==
    /\ AtSyscall(t)
    /\ LET old == signal_mask[t]
           mask == Sanitize(set)
       IN  signal_mask' = [signal_mask EXCEPT ![t] =
               CASE how = "block" -> Sanitize(old \cup mask)
                 [] how = "unblock" -> old \ mask
                 [] how = "setmask" -> mask]
    /\ UNCHANGED <<idVars, procVars, task_pid, clear_child_tid, robust_list,
                   task_pending, pending_signal_delivery, stateVars>>

(***************************************************************************)
(* rt_sigreturn restores the mask found in the guest's signal frame.       *)
(***************************************************************************)
RtSigreturn(t, set) ==
    /\ AtSyscall(t)
    /\ signal_mask' = [signal_mask EXCEPT ![t] = Sanitize(set)]
    /\ UNCHANGED <<idVars, procVars, task_pid, clear_child_tid, robust_list,
                   task_pending, pending_signal_delivery, stateVars>>

RtSigaction(t, s, disposition) ==
    /\ AtSyscall(t)
    /\ s \notin {SIGKILL, SIGSTOP}
    /\ sigactions' = [sigactions EXCEPT ![task_pid[t]][s] = disposition]
    /\ UNCHANGED <<idVars, treeVars, pgid, proc_pending, taskVars, stateVars>>

(***************************************************************************)
(* rt_sigtimedwait takes a pending signal of the set, or blocks when it    *)
(* was given no timeout.                                                   *)
(***************************************************************************)
RtSigtimedwaitTakes(t, set) ==
    /\ AtSyscall(t)
    /\ \E s \in Signal :
        /\ Takes(t, set, s)
        /\ task_pending' = TaskLeft(t, set, s)
        /\ proc_pending' = ProcLeft(t, set, s)
    /\ UNCHANGED <<idVars, treeVars, pgid, sigactions, attrVars,
                   pending_signal_delivery, stateVars>>

RtSigtimedwaitBlocks(t, set) ==
    /\ AtSyscall(t)
    /\ (task_pending[t] \cup proc_pending[task_pid[t]]) \cap set = {}
    /\ SetTaskStates([u \in {t} |-> WaitingForSignalSet(set)])
    /\ UNCHANGED <<idVars, procVars, taskVars>>

(***************************************************************************)
(* rt_sigsuspend; allowed is the complement of the temporary mask.         *)
(***************************************************************************)
RtSigsuspendTakes(t, allowed) ==
    /\ AtSyscall(t)
    /\ \E s \in Signal :
        /\ Takes(t, allowed, s)
        /\ task_pending' = TaskLeft(t, allowed, s)
        /\ proc_pending' = ProcLeft(t, allowed, s)
        /\ pending_signal_delivery' =
            [pending_signal_delivery EXCEPT ![t] = s]
    /\ UNCHANGED <<idVars, treeVars, pgid, sigactions, attrVars, stateVars>>

RtSigsuspendBlocks(t, allowed) ==
    /\ AtSyscall(t)
    /\ (task_pending[t] \cup proc_pending[task_pid[t]]) \cap allowed = {}
    /\ SetTaskStates([u \in {t} |-> WaitingForSignalSuspend(allowed)])
    /\ UNCHANGED <<idVars, procVars, taskVars>>
-----------------------------------------------------------------------------
(***************************************************************************)
(* Process creation.                                                       *)
(***************************************************************************)
InsertProcess(c, p) ==
    /\ exit_state' = [exit_state EXCEPT ![c] = "Running"]
    /\ parent' = [parent EXCEPT ![c] = p]
    /\ children' = [children EXCEPT ![c] = {}, ![p] = @ \cup {c}]
    /\ pgid' = [pgid EXCEPT ![c] = pgid[p]]
    /\ proc_pending' = [proc_pending EXCEPT ![c] = {}]
    /\ sigactions' = [sigactions EXCEPT ![c] = sigactions[p]]

CopyTask(u, t, p, clear, robust) ==
    /\ task_pid' = [task_pid EXCEPT ![u] = p]
    /\ signal_mask' = [signal_mask EXCEPT ![u] = signal_mask[t]]
    /\ task_pending' = [task_pending EXCEPT ![u] = {}]
    /\ pending_signal_delivery' =
        [pending_signal_delivery EXCEPT ![u] = NoSignal]
    /\ clear_child_tid' = [clear_child_tid EXCEPT ![u] = clear]
    /\ robust_list' = [robust_list EXCEPT ![u] = robust]

(***************************************************************************)
(* fork, vfork, and clone without CLONE_THREAD.  vfork and CLONE_VFORK     *)
(* also block the caller.                                                  *)
(***************************************************************************)
Fork(t, vfork) ==
    LET p == task_pid[t]
        c == next_pid
        u == next_tid
    IN  /\ AtSyscall(t)
        /\ Running(p)
        /\ next_pid < MaxPid
        /\ next_tid < MaxTid
        /\ next_pid' = next_pid + 1
        /\ next_tid' = next_tid + 1
        /\ InsertProcess(c, p)
        /\ CopyTask(u, t, c, clear_child_tid[t], robust_list[t])
        /\ SetTaskStates([x \in IF vfork THEN {t, u} ELSE {u} |->
                             IF x = u THEN Runnable ELSE WaitingForVfork(c)])

(***************************************************************************)
(* A fork that finds no tid has already allocated its pid.                 *)
(***************************************************************************)
ForkTidExhausted(t) ==
    /\ AtSyscall(t)
    /\ Running(task_pid[t])
    /\ next_pid < MaxPid
    /\ next_tid = MaxTid
    /\ next_pid' = next_pid + 1
    /\ UNCHANGED <<next_tid, procVars, taskVars, stateVars>>

(***************************************************************************)
(* clone with CLONE_THREAD; clear is the CLONE_CHILD_CLEARTID address.     *)
(***************************************************************************)
CloneThread(t, clear) ==
    LET u == next_tid
    IN  /\ AtSyscall(t)
        /\ ProcessExists(task_pid[t])
        /\ next_tid < MaxTid
        /\ next_tid' = next_tid + 1
        /\ CopyTask(u, t, task_pid[t], clear, FALSE)
        /\ SetTaskStates([x \in {u} |-> Runnable])
        /\ UNCHANGED <<next_pid, procVars>>

(***************************************************************************)
(* resume_vfork_parent(c) resumes the tasks of c's parent that wait for c. *)
(***************************************************************************)
VforkWaitersUnlessBlocked(c) ==
    {t \in Tid : /\ state[t] \in {Runnable, Exited, WaitingForVfork(c)}
                 /\ task_pid[t] = parent[c]
                 /\ Running(task_pid[t])}
VforkWaiters(c) ==
    {t \in TasksOf(parent[c]) : state[t] = WaitingForVfork(c)}

(***************************************************************************)
(* execve: the other threads of the process, its dispositions and its      *)
(* pending signals stay as they are.                                       *)
(***************************************************************************)
Exec(t) ==
    LET p == task_pid[t]
    IN  /\ state[t] = Runnable
        /\ exit_state' = [exit_state EXCEPT ![p] = "Running"]
        /\ clear_child_tid' = [clear_child_tid EXCEPT ![t] = NoAddr]
        /\ robust_list' = [robust_list EXCEPT ![t] = FALSE]
        /\ SetTaskStates(Resume({t} \cup VforkWaiters(p)))
        /\ UNCHANGED <<idVars, parent, children, pgid, proc_pending,
                       sigactions, task_pid, signal_mask, task_pending,
                       pending_signal_delivery>>
-----------------------------------------------------------------------------
(***************************************************************************)
(* Exit.  When the last task of p goes, p becomes a zombie, its vfork      *)
(* parent resumes and SIGCHLD is queued to its parent.  dying are the      *)
(* tasks that exit, woken the futex waiters the exit wakes; tp, pp and dl  *)
(* are the pending signals and deliveries the call starts from.            *)
(***************************************************************************)
ExitProcess(p, dying, woken, tp, pp, dl) ==
    LET resumed == VforkWaiters(p) \cup woken
    IN  /\ exit_state' = [exit_state EXCEPT ![p] = "Exited"]
        /\ WakeSignalWaiters(parent[p], tp, Queued(pp, parent[p], SIGCHLD),
               dl, [t \in dying \cup resumed |->
                       IF t \in resumed THEN Runnable ELSE Exited])

(***************************************************************************)
(* finish_task_exit: the robust list, whose futexes are whatever guest     *)
(* memory says, then clear_child_tid; a fault while clearing it skips its  *)
(* wake.  Both keys of an address are woken.                               *)
(***************************************************************************)
ExitWakeAddrs(t, robust, cleared) ==
    /\ robust \in SUBSET Addr
    /\ robust # {} => robust_list[t]
    /\ cleared \in {{}, {clear_child_tid[t]}} \cap SUBSET Addr

ExitWoken(p, addrs) ==
    UNION {futex_wait_tids[NewKey(p, a, private)] :
               a \in addrs, private \in BOOLEAN}

OthersNotRunnable(t) ==
    \A u \in TasksOf(task_pid[t]) \ {t} : state[u] # Runnable
OthersExited(t) == \A u \in TasksOf(task_pid[t]) \ {t} : state[u] = Exited

ExitTask(t, robust, cleared) ==
    LET p == task_pid[t]
        woken == ExitWoken(p, robust \cup cleared)
    IN  /\ state[t] = Runnable
        /\ ExitWakeAddrs(t, robust, cleared)
        /\ IF OthersExited(t)
           THEN ExitProcess(p, {t}, woken, task_pending, proc_pending,
                            pending_signal_delivery)
           ELSE /\ SetTaskStates([u \in {t} \cup woken |->
                       IF u = t THEN Exited ELSE Runnable])
                /\ UNCHANGED <<exit_state, task_pending, proc_pending,
                               pending_signal_delivery>>
        /\ clear_child_tid' = [clear_child_tid EXCEPT ![t] = NoAddr]
        /\ robust_list' = [robust_list EXCEPT ![t] = FALSE]
        /\ UNCHANGED <<idVars, parent, children, pgid, sigactions, task_pid,
                       signal_mask>>

(***************************************************************************)
(* exit_group skips the robust list and clear_child_tid.                   *)
(***************************************************************************)
ExitGroup(t) ==
    LET p == task_pid[t]
    IN  /\ state[t] = Runnable
        /\ ExitProcess(p, TasksOf(p), {}, task_pending, proc_pending,
                       pending_signal_delivery)
        /\ UNCHANGED <<idVars, parent, children, pgid, sigactions, attrVars>>
-----------------------------------------------------------------------------
(***************************************************************************)
(* The return-to-user hook, take_pending_signal_for_return_to_user: a      *)
(* signal kept by rt_sigsuspend comes first and leaves the queues alone,   *)
(* then the lowest unblocked pending signal.                               *)
(***************************************************************************)
Unblocked(t) ==
    IF pending_signal_delivery[t] # NoSignal THEN {}
                                             ELSE Signal \ signal_mask[t]

TakesForReturn(t, s) ==
    IF pending_signal_delivery[t] # NoSignal
    THEN s = pending_signal_delivery[t]
    ELSE Takes(t, Unblocked(t), s)

DeliveryLeft(t) == [pending_signal_delivery EXCEPT ![t] = NoSignal]

(***************************************************************************)
(* default_signal_action: these numbers terminate, all others are ignored. *)
(***************************************************************************)
Terminates == 1 .. 15 \cup 24 .. 27 \cup 30 .. 31

Fatal(t, s) ==
    /\ sigactions[task_pid[t]][s].action = "default"
    /\ s \in Terminates

DeliverSignal(t) ==
    /\ state[t] = Runnable
    /\ \E s \in Signal :
        /\ TakesForReturn(t, s)
        /\ ~Fatal(t, s)
        /\ task_pending' = TaskLeft(t, Unblocked(t), s)
        /\ proc_pending' = ProcLeft(t, Unblocked(t), s)
        /\ LET disposition == sigactions[task_pid[t]][s]
           IN  signal_mask' = [signal_mask EXCEPT ![t] =
                   IF disposition.action = "handler"
                   THEN Sanitize(@ \cup disposition.mask) ELSE @]
    /\ pending_signal_delivery' = DeliveryLeft(t)
    /\ UNCHANGED <<idVars, treeVars, pgid, sigactions, task_pid,
                   clear_child_tid, robust_list, stateVars>>

(***************************************************************************)
(* A fatal default action is an exit_group of the process.                 *)
(***************************************************************************)
DeliverFatalSignal(t) ==
    LET p == task_pid[t]
    IN  /\ state[t] = Runnable
        /\ \E s \in Signal :
            /\ TakesForReturn(t, s)
            /\ Fatal(t, s)
            /\ ExitProcess(p, TasksOf(p), {}, TaskLeft(t, Unblocked(t), s),
                           ProcLeft(t, Unblocked(t), s), DeliveryLeft(t))
        /\ UNCHANGED <<idVars, parent, children, pgid, sigactions, attrVars>>
-----------------------------------------------------------------------------
(***************************************************************************)
(* wait4.                                                                  *)
(***************************************************************************)
ChildMatches(p, c, selector) ==
    /\ ProcessExists(c)
    /\ CASE selector = -1 -> TRUE
         [] selector = 0 -> pgid[c] = pgid[p]
         [] selector > 0 -> c = selector
         [] selector < -1 -> pgid[c] = -selector

MatchingChildren(p, selector) ==
    {c \in children[p] : ChildMatches(p, c, selector)}

ExitedFirstChild(p, selector) ==
    {c \in MatchingChildren(p, selector) :
        exit_state[c] = "Exited" /\ IsLowest(c, MatchingChildren(p, selector))}
ExitedChildren(p, selector) ==
    {c \in MatchingChildren(p, selector) : exit_state[c] = "Exited"}

(***************************************************************************)
(* reap_child for every pair of a parent and a child in reaped: the        *)
(* child's tasks and the child leave the tables, and the child leaves its  *)
(* parent's children.  new are the other task states the same call sets.   *)
(* The children of a reaped process keep it as their parent.               *)
(***************************************************************************)
ReapedTasks(gone) == {t \in Tid : task_pid[t] \in gone}

Reap(reaped, new) ==
    LET gone == {r[2] : r \in reaped}
        tids == ReapedTasks(gone)
    IN  /\ exit_state' = [p \in Pid |->
               IF p \in gone THEN "None" ELSE exit_state[p]]
        /\ parent' = [p \in Pid |-> IF p \in gone THEN NoPid ELSE parent[p]]
        /\ children' = [p \in Pid |->
               IF p \in gone THEN {}
               ELSE children[p] \ {c \in gone : <<p, c>> \in reaped}]
        /\ pgid' = [p \in Pid |-> IF p \in gone THEN NoPid ELSE pgid[p]]
        /\ proc_pending' = [p \in Pid |->
               IF p \in gone THEN {} ELSE proc_pending[p]]
        /\ sigactions' = [p \in Pid |->
               IF p \in gone THEN [s \in Signal |-> DefaultDisposition]
                             ELSE sigactions[p]]
        /\ task_pid' = [t \in Tid |-> IF t \in tids THEN NoPid
                                                    ELSE task_pid[t]]
        /\ signal_mask' = [t \in Tid |-> IF t \in tids THEN {}
                                                       ELSE signal_mask[t]]
        /\ task_pending' = [t \in Tid |-> IF t \in tids THEN {}
                                                        ELSE task_pending[t]]
        /\ pending_signal_delivery' = [t \in Tid |->
               IF t \in tids THEN NoSignal ELSE pending_signal_delivery[t]]
        /\ clear_child_tid' = [t \in Tid |->
               IF t \in tids THEN NoAddr ELSE clear_child_tid[t]]
        /\ robust_list' = [t \in Tid |->
               IF t \in tids THEN FALSE ELSE robust_list[t]]
        /\ SetTaskStates([t \in tids \cup DOMAIN new |->
               IF t \in tids THEN Absent ELSE new[t]])
        /\ UNCHANGED idVars

Wait4Reaps(t, selector) ==
    /\ AtSyscall(t)
    /\ \E c \in ExitedChildren(task_pid[t], selector) :
        /\ IsLowest(c, ExitedChildren(task_pid[t], selector))
        /\ Reap({<<task_pid[t], c>>}, Resume({}))

Wait4Blocks(t, selector) ==
    /\ AtSyscall(t)
    /\ MatchingChildren(task_pid[t], selector) # {}
    /\ ExitedChildren(task_pid[t], selector) = {}
    /\ SetTaskStates([u \in {t} |-> WaitingForChild(selector)])
    /\ UNCHANGED <<idVars, procVars, taskVars>>

(***************************************************************************)
(* resume_waiting_tasks offers exited children to the waiters in tid       *)
(* order; got[w] is the child waiter w reaps.  A waiter whose call fails   *)
(* keeps waiting, whatever the error is.                                   *)
(***************************************************************************)
ChildWaiters ==
    {t \in child_wait_tids : state[t].kind = "WaitingForChild"}

ResumeWaitingTogether ==
    \E got \in [ChildWaiters -> Pid \cup {NoPid}] :
        LET resumed == {w \in ChildWaiters : got[w] # NoPid}
        IN  /\ \A w \in ChildWaiters :
                IsLowest(got[w], ExitedChildren(task_pid[w], state[w].arg))
            /\ resumed # {}
            /\ Reap({<<task_pid[w], got[w]>> : w \in resumed},
                    Resume(resumed))
ResumeWaitingTasks ==
    \E got \in [ChildWaiters -> Pid \cup {NoPid}] :
        LET resumed == {w \in ChildWaiters : got[w] # NoPid}
        IN  /\ \A w \in ChildWaiters :
                IsLowest(got[w], ExitedChildren(task_pid[w], state[w].arg)
                                     \ {got[v] : v \in {u \in resumed : u < w}})
            /\ resumed # {}
            /\ Reap({<<task_pid[w], got[w]>> : w \in resumed},
                    Resume(resumed))
-----------------------------------------------------------------------------
(***************************************************************************)
(* Futex waits.  FUTEX_WAIT blocks after it found the expected value; a    *)
(* wake resumes the lowest tids, at most limit of them.                    *)
(***************************************************************************)
FutexWait(t, a, private) ==
    /\ AtSyscall(t)
    /\ SetTaskStates([u \in {t} |->
           WaitingForFutex(NewKey(task_pid[t], a, private))])
    /\ UNCHANGED <<idVars, procVars, taskVars>>

FutexWaiters(key) ==
    {t \in futex_wait_tids[key] : state[t] = WaitingForFutex(key)}

LowestOf(chosen, set, limit) ==
    /\ chosen \subseteq set
    /\ \A t \in chosen, u \in set \ chosen : t < u
    /\ Cardinality(chosen) <= limit
    /\ chosen # set => Cardinality(chosen) = limit

FutexWake(t, a, private, limit) ==
    LET key == NewKey(task_pid[t], a, private)
    IN  /\ AtSyscall(t)
        /\ \E woken \in SUBSET FutexWaiters(key) :
            /\ LowestOf(woken, FutexWaiters(key), limit)
            /\ SetTaskStates(Resume(woken))
        /\ UNCHANGED <<idVars, procVars, taskVars>>

(***************************************************************************)
(* FUTEX_REQUEUE wakes first, then moves up to requeue_limit of the rest.  *)
(* Nothing moves when source and target are the same key.                  *)
(***************************************************************************)
RequeueTargetPrivate(p, b, private) == NewKey(p, b, TRUE)
RequeueTarget(p, b, private) == NewKey(p, b, private)

FutexRequeue(t, a, b, private, wake_limit, requeue_limit) ==
    LET source == NewKey(task_pid[t], a, private)
        target == RequeueTarget(task_pid[t], b, private)
        waiters == FutexWaiters(source)
    IN  /\ AtSyscall(t)
        /\ \E woken \in SUBSET waiters, moved \in SUBSET waiters :
            /\ LowestOf(woken, waiters, wake_limit)
            /\ IF source = target THEN moved = {}
               ELSE LowestOf(moved, waiters \ woken, requeue_limit)
            /\ SetTaskStates([u \in woken \cup moved |->
                   IF u \in woken THEN Runnable ELSE WaitingForFutex(target)])
        /\ UNCHANGED <<idVars, procVars, taskVars>>

FutexTimeout(t) ==
    /\ state[t].kind = "WaitingForFutex"
    /\ SetTaskStates(Resume({t}))
    /\ UNCHANGED <<idVars, procVars, taskVars>>
-----------------------------------------------------------------------------
(***************************************************************************)
(* Waits for host events.  Which fds are ready is the fd tables' matter.   *)
(***************************************************************************)
BlockForFd(t) ==
    /\ AtSyscall(t)
    /\ SetTaskStates([u \in {t} |-> WaitingForFd])
    /\ UNCHANGED <<idVars, procVars, taskVars>>

ResumeFdWaiters ==
    /\ \E ready \in SUBSET {t \in fd_wait_tids :
                                state[t].kind = "WaitingForFd"} \ {{}} :
        SetTaskStates(Resume(ready))
    /\ UNCHANGED <<idVars, procVars, taskVars>>

BlockForSleep(t) ==
    /\ AtSyscall(t)
    /\ SetTaskStates([u \in {t} |-> WaitingForSleep])
    /\ UNCHANGED <<idVars, procVars, taskVars>>

ResumeSleepWaiter(t) ==
    /\ state[t] = WaitingForSleep
    /\ SetTaskStates(Resume({t}))
    /\ UNCHANGED <<idVars, procVars, taskVars>>
-----------------------------------------------------------------------------
(***************************************************************************)
(* Process groups and the addresses a task registers for its exit.         *)
(***************************************************************************)
Setpgid(t, p, group) ==
    /\ AtSyscall(t)
    /\ ProcessExists(p)
    /\ parent[p] = task_pid[t] \/ p = task_pid[t]
    /\ pgid' = [pgid EXCEPT ![p] = group]
    /\ UNCHANGED <<idVars, treeVars, proc_pending, sigactions, taskVars,
                   stateVars>>

Setsid(t) ==
    /\ AtSyscall(t)
    /\ pgid' = [pgid EXCEPT ![task_pid[t]] = task_pid[t]]
    /\ UNCHANGED <<idVars, treeVars, proc_pending, sigactions, taskVars,
                   stateVars>>

SetTidAddress(t, a) ==
    /\ AtSyscall(t)
    /\ clear_child_tid' = [clear_child_tid EXCEPT ![t] = a]
    /\ UNCHANGED <<idVars, procVars, task_pid, signal_mask, robust_list,
                   task_pending, pending_signal_delivery, stateVars>>

SetRobustList(t, set) ==
    /\ AtSyscall(t)
    /\ robust_list' = [robust_list EXCEPT ![t] = set]
    /\ UNCHANGED <<idVars, procVars, task_pid, signal_mask, clear_child_tid,
                   task_pending, pending_signal_delivery, stateVars>>
-----------------------------------------------------------------------------
Handlers == {[action |-> "handler", mask |-> m] : m \in SigSets}
Dispositions ==
    Handlers \cup {DefaultDisposition, [action |-> "ignore", mask |-> {}]}

(***************************************************************************)
(* The system calls t may make when the guests use these calls, addresses, *)
(* signals, signal sets, dispositions and wait4 arguments.                 *)
(***************************************************************************)
SyscallOf(t, calls, addrs, signals, sets, dispositions, selectors) ==
    \/ "fork" \in calls /\ Fork(t, FALSE)
    \/ "vfork" \in calls /\ Fork(t, TRUE)
    \/ "fork" \in calls /\ ForkTidExhausted(t)
    \/ "clone" \in calls /\ \E a \in addrs \cup {NoAddr} : CloneThread(t, a)
    \/ "execve" \in calls /\ Exec(t)
    \/ "exit" \in calls /\ \E robust \in SUBSET addrs, cleared \in SUBSET addrs :
                               ExitTask(t, robust, cleared)
    \/ "exit_group" \in calls /\ ExitGroup(t)
    \/ "wait4" \in calls /\ \E s \in selectors :
                                Wait4Reaps(t, s) \/ Wait4Blocks(t, s)
    \/ "futex_wait" \in calls /\ \E a \in addrs, private \in BOOLEAN :
                                     FutexWait(t, a, private)
    \/ "futex_wake" \in calls /\ \E a \in addrs, private \in BOOLEAN,
                                    n \in Limits : FutexWake(t, a, private, n)
    \/ "futex_requeue" \in calls /\ \E a, b \in addrs, private \in BOOLEAN,
                                       n, m \in Limits :
                                        FutexRequeue(t, a, b, private, n, m)
    \/ "read" \in calls /\ BlockForFd(t)
    \/ "nanosleep" \in calls /\ BlockForSleep(t)
    \/ "kill" \in calls /\ \E p \in Pid, s \in signals : Kill(t, p, s)
    \/ "tkill" \in calls /\ \E u \in Tid, s \in signals : Tkill(t, u, s)
    \/ "sigprocmask" \in calls /\
           \E how \in {"block", "unblock", "setmask"}, m \in sets :
               RtSigprocmask(t, how, m)
    \/ "sigreturn" \in calls /\ \E m \in sets : RtSigreturn(t, m)
    \/ "sigaction" \in calls /\ \E s \in signals, d \in dispositions :
                                    RtSigaction(t, s, d)
    \/ "sigtimedwait" \in calls /\ \E m \in sets :
           RtSigtimedwaitTakes(t, m) \/ RtSigtimedwaitBlocks(t, m)
    \/ "sigsuspend" \in calls /\ \E m \in sets :
           RtSigsuspendTakes(t, signals \ m) \/ RtSigsuspendBlocks(t, signals \ m)
    \/ "setpgid" \in calls /\ \E p, group \in Pid : Setpgid(t, p, group)
    \/ "setsid" \in calls /\ Setsid(t)
    \/ "set_tid_address" \in calls /\ \E a \in addrs \cup {NoAddr} :
                                          SetTidAddress(t, a)
    \/ "set_robust_list" \in calls /\ \E set \in BOOLEAN :
                                          SetRobustList(t, set)

Syscall(t) == SyscallOf(t, Calls, Addr, Signal, SigSets, Dispositions, WaitSelectors)

Scheduler(t) ==
    \/ DeliverSignal(t)
    \/ DeliverFatalSignal(t)
    \/ FutexTimeout(t)
    \/ ResumeSleepWaiter(t)

Next ==
    \/ \E t \in Tid : Syscall(t)
    \/ \E t \in Tid : Scheduler(t)
    \/ ResumeWaitingTasks
    \/ ResumeFdWaiters

Spec == Init /\ [][Next]_vars
-----------------------------------------------------------------------------
(***************************************************************************)
(* Type invariant: every table entry and index entry has its type.         *)
(***************************************************************************)
TypeOK ==
    /\ next_pid \in Pid
    /\ next_tid \in Tid
    /\ exit_state \in [Pid -> {"None", "Running", "Exited"}]
    /\ parent \in [Pid -> Pid \cup {NoPid}]
    /\ children \in [Pid -> SUBSET Pid]
    /\ pgid \in [Pid -> Pid \cup {NoPid}]
    /\ proc_pending \in [Pid -> SUBSET Signal]
    /\ sigactions \in [Pid -> [Signal -> Disposition]]
    /\ task_pid \in [Tid -> Pid \cup {NoPid}]
    /\ signal_mask \in [Tid -> SUBSET Signal]
    /\ task_pending \in [Tid -> SUBSET Signal]
    /\ pending_signal_delivery \in [Tid -> Signal \cup {NoSignal}]
    /\ clear_child_tid \in [Tid -> Addr \cup {NoAddr}]
    /\ robust_list \in [Tid -> BOOLEAN]
    /\ state \in [Tid -> TaskState]
    /\ runnable_tids \in SUBSET Tid
    /\ child_wait_tids \in SUBSET Tid
    /\ fd_wait_tids \in SUBSET Tid
    /\ futex_wait_tids \in [FutexWaitKey -> SUBSET Tid]

(***************************************************************************)
(* The scheduler and the wakers read the four indexes instead of the task  *)
(* table (kernel/mod.rs, set_task_state): after every operation each index *)
(* holds exactly the tasks in the state it stands for, so no runnable task *)
(* is forgotten and no waiter misses its wake.                             *)
(***************************************************************************)
IndexesMatchStates ==
    /\ runnable_tids = {t \in Tid : state[t].kind = "Runnable"}
    /\ child_wait_tids = {t \in Tid : state[t].kind = "WaitingForChild"}
    /\ fd_wait_tids = {t \in Tid : state[t].kind = "WaitingForFd"}
    /\ \A k \in FutexWaitKey :
        futex_wait_tids[k] = {t \in Tid : state[t] = WaitingForFutex(k)}

(***************************************************************************)
(* A task in the table belongs to a process in the table: what the expect  *)
(* "validated task pid must reference a process" in kernel/syscalls.rs     *)
(* relies on.                                                              *)
(***************************************************************************)
TasksHaveProcesses ==
    \A t \in Tid : IF state[t] = Absent THEN task_pid[t] = NoPid
                                        ELSE ProcessExists(task_pid[t])

(***************************************************************************)
(* A process is a zombie exactly when all of its tasks have exited: exit,  *)
(* exit_group, clone and execve by several threads never leave a running   *)
(* process without a task that can go on, nor a zombie with one.           *)
(***************************************************************************)
ZombieIffAllTasksExited ==
    \A p \in Pid : ProcessExists(p) =>
        /\ TasksOf(p) # {}
        /\ exit_state[p] = "Exited" <=> \A t \in TasksOf(p) : state[t] = Exited

(***************************************************************************)
(* children and parent agree: a live parent can reap exactly the processes *)
(* that name it as their parent, whatever was reaped around them.          *)
(***************************************************************************)
ProcessTree ==
    \A p \in Pid :
        /\ children[p] = {c \in Pid : /\ ProcessExists(p) /\ ProcessExists(c)
                                      /\ parent[c] = p}
        /\ parent[p] < p

(***************************************************************************)
(* A vfork parent waits for a running child of its own process: the exec   *)
(* or the exit that resumes it is still to come (resume_vfork_parent).     *)
(***************************************************************************)
VforkWaitHasRunningChild ==
    \A t \in Tid : state[t].kind = "WaitingForVfork" =>
        /\ Running(state[t].arg)
        /\ parent[state[t].arg] = task_pid[t]

(***************************************************************************)
(* A task in rt_sigtimedwait or rt_sigsuspend has no pending signal it     *)
(* could take: every way a signal can be queued offers it to the waiters.  *)
(***************************************************************************)
SignalWaitersHaveNothingToTake ==
    \A t \in Tid :
        state[t].kind \in {"WaitingForSignalSet", "WaitingForSignalSuspend"}
            => (task_pending[t] \cup proc_pending[task_pid[t]])
                   \cap state[t].arg = {}

(***************************************************************************)
(* A signal kept by rt_sigsuspend belongs to a task that is about to run   *)
(* (or has exited): it is delivered before the task can block again, so a  *)
(* second one never overwrites it.                                         *)
(***************************************************************************)
KeptSignalIsDelivered ==
    \A t \in Tid : pending_signal_delivery[t] # NoSignal =>
        state[t] \in {Runnable, Exited}

(***************************************************************************)
(* A signal sent to a thread ends its futex wait unless it is blocked      *)
(* (interrupt_futex_waiter): no task sleeps on a futex with an unblocked   *)
(* signal of its own.  A signal that kill sends to the process is not one: *)
(* it leaves the futex waiters asleep.                                     *)
(***************************************************************************)
ThreadSignalEndsFutexWait ==
    \A t \in Tid : state[t].kind = "WaitingForFutex" =>
        task_pending[t] \subseteq signal_mask[t]

(***************************************************************************)
(* No signal is slept through: a task that waits for signals has none it   *)
(* could take, a task on a futex none of its own that it does not block,   *)
(* and a task with a kept signal does not wait at all.                     *)
(***************************************************************************)
NoSignalIsSleptThrough ==
    /\ SignalWaitersHaveNothingToTake
    /\ ThreadSignalEndsFutexWait
    /\ KeptSignalIsDelivered

(***************************************************************************)
(* SIGKILL and SIGSTOP are never blocked, whichever call set the mask.     *)
(***************************************************************************)
UnblockableNeverMasked ==
    \A t \in Tid : signal_mask[t] \cap {SIGKILL, SIGSTOP} = {}

(***************************************************************************)
(* A private futex key carries the pid of its waiter (FutexWaitKey::new),  *)
(* through requeues too: a private wake never reaches another process.     *)
(***************************************************************************)
PrivateFutexStaysInProcess ==
    \A t \in Tid : state[t].kind = "WaitingForFutex" =>
        state[t].arg.pid \in {task_pid[t], NoPid}

(***************************************************************************)
(* Pids and tids are handed out in order and never reused, so a stale      *)
(* parent pid or a late timer never names a different process or task.     *)
(***************************************************************************)
IdsNotYetAllocated ==
    /\ \A p \in Pid : p >= next_pid => exit_state[p] = "None"
    /\ \A t \in Tid : t >= next_tid => state[t] = Absent

(***************************************************************************)
(* The invariant of the kernel's tables: types, scheduler indexes, and the *)
(* shape of the process tree.  It is inductive as a whole: a delivery      *)
(* reads the dispositions of the task's process, which must exist; the     *)
(* tree facts depend on each other and on ids being fresh, and the exit    *)
(* and reap steps read the indexes.                                        *)
(***************************************************************************)
TreeInv ==
    /\ TasksHaveProcesses
    /\ ZombieIffAllTasksExited
    /\ ProcessTree
    /\ VforkWaitHasRunningChild
    /\ IdsNotYetAllocated

\* Every call leaves the process table, the task table and the scheduler indexes
\* consistent with each other (kernel/mod.rs).
KernelInv == TypeOK /\ IndexesMatchStates /\ TreeInv

(***************************************************************************)
(* Action property: lives end once.  An exited task never runs again, a    *)
(* zombie never becomes a running process again, and a process leaves the  *)
(* table only as a zombie, in a step that takes it away from its living    *)
(* parent (exit, reap_child).                                              *)
(***************************************************************************)
OnlyZombiesAreReaped ==
    \A p \in Pid : ProcessExists(p) /\ exit_state'[p] = "None" =>
        /\ exit_state[p] = "Exited"
        /\ Running(parent[p])
        /\ p \in children[parent[p]] \ children'[parent[p]]

DeadStaysDead ==
    /\ \A t \in Tid : state[t] = Exited => state'[t] \in {Exited, Absent}
    /\ \A p \in Pid : exit_state[p] = "Exited" => exit_state'[p] \in {"Exited", "None"}

\* The two together: exit is final and only reap_child removes a process.
LivesEndOnce == [][OnlyZombiesAreReaped /\ DeadStaysDead]_vars

(***************************************************************************)
(* Action property: however many threads of a process wait for signals,    *)
(* one call wakes at most one of them, so no signal is consumed twice, and *)
(* a signal queued to a thread leaves the queue only for that thread: it   *)
(* was running, or the signal is what it waited for (wake_signal_waiters). *)
(***************************************************************************)
OneSignalWakesOneWaiter ==
    \A p \in Pid : \A t, u \in SignalWaiters(p) :
        state'[t] = Runnable /\ state'[u] = Runnable => t = u

ThreadSignalOnlyForTarget ==
    \A t \in Tid : \A s \in task_pending[t] \ task_pending'[t] :
        \/ state[t] = Runnable
        \/ t \in SignalWaiters(task_pid[t]) /\ s \in state[t].arg
        \/ state[t] = Exited /\ state'[t] = Absent

\* The two together: wake_signal_waiters wakes one waiter, the right one.
SignalsReachTheirTarget ==
    [][OneSignalWakesOneWaiter /\ ThreadSignalOnlyForTarget]_vars

(***************************************************************************)
(* Action property: every wait4 that resumes takes a zombie of its own     *)
(* away, one that its selector matches: threads that wait for the same     *)
(* child never share it (resume_waiting_tasks).                            *)
(***************************************************************************)
HaveTheirOwn(p, waiters, zombies) ==
    \E own \in [waiters -> zombies] :
        /\ \A t \in waiters : own[t] \in ExitedChildren(p, state[t].arg)
        /\ \A t, u \in waiters : own[t] = own[u] => t = u

EachResumedReaps ==
    \A p \in Pid :
        HaveTheirOwn(p, {t \in TasksOf(p) : state[t].kind = "WaitingForChild"
                                               /\ state'[t] = Runnable},
                        {c \in children[p] : exit_state'[c] = "None"})

\* Every round of resume_waiting_tasks gives each waiter a child of its own.
EachWaiterReapsItsOwnChild == [][EachResumedReaps]_vars

(***************************************************************************)
(* A zombie that some blocked wait4 of its parent matches.                 *)
(***************************************************************************)
WaitedFor(c) ==
    /\ exit_state[c] = "Exited"
    /\ \E t \in Tid : /\ state[t].kind = "WaitingForChild"
                      /\ c \in MatchingChildren(task_pid[t], state[t].arg)

(***************************************************************************)
(* Action property: a wait4 blocks only while there is a child for it      *)
(* (ECHILD otherwise), and what it waits for goes away only when another   *)
(* thread of the process reaps it or one of the two leaves the process     *)
(* group.  Such a wait4 stays blocked: it does not become ECHILD.          *)
(***************************************************************************)
HasChild(t) == MatchingChildren(task_pid[t], state[t].arg) # {}

ChildTaken(t) ==
    \E c \in MatchingChildren(task_pid[t], state[t].arg) :
        \/ exit_state[c] = "Exited" /\ exit_state'[c] = "None"
        \/ pgid'[c] # pgid[c] \/ pgid'[task_pid[t]] # pgid[task_pid[t]]

ChildlessWaitLostItsChild ==
    \A t \in Tid : state'[t].kind = "WaitingForChild" /\ ~HasChild(t)' =>
        state'[t] = state[t] /\ (HasChild(t) => ChildTaken(t))
=============================================================================
