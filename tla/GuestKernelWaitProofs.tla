----------------------- MODULE GuestKernelWaitProofs ------------------------
(***************************************************************************)
(* What the steps of the guest kernel do to waiting tasks and their        *)
(* signals.  A calm step wakes no waiter for a signal or a child; a step   *)
(* that queues a signal wakes at most one waiter of the process.           *)
(***************************************************************************)
EXTENDS GuestKernelStepProofs

SignalKinds == {"WaitingForSignalSet", "WaitingForSignalSuspend"}

(***************************************************************************)
(* What a task may wait with: the invariants about waits and signal masks, *)
(* for one task.  A tid that is not in the table has no pending signals.   *)
(***************************************************************************)
WaitsRight(t) ==
    /\ state[t].kind \in SignalKinds =>
        (task_pending[t] \cup proc_pending[task_pid[t]]) \cap state[t].arg = {}
    /\ state[t].kind = "WaitingForFutex" =>
        /\ task_pending[t] \subseteq signal_mask[t]
        /\ state[t].arg.pid \in {task_pid[t], NoPid}
    /\ pending_signal_delivery[t] # NoSignal => state[t] \in {Runnable, Exited}
    /\ signal_mask[t] \cap {SIGKILL, SIGSTOP} = {}
    /\ state[t] = Absent => task_pending[t] = {}

WaitInv == \A t \in Tid : WaitsRight(t)

LEMMA WaitInvImplies ==
    WaitInv => /\ NoSignalIsSleptThrough /\ UnblockableNeverMasked
               /\ PrivateFutexStaysInProcess
BY DEF WaitInv, WaitsRight, NoSignalIsSleptThrough, UnblockableNeverMasked,
       PrivateFutexStaysInProcess, SignalWaitersHaveNothingToTake,
       ThreadSignalEndsFutexWait, KeptSignalIsDelivered, SignalKinds

(***************************************************************************)
(* What one step may do to one task.                                       *)
(***************************************************************************)
LosesOnlyItsOwn(t) ==
    \A s \in task_pending[t] \ task_pending'[t] :
        \/ state[t] = Runnable
        \/ t \in SignalWaiters(task_pid[t]) /\ s \in state[t].arg
        \/ state[t] = Exited /\ state'[t] = Absent

Follows(t) ==
    /\ WaitsRight(t)'
    /\ state[t] = Exited => state'[t] \in {Exited, Absent}
    /\ LosesOnlyItsOwn(t)

Stays(t, kinds) == state[t].kind \in kinds => state'[t] # Runnable

\* nothing happens to t, except that others take signals of its process
Undisturbed(t) ==
    /\ state'[t] = state[t] /\ task_pid'[t] = task_pid[t]
    /\ signal_mask'[t] = signal_mask[t] /\ task_pending'[t] = task_pending[t]
    /\ pending_signal_delivery'[t] = pending_signal_delivery[t]
    /\ \A q \in Pid : proc_pending'[q] \subseteq proc_pending[q]

\* t runs, blocks, resumes, exits or is born
Moved(t) ==
    /\ state[t].kind \notin SignalKinds \cup {"Exited", "WaitingForChild"}
    /\ WaitsRight(t)'
    /\ state[t] \in {Runnable, Absent} \/ task_pending'[t] = task_pending[t]

LEMMA UndisturbedFollows ==
    ASSUME KernelInv, WaitInv, NEW t \in Tid, Undisturbed(t)
    PROVE  Follows(t) /\ Stays(t, SignalKinds \cup {"WaitingForChild"})
<1>1. WaitsRight(t)
  BY DEF WaitInv
<1>2. state[t].kind \in SignalKinds => task_pid[t] \in Pid
  BY LiveTask, KindsDiffer DEF KernelInv, SignalKinds
<1>3. state[t].kind \in SignalKinds =>
        (task_pending'[t] \cup proc_pending'[task_pid'[t]]) \cap state'[t].arg = {}
  BY <1>1, <1>2 DEF WaitsRight, Undisturbed
<1>4. WaitsRight(t)'
  BY Zenon, <1>1, <1>3 DEF WaitsRight, Undisturbed
<1>5. Stays(t, SignalKinds \cup {"WaitingForChild"})
  BY KindsDiffer DEF Stays, Undisturbed, SignalKinds
<1> QED BY <1>4, <1>5 DEF Follows, Undisturbed, LosesOnlyItsOwn

LEMMA MovedFollows ==
    ASSUME WaitInv, NEW t \in Tid, Moved(t)
    PROVE  Follows(t) /\ Stays(t, SignalKinds \cup {"WaitingForChild"})
<1>1. WaitsRight(t)
  BY DEF WaitInv
<1>2. state[t] # Exited
  BY KindsDiffer DEF Moved
<1>3. LosesOnlyItsOwn(t)
  BY <1>1 DEF Moved, WaitsRight, LosesOnlyItsOwn
<1> QED BY <1>2, <1>3 DEF Moved, Follows, Stays

\* a task that runs, or has exited, waits for nothing
LEMMA AwakeIsRight ==
    ASSUME NEW t \in Tid, state'[t] \in {Runnable, Exited},
           signal_mask'[t] \cap {SIGKILL, SIGSTOP} = {}
    PROVE  WaitsRight(t)'
BY KindsDiffer DEF WaitsRight, SignalKinds

(***************************************************************************)
(* A step that wakes no signal waiter and no child waiter.                 *)
(***************************************************************************)
Calm == \A t \in Tid : Follows(t) /\ Stays(t, SignalKinds \cup {"WaitingForChild"})

LEMMA StepIsCalm ==
    ASSUME KernelInv, WaitInv, \A t \in Tid : Undisturbed(t) \/ Moved(t)
    PROVE  Calm
BY UndisturbedFollows, MovedFollows DEF Calm

\* a step of one running task
LEMMA OwnStepIsCalm ==
    ASSUME KernelInv, WaitInv, NEW t \in Tid, state[t] = Runnable, WaitsRight(t)',
           \A u \in Tid \ {t} : Undisturbed(u)
    PROVE  Calm
BY StepIsCalm, KindsDiffer DEF Moved, SignalKinds
-----------------------------------------------------------------------------
LEMMA TakenLeaves ==
    ASSUME TypeOK, NEW t \in Tid, NEW set, NEW s
    PROVE  /\ \A u \in Tid \ {t} : TaskLeft(t, set, s)[u] = task_pending[u]
           /\ \A q \in Pid : ProcLeft(t, set, s)[q] \subseteq proc_pending[q]
BY DEF TypeOK, TaskLeft, ProcLeft

LEMMA SanitizedMask == ASSUME NEW m PROVE Sanitize(m) \cap {SIGKILL, SIGSTOP} = {}
BY DEF Sanitize

(***************************************************************************)
(* The calls that change the caller's own signal state.                    *)
(***************************************************************************)
LEMMA SignalCallsCalm ==
    ASSUME KernelInv, WaitInv, NEW t \in Tid,
           \/ \E how \in {"block", "unblock", "setmask"}, m \in SigSets :
                RtSigprocmask(t, how, m)
           \/ \E m \in SigSets : RtSigreturn(t, m)
           \/ \E s \in Signal, d \in Dispositions : RtSigaction(t, s, d)
           \/ \E m \in SigSets : RtSigtimedwaitTakes(t, m)
           \/ \E m \in SigSets : RtSigsuspendTakes(t, Signal \ m)
           \/ DeliverSignal(t)
    PROVE  Calm
<1>0. TypeOK /\ WaitsRight(t)
  BY DEF KernelInv, WaitInv
<1>1. /\ state[t] = Runnable /\ UNCHANGED <<task_pid, state>>
  BY Zenon DEF RtSigprocmask, RtSigreturn, RtSigaction, RtSigtimedwaitTakes, RtSigsuspendTakes,
         DeliverSignal, AtSyscall, taskVars, attrVars, stateVars
<1>2. /\ \A u \in Tid \ {t} : signal_mask'[u] = signal_mask[u]
      /\ signal_mask'[t] \cap {SIGKILL, SIGSTOP} = {}
  <2>0. signal_mask[t] \cap {SIGKILL, SIGSTOP} = {}
    BY <1>0 DEF WaitsRight
  <2>1. CASE \E how \in {"block", "unblock", "setmask"}, m \in SigSets :
                RtSigprocmask(t, how, m)
    BY <1>0, <2>0, <2>1 DEF RtSigprocmask, Sanitize, TypeOK
  <2>2. CASE \E m \in SigSets : RtSigreturn(t, m)
    BY <1>0, <2>2 DEF RtSigreturn, Sanitize, TypeOK
  <2>3. CASE DeliverSignal(t)
    <3>1. PICK s \in Signal : signal_mask' = [signal_mask EXCEPT ![t] =
                IF sigactions[task_pid[t]][s].action = "handler"
                THEN Sanitize(@ \cup sigactions[task_pid[t]][s].mask) ELSE @]
      BY Zenon, <2>3 DEF DeliverSignal
    <3> QED BY <1>0, <2>0, <3>1 DEF Sanitize, TypeOK
  <2>4. CASE UNCHANGED signal_mask
    BY <2>0, <2>4
  <2> QED BY Zenon, <2>1, <2>2, <2>3, <2>4
          DEF RtSigaction, RtSigtimedwaitTakes, RtSigsuspendTakes, taskVars, attrVars
<1>3. /\ \A u \in Tid \ {t} : /\ task_pending'[u] = task_pending[u]
                              /\ pending_signal_delivery'[u] = pending_signal_delivery[u]
      /\ \A q \in Pid : proc_pending'[q] \subseteq proc_pending[q]
  <2>1. CASE \E m \in SigSets : RtSigtimedwaitTakes(t, m)
    BY <1>0, <2>1, TakenLeaves DEF RtSigtimedwaitTakes
  <2>2. CASE \E m \in SigSets : RtSigsuspendTakes(t, Signal \ m)
    <3>1. PICK m, s : /\ task_pending' = TaskLeft(t, m, s) /\ proc_pending' = ProcLeft(t, m, s)
                      /\ pending_signal_delivery' = [pending_signal_delivery EXCEPT ![t] = s]
      BY Zenon, <2>2 DEF RtSigsuspendTakes
    <3> QED BY <1>0, <3>1, TakenLeaves DEF TypeOK
  <2>3. CASE DeliverSignal(t)
    <3>1. PICK m, s : task_pending' = TaskLeft(t, m, s) /\ proc_pending' = ProcLeft(t, m, s)
      BY Zenon, <2>3 DEF DeliverSignal
    <3>2. \A u \in Tid \ {t} : pending_signal_delivery'[u] = pending_signal_delivery[u]
      BY <1>0, <2>3 DEF DeliverSignal, DeliveryLeft, TypeOK
    <3> QED BY <1>0, <3>1, <3>2, TakenLeaves
  <2>4. CASE UNCHANGED <<task_pending, proc_pending, pending_signal_delivery>>
    BY <2>4
  <2> QED BY Zenon, <2>1, <2>2, <2>3, <2>4
          DEF RtSigprocmask, RtSigreturn, RtSigaction, procVars, taskVars
<1>4. WaitsRight(t)'
  BY <1>1, <1>2, AwakeIsRight
<1> QED BY <1>1, <1>2, <1>3, <1>4, OwnStepIsCalm DEF Undisturbed

(***************************************************************************)
(* The calls that leave signals and task states alone.                     *)
(***************************************************************************)
LEMMA OtherCallsCalm ==
    ASSUME KernelInv, WaitInv,
           UNCHANGED <<task_pid, signal_mask, task_pending, pending_signal_delivery,
                       state, proc_pending>>
    PROVE  Calm
BY StepIsCalm DEF Undisturbed

(***************************************************************************)
(* A call that blocks its task: the task has nothing to take.              *)
(***************************************************************************)
LEMMA BlockIsCalm ==
    ASSUME KernelInv, WaitInv, NEW t \in Tid, AtSyscall(t), NEW w \in TaskState,
           SetTaskStates([u \in {t} |-> w]),
           UNCHANGED <<idVars, procVars, taskVars>>,
           w # Absent,
           w.kind \in SignalKinds =>
               (task_pending[t] \cup proc_pending[task_pid[t]]) \cap w.arg = {},
           w.kind = "WaitingForFutex" => w.arg.pid \in {task_pid[t], NoPid}
    PROVE  Calm
<1>0. WaitsRight(t)
  BY DEF WaitInv
<1>1. \A u \in Tid : state'[u] = IF u = t THEN w ELSE state[u]
  BY SetPointwise
<1>2. UNCHANGED <<task_pid, signal_mask, task_pending, pending_signal_delivery, proc_pending>>
  BY DEF procVars, taskVars, attrVars
<1>3. state[t] = Runnable /\ pending_signal_delivery[t] = NoSignal
  BY DEF AtSyscall
<1>4. task_pending[t] \subseteq signal_mask[t]
  BY DEF AtSyscall, Deliverable
<1>5. WaitsRight(t)'
  BY <1>0, <1>1, <1>2, <1>3, <1>4 DEF WaitsRight
<1>6. \A u \in Tid \ {t} : Undisturbed(u)
  BY <1>1, <1>2 DEF Undisturbed
<1> QED BY <1>3, <1>5, <1>6, OwnStepIsCalm

LEMMA BlockingCallsCalm ==
    ASSUME KernelInv, WaitInv, NEW t \in Tid,
           \/ \E m \in SigSets : RtSigtimedwaitBlocks(t, m)
           \/ \E m \in SigSets : RtSigsuspendBlocks(t, Signal \ m)
           \/ \E s \in WaitSelectors : Wait4Blocks(t, s)
           \/ \E a \in Addr, private \in BOOLEAN : FutexWait(t, a, private)
           \/ BlockForFd(t)
           \/ BlockForSleep(t)
    PROVE  Calm
<1> USE KernelConstants, StateValues
<1> DEFINE W(w) == /\ w \in TaskState /\ w # Absent
                   /\ AtSyscall(t) /\ SetTaskStates([u \in {t} |-> w])
                   /\ UNCHANGED <<idVars, procVars, taskVars>>
<1>1. CASE \E m \in SigSets : RtSigtimedwaitBlocks(t, m)
  <2>1. PICK m \in SigSets : RtSigtimedwaitBlocks(t, m)
    BY <1>1
  <2>2. PICK w : w = WaitingForSignalSet(m)
    OBVIOUS
  <2>3. w.kind = "WaitingForSignalSet" /\ w.arg = m
    BY <2>2 DEF WaitingForSignalSet
  <2>4. W(w)
    BY Zenon, <2>1, <2>2, KindsDiffer DEF RtSigtimedwaitBlocks
  <2>5. (task_pending[t] \cup proc_pending[task_pid[t]]) \cap w.arg = {}
    BY <2>1, <2>3 DEF RtSigtimedwaitBlocks
  <2> QED BY Zenon, <2>3, <2>4, <2>5, BlockIsCalm
<1>2. CASE \E m \in SigSets : RtSigsuspendBlocks(t, Signal \ m)
  <2>1. PICK m \in SUBSET Signal : RtSigsuspendBlocks(t, m)
    BY Zenon, <1>2
  <2>2. PICK w : w = WaitingForSignalSuspend(m)
    OBVIOUS
  <2>3. w.kind = "WaitingForSignalSuspend" /\ w.arg = m
    BY <2>2 DEF WaitingForSignalSuspend
  <2>4. W(w)
    BY Zenon, <2>1, <2>2, KindsDiffer DEF RtSigsuspendBlocks
  <2>5. (task_pending[t] \cup proc_pending[task_pid[t]]) \cap w.arg = {}
    BY <2>1, <2>3 DEF RtSigsuspendBlocks
  <2> QED BY Zenon, <2>3, <2>4, <2>5, BlockIsCalm
<1>3. CASE \E s \in WaitSelectors : Wait4Blocks(t, s)
  <2>1. PICK s \in WaitSelectors : Wait4Blocks(t, s)
    BY <1>3
  <2>2. PICK w : w = WaitingForChild(s)
    OBVIOUS
  <2>3. w.kind = "WaitingForChild"
    BY <2>2 DEF WaitingForChild
  <2>4. W(w)
    BY Zenon, <2>1, <2>2, KindsDiffer DEF Wait4Blocks
  <2> QED BY Zenon, <2>3, <2>4, BlockIsCalm DEF SignalKinds
<1>4. CASE \E a \in Addr, private \in BOOLEAN : FutexWait(t, a, private)
  <2>1. PICK a \in Addr, private \in BOOLEAN : FutexWait(t, a, private)
    BY <1>4
  <2>2. PICK w : w = WaitingForFutex(NewKey(task_pid[t], a, private))
    OBVIOUS
  <2>3. w.kind = "WaitingForFutex" /\ w.arg.pid \in {task_pid[t], NoPid}
    BY <2>2 DEF WaitingForFutex, NewKey
  <2>4. NewKey(task_pid[t], a, private) \in FutexWaitKey
    BY DEF NewKey, FutexWaitKey, KernelInv, TypeOK
  <2>5. W(w)
    BY Zenon, <2>1, <2>2, <2>4, KindsDiffer DEF FutexWait
  <2> QED BY Zenon, <2>3, <2>5, BlockIsCalm DEF SignalKinds
<1>5. CASE BlockForFd(t)
  <2>1. PICK w : w = WaitingForFd
    OBVIOUS
  <2>2. w.kind = "WaitingForFd" /\ W(w)
    BY Zenon, <1>5, <2>1, KindsDiffer DEF BlockForFd
  <2> QED BY Zenon, <2>2, BlockIsCalm DEF SignalKinds
<1>6. CASE BlockForSleep(t)
  <2>1. PICK w : w = WaitingForSleep
    OBVIOUS
  <2>2. w.kind = "WaitingForSleep" /\ W(w)
    BY Zenon, <1>6, <2>1, KindsDiffer DEF BlockForSleep
  <2> QED BY Zenon, <2>2, BlockIsCalm DEF SignalKinds
<1> QED BY <1>1, <1>2, <1>3, <1>4, <1>5, <1>6

(***************************************************************************)
(* Tasks resume from futexes, fds, sleeps and vforks.                      *)
(***************************************************************************)
LEMMA ResumeIsCalm ==
    ASSUME KernelInv, WaitInv, NEW S \in SUBSET Tid,
           \A u \in S : state[u].kind \in {"Runnable", "WaitingForFutex", "WaitingForFd",
                                           "WaitingForSleep", "WaitingForVfork"},
           SetTaskStates(Resume(S)),
           UNCHANGED <<task_pid, signal_mask, task_pending, pending_signal_delivery,
                       proc_pending>>
    PROVE  Calm
<1>1. Resume(S) \in [S -> TaskState]
  BY StateValues DEF Resume
<1>2. \A u \in Tid : state'[u] = IF u \in S THEN Runnable ELSE state[u]
  BY <1>1, SetPointwise DEF Resume
<1>3. ASSUME NEW u \in S PROVE Moved(u)
  BY <1>2, <1>3, AwakeIsRight DEF Moved, SignalKinds, WaitInv, WaitsRight
<1>4. ASSUME NEW u \in Tid \ S PROVE Undisturbed(u)
  BY <1>2, <1>4 DEF Undisturbed
<1> QED BY <1>3, <1>4, StepIsCalm

LEMMA WakingStepsCalm ==
    ASSUME KernelInv, WaitInv, NEW t \in Tid,
           \/ \E a \in Addr, private \in BOOLEAN, n \in Limits :
                FutexWake(t, a, private, n)
           \/ FutexTimeout(t)
           \/ ResumeSleepWaiter(t)
           \/ ResumeFdWaiters
           \/ Exec(t)
    PROVE  Calm
<1> USE KindsDiffer DEF KernelInv
<1>0. UNCHANGED <<task_pid, signal_mask, task_pending, pending_signal_delivery, proc_pending>>
  BY Zenon DEF FutexWake, FutexTimeout, ResumeSleepWaiter, ResumeFdWaiters, Exec,
         procVars, taskVars, attrVars
<1>1. CASE \E a \in Addr, private \in BOOLEAN, n \in Limits :
                FutexWake(t, a, private, n)
  <2>1. PICK a \in Addr, private \in BOOLEAN, n \in Limits :
            FutexWake(t, a, private, n)
    BY <1>1
  <2>2. NewKey(task_pid[t], a, private) \in FutexWaitKey
    BY DEF NewKey, FutexWaitKey, TypeOK
  <2>3. PICK woken \in SUBSET FutexWaiters(NewKey(task_pid[t], a, private)) :
            SetTaskStates(Resume(woken))
    BY Zenon, <2>1 DEF FutexWake
  <2>4. woken \in SUBSET Tid /\ \A u \in woken : state[u].kind = "WaitingForFutex"
    BY <2>2, <2>3 DEF FutexWaiters, TypeOK
  <2> QED BY <1>0, <2>3, <2>4, ResumeIsCalm
<1>2. CASE FutexTimeout(t)
  <2>1. PICK S : S = {t}
    BY Zenon
  <2> QED BY <1>0, <1>2, <2>1, ResumeIsCalm DEF FutexTimeout
<1>3. CASE ResumeSleepWaiter(t)
  <2>1. PICK S : S = {t}
    BY Zenon
  <2> QED BY Zenon, <1>0, <1>3, <2>1, ResumeIsCalm DEF ResumeSleepWaiter
<1>4. CASE ResumeFdWaiters
  <2>1. PICK ready \in SUBSET {u \in fd_wait_tids : state[u].kind = "WaitingForFd"} :
            SetTaskStates(Resume(ready))
    BY <1>4 DEF ResumeFdWaiters
  <2> QED BY <1>0, <2>1, ResumeIsCalm DEF TypeOK
<1>5. CASE Exec(t)
  <2>1. PICK S : S = {t} \cup VforkWaiters(task_pid[t])
    BY Zenon
  <2>2. S \in SUBSET Tid /\ \A u \in S : state[u].kind \in {"Runnable", "WaitingForVfork"}
    <3>1. \A u \in VforkWaiters(task_pid[t]) : u \in Tid /\ state[u].kind = "WaitingForVfork"
      BY Zenon DEF VforkWaiters, TasksOf
    <3>2. state[t].kind = "Runnable"
      BY Zenon, <1>5 DEF Exec
    <3> QED BY Zenon, <2>1, <3>1, <3>2
  <2>3. SetTaskStates(Resume(S))
    BY Zenon, <1>5, <2>1 DEF Exec
  <2> QED BY Zenon, <1>0, <2>2, <2>3, ResumeIsCalm
<1> QED BY Zenon, <1>1, <1>2, <1>3, <1>4, <1>5

\* SetPointwise by name
BecomesOn(S, new) == \A t \in Tid : state'[t] = IF t \in S THEN new[t] ELSE state[t]
LEMMA SetBecomes ==
    ASSUME NEW S, NEW new \in [S -> TaskState], SetTaskStates(new)
    PROVE  BecomesOn(S, new)
BY SetPointwise DEF BecomesOn

LEMMA RequeueCalm ==
    ASSUME KernelInv, WaitInv, NEW t \in Tid, NEW a \in Addr, NEW b \in Addr,
           NEW private \in BOOLEAN, NEW n \in Limits, NEW m \in Limits,
           FutexRequeue(t, a, b, private, n, m)
    PROVE  Calm
<1> USE KindsDiffer DEF KernelInv
<1>0. PICK source, target : /\ source = NewKey(task_pid[t], a, private)
                            /\ target = NewKey(task_pid[t], b, private)
  OBVIOUS
<1>1. /\ source \in FutexWaitKey /\ target \in FutexWaitKey
      /\ source.pid = target.pid
  BY <1>0 DEF NewKey, FutexWaitKey, TypeOK
<1>2. PICK woken \in SUBSET FutexWaiters(source),
           moved \in SUBSET FutexWaiters(source) :
        SetTaskStates([u \in woken \cup moved |->
            IF u \in woken THEN Runnable ELSE WaitingForFutex(target)])
  BY Zenon, <1>0 DEF FutexRequeue, RequeueTarget
<1> DEFINE S == woken \cup moved
           new == [u \in S |-> IF u \in woken THEN Runnable
                                              ELSE WaitingForFutex(target)]
<1>3. S \in SUBSET Tid /\ \A u \in S : state[u] = WaitingForFutex(source)
  BY <1>1 DEF FutexWaiters, TypeOK
<1>4. new \in [S -> TaskState] /\ SetTaskStates(new)
  BY Zenon, <1>1, <1>2, StateValues
<1> HIDE DEF S, new
<1>p. BecomesOn(S, new)
  BY Zenon, <1>4, SetBecomes
<1>5. \A u \in Tid : state'[u] = IF u \in S THEN new[u] ELSE state[u]
  BY Zenon, <1>p DEF BecomesOn
<1> USE DEF S, new
<1>6. UNCHANGED <<task_pid, signal_mask, task_pending, pending_signal_delivery, proc_pending>>
  BY DEF FutexRequeue, procVars, taskVars, attrVars
<1>7. ASSUME NEW u \in S PROVE Moved(u)
  <2>0. WaitsRight(u) /\ u \in Tid
    BY Zenon, <1>3, <1>7 DEF WaitInv
  <2>1. state[u].kind = "WaitingForFutex" /\ state[u].arg = source
    BY <1>3, <1>7 DEF WaitingForFutex
  <2>2. CASE u \in woken
    BY Zenon, <1>5, <1>6, <2>0, <2>1, <2>2, AwakeIsRight DEF Moved, SignalKinds, WaitsRight
  <2>3. CASE u \notin woken
    <3>1. state'[u] = WaitingForFutex(target)
      BY Zenon, <1>5, <1>7, <2>0, <2>3
    <3>2. state'[u].kind = "WaitingForFutex" /\ state'[u].arg = target
      BY <3>1 DEF WaitingForFutex
    <3>3. WaitsRight(u)'
      BY Zenon, <1>1, <1>6, <2>0, <2>1, <3>1, <3>2 DEF WaitsRight, SignalKinds, Runnable, Exited
    <3> QED BY Zenon, <1>6, <2>1, <3>3 DEF Moved, SignalKinds
  <2> QED BY <2>2, <2>3
<1>8. ASSUME NEW u \in Tid \ S PROVE Undisturbed(u)
  BY Zenon, <1>5, <1>6, <1>8 DEF Undisturbed
<1> QED BY <1>3, <1>7, <1>8, StepIsCalm

LEMMA AbsentByKind == ASSUME NEW s \in TaskState, s.kind = "Absent" PROVE s = Absent
BY DEF TaskState, Absent, Runnable, Exited, WaitingForFd, WaitingForSleep,
       WaitingForChild, WaitingForVfork, WaitingForFutex, WaitingForSignalSet,
       WaitingForSignalSuspend

LEMMA TidsOrdered == ASSUME NEW t \in Tid, NEW u \in Tid PROVE t # u <=> t < u \/ u < t
BY KernelConstants DEF Tid

(***************************************************************************)
(* fork, vfork and clone: the new task starts with its creator's mask and  *)
(* nothing pending.                                                        *)
(***************************************************************************)
LEMMA CreateCalm ==
    ASSUME KernelInv, WaitInv, NEW t \in Tid,
           \/ \E vfork \in BOOLEAN : Fork(t, vfork)
           \/ \E a \in Addr \cup {NoAddr} : CloneThread(t, a)
    PROVE  Calm
<1> USE DEF KernelInv
<1>0. PICK u : u = next_tid
  OBVIOUS
<1>1. PICK p, c, r : CopyTask(u, t, p, c, r)
  BY Zenon, <1>0 DEF Fork, CloneThread
<1>2. /\ state[t] = Runnable /\ pending_signal_delivery[t] = NoSignal
      /\ u \in Tid /\ state[u] = Absent /\ t # u
  <2>1. AtSyscall(t)
    BY Zenon DEF Fork, CloneThread
  <2>2. u \in Tid /\ state[u] = Absent
    BY <1>0 DEF TypeOK, TreeInv, IdsNotYetAllocated, Tid
  <2> QED BY <2>1, <2>2, KindsDiffer DEF AtSyscall
<1>3. \A q \in Pid : proc_pending'[q] \subseteq proc_pending[q]
  <2>1. CASE \E vfork \in BOOLEAN : Fork(t, vfork)
    <3>1. proc_pending' = [proc_pending EXCEPT ![next_pid] = {}]
      BY <2>1 DEF Fork, InsertProcess
    <3> QED BY Zenon, <3>1 DEF TypeOK
  <2>2. CASE \E a \in Addr \cup {NoAddr} : CloneThread(t, a)
    BY <2>2 DEF CloneThread, procVars
  <2> QED BY <2>1, <2>2
<1>4. /\ state'[u] = Runnable
      /\ state'[t] \in {Runnable, WaitingForVfork(next_pid)}
      /\ \A x \in Tid \ {t, u} : state'[x] = state[x]
  <2>1. CASE \E vfork \in BOOLEAN : Fork(t, vfork)
    <3>1. PICK vfork \in BOOLEAN : SetTaskStates([x \in IF vfork THEN {t, u} ELSE {u} |->
                             IF x = u THEN Runnable ELSE WaitingForVfork(next_pid)])
      BY <1>0, <2>1 DEF Fork
    <3> QED BY Zenon, <1>2, <3>1 DEF SetTaskStates
  <2>2. CASE \E a \in Addr \cup {NoAddr} : CloneThread(t, a)
    BY Zenon, <1>0, <1>2, <2>2 DEF CloneThread, SetTaskStates
  <2> QED BY <2>1, <2>2
<1>5. /\ \A x \in Tid \ {u} : /\ task_pid'[x] = task_pid[x]
                              /\ signal_mask'[x] = signal_mask[x]
                              /\ task_pending'[x] = task_pending[x]
                              /\ pending_signal_delivery'[x] = pending_signal_delivery[x]
      /\ signal_mask'[u] = signal_mask[t]
  BY <1>1, <1>2 DEF CopyTask, TypeOK
<1>6. WaitsRight(t)
  BY DEF WaitInv
<1>7. Moved(u)
  BY Zenon, <1>2, <1>4, <1>5, <1>6, AwakeIsRight, KindsDiffer DEF Moved, WaitsRight, SignalKinds
<1>8. Moved(t)
  <2>1. WaitsRight(t)'
    BY Zenon, <1>2, <1>4, <1>5, <1>6, KindsDiffer DEF WaitsRight, SignalKinds
  <2> QED BY Zenon, <1>2, <2>1, KindsDiffer DEF Moved, SignalKinds
<1>9. ASSUME NEW x \in Tid \ {t, u} PROVE Undisturbed(x)
  BY <1>3, <1>4, <1>5, <1>9 DEF Undisturbed
<1> QED BY <1>2, <1>7, <1>8, <1>9, StepIsCalm
-----------------------------------------------------------------------------
(***************************************************************************)
(* Signals are queued and offered to the waiters of p: tp and pp are the   *)
(* pending signals then, dl the kept deliveries.                           *)
(***************************************************************************)
Queueing(p, tp, pp, dl, A) ==
    /\ \A t \in Tid : state[t] # Runnable => task_pending[t] \subseteq tp[t]
    /\ \A t \in Tid \ (SignalWaiters(p) \cup A) :
        /\ state[t].kind \in SignalKinds \cup {"Absent"} => tp[t] = task_pending[t]
        /\ state[t].kind = "WaitingForFutex" => tp[t] \subseteq signal_mask[t]
    /\ \A q \in Pid \ {p} : pp[q] \subseteq proc_pending[q]
    /\ \A t \in Tid : dl[t] # NoSignal => pending_signal_delivery[t] # NoSignal

\* the other tasks the same call moves exit, or resume from a futex or a vfork
Resumable(A, also) ==
    \A t \in A : \/ also[t] = Exited /\ state[t] # Absent
                 \/ /\ also[t] = Runnable
                    /\ state[t].kind \in {"WaitingForFutex", "WaitingForVfork"}

\* only one new signal is among what the waiters of p are offered
OneOffer(p, tp, pp) ==
    \/ \E s : \A t \in SignalWaiters(p) :
        tp[t] \cap state[t].arg = {} /\ pp[p] \cap state[t].arg \subseteq {s}
    \/ \E u : \A t \in SignalWaiters(p) :
        /\ pp[p] \cap state[t].arg = {}
        /\ t # u => tp[t] \cap state[t].arg = {}

\* what wake_signal_waiters does to the tasks, with the signals taken
Woken(p, tp, pp, dl, also, taken) ==
    /\ SignalsTaken(p, tp, pp, taken)
    /\ \A t \in Tid : state'[t] = IF t \in SignalWaiters(p) /\ taken[t] # NoSignal
                                  THEN Runnable
                                  ELSE IF t \in DOMAIN also THEN also[t] ELSE state[t]
    /\ \A t \in Tid : task_pending'[t] = IF t \in SignalWaiters(p) THEN tp[t] \ {taken[t]}
                                                                   ELSE tp[t]
    /\ \A q \in Pid : proc_pending'[q] =
         IF q = p THEN pp[q] \ {taken[w] : w \in {v \in SignalWaiters(p) : TakesShared(v, tp)}}
                  ELSE pp[q]
    /\ \A t \in Tid : pending_signal_delivery'[t] # NoSignal =>
         dl[t] # NoSignal \/ (t \in SignalWaiters(p) /\ taken[t] # NoSignal)

LEMMA WakeSignalWaitersWakes ==
    ASSUME TypeOK, NEW p, NEW tp, NEW pp, NEW dl, NEW also,
           WakeSignalWaiters(p, tp, pp, dl, also)
    PROVE  \E taken \in [SignalWaiters(p) -> Signal \cup {NoSignal}] :
               Woken(p, tp, pp, dl, also, taken)
<1> DEFINE waiters == SignalWaiters(p)
<1>1. PICK taken \in [waiters -> Signal \cup {NoSignal}] :
        LET woken == {w \in waiters : taken[w] # NoSignal}
            shared == {taken[w] : w \in {v \in waiters : TakesShared(v, tp)}}
        IN  /\ SignalsTaken(p, tp, pp, taken)
            /\ task_pending' =
                [t \in Tid |-> IF t \in waiters THEN tp[t] \ {taken[t]}
                                                ELSE tp[t]]
            /\ proc_pending' =
                [q \in Pid |-> IF q = p THEN pp[q] \ shared ELSE pp[q]]
            /\ pending_signal_delivery' =
                [t \in Tid |->
                    IF t \in woken
                       /\ state[t].kind = "WaitingForSignalSuspend"
                    THEN taken[t] ELSE dl[t]]
            /\ SetTaskStates([t \in woken \cup DOMAIN also |->
                    IF t \in woken THEN Runnable ELSE also[t]])
  BY Zenon DEF WakeSignalWaiters
<1> DEFINE woken == {w \in waiters : taken[w] # NoSignal}
<1>2. \A t \in Tid : state'[t] = IF t \in woken THEN Runnable
                                 ELSE IF t \in DOMAIN also THEN also[t] ELSE state[t]
  BY Zenon, <1>1 DEF SetTaskStates
<1>3. \A t \in Tid : pending_signal_delivery'[t] # NoSignal =>
         dl[t] # NoSignal \/ t \in woken
  BY Zenon, <1>1
<1> QED BY Zenon, <1>1, <1>2, <1>3 DEF Woken

\* a waiter that is not woken has nothing left to take
LEMMA UnwokenHasNothing ==
    ASSUME NEW p \in Pid, NEW tp \in [Tid -> SUBSET Signal], NEW pp \in [Pid -> SUBSET Signal],
           NEW taken, SignalsTaken(p, tp, pp, taken),
           NEW t \in SignalWaiters(p), taken[t] = NoSignal
    PROVE  /\ tp[t] \cap state[t].arg = {}
           /\ (pp[p] \ {taken[w] : w \in {v \in SignalWaiters(p) : TakesShared(v, tp)}})
                 \cap state[t].arg = {}
<1>0. 0 \notin Signal /\ t \in Tid
  BY KernelConstants DEF SignalWaiters, TasksOf
<1> DEFINE lower == {v \in SignalWaiters(p) : v < t /\ TakesShared(v, tp)}
           offered == IF TakesShared(t, tp) THEN pp[p] \ {taken[v] : v \in lower} ELSE tp[t]
<1>1. IsLowest(taken[t], offered \cap state[t].arg)
  BY Zenon DEF SignalsTaken
<1>2. offered \cap state[t].arg = {}
  <2>1. offered \subseteq Signal
    BY <1>0
  <2> QED BY <1>0, <1>1, <2>1 DEF IsLowest, NoSignal
<1>3. TakesShared(t, tp) /\ tp[t] \cap state[t].arg = {}
  BY <1>2 DEF TakesShared
<1>4. lower \subseteq {v \in SignalWaiters(p) : TakesShared(v, tp)}
  BY Zenon
<1>5. (pp[p] \ {taken[v] : v \in lower}) \cap state[t].arg = {}
  BY <1>2, <1>3
<1> HIDE DEF lower
<1> QED BY Zenon, <1>3, <1>4, <1>5

LEMMA QueueingFollows ==
    ASSUME KernelInv, WaitInv, NEW p,
           NEW tp \in [Tid -> SUBSET Signal], NEW pp \in [Pid -> SUBSET Signal],
           NEW dl, NEW A \in SUBSET Tid, NEW also \in [A -> TaskState],
           WakeSignalWaiters(p, tp, pp, dl, also),
           Queueing(p, tp, pp, dl, A), Resumable(A, also),
           UNCHANGED <<task_pid, signal_mask>>
    PROVE  \A t \in Tid : Follows(t) /\ Stays(t, {"WaitingForChild"})
<1> USE DEF KernelInv
<1>1. PICK taken \in [SignalWaiters(p) -> Signal \cup {NoSignal}] :
        Woken(p, tp, pp, dl, also, taken)
  BY WakeSignalWaitersWakes
<1> SUFFICES ASSUME NEW t \in Tid PROVE Follows(t) /\ Stays(t, {"WaitingForChild"})
  OBVIOUS
<1>2. WaitsRight(t)
  BY DEF WaitInv
<1>3. 0 \notin Signal
  BY KernelConstants
<1>4. CASE t \in SignalWaiters(p) /\ taken[t] # NoSignal
  <2>1. state'[t] = Runnable /\ task_pending'[t] = tp[t] \ {taken[t]}
    BY Zenon, <1>1, <1>4 DEF Woken
  <2>2. state[t].kind \in SignalKinds /\ task_pid[t] = p
    BY Zenon, <1>4 DEF SignalWaiters, TasksOf, SignalKinds
  <2>3. taken[t] \in state[t].arg
    BY <1>1, <1>4 DEF Woken, SignalsTaken, IsLowest, NoSignal
  <2>4. task_pending[t] \subseteq tp[t]
    BY Zenon, <2>2, KindsDiffer DEF Queueing, SignalKinds
  <2>5. LosesOnlyItsOwn(t)
    BY Zenon, <1>4, <2>1, <2>2, <2>3, <2>4 DEF LosesOnlyItsOwn
  <2>6. WaitsRight(t)'
    BY Zenon, <1>2, <2>1, AwakeIsRight DEF WaitsRight
  <2> QED BY Zenon, <2>2, <2>5, <2>6, KindsDiffer DEF Follows, Stays, SignalKinds
<1>5. CASE t \in SignalWaiters(p) /\ taken[t] = NoSignal /\ t \notin A
  <2>1. state'[t] = state[t] /\ task_pending'[t] = tp[t] \ {NoSignal}
    BY Zenon, <1>1, <1>5 DEF Woken
  <2>2. state[t].kind \in SignalKinds /\ task_pid[t] = p
    BY Zenon, <1>5 DEF SignalWaiters, TasksOf, SignalKinds
  <2>3. p \in Pid /\ (task_pending'[t] \cup proc_pending'[p]) \cap state[t].arg = {}
    <3>1. p \in Pid
      BY Zenon, <2>2, LiveTask, KindsDiffer DEF SignalKinds
    <3>2. proc_pending'[p] = pp[p] \ {taken[w] : w \in {v \in SignalWaiters(p) : TakesShared(v, tp)}}
      BY Zenon, <1>1, <3>1 DEF Woken
    <3>3. SignalsTaken(p, tp, pp, taken)
      BY Zenon, <1>1 DEF Woken
    <3>4. tp[t] \cap state[t].arg = {} /\ proc_pending'[p] \cap state[t].arg = {}
      BY <1>5, <3>1, <3>2, <3>3, UnwokenHasNothing
    <3> QED BY Zenon, <2>1, <3>1, <3>4
  <2>4. pending_signal_delivery'[t] # NoSignal => pending_signal_delivery[t] # NoSignal
    BY <1>1, <1>5 DEF Woken, Queueing
  <2>5. WaitsRight(t)'
    BY Zenon, <1>2, <2>1, <2>2, <2>3, <2>4, KindsDiffer DEF WaitsRight, SignalKinds
  <2>6. task_pending[t] \subseteq task_pending'[t]
    <3>1. task_pending[t] \subseteq tp[t]
      BY Zenon, <2>2, KindsDiffer DEF Queueing, SignalKinds
    <3> QED BY Zenon, <1>3, <2>1, <3>1 DEF TypeOK, NoSignal
  <2> QED BY Zenon, <2>1, <2>2, <2>5, <2>6, KindsDiffer DEF Follows, Stays, SignalKinds, LosesOnlyItsOwn
<1>6. CASE t \in A /\ ~(t \in SignalWaiters(p) /\ taken[t] # NoSignal)
  <2>1. state'[t] = also[t] /\ task_pending'[t] \in {tp[t], tp[t] \ {NoSignal}}
    BY Zenon, <1>1, <1>6 DEF Woken
  <2>2. state[t] # Runnable => task_pending[t] \subseteq task_pending'[t]
    <3>1. state[t] # Runnable => task_pending[t] \subseteq tp[t]
      BY Zenon DEF Queueing
    <3> QED BY Zenon, <1>3, <2>1, <3>1 DEF TypeOK, NoSignal
  <2>3. WaitsRight(t)'
    BY Zenon, <1>2, <1>6, <2>1, AwakeIsRight DEF WaitsRight, Resumable
  <2>4. /\ state[t] = Exited => state'[t] = Exited
        /\ state[t].kind = "WaitingForChild" => state'[t] = Exited
    BY Zenon, <1>6, <2>1, KindsDiffer DEF Resumable
  <2> QED BY Zenon, <2>2, <2>3, <2>4, KindsDiffer DEF Follows, Stays, LosesOnlyItsOwn
<1>7. CASE t \notin SignalWaiters(p) \cup A
  <2>1. state'[t] = state[t] /\ task_pending'[t] = tp[t]
    BY Zenon, <1>1, <1>7 DEF Woken
  <2>2. pending_signal_delivery'[t] # NoSignal => pending_signal_delivery[t] # NoSignal
    BY <1>1, <1>7 DEF Woken, Queueing
  <2>3. state[t].kind \in SignalKinds =>
           (task_pending'[t] \cup proc_pending'[task_pid[t]]) \cap state[t].arg = {}
    <3>1. SUFFICES ASSUME state[t].kind \in SignalKinds
                   PROVE  (task_pending'[t] \cup proc_pending'[task_pid[t]]) \cap state[t].arg = {}
      BY Zenon
    <3>2. task_pid[t] \in Pid /\ task_pid[t] # p
      BY Zenon, <1>7, <3>1, LiveTask, KindsDiffer DEF SignalKinds, SignalWaiters, TasksOf
    <3>3. proc_pending'[task_pid[t]] \subseteq proc_pending[task_pid[t]]
      BY Zenon, <1>1, <3>2 DEF Woken, Queueing
    <3>4. tp[t] = task_pending[t]
      BY Zenon, <1>7, <3>1 DEF Queueing
    <3> QED BY Zenon, <1>2, <2>1, <3>1, <3>3, <3>4 DEF WaitsRight
  <2>4. /\ state[t].kind = "WaitingForFutex" => task_pending'[t] \subseteq signal_mask[t]
        /\ state[t] = Absent => task_pending'[t] = task_pending[t]
    BY Zenon, <1>7, <2>1, KindsDiffer DEF Queueing
  <2>5. WaitsRight(t)'
    BY Zenon, <1>2, <2>1, <2>2, <2>3, <2>4 DEF WaitsRight
  <2>6. LosesOnlyItsOwn(t)
    BY Zenon, <2>1 DEF Queueing, LosesOnlyItsOwn
  <2> QED BY Zenon, <2>1, <2>5, <2>6, KindsDiffer DEF Follows, Stays
<1> QED BY <1>4, <1>5, <1>6, <1>7

LEMMA OneIsWoken ==
    ASSUME KernelInv, NEW p,
           NEW tp \in [Tid -> SUBSET Signal], NEW pp \in [Pid -> SUBSET Signal],
           NEW dl, NEW A \in SUBSET Tid, NEW also \in [A -> TaskState],
           WakeSignalWaiters(p, tp, pp, dl, also),
           Resumable(A, also), OneOffer(p, tp, pp)
    PROVE  OneSignalWakesOneWaiter
<1> USE DEF KernelInv
<1>0. 0 \notin Signal
  BY KernelConstants
<1>1. PICK taken \in [SignalWaiters(p) -> Signal \cup {NoSignal}] :
        Woken(p, tp, pp, dl, also, taken)
  BY Zenon, WakeSignalWaitersWakes
<1>2. ASSUME NEW q \in Pid, NEW t \in SignalWaiters(q), state'[t] = Runnable
      PROVE  t \in SignalWaiters(p) /\ taken[t] # NoSignal
  <2>1. t \in Tid /\ state[t].kind \in SignalKinds
    BY Zenon, <1>2 DEF SignalWaiters, TasksOf, SignalKinds
  <2>2. t \in A => also[t] = Exited
    BY <2>1 DEF Resumable, SignalKinds
  <2> QED BY <1>1, <1>2, <2>1, <2>2, KindsDiffer DEF Woken, SignalKinds
<1>3. ASSUME NEW t \in SignalWaiters(p), taken[t] # NoSignal
      PROVE  /\ taken[t] \in state[t].arg
             /\ IF TakesShared(t, tp)
                THEN /\ taken[t] \in pp[p]
                     /\ \A v \in SignalWaiters(p) :
                          v < t /\ TakesShared(v, tp) => taken[t] # taken[v]
                ELSE tp[t] \cap state[t].arg # {}
  <2> DEFINE lower == {v \in SignalWaiters(p) : v < t /\ TakesShared(v, tp)}
             offered == IF TakesShared(t, tp) THEN pp[p] \ {taken[v] : v \in lower} ELSE tp[t]
  <2>1. IsLowest(taken[t], offered \cap state[t].arg)
    BY Zenon, <1>1, <1>3 DEF Woken, SignalsTaken
  <2>2. taken[t] \in offered \cap state[t].arg
    BY <1>3, <2>1 DEF IsLowest, NoSignal
  <2>3. CASE TakesShared(t, tp)
    <3>1. taken[t] \in pp[p] \ {taken[v] : v \in lower}
      BY <2>2, <2>3
    <3> QED BY <2>2, <2>3, <3>1
  <2>4. CASE ~TakesShared(t, tp)
    BY <2>2, <2>4 DEF TakesShared
  <2> QED BY Zenon, <2>3, <2>4
<1>4. ASSUME NEW t \in SignalWaiters(p), NEW u \in SignalWaiters(p),
             taken[t] # NoSignal, taken[u] # NoSignal, t < u
      PROVE  FALSE
  <2>1. CASE \E s : \A v \in SignalWaiters(p) :
                tp[v] \cap state[v].arg = {} /\ pp[p] \cap state[v].arg \subseteq {s}
    <3>1. TakesShared(t, tp) /\ TakesShared(u, tp) /\ taken[t] = taken[u]
      <4>1. PICK s : \A v \in SignalWaiters(p) :
                tp[v] \cap state[v].arg = {} /\ pp[p] \cap state[v].arg \subseteq {s}
        BY Zenon, <2>1
      <4>2. TakesShared(t, tp) /\ TakesShared(u, tp)
        BY Zenon, <4>1 DEF TakesShared
      <4>3. ASSUME NEW v \in SignalWaiters(p), taken[v] # NoSignal PROVE taken[v] = s
        <5>1. taken[v] \in state[v].arg /\ taken[v] \in pp[p]
          BY Zenon, <1>3, <4>1, <4>3 DEF TakesShared
        <5>2. taken[v] \in pp[p] \cap state[v].arg
          BY Zenon, <5>1
        <5>3. taken[v] \in {s}
          BY Zenon, <4>1, <5>2
        <5> QED BY Zenon, <5>3
      <4> QED BY Zenon, <1>4, <4>2, <4>3
    <3> QED BY Zenon, <1>3, <1>4, <3>1
  <2>2. CASE \E x : \A v \in SignalWaiters(p) :
                /\ pp[p] \cap state[v].arg = {}
                /\ v # x => tp[v] \cap state[v].arg = {}
    <3>1. ~TakesShared(t, tp) /\ ~TakesShared(u, tp)
      BY Zenon, <1>3, <1>4, <2>2
    <3>2. t # u
      BY Zenon, <1>4, TidsOrdered DEF SignalWaiters, TasksOf
    <3> QED BY Zenon, <2>2, <3>1, <3>2 DEF TakesShared
  <2> QED BY Zenon, <2>1, <2>2 DEF OneOffer
<1>5. ASSUME NEW q \in Pid, NEW t \in SignalWaiters(q), NEW u \in SignalWaiters(q),
             state'[t] = Runnable, state'[u] = Runnable, t # u
      PROVE  FALSE
  <2>1. t < u \/ u < t
    BY Zenon, <1>5, TidsOrdered DEF SignalWaiters, TasksOf
  <2> QED BY <1>2, <1>4, <1>5, <2>1
<1> QED BY <1>5 DEF OneSignalWakesOneWaiter

\* what a step that queues a signal keeps
Signalled ==
    /\ \A t \in Tid : Follows(t) /\ Stays(t, {"WaitingForChild"})
    /\ OneSignalWakesOneWaiter

LEMMA KillSignals ==
    ASSUME KernelInv, WaitInv, NEW t \in Tid, NEW p \in Pid, NEW s \in Signal, Kill(t, p, s)
    PROVE  Signalled
<1> USE DEF KernelInv
<1>1. PICK tp, pp, dl, A, also :
        /\ tp = task_pending /\ pp = Queued(proc_pending, p, s)
        /\ dl = pending_signal_delivery /\ A = {} /\ also = Resume(A)
  BY Zenon
<1>2. /\ tp \in [Tid -> SUBSET Signal] /\ pp \in [Pid -> SUBSET Signal]
      /\ A \in SUBSET Tid
  BY <1>1 DEF TypeOK, Queued
<1>3. also \in [A -> TaskState]
  BY <1>1, StateValues DEF Resume
<1>4. WakeSignalWaiters(p, tp, pp, dl, also) /\ UNCHANGED <<task_pid, signal_mask>>
  BY <1>1 DEF Kill, attrVars
<1>5. Resumable(A, also)
  BY Zenon, <1>1 DEF Resumable
<1>6. \A q \in Pid : pp[q] \subseteq IF q = p THEN proc_pending[p] \cup {s} ELSE proc_pending[q]
  BY <1>1 DEF Queued, TypeOK
<1>7. Queueing(p, tp, pp, dl, A)
  BY Zenon, <1>1, <1>6 DEF Queueing, WaitInv, WaitsRight
<1>8. ASSUME NEW u \in SignalWaiters(p)
      PROVE  tp[u] \cap state[u].arg = {} /\ pp[p] \cap state[u].arg \subseteq {s}
  BY Zenon, <1>1, <1>6, <1>8 DEF WaitInv, WaitsRight, SignalWaiters, TasksOf, SignalKinds
<1>9. OneOffer(p, tp, pp)
  BY Zenon, <1>8 DEF OneOffer
<1> QED BY <1>2, <1>3, <1>4, <1>5, <1>7, <1>9, QueueingFollows, OneIsWoken DEF Signalled

LEMMA TkillSignals ==
    ASSUME KernelInv, WaitInv, NEW t \in Tid, NEW target \in Tid, NEW s \in Signal,
           Tkill(t, target, s)
    PROVE  Signalled
<1> USE DEF KernelInv
<1>1. PICK p, tp, pp, dl, A, also :
        /\ p = task_pid[target]
        /\ tp = [task_pending EXCEPT ![target] = @ \cup {s}]
        /\ pp = proc_pending
        /\ dl = pending_signal_delivery /\ A = Interrupted(target, s) /\ also = Resume(A)
  BY Zenon
<1>2. /\ tp \in [Tid -> SUBSET Signal] /\ pp \in [Pid -> SUBSET Signal]
      /\ A \in SUBSET Tid
  BY Zenon, <1>1 DEF TypeOK, Interrupted
<1>3. also \in [A -> TaskState]
  BY <1>1, StateValues DEF Resume
<1>4. /\ WakeSignalWaiters(p, tp, pp, dl, also) /\ UNCHANGED <<task_pid, signal_mask>>
      /\ state[target] # Absent
  BY Zenon, <1>1 DEF Tkill, attrVars
<1>5. Resumable(A, also)
  BY <1>1 DEF Resumable, Interrupted, Resume
<1>6. \A u \in Tid : tp[u] = IF u = target THEN task_pending[u] \cup {s} ELSE task_pending[u]
  BY Zenon, <1>1 DEF TypeOK
<1>7. Queueing(p, tp, pp, dl, A)
  <2>1. ASSUME NEW u \in Tid \ (SignalWaiters(p) \cup A)
        PROVE  /\ state[u].kind \in SignalKinds \cup {"Absent"} => tp[u] = task_pending[u]
               /\ state[u].kind = "WaitingForFutex" => tp[u] \subseteq signal_mask[u]
    <3>0. state[u].kind = "Absent" => state[u] = Absent
      BY Zenon, AbsentByKind DEF TypeOK
    <3>1. CASE u # target
      BY Zenon, <1>6, <2>1, <3>1 DEF WaitInv, WaitsRight
    <3>2. CASE u = target
      <4>1. state[u].kind \notin SignalKinds \cup {"Absent"}
        BY Zenon, <1>1, <1>4, <2>1, <3>0, <3>2 DEF SignalWaiters, TasksOf, SignalKinds
      <4>2. state[u].kind = "WaitingForFutex" => s \in signal_mask[u]
        BY Zenon, <1>1, <2>1, <3>2 DEF Interrupted
      <4>3. state[u].kind = "WaitingForFutex" => task_pending[u] \subseteq signal_mask[u]
        BY Zenon DEF WaitInv, WaitsRight
      <4> QED BY Zenon, <1>6, <3>2, <4>1, <4>2, <4>3
    <3> QED BY <3>1, <3>2
  <2>2. \A u \in Tid : task_pending[u] \subseteq tp[u]
    BY Zenon, <1>6
  <2> QED BY Zenon, <1>1, <2>1, <2>2 DEF Queueing
<1>8. ASSUME NEW u \in SignalWaiters(p)
      PROVE  /\ pp[p] \cap state[u].arg = {}
             /\ u # target => tp[u] \cap state[u].arg = {}
  BY Zenon, <1>1, <1>6, <1>8 DEF WaitInv, WaitsRight, SignalWaiters, TasksOf, SignalKinds
<1>9. OneOffer(p, tp, pp)
  BY Zenon, <1>8 DEF OneOffer
<1> QED BY <1>2, <1>3, <1>4, <1>5, <1>7, <1>9, QueueingFollows, OneIsWoken DEF Signalled

(***************************************************************************)
(* The end of a process: SIGCHLD is queued to its parent.                  *)
(***************************************************************************)
LEMMA ExitProcessSignals ==
    ASSUME KernelInv, WaitInv, NEW p \in Pid, NEW dying \in SUBSET TasksOf(p),
           NEW woken \in SUBSET Tid, \A t \in woken : state[t].kind = "WaitingForFutex",
           NEW tp \in [Tid -> SUBSET Signal], NEW pp \in [Pid -> SUBSET Signal], NEW dl,
           \A t \in Tid : /\ state[t] # Runnable => tp[t] = task_pending[t]
                          /\ dl[t] # NoSignal => pending_signal_delivery[t] # NoSignal,
           \A q \in Pid : pp[q] \subseteq proc_pending[q],
           ExitProcess(p, dying, woken, tp, pp, dl),
           UNCHANGED <<task_pid, signal_mask>>
    PROVE  Signalled
<1> USE KindsDiffer DEF KernelInv
<1>1. PICK A, resumed, also, q, qq :
        /\ resumed = VforkWaiters(p) \cup woken
        /\ A = dying \cup resumed
        /\ also = [t \in A |-> IF t \in resumed THEN Runnable ELSE Exited]
        /\ q = parent[p]
        /\ qq = Queued(pp, parent[p], SIGCHLD)
  BY Zenon
<1>2. A \in SUBSET Tid
  BY Zenon, <1>1 DEF VforkWaiters, TasksOf
<1>3. also \in [A -> TaskState] /\ qq \in [Pid -> SUBSET Signal]
  BY Zenon, <1>1, StateValues, KernelConstants DEF Queued, ProcessExists
<1>4. WakeSignalWaiters(q, tp, qq, dl, also)
  BY Zenon, <1>1 DEF ExitProcess
<1>5. Resumable(A, also)
  <2>1. \A t \in resumed : state[t].kind \in {"WaitingForFutex", "WaitingForVfork"}
    BY Zenon, <1>1 DEF VforkWaiters
  <2>2. \A t \in dying : state[t] # Absent
    BY Zenon, NoPidIsNoProcess DEF TreeInv, TasksHaveProcesses, TasksOf
  <2> QED BY Zenon, <1>1, <2>1, <2>2 DEF Resumable
<1>6. \A r \in Pid : qq[r] \subseteq IF r = q THEN proc_pending[r] \cup {SIGCHLD} ELSE proc_pending[r]
  BY Zenon, <1>1 DEF Queued
<1>7. Queueing(q, tp, qq, dl, A)
  <2>1. ASSUME NEW t \in Tid
        PROVE  /\ state[t].kind \in SignalKinds \cup {"Absent"} => tp[t] = task_pending[t]
               /\ state[t].kind = "WaitingForFutex" => tp[t] \subseteq signal_mask[t]
    BY Zenon, <2>1 DEF WaitInv, WaitsRight, SignalKinds
  <2> QED BY Zenon, <1>6, <2>1 DEF Queueing
<1>8. ASSUME NEW t \in SignalWaiters(q)
      PROVE  tp[t] \cap state[t].arg = {} /\ qq[q] \cap state[t].arg \subseteq {SIGCHLD}
  <2>1. t \in Tid /\ task_pid[t] = q /\ state[t].kind \in SignalKinds
    BY Zenon, <1>8 DEF SignalWaiters, TasksOf, SignalKinds
  <2>2. q \in Pid /\ state[t] # Runnable
    BY Zenon, <2>1, LiveTask DEF SignalKinds
  <2>3. (task_pending[t] \cup proc_pending[q]) \cap state[t].arg = {}
    BY Zenon, <2>1 DEF WaitInv, WaitsRight
  <2> QED BY Zenon, <1>6, <2>1, <2>2, <2>3
<1>9. OneOffer(q, tp, qq)
  BY Zenon, <1>8 DEF OneOffer
<1> QED BY Zenon, <1>2, <1>3, <1>4, <1>5, <1>7, <1>9, QueueingFollows, OneIsWoken DEF Signalled

LEMMA ExitGroupSignals ==
    ASSUME KernelInv, WaitInv, NEW t \in Tid, ExitGroup(t) \/ DeliverFatalSignal(t)
    PROVE  Signalled
<1> USE DEF KernelInv
<1>1. PICK p, dying, woken : p = task_pid[t] /\ dying = TasksOf(p) /\ woken = {}
  BY Zenon
<1>2. /\ state[t] = Runnable /\ UNCHANGED <<task_pid, signal_mask>>
  BY Zenon DEF ExitGroup, DeliverFatalSignal, attrVars
<1>3. p \in Pid /\ dying \in SUBSET TasksOf(p) /\ woken \in SUBSET Tid
  BY Zenon, <1>1, <1>2, LiveTask, KindsDiffer
<1>4. PICK tp, pp, dl :
        /\ tp \in [Tid -> SUBSET Signal]
        /\ pp \in [Pid -> SUBSET Signal]
        /\ \A u \in Tid : /\ u # t => tp[u] = task_pending[u]
                          /\ dl[u] # NoSignal => pending_signal_delivery[u] # NoSignal
        /\ \A q \in Pid : pp[q] \subseteq proc_pending[q]
        /\ ExitProcess(p, dying, woken, tp, pp, dl)
  <2>1. CASE ExitGroup(t)
    <3>1. PICK tp, pp, dl : /\ tp = task_pending /\ pp = proc_pending
                            /\ dl = pending_signal_delivery
      OBVIOUS
    <3> QED BY Zenon, <1>1, <2>1, <3>1 DEF ExitGroup, TypeOK
  <2>2. CASE DeliverFatalSignal(t)
    <3>1. PICK s \in Signal :
            ExitProcess(p, dying, {}, TaskLeft(t, Unblocked(t), s),
                        ProcLeft(t, Unblocked(t), s), DeliveryLeft(t))
      BY Zenon, <1>1, <2>2 DEF DeliverFatalSignal
    <3>2. PICK m, tp, pp, dl :
            /\ m = Unblocked(t) /\ tp = TaskLeft(t, m, s)
            /\ pp = ProcLeft(t, m, s) /\ dl = DeliveryLeft(t)
      BY Zenon
    <3>3. \A u \in Tid : dl[u] # NoSignal => pending_signal_delivery[u] # NoSignal
      BY <3>2 DEF DeliveryLeft, TypeOK
    <3>4. /\ tp \in [Tid -> SUBSET Signal] /\ pp \in [Pid -> SUBSET Signal]
      BY <3>2, TakenType
    <3>5. /\ \A u \in Tid : u # t => tp[u] = task_pending[u]
          /\ \A q \in Pid : pp[q] \subseteq proc_pending[q]
      BY Zenon, <3>2, TakenLeaves
    <3>6. ExitProcess(p, dying, woken, tp, pp, dl)
      BY <1>1, <3>1, <3>2
    <3> QED BY Zenon, <3>3, <3>4, <3>5, <3>6
  <2> QED BY Zenon, <2>1, <2>2
<1>5. \A u \in Tid : state[u] # Runnable => tp[u] = task_pending[u]
  BY Zenon, <1>2, <1>4
<1>6. \A u \in woken : state[u].kind = "WaitingForFutex"
  BY Zenon, <1>1
<1>7. \A u \in Tid : /\ state[u] # Runnable => tp[u] = task_pending[u]
                     /\ dl[u] # NoSignal => pending_signal_delivery[u] # NoSignal
  BY Zenon, <1>4, <1>5
<1>8. tp \in [Tid -> SUBSET Signal] /\ pp \in [Pid -> SUBSET Signal]
  BY Zenon, <1>4
<1>9. /\ \A q \in Pid : pp[q] \subseteq proc_pending[q]
      /\ ExitProcess(p, dying, woken, tp, pp, dl)
  BY Zenon, <1>4
<1>10. UNCHANGED <<task_pid, signal_mask>>
  BY Zenon, <1>2
<1> QED BY <1>3, <1>6, <1>7, <1>8, <1>9, <1>10, ExitProcessSignals

LEMMA CalmIsSignalled == ASSUME Calm PROVE Signalled
<1>1. \A t \in Tid : Follows(t) /\ Stays(t, {"WaitingForChild"})
  BY DEF Calm, Stays
<1>2. \A p \in Pid : \A t \in SignalWaiters(p) : state'[t] # Runnable
  BY DEF Calm, Stays, SignalWaiters, TasksOf, SignalKinds
<1> QED BY <1>1, <1>2 DEF Signalled, OneSignalWakesOneWaiter

LEMMA ExitTaskSignals ==
    ASSUME KernelInv, WaitInv, NEW t \in Tid, NEW robust \in SUBSET Addr,
           NEW cleared \in SUBSET Addr, ExitTask(t, robust, cleared)
    PROVE  Signalled
<1> USE DEF KernelInv
<1>1. PICK p, woken, tp, pp, dl, dying :
        /\ p = task_pid[t] /\ woken = ExitWoken(p, robust \cup cleared)
        /\ tp = task_pending /\ pp = proc_pending
        /\ dl = pending_signal_delivery /\ dying = {t}
  BY Zenon
<1>2. state[t] = Runnable /\ p \in Pid
  BY Zenon, <1>1, LiveTask, KindsDiffer DEF ExitTask
<1>3. /\ woken \in SUBSET Tid
      /\ \A u \in woken : state[u].kind = "WaitingForFutex"
  BY <1>1, <1>2, ExitWokenWait
<1>4. UNCHANGED <<task_pid, signal_mask>>
  BY Zenon DEF ExitTask
<1>5. CASE OthersExited(t)
  <2>1. ExitProcess(p, dying, woken, tp, pp, dl)
    BY Zenon, <1>1, <1>5 DEF ExitTask
  <2>2. tp \in [Tid -> SUBSET Signal] /\ pp \in [Pid -> SUBSET Signal]
    BY <1>1 DEF TypeOK
  <2>3. dying \in SUBSET TasksOf(p)
    BY <1>1 DEF TasksOf
  <2> QED BY Zenon, <1>1, <1>2, <1>3, <1>4, <2>1, <2>2, <2>3, ExitProcessSignals
<1>6. CASE ~OthersExited(t)
  <2>1. SetTaskStates([u \in {t} \cup woken |-> IF u = t THEN Exited ELSE Runnable])
    BY Zenon, <1>1, <1>6 DEF ExitTask
  <2>2. \A u \in Tid : state'[u] = IF u = t THEN Exited
                                   ELSE IF u \in woken THEN Runnable ELSE state[u]
    BY Zenon, <2>1 DEF SetTaskStates
  <2>3. UNCHANGED <<task_pending, proc_pending, pending_signal_delivery>>
    BY Zenon, <1>6 DEF ExitTask
  <2>4. ASSUME NEW u \in {t} \cup woken PROVE Moved(u)
    <3>1. u \in Tid /\ state[u].kind \in {"Runnable", "WaitingForFutex"}
      BY Zenon, <1>2, <1>3, KindsDiffer
    <3>2. WaitsRight(u)'
      BY Zenon, <1>4, <2>2, <3>1, <2>4, AwakeIsRight DEF WaitInv, WaitsRight
    <3> QED BY <2>3, <3>1, <3>2 DEF Moved, SignalKinds
  <2>5. ASSUME NEW u \in Tid \ ({t} \cup woken) PROVE Undisturbed(u)
    BY Zenon, <1>4, <2>2, <2>3, <2>5 DEF Undisturbed
  <2> QED BY <2>4, <2>5, StepIsCalm, CalmIsSignalled
<1> QED BY <1>5, <1>6
=============================================================================
