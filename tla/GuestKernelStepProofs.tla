----------------------- MODULE GuestKernelStepProofs ------------------------
(***************************************************************************)
(* What a step of the guest kernel does to the types, the task states and  *)
(* their indexes: a quiet step moves live tasks between states and leaves  *)
(* the ids and the process tree alone.  Quiet steps, forks, clones and     *)
(* execs keep the inductive invariant (KernelInv).                         *)
(***************************************************************************)
EXTENDS GuestKernel, TLAPS

(***************************************************************************)
(* The parts of the type invariant, by the group of variables they bound.  *)
(***************************************************************************)
IdType == next_pid \in Pid /\ next_tid \in Tid

TreeType ==
    /\ exit_state \in [Pid -> {"None", "Running", "Exited"}]
    /\ parent \in [Pid -> Pid \cup {NoPid}]
    /\ children \in [Pid -> SUBSET Pid]

ProcType ==
    /\ pgid \in [Pid -> Pid \cup {NoPid}]
    /\ sigactions \in [Pid -> [Signal -> Disposition]]

AttrType ==
    /\ task_pid \in [Tid -> Pid \cup {NoPid}]
    /\ signal_mask \in [Tid -> SUBSET Signal]
    /\ clear_child_tid \in [Tid -> Addr \cup {NoAddr}]
    /\ robust_list \in [Tid -> BOOLEAN]

PendingType ==
    /\ proc_pending \in [Pid -> SUBSET Signal]
    /\ task_pending \in [Tid -> SUBSET Signal]
    /\ pending_signal_delivery \in [Tid -> Signal \cup {NoSignal}]

StateType ==
    /\ state \in [Tid -> TaskState]
    /\ runnable_tids \in SUBSET Tid
    /\ child_wait_tids \in SUBSET Tid
    /\ fd_wait_tids \in SUBSET Tid
    /\ futex_wait_tids \in [FutexWaitKey -> SUBSET Tid]

LEMMA TypeParts ==
    TypeOK <=> /\ IdType /\ TreeType /\ ProcType /\ AttrType
               /\ PendingType /\ StateType
BY DEF TypeOK, IdType, TreeType, ProcType, AttrType, PendingType, StateType

LEMMA TypePartsNext ==
    TypeOK' <=> /\ IdType' /\ TreeType' /\ ProcType' /\ AttrType'
                /\ PendingType' /\ StateType'
BY DEF TypeOK, IdType, TreeType, ProcType, AttrType, PendingType, StateType

(***************************************************************************)
(* set_task_state keeps the task states and the indexes well typed.        *)
(***************************************************************************)
LEMMA SetTaskStatesType ==
    ASSUME StateType, NEW S \in SUBSET Tid, NEW new \in [S -> TaskState],
           SetTaskStates(new)
    PROVE  StateType'
BY DEF StateType, SetTaskStates, Leaving, Entering, LeavingFutex, EnteringFutex

(***************************************************************************)
(* The task states, by name.                                               *)
(***************************************************************************)
LEMMA StateValues ==
    /\ Absent \in TaskState /\ Runnable \in TaskState /\ Exited \in TaskState
    /\ WaitingForFd \in TaskState /\ WaitingForSleep \in TaskState
    /\ \A s \in WaitSelectors : WaitingForChild(s) \in TaskState
    /\ \A p \in Pid : WaitingForVfork(p) \in TaskState
    /\ \A k \in FutexWaitKey : WaitingForFutex(k) \in TaskState
    /\ \A m \in SUBSET Signal : WaitingForSignalSet(m) \in TaskState
    /\ \A m \in SUBSET Signal : WaitingForSignalSuspend(m) \in TaskState
BY DEF TaskState

(***************************************************************************)
(* set_task_state keeps the indexes equal to the task states.              *)
(***************************************************************************)
LEMMA SetTaskStatesIndexes ==
    ASSUME StateType, IndexesMatchStates,
           NEW S \in SUBSET Tid, NEW new \in [S -> TaskState],
           SetTaskStates(new)
    PROVE  IndexesMatchStates'
<1>1. DOMAIN new = S
  OBVIOUS
<1>2. \A t \in Tid : state'[t] = IF t \in S THEN new[t] ELSE state[t]
  BY <1>1 DEF SetTaskStates
<1>3. runnable_tids' = {t \in Tid : state'[t].kind = "Runnable"}
  BY <1>1, <1>2 DEF SetTaskStates, IndexesMatchStates, Leaving, Entering
<1>4. child_wait_tids' = {t \in Tid : state'[t].kind = "WaitingForChild"}
  BY <1>1, <1>2 DEF SetTaskStates, IndexesMatchStates, Leaving, Entering
<1>5. fd_wait_tids' = {t \in Tid : state'[t].kind = "WaitingForFd"}
  BY <1>1, <1>2 DEF SetTaskStates, IndexesMatchStates, Leaving, Entering
<1>6. \A k \in FutexWaitKey :
        futex_wait_tids'[k] = {t \in Tid : state'[t] = WaitingForFutex(k)}
  BY <1>1, <1>2 DEF SetTaskStates, IndexesMatchStates, LeavingFutex,
                    EnteringFutex
<1> QED
  BY <1>3, <1>4, <1>5, <1>6 DEF IndexesMatchStates

(***************************************************************************)
(* A step that only moves live tasks between runnable and waiting states:  *)
(* no process or task is created, exits or is removed, and no task starts  *)
(* to wait for a vfork child.                                              *)
(***************************************************************************)
LiveMove ==
    /\ UNCHANGED <<idVars, treeVars, task_pid>>
    /\ \/ UNCHANGED stateVars
       \/ \E S \in SUBSET Tid : \E new \in [S -> TaskState] :
            /\ SetTaskStates(new)
            /\ \A t \in S : /\ state[t] \notin {Absent, Exited}
                            /\ new[t] \notin {Absent, Exited}
                            /\ new[t].kind # "WaitingForVfork"

Quiet == LiveMove /\ ProcType' /\ AttrType' /\ PendingType'

LEMMA KindsDiffer ==
    /\ Runnable \notin {Absent, Exited} /\ Runnable.kind = "Runnable"
    /\ Exited # Absent /\ Absent.kind = "Absent" /\ Exited.kind = "Exited"
    /\ WaitingForFd \notin {Absent, Exited}
    /\ WaitingForFd.kind = "WaitingForFd"
    /\ WaitingForSleep \notin {Absent, Exited}
    /\ WaitingForSleep.kind = "WaitingForSleep"
    /\ \A x : WaitingForChild(x) \notin {Absent, Exited}
              /\ WaitingForChild(x).kind = "WaitingForChild"
    /\ \A x : WaitingForFutex(x) \notin {Absent, Exited}
              /\ WaitingForFutex(x).kind = "WaitingForFutex"
    /\ \A x : WaitingForSignalSet(x) \notin {Absent, Exited}
              /\ WaitingForSignalSet(x).kind = "WaitingForSignalSet"
    /\ \A x : WaitingForSignalSuspend(x) \notin {Absent, Exited}
              /\ WaitingForSignalSuspend(x).kind = "WaitingForSignalSuspend"
    /\ \A x : WaitingForVfork(x) \notin {Absent, Exited}
              /\ WaitingForVfork(x).kind = "WaitingForVfork"
              /\ WaitingForVfork(x).arg = x
BY DEF Absent, Runnable, Exited, WaitingForFd, WaitingForSleep,
       WaitingForChild, WaitingForFutex, WaitingForSignalSet,
       WaitingForSignalSuspend, WaitingForVfork

SignalWakeMove(p, A, also) ==
    \E W \in SUBSET SignalWaiters(p) : \E new \in [W \cup A -> TaskState] :
        /\ SetTaskStates(new)
        /\ \A t \in W : new[t] = Runnable
        /\ \A t \in A \ W : new[t] = also[t]

(***************************************************************************)
(* wake_signal_waiters keeps the pending signals well typed, and resumes   *)
(* only tasks that were waiting for signals.                               *)
(***************************************************************************)
LEMMA WakeSignalWaitersType ==
    ASSUME TypeOK, NEW p, NEW tp \in [Tid -> SUBSET Signal],
           NEW pp \in [Pid -> SUBSET Signal],
           NEW dl \in [Tid -> Signal \cup {NoSignal}],
           NEW A \in SUBSET Tid, NEW also \in [A -> TaskState],
           WakeSignalWaiters(p, tp, pp, dl, also)
    PROVE  /\ PendingType'
           /\ SignalWakeMove(p, A, also)
<1> DEFINE waiters == SignalWaiters(p)
<1>1. PICK taken \in [waiters -> Signal \cup {NoSignal}] :
        LET woken == {w \in waiters : taken[w] # NoSignal}
            shared == {taken[w] : w \in {v \in waiters : TakesShared(v, tp)}}
        IN  /\ task_pending' =
                [t \in Tid |-> IF t \in waiters THEN tp[t] \ {taken[t]}
                                                ELSE tp[t]]
            /\ proc_pending' =
                [q \in Pid |-> IF q = p THEN pp[q] \ shared ELSE pp[q]]
            /\ pending_signal_delivery' =
                [t \in Tid |->
                    IF t \in woken
                       /\ state[t].kind = "WaitingForSignalSuspend"
                    THEN taken[t] ELSE dl[t]]
            /\ SetTaskStates([t \in woken \cup DOMAIN also |->
                    IF t \in woken THEN Runnable ELSE also[t]])
  BY Zenon DEF WakeSignalWaiters
<1>2. PendingType'
  BY <1>1 DEF PendingType
<1> DEFINE W == {w \in waiters : taken[w] # NoSignal}
           new == [t \in W \cup A |-> IF t \in W THEN Runnable ELSE also[t]]
<1>3. DOMAIN also = A
  OBVIOUS
<1>4. SetTaskStates(new)
  BY <1>1, <1>3
<1>5. W \in SUBSET waiters /\ new \in [W \cup A -> TaskState]
  BY StateValues
<1>6. /\ \A t \in W : new[t] = Runnable
      /\ \A t \in A \ W : new[t] = also[t]
  OBVIOUS
<1> QED
  BY Zenon, <1>2, <1>4, <1>5, <1>6 DEF SignalWakeMove

-----------------------------------------------------------------------------
(***************************************************************************)
(* Quiet steps: a running task blocks, waiting tasks resume, or only       *)
(* signals, masks, groups and registered addresses change.                 *)
(***************************************************************************)
LEMMA UnchangedTypes ==
    /\ TypeOK /\ UNCHANGED procVars => ProcType' /\ TreeType'
    /\ TypeOK /\ UNCHANGED attrVars => AttrType'
    /\ TypeOK /\ UNCHANGED <<procVars, taskVars>> => PendingType'
BY DEF TypeOK, ProcType, TreeType, AttrType, PendingType, procVars, treeVars,
       attrVars, taskVars

LEMMA BlockStep ==
    ASSUME TypeOK, NEW t \in Tid, AtSyscall(t), NEW w \in TaskState,
           w \notin {Absent, Exited}, w.kind # "WaitingForVfork",
           SetTaskStates([u \in {t} |-> w]),
           UNCHANGED <<idVars, procVars, taskVars>>
    PROVE  Quiet
<1> DEFINE new == [u \in {t} |-> w]
<1>1. {t} \in SUBSET Tid /\ new \in [{t} -> TaskState]
  OBVIOUS
<1>2. state[t] \notin {Absent, Exited}
  BY KindsDiffer DEF AtSyscall
<1>3. UNCHANGED <<idVars, treeVars, task_pid>>
  BY DEF procVars, taskVars, attrVars
<1>4. LiveMove
  BY <1>1, <1>2, <1>3 DEF LiveMove
<1> QED
  BY <1>4, UnchangedTypes DEF Quiet, taskVars

LEMMA ResumeStep ==
    ASSUME TypeOK, NEW S \in SUBSET Tid,
           \A t \in S : state[t] \notin {Absent, Exited},
           SetTaskStates(Resume(S)),
           UNCHANGED <<idVars, procVars, taskVars>>
    PROVE  Quiet
<1>1. Resume(S) \in [S -> TaskState]
  BY StateValues DEF Resume
<1>2. \A t \in S : /\ Resume(S)[t] \notin {Absent, Exited}
                   /\ Resume(S)[t].kind # "WaitingForVfork"
  BY KindsDiffer DEF Resume
<1>3. UNCHANGED <<idVars, treeVars, task_pid>>
  BY DEF procVars, taskVars, attrVars
<1>4. LiveMove
  BY <1>1, <1>2, <1>3 DEF LiveMove
<1> QED
  BY <1>4, UnchangedTypes DEF Quiet, taskVars

LEMMA WakeStep ==
    ASSUME TypeOK, NEW p, NEW tp \in [Tid -> SUBSET Signal],
           NEW pp \in [Pid -> SUBSET Signal],
           NEW A \in SUBSET Tid, \A t \in A : state[t] \notin {Absent, Exited},
           WakeSignalWaiters(p, tp, pp, pending_signal_delivery, Resume(A)),
           UNCHANGED <<idVars, treeVars, pgid, sigactions, attrVars>>
    PROVE  Quiet
<1>1. PICK also : also = Resume(A)
  OBVIOUS
<1>2. PICK dl : dl = pending_signal_delivery
  OBVIOUS
<1>3. also \in [A -> TaskState] /\ dl \in [Tid -> Signal \cup {NoSignal}]
  BY <1>1, <1>2, StateValues DEF Resume, TypeOK
<1>4. WakeSignalWaiters(p, tp, pp, dl, also)
  BY <1>1, <1>2
<1>5. PendingType' /\ SignalWakeMove(p, A, also)
  BY <1>3, <1>4, WakeSignalWaitersType
<1>a. PICK W \in SUBSET SignalWaiters(p) :
        \E new \in [W \cup A -> TaskState] :
            /\ SetTaskStates(new)
            /\ \A t \in W : new[t] = Runnable
            /\ \A t \in A \ W : new[t] = also[t]
  BY Zenon, <1>5 DEF SignalWakeMove
<1>6. PICK new \in [W \cup A -> TaskState] :
        /\ SetTaskStates(new)
        /\ \A t \in W : new[t] = Runnable
        /\ \A t \in A \ W : new[t] = also[t]
  BY <1>a
<1>7. W \cup A \in SUBSET Tid
  BY DEF SignalWaiters, TasksOf
<1>8. \A t \in W \cup A :
        /\ state[t] \notin {Absent, Exited}
        /\ new[t] \notin {Absent, Exited} /\ new[t].kind # "WaitingForVfork"
  BY <1>1, <1>6, KindsDiffer DEF SignalWaiters, Resume
<1>9. LiveMove
  BY <1>6, <1>7, <1>8 DEF LiveMove, attrVars
<1>10. ProcType' /\ AttrType'
  BY DEF TypeOK, ProcType, AttrType, attrVars
<1> QED
  BY <1>5, <1>9, <1>10 DEF Quiet

LEMMA KillQuiet ==
    ASSUME TypeOK, NEW t \in Tid, NEW p \in Pid, NEW s \in Signal, Kill(t, p, s)
    PROVE  Quiet
<1>1. PICK tp, pp : /\ tp = task_pending
                    /\ pp = Queued(proc_pending, p, s)
  OBVIOUS
<1>2. tp \in [Tid -> SUBSET Signal] /\ pp \in [Pid -> SUBSET Signal]
  BY <1>1 DEF TypeOK, Queued
<1>3. /\ WakeSignalWaiters(p, tp, pp, pending_signal_delivery, Resume({}))
      /\ UNCHANGED <<idVars, treeVars, pgid, sigactions, attrVars>>
  BY <1>1 DEF Kill
<1> QED
  BY <1>2, <1>3, WakeStep

LEMMA TkillQuiet ==
    ASSUME TypeOK, NEW t \in Tid, NEW target \in Tid, NEW s \in Signal,
           Tkill(t, target, s)
    PROVE  Quiet
<1>1. PICK p, tp, pp, A :
        /\ p = task_pid[target]
        /\ tp = [task_pending EXCEPT ![target] = @ \cup {s}]
        /\ pp = proc_pending
        /\ A = Interrupted(target, s)
  BY Zenon
<1>2. /\ tp \in [Tid -> SUBSET Signal] /\ pp \in [Pid -> SUBSET Signal]
      /\ A \in SUBSET Tid /\ \A u \in A : state[u] \notin {Absent, Exited}
  BY Zenon, <1>1, KindsDiffer DEF TypeOK, Interrupted
<1>3. /\ WakeSignalWaiters(p, tp, pp, pending_signal_delivery, Resume(A))
      /\ UNCHANGED <<idVars, treeVars, pgid, sigactions, attrVars>>
  BY <1>1 DEF Tkill
<1> QED
  BY <1>2, <1>3, WakeStep

LEMMA TakenType ==
    ASSUME TypeOK, NEW t \in Tid, NEW set, NEW s
    PROVE  /\ TaskLeft(t, set, s) \in [Tid -> SUBSET Signal]
           /\ ProcLeft(t, set, s) \in [Pid -> SUBSET Signal]
           /\ DeliveryLeft(t) \in [Tid -> Signal \cup {NoSignal}]
BY Zenon DEF TypeOK, TaskLeft, ProcLeft, DeliveryLeft

(***************************************************************************)
(* The calls that change signal state, groups and registered addresses.    *)
(***************************************************************************)
LEMMA SignalCallsQuiet ==
    ASSUME TypeOK, TasksHaveProcesses, NEW t \in Tid,
           \/ \E how \in {"block", "unblock", "setmask"}, m \in SigSets :
                RtSigprocmask(t, how, m)
           \/ \E m \in SigSets : RtSigreturn(t, m)
           \/ \E s \in Signal, d \in Dispositions : RtSigaction(t, s, d)
           \/ \E m \in SigSets : RtSigtimedwaitTakes(t, m)
           \/ \E m \in SigSets : RtSigsuspendTakes(t, Signal \ m)
           \/ DeliverSignal(t)
    PROVE  Quiet
<1> USE KernelConstants
<1>1. CASE \E how \in {"block", "unblock", "setmask"}, m \in SigSets :
                RtSigprocmask(t, how, m)
  BY <1>1 DEF RtSigprocmask, Sanitize, TypeOK, Quiet, LiveMove, ProcType,
              AttrType, PendingType, procVars, treeVars
<1>2. CASE \E m \in SigSets : RtSigreturn(t, m)
  <2>1. PICK m \in SigSets : RtSigreturn(t, m)
    BY <1>2
  <2>2. signal_mask' \in [Tid -> SUBSET Signal]
    BY Zenon, <2>1 DEF RtSigreturn, Sanitize, TypeOK
  <2> QED
    BY <2>1, <2>2 DEF RtSigreturn, TypeOK, Quiet, LiveMove, ProcType,
                      AttrType, PendingType, procVars, treeVars
<1>3. CASE \E s \in Signal, d \in Dispositions : RtSigaction(t, s, d)
  <2>1. Dispositions \subseteq Disposition
    <3>1. Handlers \subseteq Disposition
      <4>1. \A m \in SigSets :
                [action |-> "handler", mask |-> m] \in Disposition
        BY DEF Disposition
      <4> QED
        BY <4>1 DEF Handlers
    <3>2. DefaultDisposition \in Disposition
      BY DEF DefaultDisposition, Disposition
    <3>3. [action |-> "ignore", mask |-> {}] \in Disposition
      BY DEF Disposition
    <3> QED
      BY Zenon, <3>1, <3>2, <3>3 DEF Dispositions
  <2>2. PICK s \in Signal, d \in Dispositions : RtSigaction(t, s, d)
    BY <1>3
  <2>3. sigactions' = [sigactions EXCEPT ![task_pid[t]][s] = d]
    BY <2>2 DEF RtSigaction
  <2>4. sigactions' \in [Pid -> [Signal -> Disposition]]
    BY Zenon, <2>1, <2>3 DEF TypeOK
  <2> QED
    BY <2>2, <2>4 DEF RtSigaction, TypeOK, Quiet, LiveMove, ProcType,
                      AttrType, PendingType, taskVars, attrVars
<1>4. CASE \E m \in SigSets : RtSigtimedwaitTakes(t, m)
  <2>1. PICK m \in SigSets : RtSigtimedwaitTakes(t, m)
    BY Zenon, <1>4
  <2>2. PendingType'
    BY <2>1, TakenType DEF RtSigtimedwaitTakes, TypeOK, PendingType
  <2> QED
    BY <2>1, <2>2 DEF RtSigtimedwaitTakes, TypeOK, Quiet, LiveMove,
                      ProcType, AttrType, attrVars
<1>5. CASE \E m \in SigSets : RtSigsuspendTakes(t, Signal \ m)
  <2>1. PICK m \in SigSets : RtSigsuspendTakes(t, Signal \ m)
    BY Zenon, <1>5
  <2>2. PendingType'
    BY <2>1, TakenType DEF RtSigsuspendTakes, TypeOK, PendingType
  <2> QED
    BY <2>1, <2>2 DEF RtSigsuspendTakes, TypeOK, Quiet, LiveMove,
                      ProcType, AttrType, attrVars
<1>6. CASE DeliverSignal(t)
  <2>1. PICK m : m = Unblocked(t)
    OBVIOUS
  <2>2. PICK s \in Signal :
            /\ task_pending' = TaskLeft(t, m, s)
            /\ proc_pending' = ProcLeft(t, m, s)
            /\ pending_signal_delivery' = DeliveryLeft(t)
            /\ signal_mask' = [signal_mask EXCEPT ![t] =
                    IF sigactions[task_pid[t]][s].action = "handler"
                    THEN Sanitize(@ \cup sigactions[task_pid[t]][s].mask)
                    ELSE @]
    BY Zenon, <1>6, <2>1 DEF DeliverSignal
  <2>a. PendingType'
    BY Zenon, <2>2, TakenType DEF PendingType
  <2>3. signal_mask' \in [Tid -> SUBSET Signal]
    <3>2. task_pid[t] \in Pid
      BY Zenon, <1>6, KindsDiffer
         DEF DeliverSignal, TasksHaveProcesses, ProcessExists
    <3>3. sigactions[task_pid[t]][s].mask \in SUBSET Signal
      <4>1. sigactions[task_pid[t]] \in [Signal -> Disposition]
        BY <3>2 DEF TypeOK
      <4>2. sigactions[task_pid[t]][s] \in Disposition
        BY <4>1
      <4> QED
        BY <4>2 DEF Disposition
    <3> QED
      BY Zenon, <2>2, <3>3 DEF TypeOK, Sanitize
  <2> QED
    BY Zenon, <1>6, <2>a, <2>3 DEF DeliverSignal, TypeOK, Quiet, LiveMove,
                            ProcType, AttrType
<1> QED
  BY <1>1, <1>2, <1>3, <1>4, <1>5, <1>6

LEMMA AttributeCallsQuiet ==
    ASSUME TypeOK, NEW t \in Tid,
           \/ \E p, group \in Pid : Setpgid(t, p, group)
           \/ Setsid(t)
           \/ \E a \in Addr \cup {NoAddr} : SetTidAddress(t, a)
           \/ \E set \in BOOLEAN : SetRobustList(t, set)
    PROVE  Quiet
<1>1. CASE \E p, group \in Pid : Setpgid(t, p, group)
  BY <1>1 DEF Setpgid, TypeOK, Quiet, LiveMove, ProcType, AttrType,
              PendingType, taskVars, attrVars
<1>2. CASE Setsid(t)
  BY Zenon, <1>2 DEF Setsid, TypeOK, Quiet, LiveMove, ProcType, AttrType,
              PendingType, taskVars, attrVars
<1>3. CASE \E a \in Addr \cup {NoAddr} : SetTidAddress(t, a)
  BY <1>3 DEF SetTidAddress, TypeOK, Quiet, LiveMove, ProcType, AttrType,
              PendingType, procVars
<1>4. CASE \E set \in BOOLEAN : SetRobustList(t, set)
  BY <1>4 DEF SetRobustList, TypeOK, Quiet, LiveMove, ProcType, AttrType,
              PendingType, procVars
<1> QED
  BY Zenon, <1>1, <1>2, <1>3, <1>4

LEMMA BlockingCallsQuiet ==
    ASSUME TypeOK, NEW t \in Tid,
           \/ \E m \in SigSets : RtSigtimedwaitBlocks(t, m)
           \/ \E m \in SigSets : RtSigsuspendBlocks(t, Signal \ m)
           \/ \E s \in WaitSelectors : Wait4Blocks(t, s)
           \/ \E a \in Addr, private \in BOOLEAN : FutexWait(t, a, private)
           \/ BlockForFd(t)
           \/ BlockForSleep(t)
    PROVE  Quiet
<1> DEFINE Blocks(w) ==
        /\ w \in TaskState
        /\ w \notin {Absent, Exited} /\ w.kind # "WaitingForVfork"
        /\ AtSyscall(t)
        /\ SetTaskStates([u \in {t} |-> w])
        /\ UNCHANGED <<idVars, procVars, taskVars>>
<1>1. SUFFICES ASSUME \E w : Blocks(w) PROVE Quiet
  <2> USE KernelConstants, KindsDiffer, StateValues
  <2>1. CASE \E m \in SigSets : RtSigtimedwaitBlocks(t, m)
    <3>1. PICK m \in SigSets : RtSigtimedwaitBlocks(t, m)
      BY <2>1
    <3>2. Blocks(WaitingForSignalSet(m))
      BY Zenon, <3>1 DEF RtSigtimedwaitBlocks
    <3> QED
      BY Zenon, <3>2, <1>1
  <2>2. CASE \E m \in SigSets : RtSigsuspendBlocks(t, Signal \ m)
    <3>1. PICK m \in SigSets : RtSigsuspendBlocks(t, Signal \ m)
      BY Zenon, <2>2
    <3>2. Blocks(WaitingForSignalSuspend(Signal \ m))
      BY Zenon, <3>1 DEF RtSigsuspendBlocks
    <3> QED
      BY Zenon, <3>2, <1>1
  <2>3. CASE \E s \in WaitSelectors : Wait4Blocks(t, s)
    <3>1. PICK s \in WaitSelectors : Wait4Blocks(t, s)
      BY Zenon, <2>3
    <3>2. Blocks(WaitingForChild(s))
      BY <3>1 DEF Wait4Blocks
    <3> QED
      BY Zenon, <3>2, <1>1
  <2>4. CASE \E a \in Addr, private \in BOOLEAN : FutexWait(t, a, private)
    <3>1. PICK a \in Addr, private \in BOOLEAN : FutexWait(t, a, private)
      BY Zenon, <2>4
    <3>2. NewKey(task_pid[t], a, private) \in FutexWaitKey
      BY Zenon DEF NewKey, FutexWaitKey, TypeOK
    <3>3. Blocks(WaitingForFutex(NewKey(task_pid[t], a, private)))
      BY <3>1, <3>2 DEF FutexWait
    <3> QED
      BY Zenon, <3>3, <1>1
  <2>5. CASE BlockForFd(t)
    <3>1. Blocks(WaitingForFd)
      BY <2>5 DEF BlockForFd
    <3> QED
      BY Zenon, <3>1, <1>1
  <2>6. CASE BlockForSleep(t)
    <3>1. Blocks(WaitingForSleep)
      BY <2>6 DEF BlockForSleep
    <3> QED
      BY Zenon, <3>1, <1>1
  <2> QED
    BY Zenon, <2>1, <2>2, <2>3, <2>4, <2>5, <2>6
<1>2. PICK w : Blocks(w)
  BY Zenon, <1>1
<1> QED
  BY Zenon, <1>2, BlockStep

LEMMA WakingStepsQuiet ==
    ASSUME TypeOK, NEW t \in Tid,
           \/ \E a \in Addr, private \in BOOLEAN, n \in Limits :
                FutexWake(t, a, private, n)
           \/ FutexTimeout(t)
           \/ ResumeSleepWaiter(t)
           \/ ResumeFdWaiters
    PROVE  Quiet
<1> DEFINE Resumes(S) ==
        /\ S \in SUBSET Tid
        /\ \A u \in S : state[u] \notin {Absent, Exited}
        /\ SetTaskStates(Resume(S))
        /\ UNCHANGED <<idVars, procVars, taskVars>>
<1>1. SUFFICES ASSUME \E S : Resumes(S) PROVE Quiet
  <2> USE KindsDiffer
  <2>1. CASE \E a \in Addr, private \in BOOLEAN, n \in Limits :
                FutexWake(t, a, private, n)
    <3>1. PICK a \in Addr, private \in BOOLEAN, n \in Limits :
            FutexWake(t, a, private, n)
      BY Zenon, <2>1
    <3>2. NewKey(task_pid[t], a, private) \in FutexWaitKey
      BY DEF NewKey, FutexWaitKey, TypeOK
    <3>3. PICK woken \in SUBSET FutexWaiters(NewKey(task_pid[t], a, private)) :
            SetTaskStates(Resume(woken))
      BY Zenon, <3>1 DEF FutexWake
    <3>4. Resumes(woken)
      BY Zenon, <3>1, <3>2, <3>3 DEF FutexWake, FutexWaiters, TypeOK
    <3> QED
      BY Zenon, <3>4, <1>1
  <2>2. CASE FutexTimeout(t)
    <3>1. Resumes({t})
      BY <2>2 DEF FutexTimeout
    <3> QED
      BY Zenon, <3>1, <1>1
  <2>3. CASE ResumeSleepWaiter(t)
    <3>1. Resumes({t})
      BY Zenon, <2>3 DEF ResumeSleepWaiter
    <3> QED
      BY Zenon, <3>1, <1>1
  <2>4. CASE ResumeFdWaiters
    <3>1. PICK ready \in SUBSET {u \in fd_wait_tids :
                                    state[u].kind = "WaitingForFd"} :
            SetTaskStates(Resume(ready))
      BY Zenon, <2>4 DEF ResumeFdWaiters
    <3>2. Resumes(ready)
      BY <2>4, <3>1 DEF ResumeFdWaiters, TypeOK
    <3> QED
      BY Zenon, <3>2, <1>1
  <2> QED
    BY <2>1, <2>2, <2>3, <2>4
<1>2. PICK S : Resumes(S)
  BY <1>1
<1> QED
  BY Zenon, <1>2, ResumeStep

LEMMA RequeueQuiet ==
    ASSUME TypeOK, NEW t \in Tid, NEW a \in Addr, NEW b \in Addr,
           NEW private \in BOOLEAN, NEW n \in Limits, NEW m \in Limits,
           FutexRequeue(t, a, b, private, n, m)
    PROVE  Quiet
<1> DEFINE source == NewKey(task_pid[t], a, private)
           target == NewKey(task_pid[t], b, private)
<1>1. source \in FutexWaitKey /\ target \in FutexWaitKey
  BY DEF NewKey, FutexWaitKey, TypeOK
<1>2. PICK woken \in SUBSET FutexWaiters(source),
           moved \in SUBSET FutexWaiters(source) :
        SetTaskStates([u \in woken \cup moved |->
            IF u \in woken THEN Runnable ELSE WaitingForFutex(target)])
  BY Zenon DEF FutexRequeue, RequeueTarget
<1> DEFINE S == woken \cup moved
           new == [u \in S |-> IF u \in woken THEN Runnable
                                              ELSE WaitingForFutex(target)]
<1>3. S \in SUBSET Tid
  BY <1>1 DEF FutexWaiters, TypeOK
<1>4. new \in [S -> TaskState]
  BY <1>1, StateValues
<1>5. \A u \in S :
        /\ state[u] \notin {Absent, Exited}
        /\ new[u] \notin {Absent, Exited} /\ new[u].kind # "WaitingForVfork"
  BY Zenon, KindsDiffer DEF FutexWaiters
<1>6. UNCHANGED <<idVars, procVars, taskVars>>
  BY DEF FutexRequeue
<1>7. LiveMove
  BY Zenon, <1>2, <1>3, <1>4, <1>5, <1>6
     DEF LiveMove, procVars, taskVars, attrVars
<1> QED
  BY Zenon, <1>6, <1>7, UnchangedTypes DEF Quiet, taskVars

(***************************************************************************)
(* Every other step creates, ends or removes a process or a task.          *)
(***************************************************************************)
Structural ==
    \/ \E t \in Tid :
        \/ \E vfork \in BOOLEAN : Fork(t, vfork)
        \/ ForkTidExhausted(t)
        \/ \E a \in Addr \cup {NoAddr} : CloneThread(t, a)
        \/ Exec(t)
        \/ \E robust \in SUBSET Addr, cleared \in SUBSET Addr :
                ExitTask(t, robust, cleared)
        \/ ExitGroup(t)
        \/ DeliverFatalSignal(t)
        \/ \E s \in WaitSelectors : Wait4Reaps(t, s)
    \/ ResumeWaitingTasks

LEMMA StepKinds ==
    ASSUME TypeOK, TasksHaveProcesses, Next
    PROVE  Quiet \/ Structural
<1>1. ASSUME NEW t \in Tid, Syscall(t) PROVE Quiet \/ Structural
  BY Zenon, <1>1, KillQuiet, TkillQuiet, SignalCallsQuiet, AttributeCallsQuiet,
     BlockingCallsQuiet, WakingStepsQuiet, RequeueQuiet
     DEF Syscall, SyscallOf, Structural
<1>2. ASSUME NEW t \in Tid, Scheduler(t) PROVE Quiet \/ Structural
  BY <1>2, SignalCallsQuiet, WakingStepsQuiet DEF Scheduler, Structural
<1>3. ASSUME ResumeFdWaiters PROVE Quiet
  <2>1. 1 \in Tid
    BY KernelConstants DEF Tid
  <2> QED
    BY <1>3, <2>1, WakingStepsQuiet
<1> QED
  BY <1>1, <1>2, <1>3 DEF Next, Structural
-----------------------------------------------------------------------------
(***************************************************************************)
(* Every step sets task states through set_task_state or leaves them and   *)
(* their indexes alone.                                                    *)
(***************************************************************************)
StateStep ==
    \/ UNCHANGED stateVars
    \/ \E S \in SUBSET Tid : \E new \in [S -> TaskState] : SetTaskStates(new)

LEMMA StateStepKeeps ==
    ASSUME TypeOK, IndexesMatchStates, StateStep
    PROVE  StateType' /\ IndexesMatchStates'
<1>1. StateType
  BY TypeParts
<1>2. CASE UNCHANGED stateVars
  BY <1>1, <1>2 DEF StateType, IndexesMatchStates, stateVars
<1>3. CASE \E S \in SUBSET Tid : \E new \in [S -> TaskState] :
            SetTaskStates(new)
  BY <1>1, <1>3, SetTaskStatesType, SetTaskStatesIndexes
<1> QED
  BY <1>2, <1>3 DEF StateStep

LEMMA QuietKeeps ==
    ASSUME TypeOK, IndexesMatchStates, Quiet
    PROVE  TypeOK' /\ IndexesMatchStates'
<1>1. StateStep
  BY DEF Quiet, LiveMove, StateStep
<1>2. IdType' /\ TreeType'
  BY DEF Quiet, LiveMove, idVars, treeVars, TypeOK, IdType, TreeType
<1> QED
  BY <1>1, <1>2, StateStepKeeps, TypePartsNext DEF Quiet

(***************************************************************************)
(* What the end of a process does to task states: the dying tasks exit,    *)
(* and the tasks resumed are vfork waiters of its parent, the futex        *)
(* waiters the exit wakes, and signal waiters of its parent.               *)
(***************************************************************************)
ExitMove(p, dying, woken) ==
    \E R \in SUBSET (VforkWaiters(p) \cup woken \cup SignalWaiters(parent[p])) :
        /\ VforkWaiters(p) \cup woken \subseteq R
        /\ \E new \in [dying \cup R -> TaskState] :
            /\ SetTaskStates(new)
            /\ \A t \in R : new[t] = Runnable
            /\ \A t \in dying \ R : new[t] = Exited

LEMMA ExitProcessMoves ==
    ASSUME TypeOK, NEW p \in Pid, NEW dying \in SUBSET Tid,
           NEW woken \in SUBSET Tid, NEW tp \in [Tid -> SUBSET Signal],
           NEW pp \in [Pid -> SUBSET Signal],
           NEW dl \in [Tid -> Signal \cup {NoSignal}],
           ExitProcess(p, dying, woken, tp, pp, dl)
    PROVE  /\ exit_state' = [exit_state EXCEPT ![p] = "Exited"]
           /\ PendingType'
           /\ ExitMove(p, dying, woken)
<1>1. PICK resumed, also, q, qq :
        /\ resumed = VforkWaiters(p) \cup woken
        /\ also = [t \in dying \cup resumed |->
                       IF t \in resumed THEN Runnable ELSE Exited]
        /\ q = parent[p]
        /\ qq = Queued(pp, parent[p], SIGCHLD)
  BY Zenon
<1> DEFINE A == dying \cup resumed
<1>2. A \in SUBSET Tid
  BY <1>1 DEF VforkWaiters, TasksOf
<1>3. also \in [A -> TaskState]
  BY <1>1, StateValues
<1>4. qq \in [Pid -> SUBSET Signal]
  BY Zenon, <1>1, KernelConstants DEF Queued
<1>5. WakeSignalWaiters(q, tp, qq, dl, also)
  BY <1>1 DEF ExitProcess
<1> HIDE DEF A
<1>6. PendingType' /\ SignalWakeMove(q, A, also)
  BY Zenon, <1>2, <1>3, <1>4, <1>5, WakeSignalWaitersType
<1>7. PICK W \in SUBSET SignalWaiters(q) :
        \E new \in [W \cup A -> TaskState] :
            /\ SetTaskStates(new)
            /\ \A t \in W : new[t] = Runnable
            /\ \A t \in A \ W : new[t] = also[t]
  BY Zenon, <1>6 DEF SignalWakeMove
<1>8. PICK new \in [W \cup A -> TaskState] :
        /\ SetTaskStates(new)
        /\ \A t \in W : new[t] = Runnable
        /\ \A t \in A \ W : new[t] = also[t]
  BY <1>7
<1> DEFINE R == W \cup resumed
<1>9. W \cup A = dying \cup R
  BY DEF A
<1>10. new \in [dying \cup R -> TaskState]
  BY <1>9
<1>11. \A t \in R : new[t] = Runnable
  BY Zenon, <1>1, <1>8 DEF A
<1>12. \A t \in dying \ R : new[t] = Exited
  BY Zenon, <1>1, <1>8 DEF A
<1>13. /\ R \in SUBSET (VforkWaiters(p) \cup woken \cup SignalWaiters(parent[p]))
       /\ VforkWaiters(p) \cup woken \subseteq R
  BY <1>1
<1> HIDE DEF R
<1>14. ExitMove(p, dying, woken)
  BY Zenon, <1>8, <1>10, <1>11, <1>12, <1>13 DEF ExitMove
<1> QED
  BY <1>6, <1>14 DEF ExitProcess

(***************************************************************************)
(* A task that can run belongs to a running process.                       *)
(***************************************************************************)
LEMMA LiveTask ==
    ASSUME TypeOK, TreeInv, NEW t \in Tid, state[t] \notin {Absent, Exited}
    PROVE  task_pid[t] \in Pid /\ exit_state[task_pid[t]] = "Running"
<1>1. ProcessExists(task_pid[t])
  BY Zenon DEF TreeInv, TasksHaveProcesses
<1>2. task_pid[t] \in Pid /\ exit_state[task_pid[t]] # "None"
  BY Zenon, <1>1 DEF ProcessExists
<1>3. t \in TasksOf(task_pid[t])
  BY Zenon DEF TasksOf
<1>4. exit_state[task_pid[t]] # "Exited"
  BY Zenon, <1>1, <1>2, <1>3 DEF TreeInv, ZombieIffAllTasksExited
<1>5. exit_state[task_pid[t]] \in {"None", "Running", "Exited"}
  BY Zenon, <1>2 DEF TypeOK
<1> QED BY Zenon, <1>2, <1>4, <1>5

LEMMA NoPidIsNoProcess == NoPid \notin Pid
BY DEF NoPid, Pid

LEMMA VforkState ==
    ASSUME NEW s \in TaskState, s.kind = "WaitingForVfork"
    PROVE  s = WaitingForVfork(s.arg)
BY DEF TaskState, Absent, Runnable, Exited, WaitingForFd, WaitingForSleep,
       WaitingForChild, WaitingForVfork, WaitingForFutex, WaitingForSignalSet,
       WaitingForSignalSuspend

LEMMA SetPointwise ==
    ASSUME NEW S, NEW new \in [S -> TaskState], SetTaskStates(new)
    PROVE  \A t \in Tid : state'[t] = IF t \in S THEN new[t] ELSE state[t]
BY DEF SetTaskStates


(***************************************************************************)
(* The tasks an exit wakes were waiting for futexes.                       *)
(***************************************************************************)
LEMMA ExitWokenWait ==
    ASSUME TypeOK, IndexesMatchStates, NEW p \in Pid, NEW addrs \in SUBSET Addr
    PROVE  /\ ExitWoken(p, addrs) \in SUBSET Tid
           /\ \A u \in ExitWoken(p, addrs) : state[u].kind = "WaitingForFutex"
<1>1. \A a \in addrs, private \in BOOLEAN :
        NewKey(p, a, private) \in FutexWaitKey
  BY Zenon DEF NewKey, FutexWaitKey
<1>2. \A k \in FutexWaitKey : \A u \in futex_wait_tids[k] :
        u \in Tid /\ state[u].kind = "WaitingForFutex"
  BY KindsDiffer DEF IndexesMatchStates
<1> QED
  BY <1>1, <1>2 DEF ExitWoken

LEMMA QuietKeepsTree ==
    ASSUME TypeOK, TreeInv, Quiet
    PROVE  TreeInv'
<1>1. UNCHANGED <<next_pid, next_tid, exit_state, parent, children, task_pid>>
  BY DEF Quiet, LiveMove, idVars, treeVars
<1>2. \A t \in Tid :
        /\ state'[t] = Absent <=> state[t] = Absent
        /\ state'[t] = Exited <=> state[t] = Exited
        /\ state'[t].kind = "WaitingForVfork" => state'[t] = state[t]
  <2>1. CASE UNCHANGED stateVars
    BY <2>1 DEF stateVars
  <2>2. CASE ~UNCHANGED stateVars
    <3>1. PICK S \in SUBSET Tid : \E new \in [S -> TaskState] :
            /\ SetTaskStates(new)
            /\ \A t \in S : /\ state[t] \notin {Absent, Exited}
                            /\ new[t] \notin {Absent, Exited}
                            /\ new[t].kind # "WaitingForVfork"
      BY <2>2 DEF Quiet, LiveMove
    <3>2. PICK new \in [S -> TaskState] :
            /\ SetTaskStates(new)
            /\ \A t \in S : /\ state[t] \notin {Absent, Exited}
                            /\ new[t] \notin {Absent, Exited}
                            /\ new[t].kind # "WaitingForVfork"
      BY <3>1
    <3>3. \A t \in Tid : state'[t] = IF t \in S THEN new[t] ELSE state[t]
      BY <3>2, SetPointwise
    <3> QED
      BY <3>2, <3>3
  <2> QED
    BY <2>1, <2>2
<1>3. TasksHaveProcesses'
  BY <1>1, <1>2 DEF TreeInv, TasksHaveProcesses, ProcessExists
<1>4. ZombieIffAllTasksExited'
  BY <1>1, <1>2 DEF TreeInv, ZombieIffAllTasksExited, ProcessExists, TasksOf
<1>5. ProcessTree'
  BY Zenon, <1>1 DEF TreeInv, ProcessTree, ProcessExists
<1>6. VforkWaitHasRunningChild'
  BY <1>1, <1>2 DEF TreeInv, VforkWaitHasRunningChild, Running
<1>7. IdsNotYetAllocated'
  BY <1>1, <1>2 DEF TreeInv, IdsNotYetAllocated
<1> QED
  BY <1>3, <1>4, <1>5, <1>6, <1>7 DEF TreeInv

-----------------------------------------------------------------------------
(***************************************************************************)
(* fork and vfork.                                                         *)
(***************************************************************************)
LEMMA ForkKeeps ==
    ASSUME KernelInv, NEW t \in Tid, NEW vfork \in BOOLEAN, Fork(t, vfork)
    PROVE  KernelInv'
<1>0. PICK p, c, u : p = task_pid[t] /\ c = next_pid /\ u = next_tid
  BY Zenon
<1> DEFINE S == IF vfork THEN {t, u} ELSE {u}
           new == [x \in S |-> IF x = u THEN Runnable ELSE WaitingForVfork(c)]
<1> USE DEF KernelInv, TreeInv
<1>1. /\ p \in Pid /\ exit_state[p] = "Running"
      /\ c \in Pid /\ c + 1 \in Pid /\ u \in Tid /\ u + 1 \in Tid
      /\ state[t] = Runnable
  <2>1. /\ state[t] = Runnable /\ p \in Pid /\ exit_state[p] = "Running"
        /\ c \in Pid /\ c < MaxPid /\ u \in Tid /\ u < MaxTid
    BY Zenon, <1>0 DEF Fork, Running, AtSyscall, TypeOK
  <2>2. c + 1 \in Pid /\ u + 1 \in Tid
    BY <2>1, KernelConstants DEF Pid, Tid
  <2> QED BY Zenon, <2>1, <2>2
<1>2. /\ exit_state[c] = "None" /\ state[u] = Absent /\ task_pid[u] = NoPid
      /\ p < c /\ t # u
  BY <1>0, <1>1, KindsDiffer DEF TypeOK, IdsNotYetAllocated, TasksHaveProcesses, Pid,
                           Tid
<1>3. S \in SUBSET Tid /\ new \in [S -> TaskState] /\ SetTaskStates(new)
  BY Zenon, <1>0, <1>1, StateValues DEF Fork
<1>4. \A x \in Tid : state'[x] = IF x \in S THEN new[x] ELSE state[x]
  BY Zenon, <1>3, SetPointwise
<1>5. /\ state'[u] = Runnable
      /\ \A x \in Tid \ {u} :
            \/ state'[x] = state[x]
            \/ x = t /\ state'[x] = WaitingForVfork(c)
  BY Zenon, <1>1, <1>4
<1>6. /\ next_pid' = c + 1 /\ next_tid' = u + 1
      /\ InsertProcess(c, p)
      /\ CopyTask(u, t, c, clear_child_tid[t], robust_list[t])
  BY <1>0 DEF Fork
<1>7. /\ exit_state' = [exit_state EXCEPT ![c] = "Running"]
      /\ parent' = [parent EXCEPT ![c] = p]
      /\ children' = [children EXCEPT ![c] = {}, ![p] = @ \cup {c}]
      /\ task_pid' = [task_pid EXCEPT ![u] = c]
  BY <1>6 DEF InsertProcess, CopyTask
<1> HIDE DEF new, S
<1>8. TypeOK' /\ IndexesMatchStates'
  <2>1. StateType' /\ IndexesMatchStates'
    BY <1>3, StateStepKeeps DEF StateStep
  <2>2. IdType'
    BY <1>1, <1>6 DEF IdType
  <2>3. TreeType'
    BY Zenon, <1>1, <1>7 DEF TypeOK, TreeType
  <2>4. ProcType'
    BY Zenon, <1>1, <1>6 DEF InsertProcess, TypeOK, ProcType
  <2>5. AttrType' /\ PendingType'
    BY Zenon, <1>1, <1>6 DEF InsertProcess, CopyTask, TypeOK, AttrType, PendingType
  <2> QED
    BY <2>1, <2>2, <2>3, <2>4, <2>5, TypePartsNext
<1>9. \A q \in Pid : exit_state'[q] = IF q = c THEN "Running" ELSE exit_state[q]
  BY Zenon, <1>7 DEF TypeOK
<1>10. \A x \in Tid : task_pid'[x] = IF x = u THEN c ELSE task_pid[x]
  BY <1>7 DEF TypeOK
<1>11. TasksHaveProcesses'
  <2>1. \A q \in Pid : exit_state[q] # "None" => exit_state'[q] # "None"
    BY Zenon, <1>9
  <2>2. ASSUME NEW x \in Tid
        PROVE  IF state'[x] = Absent THEN task_pid'[x] = NoPid
                                     ELSE task_pid'[x] \in Pid /\ exit_state'[task_pid'[x]] # "None"
    <3>1. CASE x = u
      BY Zenon, <1>1, <1>5, <1>9, <1>10, <3>1, KindsDiffer
    <3>2. CASE x # u
      <4>1. task_pid'[x] = task_pid[x]
        BY Zenon, <1>10, <3>2
      <4>2. state[t] # Absent /\ WaitingForVfork(c) # Absent
        BY Zenon, <1>1, KindsDiffer
      <4>3. state'[x] = Absent <=> state[x] = Absent
        BY Zenon, <1>5, <3>2, <4>2
      <4> QED BY Zenon, <2>1, <4>1, <4>3 DEF TasksHaveProcesses, ProcessExists
    <3> QED BY Zenon, <3>1, <3>2
  <2> QED BY Zenon, <2>2 DEF TasksHaveProcesses, ProcessExists
<1>12. ZombieIffAllTasksExited'
  <2>1. \A q \in Pid \ {c} : TasksOf(q)' = TasksOf(q)
    BY Zenon, <1>2, <1>10, NoPidIsNoProcess DEF TasksOf
  <2>2. u \in TasksOf(c)'
    BY Zenon, <1>1, <1>10 DEF TasksOf
  <2>3. \A x \in Tid \ {u} : state'[x] = Exited <=> state[x] = Exited
    <3>1. state[t] # Exited /\ WaitingForVfork(c) # Exited
      BY Zenon, <1>1, KindsDiffer
    <3> QED BY Zenon, <1>5, <3>1
  <2>4. u \notin TasksOf(c)
    BY Zenon, <1>1, <1>2, NoPidIsNoProcess DEF TasksOf
  <2>5. \A q \in Pid \ {c} : u \notin TasksOf(q)
    BY Zenon, <1>2, NoPidIsNoProcess DEF TasksOf
  <2>6. ASSUME NEW q \in Pid, ProcessExists(q)'
        PROVE  /\ TasksOf(q)' # {}
               /\ exit_state'[q] = "Exited"
                    <=> \A x \in TasksOf(q)' : state'[x] = Exited
    <3>1. CASE q = c
      BY Zenon, <1>5, <1>9, <2>2, <3>1, KindsDiffer
    <3>2. CASE q # c
      <4>1. TasksOf(q)' = TasksOf(q) /\ u \notin TasksOf(q)
        BY <2>1, <2>5, <3>2
      <4>2. exit_state'[q] = exit_state[q] /\ ProcessExists(q)
        BY <1>9, <2>6, <3>2 DEF ProcessExists
      <4>3. \A x \in TasksOf(q) : state'[x] = Exited <=> state[x] = Exited
        BY Zenon, <2>3, <4>1 DEF TasksOf
      <4> QED
        BY <4>1, <4>2, <4>3 DEF ZombieIffAllTasksExited
    <3> QED
      BY Zenon, <3>1, <3>2
  <2> QED
    BY Zenon, <2>6 DEF ZombieIffAllTasksExited
<1>13. ProcessTree'
  <2>1. \A q \in Pid : parent'[q] = IF q = c THEN p ELSE parent[q]
    BY <1>7 DEF TypeOK
  <2>2. \A q \in Pid : children'[q] = IF q = c THEN {}
                                      ELSE IF q = p THEN children[p] \cup {c}
                                      ELSE children[q]
    BY Zenon, <1>1, <1>2, <1>7 DEF TypeOK
  <2>3. \A q \in Pid : exit_state[q] # "None" => parent[q] < c
    BY <1>0, <1>1 DEF ProcessTree, IdsNotYetAllocated, TypeOK, Pid, NoPid
  <2>4. \A q \in Pid : c \notin children[q]
    BY Zenon, <1>2 DEF ProcessTree, ProcessExists
  <2>5. ASSUME NEW q \in Pid PROVE parent'[q] < q
    BY <1>1, <1>2, <2>1 DEF ProcessTree
  <2>6. ASSUME NEW q \in Pid
        PROVE  children'[q] = {d \in Pid : /\ exit_state'[q] # "None"
                                           /\ exit_state'[d] # "None"
                                           /\ parent'[d] = q}
    <3>1. CASE q = c
      BY <1>1, <1>2, <1>9, <2>1, <2>2, <2>3, <3>1 DEF Pid
    <3>2. CASE q # c
      <4>1. children[q] = {d \in Pid : /\ exit_state[q] # "None"
                                       /\ exit_state[d] # "None"
                                       /\ parent[d] = q}
        BY Zenon DEF ProcessTree, ProcessExists
      <4> QED
        BY <1>1, <1>2, <1>9, <2>1, <2>2, <3>2, <4>1
    <3> QED
      BY Zenon, <3>1, <3>2
  <2> QED
    BY Zenon, <2>5, <2>6 DEF ProcessTree, ProcessExists
<1>14. VforkWaitHasRunningChild'
  <2>1. \A q \in Pid : parent'[q] = IF q = c THEN p ELSE parent[q]
    BY <1>7 DEF TypeOK
  <2>2. SUFFICES ASSUME NEW x \in Tid, state'[x].kind = "WaitingForVfork"
                 PROVE  /\ state'[x].arg \in Pid
                        /\ exit_state'[state'[x].arg] = "Running"
                        /\ parent'[state'[x].arg] = task_pid'[x]
    BY Zenon DEF VforkWaitHasRunningChild, Running
  <2>3. x # u
    BY Zenon, <1>5, <2>2, KindsDiffer
  <2>4. CASE state'[x] = state[x]
    <3>1. /\ state[x].arg \in Pid /\ exit_state[state[x].arg] = "Running"
          /\ parent[state[x].arg] = task_pid[x]
      BY Zenon, <2>2, <2>4 DEF VforkWaitHasRunningChild, Running
    <3> QED
      BY <1>2, <1>9, <1>10, <2>1, <2>3, <2>4, <3>1
  <2>5. CASE x = t /\ state'[x] = WaitingForVfork(c)
    <3>1. state'[x].arg = c
      BY Zenon, <2>5, KindsDiffer
    <3> QED
      BY <1>0, <1>1, <1>9, <1>10, <2>1, <2>3, <2>5, <3>1
  <2> QED
    BY Zenon, <1>5, <2>3, <2>4, <2>5
<1>15. IdsNotYetAllocated'
  <2>1. \A q \in Pid : q >= c + 1 => q >= c /\ q # c
    BY <1>1 DEF Pid
  <2>2. \A x \in Tid : x >= u + 1 => x >= u /\ x # u
    BY <1>1 DEF Tid
  <2>3. \A q \in Pid : q >= next_pid' => exit_state'[q] = "None"
    BY Zenon, <1>0, <1>6, <1>9, <2>1 DEF IdsNotYetAllocated
  <2>4. state[t] # Absent
    BY Zenon, <1>1, KindsDiffer
  <2>5. \A x \in Tid : x >= next_tid' => state'[x] = Absent
    BY Zenon, <1>0, <1>5, <1>6, <2>2, <2>4 DEF IdsNotYetAllocated
  <2> QED BY Zenon, <2>3, <2>5 DEF IdsNotYetAllocated
<1> QED
  BY <1>8, <1>11, <1>12, <1>13, <1>14, <1>15

LEMMA ForkTidExhaustedKeeps ==
    ASSUME KernelInv, NEW t \in Tid, ForkTidExhausted(t)
    PROVE  KernelInv'
<1> USE DEF KernelInv, TreeInv
<1>1. UNCHANGED <<next_tid, exit_state, parent, children, pgid, proc_pending,
                  sigactions, task_pid, signal_mask, clear_child_tid,
                  robust_list, task_pending, pending_signal_delivery, state,
                  runnable_tids, child_wait_tids, fd_wait_tids,
                  futex_wait_tids>>
  BY Zenon DEF ForkTidExhausted, procVars, treeVars, taskVars, attrVars, stateVars
<1>2. next_pid' = next_pid + 1 /\ next_pid' \in Pid
  BY KernelConstants DEF ForkTidExhausted, TypeOK, Pid
<1>3. TypeOK' /\ IndexesMatchStates'
  BY <1>1, <1>2 DEF TypeOK, IndexesMatchStates
<1>4. TasksHaveProcesses' /\ VforkWaitHasRunningChild'
  BY Zenon, <1>1
     DEF TasksHaveProcesses, VforkWaitHasRunningChild, ProcessExists,
              Running
<1>5. ZombieIffAllTasksExited' /\ ProcessTree'
  BY Zenon, <1>1 DEF ZombieIffAllTasksExited, ProcessTree, ProcessExists, TasksOf
<1>6. IdsNotYetAllocated'
  BY <1>1, <1>2 DEF IdsNotYetAllocated, TypeOK, Pid
<1> QED
  BY <1>3, <1>4, <1>5, <1>6

(***************************************************************************)
(* clone with CLONE_THREAD.                                                *)
(***************************************************************************)
LEMMA CloneThreadKeeps ==
    ASSUME KernelInv, NEW t \in Tid, NEW a \in Addr \cup {NoAddr},
           CloneThread(t, a)
    PROVE  KernelInv'
<1>0. PICK p, u : p = task_pid[t] /\ u = next_tid
  OBVIOUS
<1> DEFINE new == [x \in {u} |-> Runnable]
<1> USE DEF KernelInv, TreeInv
<1>1. /\ state[t] = Runnable /\ p \in Pid /\ exit_state[p] = "Running"
      /\ u \in Tid /\ u + 1 \in Tid /\ next_tid' = u + 1
  <2>1. state[t] = Runnable /\ u < MaxTid /\ next_tid' = u + 1 /\ u \in Tid
    BY Zenon, <1>0 DEF CloneThread, AtSyscall, TypeOK
  <2>2. p \in Pid /\ exit_state[p] = "Running"
    BY Zenon, <1>0, <2>1, LiveTask, KindsDiffer
  <2>3. u + 1 \in Tid
    BY <2>1, KernelConstants DEF Tid
  <2> QED BY Zenon, <2>1, <2>2, <2>3
<1>2. state[u] = Absent /\ task_pid[u] = NoPid /\ t # u
  BY <1>0, <1>1, KindsDiffer
     DEF TypeOK, IdsNotYetAllocated, TasksHaveProcesses, Tid
<1>3. {u} \in SUBSET Tid /\ new \in [{u} -> TaskState] /\ SetTaskStates(new)
  BY Zenon, <1>0, <1>1, StateValues DEF CloneThread
<1>4. \A x \in Tid : state'[x] = IF x = u THEN Runnable ELSE state[x]
  BY <1>3, SetPointwise
<1>5. /\ CopyTask(u, t, p, a, FALSE)
      /\ UNCHANGED <<next_pid, exit_state, parent, children, pgid,
                     proc_pending, sigactions>>
  BY Zenon, <1>0 DEF CloneThread, procVars, treeVars
<1>6. \A x \in Tid : task_pid'[x] = IF x = u THEN p ELSE task_pid[x]
  BY <1>5 DEF CopyTask, TypeOK
<1>7. TypeOK' /\ IndexesMatchStates'
  <2>1. StateType' /\ IndexesMatchStates'
    BY Zenon, <1>3, StateStepKeeps DEF StateStep
  <2>2. IdType' /\ TreeType' /\ ProcType'
    BY Zenon, <1>1, <1>5 DEF IdType, TreeType, ProcType, TypeOK
  <2>3. AttrType' /\ PendingType'
    BY <1>1, <1>5 DEF CopyTask, TypeOK, AttrType, PendingType
  <2> QED
    BY <2>1, <2>2, <2>3, TypePartsNext
<1>8. TasksHaveProcesses'
  <2>1. ASSUME NEW x \in Tid
        PROVE  IF state'[x] = Absent THEN task_pid'[x] = NoPid
                                     ELSE task_pid'[x] \in Pid /\ exit_state'[task_pid'[x]] # "None"
    <3>1. CASE x = u
      BY Zenon, <1>1, <1>4, <1>5, <1>6, <3>1, KindsDiffer
    <3>2. CASE x # u
      BY Zenon, <1>4, <1>5, <1>6, <3>2 DEF TasksHaveProcesses, ProcessExists
    <3> QED BY Zenon, <3>1, <3>2
  <2> QED BY Zenon, <2>1 DEF TasksHaveProcesses, ProcessExists
<1>9. ZombieIffAllTasksExited'
  <2>1. \A q \in Pid : TasksOf(q)' = IF q = p THEN TasksOf(q) \cup {u}
                                              ELSE TasksOf(q)
    <3>1. u \in Tid /\ \A q \in Pid : task_pid[u] # q
      BY Zenon, <1>1, <1>2, NoPidIsNoProcess
    <3> QED BY <1>6, <3>1 DEF TasksOf
  <2>2. \A q \in Pid : u \notin TasksOf(q)
    BY Zenon, <1>2, NoPidIsNoProcess DEF TasksOf
  <2>3. t \in TasksOf(p)
    BY <1>0 DEF TasksOf
  <2>4. \A q \in Pid : \A x \in TasksOf(q) : state'[x] = state[x]
    BY Zenon, <1>4, <2>2 DEF TasksOf
  <2>5. ASSUME NEW q \in Pid, exit_state'[q] # "None"
        PROVE  /\ TasksOf(q)' # {}
               /\ exit_state'[q] = "Exited"
                    <=> \A x \in TasksOf(q)' : state'[x] = Exited
    <3>1. /\ exit_state'[q] = exit_state[q] /\ TasksOf(q) # {}
          /\ exit_state[q] = "Exited" <=> \A x \in TasksOf(q) : state[x] = Exited
      BY Zenon, <1>5, <2>5 DEF ZombieIffAllTasksExited, ProcessExists
    <3>2. CASE q # p
      BY <2>1, <2>4, <3>1, <3>2
    <3>3. CASE q = p
      <4>1. state[t] # Exited /\ state'[t] = state[t]
        BY <1>1, <2>3, <2>4, <3>3, KindsDiffer
      <4> QED
        BY Zenon, <2>1, <2>3, <3>1, <3>3, <4>1
    <3> QED
      BY <3>2, <3>3
  <2> QED
    BY Zenon, <2>5 DEF ZombieIffAllTasksExited, ProcessExists
<1>10. ProcessTree'
  BY Zenon, <1>5 DEF ProcessTree, ProcessExists
<1>11. VforkWaitHasRunningChild'
  BY Zenon, <1>4, <1>5, <1>6, KindsDiffer DEF VforkWaitHasRunningChild, Running
<1>12. IdsNotYetAllocated'
  BY <1>0, <1>1, <1>4, <1>5 DEF IdsNotYetAllocated, Tid
<1> QED
  BY <1>7, <1>8, <1>9, <1>10, <1>11, <1>12

(***************************************************************************)
(* execve by a live task changes no process: its process was running.      *)
(***************************************************************************)
LEMMA ExecQuiet ==
    ASSUME KernelInv, NEW t \in Tid, Exec(t)
    PROVE  Quiet
<1> USE DEF KernelInv
<1>1. PICK p, S : p = task_pid[t] /\ S = {t} \cup VforkWaiters(p)
  BY Zenon
<1>2. p \in Pid /\ exit_state[p] = "Running" /\ state[t] = Runnable
  BY Zenon, <1>1, LiveTask, KindsDiffer DEF Exec
<1>3. exit_state' = exit_state
  BY <1>1, <1>2 DEF Exec, TypeOK
<1>4. S \in SUBSET Tid /\ Resume(S) \in [S -> TaskState]
  BY Zenon, <1>1, StateValues DEF VforkWaiters, TasksOf, Resume
<1>5. \A u \in S : /\ state[u] \notin {Absent, Exited}
                   /\ Resume(S)[u] \notin {Absent, Exited}
                   /\ Resume(S)[u].kind # "WaitingForVfork"
  BY Zenon, <1>1, <1>2, KindsDiffer DEF VforkWaiters, Resume
<1>6. SetTaskStates(Resume(S))
  BY Zenon, <1>1 DEF Exec
<1>7. LiveMove
  BY Zenon, <1>3, <1>4, <1>5, <1>6 DEF LiveMove, Exec, treeVars
<1>8. ProcType' /\ AttrType' /\ PendingType'
  BY DEF Exec, TypeOK, ProcType, AttrType, PendingType
<1> QED
  BY <1>7, <1>8 DEF Quiet
=============================================================================
