------------------------- MODULE GuestKernelProofs --------------------------
(***************************************************************************)
(* Proofs about the guest kernel, for every number of pids and tids, every *)
(* set of signals and futex addresses, and every choice of system calls:   *)
(* exits and reaps keep the process tree, so KernelInv is inductive; with  *)
(* it the waits of the tasks stay right, and the invariants and action     *)
(* properties of the kernel follow.                                        *)
(***************************************************************************)
EXTENDS GuestKernelWaitProofs

-----------------------------------------------------------------------------
(***************************************************************************)
(* wait4 and resume_waiting_tasks: zombies leave the tables together with  *)
(* their tasks, taken by live tasks of their parents.                      *)
(***************************************************************************)
Reapable(reaped) ==
    /\ reaped \subseteq Pid \X Pid
    /\ \A r \in reaped : /\ exit_state[r[1]] = "Running"
                         /\ exit_state[r[2]] = "Exited"
                         /\ r[2] \in children[r[1]]

LEMMA ReapKeeps ==
    ASSUME KernelInv, NEW reaped, Reapable(reaped), NEW S \in SUBSET Tid,
           \A t \in S : state[t] \notin {Absent, Exited},
           Reap(reaped, Resume(S))
    PROVE  KernelInv'
<1> USE DEF KernelInv, TreeInv
<1>1. PICK gone, tids : /\ gone = {r[2] : r \in reaped}
                        /\ tids = {t \in Tid : task_pid[t] \in gone}
  BY Zenon
<1>a. tids = ReapedTasks(gone)
  BY <1>1 DEF ReapedTasks
<1>2. gone \in SUBSET Pid /\ \A q \in gone : exit_state[q] = "Exited"
  BY <1>1 DEF Reapable
<1>3. \A q \in gone : /\ parent[q] \in Pid /\ <<parent[q], q>> \in reaped
                      /\ exit_state[parent[q]] = "Running"
  <2>1. ASSUME NEW r \in reaped
        PROVE  /\ parent[r[2]] = r[1] /\ r[1] \in Pid
               /\ exit_state[r[1]] = "Running" /\ r = <<r[1], r[2]>>
    BY DEF Reapable, ProcessTree, ProcessExists
  <2> QED
    BY <1>1, <2>1
<1>4. \A q \in Pid, d \in gone : <<q, d>> \in reaped <=> parent[d] = q
  <2>1. ASSUME NEW q \in Pid, NEW d \in gone, <<q, d>> \in reaped
        PROVE  parent[d] = q
    BY <2>1 DEF Reapable, ProcessTree, ProcessExists
  <2> QED
    BY Zenon, <1>3, <2>1
<1>5. tids \in SUBSET Tid /\ S \cap tids = {}
  BY <1>1, <1>2, LiveTask
<1> DEFINE new == [t \in tids \cup S |->
                      IF t \in tids THEN Absent ELSE Resume(S)[t]]
<1>6. DOMAIN Resume(S) = S
  BY DEF Resume
<1>7. /\ new \in [tids \cup S -> TaskState] /\ SetTaskStates(new)
      /\ \A t \in S : new[t] = Runnable
  BY Zenon, <1>1, <1>a, <1>5, <1>6, StateValues DEF Reap, Resume
<1>8. \A t \in Tid : state'[t] = IF t \in tids THEN Absent
                                 ELSE IF t \in S THEN Runnable ELSE state[t]
  BY <1>5, <1>7, SetPointwise
<1>9. /\ exit_state' = [q \in Pid |->
            IF q \in gone THEN "None" ELSE exit_state[q]]
      /\ parent' = [q \in Pid |-> IF q \in gone THEN NoPid ELSE parent[q]]
      /\ children' = [q \in Pid |-> IF q \in gone THEN {}
                ELSE children[q] \ {d \in gone : <<q, d>> \in reaped}]
      /\ task_pid' = [t \in Tid |-> IF t \in tids THEN NoPid ELSE task_pid[t]]
      /\ UNCHANGED <<next_pid, next_tid>>
  BY <1>1, <1>a DEF Reap, idVars
<1>10. TypeOK' /\ IndexesMatchStates'
  <2>1. StateType' /\ IndexesMatchStates'
    BY <1>5, <1>7, StateStepKeeps DEF StateStep
  <2>2. IdType' /\ TreeType'
    BY <1>9 DEF TypeOK, IdType, TreeType
  <2>3. ProcType'
    <3>1. DefaultDisposition \in Disposition
      BY DEF DefaultDisposition, Disposition
    <3>2. pgid' \in [Pid -> Pid \cup {NoPid}]
      BY Zenon DEF Reap, TypeOK
    <3>3. sigactions' \in [Pid -> [Signal -> Disposition]]
      BY Zenon, <3>1 DEF Reap, TypeOK
    <3> QED
      BY <3>2, <3>3 DEF ProcType
  <2>4. AttrType' /\ PendingType'
    BY Zenon DEF Reap, TypeOK, AttrType, PendingType
  <2> QED
    BY <2>1, <2>2, <2>3, <2>4, TypePartsNext
<1> HIDE DEF new
<1>11. TasksHaveProcesses'
  <2>1. SUFFICES ASSUME NEW t \in Tid
                 PROVE  IF state'[t] = Absent THEN task_pid'[t] = NoPid
                        ELSE task_pid'[t] \in Pid
                             /\ exit_state'[task_pid'[t]] # "None"
    BY DEF TasksHaveProcesses, ProcessExists
  <2>2. CASE t \in tids
    BY <1>8, <1>9, <2>2
  <2>3. CASE t \notin tids
    <3>1. /\ task_pid'[t] = task_pid[t] /\ task_pid[t] \notin gone
          /\ state'[t] = Absent <=> state[t] = Absent
      BY Zenon, <1>1, <1>8, <1>9, <2>3, KindsDiffer
    <3>2. IF state[t] = Absent THEN task_pid[t] = NoPid
          ELSE task_pid[t] \in Pid /\ exit_state[task_pid[t]] # "None"
      BY DEF TasksHaveProcesses, ProcessExists
    <3> QED
      BY <1>9, <3>1, <3>2
  <2> QED
    BY Zenon, <2>2, <2>3
<1>12. \A q \in Pid \ gone : TasksOf(q)' = TasksOf(q)
                             /\ TasksOf(q) \cap tids = {}
  BY <1>1, <1>9 DEF TasksOf, Pid, NoPid
<1>13. ZombieIffAllTasksExited'
  <2>1. ASSUME NEW q \in Pid, exit_state'[q] # "None"
        PROVE  /\ TasksOf(q)' # {}
               /\ exit_state'[q] = "Exited"
                    <=> \A t \in TasksOf(q)' : state'[t] = Exited
    <3>1. q \notin gone /\ exit_state'[q] = exit_state[q]
      BY <1>9, <2>1
    <3>2. \A t \in TasksOf(q) : state'[t] = Exited <=> state[t] = Exited
      BY <1>8, <1>12, <3>1, KindsDiffer DEF TasksOf
    <3> QED
      BY <1>12, <2>1, <3>1, <3>2 DEF ZombieIffAllTasksExited, ProcessExists
  <2> QED
    BY <2>1 DEF ZombieIffAllTasksExited, ProcessExists
<1>14. ProcessTree'
  <2>1. ASSUME NEW q \in Pid PROVE parent'[q] < q
    BY <1>9 DEF ProcessTree, Pid, NoPid
  <2>2. ASSUME NEW q \in Pid
        PROVE  children'[q] = {d \in Pid : /\ exit_state'[q] # "None"
                                           /\ exit_state'[d] # "None"
                                           /\ parent'[d] = q}
    <3>1. children[q] = {d \in Pid : /\ exit_state[q] # "None"
                                     /\ exit_state[d] # "None"
                                     /\ parent[d] = q}
      BY DEF ProcessTree, ProcessExists
    <3>2. CASE q \in gone
      BY <1>9, <3>2
    <3>3. CASE q \notin gone
      BY <1>2, <1>4, <1>9, <3>1, <3>3 DEF Pid, NoPid
    <3> QED
      BY <3>2, <3>3
  <2> QED
    BY <2>1, <2>2 DEF ProcessTree, ProcessExists
<1>15. VforkWaitHasRunningChild'
  <2>1. SUFFICES ASSUME NEW t \in Tid, state'[t].kind = "WaitingForVfork"
                 PROVE  /\ state'[t].arg \in Pid
                        /\ exit_state'[state'[t].arg] = "Running"
                        /\ parent'[state'[t].arg] = task_pid'[t]
    BY DEF VforkWaitHasRunningChild, Running
  <2>2. state'[t] = state[t] /\ t \notin tids
    BY <1>8, <2>1, KindsDiffer
  <2>3. /\ state[t].arg \in Pid /\ exit_state[state[t].arg] = "Running"
        /\ parent[state[t].arg] = task_pid[t]
    BY <2>1, <2>2 DEF VforkWaitHasRunningChild, Running
  <2> QED
    BY <1>2, <1>9, <2>2, <2>3
<1>16. IdsNotYetAllocated'
  <2>1. \A t \in S : state[t] # Absent
    OBVIOUS
  <2> QED
    BY <1>8, <1>9, <2>1 DEF IdsNotYetAllocated
<1> QED
  BY <1>10, <1>11, <1>13, <1>14, <1>15, <1>16

LEMMA ExitedChildrenReapable ==
    ASSUME KernelInv, NEW t \in Tid, state[t] \notin {Absent, Exited},
           NEW selector, NEW c \in ExitedChildren(task_pid[t], selector)
    PROVE  /\ task_pid[t] \in Pid /\ c \in Pid
           /\ exit_state[task_pid[t]] = "Running" /\ exit_state[c] = "Exited"
           /\ c \in children[task_pid[t]]
BY LiveTask DEF KernelInv, ExitedChildren, MatchingChildren, ChildMatches,
                ProcessExists

LEMMA Wait4Reapable ==
    ASSUME KernelInv, NEW t \in Tid, state[t] \notin {Absent, Exited},
           NEW selector, NEW c \in ExitedChildren(task_pid[t], selector)
    PROVE  Reapable({<<task_pid[t], c>>})
BY ExitedChildrenReapable DEF Reapable

LEMMA Wait4Keeps ==
    ASSUME KernelInv, NEW t \in Tid, NEW s \in WaitSelectors, Wait4Reaps(t, s)
    PROVE  KernelInv'
<1>1. PICK c \in ExitedChildren(task_pid[t], s) :
        Reap({<<task_pid[t], c>>}, Resume({}))
  BY DEF Wait4Reaps
<1>2. PICK reaped : reaped = {<<task_pid[t], c>>}
  BY Zenon
<1>3. state[t] \notin {Absent, Exited}
  BY KindsDiffer DEF Wait4Reaps, AtSyscall
<1>4. Reapable(reaped)
  BY <1>2, <1>3, Wait4Reapable
<1>5. PICK S : S = {}
  BY Zenon
<1>6. Reap(reaped, Resume(S)) /\ S \in SUBSET Tid
  BY <1>1, <1>2, <1>5
<1> QED
  BY <1>4, <1>5, <1>6, ReapKeeps

(***************************************************************************)
(* What resume_waiting_tasks does: every waiter that resumes has a zombie  *)
(* of its own, among the children its call matches.                        *)
(***************************************************************************)
LEMMA ResumeWaitingReaps ==
    ASSUME KernelInv, ResumeWaitingTasks
    PROVE  \E resumed, reaped :
            /\ resumed \in SUBSET Tid
            /\ \A t \in resumed : state[t].kind = "WaitingForChild"
            /\ Reapable(reaped)
            /\ Reap(reaped, Resume(resumed))
<1> USE DEF KernelInv
<1>1. PICK got \in [ChildWaiters -> Pid \cup {NoPid}] :
        LET resumed == {w \in ChildWaiters : got[w] # NoPid}
        IN  /\ \A w \in ChildWaiters :
                IsLowest(got[w], ExitedChildren(task_pid[w], state[w].arg)
                                     \ {got[v] : v \in {u \in resumed : u < w}})
            /\ Reap({<<task_pid[w], got[w]>> : w \in resumed}, Resume(resumed))
  BY Zenon DEF ResumeWaitingTasks
<1>2. PICK resumed, reaped :
        /\ resumed = {w \in ChildWaiters : got[w] # NoPid}
        /\ reaped = {<<task_pid[w], got[w]>> : w \in resumed}
  BY Zenon
<1>3. /\ resumed \in SUBSET Tid
      /\ \A t \in resumed : state[t].kind = "WaitingForChild"
  BY Zenon, <1>2 DEF ChildWaiters, TypeOK
<1>4. ASSUME NEW w \in resumed
      PROVE  got[w] \in ExitedChildren(task_pid[w], state[w].arg)
  BY Zenon, <1>1, <1>2 DEF IsLowest, NoPid
<1>5. ASSUME NEW w \in resumed
      PROVE  /\ task_pid[w] \in Pid /\ got[w] \in Pid
             /\ exit_state[task_pid[w]] = "Running"
             /\ exit_state[got[w]] = "Exited"
             /\ got[w] \in children[task_pid[w]]
  <2>1. w \in Tid /\ state[w] \notin {Absent, Exited}
    BY Zenon, <1>3, KindsDiffer
  <2>2. PICK selector : selector = state[w].arg
    OBVIOUS
  <2> QED
    BY <1>4, <2>1, <2>2, ExitedChildrenReapable
<1>6. Reapable(reaped)
  BY <1>2, <1>5 DEF Reapable
<1>7. Reap(reaped, Resume(resumed))
  BY <1>1, <1>2
<1> QED
  BY <1>3, <1>6, <1>7

LEMMA ResumeWaitingKeeps ==
    ASSUME KernelInv, ResumeWaitingTasks
    PROVE  KernelInv'
<1>1. PICK resumed, reaped :
        /\ resumed \in SUBSET Tid
        /\ \A t \in resumed : state[t].kind = "WaitingForChild"
        /\ Reapable(reaped)
        /\ Reap(reaped, Resume(resumed))
  BY ResumeWaitingReaps
<1>2. \A t \in resumed : state[t] \notin {Absent, Exited}
  BY <1>1, KindsDiffer
<1> QED
  BY <1>1, <1>2, ReapKeeps

(***************************************************************************)
(* The end of a process: its last live tasks exit together.                *)
(***************************************************************************)
LEMMA ProcessEndKeeps ==
    ASSUME KernelInv, NEW p \in Pid, exit_state[p] = "Running",
           NEW dying \in SUBSET TasksOf(p), dying # {},
           \A t \in TasksOf(p) \ dying : state[t] = Exited,
           NEW woken \in SUBSET Tid,
           \A t \in woken : /\ state[t].kind = "WaitingForFutex"
                            /\ t \notin TasksOf(p),
           exit_state' = [exit_state EXCEPT ![p] = "Exited"],
           ExitMove(p, dying, woken),
           ProcType', AttrType', PendingType',
           UNCHANGED <<idVars, parent, children, task_pid>>
    PROVE  KernelInv'
<1> USE DEF KernelInv, TreeInv
<1>1. PICK R \in SUBSET (VforkWaiters(p) \cup woken \cup SignalWaiters(parent[p])) :
        /\ VforkWaiters(p) \cup woken \subseteq R
        /\ \E new \in [dying \cup R -> TaskState] :
            /\ SetTaskStates(new)
            /\ \A t \in R : new[t] = Runnable
            /\ \A t \in dying \ R : new[t] = Exited
  BY Zenon DEF ExitMove
<1>2. PICK new \in [dying \cup R -> TaskState] :
        /\ SetTaskStates(new)
        /\ \A t \in R : new[t] = Runnable
        /\ \A t \in dying \ R : new[t] = Exited
  BY Zenon, <1>1
<1>3. parent[p] # p
  BY DEF ProcessTree, TypeOK, Pid
<1>4. /\ R \in SUBSET Tid /\ R \cap TasksOf(p) = {}
      /\ \A t \in R : state[t] \notin {Absent, Exited}
  <2>1. \A t \in VforkWaiters(p) \cup SignalWaiters(parent[p]) :
            t \in Tid /\ task_pid[t] = parent[p]
    BY Zenon DEF VforkWaiters, SignalWaiters, TasksOf
  <2>2. \A t \in VforkWaiters(p) : state[t] \notin {Absent, Exited}
    BY Zenon, KindsDiffer DEF VforkWaiters
  <2>3. \A t \in SignalWaiters(parent[p]) : state[t] \notin {Absent, Exited}
    BY Zenon, KindsDiffer DEF SignalWaiters
  <2>4. \A t \in woken : /\ t \in Tid /\ t \notin TasksOf(p)
                          /\ state[t] \notin {Absent, Exited}
    BY Zenon, KindsDiffer
  <2>5. ASSUME NEW t \in R
        PROVE  /\ t \in Tid /\ t \notin TasksOf(p)
               /\ state[t] \notin {Absent, Exited}
    <3>1. CASE t \in woken
      BY Zenon, <2>4, <3>1
    <3>2. CASE t \in VforkWaiters(p) \cup SignalWaiters(parent[p])
      BY Zenon, <1>3, <2>1, <2>2, <2>3, <3>2 DEF TasksOf
    <3> QED
      BY Zenon, <3>1, <3>2
  <2> QED
    BY Zenon, <2>5
<1>5. \A t \in Tid :
        state'[t] = IF t \in R THEN Runnable
                    ELSE IF t \in dying THEN Exited ELSE state[t]
  BY <1>2, SetPointwise
<1>6. dying \cup R \in SUBSET Tid
  BY Zenon, <1>4 DEF TasksOf
<1>7. UNCHANGED <<next_pid, next_tid, parent, children, task_pid>>
  BY Zenon DEF idVars
<1>8. \A q \in Pid : exit_state'[q] = IF q = p THEN "Exited" ELSE exit_state[q]
  BY DEF TypeOK
<1>9. TypeOK' /\ IndexesMatchStates'
  <2>1. StateType' /\ IndexesMatchStates'
    BY <1>2, <1>6, StateStepKeeps DEF StateStep
  <2>2. IdType' /\ TreeType'
    BY <1>7 DEF TypeOK, IdType, TreeType
  <2> QED
    BY <2>1, <2>2, TypePartsNext
<1>10. \A t \in dying : state[t] # Absent
  BY DEF TasksHaveProcesses, TasksOf, Pid, NoPid
<1>11. TasksHaveProcesses'
  <2>1. ASSUME NEW t \in Tid
        PROVE  state'[t] = Absent <=> state[t] = Absent
    BY Zenon, <1>4, <1>5, <1>10, KindsDiffer
  <2>2. ASSUME NEW q \in Pid, exit_state[q] # "None"
        PROVE  exit_state'[q] # "None"
    <3>1. CASE q = p
      BY <1>8, <3>1, SMTT(30)
    <3>2. CASE q # p
      BY Zenon, <1>8, <2>2, <3>2
    <3> QED
      BY Zenon, <3>1, <3>2
  <2> QED
    BY Zenon, <1>7, <2>1, <2>2 DEF TasksHaveProcesses, ProcessExists
<1>12. \A q \in Pid : TasksOf(q)' = TasksOf(q)
  BY Zenon, <1>7 DEF TasksOf
<1>13. \A t \in TasksOf(p) : state'[t] = Exited
  BY <1>4, <1>5 DEF TasksOf
<1>14. \A t \in Tid \ TasksOf(p) : state'[t] = Exited <=> state[t] = Exited
  BY Zenon, <1>4, <1>5, KindsDiffer
<1>15. ZombieIffAllTasksExited'
  <2>1. ASSUME NEW q \in Pid, exit_state'[q] # "None"
        PROVE  /\ TasksOf(q) # {}
               /\ exit_state'[q] = "Exited"
                    <=> \A t \in TasksOf(q) : state'[t] = Exited
    <3>1. CASE q = p
      BY <1>8, <1>13, <3>1
    <3>2. CASE q # p
      <4>1. \A t \in TasksOf(q) : t \in Tid \ TasksOf(p)
        BY <3>2 DEF TasksOf
      <4> QED
        BY <1>8, <1>14, <2>1, <3>2, <4>1
           DEF ZombieIffAllTasksExited, ProcessExists
    <3> QED
      BY <3>1, <3>2
  <2> QED
    BY Zenon, <1>12, <2>1 DEF ZombieIffAllTasksExited, ProcessExists
<1>16. ProcessTree'
  BY <1>7, <1>8 DEF ProcessTree, ProcessExists
<1>17. VforkWaitHasRunningChild'
  <2>1. SUFFICES ASSUME NEW t \in Tid, state'[t].kind = "WaitingForVfork"
                 PROVE  /\ state'[t].arg \in Pid
                        /\ exit_state'[state'[t].arg] = "Running"
                        /\ parent'[state'[t].arg] = task_pid'[t]
    BY Zenon DEF VforkWaitHasRunningChild, Running
  <2>2. state'[t] = state[t] /\ t \notin R
    BY Zenon, <1>5, <2>1, KindsDiffer
  <2>3. /\ state[t].arg \in Pid /\ exit_state[state[t].arg] = "Running"
        /\ parent[state[t].arg] = task_pid[t]
    BY Zenon, <2>1, <2>2 DEF VforkWaitHasRunningChild, Running
  <2>4. state[t] = WaitingForVfork(state[t].arg)
    <3>1. PICK s : s = state[t]
      BY Zenon
    <3>2. s \in TaskState
      BY <3>1 DEF TypeOK
    <3> QED
      BY Zenon, <2>1, <2>2, <3>1, <3>2, VforkState
  <2>5. state[t].arg # p
    BY Zenon, <1>1, <2>2, <2>3, <2>4 DEF VforkWaiters, TasksOf
  <2> QED
    BY Zenon, <1>7, <1>8, <2>2, <2>3, <2>5
<1>18. IdsNotYetAllocated'
  <2>1. \A q \in Pid : q >= next_pid' => exit_state'[q] = "None"
    BY Zenon, <1>5, <1>7, <1>8, <1>10 DEF IdsNotYetAllocated
  <2>2. \A t \in Tid : t >= next_tid' => state'[t] = Absent
    BY Zenon, <1>4, <1>5, <1>7, <1>8, <1>10, KindsDiffer DEF IdsNotYetAllocated
  <2> QED BY Zenon, <2>1, <2>2 DEF IdsNotYetAllocated
<1> QED
  BY Zenon, <1>9, <1>11, <1>15, <1>16, <1>17, <1>18

LEMMA ExitGroupKeeps ==
    ASSUME KernelInv, NEW t \in Tid, ExitGroup(t) \/ DeliverFatalSignal(t)
    PROVE  KernelInv'
<1> USE DEF KernelInv
<1>1. PICK p, dying : p = task_pid[t] /\ dying = TasksOf(p)
  OBVIOUS
<1>2. PICK tp, pp, dl :
        /\ tp \in [Tid -> SUBSET Signal]
        /\ pp \in [Pid -> SUBSET Signal]
        /\ dl \in [Tid -> Signal \cup {NoSignal}]
        /\ ExitProcess(p, dying, {}, tp, pp, dl)
  <2>1. CASE ExitGroup(t)
    <3>1. PICK tp, pp, dl : /\ tp = task_pending /\ pp = proc_pending
                            /\ dl = pending_signal_delivery
      OBVIOUS
    <3> QED
      BY <1>1, <2>1, <3>1 DEF ExitGroup, TypeOK
  <2>2. CASE DeliverFatalSignal(t)
    <3>1. PICK s \in Signal :
            ExitProcess(p, dying, {}, TaskLeft(t, Unblocked(t), s),
                        ProcLeft(t, Unblocked(t), s), DeliveryLeft(t))
      BY Zenon, <1>1, <2>2 DEF DeliverFatalSignal
    <3>2. PICK m, tp, pp, dl :
            /\ m = Unblocked(t) /\ tp = TaskLeft(t, m, s)
            /\ pp = ProcLeft(t, m, s) /\ dl = DeliveryLeft(t)
      OBVIOUS
    <3> QED
      BY <3>1, <3>2, TakenType
  <2> QED
    BY Zenon, <2>1, <2>2
<1>3. /\ state[t] = Runnable
      /\ UNCHANGED <<idVars, parent, children, pgid, sigactions, attrVars>>
  BY Zenon DEF ExitGroup, DeliverFatalSignal
<1>4. p \in Pid /\ exit_state[p] = "Running"
  BY Zenon, <1>1, <1>3, LiveTask, KindsDiffer
<1>5. dying \in SUBSET TasksOf(p) /\ dying \in SUBSET Tid /\ t \in dying
  BY <1>1 DEF TasksOf
<1>6. /\ exit_state' = [exit_state EXCEPT ![p] = "Exited"]
      /\ PendingType' /\ ExitMove(p, dying, {})
  BY Zenon, <1>2, <1>4, <1>5, ExitProcessMoves
<1>7. ProcType' /\ AttrType'
  BY <1>3 DEF TypeOK, ProcType, AttrType, attrVars
<1>8. UNCHANGED <<idVars, parent, children, task_pid>>
  BY <1>3 DEF attrVars
<1>9. PICK woken : woken = {}
  BY Zenon
<1>10. /\ dying # {} /\ woken \in SUBSET Tid
       /\ \A u \in TasksOf(p) \ dying : state[u] = Exited
       /\ \A u \in woken : /\ state[u].kind = "WaitingForFutex"
                            /\ u \notin TasksOf(p)
       /\ ExitMove(p, dying, woken)
  BY Zenon, <1>1, <1>5, <1>6, <1>9
<1> QED
  BY Zenon, <1>4, <1>5, <1>6, <1>7, <1>8, <1>10, ProcessEndKeeps

LEMMA ExitTaskKeeps ==
    ASSUME KernelInv, NEW t \in Tid, NEW robust \in SUBSET Addr,
           NEW cleared \in SUBSET Addr, ExitTask(t, robust, cleared)
    PROVE  KernelInv'
<1> USE DEF KernelInv
<1>1. PICK p, woken, tp, pp, dl :
        /\ p = task_pid[t] /\ woken = ExitWoken(p, robust \cup cleared)
        /\ tp = task_pending /\ pp = proc_pending
        /\ dl = pending_signal_delivery
  OBVIOUS
<1>2. state[t] = Runnable /\ p \in Pid /\ exit_state[p] = "Running"
  BY Zenon, <1>1, LiveTask, KindsDiffer DEF ExitTask
<1>3. /\ woken \in SUBSET Tid
      /\ \A u \in woken : state[u].kind = "WaitingForFutex"
  BY Zenon, <1>1, <1>2, ExitWokenWait
<1>4. UNCHANGED <<idVars, parent, children, pgid, sigactions, task_pid>>
  BY Zenon DEF ExitTask
<1>5. ProcType' /\ AttrType'
  BY DEF ExitTask, TypeOK, ProcType, AttrType
<1>6. CASE OthersExited(t)
  <2>1. ExitProcess(p, {t}, woken, tp, pp, dl)
    BY Zenon, <1>1, <1>6 DEF ExitTask
  <2>2. /\ tp \in [Tid -> SUBSET Signal] /\ pp \in [Pid -> SUBSET Signal]
        /\ dl \in [Tid -> Signal \cup {NoSignal}]
    BY Zenon, <1>1 DEF TypeOK
  <2>3. /\ exit_state' = [exit_state EXCEPT ![p] = "Exited"]
        /\ PendingType' /\ ExitMove(p, {t}, woken)
    BY Zenon, <1>2, <1>3, <2>1, <2>2, ExitProcessMoves
  <2>4. {t} \in SUBSET TasksOf(p) /\ \A u \in TasksOf(p) \ {t} : state[u] = Exited
    BY <1>1, <1>6 DEF TasksOf, OthersExited
  <2>5. \A u \in woken : u \notin TasksOf(p)
    BY Zenon, <1>2, <1>3, <2>4, KindsDiffer
  <2> QED
    BY Zenon, <1>2, <1>3, <1>4, <1>5, <2>3, <2>4, <2>5, ProcessEndKeeps
<1>7. CASE ~OthersExited(t)
  <2> USE DEF TreeInv
  <2> DEFINE S == {t} \cup woken
             new == [u \in S |-> IF u = t THEN Exited ELSE Runnable]
  <2>1. S \in SUBSET Tid /\ new \in [S -> TaskState] /\ SetTaskStates(new)
    BY Zenon, <1>1, <1>3, <1>7, StateValues DEF ExitTask
  <2>2. \A u \in Tid : state'[u] = IF u = t THEN Exited
                                   ELSE IF u \in woken THEN Runnable
                                   ELSE state[u]
    BY <2>1, SetPointwise
  <2>3. UNCHANGED <<next_pid, next_tid, exit_state, parent, children, task_pid,
                    task_pending, proc_pending, pending_signal_delivery>>
    BY Zenon, <1>4, <1>7 DEF ExitTask, idVars
  <2>4. TypeOK' /\ IndexesMatchStates'
    <3>1. StateType' /\ IndexesMatchStates'
      BY Zenon, <2>1, StateStepKeeps DEF StateStep
    <3>2. IdType' /\ TreeType' /\ PendingType'
      BY Zenon, <2>3 DEF TypeOK, IdType, TreeType, PendingType
    <3> QED
      BY <1>5, <3>1, <3>2, TypePartsNext
  <2>5. \A u \in Tid : state'[u] = Absent <=> state[u] = Absent
    BY <1>2, <1>3, <2>2, KindsDiffer
  <2>6. \A u \in Tid \ {t} : state'[u] = Exited <=> state[u] = Exited
    BY Zenon, <1>3, <2>2, KindsDiffer
  <2>7. TasksHaveProcesses'
    BY <2>3, <2>5 DEF TasksHaveProcesses, ProcessExists
  <2>8. \A q \in Pid : TasksOf(q)' = TasksOf(q)
    BY <2>3 DEF TasksOf
  <2>9. \E u \in TasksOf(p) \ {t} : state[u] # Exited
    BY Zenon, <1>1, <1>7 DEF OthersExited
  <2>10. ZombieIffAllTasksExited'
    <3>1. ASSUME NEW q \in Pid, exit_state[q] # "None"
          PROVE  exit_state[q] = "Exited"
                    <=> \A u \in TasksOf(q) : state'[u] = Exited
      <4>1. CASE q = p
        BY Zenon, <1>2, <2>6, <2>9, <4>1 DEF TasksOf
      <4>2. CASE q # p
        BY <1>1, <2>6, <3>1, <4>2
           DEF TasksOf, ZombieIffAllTasksExited, ProcessExists
      <4> QED
        BY <4>1, <4>2
    <3> QED
      BY <2>3, <2>8, <3>1 DEF ZombieIffAllTasksExited, ProcessExists
  <2>11. ProcessTree'
    BY <2>3 DEF ProcessTree, ProcessExists
  <2>12. VforkWaitHasRunningChild'
    BY Zenon, <2>2, <2>3, KindsDiffer DEF VforkWaitHasRunningChild, Running
  <2>13. IdsNotYetAllocated'
    BY <2>3, <2>5 DEF IdsNotYetAllocated
  <2> QED
    BY <2>4, <2>7, <2>10, <2>11, <2>12, <2>13
<1> QED
  BY <1>6, <1>7
-----------------------------------------------------------------------------
LEMMA InitKernelInv == Init => KernelInv
<1> SUFFICES ASSUME Init PROVE KernelInv
  OBVIOUS
<1> USE KernelConstants, KindsDiffer DEF Init
<1>1. 1 \in Pid /\ 2 \in Pid /\ 1 \in Tid /\ 2 \in Tid
  BY DEF Pid, Tid
<1>2. IdType /\ TreeType
  BY <1>1 DEF IdType, TreeType
<1>3. ProcType /\ AttrType /\ PendingType
  <2>1. DefaultDisposition \in Disposition
    BY DEF DefaultDisposition, Disposition
  <2> QED
    BY Zenon, <1>1, <2>1 DEF ProcType, AttrType, PendingType
<1>4. StateType
  BY Zenon, <1>1, StateValues DEF StateType
<1>5. IndexesMatchStates
  BY Zenon, <1>1 DEF IndexesMatchStates
<1>6. TasksHaveProcesses /\ VforkWaitHasRunningChild /\ IdsNotYetAllocated
  BY <1>1 DEF TasksHaveProcesses, VforkWaitHasRunningChild, ProcessExists,
              IdsNotYetAllocated, Pid, Tid
<1>7. ZombieIffAllTasksExited
  BY Zenon, <1>1 DEF ZombieIffAllTasksExited, ProcessExists, TasksOf
<1>8. ProcessTree
  BY <1>1 DEF ProcessTree, ProcessExists, Pid, NoPid
<1> QED
  BY <1>2, <1>3, <1>4, <1>5, <1>6, <1>7, <1>8, TypeParts DEF KernelInv, TreeInv

LEMMA NextKernelInv == KernelInv /\ [Next]_vars => KernelInv'
<1> SUFFICES ASSUME KernelInv, [Next]_vars PROVE KernelInv'
  OBVIOUS
<1>1. TypeOK /\ IndexesMatchStates /\ TreeInv /\ TasksHaveProcesses
  BY DEF KernelInv, TreeInv
<1>2. ASSUME Quiet PROVE KernelInv'
  BY <1>1, <1>2, QuietKeeps, QuietKeepsTree DEF KernelInv
<1>3. CASE UNCHANGED vars
  <2>1. Quiet
    BY <1>1, <1>3 DEF Quiet, LiveMove, TypeOK, ProcType, AttrType, PendingType,
          vars, idVars, procVars, treeVars, taskVars, attrVars
  <2> QED
    BY Zenon, <1>2, <2>1
<1>4. CASE Structural
  BY <1>2, <1>4, ForkKeeps, ForkTidExhaustedKeeps, CloneThreadKeeps, ExecQuiet,
     ExitTaskKeeps, ExitGroupKeeps, Wait4Keeps, ResumeWaitingKeeps
     DEF Structural
<1> QED
  BY <1>1, <1>2, <1>3, <1>4, StepKinds

(***************************************************************************)
(* The kernel keeps its tables well typed, its indexes equal to the task   *)
(* states, and its process tree consistent, for every number of processes, *)
(* threads, signals and futexes.                                           *)
(***************************************************************************)
THEOREM KernelInvariant == Spec => []KernelInv
BY InitKernelInv, NextKernelInv, PTL DEF Spec

(***************************************************************************)
(* The scheduler's indexes always equal what a scan of the task table      *)
(* would find (set_task_state).                                            *)
(***************************************************************************)
THEOREM IndexesCorrect == Spec => []IndexesMatchStates
<1>1. KernelInv => IndexesMatchStates
  BY DEF KernelInv
<1> QED
  BY <1>1, KernelInvariant, PTL
-----------------------------------------------------------------------------
(***************************************************************************)
(* Reaped tasks had exited, and leave the table with their signals.        *)
(***************************************************************************)
LEMMA ReapFollows ==
    ASSUME KernelInv, WaitInv, NEW reaped, Reapable(reaped), NEW S \in SUBSET Tid,
           \A t \in S : state[t].kind = "WaitingForChild",
           Reap(reaped, Resume(S))
    PROVE  /\ \A t \in Tid : Follows(t) /\ Stays(t, SignalKinds)
           /\ \A t \in Tid : state[t].kind = "WaitingForChild" /\ state'[t] = Runnable => t \in S
           /\ exit_state' = [q \in Pid |-> IF q \in {r[2] : r \in reaped} THEN "None"
                                                                         ELSE exit_state[q]]
<1> USE DEF KernelInv
<1>1. PICK gone, tids : /\ gone = {r[2] : r \in reaped}
                        /\ tids = ReapedTasks(gone)
  BY Zenon
<1>2. \A q \in gone : q \in Pid /\ exit_state[q] = "Exited"
  BY Zenon, <1>1 DEF Reapable
<1>3. tids \in SUBSET Tid /\ \A t \in tids : state[t] = Exited
  <2>1. tids \in SUBSET Tid /\ \A t \in tids : task_pid[t] \in gone
    BY Zenon, <1>1 DEF ReapedTasks
  <2> QED BY Zenon, <1>2, <2>1 DEF TreeInv, ZombieIffAllTasksExited, ProcessExists, TasksOf
<1>4. S \cap tids = {}
  BY <1>3, KindsDiffer
<1>5. \A t \in Tid : state'[t] = IF t \in tids THEN Absent
                                 ELSE IF t \in S THEN Runnable ELSE state[t]
  <2>1. SetTaskStates([t \in tids \cup S |-> IF t \in tids THEN Absent ELSE Runnable])
    BY Zenon, <1>1 DEF Reap, Resume
  <2> QED BY Zenon, <2>1 DEF SetTaskStates
<1>6. \A t \in Tid :
        IF t \in tids
        THEN /\ signal_mask'[t] = {} /\ task_pending'[t] = {}
             /\ pending_signal_delivery'[t] = NoSignal
        ELSE /\ task_pid'[t] = task_pid[t]
             /\ signal_mask'[t] = signal_mask[t] /\ task_pending'[t] = task_pending[t]
             /\ pending_signal_delivery'[t] = pending_signal_delivery[t]
  BY Zenon, <1>1 DEF Reap
<1>7. \A q \in Pid : proc_pending'[q] \subseteq proc_pending[q]
  BY Zenon DEF Reap
<1>8. ASSUME NEW t \in Tid PROVE Follows(t) /\ Stays(t, SignalKinds)
  <2>1. WaitsRight(t)
    BY Zenon DEF WaitInv
  <2>2. CASE t \in tids
    <3>1. state[t] = Exited /\ state'[t] = Absent
      BY <1>3, <1>5, <2>2
    <3>2. WaitsRight(t)'
      BY Zenon, <1>6, <2>2, <3>1, KindsDiffer DEF WaitsRight, SignalKinds
    <3> QED BY <3>1, <3>2, KindsDiffer DEF Follows, Stays, LosesOnlyItsOwn
  <2>3. CASE t \in S
    <3>1. state'[t] = Runnable /\ task_pending'[t] = task_pending[t] /\ signal_mask'[t] = signal_mask[t]
      BY Zenon, <1>4, <1>5, <1>6, <2>3
    <3>2. WaitsRight(t)'
      BY Zenon, <2>1, <3>1, AwakeIsRight DEF WaitsRight
    <3> QED BY Zenon, <2>3, <3>1, <3>2, KindsDiffer DEF Follows, Stays, LosesOnlyItsOwn, SignalKinds
  <2>4. CASE t \notin tids \cup S
    <3>1. Undisturbed(t)
      BY Zenon, <1>5, <1>6, <1>7, <2>4 DEF Undisturbed
    <3> QED BY <3>1, UndisturbedFollows DEF Stays
  <2> QED BY <2>2, <2>3, <2>4
<1>9. \A t \in Tid : state[t].kind = "WaitingForChild" /\ state'[t] = Runnable => t \in S
  BY Zenon, <1>5, KindsDiffer
<1>10. exit_state' = [q \in Pid |-> IF q \in {r[2] : r \in reaped} THEN "None" ELSE exit_state[q]]
  BY DEF Reap
<1> QED BY <1>8, <1>9, <1>10

LEMMA Wait4Signals ==
    ASSUME KernelInv, WaitInv, NEW t \in Tid, NEW s \in WaitSelectors, Wait4Reaps(t, s)
    PROVE  Signalled
<1>1. PICK c \in ExitedChildren(task_pid[t], s) :
        Reap({<<task_pid[t], c>>}, Resume({}))
  BY DEF Wait4Reaps
<1>2. PICK reaped, S : reaped = {<<task_pid[t], c>>} /\ S = {}
  BY Zenon
<1>3. state[t] \notin {Absent, Exited}
  BY Zenon, KindsDiffer DEF Wait4Reaps, AtSyscall
<1>4. Reapable(reaped)
  BY Zenon, <1>2, <1>3, Wait4Reapable
<1>5. Reap(reaped, Resume(S)) /\ S \in SUBSET Tid /\ \A u \in S : state[u].kind = "WaitingForChild"
  BY Zenon, <1>1, <1>2
<1>6. \A u \in Tid : /\ Follows(u) /\ Stays(u, SignalKinds)
                     /\ state[u].kind = "WaitingForChild" /\ state'[u] = Runnable => u \in S
  BY Zenon, <1>4, <1>5, ReapFollows
<1>7. Calm
  BY <1>2, <1>6 DEF Calm, Stays
<1> QED BY <1>7, CalmIsSignalled

(***************************************************************************)
(* resume_waiting_tasks gives every waiter it resumes a zombie of its own. *)
(***************************************************************************)
LEMMA NobodyResumes ==
    ASSUME \A t \in Tid : Stays(t, {"WaitingForChild"})
    PROVE  EachResumedReaps
<1>1. ASSUME NEW p
      PROVE  {t \in TasksOf(p) : state[t].kind = "WaitingForChild" /\ state'[t] = Runnable} = {}
  BY Zenon DEF Stays, TasksOf
<1>2. ASSUME NEW C
      PROVE  \E own \in [{} -> C] : TRUE
  BY [t \in {} |-> t] \in [{} -> C]
<1> QED BY Zenon, <1>1, <1>2 DEF EachResumedReaps, HaveTheirOwn

LEMMA ResumeWaitingSteps ==
    ASSUME KernelInv, WaitInv, ResumeWaitingTasks
    PROVE  /\ \A t \in Tid : Follows(t)
           /\ OneSignalWakesOneWaiter /\ EachResumedReaps
<1> USE DEF KernelInv
<1>1. PICK got \in [ChildWaiters -> Pid \cup {NoPid}] :
        LET resumed == {w \in ChildWaiters : got[w] # NoPid}
        IN  /\ \A w \in ChildWaiters :
                IsLowest(got[w], ExitedChildren(task_pid[w], state[w].arg)
                                     \ {got[v] : v \in {u \in resumed : u < w}})
            /\ Reap({<<task_pid[w], got[w]>> : w \in resumed}, Resume(resumed))
  BY Zenon DEF ResumeWaitingTasks
<1>2. PICK resumed, reaped :
        /\ resumed = {w \in ChildWaiters : got[w] # NoPid}
        /\ reaped = {<<task_pid[w], got[w]>> : w \in resumed}
  BY Zenon
<1>3. /\ resumed \in SUBSET Tid
      /\ \A t \in resumed : state[t].kind = "WaitingForChild"
  BY Zenon, <1>2 DEF ChildWaiters, TypeOK
<1>4. ASSUME NEW w \in resumed
      PROVE  /\ got[w] \in ExitedChildren(task_pid[w], state[w].arg)
             /\ \A v \in resumed : v < w => got[v] # got[w]
  BY Zenon, <1>1, <1>2, <1>4 DEF IsLowest, NoPid
<1>5. ASSUME NEW w \in resumed
      PROVE  /\ task_pid[w] \in Pid /\ got[w] \in Pid
             /\ exit_state[task_pid[w]] = "Running"
             /\ exit_state[got[w]] = "Exited"
             /\ got[w] \in children[task_pid[w]]
  <2>1. w \in Tid /\ state[w] \notin {Absent, Exited}
    BY Zenon, <1>3, KindsDiffer
  <2>2. PICK selector : selector = state[w].arg
    OBVIOUS
  <2> QED BY <1>4, <2>1, <2>2, ExitedChildrenReapable
<1>6. Reapable(reaped) /\ Reap(reaped, Resume(resumed))
  <2>1. Reap(reaped, Resume(resumed))
    BY Zenon, <1>1, <1>2
  <2>2. ASSUME NEW r \in reaped
        PROVE  /\ r \in Pid \X Pid /\ exit_state[r[1]] = "Running"
               /\ exit_state[r[2]] = "Exited" /\ r[2] \in children[r[1]]
    <3>1. PICK w \in resumed : r = <<task_pid[w], got[w]>>
      BY Zenon, <1>2
    <3>2. r[1] = task_pid[w] /\ r[2] = got[w]
      BY Zenon, <3>1
    <3> QED BY Zenon, <1>5, <3>1, <3>2
  <2> QED BY Zenon, <2>1, <2>2 DEF Reapable
<1>7. /\ \A t \in Tid : Follows(t) /\ Stays(t, SignalKinds)
      /\ \A t \in Tid : state[t].kind = "WaitingForChild" /\ state'[t] = Runnable => t \in resumed
      /\ exit_state' = [q \in Pid |-> IF q \in {r[2] : r \in reaped} THEN "None" ELSE exit_state[q]]
  BY Zenon, <1>3, <1>6, ReapFollows
<1>8. \A w \in resumed : exit_state'[got[w]] = "None"
  <2>1. \A w \in resumed : got[w] \in {r[2] : r \in reaped}
    <3>1. ASSUME NEW w \in resumed
          PROVE  \E r \in reaped : r[2] = got[w]
      <4>1. <<task_pid[w], got[w]>> \in reaped
        BY Zenon, <1>2, <3>1
      <4> QED BY <4>1
    <3> QED BY <3>1
  <2> QED BY Zenon, <1>5, <1>7, <2>1
<1>9. OneSignalWakesOneWaiter
  BY <1>7 DEF OneSignalWakesOneWaiter, Stays, SignalWaiters, TasksOf, SignalKinds
<1>10. ASSUME NEW p \in Pid, NEW R, NEW C,
              R = {t \in TasksOf(p) : state[t].kind = "WaitingForChild" /\ state'[t] = Runnable},
              C = {c \in children[p] : exit_state'[c] = "None"}
       PROVE  HaveTheirOwn(p, R, C)
  <2>1. \A t \in R : t \in resumed /\ t \in Tid /\ task_pid[t] = p
    BY Zenon, <1>7, <1>10 DEF TasksOf
  <2> DEFINE own == [t \in R |-> got[t]]
  <2>2. own \in [R -> C] /\ \A t \in R : own[t] = got[t]
    BY Zenon, <1>5, <1>8, <1>10, <2>1
  <2> HIDE DEF own
  <2>3. \A t \in R : own[t] \in ExitedChildren(p, state[t].arg)
    BY Zenon, <1>4, <2>1, <2>2
  <2>4. ASSUME NEW t \in R, NEW u \in R, own[t] = own[u] PROVE t = u
    <3>1. t \in Tid /\ u \in Tid /\ got[t] = got[u] /\ t \in resumed /\ u \in resumed
      BY Zenon, <2>1, <2>2, <2>4
    <3>2. ~(t < u) /\ ~(u < t)
      BY Zenon, <1>4, <3>1
    <3> QED BY Zenon, <3>1, <3>2, TidsOrdered
  <2> QED BY Zenon, <2>2, <2>3, <2>4 DEF HaveTheirOwn
<1>11. EachResumedReaps
  BY Zenon, <1>10 DEF EachResumedReaps
<1> QED BY Zenon, <1>7, <1>9, <1>11

-----------------------------------------------------------------------------
LEMMA InitWaitInv == Init => WaitInv
<1> SUFFICES ASSUME Init, NEW t \in Tid PROVE WaitsRight(t)
  BY Zenon DEF WaitInv
<1>1. /\ signal_mask[t] = {} /\ task_pending[t] = {} /\ pending_signal_delivery[t] = NoSignal
      /\ state[t] = IF t = 1 THEN Runnable ELSE Absent
  BY DEF Init
<1>2. state[t].kind \in {"Runnable", "Absent"}
  BY Zenon, <1>1, KindsDiffer
<1> QED BY Zenon, <1>1, <1>2 DEF WaitsRight, SignalKinds

\* what every step does to the tasks, their signals and their waits
StepRight ==
    /\ \A t \in Tid : Follows(t)
    /\ OneSignalWakesOneWaiter
    /\ EachResumedReaps

LEMMA NextStepRight ==
    ASSUME KernelInv, WaitInv, [Next]_vars
    PROVE  StepRight
<1>1. ASSUME Signalled PROVE StepRight
  BY <1>1, NobodyResumes DEF Signalled, StepRight
<1>2. ASSUME Calm PROVE StepRight
  BY <1>1, <1>2, CalmIsSignalled
<1>3. ASSUME UNCHANGED <<task_pid, signal_mask, task_pending, pending_signal_delivery,
                         state, proc_pending>>
      PROVE  StepRight
  BY <1>2, <1>3, OtherCallsCalm
<1>4. CASE UNCHANGED vars
  BY <1>3, <1>4 DEF vars, procVars, taskVars, attrVars, stateVars
<1>5. ASSUME NEW t \in Tid, Syscall(t) PROVE StepRight
  <2>1. CASE \/ \E p, group \in Pid : Setpgid(t, p, group)
             \/ Setsid(t)
             \/ \E a \in Addr \cup {NoAddr} : SetTidAddress(t, a)
             \/ \E set \in BOOLEAN : SetRobustList(t, set)
             \/ ForkTidExhausted(t)
    BY Zenon, <1>3, <2>1 DEF Setpgid, Setsid, SetTidAddress, SetRobustList, ForkTidExhausted,
                      procVars, taskVars, attrVars, stateVars
  <2> QED BY Zenon, <1>1, <1>2, <1>5, <2>1, SignalCallsCalm, BlockingCallsCalm, WakingStepsCalm,
             RequeueCalm, CreateCalm, KillSignals, TkillSignals, ExitTaskSignals,
             ExitGroupSignals, Wait4Signals
          DEF Syscall, SyscallOf
<1>6. ASSUME NEW t \in Tid, Scheduler(t) PROVE StepRight
  BY <1>1, <1>2, <1>6, SignalCallsCalm, WakingStepsCalm, ExitGroupSignals DEF Scheduler
<1>7. ASSUME ResumeFdWaiters PROVE StepRight
  <2>1. 1 \in Tid
    BY KernelConstants DEF Tid
  <2> QED BY <1>2, <1>7, <2>1, WakingStepsCalm
<1>8. ASSUME ResumeWaitingTasks PROVE StepRight
  BY <1>8, ResumeWaitingSteps DEF StepRight
<1> QED BY <1>4, <1>5, <1>6, <1>7, <1>8 DEF Next

LEMMA NextWaitInv ==
    ASSUME KernelInv, WaitInv, [Next]_vars
    PROVE  WaitInv'
BY NextStepRight DEF StepRight, Follows, WaitInv

(***************************************************************************)
(* The waits of tasks and the masks that guard them, for every number of   *)
(* threads and every set of signals and futexes.                           *)
(***************************************************************************)
THEOREM WaitInvariant == Spec => [](KernelInv /\ WaitInv)
<1>1. Init => KernelInv /\ WaitInv
  BY InitKernelInv, InitWaitInv
<1>2. KernelInv /\ WaitInv /\ [Next]_vars => KernelInv' /\ WaitInv'
  BY NextKernelInv, NextWaitInv
<1> QED BY <1>1, <1>2, PTL DEF Spec

(***************************************************************************)
(* A task that waits for signals has none it could take, a task on a futex *)
(* has no unblocked signal of its own, and a kept signal is delivered      *)
(* before its task waits again (queue_process_signal, queue_task_signal,   *)
(* wake_signal_waiters, interrupt_futex_waiter).                           *)
(***************************************************************************)
THEOREM SignalsWake == Spec => []NoSignalIsSleptThrough
  BY WaitInvariant, WaitInvImplies, PTL

(***************************************************************************)
(* No call, signal frame or handler ever blocks SIGKILL or SIGSTOP.        *)
(***************************************************************************)
THEOREM MasksCorrect == Spec => []UnblockableNeverMasked
  BY WaitInvariant, WaitInvImplies, PTL

(***************************************************************************)
(* A private futex wait carries its own process's key, requeued or not.    *)
(***************************************************************************)
THEOREM PrivateFutexesCorrect == Spec => []PrivateFutexStaysInProcess
  BY WaitInvariant, WaitInvImplies, PTL

(***************************************************************************)
(* One call wakes at most one waiter of a process for a signal, and a      *)
(* signal sent to a thread is taken by that thread only.                   *)
(***************************************************************************)
THEOREM SignalsReach == Spec => SignalsReachTheirTarget
<1>1. KernelInv /\ WaitInv /\ [Next]_vars
        => [OneSignalWakesOneWaiter /\ ThreadSignalOnlyForTarget]_vars
  BY NextStepRight DEF StepRight, Follows, LosesOnlyItsOwn, ThreadSignalOnlyForTarget
<1> QED BY <1>1, WaitInvariant, PTL DEF Spec, SignalsReachTheirTarget

(***************************************************************************)
(* The threads that resume_waiting_tasks resumes each reap a child of      *)
(* their own.                                                              *)
(***************************************************************************)
THEOREM WaitersReapTheirOwn == Spec => EachWaiterReapsItsOwnChild
<1>1. KernelInv /\ WaitInv /\ [Next]_vars => [EachResumedReaps]_vars
  BY NextStepRight DEF StepRight
<1> QED BY <1>1, WaitInvariant, PTL DEF Spec, EachWaiterReapsItsOwnChild

(***************************************************************************)
(* What a step does to the processes.                                      *)
(***************************************************************************)
LEMMA ReapEndsZombies ==
    ASSUME KernelInv, NEW reaped, Reapable(reaped), NEW new, Reap(reaped, new)
    PROVE  /\ OnlyZombiesAreReaped
           /\ \A p \in Pid : exit_state[p] = "Exited" => exit_state'[p] \in {"Exited", "None"}
<1> USE DEF KernelInv
<1>1. PICK gone : gone = {r[2] : r \in reaped}
  BY Zenon
<1>2. /\ exit_state' = [q \in Pid |-> IF q \in gone THEN "None" ELSE exit_state[q]]
      /\ children' = [q \in Pid |-> IF q \in gone THEN {}
                ELSE children[q] \ {d \in gone : <<q, d>> \in reaped}]
  BY <1>1 DEF Reap
<1>3. ASSUME NEW c \in gone
      PROVE  /\ c \in Pid /\ exit_state[c] = "Exited" /\ Running(parent[c])
             /\ c \in children[parent[c]] /\ <<parent[c], c>> \in reaped
  <2>1. PICK r \in reaped : r[2] = c
    BY <1>1, <1>3
  <2>2. /\ r = <<r[1], c>> /\ r[1] \in Pid /\ c \in Pid
        /\ exit_state[r[1]] = "Running" /\ exit_state[c] = "Exited" /\ c \in children[r[1]]
    BY <2>1 DEF Reapable
  <2>3. parent[c] = r[1]
    BY Zenon, <2>2 DEF TreeInv, ProcessTree
  <2> QED BY <2>2, <2>3 DEF Running
<1>4. ASSUME NEW p \in Pid, exit_state[p] # "None", exit_state'[p] = "None"
      PROVE  /\ exit_state[p] = "Exited" /\ Running(parent[p])
             /\ p \in children[parent[p]] \ children'[parent[p]]
  <2>1. p \in gone
    BY <1>2, <1>4
  <2> QED BY Zenon, <1>2, <1>3, <2>1 DEF Running
<1> QED BY Zenon, <1>2, <1>4 DEF OnlyZombiesAreReaped, ProcessExists

LEMMA NextEndsOnce ==
    ASSUME KernelInv, [Next]_vars
    PROVE  /\ OnlyZombiesAreReaped
           /\ \A p \in Pid : exit_state[p] = "Exited" => exit_state'[p] \in {"Exited", "None"}
<1> USE DEF KernelInv
<1> DEFINE Ends == /\ OnlyZombiesAreReaped
                   /\ \A p \in Pid : exit_state[p] = "Exited" => exit_state'[p] \in {"Exited", "None"}
<1>1. ASSUME \A p \in Pid : exit_state[p] # "None" =>
                exit_state'[p] = exit_state[p] \/ exit_state'[p] = "Exited"
      PROVE  Ends
  BY <1>1 DEF OnlyZombiesAreReaped, ProcessExists
<1>2. CASE UNCHANGED vars
  BY Zenon, <1>1, <1>2 DEF vars, procVars, treeVars
<1>3. CASE Quiet
  BY Zenon, <1>1, <1>3 DEF Quiet, LiveMove, treeVars
<1>4. ASSUME NEW t \in Tid, NEW vfork \in BOOLEAN, Fork(t, vfork) PROVE Ends
  <2>1. exit_state' = [exit_state EXCEPT ![next_pid] = "Running"]
    BY Zenon, <1>4 DEF Fork, InsertProcess
  <2>2. next_pid \in Pid /\ exit_state[next_pid] = "None"
    BY DEF TypeOK, TreeInv, IdsNotYetAllocated, Pid
  <2> QED BY <1>1, <2>1, <2>2 DEF TypeOK
<1>5. ASSUME NEW t \in Tid, ForkTidExhausted(t) \/ \E a \in Addr \cup {NoAddr} : CloneThread(t, a)
      PROVE  Ends
  BY Zenon, <1>1, <1>5 DEF ForkTidExhausted, CloneThread, procVars, treeVars
<1>6. ASSUME NEW t \in Tid, Exec(t) PROVE Ends
  BY Zenon, <1>1, <1>6, ExecQuiet DEF Quiet, LiveMove, treeVars
<1>7. ASSUME NEW t \in Tid, ExitGroup(t) \/ DeliverFatalSignal(t) PROVE Ends
  <2>1. PICK p : exit_state' = [exit_state EXCEPT ![p] = "Exited"]
    BY Zenon, <1>7 DEF ExitGroup, DeliverFatalSignal, ExitProcess
  <2> QED BY <1>1, <2>1 DEF TypeOK
<1>8. ASSUME NEW t \in Tid, NEW robust \in SUBSET Addr, NEW cleared \in SUBSET Addr,
             ExitTask(t, robust, cleared)
      PROVE  Ends
  <2>1. \E p : exit_state' = [exit_state EXCEPT ![p] = "Exited"] \/ exit_state' = exit_state
    BY Zenon, <1>8 DEF ExitTask, ExitProcess
  <2> QED BY <1>1, <2>1 DEF TypeOK
<1>9. ASSUME NEW t \in Tid, NEW s \in WaitSelectors, Wait4Reaps(t, s) PROVE Ends
  <2>1. PICK c \in ExitedChildren(task_pid[t], s) :
          Reap({<<task_pid[t], c>>}, Resume({}))
    BY Zenon, <1>9 DEF Wait4Reaps
  <2>2. PICK reaped, new : reaped = {<<task_pid[t], c>>} /\ new = Resume({})
    BY Zenon
  <2>3. state[t] \notin {Absent, Exited}
    BY Zenon, <1>9, KindsDiffer DEF Wait4Reaps, AtSyscall
  <2>4. Reapable(reaped)
    BY Zenon, <2>2, <2>3, Wait4Reapable
  <2> QED BY <2>1, <2>2, <2>4, ReapEndsZombies
<1>10. ASSUME ResumeWaitingTasks PROVE Ends
  BY <1>10, ResumeWaitingReaps, ReapEndsZombies
<1>11. CASE Structural
  BY Zenon, <1>4, <1>5, <1>6, <1>7, <1>8, <1>9, <1>10, <1>11 DEF Structural
<1> QED BY <1>2, <1>3, <1>11, StepKinds DEF TreeInv

(***************************************************************************)
(* A task or a process that has exited never runs again, and a process     *)
(* leaves the table only as a zombie taken by its running parent.          *)
(***************************************************************************)
THEOREM LivesEnd == Spec => LivesEndOnce
<1>1. KernelInv /\ WaitInv /\ [Next]_vars => [OnlyZombiesAreReaped /\ DeadStaysDead]_vars
  BY Zenon, NextEndsOnce, NextStepRight DEF StepRight, Follows, DeadStaysDead
<1> QED BY <1>1, WaitInvariant, PTL DEF Spec, LivesEndOnce
=============================================================================
