------------------------------- MODULE RunLoop -------------------------------
(***************************************************************************)
(* The scheduler of run_guest_until_exit_loop (mcr-runtime/src/runtime.rs) *)
(* with what it waits for: futex deadlines, sleeps and fd readiness.       *)
(*                                                                         *)
(* The loop is one host thread.  It enters the scheduler, which resumes    *)
(* the waiters that can go on and fixes the order of the next pass, and    *)
(* then lets each task of the pass run up to one system call.  A guest     *)
(* that never makes a system call keeps the thread: that is left out.      *)
(* Waits for children and signals are in GuestKernel.                      *)
(***************************************************************************)
EXTENDS Naturals, Sequences, Functions

CONSTANTS NumTasks,      \* tasks, the first is the initial one
          Words,         \* guest words used as futexes
          ExitWord,      \* the word an exiting task clears and wakes
          YieldCredit, YieldLimit,   \* request_scheduler_yield: 4 and 8 in the code
          MaxTime,
          Scenarios

ASSUME RunLoopAssumption ==
  NumTasks \in Nat \ {0} /\ ExitWord \in Words
  /\ YieldCredit \in Nat \ {0} /\ YieldLimit \in Nat /\ YieldCredit <= YieldLimit
  /\ MaxTime \in Nat
  /\ \A s \in Scenarios : s.started \in Nat /\ s.timeout \in Nat

VARIABLES
  task,             \* what each task does or waits for
  word,             \* value of the futex words
  futexTimeouts,    \* tid -> deadline
  sleepTimeouts,    \* tid -> deadline
  budget,           \* scheduler_yield_budget
  lastTid,          \* last_dispatched_tid, 0 for none
  pass,             \* tasks still to run in this pass
  pc,               \* loop, idle (nobody can run), stuck, exited
  pending,          \* pending_fork_exec: task of the child -> process of the parent
  woken,            \* history: woken by futex_wake and not dispatched since
  now,
  scenario

loopVars == <<task, word, futexTimeouts, sleepTimeouts, budget, lastTid, pass, pc, pending, woken,
              now, scenario>>

Tids == 1 .. NumTasks

NoCall == [op |-> "none", fd |-> 0]

\* deadline is what the guest asked for, 0 for none; call is the system call a
\* task that waited for an fd executes again; file is history, what that fd named.
Task(state, key, deadline, call) ==
  [state |-> state, key |-> key, deadline |-> deadline, call |-> call, file |-> 0]
NoKey == "none"
Runnable(call) == Task("runnable", NoKey, 0, call)
Unborn == Task("unborn", NoKey, 0, NoCall)
Exited == Task("exited", NoKey, 0, NoCall)

LoopInit ==
  /\ scenario \in Scenarios
  /\ task = [t \in Tids |-> IF t <= scenario.started THEN Runnable(NoCall) ELSE Unborn]
  /\ word = [w \in Words |-> 0]
  /\ futexTimeouts = << >> /\ sleepTimeouts = << >>
  /\ budget = 0 /\ lastTid = 0 /\ pass = << >> /\ pc = "loop"
  /\ pending = << >> /\ woken = {} /\ now = 0

----------------------------------------------------------------------------
(* The order of a pass.                                                    *)

InState(tasks, state) == {t \in Tids : tasks[t].state = state}

\* The elements of seq that are in S, in their order.
OnlyIn(seq, S) ==
  LET F[i \in 0 .. Len(seq)] ==
        IF i = 0 THEN << >>
        ELSE IF seq[i] \in S THEN Append(F[i - 1], seq[i]) ELSE F[i - 1]
  IN  F[Len(seq)]

AllTids == [i \in Tids |-> i]

RunnableTids(tasks) == OnlyIn(AllTids, InState(tasks, "runnable"))

PrioritizePendingForkExec(tids) ==
  OnlyIn(tids, DOMAIN pending) \o OnlyIn(tids, Tids \ DOMAIN pending)

\* The tasks there at the start are threads of one process, the others its children.
Process(t) == IF t <= scenario.started THEN 1 ELSE t

\* sticky_scheduler_candidate: not while the task's process has a child that is
\* about to exec.
StickyCandidate(tasks) ==
  IF lastTid # 0 /\ tasks[lastTid].state = "runnable" /\ Process(lastTid) \notin Range(pending)
  THEN {lastTid} ELSE {}

ApplyStickyOrder(tids, candidate, yield) ==
  CASE candidate = {} \/ candidate \cap Range(tids) = {} \/ Len(tids) = 1 -> tids
    [] OTHER -> IF yield THEN OnlyIn(tids, Tids \ candidate) \o OnlyIn(tids, candidate)
                ELSE OnlyIn(tids, candidate)

Order(tasks, yield) ==
  IF scenario.sticky
  THEN ApplyStickyOrder(PrioritizePendingForkExec(RunnableTids(tasks)), StickyCandidate(tasks), yield)
  ELSE PrioritizePendingForkExec(RunnableTids(tasks))

\* request_scheduler_yield.
RequestYield == IF budget + YieldCredit > YieldLimit THEN YieldLimit ELSE budget + YieldCredit

----------------------------------------------------------------------------
(* Deadlines.                                                              *)

Due(timeouts, limit) == {t \in DOMAIN timeouts : timeouts[t] <= limit}
Keep(timeouts, tids) == [t \in DOMAIN timeouts \cap tids |-> timeouts[t]]
With(map, key, value) == [k \in DOMAIN map \cup {key} |-> IF k = key THEN value ELSE map[k]]
Earliest(timeouts) == CHOOSE d \in Range(timeouts) : \A e \in Range(timeouts) : d <= e

\* prune_futex_timeouts and prune_sleep_timeouts.
Prune(timeouts, tasks, state) == Keep(timeouts, InState(tasks, state))

\* timeout_futex_waiter and resume_sleep_waiter.
TimeOut(tasks, tids, state) ==
  [t \in Tids |-> IF t \in tids /\ tasks[t].state = state THEN Runnable(NoCall) ELSE tasks[t]]

ResumeFdWaiters(tasks, ready) ==
  [t \in Tids |-> IF tasks[t].state = "fd" /\ ready[t] THEN Runnable(tasks[t].call) ELSE tasks[t]]

\* initial_process_exit_status: every thread of the initial process has exited.
InitialProcessExited == \A t \in Tids : Process(t) = 1 => task[t].state = "exited"

\* One turn of the loop up to the order of the pass; ready says which fd waiters
\* can go on.
SchedulerEnter(ready) ==
  /\ pc = "loop" /\ pass = << >> /\ ~InitialProcessExited
  /\ task' = TimeOut(TimeOut(ResumeFdWaiters(task, ready), Due(futexTimeouts, now), "futex"),
                     Due(sleepTimeouts, now), "sleep")
  /\ futexTimeouts' = Prune(Keep(futexTimeouts, Tids \ Due(futexTimeouts, now)), task', "futex")
  /\ sleepTimeouts' = Prune(Keep(sleepTimeouts, Tids \ Due(sleepTimeouts, now)), task', "sleep")
  /\ budget' = IF budget = 0 THEN 0 ELSE budget - 1
  /\ pass' = Order(task', budget # 0)
  /\ pc' = IF pass' = << >> THEN "idle" ELSE "loop"
  /\ UNCHANGED <<word, lastTid, pending, woken, now, scenario>>

\* Mutant: every deadline is expired when nobody can run.
ExpireEveryFutex ==
  /\ pc = "idle" /\ Prune(futexTimeouts, task, "futex") # << >>
  /\ task' = TimeOut(task, DOMAIN futexTimeouts, "futex")
  /\ futexTimeouts' = << >>
  /\ pc' = "loop"
  /\ UNCHANGED <<word, sleepTimeouts, budget, lastTid, pass, pending, woken, now, scenario>>

\* Nobody can run: the next futex deadline is taken to have passed, ...
ExpireNextFutex ==
  /\ pc = "idle" /\ Prune(futexTimeouts, task, "futex") # << >>
  /\ LET timeouts == Prune(futexTimeouts, task, "futex")
         due == Due(timeouts, Earliest(timeouts)) IN
     /\ task' = TimeOut(task, due, "futex")
     /\ futexTimeouts' = Keep(timeouts, Tids \ due)
  /\ pc' = "loop"
  /\ UNCHANGED <<word, sleepTimeouts, budget, lastTid, pass, pending, woken, now, scenario>>

\* ... or else the next end of a sleep, ...
ExpireNextSleep ==
  /\ pc = "idle" /\ Prune(futexTimeouts, task, "futex") = << >>
  /\ Prune(sleepTimeouts, task, "sleep") # << >>
  /\ LET timeouts == Prune(sleepTimeouts, task, "sleep")
         due == Due(timeouts, Earliest(timeouts)) IN
     /\ task' = TimeOut(task, due, "sleep")
     /\ sleepTimeouts' = Keep(timeouts, Tids \ due)
  /\ futexTimeouts' = << >>
  /\ pc' = "loop"
  /\ UNCHANGED <<word, budget, lastTid, pass, pending, woken, now, scenario>>

\* Mutant: sleeping tasks do not count.
NoRunnableTasksButSleepers ==
  /\ pc = "idle"
  /\ Prune(futexTimeouts, task, "futex") = << >>
  /\ pc' = "stuck"
  /\ UNCHANGED <<task, word, futexTimeouts, sleepTimeouts, budget, lastTid, pass, pending, woken,
                 now, scenario>>

\* ... or else the run fails with NoRunnableTasks.
NoRunnableTasks ==
  /\ pc = "idle"
  /\ Prune(futexTimeouts, task, "futex") = << >> /\ Prune(sleepTimeouts, task, "sleep") = << >>
  /\ pc' = "stuck"
  /\ UNCHANGED <<task, word, futexTimeouts, sleepTimeouts, budget, lastTid, pass, pending, woken,
                 now, scenario>>

InitialExited ==
  /\ pc = "loop" /\ pass = << >> /\ InitialProcessExited
  /\ pc' = "exited"
  /\ UNCHANGED <<task, word, futexTimeouts, sleepTimeouts, budget, lastTid, pass, pending, woken,
                 now, scenario>>

----------------------------------------------------------------------------
(* What the task at the head of the pass does.                             *)

\* The task was stopped by another one of this pass.
SkipTask ==
  /\ pc = "loop" /\ pass # << >> /\ task[Head(pass)].state # "runnable"
  /\ pass' = Tail(pass)
  /\ UNCHANGED <<task, word, futexTimeouts, sleepTimeouts, budget, lastTid, pc, pending, woken,
                 now, scenario>>

\* The task t runs and makes a system call of this name.
Dispatch(t, name) ==
  /\ pc = "loop" /\ pass # << >> /\ t = Head(pass) /\ task[t].state = "runnable"
  /\ name \in scenario.calls
  /\ pass' = Tail(pass) /\ lastTid' = t
  /\ UNCHANGED <<pc, now, scenario>>

\* A child gets its own memory, or none, once it or its parent runs.
StillPending(t) == {u \in DOMAIN pending : u # t /\ pending[u] # Process(t)}

Runs(t, name) == Dispatch(t, name) /\ pending' = Keep(pending, StillPending(t))
RunsFresh(t, name) == Runs(t, name) /\ task[t].call = NoCall /\ woken' = woken \ {t}

\* A system call that changes nothing here.
Compute(t) ==
  /\ RunsFresh(t, "compute")
  /\ UNCHANGED <<task, word, futexTimeouts, sleepTimeouts, budget>>

Store(t, w) ==
  /\ RunsFresh(t, "store")
  /\ word' = [word EXCEPT ![w] = 1 - @]
  /\ UNCHANGED <<task, futexTimeouts, sleepTimeouts, budget>>

\* futex_wait whose word has the expected value: EAGAIN otherwise.
FutexWait(t, w, value, timeout) ==
  /\ RunsFresh(t, "futex_wait") /\ word[w] = value
  /\ task' = [task EXCEPT ![t] = Task("futex", w, IF timeout = 0 THEN 0 ELSE now + timeout, NoCall)]
  /\ futexTimeouts' = IF timeout = 0 THEN Keep(futexTimeouts, Tids \ {t})
                      ELSE With(futexTimeouts, t, now + timeout)
  /\ UNCHANGED <<word, sleepTimeouts, budget>>

\* The first n waiters of w, in the order of their ids.
Waiters(w, n) ==
  LET all == OnlyIn(AllTids, {t \in InState(task, "futex") : task[t].key = w}) IN
  {all[i] : i \in 1 .. IF n < Len(all) THEN n ELSE Len(all)}

WakeAll(tids) == [t \in Tids |-> IF t \in tids THEN Runnable(NoCall) ELSE task[t]]

\* Mutant: no other task gets a turn after a wake.
FutexWakeNoYield(t, w, n) ==
  /\ Runs(t, "futex_wake") /\ task[t].call = NoCall
  /\ task' = WakeAll(Waiters(w, n))
  /\ woken' = (woken \ {t}) \cup Waiters(w, n)
  /\ futexTimeouts' = Prune(futexTimeouts, task', "futex")
  /\ UNCHANGED <<word, sleepTimeouts, budget>>

FutexWake(t, w, n) ==
  /\ Runs(t, "futex_wake") /\ task[t].call = NoCall
  /\ task' = WakeAll(Waiters(w, n))
  /\ woken' = (woken \ {t}) \cup Waiters(w, n)
  /\ budget' = IF Waiters(w, n) = {} THEN budget ELSE RequestYield
  /\ futexTimeouts' = Prune(futexTimeouts, task', "futex")
  /\ UNCHANGED <<word, sleepTimeouts>>

\* Mutant: a waiter that is moved loses its deadline.
FutexRequeueDropsDeadlines(t, w, n, v, m) ==
  /\ RunsFresh(t, "futex_requeue") /\ v # w
  /\ task' = [u \in Tids |->
       IF u \in Waiters(w, n) THEN Runnable(NoCall)
       ELSE IF u \in Waiters(w, n + m) THEN [task[u] EXCEPT !.key = v] ELSE task[u]]
  /\ futexTimeouts' = Keep(futexTimeouts, Tids \ Waiters(w, n + m))
  /\ UNCHANGED <<word, sleepTimeouts, budget>>

\* futex_requeue wakes up to n waiters of w and moves up to m others to v.
\* Unlike futex_wake it asks for no yield.
FutexRequeue(t, w, n, v, m) ==
  /\ RunsFresh(t, "futex_requeue") /\ v # w
  /\ task' = [u \in Tids |->
       IF u \in Waiters(w, n) THEN Runnable(NoCall)
       ELSE IF u \in Waiters(w, n + m) THEN [task[u] EXCEPT !.key = v] ELSE task[u]]
  /\ futexTimeouts' = Prune(futexTimeouts, task', "futex")
  /\ UNCHANGED <<word, sleepTimeouts, budget>>

Nanosleep(t, duration) ==
  /\ RunsFresh(t, "nanosleep")
  /\ task' = [task EXCEPT ![t] = Task("sleep", NoKey, now + duration, NoCall)]
  /\ sleepTimeouts' = With(sleepTimeouts, t, now + duration)
  /\ UNCHANGED <<word, futexTimeouts, budget>>

\* A signal ends the futex wait of its target; the deadline stays behind.
Tgkill(t, u) ==
  /\ RunsFresh(t, "tgkill") /\ task[u].state = "futex"
  /\ task' = [task EXCEPT ![u] = Runnable(NoCall)]
  /\ UNCHANGED <<word, futexTimeouts, sleepTimeouts, budget>>

\* fork of a child that is about to exec.
ForkExec(t, u) ==
  /\ Dispatch(t, "fork") /\ task[u] = Unborn
  /\ task' = [task EXCEPT ![u] = Runnable(NoCall)]
  /\ pending' = With(Keep(pending, StillPending(t)), u, Process(t))
  /\ woken' = woken \ {t}
  /\ UNCHANGED <<word, futexTimeouts, sleepTimeouts, budget>>

\* A signal that ends another process.
Kill(t, u) ==
  /\ Dispatch(t, "kill") /\ u > scenario.started /\ u # t /\ task[u].state \notin {"exited", "unborn"}
  /\ task' = [task EXCEPT ![u] = Exited]
  /\ pending' = Keep(pending, StillPending(t) \cap StillPending(u))
  /\ woken' = woken \ {t, u}
  /\ UNCHANGED <<word, futexTimeouts, sleepTimeouts, budget>>

\* exit clears the word the task was asked to clear and wakes its waiters.  The
\* rest of a pass is dropped when the initial process is gone.
Exit(t) ==
  /\ pc = "loop" /\ pass # << >> /\ t = Head(pass) /\ task[t] = Runnable(NoCall)
  /\ "exit" \in scenario.calls
  /\ task' = [WakeAll(Waiters(ExitWord, NumTasks)) EXCEPT ![t] = Exited]
  /\ word' = [word EXCEPT ![ExitWord] = 0]
  /\ pass' = IF \A u \in Tids : Process(u) = 1 => task'[u].state = "exited" THEN << >> ELSE Tail(pass)
  /\ lastTid' = t
  /\ pending' = Keep(pending, StillPending(t))
  /\ woken' = woken \ {t}
  /\ UNCHANGED <<futexTimeouts, sleepTimeouts, budget, pc, now, scenario>>

Tick ==
  /\ now < MaxTime /\ pc = "loop"
  /\ now' = now + 1
  /\ UNCHANGED <<task, word, futexTimeouts, sleepTimeouts, budget, lastTid, pass, pc, pending, woken,
                 scenario>>

TaskStep(t) ==
  \/ Compute(t) \/ Exit(t)
  \/ \E w \in Words :
       \/ Store(t, w)
       \/ \E value \in {0, 1}, timeout \in 0 .. scenario.timeout : FutexWait(t, w, value, timeout)
       \/ \E n \in 1 .. 2 : FutexWake(t, w, n)
       \/ \E n \in 0 .. 1, v \in Words, m \in 1 .. 2 : FutexRequeue(t, w, n, v, m)
  \/ \E duration \in 1 .. scenario.timeout : Nanosleep(t, duration)
  \/ \E u \in Tids : Tgkill(t, u) \/ ForkExec(t, u) \/ Kill(t, u)

----------------------------------------------------------------------------
(* Properties.                                                             *)

\* A task that waits with a timeout has its own deadline in the table and one that
\* waits without has none: no timeout is lost, and none left by an earlier wait
\* (one ended by a wake, a signal or an exit) ends a later one.
DeadlineOfTheWait ==
  \A t \in Tids :
    /\ task[t].state = "futex" =>
         IF task[t].deadline = 0 THEN t \notin DOMAIN futexTimeouts
         ELSE t \in DOMAIN futexTimeouts /\ futexTimeouts[t] = task[t].deadline
    /\ task[t].state = "sleep" =>
         t \in DOMAIN sleepTimeouts /\ sleepTimeouts[t] = task[t].deadline

\* The scheduler ends a wait only at its deadline, or early when no task can run
\* and no wait of the same kind has an earlier deadline.
TimeoutsAreDue ==
  [][\A t \in Tids :
       task[t].state \in {"futex", "sleep"} /\ task'[t].state = "runnable" /\ pass = << >> =>
         /\ task[t].deadline # 0
         /\ \/ task[t].deadline <= now
            \/ /\ \A u \in Tids : task[u].state # "runnable"
               /\ \A u \in Tids : task[u].state = task[t].state /\ task[u].deadline # 0
                                    => task[t].deadline <= task[u].deadline]_loopVars

\* A task woken by futex_wake runs, even when the task that woke it never blocks
\* again: the yield budget lets every runnable task into the next pass.
WokenTaskRuns ==
  \A t \in Tids : (t \in woken /\ pc = "loop") ~> (t \notin woken \/ pc # "loop")

=============================================================================
