--------------------------- MODULE HostWorkerPool ---------------------------
(***************************************************************************)
(* HostWorkerPoolExecutor (mcr-win): a fixed set of threads, one mutex     *)
(* around the queue and its counters, and one condition variable.  A       *)
(* critical section is one action; what a thread does between two of them  *)
(* (notify_one after unlocking, running the job) is an action of its own.  *)
(*                                                                         *)
(* A job is one call of submit_result.  Callers share the executor, so any *)
(* number of calls may be between the push and their notify_one; shutdown  *)
(* and Drop own it, so none is then in a call and none comes after: the    *)
(* Shutdown error of submit cannot arise.                                  *)
(***************************************************************************)
EXTENDS Naturals, Sequences, FiniteSets

CONSTANTS
    Worker,     \* the threads of the pool, config.max_workers of them
    Job,        \* the calls of submit_result (bounds the run)
    Capacity    \* config.queue_capacity

ASSUME PoolConstants == /\ IsFiniteSet(Worker) /\ Worker # {}
                        /\ IsFiniteSet(Job)
                        /\ Capacity \in Nat \ {0}

VARIABLES
    queue, active_workers, submitted_jobs, completed_jobs, rejected_jobs,
    shutdown,    \* HostWorkerPoolExecutorInner
    thread,      \* what each worker thread is doing
    current,     \* the job a worker thread runs
    notifying,   \* the calls of submit between unlock and notify_one
    channel,     \* the sync_channel of each job
    answer,      \* what recv or recv_timeout gave the caller
    closing      \* how far new, and later shutdown_workers, have come

innerVars == <<queue, active_workers, submitted_jobs, completed_jobs,
               rejected_jobs, shutdown>>
vars == <<innerVars, thread, current, notifying, channel, answer, closing>>

NoJob == "NoJob"

In(s) == {w \in Worker : thread[w] = s}

Init ==
    /\ queue = <<>>
    /\ active_workers = 0 /\ submitted_jobs = 0
    /\ completed_jobs = 0 /\ rejected_jobs = 0
    /\ shutdown = FALSE
    /\ thread = [w \in Worker |-> "Unspawned"]
    /\ current = [w \in Worker |-> NoJob]
    /\ notifying = {}
    /\ channel = [j \in Job |-> "None"]
    /\ answer = [j \in Job |-> "None"]
    /\ closing = "Starting"
-----------------------------------------------------------------------------
(***************************************************************************)
(* new spawns the threads one by one; each starts by locking.  When a      *)
(* spawn fails new returns the error, and the threads it has spawned are   *)
(* neither told to stop nor joined.                                        *)
(***************************************************************************)
Spawn(w) ==
    /\ closing = "Starting"
    /\ thread[w] = "Unspawned"
    /\ thread' = [thread EXCEPT ![w] = "Locking"]
    /\ closing' = IF In("Unspawned") = {w} THEN "Open" ELSE closing
    /\ UNCHANGED <<innerVars, current, notifying, channel, answer>>

SpawnFails ==
    /\ closing = "Starting"
    /\ closing' = "Failed"
    /\ UNCHANGED <<innerVars, thread, current, notifying, channel, answer>>

(***************************************************************************)
(* submit, up to the unlock.  The queue is full at Capacity even while     *)
(* workers are idle: a push is only taken off by a worker that has locked. *)
(***************************************************************************)
SubmitRetried(j) ==
    /\ closing = "Open"
    /\ channel[j] \in {"None", "Rejected"}
    /\ Len(queue) < Capacity
    /\ queue' = Append(queue, j)
    /\ submitted_jobs' = submitted_jobs + 1
    /\ notifying' = notifying \cup {j}
    /\ channel' = [channel EXCEPT ![j] = "Open"]
    /\ UNCHANGED <<active_workers, completed_jobs, rejected_jobs, shutdown,
                   thread, current, answer, closing>>
Submit(j) ==
    /\ closing = "Open"
    /\ channel[j] = "None"
    /\ Len(queue) < Capacity
    /\ queue' = Append(queue, j)
    /\ submitted_jobs' = submitted_jobs + 1
    /\ notifying' = notifying \cup {j}
    /\ channel' = [channel EXCEPT ![j] = "Open"]
    /\ UNCHANGED <<active_workers, completed_jobs, rejected_jobs, shutdown,
                   thread, current, answer, closing>>

SubmitRejected(j) ==
    /\ closing = "Open"
    /\ channel[j] = "None"
    /\ Len(queue) >= Capacity
    /\ rejected_jobs' = rejected_jobs + 1
    /\ channel' = [channel EXCEPT ![j] = "Rejected"]
    /\ UNCHANGED <<queue, active_workers, submitted_jobs, completed_jobs,
                   shutdown, thread, current, notifying, answer, closing>>

(***************************************************************************)
(* notify_one wakes one thread that is waiting, if there is one.           *)
(***************************************************************************)
NotifyOneLost(j) ==
    /\ j \in notifying
    /\ notifying' = notifying \ {j}
    /\ UNCHANGED <<innerVars, thread, current, channel, answer, closing>>
NotifyOne(j) ==
    /\ j \in notifying
    /\ notifying' = notifying \ {j}
    /\ \/ In("Waiting") = {} /\ UNCHANGED thread
       \/ \E w \in In("Waiting") :
              thread' = [thread EXCEPT ![w] = "Locking"]
    /\ UNCHANGED <<innerVars, current, channel, answer, closing>>
-----------------------------------------------------------------------------
(***************************************************************************)
(* host_worker_loop.  A thread that has the lock takes the front of the    *)
(* queue, or returns after shutdown, or waits on the condition variable,   *)
(* which may also wake it without a notification.                          *)
(***************************************************************************)
TakeJob(w) ==
    /\ thread[w] = "Locking"
    /\ queue # <<>>
    /\ queue' = Tail(queue)
    /\ active_workers' = active_workers + 1
    /\ current' = [current EXCEPT ![w] = Head(queue)]
    /\ thread' = [thread EXCEPT ![w] = "Running"]
    /\ UNCHANGED <<submitted_jobs, completed_jobs, rejected_jobs, shutdown,
                   notifying, channel, answer, closing>>

WaitForJob(w) ==
    /\ thread[w] = "Locking"
    /\ queue = <<>>
    /\ ~shutdown
    /\ thread' = [thread EXCEPT ![w] = "Waiting"]
    /\ UNCHANGED <<innerVars, current, notifying, channel, answer, closing>>

Return(w) ==
    /\ thread[w] = "Locking"
    /\ queue = <<>>
    /\ shutdown
    /\ thread' = [thread EXCEPT ![w] = "Returned"]
    /\ UNCHANGED <<innerVars, current, notifying, channel, answer, closing>>

SpuriousWakeup(w) ==
    /\ thread[w] = "Waiting"
    /\ thread' = [thread EXCEPT ![w] = "Locking"]
    /\ UNCHANGED <<innerVars, current, notifying, channel, answer, closing>>

(***************************************************************************)
(* The job runs outside the lock.  It sends its value, or panics and drops *)
(* its sender, which catch_unwind keeps from ending the thread.            *)
(***************************************************************************)
RunJob(w) ==
    /\ thread[w] = "Running"
    /\ \E end \in {"Sent", "Disconnected"} :
           channel' = [channel EXCEPT ![current[w]] = end]
    /\ thread' = [thread EXCEPT ![w] = "Finishing"]
    /\ UNCHANGED <<innerVars, current, notifying, answer, closing>>

FinishJob(w) ==
    /\ thread[w] = "Finishing"
    /\ active_workers' = active_workers - 1
    /\ completed_jobs' = completed_jobs + 1
    /\ current' = [current EXCEPT ![w] = NoJob]
    /\ thread' = [thread EXCEPT ![w] = "Locking"]
    /\ UNCHANGED <<queue, submitted_jobs, rejected_jobs, shutdown,
                   notifying, channel, answer, closing>>
-----------------------------------------------------------------------------
(***************************************************************************)
(* recv and recv_timeout on the handle of j, which submit_result returns   *)
(* after notify_one; a caller may also drop the handle unread.             *)
(***************************************************************************)
HoldsHandle(j) ==
    /\ channel[j] \in {"Open", "Sent", "Disconnected"}
    /\ j \notin notifying
    /\ answer[j] = "None"

RecvValueOnly(j) ==
    /\ HoldsHandle(j)
    /\ channel[j] = "Sent"
    /\ answer' = [answer EXCEPT ![j] = "Value"]
    /\ UNCHANGED <<innerVars, thread, current, notifying, channel, closing>>
Recv(j) ==
    /\ HoldsHandle(j)
    /\ \/ channel[j] = "Sent" /\ answer' = [answer EXCEPT ![j] = "Value"]
       \/ /\ channel[j] = "Disconnected"
          /\ answer' = [answer EXCEPT ![j] = "Panicked"]
    /\ UNCHANGED <<innerVars, thread, current, notifying, channel, closing>>

RecvTimesOut(j) ==
    /\ HoldsHandle(j)
    /\ channel[j] = "Open"
    /\ answer' = [answer EXCEPT ![j] = "TimedOut"]
    /\ UNCHANGED <<innerVars, thread, current, notifying, channel, closing>>

DropHandle(j) ==
    /\ HoldsHandle(j)
    /\ answer' = [answer EXCEPT ![j] = "Dropped"]
    /\ UNCHANGED <<innerVars, thread, current, notifying, channel, closing>>

(***************************************************************************)
(* shutdown_workers: set the flag, unlock, notify_all, join every thread.  *)
(***************************************************************************)
ShutdownFlag ==
    /\ closing = "Open"
    /\ notifying = {}
    /\ shutdown' = TRUE
    /\ closing' = "Flagged"
    /\ UNCHANGED <<queue, active_workers, submitted_jobs, completed_jobs,
                   rejected_jobs, thread, current, notifying, channel,
                   answer>>

NotifyAll ==
    /\ closing = "Flagged"
    /\ thread' = [w \in Worker |-> IF thread[w] = "Waiting" THEN "Locking"
                                                           ELSE thread[w]]
    /\ closing' = "Joining"
    /\ UNCHANGED <<innerVars, current, notifying, channel, answer>>

JoinFirstThread ==
    /\ closing = "Joining"
    /\ In("Returned") # {}
    /\ closing' = "Joined"
    /\ UNCHANGED <<innerVars, thread, current, notifying, channel, answer>>
Join ==
    /\ closing = "Joining"
    /\ In("Returned") = Worker
    /\ closing' = "Joined"
    /\ UNCHANGED <<innerVars, thread, current, notifying, channel, answer>>
-----------------------------------------------------------------------------
WorkerStep(w) == TakeJob(w) \/ WaitForJob(w) \/ Return(w) \/ RunJob(w)
                     \/ FinishJob(w)

Next ==
    \/ \E w \in Worker : Spawn(w) \/ WorkerStep(w) \/ SpuriousWakeup(w)
    \/ \E j \in Job : \/ Submit(j) \/ SubmitRejected(j) \/ NotifyOne(j)
                      \/ Recv(j) \/ RecvTimesOut(j) \/ DropHandle(j)
    \/ SpawnFails \/ ShutdownFlag \/ NotifyAll \/ Join

Spec == Init /\ [][Next]_vars

(***************************************************************************)
(* A thread that can go on goes on, and so does a caller inside submit or  *)
(* shutdown_workers.  The jobs the runtime submits end: a patch scan of a  *)
(* byte range, and the wait for a send the kernel has accepted.            *)
(***************************************************************************)
FairSpec ==
    /\ Spec
    /\ \A w \in Worker : WF_vars(WorkerStep(w))
    /\ \A j \in Job : WF_vars(NotifyOne(j)) /\ WF_vars(Recv(j))
    /\ WF_vars(NotifyAll) /\ WF_vars(Join)
-----------------------------------------------------------------------------
TypeOK ==
    /\ queue \in Seq(Job)
    /\ active_workers \in Nat /\ submitted_jobs \in Nat
    /\ completed_jobs \in Nat /\ rejected_jobs \in Nat
    /\ shutdown \in BOOLEAN
    /\ thread \in [Worker -> {"Unspawned", "Locking", "Waiting", "Running",
                              "Finishing", "Returned"}]
    /\ current \in [Worker -> Job \cup {NoJob}]
    /\ notifying \in SUBSET Job
    /\ channel \in [Job -> {"None", "Rejected", "Open", "Sent",
                            "Disconnected"}]
    /\ answer \in [Job -> {"None", "Value", "Panicked", "TimedOut",
                           "Dropped"}]
    /\ closing \in {"Starting", "Failed", "Open", "Flagged", "Joining",
                    "Joined"}

(***************************************************************************)
(* The diagnostics add up at every unlock, panics included: each accepted  *)
(* job is queued, on an active worker or completed (submit, the pop in     *)
(* host_worker_loop and the update after catch_unwind).                    *)
(***************************************************************************)
JobsAddUp ==
    /\ submitted_jobs = Len(queue) + active_workers + completed_jobs
    /\ active_workers = Cardinality(In("Running") \cup In("Finishing"))

(***************************************************************************)
(* No wakeup is lost: while a worker sleeps, every queued job has an awake *)
(* worker about to lock, or a notify_one still to come.  submit notifies   *)
(* after unlocking, so another worker may take the job in between.         *)
(***************************************************************************)
NoLostWakeup ==
    In("Waiting") # {} =>
        Len(queue) <= Cardinality(In("Locking")) + Cardinality(notifying)

(***************************************************************************)
(* Shutdown drains: once shutdown_workers has joined the threads, no job   *)
(* is queued or running and every accepted job has completed, so a caller  *)
(* that still holds a handle gets an answer.                               *)
(***************************************************************************)
ShutdownDrains ==
    closing = "Joined" =>
        /\ queue = <<>> /\ active_workers = 0
        /\ completed_jobs = submitted_jobs
        /\ \A j \in Job : channel[j] # "Open"

(***************************************************************************)
(* Every caller blocked in recv is answered, whatever the other callers,   *)
(* panicking jobs and a shutdown do meanwhile.                             *)
(***************************************************************************)
AcceptedJobIsAnswered ==
    \A j \in Job : channel[j] = "Open" ~> answer[j] # "None"

(***************************************************************************)
(* The executor implements the contract of its callers, with the queue and *)
(* the workers together as the limit on unfinished jobs.                   *)
(***************************************************************************)
Status == [j \in Job |->
    CASE channel[j] = "None" -> "new"
      [] channel[j] = "Rejected" -> "rejected"
      [] channel[j] = "Open" -> "accepted"
      [] channel[j] = "Sent" -> "returned"
      [] channel[j] = "Disconnected" -> "panicked"]

Contract == INSTANCE HostWorkerPoolContract
                WITH status <- Status, open <- closing # "Joined",
                     Limit <- Capacity + Cardinality(Worker)

\* The executor implements what submit_result and shutdown promise.
ImplementsContract == Contract!Spec
=============================================================================
