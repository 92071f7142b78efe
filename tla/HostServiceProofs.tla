------------------------- MODULE HostServiceProofs --------------------------
(***************************************************************************)
(* Proofs about two services of the host side: the worker pool, for every  *)
(* finite set of workers and jobs and every queue capacity, and the cache  *)
(* of resolved names, for any names and configurations and any lifetime of *)
(* an answer.                                                              *)
(***************************************************************************)
EXTENDS HostWorkerPool, DnsCache, FiniteSetTheorems, SequenceTheorems, TLAPS

Busy == In("Running") \cup In("Finishing")

(***************************************************************************)
(* Where the jobs and the threads are: a job whose channel is open is in   *)
(* the queue or on a running thread, a thread returns only after shutdown  *)
(* with the queue empty, and no submission is under way by then.           *)
(***************************************************************************)
Located ==
    /\ \A j \in Job : channel[j] = "Open" =>
           \/ \E i \in 1..Len(queue) : queue[i] = j
           \/ \E w \in Worker : thread[w] = "Running" /\ current[w] = j
    /\ \A w \in Worker : thread[w] = "Running" => current[w] \in Job
    /\ \A j \in notifying : channel[j] # "None"
    /\ shutdown <=> closing \in {"Flagged", "Joining", "Joined"}
    /\ shutdown => notifying = {}
    /\ \A w \in Worker : thread[w] = "Returned" => shutdown /\ queue = <<>>
    /\ closing = "Joined" => In("Returned") = Worker

PoolInv == TypeOK /\ JobsAddUp /\ NoLostWakeup /\ Located

(***************************************************************************)
(* The sets the counters are compared with are finite.                     *)
(***************************************************************************)
LEMMA InFinite ==
    ASSUME NEW s
    PROVE  IsFiniteSet(In(s)) /\ Cardinality(In(s)) \in Nat
<1>1. In(s) \in SUBSET Worker
  BY DEF In
<1> QED BY <1>1, PoolConstants, FS_Subset, FS_CardinalityType

LEMMA BusyFinite ==
    IsFiniteSet(Busy) /\ Cardinality(Busy) \in Nat
<1>1. Busy \in SUBSET Worker
  BY DEF Busy, In
<1> QED BY <1>1, PoolConstants, FS_Subset, FS_CardinalityType

LEMMA NotifyingFinite ==
    ASSUME TypeOK
    PROVE  IsFiniteSet(notifying) /\ Cardinality(notifying) \in Nat
<1>1. notifying \in SUBSET Job
  BY DEF TypeOK
<1> QED BY <1>1, PoolConstants, FS_Subset, FS_CardinalityType

(***************************************************************************)
(* Init establishes the invariant.                                         *)
(***************************************************************************)
LEMMA InitPoolInv == Init => PoolInv
<1> SUFFICES ASSUME Init PROVE PoolInv
  OBVIOUS
<1>1. TypeOK
  <2>1. queue \in Seq(Job)
    BY DEF Init
  <2> QED BY Zenon, <2>1 DEF Init, TypeOK
<1>2. \A s : s # "Unspawned" => In(s) = {}
  BY DEF Init, In
<1>3. JobsAddUp
  BY <1>2, FS_EmptySet DEF Init, JobsAddUp
<1>4. NoLostWakeup
  BY <1>2 DEF NoLostWakeup
<1>5. Located
  BY <1>2, PoolConstants DEF Init, Located
<1> QED BY <1>1, <1>3, <1>4, <1>5 DEF PoolInv

(***************************************************************************)
(* Every step preserves the types.                                         *)
(***************************************************************************)
LEMMA NextTypeOK ==
    ASSUME PoolInv, [Next]_vars
    PROVE  TypeOK'
<1> USE DEF PoolInv, TypeOK
<1>1. ASSUME NEW w \in Worker, Spawn(w) PROVE TypeOK'
  BY <1>1 DEF Spawn, innerVars
<1>2. ASSUME NEW w \in Worker, TakeJob(w) PROVE TypeOK'
  BY <1>2 DEF TakeJob
<1>3. ASSUME NEW w \in Worker, WaitForJob(w) PROVE TypeOK'
  BY <1>3 DEF WaitForJob, innerVars
<1>4. ASSUME NEW w \in Worker, Return(w) PROVE TypeOK'
  BY <1>4 DEF Return, innerVars
<1>5. ASSUME NEW w \in Worker, SpuriousWakeup(w) PROVE TypeOK'
  BY <1>5 DEF SpuriousWakeup, innerVars
<1>6. ASSUME NEW w \in Worker, RunJob(w) PROVE TypeOK'
  BY <1>6 DEF RunJob, innerVars, Located
<1>7. ASSUME NEW w \in Worker, FinishJob(w) PROVE TypeOK'
  <2>1. w \in Busy
    BY <1>7 DEF FinishJob, Busy, In
  <2>2. Cardinality(Busy) # 0
    BY <2>1, BusyFinite, FS_EmptySet
  <2>3. active_workers - 1 \in Nat
    BY <2>2, BusyFinite DEF JobsAddUp, Busy
  <2> QED BY <1>7, <2>3 DEF FinishJob
<1>8. ASSUME NEW j \in Job, Submit(j) PROVE TypeOK'
  BY <1>8 DEF Submit
<1>9. ASSUME NEW j \in Job, SubmitRejected(j) PROVE TypeOK'
  BY <1>9 DEF SubmitRejected
<1>10. ASSUME NEW j \in Job, NotifyOne(j) PROVE TypeOK'
  BY <1>10 DEF NotifyOne, innerVars, In
<1>11. ASSUME NEW j \in Job, Recv(j) PROVE TypeOK'
  BY <1>11 DEF Recv, innerVars
<1>12. ASSUME NEW j \in Job, RecvTimesOut(j) \/ DropHandle(j) PROVE TypeOK'
  BY <1>12 DEF RecvTimesOut, DropHandle, innerVars
<1>13. CASE SpawnFails \/ ShutdownFlag \/ NotifyAll \/ Join
  BY Zenon, <1>13 DEF SpawnFails, ShutdownFlag, NotifyAll, Join, innerVars
<1>14. CASE UNCHANGED vars
  BY <1>14 DEF vars, innerVars
<1> QED BY <1>1, <1>2, <1>3, <1>4, <1>5, <1>6, <1>7, <1>8, <1>9, <1>10,
           <1>11, <1>12, <1>13, <1>14 DEF Next, WorkerStep

(***************************************************************************)
(* Every step keeps the counters in agreement with the threads: taking a   *)
(* job makes its thread busy, and finishing it makes it free again.        *)
(***************************************************************************)
LEMMA NextJobsAddUp ==
    ASSUME PoolInv, [Next]_vars
    PROVE  JobsAddUp'
<1> USE DEF PoolInv
<1>0. /\ submitted_jobs = Len(queue) + active_workers + completed_jobs
      /\ active_workers = Cardinality(Busy)
      /\ Len(queue) \in Nat
  BY DEF JobsAddUp, Busy, TypeOK
<1>1. ASSUME NEW w \in Worker, TakeJob(w) PROVE JobsAddUp'
  <2>1. Busy' = Busy \cup {w} /\ w \notin Busy
    BY <1>1 DEF TakeJob, Busy, In, TypeOK
  <2>2. Cardinality(Busy') = Cardinality(Busy) + 1
    BY <2>1, BusyFinite, FS_AddElement
  <2>3. Len(queue') = Len(queue) - 1
    BY <1>1 DEF TakeJob, TypeOK
  <2> QED BY <1>0, <1>1, <2>2, <2>3 DEF TakeJob, JobsAddUp, Busy, TypeOK
<1>2. ASSUME NEW w \in Worker, FinishJob(w) PROVE JobsAddUp'
  <2>1. Busy' = Busy \ {w} /\ w \in Busy
    BY <1>2 DEF FinishJob, Busy, In, TypeOK
  <2>2. Cardinality(Busy') = Cardinality(Busy) - 1
    BY <2>1, BusyFinite, FS_RemoveElement
  <2> QED BY <1>0, <1>2, <2>2 DEF FinishJob, JobsAddUp, Busy, TypeOK
<1>3. ASSUME NEW j \in Job, Submit(j) PROVE JobsAddUp'
  <2>1. Busy' = Busy
    BY <1>3 DEF Submit, Busy, In
  <2>2. Len(queue') = Len(queue) + 1
    BY <1>3 DEF Submit, TypeOK
  <2>3. /\ submitted_jobs' = submitted_jobs + 1
        /\ UNCHANGED <<active_workers, completed_jobs>>
    BY <1>3 DEF Submit
  <2>4. submitted_jobs' = Len(queue') + active_workers' + completed_jobs'
    BY <1>0, <2>2, <2>3 DEF TypeOK
  <2> QED BY Zenon, <1>0, <2>1, <2>3, <2>4 DEF JobsAddUp, Busy
<1>4. ASSUME UNCHANGED <<queue, active_workers, submitted_jobs,
                         completed_jobs>>,
             Busy' = Busy
      PROVE  JobsAddUp'
  BY Zenon, <1>0, <1>4 DEF JobsAddUp, Busy
<1>5. ASSUME NEW w \in Worker,
             Spawn(w) \/ WaitForJob(w) \/ Return(w) \/ SpuriousWakeup(w)
                 \/ RunJob(w)
      PROVE  JobsAddUp'
  <2>1. UNCHANGED <<queue, active_workers, submitted_jobs, completed_jobs>>
    BY <1>5 DEF Spawn, WaitForJob, Return, SpuriousWakeup, RunJob, innerVars
  <2>2. Busy' = Busy
    BY <1>5 DEF Spawn, WaitForJob, Return, SpuriousWakeup, RunJob, Busy, In,
                TypeOK
  <2> QED BY <1>4, <2>1, <2>2
<1>6. ASSUME NEW j \in Job,
             SubmitRejected(j) \/ NotifyOne(j) \/ Recv(j)
                 \/ RecvTimesOut(j) \/ DropHandle(j)
      PROVE  JobsAddUp'
  <2>1. UNCHANGED <<queue, active_workers, submitted_jobs, completed_jobs>>
    BY <1>6 DEF SubmitRejected, NotifyOne, Recv, RecvTimesOut, DropHandle,
                innerVars
  <2>2. Busy' = Busy
    BY <1>6 DEF SubmitRejected, NotifyOne, Recv, RecvTimesOut, DropHandle,
                Busy, In, TypeOK
  <2> QED BY <1>4, <2>1, <2>2
<1>7. CASE SpawnFails \/ ShutdownFlag \/ NotifyAll \/ Join \/ UNCHANGED vars
  <2>1. UNCHANGED <<queue, active_workers, submitted_jobs, completed_jobs>>
    BY <1>7 DEF SpawnFails, ShutdownFlag, NotifyAll, Join, innerVars, vars
  <2>2. Busy' = Busy
    BY <1>7 DEF SpawnFails, ShutdownFlag, NotifyAll, Join, vars, Busy, In,
                TypeOK
  <2> QED BY <1>4, <2>1, <2>2
<1> QED BY <1>1, <1>2, <1>3, <1>5, <1>6, <1>7 DEF Next, WorkerStep

(***************************************************************************)
(* Every step keeps a coming wakeup for each queued job while a thread     *)
(* sleeps.  A push adds a notify_one to come, which turns into an awake    *)
(* thread; a thread goes to sleep only when the queue is empty.            *)
(***************************************************************************)
LEMMA NextNoLostWakeup ==
    ASSUME PoolInv, [Next]_vars
    PROVE  NoLostWakeup'
<1> USE DEF PoolInv
<1> DEFINE L == Cardinality(In("Locking"))
           N == Cardinality(notifying)
<1>0. L \in Nat /\ N \in Nat /\ Len(queue) \in Nat
  BY InFinite, NotifyingFinite DEF TypeOK
<1>f. IsFiniteSet(In("Locking")) /\ IsFiniteSet(notifying)
  BY InFinite, NotifyingFinite
<1>n. L' \in Nat /\ N' \in Nat
  <2>1. In("Locking")' \in SUBSET Worker /\ notifying' \in SUBSET Job
    BY NextTypeOK DEF In, TypeOK
  <2> QED BY <2>1, PoolConstants, FS_Subset, FS_CardinalityType
<1>1. ASSUME queue' = <<>> PROVE NoLostWakeup'
  BY <1>1, <1>n DEF NoLostWakeup
<1>2. ASSUME In("Waiting")' = {} PROVE NoLostWakeup'
  BY <1>2 DEF NoLostWakeup
<1>3. ASSUME In("Waiting")' # {} => In("Waiting") # {},
             In("Waiting")' # {} => Len(queue)' - Len(queue)
                                        <= (L' + N') - (L + N),
             Len(queue)' \in Nat
      PROVE  NoLostWakeup'
  BY <1>0, <1>n, <1>3 DEF NoLostWakeup
<1>4. ASSUME NEW w \in Worker, Spawn(w) \/ SpuriousWakeup(w) \/ FinishJob(w)
      PROVE  NoLostWakeup'
  <2>1. /\ In("Locking")' = In("Locking") \cup {w}
        /\ w \notin In("Locking")
        /\ In("Waiting")' \subseteq In("Waiting")
    BY <1>4 DEF Spawn, SpuriousWakeup, FinishJob, In, TypeOK
  <2>2. UNCHANGED <<queue, notifying>>
    BY <1>4 DEF Spawn, SpuriousWakeup, FinishJob, innerVars
  <2>3. L' = L + 1 /\ N' = N
    BY <2>1, <2>2, <1>f, FS_AddElement
  <2> QED BY <1>0, <1>3, <2>1, <2>2, <2>3
<1>5. ASSUME NEW w \in Worker, TakeJob(w) PROVE NoLostWakeup'
  <2>1. /\ In("Locking")' = In("Locking") \ {w}
        /\ w \in In("Locking")
        /\ In("Waiting")' = In("Waiting")
    BY <1>5 DEF TakeJob, In, TypeOK
  <2>2. Len(queue)' = Len(queue) - 1 /\ Len(queue)' \in Nat
    BY <1>5 DEF TakeJob, TypeOK
  <2>3. L' = L - 1 /\ N' = N
    BY <1>5, <2>1, <1>f, FS_RemoveElement DEF TakeJob
  <2> QED BY <1>0, <1>3, <2>1, <2>2, <2>3
<1>6. ASSUME NEW w \in Worker, WaitForJob(w) \/ Return(w)
      PROVE  NoLostWakeup'
  BY <1>1, <1>6 DEF WaitForJob, Return, innerVars
<1>7. ASSUME NEW j \in Job, Submit(j) PROVE NoLostWakeup'
  <2>1. In("Locking")' = In("Locking") /\ In("Waiting")' = In("Waiting")
    BY <1>7 DEF Submit, In
  <2>2. Len(queue)' = Len(queue) + 1 /\ Len(queue)' \in Nat
    BY <1>7 DEF Submit, TypeOK
  <2>3. j \notin notifying
    BY <1>7 DEF Submit, Located
  <2>4. L' = L /\ N' = N + 1
    BY Zenon, <1>7, <1>f, <2>1, <2>3, FS_AddElement DEF Submit
  <2> QED BY <1>0, <1>3, <2>1, <2>2, <2>4
<1>8. ASSUME NEW j \in Job, NotifyOne(j) PROVE NoLostWakeup'
  <2>1. CASE In("Waiting") = {} /\ UNCHANGED thread
    BY <1>2, <2>1 DEF In
  <2>2. ASSUME NEW w \in In("Waiting"),
               thread' = [thread EXCEPT ![w] = "Locking"]
        PROVE  NoLostWakeup'
    <3>1. /\ In("Locking")' = In("Locking") \cup {w}
          /\ w \notin In("Locking")
          /\ In("Waiting")' \subseteq In("Waiting")
      BY <2>2 DEF In, TypeOK
    <3>2. L' = L + 1
      BY <3>1, <1>f, FS_AddElement
    <3>3. N' = N - 1
      BY Zenon, <1>8, <1>f, FS_RemoveElement DEF NotifyOne
    <3>4. UNCHANGED queue
      BY <1>8 DEF NotifyOne, innerVars
    <3> QED BY <1>0, <1>3, <3>1, <3>2, <3>3, <3>4
  <2> QED BY <1>8, <2>1, <2>2 DEF NotifyOne
<1>9. CASE NotifyAll
  BY <1>2, <1>9 DEF NotifyAll, In, TypeOK
<1>10. ASSUME UNCHANGED <<queue, notifying>>,
              In("Locking")' = In("Locking"),
              In("Waiting")' = In("Waiting")
       PROVE  NoLostWakeup'
  BY <1>10 DEF NoLostWakeup
<1>11. ASSUME NEW w \in Worker, RunJob(w) PROVE NoLostWakeup'
  BY <1>10, <1>11 DEF RunJob, In, innerVars, TypeOK
<1>12. ASSUME NEW j \in Job, SubmitRejected(j) \/ Recv(j)
                                 \/ RecvTimesOut(j) \/ DropHandle(j)
       PROVE  NoLostWakeup'
  BY <1>10, <1>12 DEF SubmitRejected, Recv, RecvTimesOut, DropHandle, In,
                      innerVars
<1>13. CASE SpawnFails \/ ShutdownFlag \/ Join \/ UNCHANGED vars
  BY <1>10, <1>13 DEF SpawnFails, ShutdownFlag, Join, In, innerVars, vars
<1> QED BY <1>4, <1>5, <1>6, <1>7, <1>8, <1>9, <1>11, <1>12, <1>13
        DEF Next, WorkerStep

(***************************************************************************)
(* Every step keeps track of where the open jobs are.  Only TakeJob and    *)
(* Submit move one, and RunJob closes the channel of the one it ran.       *)
(***************************************************************************)
OpenJobsLocated ==
    \A j \in Job : channel[j] = "Open" =>
        \/ \E i \in 1..Len(queue) : queue[i] = j
        \/ \E w \in Worker : thread[w] = "Running" /\ current[w] = j

LEMMA NextOpenJobsLocated ==
    ASSUME PoolInv, [Next]_vars
    PROVE  OpenJobsLocated'
<1> USE DEF PoolInv, TypeOK
<1>0. OpenJobsLocated
  BY DEF Located, OpenJobsLocated
<1>1. ASSUME UNCHANGED <<queue, current>>,
             \A w \in Worker : thread[w] = "Running" => thread'[w] = "Running",
             \A j \in Job : channel'[j] = "Open" => channel[j] = "Open"
      PROVE  OpenJobsLocated'
  BY <1>0, <1>1 DEF OpenJobsLocated
<1>2. ASSUME NEW w \in Worker, TakeJob(w) PROVE OpenJobsLocated'
  <2> SUFFICES ASSUME NEW j \in Job, channel'[j] = "Open"
               PROVE  \/ \E i \in 1..Len(queue') : queue'[i] = j
                      \/ \E u \in Worker : thread'[u] = "Running"
                                             /\ current'[u] = j
    BY DEF OpenJobsLocated
  <2>1. channel[j] = "Open"
    BY <1>2 DEF TakeJob
  <2>2. ASSUME NEW i \in 1..Len(queue), queue[i] = j, i = 1
        PROVE  thread'[w] = "Running" /\ current'[w] = j
    BY <1>2, <2>2 DEF TakeJob
  <2>3. ASSUME NEW i \in 1..Len(queue), queue[i] = j, i # 1
        PROVE  i - 1 \in 1..Len(queue') /\ queue'[i - 1] = j
    BY <1>2, <2>3 DEF TakeJob
  <2>4. ASSUME NEW u \in Worker, thread[u] = "Running", current[u] = j
        PROVE  thread'[u] = "Running" /\ current'[u] = j
    BY <1>2, <2>4 DEF TakeJob
  <2> QED BY <1>0, <2>1, <2>2, <2>3, <2>4 DEF OpenJobsLocated
<1>3. ASSUME NEW j \in Job, Submit(j) PROVE OpenJobsLocated'
  <2> SUFFICES ASSUME NEW k \in Job, channel'[k] = "Open"
               PROVE  \/ \E i \in 1..Len(queue') : queue'[i] = k
                      \/ \E u \in Worker : thread'[u] = "Running"
                                             /\ current'[u] = k
    BY DEF OpenJobsLocated
  <2>1. /\ Len(queue') = Len(queue) + 1
        /\ queue'[Len(queue) + 1] = j
        /\ \A i \in 1..Len(queue) : queue'[i] = queue[i]
    BY <1>3 DEF Submit
  <2>2. CASE k = j
    BY <2>1, <2>2
  <2>3. CASE k # j
    <3>1. channel[k] = "Open"
      BY <1>3, <2>3 DEF Submit
    <3>2. UNCHANGED <<thread, current>>
      BY <1>3 DEF Submit
    <3> QED BY <1>0, <2>1, <3>1, <3>2 DEF OpenJobsLocated
  <2> QED BY <2>2, <2>3
<1>4. ASSUME NEW w \in Worker, RunJob(w) PROVE OpenJobsLocated'
  <2>1. current[w] \in Job
    BY <1>4 DEF RunJob, Located
  <2>2. /\ \A j \in Job : channel'[j] = "Open" => channel[j] = "Open"
                                                   /\ j # current[w]
        /\ \A u \in Worker : u # w => thread'[u] = thread[u]
        /\ UNCHANGED <<queue, current>>
    BY <1>4, <2>1 DEF RunJob, innerVars
  <2> QED BY <1>0, <2>2 DEF OpenJobsLocated
<1>5. ASSUME NEW w \in Worker, FinishJob(w) PROVE OpenJobsLocated'
  <2>1. /\ UNCHANGED <<queue, channel>>
        /\ thread[w] # "Running"
        /\ \A u \in Worker : u # w => /\ thread'[u] = thread[u]
                                      /\ current'[u] = current[u]
    BY <1>5 DEF FinishJob
  <2> QED BY <1>0, <2>1 DEF OpenJobsLocated
<1>6. ASSUME NEW w \in Worker,
             Spawn(w) \/ WaitForJob(w) \/ Return(w) \/ SpuriousWakeup(w)
      PROVE  OpenJobsLocated'
  BY <1>1, <1>6 DEF Spawn, WaitForJob, Return, SpuriousWakeup, innerVars
<1>7. ASSUME NEW j \in Job,
             SubmitRejected(j) \/ Recv(j) \/ RecvTimesOut(j) \/ DropHandle(j)
      PROVE  OpenJobsLocated'
  BY <1>1, <1>7 DEF SubmitRejected, Recv, RecvTimesOut, DropHandle, innerVars
<1>8. ASSUME NEW j \in Job, NotifyOne(j) PROVE OpenJobsLocated'
  <2>1. \A w \in Worker : thread[w] = "Running" => thread'[w] = "Running"
    BY <1>8 DEF NotifyOne, In
  <2> QED BY <1>1, <1>8, <2>1 DEF NotifyOne, innerVars
<1>9. CASE SpawnFails \/ ShutdownFlag \/ NotifyAll \/ Join \/ UNCHANGED vars
  BY <1>1, <1>9 DEF SpawnFails, ShutdownFlag, NotifyAll, Join, vars, innerVars
<1> QED BY <1>2, <1>3, <1>4, <1>5, <1>6, <1>7, <1>8, <1>9
        DEF Next, WorkerStep

(***************************************************************************)
(* Every step keeps the rest of Located.                                   *)
(***************************************************************************)
LEMMA NextLocated ==
    ASSUME PoolInv, [Next]_vars
    PROVE  Located'
<1> USE DEF PoolInv, TypeOK
<1> DEFINE Flag == /\ shutdown <=> closing \in {"Flagged", "Joining", "Joined"}
                   /\ shutdown => notifying = {}
           Ended == \A w \in Worker : thread[w] = "Returned" =>
                                        shutdown /\ queue = <<>>
           Joined == closing = "Joined" => In("Returned") = Worker
<1>1. \A w \in Worker : thread'[w] = "Running" => current'[w] \in Job
  <2>1. ASSUME NEW w \in Worker, TakeJob(w)
        PROVE  \A u \in Worker : thread'[u] = "Running" => current'[u] \in Job
    <3>1. Head(queue) \in Job
      BY <2>1 DEF TakeJob
    <3> QED BY <2>1, <3>1 DEF TakeJob, Located
  <2>2. ASSUME NEW w \in Worker, ~TakeJob(w),
               Spawn(w) \/ WorkerStep(w) \/ SpuriousWakeup(w)
        PROVE  \A u \in Worker : thread'[u] = "Running" => current'[u] \in Job
    BY <2>2 DEF Spawn, WorkerStep, SpuriousWakeup, WaitForJob, Return, RunJob,
                FinishJob, Located
  <2>3. ASSUME NEW j \in Job,
               \/ Submit(j) \/ SubmitRejected(j) \/ NotifyOne(j)
               \/ Recv(j) \/ RecvTimesOut(j) \/ DropHandle(j)
        PROVE  \A u \in Worker : thread'[u] = "Running" => current'[u] \in Job
    BY <2>3 DEF Submit, SubmitRejected, NotifyOne, Recv, RecvTimesOut,
                DropHandle, Located, In
  <2>4. CASE SpawnFails \/ ShutdownFlag \/ NotifyAll \/ Join
                 \/ UNCHANGED vars
    BY <2>4 DEF SpawnFails, ShutdownFlag, NotifyAll, Join, vars, Located
  <2> QED BY <2>1, <2>2, <2>3, <2>4 DEF Next
<1>2. (\A j \in notifying : channel[j] # "None")'
  <2>1. ASSUME NEW j \in Job, Submit(j)
        PROVE  \A k \in notifying' : channel'[k] # "None"
    BY <2>1 DEF Submit, Located
  <2>2. ASSUME NEW j \in Job,
               \/ SubmitRejected(j) \/ NotifyOne(j)
               \/ Recv(j) \/ RecvTimesOut(j) \/ DropHandle(j)
        PROVE  \A k \in notifying' : channel'[k] # "None"
    BY <2>2 DEF SubmitRejected, NotifyOne, Recv, RecvTimesOut, DropHandle,
                Located
  <2>3. ASSUME NEW w \in Worker,
               Spawn(w) \/ WorkerStep(w) \/ SpuriousWakeup(w)
        PROVE  \A k \in notifying' : channel'[k] # "None"
    BY <2>3 DEF Spawn, WorkerStep, SpuriousWakeup, TakeJob, WaitForJob, Return,
                RunJob, FinishJob, Located
  <2>4. CASE SpawnFails \/ ShutdownFlag \/ NotifyAll \/ Join
                 \/ UNCHANGED vars
    BY <2>4 DEF SpawnFails, ShutdownFlag, NotifyAll, Join, vars, Located
  <2> QED BY <2>1, <2>2, <2>3, <2>4 DEF Next
<1>3. Flag'
  <2>1. ASSUME NEW j \in Job,
               \/ Submit(j) \/ SubmitRejected(j) \/ NotifyOne(j)
               \/ Recv(j) \/ RecvTimesOut(j) \/ DropHandle(j)
        PROVE  Flag'
    BY <2>1 DEF Submit, SubmitRejected, NotifyOne, Recv, RecvTimesOut,
                DropHandle, Located, innerVars
  <2>2. ASSUME NEW w \in Worker,
               Spawn(w) \/ WorkerStep(w) \/ SpuriousWakeup(w)
        PROVE  Flag'
    BY <2>2 DEF Spawn, WorkerStep, SpuriousWakeup, TakeJob, WaitForJob, Return,
                RunJob, FinishJob, Located, innerVars
  <2>3. CASE SpawnFails \/ ShutdownFlag \/ NotifyAll \/ Join
                 \/ UNCHANGED vars
    BY <2>3 DEF SpawnFails, ShutdownFlag, NotifyAll, Join, vars, Located,
                innerVars
  <2> QED BY <2>1, <2>2, <2>3 DEF Next
<1>4. Ended'
  <2>1. ASSUME NEW j \in Job,
               \/ Submit(j) \/ SubmitRejected(j) \/ NotifyOne(j)
               \/ Recv(j) \/ RecvTimesOut(j) \/ DropHandle(j)
        PROVE  Ended'
    BY <2>1 DEF Submit, SubmitRejected, NotifyOne, Recv, RecvTimesOut,
                DropHandle, Located, innerVars, In
  <2>2. ASSUME NEW w \in Worker,
               Spawn(w) \/ WorkerStep(w) \/ SpuriousWakeup(w)
        PROVE  Ended'
    BY <2>2 DEF Spawn, WorkerStep, SpuriousWakeup, TakeJob, WaitForJob, Return,
                RunJob, FinishJob, Located, innerVars
  <2>3. CASE SpawnFails \/ ShutdownFlag \/ NotifyAll \/ Join
                 \/ UNCHANGED vars
    BY <2>3 DEF SpawnFails, ShutdownFlag, NotifyAll, Join, vars, Located,
                innerVars
  <2> QED BY <2>1, <2>2, <2>3 DEF Next
<1>5. Joined'
  <2>1. ASSUME NEW j \in Job,
               \/ Submit(j) \/ SubmitRejected(j) \/ NotifyOne(j)
               \/ Recv(j) \/ RecvTimesOut(j) \/ DropHandle(j)
        PROVE  Joined'
    BY <2>1 DEF Submit, SubmitRejected, NotifyOne, Recv, RecvTimesOut,
                DropHandle, Located, In
  <2>2. ASSUME NEW w \in Worker,
               Spawn(w) \/ WorkerStep(w) \/ SpuriousWakeup(w)
        PROVE  Joined'
    BY <2>2 DEF Spawn, WorkerStep, SpuriousWakeup, TakeJob, WaitForJob, Return,
                RunJob, FinishJob, Located, In
  <2>3. CASE SpawnFails \/ ShutdownFlag \/ NotifyAll \/ Join
                 \/ UNCHANGED vars
    BY <2>3 DEF SpawnFails, ShutdownFlag, NotifyAll, Join, vars, Located, In
  <2> QED BY <2>1, <2>2, <2>3 DEF Next
<1> QED BY <1>1, <1>2, <1>3, <1>4, <1>5, NextOpenJobsLocated
        DEF Located, OpenJobsLocated

(***************************************************************************)
(* The counters and the wakeups of the executor hold in every reachable    *)
(* state, for every number of workers, jobs and queue slots.               *)
(***************************************************************************)
THEOREM PoolInvariant == Spec => []PoolInv
<1>1. PoolInv /\ [Next]_vars => PoolInv'
  BY NextTypeOK, NextJobsAddUp, NextNoLostWakeup, NextLocated DEF PoolInv
<1> QED BY InitPoolInv, <1>1, PTL DEF Spec

(***************************************************************************)
(* No wakeup is lost (NoLostWakeup), and the diagnostics of submit and     *)
(* host_worker_loop always add up (JobsAddUp).                             *)
(***************************************************************************)
THEOREM PoolCorrect == Spec => [](JobsAddUp /\ NoLostWakeup)
BY PoolInvariant, PTL DEF PoolInv

(***************************************************************************)
(* shutdown_workers drains the queue and the running jobs before it        *)
(* returns (ShutdownDrains).                                               *)
(***************************************************************************)
THEOREM PoolShutdown == Spec => []ShutdownDrains
<1>1. PoolInv => ShutdownDrains
  <2> SUFFICES ASSUME PoolInv, closing = "Joined"
               PROVE  /\ queue = <<>> /\ active_workers = 0
                      /\ completed_jobs = submitted_jobs
                      /\ \A j \in Job : channel[j] # "Open"
    BY DEF ShutdownDrains
  <2> USE DEF PoolInv, TypeOK
  <2>1. \A w \in Worker : thread[w] = "Returned"
    BY DEF Located, In
  <2>2. queue = <<>>
    BY <2>1, PoolConstants DEF Located
  <2>3. In("Running") \cup In("Finishing") = {}
    BY <2>1 DEF In
  <2>4. active_workers = 0
    BY Zenon, <2>3, FS_EmptySet DEF JobsAddUp
  <2>5. completed_jobs = submitted_jobs
    BY <2>2, <2>4 DEF JobsAddUp
  <2>6. \A j \in Job : channel[j] # "Open"
    BY <2>1, <2>2 DEF Located
  <2> QED BY <2>2, <2>4, <2>5, <2>6
<1> QED BY <1>1, PoolInvariant, PTL
-----------------------------------------------------------------------------
(***************************************************************************)
(* An accepted job is in one place: what is queued or runs has not ended,  *)
(* the queue holds no job twice, and no two threads, nor a thread and the  *)
(* queue, have the same job.  So a job that ends had been accepted and had *)
(* not ended before.                                                       *)
(***************************************************************************)
JobsOnce ==
    /\ \A i \in 1..Len(queue) : channel[queue[i]] = "Open"
    /\ \A i, k \in 1..Len(queue) : queue[i] = queue[k] => i = k
    /\ \A w \in In("Running") : channel[current[w]] = "Open"
    /\ \A w \in In("Running") : \A i \in 1..Len(queue) : queue[i] # current[w]
    /\ \A w, u \in In("Running") : current[w] = current[u] => w = u

LEMMA NextJobsOnce ==
    ASSUME PoolInv, JobsOnce, [Next]_vars
    PROVE  JobsOnce'
<1> USE DEF PoolInv, TypeOK
<1>1. ASSUME UNCHANGED <<queue, channel, current>>, In("Running")' = In("Running")
      PROVE  JobsOnce'
  BY <1>1 DEF JobsOnce
<1>2. ASSUME NEW w \in Worker,
             Spawn(w) \/ WaitForJob(w) \/ Return(w) \/ SpuriousWakeup(w)
      PROVE  JobsOnce'
  BY <1>1, <1>2 DEF Spawn, WaitForJob, Return, SpuriousWakeup, innerVars, In
<1>3. ASSUME NEW j \in Job, NotifyOne(j) \/ Recv(j) \/ RecvTimesOut(j) \/ DropHandle(j)
      PROVE  JobsOnce'
  BY <1>1, <1>3 DEF NotifyOne, Recv, RecvTimesOut, DropHandle, innerVars, In
<1>4. CASE SpawnFails \/ ShutdownFlag \/ NotifyAll \/ Join \/ UNCHANGED vars
  BY <1>1, <1>4 DEF SpawnFails, ShutdownFlag, NotifyAll, Join, vars, innerVars, In
<1>5. ASSUME NEW j \in Job, Submit(j) PROVE JobsOnce'
  <2>1. /\ Len(queue') = Len(queue) + 1
        /\ queue'[Len(queue) + 1] = j
        /\ \A i \in 1..Len(queue) : queue'[i] = queue[i]
        /\ Len(queue) \in Nat
    BY <1>5 DEF Submit
  <2>2. \A i \in 1..Len(queue) : queue[i] # j
    BY <1>5 DEF Submit, JobsOnce
  <2>3. \A w \in In("Running") : current[w] # j
    BY <1>5 DEF Submit, JobsOnce
  <2>4. /\ In("Running")' = In("Running") /\ UNCHANGED current
        /\ \A k \in Job : channel'[k] = IF k = j THEN "Open" ELSE channel[k]
    BY <1>5 DEF Submit, In
  <2>5. \A i \in 1..Len(queue) : queue[i] \in Job
    OBVIOUS
  <2>6. \A w \in In("Running") : current[w] \in Job
    BY DEF Located, In
  <2> QED BY <2>1, <2>2, <2>3, <2>4, <2>5, <2>6 DEF JobsOnce
<1>6. ASSUME NEW j \in Job, SubmitRejected(j) PROVE JobsOnce'
  <2>1. /\ In("Running")' = In("Running") /\ UNCHANGED <<queue, current>>
        /\ \A k \in Job \ {j} : channel'[k] = channel[k]
        /\ channel[j] # "Open"
    BY <1>6 DEF SubmitRejected, In
  <2>2. \A i \in 1..Len(queue) : queue[i] \in Job
    OBVIOUS
  <2>3. \A w \in In("Running") : current[w] \in Job
    BY DEF Located, In
  <2> QED BY <2>1, <2>2, <2>3 DEF JobsOnce
<1>7. ASSUME NEW w \in Worker, TakeJob(w) PROVE JobsOnce'
  <2>1. /\ Len(queue) \in Nat \ {0} /\ Len(queue') = Len(queue) - 1
        /\ \A i \in 1..Len(queue') : i + 1 \in 1..Len(queue) /\ queue'[i] = queue[i + 1]
        /\ 1 \in 1..Len(queue)
    BY <1>7 DEF TakeJob
  <2>2. /\ \A u \in In("Running")' : /\ u = w => current'[u] = queue[1]
                                     /\ u # w => u \in In("Running") /\ current'[u] = current[u]
        /\ UNCHANGED channel
    BY <1>7 DEF TakeJob, In
  <2>3. ASSUME NEW i \in 1..Len(queue')
        PROVE  /\ channel'[queue'[i]] = "Open" /\ queue'[i] # queue[1]
               /\ \A u \in In("Running") : queue'[i] # current[u]
    <3>1. i + 1 # 1 /\ i + 1 \in 1..Len(queue) /\ queue'[i] = queue[i + 1]
      BY <2>1
    <3> QED BY <2>1, <2>2, <3>1 DEF JobsOnce
  <2>4. ASSUME NEW i \in 1..Len(queue'), NEW k \in 1..Len(queue'), queue'[i] = queue'[k]
        PROVE  i = k
    <3>1. i + 1 = k + 1
      BY <2>1, <2>4 DEF JobsOnce
    <3> QED BY <2>1, <3>1
  <2>5. ASSUME NEW u \in In("Running")'
        PROVE  /\ channel'[current'[u]] = "Open"
               /\ \A i \in 1..Len(queue') : queue'[i] # current'[u]
    BY <2>1, <2>2, <2>3 DEF JobsOnce
  <2>6. ASSUME NEW u \in In("Running")', NEW v \in In("Running")', current'[u] = current'[v]
        PROVE  u = v
    BY <2>1, <2>2, <2>6 DEF JobsOnce
  <2> QED BY <2>3, <2>4, <2>5, <2>6 DEF JobsOnce
<1>8. ASSUME NEW w \in Worker, RunJob(w) PROVE JobsOnce'
  <2>1. /\ w \in In("Running") /\ In("Running")' = In("Running") \ {w}
        /\ UNCHANGED <<queue, current>>
        /\ \A k \in Job \ {current[w]} : channel'[k] = channel[k]
    BY <1>8 DEF RunJob, In, innerVars, Located
  <2>2. \A i \in 1..Len(queue) : queue[i] \in Job \ {current[w]}
    BY <2>1 DEF JobsOnce
  <2>3. \A u \in In("Running") \ {w} : current[u] \in Job \ {current[w]}
    BY <2>1 DEF JobsOnce, Located, In
  <2> QED BY <2>1, <2>2, <2>3 DEF JobsOnce
<1>9. ASSUME NEW w \in Worker, FinishJob(w) PROVE JobsOnce'
  <2>1. /\ In("Running")' = In("Running") /\ UNCHANGED <<queue, channel>>
        /\ \A u \in In("Running") : current'[u] = current[u]
    BY <1>9 DEF FinishJob, In
  <2> QED BY <2>1 DEF JobsOnce
<1> QED BY <1>2, <1>3, <1>4, <1>5, <1>6, <1>7, <1>8, <1>9 DEF Next, WorkerStep

(***************************************************************************)
(* The unfinished jobs are in the queue or on a thread, so there are never *)
(* more of them than places.                                               *)
(***************************************************************************)
Unended == {j \in Job : channel[j] = "Open"}

LEMMA UnendedBounded ==
    ASSUME PoolInv
    PROVE  Cardinality(Unended) <= Len(queue) + Cardinality(Worker)
<1> USE DEF PoolInv, TypeOK
<1> DEFINE Q == {queue[i] : i \in 1..Len(queue)}
           R == {current[w] : w \in In("Running")}
<1>1. IsFiniteSet(Q) /\ Cardinality(Q) \in Nat /\ Cardinality(Q) <= Len(queue)
  <2>1. [i \in 1..Len(queue) |-> queue[i]] \in Surjection(1..Len(queue), Q)
    BY DEF Surjection
  <2>2. IsFiniteSet(1..Len(queue)) /\ Cardinality(1..Len(queue)) = Len(queue)
    <3>1. PICK n \in Nat : n = Len(queue)
      OBVIOUS
    <3>2. IsFiniteSet(1..n) /\ Cardinality(1..n) = IF 1 > n THEN 0 ELSE n - 1 + 1
      BY FS_Interval
    <3> QED BY <3>1, <3>2
  <2> HIDE DEF Q
  <2>3. IsFiniteSet(Q) /\ Cardinality(Q) <= Cardinality(1..Len(queue))
    BY <2>1, <2>2, FS_Surjection
  <2>4. Cardinality(Q) \in Nat
    BY <2>3, FS_CardinalityType
  <2> QED BY <2>2, <2>3, <2>4
<1>2. IsFiniteSet(R) /\ Cardinality(R) \in Nat /\ Cardinality(R) <= Cardinality(Worker)
  <2>1. [w \in In("Running") |-> current[w]] \in Surjection(In("Running"), R)
    BY DEF Surjection
  <2>2. In("Running") \in SUBSET Worker
    BY DEF In
  <2>3. Cardinality(In("Running")) <= Cardinality(Worker) /\ Cardinality(Worker) \in Nat
    BY <2>2, PoolConstants, FS_Subset, FS_CardinalityType
  <2> HIDE DEF R
  <2>4. IsFiniteSet(R) /\ Cardinality(R) <= Cardinality(In("Running"))
    BY <2>1, InFinite, FS_Surjection
  <2> QED BY <2>3, <2>4, InFinite, FS_CardinalityType
<1>3. Unended \in SUBSET (Q \cup R)
  BY DEF Unended, Located, In
<1> HIDE DEF Q, R
<1>4. IsFiniteSet(Q \cup R) /\ Cardinality(Q \cup R) <= Cardinality(Q) + Cardinality(R)
  <2>1. IsFiniteSet(Q \cap R) /\ Cardinality(Q \cap R) \in Nat
    BY <1>1, FS_Subset, FS_CardinalityType
  <2>2. /\ IsFiniteSet(Q \cup R)
        /\ Cardinality(Q \cup R) = Cardinality(Q) + Cardinality(R) - Cardinality(Q \cap R)
    BY <1>1, <1>2, FS_Union
  <2> QED BY <1>1, <1>2, <2>1, <2>2
<1>5. /\ Cardinality(Unended) <= Cardinality(Q \cup R)
      /\ Cardinality(Unended) \in Nat /\ Cardinality(Q \cup R) \in Nat
  BY <1>3, <1>4, FS_Subset, FS_CardinalityType
<1>6. Cardinality(Worker) \in Nat /\ Len(queue) \in Nat
  BY PoolConstants, FS_CardinalityType
<1> QED BY <1>1, <1>2, <1>4, <1>5, <1>6

(***************************************************************************)
(* What the contract sees: the status of a job follows its channel.        *)
(***************************************************************************)
StatusOf(c) ==
    CASE c = "None" -> "new"
      [] c = "Rejected" -> "rejected"
      [] c = "Open" -> "accepted"
      [] c = "Sent" -> "returned"
      [] c = "Disconnected" -> "panicked"

LEMMA StatusValues ==
    /\ Status = [j \in Job |-> StatusOf(channel[j])]
    /\ Status' = [j \in Job |-> StatusOf(channel'[j])]
    /\ StatusOf("None") = "new" /\ StatusOf("Rejected") = "rejected"
    /\ StatusOf("Open") = "accepted" /\ StatusOf("Sent") = "returned"
    /\ StatusOf("Disconnected") = "panicked"
BY DEF Status, StatusOf

LEMMA StatusSet ==
    ASSUME TypeOK, NEW j \in Job, NEW c, channel' = [channel EXCEPT ![j] = c]
    PROVE  Status' = [Status EXCEPT ![j] = StatusOf(c)]
<1>1. \A k \in Job : channel'[k] = IF k = j THEN c ELSE channel[k]
  BY DEF TypeOK
<1>2. PICK F, G, d : F = Status /\ G = Status' /\ d = StatusOf(c)
  BY Zenon
<1>3. F = [k \in Job |-> F[k]] /\ G = [k \in Job |-> G[k]]
  BY <1>2, StatusValues
<1>4. \A k \in Job : G[k] = IF k = j THEN d ELSE F[k]
  BY <1>1, <1>2, StatusValues
<1>5. G = [F EXCEPT ![j] = d]
  BY <1>3, <1>4
<1> QED BY Zenon, <1>2, <1>5

LEMMA UnfinishedIsUnended == ASSUME TypeOK PROVE Contract!Unfinished = Unended
<1>1. ASSUME NEW j \in Job PROVE Status[j] = "accepted" <=> channel[j] = "Open"
  BY DEF Status, TypeOK
<1> QED BY <1>1 DEF Contract!Unfinished, Unended

(***************************************************************************)
(* Every step of the pool is a step of the contract or changes nothing the *)
(* contract sees.                                                          *)
(***************************************************************************)
LEMMA NextContract ==
    ASSUME PoolInv, JobsOnce, [Next]_vars
    PROVE  [Contract!Next]_(Contract!vars)
<1> USE DEF PoolInv
<1>1. ASSUME UNCHANGED channel, closing' = "Joined" <=> closing = "Joined"
      PROVE  UNCHANGED Contract!vars
  BY <1>1 DEF Contract!vars, Status
<1>2. ASSUME NEW w \in Worker, \/ Spawn(w) \/ TakeJob(w) \/ WaitForJob(w) \/ Return(w)
                               \/ FinishJob(w) \/ SpuriousWakeup(w)
      PROVE  UNCHANGED Contract!vars
  BY <1>1, <1>2 DEF Spawn, TakeJob, WaitForJob, Return, FinishJob, SpuriousWakeup
<1>3. ASSUME NEW j \in Job, NotifyOne(j) \/ Recv(j) \/ RecvTimesOut(j) \/ DropHandle(j)
      PROVE  UNCHANGED Contract!vars
  BY <1>1, <1>3 DEF NotifyOne, Recv, RecvTimesOut, DropHandle
<1>4. CASE SpawnFails \/ ShutdownFlag \/ NotifyAll \/ UNCHANGED vars
  BY <1>1, <1>4 DEF SpawnFails, ShutdownFlag, NotifyAll, vars
<1>5. ASSUME NEW j \in Job, Submit(j) PROVE Contract!Accept(j)
  <2>1. /\ closing # "Joined" /\ UNCHANGED closing
        /\ channel[j] = "None" /\ channel' = [channel EXCEPT ![j] = "Open"]
        /\ Len(queue) < Capacity
    BY <1>5 DEF Submit
  <2>2. Status[j] = "new"
    BY <2>1, StatusValues
  <2>3. Status' = [Status EXCEPT ![j] = "accepted"]
    <3>1. Status' = [Status EXCEPT ![j] = StatusOf("Open")]
      BY Zenon, <2>1, StatusSet
    <3> QED BY Zenon, <3>1, StatusValues
  <2>4. /\ Cardinality(Unended) \in Nat /\ Cardinality(Worker) \in Nat /\ Len(queue) \in Nat
        /\ Capacity \in Nat
    <3>1. Unended \in SUBSET Job
      BY DEF Unended
    <3>2. IsFiniteSet(Unended)
      BY <3>1, PoolConstants, FS_Subset
    <3>3. Cardinality(Unended) \in Nat
      BY <3>2, FS_CardinalityType
    <3>4. Cardinality(Worker) \in Nat
      BY PoolConstants, FS_CardinalityType
    <3>5. Len(queue) \in Nat /\ Capacity \in Nat
      BY PoolConstants DEF TypeOK
    <3> QED BY <3>3, <3>4, <3>5
  <2>5. Cardinality(Contract!Unfinished) < Capacity + Cardinality(Worker)
    BY <2>1, <2>4, UnendedBounded, UnfinishedIsUnended
  <2>6. Contract!Cardinality(Contract!Unfinished) = Cardinality(Contract!Unfinished)
    BY DEF Contract!Cardinality, Cardinality
  <2>7. Contract!Cardinality(Contract!Unfinished) < Capacity + Cardinality(Worker)
    BY <2>5, <2>6
  <2>8. UNCHANGED (closing # "Joined")
    BY <2>1
  <2> QED BY Zenon, <2>1, <2>2, <2>3, <2>7, <2>8 DEF Contract!Accept
<1>6. ASSUME NEW j \in Job, SubmitRejected(j) PROVE Contract!Reject(j)
  <2>1. /\ closing # "Joined" /\ UNCHANGED closing
        /\ channel[j] = "None" /\ channel' = [channel EXCEPT ![j] = "Rejected"]
    BY <1>6 DEF SubmitRejected
  <2>2. Status[j] = "new"
    BY <2>1, StatusValues
  <2>3. Status' = [Status EXCEPT ![j] = "rejected"]
    <3>1. Status' = [Status EXCEPT ![j] = StatusOf("Rejected")]
      BY Zenon, <2>1, StatusSet
    <3> QED BY Zenon, <3>1, StatusValues
  <2> QED BY <2>1, <2>2, <2>3 DEF Contract!Reject
<1>7. ASSUME NEW w \in Worker, RunJob(w) PROVE \E j \in Job : Contract!End(j)
  <2>1. PICK j \in Job : j = current[w]
    BY <1>7 DEF RunJob, Located
  <2>2. channel[j] = "Open" /\ UNCHANGED closing
    BY <1>7, <2>1 DEF RunJob, JobsOnce, In
  <2>3. PICK end \in {"Sent", "Disconnected"} : channel' = [channel EXCEPT ![j] = end]
    BY Zenon, <1>7, <2>1 DEF RunJob
  <2>4. Status[j] = "accepted"
    BY <2>2, StatusValues
  <2>5. Status' = [Status EXCEPT ![j] = StatusOf(end)]
    BY Zenon, <2>3, StatusSet
  <2>6. StatusOf(end) \in {"returned", "panicked"}
    BY StatusValues
  <2> QED BY Zenon, <2>2, <2>4, <2>5, <2>6 DEF Contract!End
<1>8. ASSUME Join PROVE Contract!Close
  <2>1. /\ closing # "Joined" /\ closing' = "Joined" /\ UNCHANGED channel
        /\ \A w \in Worker : thread[w] = "Returned"
    BY <1>8 DEF Join, In
  <2>2. queue = <<>>
    BY <2>1, PoolConstants DEF Located
  <2>3. Unended = {}
    BY <2>1, <2>2 DEF Unended, Located
  <2>4. Status' = Status
    BY <2>1 DEF Status
  <2> QED BY <2>1, <2>3, <2>4, UnfinishedIsUnended DEF Contract!Close
<1> QED BY <1>2, <1>3, <1>4, <1>5, <1>6, <1>7, <1>8 DEF Next, WorkerStep, Contract!Next

(***************************************************************************)
(* The pool keeps the contract of its callers (ImplementsContract): every  *)
(* accepted job ends exactly once, no more are unfinished than the queue   *)
(* and the threads hold, and shutdown_workers returns only after the last. *)
(***************************************************************************)
THEOREM PoolImplementsContract == Spec => ImplementsContract
<1>1. Init => JobsOnce /\ Contract!Init
  <2>1. Init => Contract!Init
    BY DEF Init, Contract!Init, Status
  <2>2. Init => JobsOnce
    BY DEF Init, JobsOnce, In
  <2> QED BY <2>1, <2>2
<1>2. PoolInv /\ JobsOnce /\ [Next]_vars => JobsOnce' /\ [Contract!Next]_(Contract!vars)
  BY NextJobsOnce, NextContract
<1> QED BY <1>1, <1>2, PoolInvariant, PTL DEF Spec, ImplementsContract, Contract!Spec

-----------------------------------------------------------------------------
(***************************************************************************)
(* The cache of resolved names.  An answer is copied from its entry, so    *)
(* what makes answers fresh is that the entries are: update_resolver_config*)
(* clears the cache when it changes the configuration.  The addresses of   *)
(* an entry are as fresh as the resolution they came from.                 *)
(***************************************************************************)
ResolutionsAreFresh ==
    /\ resolverConfig \in Configs
    /\ resolutions \subseteq [query : Queries, from : Configs, overtaken : BOOLEAN]
    /\ \A r \in resolutions : r.from = resolverConfig \/ r.overtaken

Fresh(e) == /\ e.under = resolverConfig /\ e.expiresAt \in Nat
            /\ e.from = resolverConfig \/ e.overtaken

EntriesAreFresh == now \in Nat /\ \A q \in DOMAIN entries : Fresh(entries[q])

DnsInv == ResolutionsAreFresh /\ EntriesAreFresh /\ AnswersAreFresh

LEMMA WithoutIsFresh ==
    ASSUME EntriesAreFresh, NEW Q \in SUBSET DOMAIN entries,
           entries' = [p \in Q |-> entries[p]], UNCHANGED <<resolverConfig, now>>
    PROVE  EntriesAreFresh'
BY DEF EntriesAreFresh, Fresh

LEMMA OvertakenAreFresh ==
    ASSUME ResolutionsAreFresh, NEW config \in Configs,
           resolverConfig' = config, resolutions' = Overtaken
    PROVE  ResolutionsAreFresh'
<1> DEFINE O(r) == [query |-> r.query, from |-> r.from, overtaken |-> TRUE]
<1>1. ASSUME NEW r \in resolutions
      PROVE  O(r) \in [query : Queries, from : Configs, overtaken : BOOLEAN] /\ O(r).overtaken
  BY DEF ResolutionsAreFresh
<1>2. resolutions' = {O(r) : r \in resolutions}
  BY DEF Overtaken
<1> HIDE DEF O
<1> QED BY <1>1, <1>2 DEF ResolutionsAreFresh

LEMMA ResolveIsFresh ==
    ASSUME DnsInv, NEW q \in Queries, Resolve(q)
    PROVE  DnsInv'
<1> DEFINE new == [query |-> q, from |-> resolverConfig, overtaken |-> FALSE]
<1>1. /\ new \in [query : Queries, from : Configs, overtaken : BOOLEAN]
      /\ new.from = resolverConfig
  BY DEF DnsInv, ResolutionsAreFresh
<1>2. resolutions' = resolutions \cup {new} /\ answered' = {} /\ UNCHANGED <<resolverConfig, entries, now>>
  BY DEF Resolve
<1> HIDE DEF new
<1>3. ResolutionsAreFresh'
  BY <1>1, <1>2 DEF DnsInv, ResolutionsAreFresh
<1> QED BY <1>2, <1>3 DEF DnsInv, EntriesAreFresh, Fresh, AnswersAreFresh

LEMMA UpdateIsFresh ==
    ASSUME DnsInv, NEW config \in Configs, UpdateResolverConfig(config)
    PROVE  DnsInv'
<1>1. resolverConfig' = config /\ answered' = {} /\ UNCHANGED now
  BY DEF UpdateResolverConfig
<1>2. ResolutionsAreFresh' /\ EntriesAreFresh'
  <2>1. CASE config = resolverConfig
    BY <1>1, <2>1 DEF UpdateResolverConfig, DnsInv, ResolutionsAreFresh, EntriesAreFresh, Fresh
  <2>2. CASE config # resolverConfig
    <3>1. resolutions' = Overtaken /\ entries' = << >>
      BY <2>2 DEF UpdateResolverConfig
    <3> QED BY <1>1, <3>1, OvertakenAreFresh DEF DnsInv, EntriesAreFresh
  <2> QED BY <2>1, <2>2
<1> QED BY <1>1, <1>2 DEF DnsInv, AnswersAreFresh

LEMMA InsertIsFresh ==
    ASSUME DnsInv, NEW r \in resolutions, NEW ttl \in Nat, NEW empty, InsertAddresses(r, ttl, empty)
    PROVE  DnsInv'
<1>1. UNCHANGED <<resolverConfig, now>> /\ answered' = {} /\ resolutions' = resolutions \ {r}
  BY DEF InsertAddresses
<1>2. ResolutionsAreFresh'
  BY <1>1 DEF DnsInv, ResolutionsAreFresh
<1>3. CASE ttl = 0 \/ empty
  <2>1. entries' = [p \in DOMAIN entries \ {r.query} |-> entries[p]]
    BY <1>3 DEF InsertAddresses, Without
  <2> QED BY <1>1, <1>2, <2>1, WithoutIsFresh DEF DnsInv, AnswersAreFresh
<1>4. CASE ~(ttl = 0 \/ empty)
  <2> DEFINE new == [from |-> r.from, overtaken |-> r.overtaken, under |-> resolverConfig,
                     expiresAt |-> now + ttl]
             q == r.query
  <2>1. entries' = [p \in DOMAIN entries \cup {q} |-> IF p = q THEN new ELSE entries[p]]
    BY <1>4 DEF InsertAddresses
  <2>2. Fresh(new)
    BY DEF DnsInv, ResolutionsAreFresh, EntriesAreFresh, Fresh
  <2> HIDE DEF new, q
  <2>3. EntriesAreFresh'
    BY <1>1, <2>1, <2>2 DEF DnsInv, EntriesAreFresh, Fresh
  <2> QED BY <1>1, <1>2, <2>3 DEF DnsInv, AnswersAreFresh
<1> QED BY <1>3, <1>4

LEMMA LookupIsFresh ==
    ASSUME DnsInv, NEW q, LookupAddresses(q)
    PROVE  DnsInv'
<1>1. UNCHANGED <<resolverConfig, resolutions, now>> /\ q \in DOMAIN entries
  BY DEF LookupAddresses
<1>2. ResolutionsAreFresh'
  BY <1>1 DEF DnsInv, ResolutionsAreFresh
<1>3. CASE IsExpired(entries[q], now)
  <2>1. entries' = [p \in DOMAIN entries \ {q} |-> entries[p]] /\ answered' = {}
    BY <1>3 DEF LookupAddresses, Without
  <2> QED BY <1>1, <1>2, <2>1, WithoutIsFresh DEF DnsInv, AnswersAreFresh
<1>4. CASE ~IsExpired(entries[q], now)
  <2>1. answered' = {[entry |-> entries[q], at |-> now]} /\ UNCHANGED entries
    BY <1>4 DEF LookupAddresses
  <2>2. Fresh(entries[q]) /\ now < entries[q].expiresAt
    BY <1>1, <1>4 DEF DnsInv, EntriesAreFresh, Fresh, IsExpired
  <2>3. AnswersAreFresh'
    BY <1>1, <2>1, <2>2 DEF AnswersAreFresh, Fresh
  <2> QED BY <1>1, <1>2, <2>1, <2>3 DEF DnsInv, EntriesAreFresh, Fresh
<1> QED BY <1>3, <1>4

LEMMA DnsNextIsFresh == DnsInv /\ [DnsNext]_dnsVars => DnsInv'
<1> SUFFICES ASSUME DnsInv, [DnsNext]_dnsVars PROVE DnsInv'
  OBVIOUS
<1> USE DEF DnsInv
<1>1. ASSUME NEW q \in Queries, Resolve(q) PROVE DnsInv'
  BY <1>1, ResolveIsFresh
<1>2. ASSUME NEW config \in Configs, UpdateResolverConfig(config) PROVE DnsInv'
  BY <1>2, UpdateIsFresh
<1>3. ASSUME NEW r \in resolutions, NEW ttl \in 0 .. MaxTtl, NEW empty, InsertAddresses(r, ttl, empty)
      PROVE  DnsInv'
  <2>1. ttl \in Nat
    OBVIOUS
  <2> QED BY <1>3, <2>1, InsertIsFresh
<1>4. ASSUME NEW q, LookupAddresses(q) PROVE DnsInv'
  BY <1>4, LookupIsFresh
<1>5. CASE PurgeExpired
  <2> DEFINE Q == {p \in DOMAIN entries : ~IsExpired(entries[p], now)}
  <2>1. /\ entries' = [q \in Q |-> entries[q]] /\ answered' = {}
        /\ UNCHANGED <<resolverConfig, resolutions, now>>
    BY <1>5 DEF PurgeExpired
  <2>2. Q \in SUBSET DOMAIN entries
    OBVIOUS
  <2> HIDE DEF Q
  <2> QED BY <2>1, <2>2, WithoutIsFresh DEF ResolutionsAreFresh, AnswersAreFresh
<1>6. CASE Clear
  BY <1>6 DEF Clear, ResolutionsAreFresh, EntriesAreFresh, AnswersAreFresh
<1>7. CASE Tick
  BY <1>7 DEF Tick, ResolutionsAreFresh, EntriesAreFresh, Fresh, AnswersAreFresh
<1>8. CASE UNCHANGED dnsVars
  BY <1>8 DEF dnsVars, ResolutionsAreFresh, EntriesAreFresh, Fresh, AnswersAreFresh
<1> QED BY <1>1, <1>2, <1>3, <1>4, <1>5, <1>6, <1>7, <1>8 DEF DnsNext

(***************************************************************************)
(* lookup_addresses never answers from an entry whose lifetime is over or  *)
(* that was inserted before the last change of the resolver configuration, *)
(* and the addresses it gives were resolved under the current one unless a *)
(* change overtook their resolution, however lookups, resolutions,         *)
(* insertions, purges, changes of the configuration and the clock follow   *)
(* each other (AnswersAreFresh).                                           *)
(***************************************************************************)
THEOREM AnswersCorrect == DnsSpec => []AnswersAreFresh
<1>1. DnsInit => DnsInv
  BY DEF DnsInit, DnsInv, ResolutionsAreFresh, EntriesAreFresh, AnswersAreFresh
<1>2. DnsInv => AnswersAreFresh
  BY DEF DnsInv
<1> QED BY <1>1, <1>2, DnsNextIsFresh, PTL DEF DnsSpec
=============================================================================
