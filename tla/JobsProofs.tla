----------------------------- MODULE JobsProofs -----------------------------
(***************************************************************************)
(* Proofs about Jobs, for any jobs, workers, limits of the queue and       *)
(* faults, the endpoints that meddle included.                             *)
(***************************************************************************)
EXTENDS Jobs, FiniteSets, FiniteSetTheorems, TLAPS

-----------------------------------------------------------------------------
(***************************************************************************)
(* The invariants.                                                         *)
(***************************************************************************)

On(w, j) == worker[w] # "idle" /\ task[w].job = j

\* Whoever will write a row has seen it written.
RowsExist ==
  /\ \A j \in Jobs :
       \/ request[j] \in {"enqueueing", "refunding", "failing", "done"}
       \/ queue[j].state # "none"
       \/ manual[j] = "checked"
       => job[j] # NoJob
  /\ \A w \in Workers : worker[w] # "idle" => job[task[w].job] # NoJob

TypeInv == TypeOK /\ RowsExist

\* The deliveries of the entry of j so far, or the most there can have been
\* once the queue no longer tells.
Deliveries(j) ==
  IF request[j] \in {"idle", "creating", "enqueueing"} THEN 0
  ELSE IF queue[j].state = "none" THEN QUEUE_ATTEMPTS + MAX_STALLED
  ELSE queue[j].made + queue[j].stalled + (IF queue[j].state = "active" THEN 1 ELSE 0)

\* The workers that may still count a failure against j.
BeforeCount == {"find", "start", "processing", "completing", "handling", "counting"}

MayCount(j) == {w \in Workers : worker[w] \in BeforeCount /\ task[w].job = j}

AttemptsAreDeliveries(j) ==
  /\ IsFiniteSet(MayCount(j))
  /\ job[j].attempts + Cardinality(MayCount(j)) <= Deliveries(j)

\* What the queue will still deliver is within its limits.
QueueWithinLimits(j) ==
  /\ queue[j].state \in {"waiting", "active"} =>
       queue[j].made < QUEUE_ATTEMPTS /\ queue[j].stalled <= MAX_STALLED
  /\ Deliveries(j) <= QUEUE_ATTEMPTS + MAX_STALLED
  /\ request[j] \in {"idle", "creating", "enqueueing"} => queue[j] = NotQueued
  /\ request[j] \in {"idle", "creating"} => job[j] = NoJob

CountHolds(j) == AttemptsAreDeliveries(j) /\ QueueWithinLimits(j)

CountInv == TypeInv /\ \A j \in Jobs : CountHolds(j)

\* Unless a lock is lost, the worker on a job owns its entry.
OwnerServes(j) == \A w \in Workers : On(w, j) => Owns(w, j)

\* What the request of j has done; the queue knows j once it is done.
RequestHolds(j) ==
  /\ request[j] # "done" => queue[j].state = "none"
  /\ request[j] \in {"creating", "enqueueing", "refunding", "failing", "done"} => charged[j] = 1
  /\ job[j] # NoJob => charged[j] = 1
  /\ request[j] \in {"idle", "creating", "enqueueing", "refunding"} => refunded[j] = 0
  /\ request[j] \in {"idle", "creating"} => job[j] = NoJob
  /\ request[j] \in {"enqueueing", "refunding", "failing"} /\ Untouched(j) =>
       job[j].status = "QUEUED"
  /\ request[j] = "failed" /\ Untouched(j) => job[j].status \in {"NONE", "QUEUED", "FAILED"}
  /\ refunded[j] <= charged[j]

\* What the worker on j has found and will write.
WorkHolds(j) ==
  \A w \in Workers : On(w, j) =>
    /\ worker[w] \notin {"find", "ack", "nack"} => refunded[j] = 0
    /\ worker[w] \in {"start", "processing", "completing", "failing"} /\ Untouched(j) =>
         ~isFinalState(job[j])
    /\ worker[w] = "refunding" /\ Untouched(j) => job[j].status = "FAILED"
    /\ worker[w] = "ack" /\ Untouched(j) => task[w].result = job[j].status

ResultHolds(j) ==
  Untouched(j) =>
    /\ job[j].status = "COMPLETED" => refunded[j] = 0
    /\ announced[j] = "COMPLETED" => job[j].status = "COMPLETED"

\* Of processes that stop: what was refunded is final, so that a worker that
\* finds it again leaves it; and no failure is handled of a row that is final.
CrashHolds(j) ==
  /\ refunded[j] > 0 /\ request[j] = "done" => isFinalState(job[j])
  /\ \A w \in Workers : On(w, j) =>
       /\ worker[w] = "refunding" => isFinalState(job[j])
       /\ worker[w] \in {"handling", "counting"} /\ Untouched(j) => ~isFinalState(job[j])

OnlyRejects == happened \subseteq {"reject"}

LastDelivery(j) == queue[j].made + 1 >= QUEUE_ATTEMPTS

\* Where a worker may be on a row that is final.
ServesFinal(label, j) ==
  \/ label = "ack"
  \/ label \in {"refunding", "nack"} /\ LastDelivery(j)
  \/ label \in {"find", "handling", "counting"} /\ job[j].attempts < queue[j].made
  \/ label = "nack" /\ job[j].attempts <= queue[j].made

\* Of calls that reject: every worker lives, each delivery counts one failure
\* at most, and nothing that is refunded is delivered again.  A job that is done
\* may be, if the user could not be told; the delivery that completed it has
\* counted nothing, so that a failure to find it done is not the last.
RejectHolds(j) ==
  /\ queue[j].state = "active" => \E w \in Workers : On(w, j)
  /\ queue[j].state = "waiting" => job[j].attempts <= queue[j].made
  /\ \A w \in Workers : On(w, j) =>
       /\ job[j].attempts <=
            queue[j].made + (IF worker[w] \in {"failing", "refunding", "nack"} THEN 1 ELSE 0)
       /\ worker[w] = "counting" => task[w].attempts = job[j].attempts + 1
       /\ worker[w] \in {"failing", "refunding"} => LastDelivery(j)
  /\ refunded[j] > 0 =>
       /\ queue[j].state # "waiting"
       /\ \A w \in Workers : On(w, j) => worker[w] = "nack" /\ LastDelivery(j)
  /\ isFinalState(job[j]) /\ Untouched(j) =>
       /\ queue[j].state = "waiting" => job[j].attempts < queue[j].made
       /\ \A w \in Workers : On(w, j) => ServesFinal(worker[w], j)

SettledHolds(j) ==
  /\ OneKindOfFault => OwnerServes(j) /\ RequestHolds(j) /\ WorkHolds(j) /\ ResultHolds(j)
  /\ OnlyCrashes => CrashHolds(j)
  /\ OnlyRejects => RejectHolds(j)

SettledInv == CountInv /\ \A j \in Jobs : SettledHolds(j)

-----------------------------------------------------------------------------
(***************************************************************************)
(* Steps.  Every step is about one job; the others keep what they have.    *)
(***************************************************************************)

\* A step of the request of j, of the queue on its entry, or of an endpoint.
JobStep(j) ==
  \/ Refuse(j) \/ Deduct(j) \/ RequestStep(j) \/ EnqueueFails(j) \/ RequestFails(j)
  \/ Stalled(j) \/ LockLost(j)
  \/ Cancel(j) \/ CheckManual(j) \/ CompleteManually(j)

ServeStep(w) == WorkerStep(w) \/ WorkerFault(w)

\* Nothing about k has changed.
Same(k) ==
  /\ job'[k] = job[k] /\ request'[k] = request[k] /\ queue'[k] = queue[k]
  /\ manual'[k] = manual[k] /\ charged'[k] = charged[k] /\ refunded'[k] = refunded[k]
  /\ announced'[k] = announced[k]
  /\ \A w \in Workers :
       /\ On(w, k)' <=> On(w, k)
       /\ On(w, k) => worker'[w] = worker[w] /\ task'[w] = task[w]

LEMMA RowsAreTyped ==
  /\ NoJob \notin Job /\ NoJob.status = "NONE" /\ NoJob.attempts = 0
  /\ createJob \in Job /\ createJob.status = "QUEUED" /\ createJob.attempts = 0
  /\ NotQueued \in Entry /\ NotQueued.state = "none"
  /\ \A e \in Job : e.status \in JobStatus /\ e.attempts \in Nat
BY DEF NoJob, Job, createJob, JobStatus, NotQueued, Entry

\* updateStatus writes the status of one row.
LEMMA StatusIsWritten ==
  ASSUME TypeInv, NEW j \in Jobs, job[j] # NoJob, NEW s \in JobStatus, updateStatus(j, s)
  PROVE  /\ job' \in [Jobs -> Job \union {NoJob}]
         /\ job'[j] \in Job /\ job'[j].status = s /\ job'[j].attempts = job[j].attempts
         /\ \A k \in Jobs \ {j} : job'[k] = job[k]
<1>1. job \in [Jobs -> Job \union {NoJob}] /\ job[j] \in Job
  BY DEF TypeInv, TypeOK
<1> DEFINE e == [job[j] EXCEPT !.status = s]
<1>2. job' = [job EXCEPT ![j] = e]
  BY <1>1 DEF updateStatus
<1>3. e \in Job /\ e.status = s /\ e.attempts = job[j].attempts
  BY <1>1 DEF Job
<1> HIDE DEF e
<1> QED
  BY <1>1, <1>2, <1>3

\* incrementAttempts adds one to the attempts of one row.
LEMMA AttemptIsCounted ==
  ASSUME TypeInv, NEW j \in Jobs, job[j] # NoJob, incrementAttempts(j)
  PROVE  /\ job' \in [Jobs -> Job \union {NoJob}]
         /\ job'[j] \in Job /\ job'[j].status = job[j].status
         /\ job'[j].attempts = job[j].attempts + 1
         /\ \A k \in Jobs \ {j} : job'[k] = job[k]
<1>1. job \in [Jobs -> Job \union {NoJob}] /\ job[j] \in Job
  BY DEF TypeInv, TypeOK
<1> DEFINE e == [job[j] EXCEPT !.attempts = job[j].attempts + 1]
<1>2. job' = [job EXCEPT ![j] = e]
  BY <1>1 DEF incrementAttempts
<1>3. e \in Job /\ e.status = job[j].status /\ e.attempts = job[j].attempts + 1
  BY <1>1 DEF Job
<1> HIDE DEF e
<1> QED
  BY <1>1, <1>2, <1>3

\* What add and Redeliver make of an entry.
LEMMA EntriesAreTyped ==
  ASSUME TypeInv, NEW j \in Jobs
  PROVE  /\ add(j) => /\ queue' \in [Jobs -> Entry] /\ queue'[j].state = "waiting"
                      /\ queue'[j].made = queue[j].made /\ queue'[j].stalled = queue[j].stalled
                      /\ \A k \in Jobs \ {j} : queue'[k] = queue[k]
         /\ Redeliver(j) => /\ queue' \in [Jobs -> Entry]
                            /\ queue'[j].state =
                                 IF queue[j].stalled < MAX_STALLED THEN "waiting" ELSE "failed"
                            /\ queue'[j].made = queue[j].made
                            /\ queue'[j].stalled = queue[j].stalled + 1
                            /\ \A k \in Jobs \ {j} : queue'[k] = queue[k]
<1>1. queue \in [Jobs -> Entry] /\ queue[j] \in Entry
  BY DEF TypeInv, TypeOK
<1>2. ASSUME add(j)
      PROVE  /\ queue' \in [Jobs -> Entry] /\ queue'[j].state = "waiting"
             /\ queue'[j].made = queue[j].made /\ queue'[j].stalled = queue[j].stalled
             /\ \A k \in Jobs \ {j} : queue'[k] = queue[k]
  <2> DEFINE e == [queue[j] EXCEPT !.state = "waiting"]
  <2>1. queue' = [queue EXCEPT ![j] = e]
    BY <1>1, <1>2 DEF add
  <2>2. e \in Entry /\ e.state = "waiting" /\ e.made = queue[j].made /\ e.stalled = queue[j].stalled
    BY <1>1 DEF Entry
  <2> HIDE DEF e
  <2> QED
    BY <1>1, <2>1, <2>2
<1>3. ASSUME Redeliver(j)
      PROVE  /\ queue' \in [Jobs -> Entry]
             /\ queue'[j].state = IF queue[j].stalled < MAX_STALLED THEN "waiting" ELSE "failed"
             /\ queue'[j].made = queue[j].made /\ queue'[j].stalled = queue[j].stalled + 1
             /\ \A k \in Jobs \ {j} : queue'[k] = queue[k]
  <2> DEFINE e == [state |-> IF queue[j].stalled < MAX_STALLED THEN "waiting" ELSE "failed",
                   made |-> queue[j].made, stalled |-> queue[j].stalled + 1, owner |-> Nobody]
  <2>1. queue' = [queue EXCEPT ![j] = e]
    BY <1>3 DEF Redeliver
  <2>2. e \in Entry
    BY <1>1 DEF Entry
  <2>3. queue' \in [Jobs -> Entry] /\ queue'[j] = e /\ \A k \in Jobs \ {j} : queue'[k] = queue[k]
    BY <1>1, <2>1, <2>2
  <2> QED
    BY <2>3
<1> QED
  BY <1>2, <1>3

LEMMA FaultsAreTyped ==
  ASSUME TypeInv, NothingHappens \/ \E kind : Happens(kind)
  PROVE  FaultsTypeOK' /\ happened' \subseteq FaultKinds /\ happened \subseteq happened'
BY MaxFaultsIsNat DEF TypeInv, TypeOK, FaultsTypeOK, NothingHappens, NoFault, Happens, Fault

-----------------------------------------------------------------------------
(***************************************************************************)
(* Types.                                                                  *)
(***************************************************************************)

LEMMA TypeInit == Init => TypeInv
<1> SUFFICES ASSUME Init PROVE TypeInv
  OBVIOUS
<1>1. TypeOK
  BY RowsAreTyped, MaxFaultsIsNat DEF Init, TypeOK, FaultsTypeOK, FaultsInit, RequestControl, WorkerControl
<1>2. RowsExist
  BY RowsAreTyped DEF Init, RowsExist
<1> QED
  BY <1>1, <1>2 DEF TypeInv

LEMMA JobStepIsLocal ==
  ASSUME TypeInv, NEW j \in Jobs, JobStep(j)
  PROVE  TypeInv' /\ UNCHANGED <<worker, task>> /\ \A k \in Jobs \ {j} : Same(k)
<1>1. /\ job \in [Jobs -> Job \union {NoJob}] /\ request \in [Jobs -> RequestControl]
      /\ queue \in [Jobs -> Entry] /\ worker \in [Workers -> WorkerControl]
      /\ task \in [Workers -> Task \union {NoTask}]
      /\ \A w \in Workers : worker[w] # "idle" => task[w] \in Task
      /\ manual \in [Jobs -> {"idle", "checked", "done"}]
      /\ cancelled \subseteq Jobs /\ charged \in [Jobs -> 0..1] /\ refunded \in [Jobs -> Nat]
      /\ announced \in [Jobs -> JobStatus \union {"none"}]
      /\ RowsExist
  BY DEF TypeInv, TypeOK
<1>2. NothingHappens \/ \E kind : Happens(kind)
  BY DEF JobStep, Refuse, Deduct, RequestStep, Create, Enqueue, CompensateRefund, CompensateFail,
     EnqueueFails, RequestFails, Stalled, LockLost, Cancel, CheckManual, CompleteManually
<1>3. FaultsTypeOK' /\ happened' \subseteq FaultKinds
  BY <1>2, FaultsAreTyped
<1>4. UNCHANGED <<worker, task>>
  BY DEF JobStep, Refuse, Deduct, RequestStep, Create, Enqueue, CompensateRefund, CompensateFail,
     EnqueueFails, RequestFails, Stalled, LockLost, Cancel, CheckManual, CompleteManually, workerSide
<1> DEFINE Local(f) == \A k \in Jobs \ {j} : f'[k] = f[k]
<1>5. ASSUME job' \in [Jobs -> Job \union {NoJob}], job[j] # NoJob => job'[j] # NoJob, Local(job),
             request' \in [Jobs -> RequestControl], Local(request),
             queue' \in [Jobs -> Entry], Local(queue),
             manual' \in [Jobs -> {"idle", "checked", "done"}], Local(manual),
             cancelled' \subseteq Jobs,
             charged' \in [Jobs -> 0..1], Local(charged),
             refunded' \in [Jobs -> Nat], Local(refunded),
             announced' = announced,
             \/ request'[j] \in {"enqueueing", "refunding", "failing", "done"}
             \/ queue'[j].state # "none"
             \/ manual'[j] = "checked"
             => job'[j] # NoJob
      PROVE  TypeInv' /\ \A k \in Jobs \ {j} : Same(k)
  <2>1. TypeOK'
    BY <1>1, <1>3, <1>4, <1>5 DEF TypeOK
  <2>2. \A w \in Workers : worker[w] # "idle" => task[w].job \in Jobs
    BY <1>1 DEF Task
  <2>3. RowsExist'
    BY <1>1, <1>4, <1>5, <2>2 DEF RowsExist
  <2>4. \A k \in Jobs \ {j} : Same(k)
    BY <1>4, <1>5 DEF Same, On
  <2> QED
    BY <2>1, <2>3, <2>4 DEF TypeInv
<1>6. CASE Refuse(j) \/ Deduct(j) \/ CompensateRefund(j) \/ RequestFails(j) \/ CheckManual(j)
  <2>1. /\ UNCHANGED <<job, queue, cancelled, announced>>
        /\ request' \in [Jobs -> RequestControl] /\ Local(request)
        /\ manual' \in [Jobs -> {"idle", "checked", "done"}] /\ Local(manual)
        /\ charged' \in [Jobs -> 0..1] /\ Local(charged)
        /\ refunded' \in [Jobs -> Nat] /\ Local(refunded)
    BY <1>1, <1>6 DEF Refuse, Deduct, CompensateRefund, RequestFails, CheckManual, RequestTo,
       RequestControl, history
  <2>2. \/ request'[j] \in {"enqueueing", "refunding", "failing", "done"}
        \/ manual'[j] = "checked"
        => job[j] # NoJob
    BY <1>1, <1>6, RowsAreTyped DEF RowsExist, Refuse, Deduct, CompensateRefund, RequestFails,
       CheckManual, RequestTo
  <2> QED
    BY <1>1, <1>4, <1>5, <2>1, <2>2 DEF RowsExist
<1>7. CASE Enqueue(j) \/ EnqueueFails(j) \/ Stalled(j) \/ LockLost(j) \/ Cancel(j)
  <2>1. /\ UNCHANGED <<job, manual, charged, refunded, announced>>
        /\ request' \in [Jobs -> RequestControl] /\ Local(request)
        /\ cancelled' \subseteq Jobs
    BY <1>1, <1>7 DEF Enqueue, EnqueueFails, Stalled, LockLost, Cancel, RequestTo, RequestControl,
       history
  <2>2. queue' \in [Jobs -> Entry] /\ Local(queue)
    BY <1>1, <1>7, EntriesAreTyped, RowsAreTyped DEF Enqueue, EnqueueFails, Stalled, LockLost, Cancel
  <2>3. job[j] # NoJob
    BY <1>1, <1>7, RowsAreTyped DEF RowsExist, Enqueue, EnqueueFails, Stalled, LockLost, Served, Cancel
  <2> QED
    BY <1>1, <1>4, <1>5, <2>1, <2>2, <2>3
<1>8. CASE Create(j) \/ CompensateFail(j) \/ CompleteManually(j)
  <2>1. /\ UNCHANGED <<queue, cancelled, charged, refunded, announced>>
        /\ request' \in [Jobs -> RequestControl] /\ Local(request)
        /\ manual' \in [Jobs -> {"idle", "checked", "done"}] /\ Local(manual)
    BY <1>1, <1>8 DEF Create, CompensateFail, CompleteManually, RequestTo, RequestControl, history
  <2>2. job' \in [Jobs -> Job \union {NoJob}] /\ Local(job) /\ job'[j] # NoJob
    <3>1. CASE Create(j)
      BY <1>1, <3>1, RowsAreTyped DEF Create
    <3>2. CASE CompensateFail(j) \/ CompleteManually(j)
      <4>1. job[j] # NoJob
        BY <1>1, <3>2 DEF RowsExist, CompensateFail, CompleteManually
      <4>2. PICK s \in JobStatus : updateStatus(j, s)
        BY <3>2 DEF CompensateFail, CompleteManually, JobStatus
      <4> QED
        BY <4>1, <4>2, StatusIsWritten, RowsAreTyped
    <3> QED
      BY <1>8, <3>1, <3>2
  <2> QED
    BY <1>1, <1>4, <1>5, <2>1, <2>2
<1> HIDE DEF Local
<1> QED
  BY <1>4, <1>6, <1>7, <1>8 DEF JobStep, RequestStep

\* What a worker leaves of the entry it has owned.
LEMMA EntryIsLeft ==
  ASSUME TypeInv, NEW w \in Workers, worker[w] # "idle", Ack(w) \/ AckThrows(w) \/ Nack(w),
         NEW j \in Jobs, j = task[w].job
  PROVE  /\ queue' \in [Jobs -> Entry] /\ \A k \in Jobs \ {j} : queue'[k] = queue[k]
         /\ ~Owns(w, j) => queue' = queue
         /\ Owns(w, j) /\ Ack(w) => queue'[j] = NotQueued
         /\ Owns(w, j) /\ ~Ack(w) =>
              /\ queue'[j].state = retryState(queue[j].made + 1)
              /\ queue'[j].made = queue[j].made + 1
              /\ queue'[j].stalled = queue[j].stalled
              /\ queue'[j].owner = Nobody
<1>1. queue \in [Jobs -> Entry] /\ queue[j] \in Entry
  BY DEF TypeInv, TypeOK
<1>2. CASE ~Owns(w, j)
  BY <1>1, <1>2 DEF Ack, AckThrows, Nack, Retry
<1>3. CASE Owns(w, j) /\ Ack(w)
  <2>1. queue' = [queue EXCEPT ![j] = NotQueued]
    BY <1>3 DEF Ack
  <2> QED
    BY <1>1, <1>3, <2>1, RowsAreTyped
<1>4. CASE Owns(w, j) /\ ~Ack(w)
  <2> DEFINE made == queue[j].made + 1
             e == [queue[j] EXCEPT !.state = retryState(made), !.made = made, !.owner = Nobody]
  <2>1. queue' = [queue EXCEPT ![j] = e]
    BY <1>1, <1>4 DEF AckThrows, Nack, Retry
  <2>2. retryState(made) \in {"waiting", "failed"} /\ made \in Nat
    BY <1>1 DEF retryState, Entry
  <2>3. e \in Entry /\ e.state = retryState(made) /\ e.made = made
        /\ e.stalled = queue[j].stalled /\ e.owner = Nobody
    <3> HIDE DEF made
    <3> QED
      BY <1>1, <2>2 DEF Entry
  <2> HIDE DEF e
  <2> QED
    BY <1>1, <1>4, <2>1, <2>3
<1> QED
  BY <1>2, <1>3, <1>4

LEMMA ServeStepIsLocal ==
  ASSUME TypeInv, NEW w \in Workers, ServeStep(w)
  PROVE  /\ TypeInv' /\ UNCHANGED <<request, manual, charged>>
         /\ \A v \in Workers \ {w} : worker'[v] = worker[v] /\ task'[v] = task[v]
         /\ \E j \in Jobs :
              /\ task'[w].job = j /\ (worker[w] # "idle" => task[w].job = j)
              /\ \A k \in Jobs \ {j} : Same(k)
<1>1. /\ job \in [Jobs -> Job \union {NoJob}] /\ request \in [Jobs -> RequestControl]
      /\ queue \in [Jobs -> Entry] /\ worker \in [Workers -> WorkerControl]
      /\ task \in [Workers -> Task \union {NoTask}]
      /\ \A v \in Workers : worker[v] # "idle" => task[v] \in Task /\ task[v].job \in Jobs
      /\ manual \in [Jobs -> {"idle", "checked", "done"}]
      /\ cancelled \subseteq Jobs /\ charged \in [Jobs -> 0..1] /\ refunded \in [Jobs -> Nat]
      /\ announced \in [Jobs -> JobStatus \union {"none"}]
      /\ RowsExist
  BY DEF TypeInv, TypeOK, Task
<1>2. NothingHappens \/ \E kind : Happens(kind)
  BY DEF ServeStep, WorkerStep, WorkerFault, Take, FindJob, StartProcessing, Process, Complete,
     FindCurrent, Count, MarkFailed, Refund, Ack, AckThrows, Nack, StepFails, HandlingFails, Crash
<1>3. FaultsTypeOK' /\ happened' \subseteq FaultKinds
  BY <1>2, FaultsAreTyped
<1>4. UNCHANGED <<request, manual, charged, cancelled>>
  BY DEF ServeStep, WorkerStep, WorkerFault, Take, FindJob, StartProcessing, Process, Complete,
     FindCurrent, Count, MarkFailed, Refund, Ack, AckThrows, Nack, StepFails, HandlingFails, Crash, history
<1>5. PICK label \in WorkerControl : worker' = [worker EXCEPT ![w] = label]
  BY DEF ServeStep, WorkerStep, WorkerFault, Take, FindJob, StartProcessing, Process, Complete,
     FindCurrent, Count, MarkFailed, Refund, Ack, AckThrows, Nack, StepFails, HandlingFails, Crash, WorkerTo,
     WorkerControl
\* What is left to show of a step about j.
<1>6. ASSUME NEW j \in Jobs, worker[w] # "idle" => task[w].job = j, job[j] # NoJob,
             job' \in [Jobs -> Job \union {NoJob}], job'[j] # NoJob,
             \A k \in Jobs \ {j} : job'[k] = job[k],
             queue' \in [Jobs -> Entry], \A k \in Jobs \ {j} : queue'[k] = queue[k],
             refunded' \in [Jobs -> Nat], \A k \in Jobs \ {j} : refunded'[k] = refunded[k],
             announced' \in [Jobs -> JobStatus \union {"none"}],
             \A k \in Jobs \ {j} : announced'[k] = announced[k],
             NEW t \in Task, t.job = j, task' = [task EXCEPT ![w] = t]
      PROVE  /\ TypeInv'
             /\ \A v \in Workers \ {w} : worker'[v] = worker[v] /\ task'[v] = task[v]
             /\ task'[w].job = j /\ \A k \in Jobs \ {j} : Same(k)
  <2>1. /\ worker' \in [Workers -> WorkerControl] /\ worker'[w] = label
        /\ task' \in [Workers -> Task \union {NoTask}] /\ task'[w] = t
        /\ \A v \in Workers \ {w} : worker'[v] = worker[v] /\ task'[v] = task[v]
    BY <1>1, <1>5, <1>6
  <2>2. TypeOK'
    BY <1>1, <1>3, <1>4, <1>6, <2>1 DEF TypeOK
  <2>3. RowsExist'
    BY <1>1, <1>4, <1>6, <2>1 DEF RowsExist
  <2>4. \A k \in Jobs \ {j} : Same(k)
    BY <1>4, <1>6, <2>1 DEF Same, On
  <2> QED
    BY <1>6, <2>1, <2>2, <2>3, <2>4 DEF TypeInv
<1>7. ASSUME NEW j \in Jobs, Take(w, j)
      PROVE  /\ TypeInv'
             /\ \A v \in Workers \ {w} : worker'[v] = worker[v] /\ task'[v] = task[v]
             /\ task'[w].job = j /\ worker[w] = "idle" /\ \A k \in Jobs \ {j} : Same(k)
  <2> DEFINE t == [job |-> j, attempts |-> 0, result |-> "none"]
             e == [queue[j] EXCEPT !.state = "active", !.owner = w]
  <2>1. t \in Task /\ t.job = j /\ task' = [task EXCEPT ![w] = t]
    BY <1>7 DEF Take, Task
  <2>2. queue' = [queue EXCEPT ![j] = e] /\ e \in Entry
    BY <1>1, <1>7 DEF Take, Entry
  <2>3. /\ UNCHANGED <<job, refunded, announced>> /\ job[j] # NoJob /\ worker[w] = "idle"
    BY <1>1, <1>7 DEF Take, history, RowsExist
  <2> HIDE DEF e, t
  <2>4. queue' \in [Jobs -> Entry] /\ \A k \in Jobs \ {j} : queue'[k] = queue[k]
    BY <1>1, <2>2
  <2> QED
    BY <1>1, <1>6, <2>1, <2>3, <2>4
<1>8. ASSUME worker[w] # "idle", NEW j \in Jobs, j = task[w].job
      PROVE  /\ TypeInv'
             /\ \A v \in Workers \ {w} : worker'[v] = worker[v] /\ task'[v] = task[v]
             /\ task'[w].job = j /\ \A k \in Jobs \ {j} : Same(k)
  <2>1. task[w] \in Task /\ job[j] \in Job /\ job[j] # NoJob /\ DOMAIN task = Workers
    BY <1>1, <1>8 DEF RowsExist
  <2>2. \A i \in Jobs : ~Take(w, i)
    BY <1>8 DEF Take
  <2>3. PICK t \in Task : t.job = j /\ task' = [task EXCEPT ![w] = t]
    <3>1. CASE UNCHANGED task
      BY <1>1, <1>8, <2>1, <3>1
    <3>2. CASE FindJob(w) \/ Complete(w)
      <4>1. PICK s \in JobStatus : task' = task \/ task' = [task EXCEPT ![w].result = s]
        BY <1>8, <2>1, <3>2 DEF FindJob, Complete, isFinalState, JobStatus
      <4>2. [task[w] EXCEPT !.result = s] \in Task /\ [task[w] EXCEPT !.result = s].job = j
        BY <1>8, <2>1 DEF Task
      <4>3. task' = task \/ task' = [task EXCEPT ![w] = [task[w] EXCEPT !.result = s]]
        BY <1>1, <4>1
      <4> QED
        BY <3>1, <4>2, <4>3
    <3>3. CASE FindCurrent(w)
      <4> DEFINE n == job[j].attempts + 1
      <4>1. n \in Nat /\ task' = [task EXCEPT ![w] = [task[w] EXCEPT !.attempts = n]]
        BY <1>1, <1>8, <2>1, <3>3 DEF FindCurrent, Job
      <4> HIDE DEF n
      <4>2. [task[w] EXCEPT !.attempts = n] \in Task /\ [task[w] EXCEPT !.attempts = n].job = j
        BY <1>8, <2>1, <4>1 DEF Task
      <4> QED
        BY <4>1, <4>2
    <3> QED
      BY <2>2, <3>1, <3>2, <3>3
         DEF ServeStep, WorkerStep, WorkerFault, StartProcessing, Process, Count, MarkFailed, Refund,
             Ack, AckThrows, Nack, StepFails, HandlingFails, Crash
  <2>4. /\ job' \in [Jobs -> Job \union {NoJob}] /\ job'[j] # NoJob
        /\ \A k \in Jobs \ {j} : job'[k] = job[k]
    <3>1. CASE \E s \in JobStatus : updateStatus(j, s)
      BY <2>1, <3>1, StatusIsWritten, RowsAreTyped
    <3>2. CASE incrementAttempts(j)
      BY <2>1, <3>2, AttemptIsCounted, RowsAreTyped
    <3>3. UNCHANGED job \/ incrementAttempts(j) \/ \E s \in JobStatus : updateStatus(j, s)
      BY <1>8, <2>2
         DEF ServeStep, WorkerStep, WorkerFault, FindJob, StartProcessing, Process, Complete,
             FindCurrent, Count, MarkFailed, Refund, Ack, AckThrows, Nack, StepFails, HandlingFails, Crash, JobStatus
    <3> QED
      BY <1>1, <2>1, <3>1, <3>2, <3>3
  <2>5. queue' \in [Jobs -> Entry] /\ \A k \in Jobs \ {j} : queue'[k] = queue[k]
    <3>1. UNCHANGED queue \/ Ack(w) \/ AckThrows(w) \/ Nack(w)
      BY <2>2
         DEF ServeStep, WorkerStep, WorkerFault, FindJob, StartProcessing, Process, Complete,
             FindCurrent, Count, MarkFailed, Refund, StepFails, HandlingFails, Crash
    <3> QED
      BY <1>1, <1>8, <3>1, EntryIsLeft
  <2>6. /\ refunded' \in [Jobs -> Nat] /\ \A k \in Jobs \ {j} : refunded'[k] = refunded[k]
    <3>1. UNCHANGED refunded \/ refunded' = [refunded EXCEPT ![j] = refunded[j] + 1]
      BY <1>8, <2>2
         DEF ServeStep, WorkerStep, WorkerFault, FindJob, StartProcessing, Process, Complete, history,
             FindCurrent, Count, MarkFailed, Refund, Ack, AckThrows, Nack, StepFails, HandlingFails, Crash
    <3> QED
      BY <1>1, <3>1
  <2>7. /\ announced' \in [Jobs -> JobStatus \union {"none"}]
        /\ \A k \in Jobs \ {j} : announced'[k] = announced[k]
    <3>1. UNCHANGED announced
          \/ \E s \in JobStatus \union {"none"} : announced' = [announced EXCEPT ![j] = s]
      BY <1>8, <2>1, <2>2
         DEF ServeStep, WorkerStep, WorkerFault, FindJob, StartProcessing, Process, Complete, history,
             FindCurrent, Count, MarkFailed, Refund, Ack, AckThrows, Nack, StepFails, HandlingFails, Crash,
             announce, Task, JobStatus
    <3> QED
      BY <1>1, <3>1
  <2> QED
    BY <1>6, <1>8, <2>1, <2>3, <2>4, <2>5, <2>6, <2>7
<1>9. worker[w] = "idle" => \E j \in Jobs : Take(w, j)
  BY DEF ServeStep, WorkerStep, WorkerFault, FindJob, StartProcessing, Process, Complete,
     FindCurrent, Count, MarkFailed, Refund, Ack, AckThrows, Nack, StepFails, HandlingFails, Crash
<1>10. CASE worker[w] = "idle"
  BY <1>4, <1>7, <1>9, <1>10
<1>11. CASE worker[w] # "idle"
  BY <1>1, <1>4, <1>8, <1>11
<1> QED
  BY <1>10, <1>11

LEMMA TypeNext == TypeInv /\ [Next]_vars => TypeInv'
<1> SUFFICES ASSUME TypeInv, [Next]_vars PROVE TypeInv'
  OBVIOUS
<1>1. CASE UNCHANGED vars
  BY <1>1 DEF vars, history, TypeInv, TypeOK, RowsExist, FaultsTypeOK
<1>2. CASE Next
  BY <1>2, JobStepIsLocal, ServeStepIsLocal DEF Next, JobStep, ServeStep
<1> QED
  BY <1>1, <1>2

\* Every variable keeps its type: a worker serves a job that has a row, and
\* writes back what it has read there.
THEOREM JobsTypeCorrect == Spec => []TypeOK
<1>1. TypeInv => TypeOK
  BY DEF TypeInv
<1> QED
  BY <1>1, TypeInit, TypeNext, PTL DEF Spec

-----------------------------------------------------------------------------
(***************************************************************************)
(* Attempts.                                                               *)
(***************************************************************************)

LEMMA CountInit == Init => CountInv
<1> SUFFICES ASSUME Init PROVE CountInv
  OBVIOUS
<1>1. ASSUME NEW j \in Jobs PROVE CountHolds(j)
  <2>1. /\ request[j] = "idle" /\ queue[j] = NotQueued /\ job[j] = NoJob /\ MayCount(j) = {}
    BY <1>1 DEF Init, MayCount, BeforeCount
  <2>2. AttemptsAreDeliveries(j)
    BY <2>1, FS_EmptySet, RowsAreTyped DEF AttemptsAreDeliveries, Deliveries
  <2>3. QueueWithinLimits(j)
    BY <2>1, RowsAreTyped, AttemptsArePositive, MaxStalledIsNat DEF QueueWithinLimits, Deliveries
  <2> QED
    BY <2>2, <2>3 DEF CountHolds
<1> QED
  BY <1>1, TypeInit DEF CountInv

LEMMA SameKeepsCount ==
  ASSUME NEW k \in Jobs, CountHolds(k), Same(k)
  PROVE  CountHolds(k)'
<1>1. MayCount(k)' = MayCount(k)
  BY DEF Same, MayCount, BeforeCount, On
<1>2. Deliveries(k)' = Deliveries(k)
  BY DEF Same, Deliveries
<1> QED
  BY <1>1, <1>2 DEF Same, CountHolds, AttemptsAreDeliveries, QueueWithinLimits

LEMMA JobStepCounts ==
  ASSUME CountInv, NEW j \in Jobs, JobStep(j)
  PROVE  CountHolds(j)'
<1>1. /\ TypeInv /\ queue[j] \in Entry /\ job[j] \in Job \union {NoJob}
      /\ job \in [Jobs -> Job \union {NoJob}] /\ request \in [Jobs -> RequestControl]
      /\ queue \in [Jobs -> Entry]
      /\ AttemptsAreDeliveries(j) /\ QueueWithinLimits(j)
      /\ QUEUE_ATTEMPTS \in Nat \ {0} /\ MAX_STALLED \in Nat
  BY AttemptsArePositive, MaxStalledIsNat DEF CountInv, TypeInv, TypeOK, CountHolds
<1>2. UNCHANGED <<worker, task>>
  BY <1>1, JobStepIsLocal
<1>3. MayCount(j)' = MayCount(j) /\ Cardinality(MayCount(j)) \in Nat
  BY <1>1, <1>2, FS_CardinalityType DEF MayCount, AttemptsAreDeliveries
<1>4. job'[j].attempts = job[j].attempts /\ (job[j] # NoJob => request[j] \notin {"idle", "creating"})
  <2>1. CASE Create(j)
    BY <1>1, <2>1, RowsAreTyped DEF Create, QueueWithinLimits
  <2>2. CASE CompensateFail(j) \/ CompleteManually(j)
    <3>1. job[j] # NoJob
      BY <1>1, <2>2 DEF TypeInv, RowsExist, CompensateFail, CompleteManually
    <3>2. PICK s \in JobStatus : updateStatus(j, s)
      BY <2>2 DEF CompensateFail, CompleteManually, JobStatus
    <3> QED
      BY <1>1, <3>1, <3>2, StatusIsWritten DEF QueueWithinLimits
  <2> QED
    BY <1>1, <2>1, <2>2
       DEF QueueWithinLimits, JobStep, Refuse, Deduct, RequestStep, Enqueue, CompensateRefund,
           EnqueueFails, RequestFails, Stalled, LockLost, Cancel, CheckManual
\* The deliveries do not get fewer.
<1>5. ASSUME Deliveries(j) <= Deliveries(j)', Deliveries(j)' <= QUEUE_ATTEMPTS + MAX_STALLED,
             Deliveries(j) \in Int, Deliveries(j)' \in Int,
             queue'[j].state \in {"waiting", "active"} =>
               queue'[j].made < QUEUE_ATTEMPTS /\ queue'[j].stalled <= MAX_STALLED,
             request'[j] \in {"idle", "creating", "enqueueing"} => queue'[j] = NotQueued,
             request'[j] \in {"idle", "creating"} => job'[j] = NoJob
      PROVE  CountHolds(j)'
  <2>1. job[j].attempts \in Nat
    BY <1>1, RowsAreTyped
  <2>2. AttemptsAreDeliveries(j)'
    BY <1>1, <1>3, <1>4, <1>5, <2>1 DEF AttemptsAreDeliveries
  <2> QED
    BY <1>5, <2>2 DEF CountHolds, QueueWithinLimits
<1>6. Deliveries(j) \in Nat
  BY <1>1, RowsAreTyped DEF Deliveries, Entry
<1>7. CASE Refuse(j) \/ Deduct(j) \/ Create(j)
  <2>1. /\ queue' = queue /\ queue[j] = NotQueued /\ Deliveries(j) = 0
        /\ request'[j] \in {"failed", "creating", "enqueueing"}
        /\ request'[j] = "creating" => job'[j] = NoJob
    BY <1>1, <1>7 DEF QueueWithinLimits, Deliveries, Refuse, Deduct, Create, RequestTo
  <2> QED
    BY <1>1, <1>5, <2>1, RowsAreTyped DEF Deliveries
<1>8. CASE Enqueue(j) \/ EnqueueFails(j)
  <2>1. /\ queue[j] = NotQueued /\ Deliveries(j) = 0 /\ request'[j] \in {"done", "refunding"}
    BY <1>1, <1>8 DEF QueueWithinLimits, Deliveries, Enqueue, EnqueueFails, RequestTo
  <2>2. \/ queue'[j] = NotQueued
        \/ queue'[j].state = "waiting" /\ queue'[j].made = 0 /\ queue'[j].stalled = 0
    BY <1>1, <1>8, <2>1, EntriesAreTyped DEF Enqueue, EnqueueFails, NotQueued
  <2>3. Deliveries(j)' \in {0, QUEUE_ATTEMPTS + MAX_STALLED}
    BY <2>1, <2>2, RowsAreTyped DEF Deliveries
  <2> QED
    BY <1>1, <1>5, <2>1, <2>2, <2>3, RowsAreTyped
<1>9. CASE CompensateRefund(j) \/ CompensateFail(j) \/ CheckManual(j) \/ CompleteManually(j)
  <2>1. /\ queue' = queue
        /\ request'[j] = request[j] \/ {request[j], request'[j]} \subseteq {"refunding", "failing", "failed"}
        /\ request'[j] \in {"idle", "creating"} => job'[j] = job[j]
    BY <1>1, <1>4, <1>9
       DEF CompensateRefund, CompensateFail, CheckManual, CompleteManually, RequestTo, TypeInv, RowsExist
  <2>2. Deliveries(j)' = Deliveries(j)
    BY <2>1 DEF Deliveries
  <2> QED
    BY <1>1, <1>5, <1>6, <2>1, <2>2 DEF QueueWithinLimits
<1>10. CASE RequestFails(j)
  <2>1. /\ queue' = queue /\ request'[j] = "failed"
        /\ request[j] \in {"creating", "enqueueing", "refunding", "failing"}
    BY <1>1, <1>10 DEF RequestFails, RequestTo
  <2>2. \/ Deliveries(j)' = Deliveries(j)
        \/ Deliveries(j) = 0 /\ Deliveries(j)' = QUEUE_ATTEMPTS + MAX_STALLED
    BY <1>1, <2>1, RowsAreTyped DEF Deliveries, QueueWithinLimits
  <2> QED
    BY <1>1, <1>5, <1>6, <2>1, <2>2 DEF QueueWithinLimits
<1>11. CASE Stalled(j) \/ LockLost(j)
  <2>1. Redeliver(j) /\ queue[j].state = "active" /\ UNCHANGED <<request, job>>
    BY <1>11 DEF Stalled, LockLost, Served
  <2>2. /\ request[j] \notin {"idle", "creating", "enqueueing"}
        /\ queue[j].made < QUEUE_ATTEMPTS /\ queue[j].stalled <= MAX_STALLED
    BY <1>1, <2>1, RowsAreTyped DEF QueueWithinLimits
  <2>3. /\ queue'[j].state = IF queue[j].stalled < MAX_STALLED THEN "waiting" ELSE "failed"
        /\ queue'[j].made = queue[j].made /\ queue'[j].stalled = queue[j].stalled + 1
        /\ queue[j].stalled \in Nat /\ queue[j].made \in Nat
    BY <1>1, <2>1, EntriesAreTyped DEF Entry
  <2>4. Deliveries(j)' = Deliveries(j)
    BY <2>1, <2>2, <2>3 DEF Deliveries
  <2> QED
    BY <1>1, <1>5, <1>6, <2>1, <2>2, <2>3, <2>4 DEF QueueWithinLimits
<1>12. CASE Cancel(j)
  <2>1. UNCHANGED <<request, job>> /\ (queue'[j] = queue[j] \/ queue'[j] = NotQueued)
    BY <1>1, <1>12 DEF Cancel
  <2>2. \/ Deliveries(j)' = Deliveries(j)
        \/ Deliveries(j)' = QUEUE_ATTEMPTS + MAX_STALLED
    BY <2>1, RowsAreTyped DEF Deliveries
  <2> QED
    BY <1>1, <1>5, <1>6, <2>1, <2>2, RowsAreTyped DEF QueueWithinLimits
<1> QED
  BY <1>7, <1>8, <1>9, <1>10, <1>11, <1>12 DEF JobStep, RequestStep

LEMMA ServeStepCounts ==
  ASSUME CountInv, NEW w \in Workers, ServeStep(w), NEW j \in Jobs, task'[w].job = j,
         worker[w] # "idle" => task[w].job = j,
         \A v \in Workers \ {w} : worker'[v] = worker[v] /\ task'[v] = task[v]
  PROVE  CountHolds(j)'
<1>1. /\ TypeInv /\ queue[j] \in Entry /\ job[j] \in Job \union {NoJob}
      /\ job \in [Jobs -> Job \union {NoJob}] /\ worker \in [Workers -> WorkerControl]
      /\ queue \in [Jobs -> Entry]
      /\ AttemptsAreDeliveries(j) /\ QueueWithinLimits(j)
      /\ QUEUE_ATTEMPTS \in Nat \ {0} /\ MAX_STALLED \in Nat
      /\ job[j].attempts \in Nat /\ queue[j].made \in Nat /\ queue[j].stalled \in Nat
  BY AttemptsArePositive, MaxStalledIsNat, RowsAreTyped DEF CountInv, TypeInv, TypeOK, CountHolds, Entry
<1>2. IsFiniteSet(MayCount(j)) /\ Cardinality(MayCount(j)) \in Nat /\ Deliveries(j) \in Nat
  BY <1>1, FS_CardinalityType DEF AttemptsAreDeliveries, Deliveries
<1>3. request' = request
  BY <1>1, ServeStepIsLocal
<1>4. worker[w] # "idle" => job[j] # NoJob
  BY <1>1 DEF TypeInv, RowsExist
<1>5. \A v \in Workers \ {w} : v \in MayCount(j)' <=> v \in MayCount(j)
  BY DEF MayCount
<1>6. CASE Take(w, j)
  <2>1. /\ UNCHANGED job /\ queue[j].state = "waiting" /\ worker[w] = "idle"
        /\ worker' = [worker EXCEPT ![w] = "find"]
    BY <1>6 DEF Take, WorkerTo
  <2> DEFINE e == [queue[j] EXCEPT !.state = "active", !.owner = w]
  <2>2. queue' = [queue EXCEPT ![j] = e] /\ e.state = "active" /\ e.made = queue[j].made
        /\ e.stalled = queue[j].stalled
    BY <1>1, <1>6 DEF Take, Entry
  <2> HIDE DEF e
  <2>3. queue'[j].state = "active" /\ queue'[j].made = queue[j].made /\ queue'[j].stalled = queue[j].stalled
    BY <1>1, <2>2
  <2>4. /\ request[j] \notin {"idle", "creating", "enqueueing"}
        /\ queue[j].made < QUEUE_ATTEMPTS /\ queue[j].stalled <= MAX_STALLED
    BY <1>1, <2>1, RowsAreTyped DEF QueueWithinLimits
  <2>5. Deliveries(j)' = Deliveries(j) + 1 /\ Deliveries(j) = queue[j].made + queue[j].stalled
    BY <1>1, <1>3, <2>1, <2>3, <2>4 DEF Deliveries
  <2>6. w \notin MayCount(j) /\ MayCount(j)' = MayCount(j) \union {w}
    BY <1>1, <1>5, <2>1 DEF MayCount, BeforeCount
  <2>7. IsFiniteSet(MayCount(j)') /\ Cardinality(MayCount(j)') = Cardinality(MayCount(j)) + 1
    BY <1>2, <2>6, FS_AddElement
  <2>8. AttemptsAreDeliveries(j)'
    BY <1>1, <1>2, <2>1, <2>5, <2>7 DEF AttemptsAreDeliveries
  <2>9. QueueWithinLimits(j)'
    BY <1>1, <1>3, <2>3, <2>4, <2>5 DEF QueueWithinLimits
  <2> QED
    BY <2>8, <2>9 DEF CountHolds
<1>7. ASSUME worker[w] # "idle", job'[j].attempts = job[j].attempts, worker'[w] # "find",
             worker[w] \in BeforeCount \/ worker'[w] \notin BeforeCount,
             Deliveries(j)' \in Nat, Deliveries(j) <= Deliveries(j)', QueueWithinLimits(j)'
      PROVE  CountHolds(j)'
  <2>1. MayCount(j)' \subseteq MayCount(j)
    BY <1>5, <1>7 DEF MayCount
  <2>2. IsFiniteSet(MayCount(j)') /\ Cardinality(MayCount(j)') \in Nat
        /\ Cardinality(MayCount(j)') <= Cardinality(MayCount(j))
    BY <1>2, <2>1, FS_Subset, FS_CardinalityType
  <2>3. AttemptsAreDeliveries(j)'
    BY <1>1, <1>2, <1>7, <2>2 DEF AttemptsAreDeliveries
  <2> QED
    BY <1>7, <2>3 DEF CountHolds
<1>8. CASE Count(w)
  <2>1. /\ worker[w] = "counting" /\ worker'[w] \in {"failing", "nack"} /\ queue' = queue
        /\ incrementAttempts(j) /\ job[j] # NoJob
    BY <1>1, <1>4, <1>8 DEF Count, WorkerTo
  <2>2. job'[j].attempts = job[j].attempts + 1 /\ job'[j] # NoJob
    BY <1>1, <2>1, AttemptIsCounted, RowsAreTyped
  <2>3. w \in MayCount(j) /\ MayCount(j)' = MayCount(j) \ {w}
    BY <1>5, <2>1 DEF MayCount, BeforeCount
  <2>4. IsFiniteSet(MayCount(j)') /\ Cardinality(MayCount(j)') = Cardinality(MayCount(j)) - 1
    BY <1>2, <2>3, FS_RemoveElement
  <2>5. Deliveries(j)' = Deliveries(j)
    BY <1>3, <2>1 DEF Deliveries
  <2>6. AttemptsAreDeliveries(j)'
    BY <1>1, <1>2, <2>2, <2>4, <2>5 DEF AttemptsAreDeliveries
  <2>7. request[j] \notin {"idle", "creating"}
    BY <1>1, <2>1 DEF QueueWithinLimits
  <2>8. QueueWithinLimits(j)'
    BY <1>1, <1>3, <2>1, <2>5, <2>7 DEF QueueWithinLimits
  <2> QED
    BY <2>6, <2>8 DEF CountHolds
<1>9. CASE Ack(w) \/ AckThrows(w) \/ Nack(w)
  <2>1. worker[w] \in {"ack", "nack"} /\ worker'[w] = "idle" /\ job' = job
    BY <1>1, <1>9 DEF Ack, AckThrows, Nack, WorkerTo
  <2>2. CASE ~Owns(w, j)
    <3>1. queue' = queue
      BY <1>1, <1>9, <2>1, <2>2, EntryIsLeft
    <3>2. Deliveries(j)' = Deliveries(j)
      BY <1>3, <3>1 DEF Deliveries
    <3> QED
      BY <1>1, <1>2, <1>3, <1>7, <2>1, <3>1, <3>2 DEF QueueWithinLimits, BeforeCount
  <2>3. CASE Owns(w, j)
    <3>1. /\ request[j] \notin {"idle", "creating", "enqueueing"}
          /\ queue[j].state = "active"
          /\ queue[j].made < QUEUE_ATTEMPTS /\ queue[j].stalled <= MAX_STALLED
      BY <1>1, <2>3, RowsAreTyped DEF QueueWithinLimits, Owns
    <3>2. CASE Ack(w)
      <4>1. queue'[j] = NotQueued
        BY <1>1, <2>1, <2>3, <3>2, EntryIsLeft
      <4>2. Deliveries(j)' = QUEUE_ATTEMPTS + MAX_STALLED
        BY <1>3, <3>1, <4>1, RowsAreTyped DEF Deliveries
      <4> QED
        BY <1>1, <1>2, <1>3, <1>7, <2>1, <3>1, <4>1, <4>2, RowsAreTyped DEF QueueWithinLimits, BeforeCount
    <3>3. CASE ~Ack(w)
      <4>1. /\ queue'[j].state = retryState(queue[j].made + 1)
            /\ queue'[j].made = queue[j].made + 1 /\ queue'[j].stalled = queue[j].stalled
        BY <1>1, <1>9, <2>1, <2>3, <3>3, EntryIsLeft
      <4>2. /\ queue'[j].state \in {"waiting", "failed"}
            /\ queue'[j].state = "waiting" => queue[j].made + 1 < QUEUE_ATTEMPTS
        BY <4>1 DEF retryState
      <4>3. Deliveries(j)' = Deliveries(j)
        BY <1>1, <1>3, <3>1, <4>1, <4>2 DEF Deliveries
      <4> QED
        BY <1>1, <1>2, <1>3, <1>7, <2>1, <3>1, <4>1, <4>2, <4>3 DEF QueueWithinLimits, BeforeCount
    <3> QED
      BY <1>9, <3>2, <3>3
  <2> QED
    BY <2>2, <2>3
<1>10. CASE \/ FindJob(w) \/ StartProcessing(w) \/ Process(w) \/ Complete(w) \/ StepFails(w)
            \/ FindCurrent(w) \/ MarkFailed(w) \/ Refund(w) \/ HandlingFails(w) \/ Crash(w)
  <2>1. /\ queue' = queue /\ worker[w] # "idle" /\ worker'[w] # "find"
        /\ worker[w] \in BeforeCount \/ worker'[w] \notin BeforeCount
    BY <1>1, <1>10
       DEF FindJob, StartProcessing, Process, Complete, StepFails, FindCurrent, MarkFailed, Refund,
           HandlingFails, Crash, WorkerTo, BeforeCount, WorkerControl
  <2>2. UNCHANGED job \/ \E s \in JobStatus : updateStatus(j, s)
    BY <1>10, <2>1
       DEF FindJob, StartProcessing, Process, Complete, StepFails, FindCurrent, MarkFailed, Refund,
           HandlingFails, Crash, JobStatus
  <2>3. job'[j].attempts = job[j].attempts
    BY <1>1, <1>4, <2>1, <2>2, StatusIsWritten
  <2>4. Deliveries(j)' = Deliveries(j)
    BY <1>3, <2>1 DEF Deliveries
  <2>5. request[j] \notin {"idle", "creating"}
    BY <1>1, <1>4, <2>1 DEF QueueWithinLimits
  <2>6. QueueWithinLimits(j)'
    BY <1>1, <1>3, <2>1, <2>4, <2>5 DEF QueueWithinLimits
  <2> QED
    BY <1>2, <1>7, <2>1, <2>3, <2>4, <2>6
<1>11. \A i \in Jobs : Take(w, i) => i = j
  <2> SUFFICES ASSUME NEW i \in Jobs, Take(w, i) PROVE i = j
    OBVIOUS
  <2>1. task \in [Workers -> Task \union {NoTask}]
    BY <1>1 DEF TypeInv, TypeOK
  <2>2. task'[w] = [job |-> i, attempts |-> 0, result |-> "none"]
    BY <2>1 DEF Take
  <2> QED
    BY <2>2
<1> QED
  BY <1>6, <1>8, <1>9, <1>10, <1>11 DEF ServeStep, WorkerStep, WorkerFault

LEMMA CountNext == CountInv /\ [Next]_vars => CountInv'
<1> SUFFICES ASSUME CountInv, [Next]_vars PROVE CountInv'
  OBVIOUS
<1>1. TypeInv /\ TypeInv' /\ \A j \in Jobs : CountHolds(j)
  BY TypeNext DEF CountInv
<1>2. CASE UNCHANGED vars
  <2>1. \A k \in Jobs : Same(k)
    BY <1>2 DEF vars, history, Same, On
  <2> QED
    BY <1>1, <2>1, SameKeepsCount DEF CountInv
<1>3. ASSUME NEW j \in Jobs, JobStep(j) PROVE CountInv'
  <2>1. \A k \in Jobs \ {j} : CountHolds(k)'
    BY <1>1, <1>3, JobStepIsLocal, SameKeepsCount
  <2>2. CountHolds(j)'
    BY <1>3, JobStepCounts
  <2> QED
    BY <1>1, <2>1, <2>2 DEF CountInv
<1>4. ASSUME NEW w \in Workers, ServeStep(w) PROVE CountInv'
  <2>1. PICK j \in Jobs :
          /\ task'[w].job = j /\ (worker[w] # "idle" => task[w].job = j)
          /\ \A k \in Jobs \ {j} : Same(k)
          /\ \A v \in Workers \ {w} : worker'[v] = worker[v] /\ task'[v] = task[v]
    BY <1>1, <1>4, ServeStepIsLocal
  <2>2. \A k \in Jobs \ {j} : CountHolds(k)'
    BY <1>1, <2>1, SameKeepsCount
  <2>3. CountHolds(j)'
    BY <1>4, <2>1, ServeStepCounts
  <2> QED
    BY <1>1, <2>2, <2>3 DEF CountInv
<1> QED
  BY <1>2, <1>3, <1>4 DEF Next, JobStep, ServeStep

LEMMA CountInvariant == Spec => []CountInv
BY CountInit, CountNext, PTL DEF Spec

\* The failures counted against a job never outnumber the deliveries the queue
\* grants it, whichever calls are rejected, whichever replies and locks are
\* lost, and whoever stops.
THEOREM AttemptsStayBounded == Spec => []AttemptsBounded
<1>1. CountInv => AttemptsBounded
  <2> SUFFICES ASSUME CountInv, NEW j \in Jobs
               PROVE  job[j].attempts <= QUEUE_ATTEMPTS + MAX_STALLED
    BY DEF AttemptsBounded
  <2>1. /\ IsFiniteSet(MayCount(j)) /\ job[j].attempts + Cardinality(MayCount(j)) <= Deliveries(j)
        /\ Deliveries(j) <= QUEUE_ATTEMPTS + MAX_STALLED
        /\ queue[j] \in Entry /\ job[j] \in Job \union {NoJob}
    BY DEF CountInv, CountHolds, AttemptsAreDeliveries, QueueWithinLimits, TypeInv, TypeOK
  <2>2. Cardinality(MayCount(j)) \in Nat /\ job[j].attempts \in Nat
    BY <2>1, FS_CardinalityType, RowsAreTyped
  <2>3. Deliveries(j) \in Nat
    BY <2>1, AttemptsArePositive, MaxStalledIsNat DEF Deliveries, Entry
  <2> QED
    BY <2>1, <2>2, <2>3, AttemptsArePositive, MaxStalledIsNat
<1> QED
  BY <1>1, CountInvariant, PTL

-----------------------------------------------------------------------------
(***************************************************************************)
(* Refunds and results, of one kind of fault.                              *)
(***************************************************************************)

LEMMA SettledInit == Init => SettledInv
<1> SUFFICES ASSUME Init PROVE SettledInv
  OBVIOUS
<1>1. ASSUME NEW j \in Jobs PROVE SettledHolds(j)
  <2>1. /\ request[j] = "idle" /\ queue[j].state = "none" /\ job[j] = NoJob /\ refunded[j] = 0
        /\ charged[j] = 0 /\ announced[j] = "none" /\ \A w \in Workers : ~On(w, j)
    BY <1>1, RowsAreTyped DEF Init, On
  <2> QED
    BY <2>1, RowsAreTyped DEF SettledHolds, OwnerServes, RequestHolds, WorkHolds, ResultHolds,
       CrashHolds, RejectHolds, isFinalState
<1> QED
  BY <1>1, CountInit DEF SettledInv

\* What has happened stays happened.
LEMMA KindsOnlyGrow ==
  ASSUME TypeInv, [Next]_vars
  PROVE  /\ happened \subseteq happened'
         /\ OneKindOfFault' => OneKindOfFault
         /\ OnlyCrashes' => OnlyCrashes
         /\ OnlyRejects' => OnlyRejects
<1>1. UNCHANGED happened \/ NothingHappens \/ \E kind : Happens(kind)
  BY DEF vars, Next, RequestStep, WorkerStep, WorkerFault, Take, FindJob, StartProcessing, Process,
     Complete, FindCurrent, Count, MarkFailed, Refund, Ack, AckThrows, Nack, StepFails, HandlingFails, Crash,
     Refuse, Deduct, Create, Enqueue, CompensateRefund, CompensateFail,
     EnqueueFails, RequestFails, Stalled, LockLost, Cancel, CheckManual, CompleteManually
<1>2. happened \subseteq happened'
  BY <1>1 DEF NothingHappens, Happens
<1> QED
  BY <1>2 DEF OneKindOfFault, OnlyCrashes, OnlyRejects

LEMMA SameKeepsSettled ==
  ASSUME TypeInv, [Next]_vars, NEW k \in Jobs, SettledHolds(k), Same(k)
  PROVE  SettledHolds(k)'
<1>1. /\ OneKindOfFault' => OneKindOfFault
      /\ OnlyCrashes' => OnlyCrashes
      /\ OnlyRejects' => OnlyRejects
  BY KindsOnlyGrow
<1>2. OwnerServes(k) => OwnerServes(k)'
  BY DEF Same, OwnerServes, Owns
<1>3. RequestHolds(k) => RequestHolds(k)'
  BY DEF Same, RequestHolds, Untouched
<1>4. WorkHolds(k) => WorkHolds(k)'
  BY DEF Same, WorkHolds, Untouched
<1>5. ResultHolds(k) => ResultHolds(k)'
  BY DEF Same, ResultHolds, Untouched
<1>6. CrashHolds(k) => CrashHolds(k)'
  BY DEF Same, CrashHolds, Untouched
<1>7. RejectHolds(k) => RejectHolds(k)'
  BY DEF Same, RejectHolds, ServesFinal, LastDelivery, Untouched
<1> QED
  BY <1>1, <1>2, <1>3, <1>4, <1>5, <1>6, <1>7 DEF SettledHolds

\* Nobody serves j and the queue will not deliver it (again): what is left is
\* what its request and its results say.
LEMMA UnservedHolds ==
  ASSUME NEW j \in Jobs, queue'[j].state \notin {"waiting", "active"},
         \A w \in Workers : ~On(w, j)', RequestHolds(j)', ResultHolds(j)',
         OnlyCrashes' /\ refunded'[j] > 0 /\ request'[j] = "done" => isFinalState(job'[j])
  PROVE  SettledHolds(j)'
<1>1. OwnerServes(j)' /\ WorkHolds(j)'
  BY DEF OwnerServes, WorkHolds
<1>2. OnlyCrashes' => CrashHolds(j)'
  BY DEF CrashHolds
<1>3. RejectHolds(j)'
  BY DEF RejectHolds
<1> QED
  BY <1>1, <1>2, <1>3 DEF SettledHolds

LEMMA JobStepSettles ==
  ASSUME SettledInv, NEW j \in Jobs, JobStep(j)
  PROVE  SettledHolds(j)'
<1> SUFFICES ASSUME OneKindOfFault' PROVE SettledHolds(j)'
  BY DEF SettledHolds, OneKindOfFault, OnlyRejects
<1>1. /\ CountInv /\ TypeInv /\ TypeInv' /\ [Next]_vars
      /\ UNCHANGED <<worker, task>> /\ \A w \in Workers : On(w, j)' <=> On(w, j)
  BY JobStepIsLocal DEF SettledInv, CountInv, Next, JobStep, On
<1>2. /\ OneKindOfFault /\ (OnlyCrashes' => OnlyCrashes) /\ (OnlyRejects' => OnlyRejects)
      /\ OwnerServes(j) /\ RequestHolds(j) /\ WorkHolds(j) /\ ResultHolds(j)
      /\ OnlyCrashes => CrashHolds(j)
      /\ OnlyRejects => RejectHolds(j)
  BY <1>1, KindsOnlyGrow DEF SettledInv, SettledHolds
<1>3. /\ job[j] \in Job \union {NoJob} /\ queue[j] \in Entry /\ refunded[j] \in Nat
      /\ job \in [Jobs -> Job \union {NoJob}] /\ request \in [Jobs -> RequestControl]
      /\ charged \in [Jobs -> 0..1] /\ refunded \in [Jobs -> Nat] /\ queue \in [Jobs -> Entry]
      /\ manual \in [Jobs -> {"idle", "checked", "done"}]
      /\ CountHolds(j)
  BY <1>1 DEF TypeInv, TypeOK, CountInv
<1>4. queue[j].state # "active" \/ ~Served(j) => \A w \in Workers : ~On(w, j)
  BY <1>2 DEF OwnerServes, Owns, On, Served
<1>5. request[j] # "done" => queue[j].state = "none" /\ \A w \in Workers : ~On(w, j)
  BY <1>2, <1>4 DEF RequestHolds
<1>6. CASE Refuse(j) \/ Deduct(j) \/ CompensateRefund(j) \/ RequestFails(j)
  <2>1. /\ request[j] # "done" /\ request'[j] # "done"
        /\ UNCHANGED <<job, queue, manual, announced>>
    BY <1>3, <1>6 DEF Refuse, Deduct, CompensateRefund, RequestFails, RequestTo, history
  <2>2. RequestHolds(j)'
    BY <1>2, <1>3, <1>6, <2>1, RowsAreTyped DEF Refuse, Deduct, CompensateRefund, RequestFails,
       RequestTo, history, RequestHolds, Untouched
  <2>3. ResultHolds(j)'
    <3>1. Untouched(j) => job[j].status # "COMPLETED"
      BY <1>2, <1>3, <2>1, RowsAreTyped DEF RequestHolds, RequestControl
    <3> QED
      BY <1>2, <2>1, <3>1 DEF ResultHolds, Untouched
  <2> QED
    BY <1>1, <1>5, <2>1, <2>2, <2>3, UnservedHolds
<1>7. CASE Create(j) \/ CompensateFail(j)
  <2>1. /\ request[j] \in {"creating", "failing"} /\ request'[j] \in {"enqueueing", "failed"}
        /\ UNCHANGED <<queue, manual, announced, charged, refunded>>
    BY <1>3, <1>7 DEF Create, CompensateFail, RequestTo, history
  <2>2. job'[j].status = IF request[j] = "creating" THEN "QUEUED" ELSE "FAILED"
    <3>1. CASE Create(j)
      BY <1>3, <3>1, RowsAreTyped DEF Create
    <3>2. CASE CompensateFail(j)
      <4>1. job[j] # NoJob
        BY <1>1, <3>2 DEF TypeInv, RowsExist, CompensateFail
      <4> QED
        BY <1>1, <3>2, <4>1, StatusIsWritten DEF CompensateFail, JobStatus
    <3> QED
      BY <1>7, <3>1, <3>2
  <2>3. request'[j] = IF request[j] = "creating" THEN "enqueueing" ELSE "failed"
    BY <1>3, <1>7 DEF Create, CompensateFail, RequestTo
  <2>4. RequestHolds(j)'
    BY <1>2, <1>5, <2>1, <2>2, <2>3 DEF RequestHolds, Untouched
  <2>5. ResultHolds(j)'
    <3>1. Untouched(j) => job[j].status # "COMPLETED"
      BY <1>2, <1>3, <2>1, RowsAreTyped DEF RequestHolds
    <3> QED
      BY <1>2, <2>1, <2>2, <3>1 DEF ResultHolds, Untouched
  <2> QED
    BY <1>1, <1>5, <2>1, <2>4, <2>5, UnservedHolds
<1>8. CASE Enqueue(j)
  <2>1. /\ request[j] = "enqueueing" /\ request'[j] = "done" /\ refunded[j] = 0 /\ charged[j] = 1
        /\ UNCHANGED <<job, manual, charged, refunded, announced>> /\ add(j)
    BY <1>2, <1>3, <1>8 DEF Enqueue, RequestTo, history, RequestHolds
  <2>2. queue'[j].state = "waiting" /\ queue'[j].made = 0
    BY <1>1, <1>3, <2>1, EntriesAreTyped DEF CountHolds, QueueWithinLimits, NotQueued
  <2>3. job[j].attempts = 0
    <3>1. job[j].attempts + Cardinality(MayCount(j)) <= 0 /\ IsFiniteSet(MayCount(j))
      BY <1>3, <2>1 DEF CountHolds, AttemptsAreDeliveries, Deliveries
    <3>2. Cardinality(MayCount(j)) \in Nat /\ job[j].attempts \in Nat
      BY <1>3, <3>1, FS_CardinalityType, RowsAreTyped
    <3> QED
      BY <3>1, <3>2
  <2>4. \A w \in Workers : ~On(w, j)'
    BY <1>1, <1>5, <2>1
  <2>5. Untouched(j) => job[j].status = "QUEUED"
    BY <1>2, <2>1 DEF RequestHolds
  <2>6. RequestHolds(j)' /\ ResultHolds(j)'
    BY <1>2, <2>1 DEF RequestHolds, ResultHolds, Untouched
  <2>7. OwnerServes(j)' /\ WorkHolds(j)' /\ CrashHolds(j)'
    BY <2>1, <2>4 DEF OwnerServes, WorkHolds, CrashHolds
  <2>8. RejectHolds(j)'
    BY <2>1, <2>2, <2>3, <2>4, <2>5 DEF RejectHolds, Untouched, isFinalState
  <2> QED
    BY <2>6, <2>7, <2>8 DEF SettledHolds
<1>9. CASE EnqueueFails(j)
  <2>1. /\ request[j] = "enqueueing" /\ request'[j] = "refunding"
        /\ UNCHANGED <<job, manual, charged, refunded, announced>>
    BY <1>3, <1>9 DEF EnqueueFails, RequestTo, history
  <2>2. queue' = queue
    BY <1>9 DEF EnqueueFails, Happens, OneKindOfFault, OnlyCrashes
  <2>3. RequestHolds(j)' /\ ResultHolds(j)'
    BY <1>2, <2>1, <2>2 DEF RequestHolds, ResultHolds, Untouched
  <2> QED
    BY <1>1, <1>5, <2>1, <2>2, <2>3, UnservedHolds
<1>10. CASE Stalled(j)
  <2>1. /\ queue[j].state = "active" /\ ~Served(j) /\ Redeliver(j) /\ UNCHANGED happened
        /\ UNCHANGED <<job, request, manual, charged, refunded, announced>>
    BY <1>10 DEF Stalled, history, NothingHappens
  <2>2. \A w \in Workers : ~On(w, j)'
    BY <1>1, <1>4, <2>1
  <2>3. request[j] = "done"
    BY <1>2, <2>1 DEF RequestHolds
  <2>4. RequestHolds(j)' /\ ResultHolds(j)'
    BY <1>2, <2>1, <2>3 DEF RequestHolds, ResultHolds, Untouched
  <2>5. OwnerServes(j)' /\ WorkHolds(j)' /\ (OnlyCrashes' => CrashHolds(j)')
    BY <1>2, <2>1, <2>2 DEF OwnerServes, WorkHolds, CrashHolds
  <2>6. ~OnlyRejects'
    BY <1>1, <1>2, <2>1, <2>2 DEF RejectHolds
  <2> QED
    BY <2>4, <2>5, <2>6 DEF SettledHolds
<1>11. CASE LockLost(j)
  BY <1>11 DEF LockLost, Happens, OneKindOfFault, OnlyCrashes
<1>12. CASE Cancel(j)
  <2>1. UNCHANGED <<job, request, manual, charged, refunded, announced, happened>>
    BY <1>12 DEF Cancel, NothingHappens
  <2>2. CASE queue' = queue
    <3>1. Same(j)
      BY <1>1, <2>1, <2>2 DEF Same
    <3> QED
      BY <1>1, <3>1, SameKeepsSettled DEF SettledInv
  <2>3. CASE ~Served(j) /\ queue' = [queue EXCEPT ![j] = NotQueued]
    <3>1. queue'[j].state = "none"
      BY <1>3, <2>3, RowsAreTyped
    <3>2. RequestHolds(j)' /\ ResultHolds(j)'
      BY <1>2, <2>1, <3>1 DEF RequestHolds, ResultHolds, Untouched
    <3>3. OnlyCrashes' /\ refunded'[j] > 0 /\ request'[j] = "done" => isFinalState(job'[j])
      BY <1>2, <2>1 DEF CrashHolds
    <3> QED
      BY <1>1, <1>4, <2>3, <3>1, <3>2, <3>3, UnservedHolds
  <2> QED
    BY <1>12, <2>2, <2>3 DEF Cancel
<1>13. CASE CheckManual(j)
  <2>1. /\ UNCHANGED <<job, request, queue, charged, refunded, announced>>
        /\ Untouched(j)' = Untouched(j)
    BY <1>3, <1>13 DEF CheckManual, history, Untouched
  <2>2. OwnerServes(j)' /\ RequestHolds(j)'
    BY <1>1, <1>2, <2>1 DEF OwnerServes, Owns, RequestHolds
  <2>3. WorkHolds(j)' /\ ResultHolds(j)'
    BY <1>1, <1>2, <2>1 DEF WorkHolds, ResultHolds
  <2>4. OnlyCrashes' => CrashHolds(j)'
    BY <1>1, <1>2, <2>1 DEF CrashHolds
  <2>5. OnlyRejects' => RejectHolds(j)'
    BY <1>1, <1>2, <2>1 DEF RejectHolds, ServesFinal, LastDelivery
  <2> QED
    BY <2>2, <2>3, <2>4, <2>5 DEF SettledHolds
<1>14. CASE CompleteManually(j)
  <2>1. /\ UNCHANGED <<request, queue, charged, refunded, announced>>
        /\ ~Untouched(j)' /\ updateStatus(j, "COMPLETED") /\ job[j] # NoJob
    BY <1>1, <1>3, <1>14 DEF CompleteManually, history, Untouched, TypeInv, RowsExist
  <2>2. job'[j] # NoJob /\ isFinalState(job'[j]) /\ job'[j].attempts = job[j].attempts
    BY <1>1, <2>1, StatusIsWritten, RowsAreTyped DEF isFinalState, JobStatus
  <2>3. OwnerServes(j)' /\ RequestHolds(j)'
    BY <1>1, <1>2, <1>5, <2>1, <2>2, RowsAreTyped DEF OwnerServes, Owns, RequestHolds
  <2>4. WorkHolds(j)' /\ ResultHolds(j)' /\ CrashHolds(j)'
    BY <1>1, <1>2, <2>1, <2>2 DEF WorkHolds, ResultHolds, CrashHolds
  <2>5. OnlyRejects' => RejectHolds(j)'
    BY <1>1, <1>2, <2>1, <2>2 DEF RejectHolds, ServesFinal, LastDelivery
  <2> QED
    BY <2>3, <2>4, <2>5 DEF SettledHolds
<1> QED
  BY <1>6, <1>7, <1>8, <1>9, <1>10, <1>11, <1>12, <1>13, <1>14 DEF JobStep, RequestStep

LEMMA ServeStepSettles ==
  ASSUME MAX_ATTEMPTS >= QUEUE_ATTEMPTS, SettledInv, NEW w \in Workers, ServeStep(w),
         NEW j \in Jobs, task'[w].job = j, worker[w] # "idle" => task[w].job = j,
         \A v \in Workers \ {w} : worker'[v] = worker[v] /\ task'[v] = task[v]
  PROVE  SettledHolds(j)'
<1> SUFFICES ASSUME OneKindOfFault' PROVE SettledHolds(j)'
  BY DEF SettledHolds, OneKindOfFault, OnlyRejects
<1>1. /\ CountInv /\ TypeInv /\ TypeInv' /\ [Next]_vars
      /\ UNCHANGED <<request, manual, charged>> /\ Untouched(j)' = Untouched(j)
  BY ServeStepIsLocal DEF SettledInv, CountInv, Next, ServeStep, Untouched
<1>2. /\ OneKindOfFault /\ (OnlyCrashes' => OnlyCrashes) /\ (OnlyRejects' => OnlyRejects)
      /\ OwnerServes(j) /\ RequestHolds(j) /\ WorkHolds(j) /\ ResultHolds(j)
      /\ OnlyCrashes => CrashHolds(j)
      /\ OnlyRejects => RejectHolds(j)
  BY <1>1, KindsOnlyGrow DEF SettledInv, SettledHolds
<1>3. /\ queue[j] \in Entry /\ job[j] \in Job \union {NoJob} /\ refunded[j] \in Nat
      /\ job[j].attempts \in Nat /\ queue[j].made \in Nat
      /\ worker \in [Workers -> WorkerControl] /\ task \in [Workers -> Task \union {NoTask}]
      /\ queue \in [Jobs -> Entry] /\ refunded \in [Jobs -> Nat]
      /\ announced \in [Jobs -> JobStatus \union {"none"}]
      /\ worker[w] # "idle" => job[j] # NoJob /\ task[w] \in Task
  BY <1>1, RowsAreTyped DEF TypeInv, TypeOK, RowsExist, Entry
<1>4. \A v \in Workers \ {w} : On(v, j)' <=> On(v, j)
  BY DEF On
<1>5. worker[w] # "idle" =>
        /\ On(w, j) /\ queue[j].state = "active" /\ queue[j].owner = w
        /\ request[j] = "done" /\ charged[j] = 1
        /\ \A v \in Workers \ {w} : ~On(v, j)'
  BY <1>2, <1>4 DEF On, OwnerServes, Owns, RequestHolds
\* The step goes on with j.
<1>6. ASSUME worker[w] # "idle", UNCHANGED <<queue, announced>>, refunded'[j] <= 1,
             worker'[w] \notin {"find", "ack", "nack"} => refunded'[j] = 0,
             worker'[w] \in {"start", "processing", "completing", "failing"} /\ Untouched(j) =>
               ~isFinalState(job'[j]),
             worker'[w] = "refunding" /\ Untouched(j) => job'[j].status = "FAILED",
             worker'[w] = "ack" /\ Untouched(j) => task'[w].result = job'[j].status,
             worker'[w] # "idle", ResultHolds(j)',
             OnlyCrashes' =>
               /\ refunded'[j] > 0 \/ worker'[w] = "refunding" => isFinalState(job'[j])
               /\ worker'[w] \in {"handling", "counting"} /\ Untouched(j) => ~isFinalState(job'[j]),
             OnlyRejects' =>
               /\ job'[j].attempts <= queue[j].made +
                    (IF worker'[w] \in {"failing", "refunding", "nack"} THEN 1 ELSE 0)
               /\ worker'[w] = "counting" => task'[w].attempts = job'[j].attempts + 1
               /\ worker'[w] \in {"failing", "refunding"} => LastDelivery(j)
               /\ refunded'[j] > 0 => worker'[w] = "nack" /\ LastDelivery(j)
               /\ isFinalState(job'[j]) /\ Untouched(j) =>
                    \/ worker'[w] = "ack"
                    \/ worker'[w] \in {"refunding", "nack"} /\ LastDelivery(j)
                    \/ worker'[w] \in {"handling", "counting"} /\ job'[j].attempts < queue[j].made
                    \/ worker'[w] = "nack" /\ job'[j].attempts <= queue[j].made
      PROVE  SettledHolds(j)'
  <2>1. On(w, j)' /\ LastDelivery(j)' = LastDelivery(j)
    BY <1>6 DEF On, LastDelivery
  <2>2. OwnerServes(j)' /\ RequestHolds(j)'
    BY <1>1, <1>5, <1>6 DEF OwnerServes, Owns, RequestHolds
  <2>3. WorkHolds(j)'
    BY <1>1, <1>5, <1>6 DEF WorkHolds
  <2>4. OnlyCrashes' => CrashHolds(j)'
    BY <1>1, <1>5, <1>6 DEF CrashHolds
  <2>5. OnlyRejects' => RejectHolds(j)'
    BY <1>1, <1>5, <1>6, <2>1 DEF RejectHolds, ServesFinal
  <2> QED
    BY <1>6, <2>2, <2>3, <2>4, <2>5 DEF SettledHolds
<1>7. ASSUME NEW label, WorkerTo(w, label) PROVE worker'[w] = label
  BY <1>3, <1>7 DEF WorkerTo
<1>8. CASE Take(w, j)
  <2>1. /\ worker[w] = "idle" /\ worker'[w] = "find" /\ queue[j].state = "waiting"
        /\ UNCHANGED <<job, refunded, announced>>
    BY <1>7, <1>8 DEF Take, history
  <2> DEFINE e == [queue[j] EXCEPT !.state = "active", !.owner = w]
  <2>2. /\ queue' = [queue EXCEPT ![j] = e] /\ e.state = "active" /\ e.owner = w
        /\ e.made = queue[j].made
    BY <1>3, <1>8 DEF Take, Entry
  <2> HIDE DEF e
  <2>3. queue'[j].state = "active" /\ queue'[j].owner = w /\ queue'[j].made = queue[j].made
    BY <1>3, <2>2
  <2>4. On(w, j)' /\ \A v \in Workers \ {w} : ~On(v, j)'
    BY <1>2, <1>4, <2>1 DEF On, OwnerServes, Owns
  <2>5. OwnerServes(j)' /\ RequestHolds(j)'
    BY <1>1, <1>2, <2>1, <2>3, <2>4 DEF OwnerServes, Owns, RequestHolds
  <2>6. WorkHolds(j)' /\ ResultHolds(j)'
    BY <1>1, <1>2, <2>1, <2>4 DEF WorkHolds, ResultHolds
  <2>7. OnlyCrashes' => CrashHolds(j)'
    BY <1>1, <1>2, <2>1, <2>4 DEF CrashHolds
  <2>8. OnlyRejects' => RejectHolds(j)'
    BY <1>1, <1>2, <1>3, <2>1, <2>3, <2>4 DEF RejectHolds, ServesFinal
  <2> QED
    BY <2>5, <2>6, <2>7, <2>8 DEF SettledHolds
<1>9. CASE FindJob(w)
  <2>1. /\ worker[w] = "find" /\ UNCHANGED <<job, queue, refunded, announced>>
        /\ \/ isFinalState(job[j]) /\ worker'[w] = "ack" /\ task'[w].result = job[j].status
           \/ ~isFinalState(job[j]) /\ worker'[w] = "start"
    <3>1. CASE isFinalState(job[j])
      BY <1>3, <1>7, <1>9, <3>1 DEF FindJob, history, Task
    <3>2. CASE ~isFinalState(job[j])
      BY <1>3, <1>7, <1>9, <3>2 DEF FindJob, history
    <3> QED
      BY <3>1, <3>2
  <2>2. refunded[j] <= 1 /\ (~isFinalState(job[j]) => refunded[j] = 0)
    BY <1>2, <1>3, <1>5, <2>1
       DEF RequestHolds, OneKindOfFault, CrashHolds, RejectHolds, OnlyRejects
  <2>3. ResultHolds(j)'
    BY <1>1, <1>2, <2>1 DEF ResultHolds
  <2>4. OnlyRejects =>
          job[j].attempts <= queue[j].made /\ refunded[j] = 0
    BY <1>2, <1>3, <1>5, <2>1 DEF RejectHolds
  <2> QED
    BY <1>2, <1>3, <1>6, <2>1, <2>2, <2>3, <2>4 DEF CrashHolds
<1>10. CASE StartProcessing(w)
  <2>1. /\ worker[w] = "start" /\ worker'[w] = "processing" /\ updateStatus(j, "PROCESSING")
        /\ UNCHANGED <<queue, task, refunded, announced>>
    BY <1>7, <1>10 DEF StartProcessing, history
  <2>2. /\ job'[j].status = "PROCESSING" /\ job'[j].attempts = job[j].attempts
        /\ ~isFinalState(job'[j])
    BY <1>1, <1>3, <2>1, StatusIsWritten DEF JobStatus, isFinalState
  <2>3. refunded[j] = 0 /\ (Untouched(j) => ~isFinalState(job[j]))
    BY <1>2, <1>5, <2>1 DEF WorkHolds
  <2>4. ResultHolds(j)'
    BY <1>1, <1>2, <2>1, <2>2, <2>3 DEF ResultHolds, isFinalState
  <2>5. OnlyRejects => job[j].attempts <= queue[j].made
    BY <1>2, <1>3, <1>5, <2>1 DEF RejectHolds
  <2> QED
    BY <1>2, <1>3, <1>6, <2>1, <2>2, <2>3, <2>4, <2>5
<1>11. CASE Process(w)
  <2>1. /\ worker[w] = "processing" /\ worker'[w] \in {"completing", "handling"}
        /\ UNCHANGED <<job, queue, task, refunded, announced>>
    BY <1>7, <1>11 DEF Process, history
  <2>2. refunded[j] = 0 /\ (Untouched(j) => ~isFinalState(job[j]))
    BY <1>2, <1>5, <2>1 DEF WorkHolds
  <2>3. ResultHolds(j)'
    BY <1>1, <1>2, <2>1 DEF ResultHolds
  <2>4. OnlyRejects => job[j].attempts <= queue[j].made
    BY <1>2, <1>3, <1>5, <2>1 DEF RejectHolds
  <2> QED
    BY <1>2, <1>3, <1>6, <2>1, <2>2, <2>3, <2>4
<1>12. CASE Complete(w)
  <2>1. /\ worker[w] = "completing" /\ worker'[w] = "ack" /\ updateStatus(j, "COMPLETED")
        /\ UNCHANGED <<queue, refunded, announced>> /\ task'[w].result = "COMPLETED"
    BY <1>3, <1>7, <1>12 DEF Complete, history, Task
  <2>2. job'[j].status = "COMPLETED" /\ job'[j].attempts = job[j].attempts
    BY <1>1, <1>3, <2>1, StatusIsWritten DEF JobStatus
  <2>3. refunded[j] = 0
    BY <1>2, <1>5, <2>1 DEF WorkHolds
  <2>4. ResultHolds(j)'
    BY <2>1, <2>2, <2>3 DEF ResultHolds
  <2>5. OnlyRejects => job[j].attempts <= queue[j].made
    BY <1>2, <1>3, <1>5, <2>1 DEF RejectHolds
  <2> QED
    BY <1>2, <1>3, <1>6, <2>1, <2>2, <2>3, <2>4, <2>5
<1>13. CASE StepFails(w) \/ HandlingFails(w)
  <2>1. /\ worker[w] \in {"find", "start", "processing", "completing"} /\ worker'[w] = "handling"
        \/ /\ worker[w] \in {"handling", "counting", "failing", "refunding"}
           /\ worker'[w] = "nack"
    BY <1>7, <1>13 DEF StepFails, HandlingFails
  <2>2. /\ UNCHANGED <<job, queue, task, refunded, announced>>
        /\ ~OnlyCrashes' /\ OnlyRejects'
    BY <1>13 DEF StepFails, HandlingFails, history, Happens, OneKindOfFault, OnlyCrashes, OnlyRejects
  <2>3. /\ refunded[j] = 0 /\ job[j].attempts <= queue[j].made + 1
        /\ worker'[w] = "handling" => job[j].attempts <= queue[j].made
        /\ isFinalState(job[j]) /\ Untouched(j) =>
             \/ worker[w] = "refunding" /\ LastDelivery(j)
             \/ job[j].attempts < queue[j].made
    BY <1>2, <1>3, <1>5, <2>1, <2>2 DEF RejectHolds, ServesFinal
  <2>4. ResultHolds(j)'
    BY <1>1, <1>2, <2>2 DEF ResultHolds
  <2> QED
    BY <1>3, <1>6, <2>1, <2>2, <2>3, <2>4
<1>14. CASE FindCurrent(w)
  <2>1. /\ worker[w] = "handling" /\ worker'[w] = "counting"
        /\ UNCHANGED <<job, queue, refunded, announced>>
        /\ task'[w].attempts = job[j].attempts + 1
    BY <1>3, <1>7, <1>14 DEF FindCurrent, history, Task
  <2>2. refunded[j] = 0
    BY <1>2, <1>5, <2>1 DEF WorkHolds
  <2>3. ResultHolds(j)'
    BY <1>1, <1>2, <2>1 DEF ResultHolds
  <2>4. OnlyRejects =>
          /\ job[j].attempts <= queue[j].made
          /\ isFinalState(job[j]) /\ Untouched(j) => job[j].attempts < queue[j].made
    BY <1>2, <1>3, <1>5, <2>1 DEF RejectHolds, ServesFinal
  <2>5. OnlyCrashes => (Untouched(j) => ~isFinalState(job[j]))
    BY <1>2, <1>5, <2>1 DEF CrashHolds
  <2> QED
    BY <1>2, <1>3, <1>6, <2>1, <2>2, <2>3, <2>4, <2>5
\* A failure that is the last to be counted is counted of the last delivery.
<1>15. CASE Count(w)
  <2>1. /\ worker[w] = "counting" /\ UNCHANGED <<queue, task, refunded, announced>>
        /\ incrementAttempts(j)
        /\ worker'[w] = IF isMaxAttemptsExceeded(task[w].attempts) THEN "failing" ELSE "nack"
    BY <1>7, <1>15 DEF Count, history
  <2>2. job'[j].status = job[j].status /\ job'[j].attempts = job[j].attempts + 1
    BY <1>1, <1>3, <2>1, AttemptIsCounted
  <2>3. refunded[j] = 0
    BY <1>2, <1>5, <2>1 DEF WorkHolds
  <2>4. ResultHolds(j)'
    BY <1>1, <1>2, <2>1, <2>2 DEF ResultHolds
  <2>5. isFinalState(job'[j]) <=> isFinalState(job[j])
    BY <2>2 DEF isFinalState
  <2>6. queue[j].made < QUEUE_ATTEMPTS
    BY <1>1, <1>5, <2>1 DEF CountInv, CountHolds, QueueWithinLimits
  <2>7. OnlyRejects =>
          /\ job[j].attempts <= queue[j].made
          /\ worker'[w] = "failing" => LastDelivery(j)
          /\ isFinalState(job[j]) /\ Untouched(j) =>
               worker'[w] = "nack" /\ job[j].attempts < queue[j].made
    <3>1. OnlyRejects =>
            /\ job[j].attempts <= queue[j].made /\ task[w].attempts = job[j].attempts + 1
            /\ isFinalState(job[j]) /\ Untouched(j) => job[j].attempts < queue[j].made
      BY <1>2, <1>3, <1>5, <2>1 DEF RejectHolds, ServesFinal
    <3> QED
      BY <1>3, <2>1, <2>6, <3>1, AttemptsArePositive DEF isMaxAttemptsExceeded, LastDelivery
  <2>8. OnlyCrashes => (Untouched(j) => ~isFinalState(job[j]))
    BY <1>2, <1>5, <2>1 DEF CrashHolds
  <2> QED
    BY <1>2, <1>3, <1>6, <2>1, <2>2, <2>3, <2>4, <2>5, <2>7, <2>8 DEF OneKindOfFault, OnlyRejects
<1>16. CASE MarkFailed(w)
  <2>1. /\ worker[w] = "failing" /\ worker'[w] = "refunding" /\ updateStatus(j, "FAILED")
        /\ UNCHANGED <<queue, task, refunded, announced>>
    BY <1>7, <1>16 DEF MarkFailed, history
  <2>2. /\ job'[j].status = "FAILED" /\ job'[j].attempts = job[j].attempts
        /\ isFinalState(job'[j])
    BY <1>1, <1>3, <2>1, StatusIsWritten DEF JobStatus, isFinalState
  <2>3. refunded[j] = 0 /\ (Untouched(j) => ~isFinalState(job[j]))
    BY <1>2, <1>5, <2>1 DEF WorkHolds
  <2>4. ResultHolds(j)'
    BY <1>1, <1>2, <2>1, <2>2, <2>3 DEF ResultHolds, isFinalState
  <2>5. OnlyRejects => job[j].attempts <= queue[j].made + 1 /\ LastDelivery(j)
    BY <1>2, <1>3, <1>5, <2>1 DEF RejectHolds
  <2> QED
    BY <1>2, <1>3, <1>6, <2>1, <2>2, <2>3, <2>4, <2>5
<1>17. CASE Refund(w)
  <2>1. /\ worker[w] = "refunding" /\ worker'[w] = "nack" /\ refunded'[j] = refunded[j] + 1
        /\ UNCHANGED <<job, queue, task, announced>>
    BY <1>3, <1>7, <1>17 DEF Refund
  <2>2. refunded[j] = 0 /\ (Untouched(j) => job[j].status = "FAILED")
    BY <1>2, <1>5, <2>1 DEF WorkHolds
  <2>3. ResultHolds(j)'
    BY <1>1, <1>2, <2>1, <2>2 DEF ResultHolds
  <2>4. OnlyRejects => job[j].attempts <= queue[j].made + 1 /\ LastDelivery(j)
    BY <1>2, <1>3, <1>5, <2>1 DEF RejectHolds
  <2>5. OnlyCrashes => isFinalState(job[j])
    BY <1>2, <1>5, <2>1 DEF CrashHolds
  <2> QED
    BY <1>2, <1>3, <1>6, <2>1, <2>2, <2>3, <2>4, <2>5
\* The step leaves j.
<1>18. CASE Ack(w)
  <2>1. /\ worker[w] = "ack" /\ worker'[w] = "idle" /\ UNCHANGED <<job, task, refunded>>
        /\ announced'[j] = task[w].result
    BY <1>3, <1>7, <1>18 DEF Ack, announce
  <2>2. queue'[j] = NotQueued
    BY <1>1, <1>5, <1>18, <2>1, EntryIsLeft DEF Owns
  <2>3. \A v \in Workers : ~On(v, j)'
    BY <1>5, <2>1 DEF On
  <2>4. RequestHolds(j)'
    BY <1>1, <1>2, <1>5, <2>1 DEF RequestHolds
  <2>5. ResultHolds(j)'
    BY <1>1, <1>2, <1>5, <2>1 DEF ResultHolds, WorkHolds
  <2>6. OnlyCrashes' /\ refunded'[j] > 0 => isFinalState(job'[j])
    BY <1>2, <1>5, <2>1 DEF CrashHolds
  <2> QED
    BY <2>2, <2>3, <2>4, <2>5, <2>6, UnservedHolds, RowsAreTyped
<1>19. CASE AckThrows(w) \/ Nack(w)
  <2>1. /\ worker[w] \in {"ack", "nack"} /\ worker'[w] = "idle" /\ UNCHANGED <<job, task, refunded>>
        /\ announced'[j] \in {announced[j], "FAILED"} /\ ~Ack(w)
    BY <1>3, <1>7, <1>19 DEF Ack, AckThrows, Nack, announce, history
  <2>2. /\ queue'[j].made = queue[j].made + 1
        /\ queue'[j].state = IF queue[j].made + 1 < QUEUE_ATTEMPTS THEN "waiting" ELSE "failed"
    BY <1>1, <1>5, <1>19, <2>1, EntryIsLeft DEF Owns, retryState
  <2>3. \A v \in Workers : ~On(v, j)'
    BY <1>5, <2>1 DEF On
  <2>4. RequestHolds(j)' /\ ResultHolds(j)'
    BY <1>1, <1>2, <1>5, <2>1 DEF RequestHolds, ResultHolds
  <2>5. OwnerServes(j)' /\ WorkHolds(j)'
    BY <2>3 DEF OwnerServes, WorkHolds
  <2>6. OnlyCrashes' => CrashHolds(j)'
    BY <1>2, <1>5, <2>1, <2>3 DEF CrashHolds
  <2>7. OnlyRejects' => RejectHolds(j)'
    <3>1. queue'[j].state = "waiting" => ~LastDelivery(j)
      BY <1>3, <2>2, AttemptsArePositive DEF LastDelivery
    <3>2. OnlyRejects =>
            /\ job[j].attempts <= queue[j].made + 1
            /\ refunded[j] > 0 => LastDelivery(j)
            /\ isFinalState(job[j]) /\ Untouched(j) =>
                 LastDelivery(j) \/ job[j].attempts <= queue[j].made
      BY <1>2, <1>3, <1>5, <2>1 DEF RejectHolds, ServesFinal
    <3> QED
      BY <1>1, <1>2, <1>3, <2>1, <2>2, <2>3, <3>1, <3>2 DEF RejectHolds
  <2> QED
    BY <2>4, <2>5, <2>6, <2>7 DEF SettledHolds
<1>20. CASE Crash(w)
  <2>1. /\ worker[w] # "idle" /\ worker'[w] = "idle" /\ ~OnlyRejects'
        /\ UNCHANGED <<job, queue, task, refunded, announced>>
    BY <1>7, <1>20 DEF Crash, Happens, history, OnlyRejects
  <2>2. \A v \in Workers : ~On(v, j)'
    BY <1>5, <2>1 DEF On
  <2>3. RequestHolds(j)' /\ ResultHolds(j)'
    BY <1>1, <1>2, <2>1 DEF RequestHolds, ResultHolds
  <2>4. OwnerServes(j)' /\ WorkHolds(j)'
    BY <2>2 DEF OwnerServes, WorkHolds
  <2>5. OnlyCrashes' => CrashHolds(j)'
    BY <1>1, <1>2, <2>1, <2>2 DEF CrashHolds
  <2> QED
    BY <2>1, <2>3, <2>4, <2>5 DEF SettledHolds
<1>21. \A i \in Jobs : Take(w, i) => i = j
  <2> SUFFICES ASSUME NEW i \in Jobs, Take(w, i) PROVE i = j
    OBVIOUS
  <2>1. task'[w] = [job |-> i, attempts |-> 0, result |-> "none"]
    BY <1>3 DEF Take
  <2> QED
    BY <2>1
<1> QED
  BY <1>8, <1>9, <1>10, <1>11, <1>12, <1>13, <1>14, <1>15, <1>16, <1>17, <1>18, <1>19, <1>20, <1>21
     DEF ServeStep, WorkerStep, WorkerFault

LEMMA SettledNext ==
  ASSUME MAX_ATTEMPTS >= QUEUE_ATTEMPTS
  PROVE  SettledInv /\ [Next]_vars => SettledInv'
<1> SUFFICES ASSUME SettledInv, [Next]_vars PROVE SettledInv'
  OBVIOUS
<1>1. CountInv /\ CountInv' /\ TypeInv /\ \A j \in Jobs : SettledHolds(j)
  BY CountNext DEF SettledInv, CountInv
<1>2. CASE UNCHANGED vars
  <2>1. \A k \in Jobs : Same(k)
    BY <1>2 DEF vars, history, Same, On
  <2> QED
    BY <1>1, <2>1, SameKeepsSettled DEF SettledInv
<1>3. ASSUME NEW j \in Jobs, JobStep(j) PROVE SettledInv'
  <2>1. \A k \in Jobs \ {j} : SettledHolds(k)'
    BY <1>1, <1>3, JobStepIsLocal, SameKeepsSettled
  <2>2. SettledHolds(j)'
    BY <1>3, JobStepSettles
  <2> QED
    BY <1>1, <2>1, <2>2 DEF SettledInv
<1>4. ASSUME NEW w \in Workers, ServeStep(w) PROVE SettledInv'
  <2>1. PICK j \in Jobs :
          /\ task'[w].job = j /\ (worker[w] # "idle" => task[w].job = j)
          /\ \A k \in Jobs \ {j} : Same(k)
          /\ \A v \in Workers \ {w} : worker'[v] = worker[v] /\ task'[v] = task[v]
    BY <1>1, <1>4, ServeStepIsLocal
  <2>2. \A k \in Jobs \ {j} : SettledHolds(k)'
    BY <1>1, <2>1, SameKeepsSettled
  <2>3. SettledHolds(j)'
    BY <1>4, <2>1, ServeStepSettles
  <2> QED
    BY <1>1, <2>2, <2>3 DEF SettledInv
<1> QED
  BY <1>2, <1>3, <1>4 DEF Next, JobStep, ServeStep

LEMMA SettledInvariant ==
  ASSUME MAX_ATTEMPTS >= QUEUE_ATTEMPTS
  PROVE  Spec => []SettledInv
BY SettledInit, SettledNext, PTL DEF Spec

\* With as many attempts as the queue grants, and one kind of fault at most, the
\* two refunds of the code give back together no more than was charged: a
\* delivery that fails for the last time is the only one to refund, and nothing
\* is delivered after it.
THEOREM RefundsAreSingle ==
  ASSUME MAX_ATTEMPTS >= QUEUE_ATTEMPTS
  PROVE  Spec => []RefundedAtMostOnce
<1>1. SettledInv => RefundedAtMostOnce
  BY DEF SettledInv, SettledHolds, RequestHolds, RefundedAtMostOnce
<1> QED
  BY <1>1, SettledInvariant, PTL

\* A row that is COMPLETED, and not by hand, was paid for and not given back,
\* while one kind of fault happens at most.
THEOREM ResultsArePaid ==
  ASSUME MAX_ATTEMPTS >= QUEUE_ATTEMPTS
  PROVE  Spec => []NoFreeResult
<1>1. SettledInv => NoFreeResult
  <2> SUFFICES ASSUME SettledInv, OneKindOfFault, NEW j \in Jobs,
                      job[j].status = "COMPLETED", Untouched(j)
               PROVE  charged[j] = 1 /\ refunded[j] = 0
    BY DEF NoFreeResult
  <2>1. job[j] # NoJob /\ RequestHolds(j) /\ ResultHolds(j)
    BY RowsAreTyped DEF SettledInv, SettledHolds
  <2> QED
    BY <2>1 DEF RequestHolds, ResultHolds
<1> QED
  BY <1>1, SettledInvariant, PTL

\* What a socket was told to be COMPLETED is COMPLETED in the table, while one
\* kind of fault happens at most and nobody completes the job by hand.
THEOREM AnnouncementsHold ==
  ASSUME MAX_ATTEMPTS >= QUEUE_ATTEMPTS
  PROVE  Spec => []AnnouncedCompletionHolds
<1>1. SettledInv => AnnouncedCompletionHolds
  BY DEF SettledInv, SettledHolds, ResultHolds, Untouched, AnnouncedCompletionHolds
<1> QED
  BY <1>1, SettledInvariant, PTL

\* While nothing but one kind of fault happens, and until an administrator asks
\* to complete the job by hand, no step writes the status of a row that is
\* COMPLETED or FAILED, although no write looks at it: who would write it has
\* seen it before its end.
THEOREM FinalRowsStay ==
  ASSUME MAX_ATTEMPTS >= QUEUE_ATTEMPTS
  PROVE  Spec => FinalIsFinal
<1>1. ASSUME SettledInv, [Next]_vars, OneKindOfFault', NEW j \in Jobs,
             isFinalState(job[j]), manual[j] = "idle"
      PROVE  job'[j].status = job[j].status
  <2>1. /\ TypeInv /\ Untouched(j) /\ RequestHolds(j) /\ OwnerServes(j) /\ WorkHolds(j)
    BY <1>1, KindsOnlyGrow DEF SettledInv, CountInv, SettledHolds, Untouched
  <2>2. job[j] # NoJob
    BY <1>1, RowsAreTyped DEF isFinalState
  <2>3. CASE UNCHANGED job
    BY <2>3
  <2>4. ASSUME NEW k \in Jobs, JobStep(k) PROVE job'[j].status = job[j].status
    <3>1. CASE k # j
      BY <2>1, <2>4, <3>1, JobStepIsLocal DEF Same
    <3>2. CASE k = j
      <4>1. ~Create(j) /\ ~CompleteManually(j)
        BY <1>1, <2>1, <2>2 DEF Create, CompleteManually, RequestHolds
      <4>2. ~CompensateFail(j)
        BY <1>1, <2>1 DEF CompensateFail, RequestHolds, isFinalState
      <4> QED
        BY <2>4, <3>2, <4>1, <4>2 DEF JobStep, Refuse, Deduct, RequestStep, Enqueue,
           CompensateRefund, EnqueueFails, RequestFails, Stalled, LockLost, Cancel, CheckManual
    <3> QED
      BY <3>1, <3>2
  <2>5. ASSUME NEW w \in Workers, ServeStep(w) PROVE job'[j].status = job[j].status
    <3>1. PICK k \in Jobs :
            /\ task'[w].job = k /\ (worker[w] # "idle" => task[w].job = k)
            /\ \A i \in Jobs \ {k} : Same(i)
      BY <2>1, <2>5, ServeStepIsLocal
    <3>2. CASE k # j
      BY <3>1, <3>2 DEF Same
    <3>3. CASE k = j
      <4>1. worker[w] \notin {"start", "completing", "failing"}
        BY <1>1, <2>1, <3>1, <3>3 DEF WorkHolds, On
      <4>2. UNCHANGED job \/ (worker[w] = "counting" /\ incrementAttempts(j))
        BY <2>5, <3>1, <3>3, <4>1
           DEF ServeStep, WorkerStep, WorkerFault, Take, FindJob, StartProcessing, Process, Complete,
               FindCurrent, Count, MarkFailed, Refund, Ack, AckThrows, Nack, StepFails, HandlingFails, Crash
      <4> QED
        BY <2>1, <2>2, <4>2, AttemptIsCounted
    <3> QED
      BY <3>2, <3>3
  <2> QED
    BY <1>1, <2>3, <2>4, <2>5 DEF Next, JobStep, ServeStep, vars
<1>2. SettledInv /\ [Next]_vars =>
        [OneKindOfFault' => \A j \in Jobs :
           job[j].status \in {"COMPLETED", "FAILED"} /\ manual[j] = "idle"
             => job'[j].status = job[j].status]_vars
  BY <1>1 DEF isFinalState
<1> QED
  BY <1>2, SettledInvariant, PTL DEF Spec, FinalIsFinal
=============================================================================
