-------------------------------- MODULE Jobs --------------------------------
(***************************************************************************)
(* Jobs: the request that pays for a job, stores it and puts it on the     *)
(* queue; the queue (BullMQ, external), which delivers it to a worker at   *)
(* least once; the worker, which calls the AI and settles the job or       *)
(* refunds it; and the two endpoints that meddle, cancel and complete.     *)
(*                                                                         *)
(* A credit is counted as charged or refunded when billing's save commits: *)
(* the balance itself, and the races on it, are the matter of Billing.     *)
(***************************************************************************)
EXTENDS Integers, Faults

CONSTANTS
  Jobs,             \* job ids, one request each
  Workers,
  Sockets,          \* the workers whose process has a socket server: the API's
  MAX_ATTEMPTS,     \* JOB_CONFIG.MAX_ATTEMPTS (3 in the code)
  QUEUE_ATTEMPTS,   \* attempts of the queue entry (3 in the code)
  MAX_STALLED,      \* redeliveries of a stalled entry (BullMQ's default, 1)
  FaultKinds,       \* the kinds of fault that happen in a run
  Endpoints         \* the endpoints that are called in a run

\* reject: a call to the database or the queue rejects, without effect;
\* reply:  the queue stores an entry and its reply is lost;
\* crash:  the API or a worker stops;
\* stall:  a worker that lives does not renew the lock of its entry in time.

ASSUME AttemptsArePositive == MAX_ATTEMPTS \in Nat \ {0} /\ QUEUE_ATTEMPTS \in Nat \ {0}
ASSUME SocketsAreWorkers == Sockets \subseteq Workers
ASSUME MaxStalledIsNat == MAX_STALLED \in Nat
ASSUME FaultKindsAreKnown == FaultKinds \subseteq {"reject", "reply", "crash", "stall"}
ASSUME EndpointsAreKnown == Endpoints \subseteq {"cancel", "complete"}

VARIABLES
  job,         \* the table: job -> row, or NoJob
  request,     \* job -> where CreateJobUseCase is
  queue,       \* job -> the queue's entry
  worker,      \* worker -> where ProcessJobUseCase is
  task,        \* worker -> the job it serves and what it holds in memory
  manual,      \* job -> where CompleteJobManuallyUseCase is
  happened,    \* history: the kinds of fault that have happened
  cancelled,   \* history: jobs whose cancellation was answered with success
  charged,     \* history: job -> credits deducted for it
  refunded,    \* history: job -> credits given back for it
  announced    \* job -> the last status sent to the user's socket

history == <<cancelled, charged, refunded, announced>>
vars == <<job, request, queue, worker, task, manual, history, happened, faults>>

Happens(kind) ==
  /\ kind \in FaultKinds
  /\ Fault
  /\ happened' = happened \union {kind}

NothingHappens == NoFault /\ UNCHANGED happened

-----------------------------------------------------------------------------
(***************************************************************************)
(* The entity, its repository and the entry of the queue.                  *)
(***************************************************************************)

JobStatus == {"QUEUED", "PROCESSING", "COMPLETED", "FAILED"}

Job == [status : JobStatus, attempts : Nat]

NoJob == [status |-> "NONE", attempts |-> 0]

createJob == [status |-> "QUEUED", attempts |-> 0]

\* Fault seeded in isFinalState: FAILED is left out.
isFinalState_notFailed(e) == e.status = "COMPLETED"

\* CANCELLED is final too; nothing sets it.
isFinalState(e) == e.status \in {"COMPLETED", "FAILED"}

\* Fault seeded in isMaxAttemptsExceeded: > for >=.
isMaxAttemptsExceeded_offByOne(attempts) == attempts > MAX_ATTEMPTS

isMaxAttemptsExceeded(attempts) == attempts >= MAX_ATTEMPTS

\* Neither looks at the status the row has by then.
updateStatus(j, status) == job' = [job EXCEPT ![j].status = status]

incrementAttempts(j) == job' = [job EXCEPT ![j].attempts = @ + 1]

Nobody == "nobody"

NotQueued == [state |-> "none", made |-> 0, stalled |-> 0, owner |-> Nobody]

Entry ==
  [state : {"none", "waiting", "active", "failed"}, made : Nat, stalled : Nat,
   owner : Workers \union {Nobody}]

add(j) == queue' = [queue EXCEPT ![j].state = "waiting"]

\* To the room of the user, whether a socket has joined it or not.
announce(j, status) == announced' = [announced EXCEPT ![j] = status]

-----------------------------------------------------------------------------
(***************************************************************************)
(* States.                                                                 *)
(***************************************************************************)

RequestControl ==
  {"idle", "creating", "enqueueing", "refunding", "failing", "done", "failed"}

WorkerControl ==
  {"idle", "find", "start", "processing", "completing", "ack",
   "handling", "counting", "failing", "refunding", "nack"}

Task ==
  [job : Jobs, attempts : Nat, result : JobStatus \union {"none"}]

NoTask == [result |-> "none"]

TypeOK ==
  /\ FaultsTypeOK
  /\ job \in [Jobs -> Job \union {NoJob}]
  /\ request \in [Jobs -> RequestControl]
  /\ queue \in [Jobs -> Entry]
  /\ worker \in [Workers -> WorkerControl]
  /\ task \in [Workers -> Task \union {NoTask}]
  /\ \A w \in Workers : worker[w] # "idle" => task[w] \in Task
  /\ manual \in [Jobs -> {"idle", "checked", "done"}]
  /\ cancelled \subseteq Jobs
  /\ happened \subseteq FaultKinds
  /\ charged \in [Jobs -> 0..1]
  /\ refunded \in [Jobs -> Nat]
  /\ announced \in [Jobs -> JobStatus \union {"none"}]

Init ==
  /\ job = [j \in Jobs |-> NoJob]
  /\ request = [j \in Jobs |-> "idle"]
  /\ queue = [j \in Jobs |-> NotQueued]
  /\ worker = [w \in Workers |-> "idle"]
  /\ task = [w \in Workers |-> NoTask]
  /\ manual = [j \in Jobs |-> "idle"]
  /\ happened = {}
  /\ cancelled = {}
  /\ charged = [j \in Jobs |-> 0]
  /\ refunded = [j \in Jobs |-> 0]
  /\ announced = [j \in Jobs |-> "none"]
  /\ FaultsInit

workerSide == <<worker, task>>

RequestTo(j, label) == request' = [request EXCEPT ![j] = label]

WorkerTo(w, label) == worker' = [worker EXCEPT ![w] = label]

-----------------------------------------------------------------------------
(***************************************************************************)
(* CreateJobUseCase.                                                       *)
(***************************************************************************)

\* Unsupported mode, no credit left: nothing is written.
Refuse(j) ==
  /\ request[j] = "idle"
  /\ RequestTo(j, "failed")
  /\ NothingHappens
  /\ UNCHANGED <<job, queue, workerSide, manual, history>>

\* Fault seeded in Deduct: the guard of the endpoint deducts as well.
Deduct_twice(j) ==
  /\ request[j] = "idle"
  /\ charged' = [charged EXCEPT ![j] = 2]
  /\ RequestTo(j, "creating")
  /\ NothingHappens
  /\ UNCHANGED <<job, queue, workerSide, manual, cancelled, refunded, announced>>

Deduct(j) ==
  /\ request[j] = "idle"
  /\ charged' = [charged EXCEPT ![j] = 1]
  /\ RequestTo(j, "creating")
  /\ NothingHappens
  /\ UNCHANGED <<job, queue, workerSide, manual, cancelled, refunded, announced>>

Create(j) ==
  /\ request[j] = "creating"
  /\ job' = [job EXCEPT ![j] = createJob]
  /\ RequestTo(j, "enqueueing")
  /\ NothingHappens
  /\ UNCHANGED <<queue, workerSide, manual, history>>

Enqueue(j) ==
  /\ request[j] = "enqueueing"
  /\ add(j)
  /\ RequestTo(j, "done")
  /\ NothingHappens
  /\ UNCHANGED <<job, workerSide, manual, history>>

\* The add rejects; the entry may have been stored all the same.
EnqueueFails(j) ==
  /\ request[j] = "enqueueing"
  /\ \/ Happens("reply") /\ add(j)
     \/ Happens("reject") /\ UNCHANGED queue
  /\ RequestTo(j, "refunding")
  /\ UNCHANGED <<job, workerSide, manual, history>>

CompensateRefund(j) ==
  /\ request[j] = "refunding"
  /\ refunded' = [refunded EXCEPT ![j] = @ + 1]
  /\ RequestTo(j, "failing")
  /\ NothingHappens
  /\ UNCHANGED <<job, queue, workerSide, manual, cancelled, charged, announced>>

CompensateFail(j) ==
  /\ request[j] = "failing"
  /\ updateStatus(j, "FAILED")
  /\ RequestTo(j, "failed")
  /\ NothingHappens
  /\ UNCHANGED <<queue, workerSide, manual, history>>

\* The API stops, or a call of the request rejects: outside the call that
\* enqueues nothing is compensated, and the compensation is tried once.
RequestFails(j) ==
  /\ \/ request[j] \in {"creating", "refunding", "failing"} /\ Happens("reject")
     \/ request[j] \in {"creating", "enqueueing", "refunding", "failing"}
        /\ Happens("crash")
  /\ RequestTo(j, "failed")
  /\ UNCHANGED <<job, queue, workerSide, manual, history>>

RequestStep(j) ==
  Create(j) \/ Enqueue(j) \/ CompensateRefund(j) \/ CompensateFail(j)

-----------------------------------------------------------------------------
(***************************************************************************)
(* The queue (external).  An entry has one owner at a time as the queue    *)
(* sees it; a worker that lost its lock goes on without knowing.           *)
(***************************************************************************)

Owns(w, j) == queue[j].state = "active" /\ queue[j].owner = w

Take(w, j) ==
  /\ worker[w] = "idle"
  /\ queue[j].state = "waiting"
  /\ queue' = [queue EXCEPT ![j].state = "active", ![j].owner = w]
  /\ WorkerTo(w, "find")
  /\ task' = [task EXCEPT ![w] = [job |-> j, attempts |-> 0, result |-> "none"]]
  /\ NothingHappens
  /\ UNCHANGED <<job, request, manual, history>>

\* The check for stalled entries: back to the queue, or failed at the limit,
\* and then the processor is not called.
Redeliver(j) ==
  queue' = [queue EXCEPT ![j] =
    [state |-> IF queue[j].stalled < MAX_STALLED THEN "waiting" ELSE "failed",
     made |-> queue[j].made, stalled |-> queue[j].stalled + 1, owner |-> Nobody]]

\* The worker that took the entry still serves it.
Served(j) ==
  /\ queue[j].state = "active"
  /\ worker[queue[j].owner] # "idle"
  /\ task[queue[j].owner].job = j

\* The owner has stopped.
Stalled(j) ==
  /\ queue[j].state = "active" /\ ~Served(j)
  /\ Redeliver(j)
  /\ NothingHappens
  /\ UNCHANGED <<job, request, workerSide, manual, history>>

\* The owner lives, but did not renew its lock in time.
LockLost(j) ==
  /\ Served(j)
  /\ Happens("stall")
  /\ Redeliver(j)
  /\ UNCHANGED <<job, request, workerSide, manual, history>>

\* Fault seeded in Ack: the status found in the row is taken for COMPLETED.
Ack_completed(w) ==
  LET j == task[w].job IN
  /\ worker[w] = "ack" /\ w \in Sockets
  /\ announce(j, "COMPLETED")
  /\ queue' = IF Owns(w, j) THEN [queue EXCEPT ![j] = NotQueued] ELSE queue
  /\ WorkerTo(w, "idle")
  /\ NothingHappens
  /\ UNCHANGED <<job, request, task, manual, cancelled, charged, refunded>>

\* The processor returns: the user is told and the entry removed.
Ack(w) ==
  LET j == task[w].job IN
  /\ worker[w] = "ack" /\ w \in Sockets
  /\ announce(j, task[w].result)
  /\ queue' = IF Owns(w, j) THEN [queue EXCEPT ![j] = NotQueued] ELSE queue
  /\ WorkerTo(w, "idle")
  /\ NothingHappens
  /\ UNCHANGED <<job, request, task, manual, cancelled, charged, refunded>>

\* Fault seeded in retryState: the attempts are never used up.
retryState_always(made) == "waiting"

retryState(made) == IF made < QUEUE_ATTEMPTS THEN "waiting" ELSE "failed"

\* The processor has thrown: the queue backs off and delivers again until the
\* attempts are used up.
Retry(w, j) ==
  LET made == queue[j].made + 1 IN
  queue' = IF Owns(w, j)
             THEN [queue EXCEPT ![j] = [@ EXCEPT !.state = retryState(made), !.made = made,
                                                 !.owner = Nobody]]
             ELSE queue

\* In a process without a socket server telling the user throws, in the try and
\* again in its catch: the entry of a job that is done is delivered again.
AckThrows(w) ==
  /\ worker[w] = "ack" /\ w \notin Sockets
  /\ Retry(w, task[w].job)
  /\ WorkerTo(w, "idle")
  /\ NothingHappens
  /\ UNCHANGED <<job, request, task, manual, history>>

\* The processor throws, and tells the user FAILED if it can.
Nack(w) ==
  LET j == task[w].job IN
  /\ worker[w] = "nack"
  /\ IF w \in Sockets THEN announce(j, "FAILED") ELSE UNCHANGED announced
  /\ Retry(w, j)
  /\ WorkerTo(w, "idle")
  /\ NothingHappens
  /\ UNCHANGED <<job, request, task, manual, cancelled, charged, refunded>>

Crash(w) ==
  /\ worker[w] # "idle"
  /\ Happens("crash")
  /\ WorkerTo(w, "idle")
  /\ UNCHANGED <<job, request, queue, task, manual, history>>

-----------------------------------------------------------------------------
(***************************************************************************)
(* ProcessJobUseCase.                                                      *)
(***************************************************************************)

FindJob(w) ==
  LET row == job[task[w].job] IN
  /\ worker[w] = "find"
  /\ IF isFinalState(row)
       THEN WorkerTo(w, "ack") /\ task' = [task EXCEPT ![w].result = row.status]
       ELSE WorkerTo(w, "start") /\ UNCHANGED task
  /\ NothingHappens
  /\ UNCHANGED <<job, request, queue, manual, history>>

\* The attempt markAsProcessing counts stays in memory.
StartProcessing(w) ==
  /\ worker[w] = "start"
  /\ updateStatus(task[w].job, "PROCESSING")
  /\ WorkerTo(w, "processing")
  /\ NothingHappens
  /\ UNCHANGED <<request, queue, task, manual, history>>

\* The AI returns an image; or the image asset is missing, the AI gives up, or
\* its answer has no image.
Process(w) ==
  /\ worker[w] = "processing"
  /\ WorkerTo(w, "completing") \/ WorkerTo(w, "handling")
  /\ NothingHappens
  /\ UNCHANGED <<job, request, queue, task, manual, history>>

\* Saving the memory of the job cannot fail it any more.
Complete(w) ==
  /\ worker[w] = "completing"
  /\ updateStatus(task[w].job, "COMPLETED")
  /\ WorkerTo(w, "ack")
  /\ task' = [task EXCEPT ![w].result = "COMPLETED"]
  /\ NothingHappens
  /\ UNCHANGED <<request, queue, manual, history>>

StepFails(w) ==
  /\ worker[w] \in {"find", "start", "processing", "completing"}
  /\ Happens("reject")
  /\ WorkerTo(w, "handling")
  /\ UNCHANGED <<job, request, queue, task, manual, history>>

FindCurrent(w) ==
  /\ worker[w] = "handling"
  /\ task' = [task EXCEPT ![w].attempts = job[task[w].job].attempts + 1]
  /\ WorkerTo(w, "counting")
  /\ NothingHappens
  /\ UNCHANGED <<job, request, queue, manual, history>>

\* Fault seeded in Count: every failed attempt is refunded.
Count_refunds(w) ==
  /\ worker[w] = "counting"
  /\ incrementAttempts(task[w].job)
  /\ WorkerTo(w, IF isMaxAttemptsExceeded(task[w].attempts) THEN "failing" ELSE "refunding")
  /\ NothingHappens
  /\ UNCHANGED <<request, queue, task, manual, history>>

Count(w) ==
  /\ worker[w] = "counting"
  /\ incrementAttempts(task[w].job)
  /\ WorkerTo(w, IF isMaxAttemptsExceeded(task[w].attempts) THEN "failing" ELSE "nack")
  /\ NothingHappens
  /\ UNCHANGED <<request, queue, task, manual, history>>

\* Fault seeded in MarkFailed: no refund follows.
MarkFailed_unrefunded(w) ==
  /\ worker[w] = "failing"
  /\ updateStatus(task[w].job, "FAILED")
  /\ WorkerTo(w, "nack")
  /\ NothingHappens
  /\ UNCHANGED <<request, queue, task, manual, history>>

MarkFailed(w) ==
  /\ worker[w] = "failing"
  /\ updateStatus(task[w].job, "FAILED")
  /\ WorkerTo(w, "refunding")
  /\ NothingHappens
  /\ UNCHANGED <<request, queue, task, manual, history>>

Refund(w) ==
  /\ worker[w] = "refunding"
  /\ refunded' = [refunded EXCEPT ![task[w].job] = @ + 1]
  /\ WorkerTo(w, "nack")
  /\ NothingHappens
  /\ UNCHANGED <<job, request, queue, task, manual, cancelled, charged, announced>>

\* handleProcessingError throws, or processRefund logs: the refund is not
\* tried again.
HandlingFails(w) ==
  /\ worker[w] \in {"handling", "counting", "failing", "refunding"}
  /\ Happens("reject")
  /\ WorkerTo(w, "nack")
  /\ UNCHANGED <<job, request, queue, task, manual, history>>

WorkerStep(w) ==
  \/ \E j \in Jobs : Take(w, j)
  \/ FindJob(w) \/ StartProcessing(w) \/ Process(w) \/ Complete(w)
  \/ FindCurrent(w) \/ Count(w) \/ MarkFailed(w) \/ Refund(w)
  \/ Ack(w) \/ AckThrows(w) \/ Nack(w)

WorkerFault(w) == StepFails(w) \/ HandlingFails(w) \/ Crash(w)

-----------------------------------------------------------------------------
(***************************************************************************)
(* CancelJobUseCase and CompleteJobManuallyUseCase.                        *)
(***************************************************************************)

\* The entry is removed unless a worker has its lock, which that of a stopped
\* worker may or may not still be; the row is not touched.  At most one
\* cancellation per job.
Cancel(j) ==
  /\ "cancel" \in Endpoints
  /\ job[j] # NoJob
  /\ j \notin cancelled
  /\ cancelled' = cancelled \union {j}
  /\ \/ queue[j].state = "active" /\ UNCHANGED queue
     \/ ~Served(j) /\ queue' = [queue EXCEPT ![j] = NotQueued]
  /\ NothingHappens
  /\ UNCHANGED <<job, request, workerSide, manual, charged, refunded, announced>>

\* At most one manual completion per job.
CheckManual(j) ==
  /\ "complete" \in Endpoints
  /\ job[j].status \in {"PROCESSING", "QUEUED"}
  /\ manual[j] = "idle"
  /\ manual' = [manual EXCEPT ![j] = "checked"]
  /\ NothingHappens
  /\ UNCHANGED <<job, request, queue, workerSide, history>>

CompleteManually(j) ==
  /\ manual[j] = "checked"
  /\ updateStatus(j, "COMPLETED")
  /\ manual' = [manual EXCEPT ![j] = "done"]
  /\ NothingHappens
  /\ UNCHANGED <<request, queue, workerSide, history>>

-----------------------------------------------------------------------------

Next ==
  \/ \E j \in Jobs :
       \/ Refuse(j) \/ Deduct(j) \/ RequestStep(j) \/ EnqueueFails(j) \/ RequestFails(j)
       \/ Stalled(j) \/ LockLost(j)
       \/ Cancel(j) \/ CheckManual(j) \/ CompleteManually(j)
  \/ \E w \in Workers : WorkerStep(w) \/ WorkerFault(w)

Spec == Init /\ [][Next]_vars

\* The API serves its requests, the workers take what waits and serve what they
\* took (the AI client has timeouts), and the queue checks for stalled entries.
FairSpec ==
  /\ Spec
  /\ \A j \in Jobs : WF_vars(RequestStep(j)) /\ WF_vars(Stalled(j))
  /\ \A w \in Workers : WF_vars(WorkerStep(w))

-----------------------------------------------------------------------------
(***************************************************************************)
(* Properties.                                                             *)
(***************************************************************************)

\* What has gone wrong so far: nothing but processes that stopped, or nothing
\* but calls that were rejected.  A mix of the two, a lost reply or a lost lock
\* breaks most of what follows (see README.md, "Limits").
OnlyCrashes == happened \subseteq {"crash"}

OneKindOfFault == OnlyCrashes \/ happened \subseteq {"reject"}

\* No administrator has completed the job by hand.
Untouched(j) == manual[j] # "done"

\* No job gives back more than it was charged, by the two refunds of the code
\* together (one when it cannot be queued, one when its attempts run out),
\* although the row is written without a look at its status.
RefundedAtMostOnce ==
  OneKindOfFault => \A j \in Jobs : refunded[j] <= charged[j]

\* No result is given away: a COMPLETED job was paid for and not refunded.
NoFreeResult ==
  OneKindOfFault => \A j \in Jobs :
    job[j].status = "COMPLETED" /\ Untouched(j) => charged[j] = 1 /\ refunded[j] = 0

\* Every failure counted against a job is one delivery of its queue entry: the
\* attempts of the queue and the stalls it tolerates bound them, whatever
\* fails, and whatever the user and the administrator do meanwhile.
AttemptsBounded ==
  \A j \in Jobs : job[j].attempts <= QUEUE_ATTEMPTS + MAX_STALLED

\* COMPLETED and FAILED have no way out (jobs/README.md, the state diagram).
FinalIsFinal ==
  [][OneKindOfFault' => \A j \in Jobs :
       job[j].status \in {"COMPLETED", "FAILED"} /\ manual[j] = "idle"
         => job'[j].status = job[j].status]_vars

\* What a user was told to be COMPLETED is, and stays so.
AnnouncedCompletionHolds ==
  OneKindOfFault => \A j \in Jobs :
    announced[j] = "COMPLETED" /\ manual[j] = "idle" => job[j].status = "COMPLETED"

\* A job that reached the queue is COMPLETED or FAILED in the end, though
\* workers stop on it as often as the queue tolerates, unless it is cancelled.
QueuedJobsEnd ==
  \A j \in Jobs :
    (queue[j].state = "waiting")
      ~> \/ isFinalState(job[j])
         \/ j \in cancelled
         \/ ~OnlyCrashes \/ faults > MAX_STALLED

\* A charged credit ends in a result or is given back, unless something fails
\* or the job is cancelled.
ChargeIsSettled ==
  \A j \in Jobs :
    charged[j] = 1
      ~> \/ job[j].status = "COMPLETED" \/ refunded[j] = 1
         \/ j \in cancelled \/ faults > 0

\* A cancelled job that is in nobody's hands has a final status: the use case
\* "updates the state in the database" (cancel-job.use-case.ts).
CancelledJobsAreFinal ==
  \A j \in cancelled :
    /\ request[j] \in {"done", "failed"}
    /\ queue[j].state \in {"none", "failed"}
    /\ \A w \in Workers : worker[w] # "idle" => task[w].job # j
    => isFinalState(job[j])
=============================================================================
