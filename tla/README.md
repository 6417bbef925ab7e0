# AURAPIC API: a TLA+ model

The repository is a NestJS API with worker processes, PostgreSQL (through Prisma), a BullMQ
queue on Redis, a payment provider (MercadoPago), an AI client and S3. A user registers and
gets free credits, buys more of them, and spends one on every job, an image that a worker has
processed by the AI. What can go wrong is in the order of things: almost every use case reads a
row, awaits, and writes the row back, while other requests, deliveries of a webhook, outbox
pollers and workers do the same.

Paths below are relative to `src/src/`, or to `src/` when they begin with `prisma/` or `docs/`.

## 1. Inventory

| Component | State | Operations | Must hold |
|---|---|---|---|
| billing | `Subscription` rows | deduct, refund, get, guard of the jobs endpoint | no negative balance, nothing spent that was not granted, no credits from nowhere |
| billing's payment handler | `ProcessedEvent` rows | `payment.approved` | credits once per payment |
| events: outbox | `OutboxEvent` rows | create, find pending, update | written together with the payment, marked once |
| events: pollers and bus | a batch in the memory of each process | poll, publish, mark | every event delivered, none twice |
| payments: saga | `Payment` rows | create a preference, roll it back | a payment a user can pay exists in the table |
| payments: webhook | `Payment` rows, outbox | approve, reject, write the event | approved exactly when charged; final is final; event per approval |
| payments: providers | rows with health, failures, flags | report success and failure, reset, switch on and off: nobody calls them; `isAvailable` is read | |
| jobs: requests | `Job` rows, credits, queue | create, cancel, list, search | a job is paid for, or the credit comes back |
| jobs: workers | `Job` rows, credits, sockets | process, retry, fail, refund, announce | final is final, one refund, users told the truth |
| admin | `Job` rows | complete a job by hand | respects final statuses |
| iam: registration | users, credentials, subscriptions | register, verify | an account is complete or absent |
| iam: sessions | `Session` rows, the password and the reset token of a credential | login, refresh, logout, revoke, change, forgot, reset | what was retired stays dead; a changed password ends older sessions; a link that was used refuses later resets |
| uploads | `ImageAsset` rows, S3 objects | presign, the client's PUT, delete, gallery | no object without its row |
| ai | attempts and timers in memory, `Memory` rows | process an image, retry, embed | every image is answered, in bounded time |
| http | requests | guards, validation, handlers, exception filter | answers are the documented ones |
| dashboard, listings, search | none | reads | |
| realtime gateway | sockets by user | emit a job's status | see workers |
| config, logging, health, e-mail, dates, request ids, Prisma client | none of interest | | |

**Interactions.** The API and the workers share the database, and nothing else but the queue.
The webhook of payments writes the outbox; every process (API or worker) runs its own poller
(`shared/events/domain-events.module.ts:38-46`), publishes what it reads on a bus in its own
memory, where billing's handler adds the credits to the subscription. Jobs call billing to
deduct and refund. Jobs reach workers through BullMQ, which delivers at least once; workers
announce statuses on the user's socket.

**What is hard.** No use case takes a lock, a version or a conditional update, and no repository
uses the client of the transaction it is called in: every repository call commits alone. Hence
stale writes (billing, payments, jobs, sessions), events that two pollers read, overlapping and
repeated notifications, failures between two commits (saga, webhook, handler, job creation,
registration), redelivery after a crash, and attempts counted in two places. The list with lines
is under `hazards` in `PROJECT.json`.

## 2. Plan

In the order of what matters most to a user's money, then access, then the rest. All but the last
entry are done.

1. `SubscriptionStore`, `Billing`, `CreditLedger` (abstract): what every other part spends.
   `BillingProofs`.
2. `OutboxStore`, `Payments`: saga and webhook; `PaymentsProofs`.
3. `OutboxProcessor`: pollers, bus, handler; uses `SubscriptionStore`; `OutboxProofs`.
4. `PaymentCredits`: 2 and 3 composed; `PaidCredits` is what they promise, and `PaymentCreditsProofs` shows
   that they keep it.
5. `Jobs`: request, queue, workers, cancel, manual completion; `JobsProofs`.
6. `Registration`, `Sessions`, with a module of proofs each; `Uploads`, `ImageProcessing`, `HttpApi`.
7. `Platform`: the parts of 6 in one specification;
   `PlatformProofs` has the proofs about its smaller parts and carries all theorems over.
8. Left, models: `Jobs` with `Billing`, so that a refund races a deduction on the row. `Jobs` alone
   counts credits, and billing alone has the race; the product of the two is too large for what it adds.

## 3. Modules and code

Each action is the code between two awaits; it ends at the await, and the next one starts when
its promise settles. A request, a delivery, a poller or a worker is one process: a control label
and what it holds in memory.

| Module | Models | Correspondence |
|---|---|---|
| `Accounts` | the set of users | |
| `Faults` | a budget of faults | calls that reject, processes that stop |
| `SubscriptionStore` | `subscription.entity.ts`, `prisma-subscription.repository.ts` | the table is a function of users; an entity is a copy; `saveSubscription` writes the whole copy |
| `Billing` | `deduct-credit`, `refund-credit`, the grant of the handler | `Deduct`/`Add` read and change the copy, `Save` writes it, `SaveFails` loses it, `NotFound` throws; calls of one user overlap |
| `CreditLedger` | what billing promises | a call takes effect in one step, by its amount, unless another of its user overtook it |
| `OutboxStore` | `outbox-event.entity.ts`, `prisma-outbox-event.repository.ts` | the table is a sequence, oldest first; an id is a position |
| `Payments` | `create-preference`, `process-webhook`, `payment.entity.ts`, the adapter's statuses | saga labels `calling`, `saving`, `compensating`; webhook labels `fetched`, `saving`, `creating`; the provider (`Pay`, `Settle`) is external |
| `OutboxProcessor` | `outbox-processor.service.ts`, `in-memory-event-bus.ts`, `payment-approved.handler.ts` | poller labels `check`, `load`, `save`, `record` (the handler), `mark`, `remark` (the service) |
| `PaidCredits` | what buying promises | charge, then add once; excepted are payments known to be repeated and users known to be crowded |
| `PaymentCredits` | `Payments` and `OutboxProcessor` in one system | extends both; they share `outbox` and `faults`, and events come from `Payments` alone, so that `Publish` and its bound `MaxEvents` play no part; `polled`, `reread` and `crowded` observe the pollers |
| `Jobs` | `create-job`, `process-job`, `cancel-job`, `complete-job-manually`, `jobs.processor.ts`, `bullmq-queue.adapter.ts` | request labels `creating`, `enqueueing`, `refunding`, `failing`; worker labels `find`, `start`, `processing`, `completing`, `ack`, and in the error handling `handling`, `counting`, `failing`, `refunding`, `nack`; a worker of a process without a socket server cannot announce, and its processor throws (`AckThrows`) |
| `Registration` | `register-user`, `verify-email`, their repositories and the mail | registration labels `creating`, `linking`, `mailing`, `subscribing`, `undoing`; click labels `verifying`, `unlinking`; all requests are for one address, and `account` is the row each of them made |
| `Sessions` | `login`, `refresh-token`, `logout`, `revoke-session`, `change-password`, `forgot-password`, `reset-password`, `jwt-token.service.ts`, the session and credential repositories | a call is a number, in the order of arrival; labels `signing`, `saving`, `updating`, `revoking`, `changing`, `deleting`, `mailing`; `work` is what it holds between awaits; a token is the second it was signed in |
| `Uploads` | `presign-upload`, `delete-image-asset`, the gallery, the S3 adapter | upload labels `creating`, `signing`; removal labels `deletingObject`, `deletingRow`; the client's PUT is an action without fairness |
| `ImageProcessing` | `process-image`, `retry.executor.ts`, the downloader, the AI adapters, what `process-job` does with the embedding | phases of one image; time is counted in base delays of the backoff |
| `HttpApi` | the controllers, guards, pipes, `all-exceptions.filter.ts`, `error-mapping.ts` | `routes` has, for each route, guards, success status, documented statuses and what its handler throws; `statusOf` is the filter; of `createJob` the credit's way is modelled too: the guard's look, the use case's read (`DeductCredit`) and save (`SaveCredits`), and a job that fails afterwards |
| `Platform` | `app.module.ts` | `Registration` to `HttpApi`, see below |
| `BillingProofs`, `RegistrationProofs`, `SessionsProofs`, `PaymentsProofs`, `OutboxProofs`, `PaymentCreditsProofs`, `JobsProofs`, `PlatformProofs` | | section 5 |
| `MC*` | | constants for TLC |

**Platform.** The parts share no table, only the process and what fails in it. A behaviour of
`Platform` is therefore one part's: the variable `part` is chosen at the start and never changes, the other
parts stay at rest. Interleaving them would multiply the states and show nothing new, as no action reads
another part's variables.

Points where the model says less than the code, and why that is enough:

* A call that rejects had no effect, with one exception, the fault `reply` of `Jobs`: the queue
  stored the entry and the reply was lost. The same outcome of a database call, an error after the
  commit, is one the code can meet and the model leaves out: there a call either commits and returns,
  or rejects without effect.
* Users, prices, names, prompts and images are model values or left out. Mode, prompt and image
  of a job do not influence its status beyond "the AI answered" and "it did not".
* `randomUUID` in the handler is one value that no row of the table ever has: two random ids do
  not meet.
* Events are kept in the order they are created; `createdAt` orders them so up to ties, and no
  property depends on the order of a tie.
* `Jobs` counts credits deducted and refunded when billing's save commits. Races on the balance
  itself are `Billing`'s matter.
* Statuses that nothing sets (`CANCELLED` of a job; `CANCELLED`, `REFUNDED`, `CHARGED_BACK` of a
  payment) are left out.
* BullMQ is external. An active entry has an owner; when the owner stops, or its lock expires, the
  entry is delivered again once (`maxStalledCount`, default 1) and then failed without a call of
  the processor. A worker that lost its lock goes on, and its result no longer moves the entry.
* Hashes (of passwords, tokens, links) are one-to-one: the thing itself stands for them.
* `HttpApi` has the counters of the throttler as a choice (any request may be one too many), and which
  of its errors a handler throws as a choice too, except what hangs on the balance of credits.
* History, which is for the properties and which no guard reads: `granted`, `spent`, `overtaken` and `raced` of
  `Billing`, `credited` and `earned` of `OutboxProcessor`, `polled`, `reread` and `crowded` of
  `PaymentCredits`, `happened`, `charged` and `refunded` of `Jobs`, `retired`, `overtaken` and
  `changed` of `Sessions`, `late` of `Uploads`, and the field `overtaken` of a request of `HttpApi`.
* `batch` of `OutboxProcessor` is the list a poller has read, as a table from ids to the copies of the events
  not served yet: oldest first is the order of the ids (`Current` is the least).

Operators whose names carry a suffix (`isFinal_notApproved`, `Ack_completed`) are seeded faults:
plausible slips in the definition named before the underscore. No specification uses them. They are
how the sensitivity of each property is tested: with the fault in place, TLC must find the
property violated.

## 4. Runs

| Run | Instance | Shows |
|---|---|---|
| `billing` | 2 users, 3 calls that overlap, amounts 1 and 2 | no balance is negative or above what was granted; billing implements the ledger, and the row is the sum of what happened unless an overtaken call of its user has saved |
| `billing_overspend` | 1 user, 3 calls, overlapping | **violated**: two requests spend the same credit |
| `payments` | 2 payments with one idempotency key, 3 charges (2 on one preference), 2 deliveries that overlap across payments, 1 fault | `APPROVED` only of a charge approved for that payment; a user can only pay what is persisted; one event per payment unless its deliveries overlap; final is final unless they do; without a fault sagas end, and the notification of an approved first attempt writes its event |
| `payments_lost` | 1 payment, 2 deliveries, 1 fault | **violated**: a payment is `APPROVED` and its event was never written |
| `payments_twice` | 2 requests with one idempotency key, no fault | **violated**: a repeated request opens a second payment |
| `outbox` | 2 pollers, batches of 2, 3 payments (one grants nothing), 2 events, 2 faults, users with and without subscription | `PROCESSED` is final and reached by every event, the retry budget is never used, balances hold no more than was added, and without a fault a processed event has added its credits |
| `outbox_twice` | 2 pollers, 1 event, no fault | **violated**: the credits of one event are added twice |
| `credits` | both modules, 2 charges on one preference, 2 overlapping deliveries, 2 pollers, 1 fault | no credits without a charge, end to end; without a fault a paid notification ends in credits; the implementation of `PaidCredits`: a payment is credited once and by its amount, but for repeated payments and crowded users |
| `jobs` | 1 job, 2 workers (one with a socket server, one without), 3 faults of four kinds, cancel and manual completion | see below |
| `jobs_cancel` | 1 job, 1 worker | **violated**: a cancelled job stays `QUEUED` for ever |
| `platform` | each part with 2 faults, see below | see below |
| `api_payment_required` | the constants of `platform` | **violated**: a request without credits is answered 403 by the guard or 500 behind it, and never 402 |

`platform` checks, of one part each:

* registration, 2 requests for one address and 2 clicks: who is answered has a row, a mail and the free
  credits, and who is refused left nothing (`RegistrationIsAllOrNothing`);
* sessions, 3 calls of any kind beside a session there was, 3 seconds: `RetiredTokensStayDead`,
  `OldPasswordsAreOut`, `LaterResetIsRefused`;
* uploads, 2 images that draw one storage key, 2 deletions, 2 owners: `ObjectsHaveRows`;
* image processing, 1 image, 3 attempts, 3 kinds of URL: it is answered (`ImagesAreAnswered`), within the sum
  of its timeouts and delays (`AnswerIsInTime`);
* http, every route, 2 requests and the last credit: the answer is one the decorators of the route document, or
  one of the listed exceptions (`AnswersAsDecorated`), and only a request that another overtook is refused
  for want of credits behind the guard (`GuardedRefusalIsOvertaken`).

`jobs` explores everything together and states each property for the faults under which it holds.
The history `happened` says which kinds have happened. With crashes only, or rejections only:
refunds never exceed charges, a `COMPLETED` job was paid for and not refunded, final statuses do
not change, and a user who was told `COMPLETED` was told the truth. With any mix of faults and both
endpoints the attempts in the row are bounded by the queue's attempts and tolerated stalls. With
as many crashes as the queue tolerates, every queued job ends. Without a fault, every charged credit
becomes a result or comes back.

**Bounds.** `MAX_ATTEMPTS` of events (5) and of jobs (3), the attempts of the queue (3), `MAX_STALLED` (1),
and `MaxRetries` of the AI (3) have their real values. The free tier is
1 or 2 credits in place of 10, with amounts of 1 and 2, so that the last credit is reached in a few steps.
Two overlapping actors are enough for each race of the code, as no check involves a third; a third delivery,
call or request lets a late one follow a race. `MaxCalls` (3) lets two resets meet on one link, which a third
call asked for, or a login, a refresh and a change of the password (resets on two links take four calls, and are
left to the theorems); `MaxSeconds` (2) has a token of the past, of now and
of the next second. `MaxFaults` is 1 to 3: a fault in each of the places of one flow is reached, and 3 lets
all attempts of a job be disturbed. In `outbox`, `MaxEvents` (2) gives each poller a batch with a next event.
`TimeoutDelays` (3) makes a timeout longer than any backoff (1 and 2), as it is. One cancellation and one
manual completion per job: a second finds what the first has left. One job: jobs share only workers. What the
theorems of section 5 state holds for all values.

**Deadlock** is not checked: every instance has finitely many requests, deliveries, calls and charges, and
stops when they are served.

**Fairness.** Weak, on the steps of a saga, delivery, request, poller and worker that has started, on a
poller's next poll (a loop with a sleep), on a free worker taking what waits, on BullMQ's periodic check
for stalled entries, and on the steps of an image in process with its timers (`PlatformFairness`). A Node
process runs every continuation whose promise settles; the provider's client has a timeout, and the AI call is
raced by a timer. There is no fairness on users (asking, paying, cancelling), on the provider (charging,
settling, notifying), on the image server and the AI, on the administrator or on faults. Registration, sessions,
uploads and http have no fairness: their properties are safety.

## 5. What is proved

Every safety property that a passing run checks, every action property and both refinements are stated by
a theorem: for every value of the constants, where TLC has one instance. Assumed are the named assumptions of the
modules (amounts are positive, the free tier and the bounds are natural numbers, workers with sockets are workers,
maps are total, `NULL` is no charge; `PowersOfTwo` of `ImageProcessing` is arithmetic that
holds of every number of retries and that the provers do not know), and two groups of theorems have
a hypothesis of their own:

| Hypothesis | Theorems | In the code |
|---|---|---|
| `MAX_ATTEMPTS > 1` | `RetriesAreNeverSpent`, `ProcessedStays`, `PartsHoldTogether` | 5 attempts per event |
| `MAX_ATTEMPTS >= QUEUE_ATTEMPTS` | `RefundsAreSingle`, `ResultsArePaid`, `AnnouncementsHold`, `FinalRowsStay` | both are 3; with fewer attempts in the row than in the queue, a job that was failed and refunded is delivered again |

An invariant of rows is hardly ever inductive here: the code writes whole copies that it read earlier, so what is
dangerous is in the memory of the processes. Every inductive invariant therefore says what a process holds at each
of its labels, and what may have happened to the row since.

* `BillingTypeCorrect`, `BillingNeverNegative`, `BillingWithinGrants` (`BillingProofs`). A stale entity
  in memory is as dangerous as a row, so the invariants are not inductive alone. `BoundInv` adds
  `EntitiesBounded`: each entity waiting to be saved is non-negative, and what it will write is within
  the grants, its own included. That covers a save of any age.
* `BillingImplementsLedger`, `BillingBalance` (`BillingProofs`), of calls that overlap in any way. `LedgerInv` adds
  that the entity of a call that nobody has overtaken is the row of now plus or minus its amount
  (`FreshEntities`), that rows are active, and `BalanceIsLedger` itself. From it, every step is a step of the
  ledger or a stutter: such a call's `Save` is the ledger's addition or deduction, an overtaken one's is an
  overwriting whose bound `BoundInv` gives, and a refusal is a refusal because a refused row is active
  and short of credits. An overtaken save is thus the only way an update is lost, and nothing is
  promised about the balance after it but its bounds.
* `RegistrationAtomic` (`RegistrationProofs`). The property speaks of the ends. `RegistrationInv` says at
  which labels the row is there and at which it is not, that the subscription comes after the mail, and, in
  the type invariant, that the address has one row. Clicks write rows but make and take none
  (`ClicksKeepInv`).
* `TokensStayDead`, `PasswordsAreOut`, `LaterResetsAreRefused` (`SessionsProofs`). The properties speak of rows, and
  the calls on their way hold what will be written to them. `SessionsInv` says what a call holds at each label
  (`HoldsWhatItNeeds`), that a link in hand was mailed to an earlier call (`LinksAreKnown`) and, once a reset has changed the password
  with it, is stored no more and in the hands of overtaken resets alone (`LinksAreSpent`), that a login on its
  way has the password of now or was overtaken (`LoginsAreCurrent`), and why a retired token cannot
  come back (`Dead`): it is of an earlier second and in no refresh's hands, or its session is revoked with no
  refresh in flight, or the row is gone. `UnsavedHaveNoPast` keeps the last case: a session that a login will
  still save is in no history. Steps that write to no table share one lemma (`QuietStep`); the six that
  write have one each.
* `PaymentsTypeCorrect`, `ApprovalIsPaid`, `ChargeableIsPersisted`, `OneEvent`, `NotificationPublishes`,
  `FinalStays` (`PaymentsProofs`). `PaymentsInv` says whose a row is: the saga's, as it last saved it, until the
  preference is handed out (`SagaOwnsRow`), and nobody pays before (`ChargesFollowSaga`). From then on it is
  the deliveries', whose news is true of the charge however old it is (`NewsHolds`), and so is the entity they
  will save (`EntityHolds`); hence rows that are approved name a charge that was paid, and events are of paid charges
  (`RowsNameTheirCharge`, `EventsArePaid`). `AloneHolds` is what is true in addition of a payment whose deliveries
  never overlapped: the one on its way writes over the row it has read, and the event follows its approval, alone.
* `OutboxTypeCorrect`, `RetriesAreNeverSpent`, `ProcessedStays`, `BalanceStaysWithinEarned`, `MarkedIsCredited`
  (`OutboxProofs`). Nothing claims an event for a poller. `AttemptsInv`: a row was never tried or is processed, and
  every copy in a batch is of an event that was never tried, but for the one whose mark was refused; so no write
  carries a second failure or takes `PROCESSED` back. `BalanceInv`: the copy of a subscription that a handler will
  save is within what saves have added by now, with its own add on top. `CreditedInv`: while nothing has
  failed, the events of a payment that are marked, or whose handler has returned, are no more than the saves of its
  credits. The steps are proved for `OutboxTurn`, a step of the pollers or of anybody who writes events
  (`Outside`), which lets the same lemmas serve the composition.
* `PartsHoldTogether`, `CreditsAreCharged`, `CreditsFollowCharges` (`PaymentCreditsProofs`). To each part a step
  of the other is one it allows: payments are `Outside` to the pollers (`PaymentsAreOutside`), and the pollers
  write statuses of events, which payments never look at (`PollersKeepPayments`). So `PartsInv` is kept,
  `CreditsInv` adds that a credited payment has an event, and with `EventsArePaid` credits lead back to a charge.
  For the refinement `OnceInv` follows the history: a preference has one live charge (`OneLiveCharge`), what two
  batches have in common is known to be read twice (`ReadsAreSeen`), a payment that is credited has an event that
  was read and, unless it counts as repeated, has no event left to serve (`CreditsWereRead`), handlers between read
  and save for one user make that user crowded (`CrowdIsSeen`), and of a user who is not, the copy to be saved is the row of now plus
  the credits (`LoadedIsCurrent`). From it every step is a charge, an addition, a disturbance or a stutter: no hypothesis on
  pollers, deliveries or faults is left, the exceptions are part of what is promised.
* `JobsTypeCorrect`, `AttemptsStayBounded`, `RefundsAreSingle`, `ResultsArePaid`, `AnnouncementsHold`,
  `FinalRowsStay` (`JobsProofs`). `CountInv` counts ahead: the failures in the row, and the workers that may still add
  one, are no more than the deliveries so far, and the queue is within its limits. `SettledInv` has what holds for one
  kind of fault: the worker on a job owns its entry (`OwnerServes`), what the request has done
  (`RequestHolds`), and that a worker with anything left to write to the job found it neither final nor refunded
  (`WorkHolds`). Why that stays so differs: after crashes because a refund comes after a final status
  (`CrashHolds`), after rejected calls because whatever is refunded is on its last delivery (`RejectHolds`, which
  needs the hypothesis). A job that is done is delivered again when its worker could not tell the user; the
  delivery that completed it counted no failure, so that the failures in the row stay behind the deliveries, and one
  that fails to find the job done is never taken for the last (`ServesFinal`). A step is about one job (`JobStep`, `ServeStep`), and nothing about the others changes
  (`Same`).
* `AnswersInTime` (`PlatformProofs`). `ProcessingInv` gives every attempt its share: those before it took their
  timeouts and the backoff after each (`Before`, which doubles: `BackoffDoubles`), itself what its phase allows,
  and a download that drips one timeout for each fault. Only an attempt that is not the last sleeps.
* `AnswersDecorated`, `RefusalsAreOvertaken` (`PlatformProofs`). `RoutesDocument` goes through the table of routes once;
  `ApiInv` adds that a request past the guard of credits, for a job, finds a credit or was overtaken
  (`GuardedOrOvertaken`).
* `NoOrphans` (`PlatformProofs`). A row may only go once its object is gone, and an object put again in between
  must be a late one: `ObjectGoesFirst`.
* `PlatformRegisters`, `PlatformTokensStayDead`, `PlatformPasswordsAreOut`, `PlatformRefusesLaterResets`,
  `PlatformKeepsRows`, `PlatformAnswersInTime`, `PlatformAnswers`, `PlatformRefusesOvertaken`,
  `PlatformTypeCorrect` (`PlatformProofs`). A step of the platform is, to each part, a step of its own or none
  (`PlatformRunsParts`), and never takes a fault back (`PlatformFaultsGrow`).

Only model-checked is liveness: `InitializationEnds`, `ApprovalIsPublished`, `EveryEventSettles`,
`PaidNotificationCredits`, `QueuedJobsEnd`, `ChargeIsSettled`, `ImagesAreAnswered`. It needs fairness and ENABLED, which
are out of the prover's reach, as are induction over data and RECURSIVE operators; no module declares one. The
violations of section 6 are TLC's counterexamples.

## 6. Limits: what does not hold

The six violation runs above are listed under `findings`, with the lines of code and the sentences of
the documentation they contradict. The conditions in the passing properties mark further limits, each
seen as a counterexample when the condition is dropped:

* billing: a call that another of its user overtook writes its old copy over the other's (`raced` in
  `BalanceIsLedger`, `Overwrite` in `CreditLedger`).
* payments: a rejected first attempt makes the payment `REJECTED`, which is final; a second, approved
  attempt on the same preference is ignored (`FirstAttempt` in `PaidNotificationPublishes`).
* payments: overlapping deliveries about one payment write two events for it, and may overwrite a final
  status; `OneEventPerPayment` and `FinalIsFinal` exclude them. Two events, or one that two polls
  have read, credit the payment twice (`Repeated` in `PaymentCredits`), and handlers that overlap for one user
  leave a wrong balance (`crowded`).
* payments: a crash between the first save and the provider's answer leaves a payment `INITIALIZING`.
* outbox: the bus swallows what the handler throws, so a fault in the handler leaves an event
  `PROCESSED` without credits (`faults = 0` in `ProcessedIsCredited`).
* jobs: a crash followed by a rejected read marks a `COMPLETED` job `FAILED` and refunds it; so the
  properties ask for one kind of fault (`OneKindOfFault`).
* jobs: with a lost reply of the queue the request refunds and fails a job that a worker is processing.
* jobs: a manual completion racing the worker is overwritten by `PROCESSING` or `FAILED`
  (`manual[j] = "idle"` in `FinalIsFinal`).
* jobs: one rejected call in the error handling leaves an attempt uncounted; the queue gives up first and the
  job stays `PROCESSING` (`OnlyCrashes` in `QueuedJobsEnd`).
* jobs: a user is told `FAILED` after each failed attempt, although the job is retried, so nothing is stated
  of announced failures.
* jobs: a failure between the deduction and the creation of the job, or between `FAILED` and the refund, loses
  the credit (`faults > 0` in `ChargeIsSettled`).
* jobs: the result of a job is returned to the processor and not stored; `JobResult` is never written. No
  property is about it.
* jobs: a worker process has no socket server, so that announcing a status there throws, in the `try` of
  `jobs.processor.ts:51` and again in its `catch` (`:62`): the user is not told, and the queue delivers the entry of a
  job that is done again until its attempts are used up (`AckThrows`).
* registration: a process that stops half-way leaves an account without subscription, or a row that blocks the
  address; the property speaks of requests that were answered.
* sessions: a token is a signature over user and second. A second login in one second answers 409; a refresh in
  the second of its token returns the same token, although `modules/iam/README.md:116` has "Old refresh
  token invalidated when used".
* sessions: overlapping refreshes overwrite each other, and one of them may undo a logout or a revocation
  (`Alone` in `Sessions`).
* sessions: a login that checked the old password is not ended by the change that overtakes it (`overtaken`).
* sessions: two resets on one link that both find it before either writes both change the password (`overtaken` in
  `LaterResetIsRefused`); only a later one is refused.
* sessions: the expiry of a reset link is stored and never read back (`findByPasswordResetToken`); a login looks
  neither at the status of the user nor at the verification of the address.
* uploads: a URL that was signed outlives the row, and what is put with it then is an orphan (`late`).
* uploads and ai: presigning stores an `s3://` URL, and `validateInputs` wants `http`, so that a job on an
  uploaded image fails and its credit comes back; `docs/handoff/uploads.md` calls it a "Public accessible URL".
* ai: a timeout leaves the call running and its answer unused; the timeout of a download counts silence only,
  so that a slow server holds it longer (`faults` in `AnswerIsInTime`); the call for an embedding has no
  timeout. The URL of a result is the URL of the input.
* http: only errors of iam and the missing query parameter are mapped. The domain errors of the other modules answer
  500 where their controllers document 400, 403 or 404 (`Unmapped`); `Undocumented` lists the rest:
  unknown Prisma codes answer 400, a refresh with a broken token 500 (`docs/handoff/iam.md:78` has 401),
  cancelling a job 204 for a documented 200, an invalid reset or verification token 401. `AnswersAsDecorated` compares with the
  decorators of the controllers. The READMEs differ from both: 402 for want of credits (run `api_payment_required`;
  the decorator has the 403 that the guard answers); in `modules/uploads/README.md:192-197` 413, 415, 404 and 503, where a
  wrong type, an unknown asset and S3 answer 500 and no check of the size exists; in `READIT.md:394` 503 when the mail of
  a registration fails, which answers 500.
* http: two requests pass the guard on the last credit; the second answers 500 (`overtaken` in
  `GuardedRefusalIsOvertaken`), unless it reads the row before the first has saved, and then both spend it
  (`billing_overspend`).
* providers: `modules/payments/README.md:53-58` wraps the external calls in a circuit breaker that opens for 30 seconds
  after 5 failures. `payment-provider.entity.ts` is `DEGRADED` at 5 and still accepts, refuses from 10 and has no clock; nobody
  reports a failure to it and no test covers it. As the counting never runs, it is not modelled and no run is about it.

## 7. Not modelled

* The health of payment providers and its circuit breaker: code that counts what nobody reports (section 6).
* Listings, searches, statistics of the dashboard, DTOs, mappers: reads, or data without a protocol. Their routes and errors
  are in `HttpApi`.
* Vector search, prompts, parsers of AI answers beyond the status they give: data.
* Sockets: connecting, rooms, the Redis adapter. `Jobs` has the last status announced.
* The counters of the throttler; start and shutdown hooks; configuration, logging, e-mail templates, dates,
  request ids, the Prisma client: no state a property could be about.
* The adapters of Culqi and crypto payments are stubs of the code; their webhooks answer 501, which `HttpApi` has.
