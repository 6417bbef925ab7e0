--------------------------- MODULE OutboxProcessor ---------------------------
(***************************************************************************)
(* The outbox pollers and the handler they call.  Every process of the     *)
(* deployment (the API, and each worker) starts a poller: it reads a batch *)
(* of pending events, publishes one after the other on its in-memory bus,  *)
(* where PaymentApprovedHandler adds the credits, and marks each processed.*)
(*                                                                         *)
(* Each step below ends at an await; nothing claims an event for a poller. *)
(***************************************************************************)
EXTENDS OutboxStore, SubscriptionStore, FiniteSetsExt

CONSTANTS
  Pollers,
  BATCH_SIZE,   \* events read by one poll (10 in the code)
  MaxEvents     \* bound on the events written

ASSUME BatchSizeIsPositive == BATCH_SIZE \in Nat \ {0}
ASSUME MaxEventsIsNat == MaxEvents \in Nat

VARIABLES
  processedEvents,  \* the table of ids of events a handler has processed
  poller,           \* poller -> where it is
  batch,            \* poller -> the events left: id -> the entity in memory
  loaded,           \* poller -> the subscription its handler holds
  credited,         \* history: payment -> saves that added its credits
  earned            \* history: user -> credits that saves have added

pollerVars == <<poller, batch, loaded>>
history == <<credited, earned>>
processorVars == <<subscription, processedEvents, pollerVars, history>>

PollerControl == {"sleep", "check", "load", "save", "record", "mark", "remark"}

IsBatch(b) == DOMAIN b \subseteq DOMAIN outbox /\ b \in [DOMAIN b -> OutboxEvent]

NoBatch == <<>>

\* A poller is asleep exactly when it has no batch.
ProcessorTypeOK ==
  /\ OutboxTypeOK
  /\ FaultsTypeOK
  /\ SubscriptionTypeOK
  /\ poller \in [Pollers -> PollerControl]
  /\ DOMAIN batch = Pollers
  /\ \A w \in Pollers :
       IsBatch(batch[w]) /\ (poller[w] = "sleep" <=> DOMAIN batch[w] = {})
  /\ loaded \in [Pollers -> Subscription \union {NoSubscription}]
  /\ credited \in [PaymentIds -> Nat]
  /\ earned \in [Users -> Nat]

ProcessorInit ==
  /\ SubscriptionInit
  /\ processedEvents = {}
  /\ poller = [w \in Pollers |-> "sleep"]
  /\ batch = [w \in Pollers |-> NoBatch]
  /\ loaded = [w \in Pollers |-> NoSubscription]
  /\ credited = [p \in PaymentIds |-> 0]
  /\ earned = [u \in Users |-> 0]

-----------------------------------------------------------------------------
(***************************************************************************)
(* The handler's idempotency table.                                        *)
(***************************************************************************)

\* Stands for an id drawn at random, which no row of the table has.
RandomUUID == "random uuid"

\* Fault seeded in eventId: the payment taken for the event.
eventId_ofPayment(content) == content.paymentId

eventId(content) ==
  IF "eventId" \in DOMAIN content THEN content.eventId ELSE RandomUUID

wasProcessedBy(id) == id # RandomUUID /\ id \in processedEvents

createProcessedEvent(id) == processedEvents' = processedEvents \union {id}

isValid(content) == content.creditsAmount > 0

-----------------------------------------------------------------------------
(***************************************************************************)
(* The poller.                                                             *)
(***************************************************************************)

\* The events of a batch are served oldest first.
Current(w) == Min(DOMAIN batch[w])

Content(w) == batch[w][Current(w)].payload

PollerTo(w, label) == poller' = [poller EXCEPT ![w] = label]

Poll(w) ==
  /\ poller[w] = "sleep"
  /\ oldestPending(BATCH_SIZE) # {}
  /\ batch' = [batch EXCEPT ![w] = findPending(BATCH_SIZE)]
  /\ PollerTo(w, "check")
  /\ NoFault
  /\ UNCHANGED <<outbox, subscription, processedEvents, loaded, history>>

Left(w) == DOMAIN batch[w] \ {Current(w)}

\* Fault seeded in Advance: one more event than the batch holds.
Advance_offByOne(w) ==
  /\ batch' = [batch EXCEPT ![w] = Restrict(@, Left(w))]
  /\ PollerTo(w, "check")

\* The next event of the batch, or the sleep between two polls.
Advance(w) ==
  /\ batch' = [batch EXCEPT ![w] = Restrict(@, Left(w))]
  /\ PollerTo(w, IF Left(w) = {} THEN "sleep" ELSE "check")

MarkProcessed(w) ==
  /\ poller[w] = "mark"
  /\ updateEvent(Current(w), markProcessed(batch[w][Current(w)]))
  /\ Advance(w)
  /\ NoFault
  /\ UNCHANGED <<subscription, processedEvents, loaded, history>>

\* Fault seeded in MarkFails: the failure is recorded on the entity as it was
\* before it was marked.
MarkFails_unmarked(w) ==
  /\ poller[w] = "mark"
  /\ Fault
  /\ batch' = [batch EXCEPT ![w][Current(w)] = recordFailure(@)]
  /\ PollerTo(w, "remark")
  /\ UNCHANGED <<outbox, subscription, processedEvents, loaded, history>>

\* The catch of processEvent: by now the entity says PROCESSED.
MarkFails(w) ==
  /\ poller[w] = "mark"
  /\ Fault
  /\ batch' = [batch EXCEPT ![w][Current(w)] = recordFailure(markProcessed(@))]
  /\ PollerTo(w, "remark")
  /\ UNCHANGED <<outbox, subscription, processedEvents, loaded, history>>

Remark(w) ==
  /\ poller[w] = "remark"
  /\ updateEvent(Current(w), batch[w][Current(w)])
  /\ Advance(w)
  /\ NoFault
  /\ UNCHANGED <<subscription, processedEvents, loaded, history>>

\* The second update rejects and ends the batch, or the process stops and is
\* started again: either way the poller comes back with nothing in memory.
Stop(w) ==
  /\ poller[w] # "sleep"
  /\ Fault
  /\ PollerTo(w, "sleep")
  /\ batch' = [batch EXCEPT ![w] = NoBatch]
  /\ UNCHANGED <<outbox, subscription, processedEvents, loaded, history>>

-----------------------------------------------------------------------------
(***************************************************************************)
(* PaymentApprovedHandler, called by the bus.  Whatever it throws the bus  *)
(* logs and swallows, and the event is then marked processed.              *)
(***************************************************************************)

CheckProcessed(w) ==
  /\ poller[w] = "check"
  /\ PollerTo(w, IF isValid(Content(w)) /\ ~wasProcessedBy(eventId(Content(w)))
                   THEN "load" ELSE "mark")
  /\ NoFault
  /\ UNCHANGED <<outbox, subscription, processedEvents, batch, loaded, history>>

\* Fault seeded in LoadSubscription: the entity of an earlier event is reused.
LoadSubscription_cached(w) ==
  LET s == IF loaded[w] = NoSubscription THEN findByUserId(Content(w).userId) ELSE loaded[w] IN
  /\ poller[w] = "load"
  /\ IF s = NoSubscription
       THEN PollerTo(w, "mark") /\ UNCHANGED loaded
       ELSE /\ loaded' = [loaded EXCEPT ![w] = addCredits(s, Content(w).creditsAmount)]
            /\ PollerTo(w, "save")
  /\ NoFault
  /\ UNCHANGED <<outbox, subscription, processedEvents, batch, history>>

LoadSubscription(w) ==
  LET s == findByUserId(Content(w).userId) IN
  /\ poller[w] = "load"
  /\ IF s = NoSubscription
       THEN PollerTo(w, "mark") /\ UNCHANGED loaded
       ELSE /\ loaded' = [loaded EXCEPT ![w] = addCredits(s, Content(w).creditsAmount)]
            /\ PollerTo(w, "save")
  /\ NoFault
  /\ UNCHANGED <<outbox, subscription, processedEvents, batch, history>>

SaveCredits(w) ==
  /\ poller[w] = "save"
  /\ saveSubscription(Content(w).userId, loaded[w])
  /\ credited' = [credited EXCEPT ![Content(w).paymentId] = @ + 1]
  /\ earned' = [earned EXCEPT ![Content(w).userId] = @ + Content(w).creditsAmount]
  /\ PollerTo(w, "record")
  /\ NoFault
  /\ UNCHANGED <<outbox, processedEvents, batch, loaded>>

RecordProcessed(w) ==
  /\ poller[w] = "record"
  /\ createProcessedEvent(eventId(Content(w)))
  /\ PollerTo(w, "mark")
  /\ NoFault
  /\ UNCHANGED <<outbox, subscription, batch, loaded, history>>

HandlerFails(w) ==
  /\ poller[w] \in {"check", "load", "save", "record"}
  /\ Fault
  /\ PollerTo(w, "mark")
  /\ UNCHANGED <<outbox, subscription, processedEvents, batch, loaded, history>>

HandlerStep(w) ==
  CheckProcessed(w) \/ LoadSubscription(w) \/ SaveCredits(w) \/ RecordProcessed(w)

PollerStep(w) == Poll(w) \/ HandlerStep(w) \/ MarkProcessed(w) \/ Remark(w)

PollerFault(w) == HandlerFails(w) \/ MarkFails(w) \/ Stop(w)

ProcessorNext == \E w \in Pollers : PollerStep(w) \/ PollerFault(w)

-----------------------------------------------------------------------------

\* A webhook writes an event, two for one payment included.
Publish(p) ==
  /\ Len(outbox) < MaxEvents
  /\ createOutboxEvent(createEvent(p))
  /\ NoFault
  /\ UNCHANGED <<subscription, processedEvents, pollerVars, history>>

OutboxNext == ProcessorNext \/ \E p \in PaymentIds : Publish(p)

OutboxStart == ProcessorInit /\ OutboxInit /\ FaultsInit

OutboxSpec == OutboxStart /\ [][OutboxNext]_<<processorVars, outbox, faults>>

\* Every process polls again after its sleep and serves what it has read.
FairOutboxSpec ==
  OutboxSpec /\ \A w \in Pollers : WF_<<processorVars, outbox, faults>>(PollerStep(w))

-----------------------------------------------------------------------------
(***************************************************************************)
(* Properties.                                                             *)
(***************************************************************************)

Events(p, status) ==
  {i \in DOMAIN outbox : outbox[i].payload.paymentId = p /\ outbox[i].status = status}

Subscribed(u) == subscription[u] # NoSubscription

Creditable(p) == Subscribed(PayerOf[p]) /\ CreditsOf[p] > 0

\* The retry budget is never spent: a failing handler does not reach the
\* poller, and a failing update is recorded on an entity that already says
\* PROCESSED.  No event is ever dead-lettered.
NeverDeadLettered ==
  \A i \in DOMAIN outbox : outbox[i].attempts <= 1 /\ outbox[i].status # "FAILED"

\* PROCESSED is final, although a poller may write an entity it read long ago
\* over a row another one has marked since.
ProcessedIsFinal ==
  [][\A i \in DOMAIN outbox :
       outbox[i].status = "PROCESSED" => outbox'[i].status = "PROCESSED"]_<<processorVars, outbox, faults>>

\* Every event is marked in the end, whatever fails a bounded number of times:
\* "guaranteed event delivery" (domain-events.module.ts), of the mark.
EveryEventSettles ==
  \A i \in 1..MaxEvents :
    (i \in DOMAIN outbox /\ outbox[i].status = "PENDING")
      ~> (i \in DOMAIN outbox /\ outbox[i].status = "PROCESSED")

\* While nothing has failed, an event marked processed has added its credits,
\* however the pollers overlap.
ProcessedIsCredited ==
  \A p \in PaymentIds :
    faults = 0 /\ Creditable(p) => Cardinality(Events(p, "PROCESSED")) <= credited[p]

\* No event adds its credits twice: the handler "implements idempotency to
\* prevent duplicate credit additions" (payment-approved.handler.ts).
CreditedAtMostOncePerEvent ==
  \A p \in PaymentIds : credited[p] <= Cardinality(EventsOf(p))

\* The free tier and what was added for the payments of u.
Earned(u) == FREE_TIER_CREDITS + earned[u]

\* Whatever fails between the calls of a handler and however two handlers
\* overlap, a balance holds no more than its saves have added.  Overlapping
\* saves may lose an add, never invent one.
BalanceWithinEarned ==
  \A u \in Users :
    Subscribed(u) => subscription[u].creditsRemaining \in FREE_TIER_CREDITS..Earned(u)
=============================================================================
