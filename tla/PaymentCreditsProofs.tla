------------------------ MODULE PaymentCreditsProofs ------------------------
(***************************************************************************)
(* Proofs about PaymentCredits: what is proved of its parts alone holds of *)
(* them together, credits come from charges only, and what is added twice  *)
(* or lost follows from deliveries, reads or handlers that overlap.        *)
(***************************************************************************)
EXTENDS PaymentCredits, PaymentsProofs, OutboxProofs

-----------------------------------------------------------------------------
(***************************************************************************)
(* The invariants.                                                         *)
(***************************************************************************)

PartsInv == PaymentsInv /\ CreditedInv

\* Credits are added for payments some event is about, and all of those were
\* charged (EventsArePaid).
CreditsHaveEvents == \A p \in PaymentIds : credited[p] > 0 => EventsOf(p) # {}

CreditsInv == PartsInv /\ CreditsHaveEvents

\* Of the attempts to pay one preference, one at most is on its way or paid.
Live(c) == charge[c] \in {"pending", "approved", "refunded"}

OneLiveCharge ==
  \A c, d \in Charges : PreferenceOf[c] = PreferenceOf[d] /\ Live(c) /\ Live(d) => c = d

\* What the polls have read, and who holds it.
ReadsAreSeen ==
  /\ polled \subseteq DOMAIN outbox
  /\ \A w \in Pollers : DOMAIN batch[w] \subseteq polled
  /\ \A v, w \in Pollers : v # w => DOMAIN batch[v] \intersect DOMAIN batch[w] \subseteq reread

\* w serves the event i, and has got over the save.
IsServed(w, i) == i = Current(w) /\ poller[w] \in {"record", "mark", "remark"}

\* A payment credited is one that some poll has read an event of; unless it is
\* repeated, whoever holds an event of it has credited it.
CreditsWereRead ==
  \A p \in PaymentIds : credited[p] > 0 =>
    /\ EventsOf(p) \intersect polled # {}
    /\ \/ Repeated(p)
       \/ \A w \in Pollers : \A i \in DOMAIN batch[w] \intersect EventsOf(p) : IsServed(w, i)

CrowdIsSeen == Crowd \subseteq crowded /\ crowded \subseteq Users

\* What is about to be saved for a user who is not crowded is the balance of
\* now, and the credits on top.
LoadedIsCurrent ==
  \A w \in Pollers :
    poller[w] = "save" /\ Content(w).userId \notin crowded =>
      /\ Subscribed(Content(w).userId)
      /\ loaded[w] = addCredits(subscription[Content(w).userId], Content(w).creditsAmount)

OnceInv ==
  /\ CreditsInv
  /\ OneLiveCharge
  /\ ReadsAreSeen
  /\ CreditsWereRead
  /\ CrowdIsSeen
  /\ LoadedIsCurrent

-----------------------------------------------------------------------------
(***************************************************************************)
(* What each part sees of the other.                                       *)
(***************************************************************************)

\* To the pollers the payments module is a process that writes events.
LEMMA PaymentsAreOutside ==
  ASSUME PartsInv, PaymentsStep \/ UNCHANGED vars
  PROVE  Outside
<1>1. /\ faults \in 0..MaxFaults /\ MaxFaults \in Nat
      /\ DeliveriesHold /\ PaymentsTypeOK
  BY MaxFaultsIsNat DEF PartsInv, PaymentsInv, PaymentsTypeOK, FaultsTypeOK
<1>2. NoFault \/ Fault => faults' \in faults..MaxFaults
  BY <1>1 DEF NoFault, Fault
<1>3. CASE UNCHANGED vars
  BY <1>1, <1>3 DEF vars, Outside
<1>4. ASSUME NEW h \in Hooks, CreateEvent(h)
      PROVE  NoFault /\ \E p \in PaymentIds : createOutboxEvent(createEvent(p))
  <2>1. held[h] \in Delivery
    BY <1>1, <1>4 DEF DeliveriesHold, Notified, CreateEvent
  <2>2. held[h].id \in PaymentIds
    BY <2>1 DEF Delivery
  <2> QED
    BY <1>4, <2>2 DEF CreateEvent
<1>5. CASE PaymentsStep
  <2>1. \/ \E h \in Hooks : CreateEvent(h)
        \/ UNCHANGED outbox /\ (NoFault \/ Fault)
    BY <1>5 DEF PaymentsStep, PaymentsNext, RefusePreference, CreatePayment, SagaStep,
       PreferenceCreated, PreferenceFails, SavePreference, SaveRollback, SavePreferenceFails,
       SagaStops, Pay, Settle, Fetch, HookStep, FindPayment, SavePayment, HookFails
  <2> QED
    BY <1>2, <1>4, <1>5, <2>1 DEF PaymentsStep, Outside
<1> QED
  BY <1>3, <1>5

\* To the payments module the pollers are processes that write the statuses of
\* events, never their payloads.
LEMMA PollersKeepEvents ==
  ASSUME PartsInv, ProcessorStep
  PROVE  /\ OutboxTypeOK' /\ FaultsTypeOK' /\ faults <= faults'
         /\ DOMAIN outbox' = DOMAIN outbox
         /\ \A i \in DOMAIN outbox : outbox'[i].payload = outbox[i].payload
<1>1. ProcessorNext /\ OutboxTurn /\ ProcessorTypeOK /\ CopiesKeepPayload
  BY DEF PartsInv, CreditedInv, BalanceInv, ProcessorStep, OutboxTurn
<1>2. ProcessorTypeOK' /\ \A i \in DOMAIN outbox : outbox'[i].payload = outbox[i].payload
  BY <1>1, ProcessorTypeNext, CopiesNext
<1>3. faults <= faults'
  BY <1>1 DEF ProcessorTypeOK, FaultsTypeOK, ProcessorNext, PollerStep, PollerFault, HandlerStep,
     Poll, MarkProcessed, Remark, CheckProcessed, LoadSubscription, SaveCredits, RecordProcessed,
     HandlerFails, MarkFails, Stop, NoFault, Fault
<1>4. ASSUME NEW w \in Pollers, MarkProcessed(w) \/ Remark(w)
      PROVE  DOMAIN outbox' = DOMAIN outbox
  BY <1>1, <1>4 DEF MarkProcessed, Remark, updateEvent, ProcessorTypeOK, OutboxTypeOK
<1>5. DOMAIN outbox' = DOMAIN outbox
  BY <1>1, <1>4 DEF ProcessorNext, PollerStep, PollerFault, HandlerStep,
     Poll, CheckProcessed, LoadSubscription, SaveCredits, RecordProcessed,
     HandlerFails, MarkFails, Stop
<1> QED
  BY <1>2, <1>3, <1>5 DEF ProcessorTypeOK

LEMMA PollersKeepPayments ==
  ASSUME PartsInv, ProcessorStep
  PROVE  PaymentsInv'
<1>1. /\ UNCHANGED <<payment, saga, draft, charge, hook, held>>
  BY DEF ProcessorStep, paymentVars, sagaVars, hookVars
<1>2. /\ OutboxTypeOK' /\ FaultsTypeOK' /\ faults <= faults'
      /\ DOMAIN outbox' = DOMAIN outbox
      /\ \A i \in DOMAIN outbox : outbox'[i].payload = outbox[i].payload
  BY PollersKeepEvents
<1>3. /\ PaymentsTypeOK /\ SagaOwnsRow /\ ChargesFollowSaga /\ RowsNameTheirCharge /\ DeliveriesHold
      /\ RejectionsHaveCause /\ EventsArePaid /\ DeliveriesAlone /\ PaidNotificationPublishes
      /\ faults \in Nat
  BY DEF PartsInv, PaymentsInv, PaymentsTypeOK, FaultsTypeOK
<1>4. PaymentsTypeOK'
  BY <1>1, <1>2, <1>3 DEF PaymentsTypeOK
<1>5. SagaOwnsRow' /\ ChargesFollowSaga' /\ RowsNameTheirCharge' /\ DeliveriesHold' /\ RejectionsHaveCause'
  BY <1>1, <1>3 DEF SagaOwnsRow, ChargesFollowSaga, RowsNameTheirCharge, DeliveriesHold,
     RejectionsHaveCause, Notified, NewsHolds, EntityHolds, Paid, About
<1>6. EventsArePaid'
  BY <1>1, <1>2, <1>3 DEF EventsArePaid, Paid
<1>7. \A p : EventsOf(p)' = EventsOf(p)
  BY <1>2 DEF EventsOf
<1>8. \A p : InFlightAbout(p)' = InFlightAbout(p) /\ Overlapped(p)' = Overlapped(p)
  BY <1>1 DEF InFlightAbout, InFlight, Overlapped, Notified
<1>9. faults' = 0 => faults = 0
  BY <1>2, <1>3 DEF FaultsTypeOK
<1>10. DeliveriesAlone'
  <2> SUFFICES ASSUME NEW p \in PaymentIds, ~Overlapped(p), AloneHolds(p)
               PROVE  AloneHolds(p)'
    BY <1>3, <1>8 DEF DeliveriesAlone
  <2> QED
    BY <1>1, <1>7, <1>8, <1>9 DEF AloneHolds
<1>11. PaidNotificationPublishes'
  <2>1. \A c : FirstAttempt(c)' = FirstAttempt(c)
    BY <1>1 DEF FirstAttempt
  <2> QED
    BY <1>1, <1>3, <1>7, <1>8, <1>9, <2>1 DEF PaidNotificationPublishes
<1> QED
  BY <1>4, <1>5, <1>6, <1>10, <1>11 DEF PaymentsInv

LEMMA PaymentsKeepPayments ==
  ASSUME PaymentsInv, PaymentsStep \/ UNCHANGED vars
  PROVE  PaymentsInv'
BY PaymentsInvNext DEF PaymentsStep, vars

LEMMA PartsInit == Init => PartsInv
BY PaymentsInvInit, CreditedInit DEF Init, PartsInv

LEMMA TurnsOfBoth ==
  ASSUME PartsInv, [Next]_vars
  PROVE  OutboxTurn
BY PaymentsAreOutside DEF Next, ProcessorStep, OutboxTurn

LEMMA PartsNext ==
  ASSUME PartsInv, [Next]_vars
  PROVE  PartsInv'
<1>1. CreditedInv'
  BY TurnsOfBoth, CreditedNext DEF PartsInv
<1>2. PaymentsInv'
  BY PollersKeepPayments, PaymentsKeepPayments DEF PartsInv, Next
<1> QED
  BY <1>1, <1>2 DEF PartsInv

\* What is proved of the webhooks and of the pollers alone holds of them
\* together: with real events in place of any, and rows that the pollers write.
THEOREM PartsHoldTogether ==
  ASSUME MAX_ATTEMPTS > 1
  PROVE  Spec => [](/\ ApprovedMeansPaid /\ OneEventPerPayment /\ PaidNotificationPublishes
                    /\ NeverDeadLettered /\ ProcessedIsCredited /\ BalanceWithinEarned)
<1>1. Init => PartsInv /\ AttemptsInv
  BY PartsInit, AttemptsInit DEF Init
<1>2. PartsInv /\ AttemptsInv /\ [Next]_vars => PartsInv' /\ AttemptsInv'
  BY PartsNext, TurnsOfBoth, AttemptsNext
<1>3. PaymentsInv => ApprovedMeansPaid /\ OneEventPerPayment /\ PaidNotificationPublishes
  <2>1. RowsNameTheirCharge => ApprovedMeansPaid
    BY DEF RowsNameTheirCharge, ApprovedMeansPaid
  <2>2. DeliveriesAlone => OneEventPerPayment
    BY DEF DeliveriesAlone, AloneHolds, OneEventPerPayment
  <2> QED
    BY <2>1, <2>2 DEF PaymentsInv
<1>4. AttemptsInv => NeverDeadLettered
  BY DEF AttemptsInv, RowsUntriedOrSettled, Untried, Settled, NeverDeadLettered
<1>5. CreditedInv => ProcessedIsCredited /\ BalanceWithinEarned
  BY MarkedAreCredited DEF CreditedInv, BalanceInv
<1> QED
  BY <1>1, <1>2, <1>3, <1>4, <1>5, PTL DEF Spec, PartsInv

-----------------------------------------------------------------------------
(***************************************************************************)
(* Credits and charges.                                                    *)
(***************************************************************************)

\* Which payment a save adds its credits for, and what it does to the rows.
LEMMA SaveAdds ==
  ASSUME PartsInv, NEW w \in Pollers, SaveCredits(w)
  PROVE  /\ Content(w).paymentId \in PaymentIds
         /\ Current(w) \in EventsOf(Content(w).paymentId)
         /\ credited' = [credited EXCEPT ![Content(w).paymentId] = credited[Content(w).paymentId] + 1]
         /\ UNCHANGED outbox
<1>1. ProcessorTypeOK /\ CopiesKeepPayload /\ poller[w] = "save"
  BY DEF PartsInv, CreditedInv, BalanceInv, SaveCredits
<1>2. /\ Current(w) \in DOMAIN batch[w] /\ Current(w) \in DOMAIN outbox
      /\ Content(w).paymentId \in PaymentIds
  BY <1>1, CurrentIsInBatch
<1>3. Content(w) = outbox[Current(w)].payload
  BY <1>1, <1>2 DEF Content, CopiesKeepPayload
<1> QED
  BY <1>2, <1>3 DEF EventsOf, SaveCredits

LEMMA CreditsUnchanged ==
  ASSUME [Next]_vars, \A w \in Pollers : ~SaveCredits(w)
  PROVE  UNCHANGED <<subscription, credited>>
BY DEF Next, vars, PaymentsStep, ProcessorStep, processorVars, history, pollerVars, ProcessorNext,
   PollerStep, PollerFault, HandlerStep, Poll, MarkProcessed, Remark, CheckProcessed,
   LoadSubscription, RecordProcessed, HandlerFails, MarkFails, Stop

\* Events stay about the payment they were written for.
LEMMA EventsGrow ==
  ASSUME PartsInv, [Next]_vars, NEW p
  PROVE  EventsOf(p) \subseteq EventsOf(p)'
<1>1. OutboxTurn /\ ProcessorTypeOK /\ CopiesKeepPayload
  BY TurnsOfBoth DEF PartsInv, CreditedInv, BalanceInv
<1>2. \A i \in DOMAIN outbox : outbox'[i].payload = outbox[i].payload
  BY <1>1, CopiesNext
<1>3. DOMAIN outbox \subseteq DOMAIN outbox'
  <2>1. CASE ProcessorStep
    BY <2>1, PollersKeepEvents
  <2>2. CASE Outside
    <3>1. outbox \in Seq(OutboxEvent)
      BY <1>1 DEF ProcessorTypeOK, OutboxTypeOK
    <3>2. \A q \in PaymentIds : createEvent(q) \in OutboxEvent
      BY DEF createEvent, OutboxEvent, OutboxStatus
    <3> QED
      BY <2>2, <3>1, <3>2 DEF Outside, createOutboxEvent
  <2> QED
    BY <2>1, <2>2, PaymentsAreOutside DEF Next
<1> QED
  BY <1>2, <1>3 DEF EventsOf

LEMMA CreditsInit == Init => CreditsInv
<1> SUFFICES ASSUME Init PROVE CreditsInv
  OBVIOUS
<1>1. \A p \in PaymentIds : credited[p] = 0
  BY DEF Init, ProcessorInit
<1> QED
  BY <1>1, PartsInit DEF CreditsInv, CreditsHaveEvents

LEMMA CreditsNext == CreditsInv /\ [Next]_vars => CreditsInv'
<1> SUFFICES ASSUME CreditsInv, [Next]_vars PROVE CreditsInv'
  OBVIOUS
<1>1. PartsInv /\ PartsInv' /\ CreditsHaveEvents /\ credited \in [PaymentIds -> Nat]
  BY PartsNext DEF CreditsInv, PartsInv, CreditedInv, BalanceInv, ProcessorTypeOK
<1>2. CASE \A w \in Pollers : ~SaveCredits(w)
  BY <1>1, <1>2, CreditsUnchanged, EventsGrow DEF CreditsInv, CreditsHaveEvents
<1>3. ASSUME NEW w \in Pollers, SaveCredits(w) PROVE CreditsHaveEvents'
  <2>1. /\ Content(w).paymentId \in PaymentIds
        /\ EventsOf(Content(w).paymentId) # {}
        /\ credited' = [credited EXCEPT ![Content(w).paymentId] = credited[Content(w).paymentId] + 1]
    BY <1>1, <1>3, SaveAdds
  <2>2. \A p \in PaymentIds : credited'[p] > 0 => EventsOf(p) # {}
    BY <1>1, <2>1 DEF CreditsHaveEvents
  <2> QED
    BY <1>1, <2>2, EventsGrow DEF CreditsHaveEvents
<1> QED
  BY <1>1, <1>2, <1>3 DEF CreditsInv

\* Whatever is lost, repeated or interleaved between the webhook and the save
\* of the credits, credits are added only for a payment that was charged.
THEOREM CreditsAreCharged == Spec => []NoCreditWithoutCharge
<1>1. CreditsInv => NoCreditWithoutCharge
  <2> SUFFICES ASSUME CreditsInv, NEW p \in PaymentIds, credited[p] > 0
               PROVE  p \in ChargedPayments
    BY DEF NoCreditWithoutCharge
  <2>1. PICK i \in EventsOf(p) : TRUE
    BY DEF CreditsInv, CreditsHaveEvents
  <2>2. i \in DOMAIN outbox /\ outbox[i].payload.paymentId = p
    BY <2>1 DEF EventsOf
  <2>3. PICK c \in Charges : PreferenceOf[c] = p /\ Paid(c)
    BY <2>2 DEF CreditsInv, PartsInv, PaymentsInv, EventsArePaid
  <2> QED
    BY <2>3 DEF ChargedPayments
<1> QED
  BY <1>1, CreditsInit, CreditsNext, PTL DEF Spec

-----------------------------------------------------------------------------
(***************************************************************************)
(* What is repeated, and what is crowded.                                  *)
(***************************************************************************)

\* A step of the payments module adds an event, if anything, and leaves the
\* rows of the others.
LEMMA RowsAreLeft ==
  ASSUME PartsInv, PaymentsStep \/ UNCHANGED vars
  PROVE  /\ UNCHANGED <<subscription, poller, batch, loaded, credited>>
         /\ DOMAIN outbox \subseteq DOMAIN outbox'
         /\ \A i \in DOMAIN outbox : outbox'[i] = outbox[i]
         /\ \A w : Current(w)' = Current(w) /\ Content(w)' = Content(w)
<1>1. Outside /\ outbox \in Seq(OutboxEvent)
  BY PaymentsAreOutside DEF PartsInv, CreditedInv, BalanceInv, ProcessorTypeOK, OutboxTypeOK
<1>2. \A q \in PaymentIds : createEvent(q) \in OutboxEvent
  BY DEF createEvent, OutboxEvent, OutboxStatus
<1>3. UNCHANGED <<subscription, poller, batch, loaded, credited>>
  BY <1>1 DEF Outside, processorVars, pollerVars, history
<1>4. DOMAIN outbox \subseteq DOMAIN outbox' /\ \A i \in DOMAIN outbox : outbox'[i] = outbox[i]
  BY <1>1, <1>2 DEF Outside, createOutboxEvent
<1> QED
  BY <1>3, <1>4 DEF Current, Content

LEMMA OneLiveChargeNext ==
  ASSUME PartsInv, OneLiveCharge, [Next]_vars
  PROVE  OneLiveCharge'
<1>1. charge \in [Charges -> ChargeStatus]
  BY DEF PartsInv, PaymentsInv, PaymentsTypeOK
<1>2. ASSUME NEW c \in Charges, Pay(c) \/ Settle(c) PROVE OneLiveCharge'
  <2>1. PICK status \in ChargeStatus : charge' = [charge EXCEPT ![c] = status]
    BY <1>2 DEF Pay, Settle, ChargeStatus
  <2>2. /\ charge'[c] = status
        /\ \A d \in Charges \ {c} : charge'[d] = charge[d]
    BY <1>1, <2>1
  <2>3. Live(c) \/ \A d \in Charges \ {c} : PreferenceOf[d] = PreferenceOf[c] => ~Live(d)
    BY <1>2 DEF Pay, Settle, Live
  <2> QED
    BY <2>2, <2>3 DEF OneLiveCharge, Live
<1>3. CASE charge' = charge
  BY <1>3 DEF OneLiveCharge, Live
<1>4. charge' = charge \/ \E c \in Charges : Pay(c) \/ Settle(c)
  BY DEF Next, vars, paymentVars, ProcessorStep, PaymentsStep, PaymentsNext, RefusePreference,
     CreatePayment, SagaStep, PreferenceCreated, PreferenceFails, SavePreference, SaveRollback,
     SavePreferenceFails, SagaStops, Fetch, HookStep, FindPayment, SavePayment, CreateEvent, HookFails
<1> QED
  BY <1>2, <1>3, <1>4

\* A delivery that overlapped another stays one.
LEMMA OverlapsStay ==
  ASSUME PartsInv, [Next]_vars, NEW p, Overlapped(p)
  PROVE  Overlapped(p)'
<1>1. /\ hook \in [Hooks -> HookControl] /\ DOMAIN held = Hooks
      /\ \A h \in Hooks : Notified(h) => held[h] \in Delivery
  BY DEF PartsInv, PaymentsInv, PaymentsTypeOK, DeliveriesHold
<1>2. PICK g \in Hooks : Notified(g) /\ PreferenceOf[held[g].charge] = p /\ held[g].overlaps
  BY DEF Overlapped
<1>3. ASSUME NEW h \in Hooks, NEW c \in Charges, Fetch(h, c) PROVE Overlapped(p)'
  <2>1. g # h
    BY <1>2, <1>3 DEF Fetch, Notified
  <2>2. hook'[g] = hook[g] /\ held'[g] = held[g]
    BY <1>1, <1>3, <2>1 DEF Fetch, HookTo
  <2> QED
    BY <1>2, <2>2 DEF Overlapped, Notified
<1>4. ASSUME NEW h \in Hooks, HookStep(h) \/ HookFails(h) PROVE Overlapped(p)'
  <2>1. PICK label \in HookControl \ {"idle"} : hook' = [hook EXCEPT ![h] = label]
    BY <1>4 DEF HookStep, FindPayment, SavePayment, CreateEvent, HookFails, HookTo, HookControl
  <2>2. Notified(g)'
    BY <1>1, <1>2, <2>1 DEF Notified
  <2>3. \/ held' = held
        \/ \E id, e : held' = [held EXCEPT ![h].id = id, ![h].entity = e]
    BY <1>4 DEF HookStep, FindPayment, SavePayment, CreateEvent, HookFails
  <2>4. held'[g].overlaps = held[g].overlaps /\ held'[g].charge = held[g].charge
    <3>1. ASSUME NEW id, NEW e, held' = [held EXCEPT ![h].id = id, ![h].entity = e]
          PROVE  held'[g].overlaps = held[g].overlaps /\ held'[g].charge = held[g].charge
      <4>1. held' = [held EXCEPT ![h] = [held[h] EXCEPT !.id = id, !.entity = e]]
        BY <1>1, <3>1
      <4>2. CASE g = h
        <5>1. [held[g] EXCEPT !.id = id, !.entity = e] =
                [charge |-> held[g].charge, status |-> held[g].status, id |-> id, entity |-> e,
                 overlaps |-> held[g].overlaps]
          BY <1>1, <1>2, DeliveryOfEntity
        <5> QED
          BY <1>1, <4>1, <4>2, <5>1
      <4>3. CASE g # h
        BY <1>1, <4>1, <4>3
      <4> QED
        BY <4>2, <4>3
    <3> QED
      BY <2>3, <3>1
  <2> QED
    BY <1>2, <2>2, <2>4 DEF Overlapped
<1>5. CASE UNCHANGED hookVars
  BY <1>2, <1>5 DEF hookVars, Overlapped, Notified
<1>6. \/ UNCHANGED hookVars
      \/ \E h \in Hooks : (\E c \in Charges : Fetch(h, c)) \/ HookStep(h) \/ HookFails(h)
  BY DEF Next, vars, paymentVars, ProcessorStep, PaymentsStep, PaymentsNext, RefusePreference,
     CreatePayment, SagaStep, PreferenceCreated, PreferenceFails, SavePreference, SaveRollback,
     SavePreferenceFails, SagaStops, Pay, Settle
<1> QED
  BY <1>3, <1>4, <1>5, <1>6

LEMMA HistoryGrows ==
  ASSUME [Next]_vars
  PROVE  polled \subseteq polled' /\ reread \subseteq reread' /\ crowded \subseteq crowded'
BY DEF Next, vars, PaymentsStep, ProcessorStep, Observe, observed

LEMMA RepeatedStays ==
  ASSUME PartsInv, [Next]_vars, NEW p, Repeated(p)
  PROVE  Repeated(p)'
<1>1. Overlapped(p) => Overlapped(p)'
  BY OverlapsStay
<1>2. EventsOf(p) \subseteq EventsOf(p)' /\ reread \subseteq reread'
  BY EventsGrow, HistoryGrows
<1> QED
  BY <1>1, <1>2 DEF Repeated

\* A payment that is not repeated has one event at most.
LEMMA OneEventUnlessRepeated ==
  ASSUME PartsInv, NEW p \in PaymentIds, ~Repeated(p)
  PROVE  \A i, j \in EventsOf(p) : i = j
BY DEF PartsInv, PaymentsInv, DeliveriesAlone, AloneHolds, Repeated

\* A poller moves alone, and reads only while it has nothing.
LEMMA OnePollerMoves ==
  ASSUME PartsInv, ReadsAreSeen, ProcessorStep, NEW w \in Pollers, PollerStep(w) \/ PollerFault(w)
  PROVE  /\ \A v \in Pollers \ {w} :
              batch'[v] = batch[v] /\ poller'[v] = poller[v] /\ loaded'[v] = loaded[v]
         /\ poller[w] # "sleep" => DOMAIN batch'[w] \subseteq DOMAIN batch[w] /\ JustRead = {}
         /\ poller[w] = "sleep" => JustRead = DOMAIN batch'[w] /\ DOMAIN batch'[w] \subseteq DOMAIN outbox
<1>1. /\ ProcessorTypeOK /\ DOMAIN batch = Pollers /\ poller \in [Pollers -> PollerControl]
      /\ DOMAIN loaded = Pollers
      /\ \A v \in Pollers : poller[v] = "sleep" <=> DOMAIN batch[v] = {}
  BY DEF PartsInv, CreditedInv, BalanceInv, ProcessorTypeOK
<1>2. ASSUME Poll(w)
      PROVE  /\ poller[w] = "sleep" /\ DOMAIN batch'[w] \subseteq DOMAIN outbox
             /\ \A v \in Pollers \ {w} :
                  batch'[v] = batch[v] /\ poller'[v] = poller[v] /\ loaded'[v] = loaded[v]
  <2>1. batch'[w] = findPending(BATCH_SIZE)
    BY <1>1, <1>2 DEF Poll
  <2>2. DOMAIN batch'[w] \subseteq DOMAIN outbox
    BY <2>1 DEF findPending, oldestPending
  <2> QED
    BY <1>1, <1>2, <2>2 DEF Poll, PollerTo
<1>3. ASSUME ~Poll(w)
      PROVE  /\ poller[w] # "sleep" /\ DOMAIN batch'[w] \subseteq DOMAIN batch[w]
             /\ \A v \in Pollers \ {w} :
                  batch'[v] = batch[v] /\ poller'[v] = poller[v] /\ loaded'[v] = loaded[v]
  <2>1. CASE MarkProcessed(w) \/ Remark(w)
    BY <1>1, <2>1, AdvanceLeaves DEF MarkProcessed, Remark
  <2>2. CASE HandlerStep(w) \/ HandlerFails(w)
    BY <1>1, <2>2 DEF HandlerStep, CheckProcessed, LoadSubscription, SaveCredits, RecordProcessed,
       HandlerFails, PollerTo
  <2>3. CASE MarkFails(w)
    <3>1. PICK e : batch' = [batch EXCEPT ![w][Current(w)] = e]
      BY <2>3 DEF MarkFails
    <3>2. DOMAIN batch'[w] = DOMAIN batch[w] /\ \A v \in Pollers \ {w} : batch'[v] = batch[v]
      BY <1>1, <3>1
    <3> QED
      BY <1>1, <2>3, <3>2 DEF MarkFails, PollerTo
  <2>4. CASE Stop(w)
    <3>1. batch'[w] = NoBatch /\ DOMAIN NoBatch = {}
      BY <1>1, <2>4 DEF Stop, NoBatch
    <3> QED
      BY <1>1, <2>4, <3>1 DEF Stop, PollerTo
  <2> QED
    BY <1>3, <2>1, <2>2, <2>3, <2>4 DEF PollerStep, PollerFault
<1>4. \A v \in Pollers \ {w} : poller[v] = "sleep" => DOMAIN batch'[v] = {}
  BY <1>1, <1>2, <1>3
<1>5. CASE poller[w] # "sleep"
  <2>1. JustRead = {}
    BY <1>4, <1>5 DEF JustRead
  <2> QED
    BY <1>2, <1>3, <1>5, <2>1
<1>6. CASE poller[w] = "sleep"
  <2>1. JustRead = DOMAIN batch'[w]
    BY <1>4, <1>6 DEF JustRead
  <2> QED
    BY <1>2, <1>3, <1>6, <2>1
<1> QED
  BY <1>5, <1>6

LEMMA ReadsAreSeenNext ==
  ASSUME PartsInv, ReadsAreSeen, [Next]_vars
  PROVE  ReadsAreSeen'
<1>1. CASE PaymentsStep \/ UNCHANGED vars
  <2>1. UNCHANGED <<batch, polled, reread>> /\ DOMAIN outbox \subseteq DOMAIN outbox'
    BY <1>1, RowsAreLeft DEF PaymentsStep, vars, observed
  <2> QED
    BY <2>1 DEF ReadsAreSeen
<1>2. ASSUME ProcessorStep, NEW w \in Pollers, PollerStep(w) \/ PollerFault(w)
      PROVE  ReadsAreSeen'
  <2>1. /\ DOMAIN outbox' = DOMAIN outbox
        /\ polled' = polled \union JustRead
        /\ reread' = reread \union (polled \intersect JustRead)
    BY <1>2, PollersKeepEvents DEF ProcessorStep, Observe
  <2>2. \A v \in Pollers \ {w} : batch'[v] = batch[v]
    BY <1>2, OnePollerMoves
  <2>3. CASE poller[w] # "sleep"
    <3>1. DOMAIN batch'[w] \subseteq DOMAIN batch[w] /\ polled' = polled /\ reread' = reread
      BY <1>2, <2>1, <2>3, OnePollerMoves
    <3> QED
      BY <2>1, <2>2, <3>1 DEF ReadsAreSeen
  <2>4. CASE poller[w] = "sleep"
    <3>1. JustRead = DOMAIN batch'[w] /\ DOMAIN batch'[w] \subseteq DOMAIN outbox
      BY <1>2, <2>4, OnePollerMoves
    <3>2. \A v \in Pollers \ {w} : DOMAIN batch'[v] \intersect DOMAIN batch'[w] \subseteq reread'
      BY <2>1, <2>2, <3>1 DEF ReadsAreSeen
    <3> QED
      BY <2>1, <2>2, <3>1, <3>2 DEF ReadsAreSeen
  <2> QED
    BY <2>3, <2>4
<1> QED
  BY <1>1, <1>2 DEF Next, ProcessorStep, ProcessorNext

\* A poller that has credited the event it serves goes on to mark it.
LEMMA ServedStays ==
  ASSUME PartsInv, NEW w \in Pollers, PollerStep(w) \/ PollerFault(w),
         poller[w] \in {"record", "mark", "remark"}, NEW i \in DOMAIN batch'[w], i = Current(w)
  PROVE  IsServed(w, i)'
<1>1. ProcessorTypeOK /\ DOMAIN batch = Pollers /\ poller \in [Pollers -> PollerControl]
  BY DEF PartsInv, CreditedInv, BalanceInv, ProcessorTypeOK
<1>2. ~MarkProcessed(w) /\ ~Remark(w)
  BY <1>1, AdvanceLeaves DEF MarkProcessed, Remark
<1>3. ~Stop(w)
  BY <1>1 DEF Stop, NoBatch
<1>4. CASE RecordProcessed(w) \/ HandlerFails(w)
  BY <1>1, <1>4 DEF RecordProcessed, HandlerFails, PollerTo, IsServed, Current
<1>5. CASE MarkFails(w)
  <2>1. PICK e : batch' = [batch EXCEPT ![w][Current(w)] = e]
    BY <1>5 DEF MarkFails
  <2>2. DOMAIN batch'[w] = DOMAIN batch[w]
    BY <1>1, <2>1
  <2>3. poller'[w] = "remark"
    BY <1>1, <1>5 DEF MarkFails, PollerTo
  <2> QED
    BY <2>2, <2>3 DEF IsServed, Current
<1> QED
  BY <1>2, <1>3, <1>4, <1>5 DEF PollerStep, PollerFault, HandlerStep, Poll, CheckProcessed,
     LoadSubscription, SaveCredits

LEMMA CreditsWereReadNext ==
  ASSUME PartsInv, ReadsAreSeen, CreditsWereRead, [Next]_vars
  PROVE  CreditsWereRead'
<1>1. /\ ProcessorTypeOK /\ credited \in [PaymentIds -> Nat]
      /\ poller \in [Pollers -> PollerControl]
      /\ \A p \in PaymentIds : EventsOf(p) \subseteq DOMAIN outbox
  BY DEF PartsInv, CreditedInv, BalanceInv, ProcessorTypeOK, EventsOf
<1>2. polled \subseteq polled' /\ \A p : EventsOf(p) \subseteq EventsOf(p)'
  BY EventsGrow, HistoryGrows
<1>3. CASE PaymentsStep \/ UNCHANGED vars
  <2>1. /\ UNCHANGED <<poller, batch, credited>>
        /\ \A i \in DOMAIN outbox : outbox'[i] = outbox[i]
        /\ \A w : Current(w)' = Current(w)
    BY <1>3, RowsAreLeft
  <2>2. \A p \in PaymentIds : \A w \in Pollers :
          DOMAIN batch'[w] \intersect EventsOf(p)' \subseteq DOMAIN batch[w] \intersect EventsOf(p)
    BY <2>1 DEF ReadsAreSeen, EventsOf
  <2>3. \A w, i : IsServed(w, i) => IsServed(w, i)'
    BY <2>1 DEF IsServed
  <2> QED
    BY <1>2, <2>1, <2>2, <2>3, RepeatedStays DEF CreditsWereRead
<1>4. ASSUME ProcessorStep, NEW w \in Pollers, PollerStep(w) \/ PollerFault(w)
      PROVE  CreditsWereRead'
  <2>1. /\ \A p : EventsOf(p)' = EventsOf(p)
        /\ polled' = polled \union JustRead
        /\ reread' = reread \union (polled \intersect JustRead)
    BY <1>4, PollersKeepEvents DEF ProcessorStep, Observe, EventsOf
  <2>2. \A v \in Pollers \ {w} : batch'[v] = batch[v] /\ poller'[v] = poller[v]
    BY <1>4, OnePollerMoves
  <2>3. \A v \in Pollers \ {w} : \A i : IsServed(v, i) => IsServed(v, i)'
    BY <2>2 DEF IsServed, Current
  <2>4. ASSUME NEW p \in PaymentIds, credited[p] > 0, ~Repeated(p)', NEW v \in Pollers,
               NEW i \in DOMAIN batch'[v] \intersect EventsOf(p)
        PROVE  IsServed(v, i)'
    <3>1. ~Repeated(p)
      BY <2>4, RepeatedStays
    <3>2. /\ EventsOf(p) \intersect polled # {}
          /\ \A x \in Pollers : \A k \in DOMAIN batch[x] \intersect EventsOf(p) : IsServed(x, k)
      BY <2>4, <3>1 DEF CreditsWereRead
    <3>3. CASE v # w
      BY <2>2, <2>3, <2>4, <3>2, <3>3
    <3>4. CASE v = w /\ poller[w] # "sleep"
      <4>1. i \in DOMAIN batch[w]
        BY <1>4, <2>4, <3>4, OnePollerMoves
      <4>2. i = Current(w) /\ poller[w] \in {"record", "mark", "remark"}
        BY <2>4, <3>2, <4>1 DEF IsServed
      <4> QED
        BY <1>4, <2>4, <3>4, <4>2, ServedStays
    <3>5. CASE v = w /\ poller[w] = "sleep"
      <4>1. i \in JustRead
        BY <1>4, <2>4, <3>5, OnePollerMoves
      <4>2. i \in polled
        BY <3>1, <3>2, OneEventUnlessRepeated
      <4>3. i \in reread' /\ i \in EventsOf(p)'
        BY <2>1, <4>1, <4>2
      <4> QED
        BY <2>4, <4>3 DEF Repeated
    <3> QED
      BY <3>3, <3>4, <3>5
  <2>5. ASSUME NEW p \in PaymentIds, credited[p] > 0
        PROVE  /\ EventsOf(p)' \intersect polled' # {}
               /\ \/ Repeated(p)'
                  \/ \A v \in Pollers : \A i \in DOMAIN batch'[v] \intersect EventsOf(p)' : IsServed(v, i)'
    BY <1>2, <2>1, <2>4, <2>5 DEF CreditsWereRead
  <2>6. CASE ~SaveCredits(w)
    <3>1. credited' = credited
      BY <1>4, <2>6 DEF PollerStep, PollerFault, HandlerStep, Poll, MarkProcessed, Remark,
         CheckProcessed, LoadSubscription, RecordProcessed, HandlerFails, MarkFails, Stop, history
    <3> QED
      BY <2>5, <3>1 DEF CreditsWereRead
  <2>7. CASE SaveCredits(w)
    <3>1. PICK q \in PaymentIds :
            /\ Current(w) \in EventsOf(q)
            /\ credited' = [credited EXCEPT ![q] = credited[q] + 1]
      BY <2>7, SaveAdds
    <3>2. \A p \in PaymentIds \ {q} : credited'[p] = credited[p]
      BY <1>1, <3>1
    <3>3. /\ Current(w) \in DOMAIN batch[w] /\ batch' = batch /\ poller'[w] = "record"
          /\ Current(w)' = Current(w)
      BY <1>1, <2>7, CurrentIsInBatch DEF SaveCredits, PollerTo, Current
    <3>4. EventsOf(q)' \intersect polled' # {}
      BY <2>1, <3>1, <3>3 DEF ReadsAreSeen
    <3>5. ASSUME ~Repeated(q)', NEW v \in Pollers, NEW i \in DOMAIN batch'[v] \intersect EventsOf(q)'
          PROVE  IsServed(v, i)'
      <4>1. ~Repeated(q)
        BY <3>5, RepeatedStays
      <4>2. i = Current(w)
        BY <2>1, <3>1, <3>5, <4>1, OneEventUnlessRepeated
      <4>3. v = w
        BY <3>1, <3>3, <3>5, <4>1, <4>2 DEF ReadsAreSeen, Repeated
      <4> QED
        BY <3>3, <4>2, <4>3 DEF IsServed
    <3> QED
      BY <2>5, <3>2, <3>4, <3>5 DEF CreditsWereRead
  <2> QED
    BY <2>6, <2>7
<1> QED
  BY <1>3, <1>4 DEF Next, ProcessorStep, ProcessorNext

LEMMA CrowdIsSeenNext ==
  ASSUME PartsInv, CrowdIsSeen, [Next]_vars
  PROVE  CrowdIsSeen'
<1>1. CASE PaymentsStep \/ UNCHANGED vars
  <2>1. UNCHANGED <<poller, crowded>> /\ \A w : Content(w)' = Content(w)
    BY <1>1, RowsAreLeft DEF PaymentsStep, vars, observed
  <2>2. Crowd' = Crowd
    BY <2>1 DEF Crowd, Saving
  <2> QED
    BY <2>1, <2>2 DEF CrowdIsSeen
<1>2. CASE ProcessorStep
  <2>1. crowded' = crowded \union Crowd'
    BY <1>2 DEF ProcessorStep, Observe
  <2>2. Crowd' \subseteq Users
    BY DEF Crowd
  <2> QED
    BY <2>1, <2>2 DEF CrowdIsSeen
<1> QED
  BY <1>1, <1>2 DEF Next

LEMMA LoadedIsCurrentNext ==
  ASSUME PartsInv, ReadsAreSeen, CrowdIsSeen, LoadedIsCurrent, [Next]_vars
  PROVE  LoadedIsCurrent'
<1>1. /\ ProcessorTypeOK /\ poller \in [Pollers -> PollerControl]
      /\ loaded \in [Pollers -> Subscription \union {NoSubscription}]
      /\ subscription \in [Users -> Subscription \union {NoSubscription}]
      /\ crowded \subseteq crowded'
  BY HistoryGrows DEF PartsInv, CreditedInv, BalanceInv, ProcessorTypeOK, SubscriptionTypeOK
<1>2. CASE PaymentsStep \/ UNCHANGED vars
  <2>1. UNCHANGED <<subscription, poller, loaded>> /\ \A w : Content(w)' = Content(w)
    BY <1>2, RowsAreLeft
  <2> QED
    BY <1>1, <2>1 DEF LoadedIsCurrent, Subscribed
<1>3. ASSUME ProcessorStep, NEW w \in Pollers, PollerStep(w) \/ PollerFault(w)
      PROVE  LoadedIsCurrent'
  <2>1. \A v \in Pollers \ {w} :
          poller'[v] = poller[v] /\ loaded'[v] = loaded[v] /\ Content(v)' = Content(v)
    BY <1>3, OnePollerMoves DEF Content, Current
  <2>2. CASE LoadSubscription(w)
    <3>1. Content(w)' = Content(w) /\ subscription' = subscription
      BY <2>2 DEF LoadSubscription, Content, Current
    <3>2. poller'[w] = "save" =>
            /\ Subscribed(Content(w).userId)
            /\ loaded'[w] = addCredits(subscription[Content(w).userId], Content(w).creditsAmount)
      BY <1>1, <2>2 DEF LoadSubscription, PollerTo, Subscribed, findByUserId
    <3> QED
      BY <1>1, <2>1, <3>1, <3>2 DEF LoadedIsCurrent, Subscribed
  <2>3. CASE SaveCredits(w)
    <3>1. /\ poller[w] = "save" /\ poller'[w] = "record" /\ Content(w).userId \in Users
          /\ \A u \in Users \ {Content(w).userId} : subscription'[u] = subscription[u]
      BY <1>1, <2>3, CurrentIsInBatch DEF SaveCredits, PollerTo, saveSubscription
    <3>2. ASSUME NEW v \in Pollers \ {w}, poller[v] = "save", Content(v).userId \notin crowded
          PROVE  Content(v).userId \in Users \ {Content(w).userId}
      <4>1. Content(v).userId \in Users
        BY <1>1, <3>2, CurrentIsInBatch
      <4> QED
        BY <3>1, <3>2, <4>1 DEF CrowdIsSeen, Crowd, Saving
    <3> QED
      BY <1>1, <2>1, <3>1, <3>2 DEF LoadedIsCurrent, Subscribed
  <2>4. CASE ~LoadSubscription(w) /\ ~SaveCredits(w)
    <3>1. subscription' = subscription
      BY <1>3, <2>4 DEF PollerStep, PollerFault, HandlerStep, Poll, MarkProcessed, Remark,
         CheckProcessed, RecordProcessed, HandlerFails, MarkFails, Stop
    <3>2. PICK label \in PollerControl \ {"save"} : poller' = [poller EXCEPT ![w] = label]
      BY <1>3, <2>4 DEF PollerStep, PollerFault, HandlerStep, Poll, MarkProcessed, Remark, Advance,
         CheckProcessed, RecordProcessed, HandlerFails, MarkFails, Stop, PollerTo, PollerControl
    <3>3. poller'[w] # "save"
      BY <1>1, <3>2
    <3> QED
      BY <1>1, <2>1, <3>1, <3>3 DEF LoadedIsCurrent, Subscribed
  <2> QED
    BY <2>2, <2>3, <2>4
<1> QED
  BY <1>2, <1>3 DEF Next, ProcessorStep, ProcessorNext

LEMMA OnceInit == Init => OnceInv
<1> SUFFICES ASSUME Init PROVE OnceInv
  OBVIOUS
<1>1. /\ \A w \in Pollers : poller[w] = "sleep" /\ batch[w] = NoBatch
      /\ \A p \in PaymentIds : credited[p] = 0
      /\ \A c \in Charges : charge[c] = "none"
      /\ polled = {} /\ crowded = {}
  BY DEF Init, ProcessorInit, PaymentsInit
<1>2. DOMAIN NoBatch = {}
  BY DEF NoBatch
<1>3. Crowd = {}
  BY <1>1 DEF Crowd, Saving
<1> QED
  BY <1>1, <1>2, <1>3, CreditsInit DEF OnceInv, OneLiveCharge, Live, ReadsAreSeen,
     CreditsWereRead, CrowdIsSeen, LoadedIsCurrent

LEMMA OnceNext == OnceInv /\ [Next]_vars => OnceInv'
BY CreditsNext, OneLiveChargeNext, ReadsAreSeenNext, CreditsWereReadNext, CrowdIsSeenNext,
   LoadedIsCurrentNext DEF OnceInv, CreditsInv

-----------------------------------------------------------------------------
(***************************************************************************)
(* The refinement: a charge that is approved is Charge, a save is          *)
(* AddCredits, and every other step disturbs or stutters.                  *)
(***************************************************************************)

LEMMA InitMaps == Init => Promise!Init
<1> SUFFICES ASSUME Init PROVE Promise!Init
  OBVIOUS
<1>1. ChargedPayments = {}
  BY DEF Init, PaymentsInit, ChargedPayments, Paid
<1>2. {p \in PaymentIds : credited[p] > 0} = {}
  BY DEF Init, ProcessorInit
<1>3. \A u \in Users : subscription[u].creditsRemaining \in Nat
  BY FreeTierIsNat DEF Init, ProcessorInit, SubscriptionInit, NoSubscription, createFree
<1>4. {p \in PaymentIds : Repeated(p)} = {} /\ crowded = {}
  BY DEF Init, PaymentsInit, Repeated, Overlapped, Notified
<1> QED
  BY <1>1, <1>2, <1>3, <1>4 DEF Promise!Init

\* A charge that becomes paid is the first of its payment.
LEMMA ChargeMaps ==
  ASSUME PartsInv, OneLiveCharge, NEW c \in Charges, Pay(c) \/ Settle(c)
  PROVE  \/ ChargedPayments' = ChargedPayments
         \/ /\ PreferenceOf[c] \in PaymentIds \ ChargedPayments
            /\ ChargedPayments' = ChargedPayments \union {PreferenceOf[c]}
<1>1. charge \in [Charges -> ChargeStatus] /\ PreferenceOf[c] \in PaymentIds
  BY PreferenceOfIsTotal DEF PartsInv, PaymentsInv, PaymentsTypeOK
<1>2. PICK status \in ChargeStatus : charge' = [charge EXCEPT ![c] = status]
  BY DEF Pay, Settle, ChargeStatus
<1>3. charge'[c] = status /\ \A d \in Charges \ {c} : charge'[d] = charge[d]
  BY <1>1, <1>2
<1>4. Paid(c) => Paid(c)'
  BY <1>1, <1>3 DEF Pay, Settle, Paid
<1>5. CASE Paid(c)' <=> Paid(c)
  <2>1. \A d \in Charges : Paid(d)' <=> Paid(d)
    BY <1>3, <1>5 DEF Paid
  <2> QED
    BY <2>1 DEF ChargedPayments
<1>6. CASE Paid(c)' /\ ~Paid(c)
  <2>1. \A d \in Charges : Paid(d)' <=> Paid(d) \/ d = c
    BY <1>3, <1>6 DEF Paid
  <2>2. ASSUME NEW d \in Charges, Paid(d), PreferenceOf[d] = PreferenceOf[c] PROVE FALSE
    <3>1. d # c /\ Live(d)
      BY <1>6, <2>2 DEF Paid, Live
    <3>2. Pay(c) => FALSE
      BY <2>2 DEF Pay, Paid
    <3>3. Settle(c) => Live(c)
      BY DEF Settle, Live
    <3> QED
      BY <2>2, <3>1, <3>2, <3>3 DEF OneLiveCharge
  <2> QED
    BY <1>1, <2>1, <2>2 DEF ChargedPayments
<1> QED
  BY <1>4, <1>5, <1>6

\* A save adds the credits of a payment that was charged; it has none yet, or
\* is repeated.  It disturbs nothing.
LEMMA SaveMaps ==
  ASSUME OnceInv, ProcessorStep, NEW w \in Pollers, SaveCredits(w)
  PROVE  \E p \in ChargedPayments :
           /\ p \in PaymentIds
           /\ credited[p] = 0 \/ Repeated(p)
           /\ credited' = [credited EXCEPT ![p] = credited[p] + 1]
           /\ loaded[w] \in Subscription
           /\ subscription' = [subscription EXCEPT ![PayerOf[p]] = loaded[w]]
           /\ PayerOf[p] \notin crowded =>
                /\ Subscribed(PayerOf[p])
                /\ loaded[w] = addCredits(subscription[PayerOf[p]], CreditsOf[p])
<1>1. /\ PartsInv /\ CreditsWereRead /\ LoadedIsCurrent
      /\ credited \in [PaymentIds -> Nat] /\ ProcessorTypeOK /\ poller[w] = "save"
      /\ loaded[w] \in Subscription
  BY DEF OnceInv, CreditsInv, PartsInv, CreditedInv, BalanceInv, ProcessorTypeOK, SaveCredits,
     LoadedWithinEarned, LoadedHolds
<1>2. PICK p \in PaymentIds :
        /\ Content(w) = payload(p) /\ Current(w) \in EventsOf(p)
        /\ credited' = [credited EXCEPT ![p] = credited[p] + 1]
        /\ Current(w) \in DOMAIN batch[w]
  BY <1>1, SaveAdds, CurrentIsInBatch
<1>3. Content(w).userId = PayerOf[p] /\ Content(w).creditsAmount = CreditsOf[p]
  BY <1>2 DEF payload
<1>4. p \in ChargedPayments
  <2>1. PICK c \in Charges : PreferenceOf[c] = p /\ Paid(c)
    BY <1>1, <1>2 DEF PartsInv, PaymentsInv, EventsArePaid, EventsOf
  <2> QED
    BY <2>1 DEF ChargedPayments
<1>5. credited[p] = 0 \/ Repeated(p)
  BY <1>1, <1>2 DEF CreditsWereRead, IsServed
<1>6. PayerOf[p] \notin crowded =>
        /\ Subscribed(PayerOf[p])
        /\ loaded[w] = addCredits(subscription[PayerOf[p]], CreditsOf[p])
  BY <1>1, <1>3 DEF LoadedIsCurrent
<1> QED
  BY <1>1, <1>2, <1>3, <1>4, <1>5, <1>6 DEF SaveCredits, saveSubscription

LEMMA SaveDisturbsNothing ==
  ASSUME OnceInv, ProcessorStep, NEW w \in Pollers, SaveCredits(w)
  PROVE  /\ \A p : Repeated(p)' <=> Repeated(p)
         /\ crowded' = crowded
         /\ ChargedPayments' = ChargedPayments
<1>1. /\ PartsInv /\ ReadsAreSeen /\ CrowdIsSeen /\ PollerStep(w)
      /\ poller[w] = "save" /\ poller \in [Pollers -> PollerControl]
      /\ UNCHANGED <<outbox, batch, charge, hook, held>>
      /\ crowded' = crowded \union Crowd' /\ reread' = reread \union (polled \intersect JustRead)
      /\ poller' = [poller EXCEPT ![w] = "record"]
  BY DEF OnceInv, CreditsInv, PartsInv, CreditedInv, BalanceInv, ProcessorTypeOK, SaveCredits,
     PollerStep, HandlerStep, ProcessorStep, paymentVars, hookVars, Observe, PollerTo
<1>2. reread' = reread
  BY <1>1, OnePollerMoves
<1>3. \A p : Overlapped(p)' <=> Overlapped(p)
  BY <1>1 DEF Overlapped, Notified
<1>4. Crowd' \subseteq Crowd
  <2>1. \A v, u : Saving(v, u)' /\ v \in Pollers => Saving(v, u)
    BY <1>1 DEF Saving, Content, Current
  <2> QED
    BY <2>1 DEF Crowd
<1> QED
  BY <1>1, <1>2, <1>3, <1>4 DEF CrowdIsSeen, Repeated, EventsOf, ChargedPayments, Paid

\* Every step but a save and a payment only disturbs.
LEMMA RestDisturbs ==
  ASSUME OnceInv, [Next]_vars, UNCHANGED <<charge, subscription, credited>>
  PROVE  Promise!Disturb
<1>1. /\ PartsInv /\ CrowdIsSeen'
  BY OnceNext DEF OnceInv, CreditsInv
<1>2. ChargedPayments' = ChargedPayments
  BY DEF ChargedPayments, Paid
<1>3. crowded \subseteq crowded' /\ crowded' \subseteq Users
  BY <1>1, HistoryGrows DEF CrowdIsSeen
<1>4. \A p \in PaymentIds : Repeated(p) => Repeated(p)'
  BY <1>1, RepeatedStays
<1> QED
  BY <1>2, <1>3, <1>4 DEF Promise!Disturb

LEMMA StepMaps ==
  ASSUME OnceInv, [Next]_vars
  PROVE  [Promise!Next]_(Promise!vars)
<1>1. /\ PartsInv /\ OneLiveCharge /\ credited \in [PaymentIds -> Nat]
      /\ subscription \in [Users -> Subscription \union {NoSubscription}]
  BY DEF OnceInv, CreditsInv, PartsInv, CreditedInv, BalanceInv, ProcessorTypeOK, SubscriptionTypeOK
<1>2. ASSUME PaymentsStep, NEW c \in Charges, Pay(c) \/ Settle(c)
      PROVE  [Promise!Next]_(Promise!vars)
  <2>1. UNCHANGED <<subscription, credited, hook, held, outbox, reread, crowded>>
    BY <1>1, <1>2, RowsAreLeft DEF Pay, Settle, hookVars, PaymentsStep, observed
  <2>2. \A p : Repeated(p)' <=> Repeated(p)
    BY <2>1 DEF Repeated, Overlapped, Notified, EventsOf
  <2>3. CASE ChargedPayments' = ChargedPayments
    BY <2>1, <2>2, <2>3 DEF Promise!vars
  <2>4. CASE /\ PreferenceOf[c] \in PaymentIds \ ChargedPayments
             /\ ChargedPayments' = ChargedPayments \union {PreferenceOf[c]}
    <3>1. Promise!Charge(PreferenceOf[c])
      BY <2>1, <2>2, <2>4 DEF Promise!Charge
    <3> QED
      BY <2>4, <3>1 DEF Promise!Next
  <2> QED
    BY <1>1, <1>2, <2>3, <2>4, ChargeMaps
<1>3. ASSUME ProcessorStep, NEW w \in Pollers, SaveCredits(w)
      PROVE  [Promise!Next]_(Promise!vars)
  <2>1. PICK p \in ChargedPayments :
           /\ p \in PaymentIds
           /\ credited[p] = 0 \/ Repeated(p)
           /\ credited' = [credited EXCEPT ![p] = credited[p] + 1]
           /\ loaded[w] \in Subscription
           /\ subscription' = [subscription EXCEPT ![PayerOf[p]] = loaded[w]]
           /\ PayerOf[p] \notin crowded =>
                /\ Subscribed(PayerOf[p])
                /\ loaded[w] = addCredits(subscription[PayerOf[p]], CreditsOf[p])
    BY <1>3, SaveMaps
  <2> DEFINE added == {q \in PaymentIds : credited[q] > 0}
             balance == [u \in Users |-> subscription[u].creditsRemaining]
  <2>2. added' = added \union {p} /\ (p \notin added \/ Repeated(p))
    BY <1>1, <2>1
  <2>3. PayerOf[p] \in Users /\ CreditsOf[p] \in Nat
    BY <2>1, PayerOfIsTotal, CreditsOfIsTotal
  <2>4. /\ subscription'[PayerOf[p]] = loaded[w]
        /\ \A u \in Users \ {PayerOf[p]} : subscription'[u] = subscription[u]
    BY <1>1, <2>1, <2>3
  <2>5. balance' \in [Users -> Nat]
    <3>1. BalanceWithinEarned' /\ FREE_TIER_CREDITS \in Nat
      BY OnceNext, FreeTierIsNat DEF OnceInv, CreditsInv, PartsInv, CreditedInv, BalanceInv
    <3>2. NoSubscription.creditsRemaining = 0
      BY DEF NoSubscription
    <3>3. \A u \in Users : subscription'[u].creditsRemaining \in Nat
      BY <3>1, <3>2 DEF BalanceWithinEarned, Subscribed
    <3> QED
      BY <3>3
  <2>6. PayerOf[p] \notin crowded =>
          loaded[w].creditsRemaining = subscription[PayerOf[p]].creditsRemaining + CreditsOf[p]
    BY <1>1, <2>1, <2>3 DEF addCredits, Subscription, Subscribed
  <2>7. Promise!Pays(p, CreditsOf[p])
    BY <2>3, <2>4, <2>6 DEF Promise!Pays
  <2>8. /\ \A q : Repeated(q)' <=> Repeated(q)
        /\ crowded' = crowded /\ ChargedPayments' = ChargedPayments
    BY <1>3, SaveDisturbsNothing
  <2>9. Promise!AddCredits(p)
    BY <2>1, <2>2, <2>5, <2>7, <2>8 DEF Promise!AddCredits
  <2> QED
    BY <2>1, <2>9 DEF Promise!Next
<1>4. CASE UNCHANGED <<charge, subscription, credited>>
  BY <1>4, RestDisturbs DEF Promise!Next
<1>5. \/ UNCHANGED charge
      \/ PaymentsStep /\ \E c \in Charges : Pay(c) \/ Settle(c)
  BY DEF Next, vars, paymentVars, ProcessorStep, PaymentsStep, PaymentsNext, RefusePreference,
     CreatePayment, SagaStep, PreferenceCreated, PreferenceFails, SavePreference, SaveRollback,
     SavePreferenceFails, SagaStops, Fetch, HookStep, FindPayment, SavePayment, CreateEvent, HookFails
<1>6. CASE ProcessorStep /\ \E w \in Pollers : SaveCredits(w)
  BY <1>3, <1>6
<1>7. CASE ~(ProcessorStep /\ \E w \in Pollers : SaveCredits(w))
  <2>1. UNCHANGED <<subscription, credited>>
    <3>1. CASE PaymentsStep \/ UNCHANGED vars
      BY <1>1, <3>1, RowsAreLeft
    <3>2. CASE ProcessorStep /\ \A w \in Pollers : ~SaveCredits(w)
      BY <3>2, CreditsUnchanged
    <3> QED
      BY <1>7, <3>1, <3>2 DEF Next
  <2> QED
    BY <1>2, <1>4, <1>5, <2>1
<1> QED
  BY <1>6, <1>7

\* For any number of pollers, overlapping deliveries and faults: a charge is
\* credited once at most, after it is made, to the payer, and the balance grows
\* by that alone.  A second credit has a cause seen before it: deliveries that
\* overlapped, or an event two polls have read; so has a balance that is off:
\* two handlers of one user between their read and their save.
THEOREM CreditsFollowCharges == Spec => ImplementsPaidCredits
<1>1. Init => OnceInv /\ Promise!Init
  BY OnceInit, InitMaps
<1>2. OnceInv /\ [Next]_vars => OnceInv' /\ [Promise!Next]_(Promise!vars)
  BY OnceNext, StepMaps
<1> QED
  BY <1>1, <1>2, PTL DEF Spec, ImplementsPaidCredits, Promise!Spec
=============================================================================
