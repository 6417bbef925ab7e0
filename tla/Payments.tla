------------------------------ MODULE Payments ------------------------------
(***************************************************************************)
(* Payments: the saga that opens a preference with the provider, the       *)
(* charges the provider makes on it, and the webhook that reads a charge   *)
(* back, settles the payment and writes the payment.approved event.        *)
(*                                                                         *)
(* One saga per payment id (the id is drawn by the request), one process   *)
(* per delivery of a notification.  Every repository call is an await: it  *)
(* commits alone, the transaction of the webhook included, whose client    *)
(* the two repositories do not use.                                        *)
(***************************************************************************)
EXTENDS OutboxStore

CONSTANTS
  Charges,           \* payments of the provider, attempts of a user to pay
  PreferenceOf,      \* charge -> the payment whose preference it pays
  Hooks,             \* deliveries of notifications, each at most once
  KeyOf              \* request (its payment id) -> the idempotency key it carries

ASSUME PreferenceOfIsTotal == PreferenceOf \in [Charges -> PaymentIds]

VARIABLES
  payment,   \* the table: payment id -> row, or NoPayment
  saga,      \* payment id -> where CreatePreferenceUseCase is
  draft,     \* payment id -> the entity the saga holds
  charge,    \* the provider: charge -> its status, as the adapter maps it
  hook,      \* delivery -> where ProcessWebhookUseCase is
  held       \* delivery -> the details it fetched and the entity it holds

sagaVars == <<saga, draft>>
hookVars == <<hook, held>>
paymentVars == <<payment, sagaVars, charge, hookVars>>

-----------------------------------------------------------------------------
(***************************************************************************)
(* The entity and its repository.                                          *)
(***************************************************************************)

PaymentStatus == {"INITIALIZING", "PENDING", "APPROVED", "REJECTED"}

NULL == "null"

ASSUME NullIsNoCharge == NULL \notin Charges

Keys == {KeyOf[p] : p \in PaymentIds}

Payment ==
  [status : PaymentStatus, providerPaymentId : Charges \union {NULL},
   idempotencyKey : Keys \union {NULL}]

NoPayment == [status |-> "NONE", providerPaymentId |-> NULL, idempotencyKey |-> NULL]

\* Payment.create, which the saga calls without a key, and the status the saga
\* overrides.
initializedPayment ==
  [status |-> "INITIALIZING", providerPaymentId |-> NULL, idempotencyKey |-> NULL]

\* Faults seeded in isFinal: a status is left out of the list.
isFinal_notApproved(e) == e.status = "REJECTED"

isFinal_notRejected(e) == e.status = "APPROVED"

\* CANCELLED, REFUNDED and CHARGED_BACK are final too; nothing sets them.
isFinal(e) == e.status \in {"APPROVED", "REJECTED"}

\* Faults seeded in approve: the provider's spelling of the status; the id of
\* the charge is not kept.
approve_lowerCase(e, c) == [e EXCEPT !.status = "approved", !.providerPaymentId = c]

approve_idDropped(e, c) == [e EXCEPT !.status = "APPROVED"]

approve(e, c) == [e EXCEPT !.status = "APPROVED", !.providerPaymentId = c]

reject(e) == [e EXCEPT !.status = "REJECTED"]

setPreferenceId(e) == [e EXCEPT !.status = "PENDING"]

\* The throw of markAsInitializationFailed, as the condition to return.
canMarkAsInitializationFailed(e) == e.status = "INITIALIZING"

markAsInitializationFailed(e) == [e EXCEPT !.status = "REJECTED"]

savePayment(p, e) == payment' = [payment EXCEPT ![p] = e]

\* The request the controller makes of the body: the key is not in it.
requestedKey(key) == NULL

\* A payment found by the key of the request is returned as it is.
isDuplicate(key) == key # NULL /\ \E p \in PaymentIds : payment[p].idempotencyKey = key

\* By the provider's id if a row has it, by the external reference otherwise.
findPayment(c) ==
  LET known == {p \in PaymentIds : payment[p].providerPaymentId = c}
  IN  IF known = {} THEN PreferenceOf[c] ELSE CHOOSE p \in known : TRUE

-----------------------------------------------------------------------------
(***************************************************************************)
(* States.                                                                 *)
(***************************************************************************)

SagaControl == {"idle", "calling", "saving", "compensating", "ok", "failed"}

HookControl == {"idle", "fetched", "saving", "creating", "done", "failed"}

ChargeStatus == {"none", "pending", "approved", "rejected", "cancelled", "refunded"}

Delivery ==
  [charge : Charges, status : ChargeStatus, id : PaymentIds,
   entity : Payment \union {NoPayment}, overlaps : BOOLEAN]

NoDelivery == [status |-> "none"]

Notified(h) == hook[h] # "idle"

InFlight(h) == hook[h] \in {"fetched", "saving", "creating"}

\* Deliveries in flight about the payment whose preference c pays.
InFlightAbout(p) == {h \in Hooks : InFlight(h) /\ PreferenceOf[held[h].charge] = p}

PaymentsTypeOK ==
  /\ OutboxTypeOK
  /\ FaultsTypeOK
  /\ payment \in [PaymentIds -> Payment \union {NoPayment}]
  /\ saga \in [PaymentIds -> SagaControl]
  /\ draft \in [PaymentIds -> Payment \union {NoPayment}]
  /\ charge \in [Charges -> ChargeStatus]
  /\ hook \in [Hooks -> HookControl]
  /\ held \in [Hooks -> Delivery \union {NoDelivery}]

PaymentsInit ==
  /\ payment = [p \in PaymentIds |-> NoPayment]
  /\ saga = [p \in PaymentIds |-> "idle"]
  /\ draft = [p \in PaymentIds |-> NoPayment]
  /\ charge = [c \in Charges |-> "none"]
  /\ hook = [h \in Hooks |-> "idle"]
  /\ held = [h \in Hooks |-> NoDelivery]

-----------------------------------------------------------------------------
(***************************************************************************)
(* The saga of CreatePreferenceUseCase.                                    *)
(***************************************************************************)

SagaTo(p, label, e) ==
  /\ saga' = [saga EXCEPT ![p] = label]
  /\ draft' = [draft EXCEPT ![p] = e]

\* No such provider, provider not available, no such package, inactive one:
\* each throws before anything is written.
RefusePreference(p) ==
  /\ saga[p] = "idle"
  /\ SagaTo(p, "failed", draft[p])
  /\ NoFault
  /\ UNCHANGED <<payment, charge, hookVars, outbox>>

CreatePayment(p) ==
  /\ saga[p] = "idle"
  /\ ~isDuplicate(requestedKey(KeyOf[p]))
  /\ savePayment(p, initializedPayment)
  /\ SagaTo(p, "calling", initializedPayment)
  /\ NoFault
  /\ UNCHANGED <<charge, hookVars, outbox>>

\* Fault seeded in PreferenceCreated: the initPoint is returned before the save.
PreferenceCreated_early(p) ==
  /\ saga[p] = "calling"
  /\ SagaTo(p, "ok", setPreferenceId(draft[p]))
  /\ NoFault
  /\ UNCHANGED <<payment, charge, hookVars, outbox>>

PreferenceCreated(p) ==
  /\ saga[p] = "calling"
  /\ SagaTo(p, "saving", setPreferenceId(draft[p]))
  /\ NoFault
  /\ UNCHANGED <<payment, charge, hookVars, outbox>>

\* The catch of the saga: the rollback itself throws once the entity has left
\* INITIALIZING, and the row then keeps the status it has.
Compensate(p) ==
  IF canMarkAsInitializationFailed(draft[p])
    THEN SagaTo(p, "compensating", markAsInitializationFailed(draft[p]))
    ELSE SagaTo(p, "failed", draft[p])

\* The provider refuses, or its answer does not come within the timeout.
PreferenceFails(p) ==
  /\ saga[p] = "calling"
  /\ Compensate(p)
  /\ NoFault
  /\ UNCHANGED <<payment, charge, hookVars, outbox>>

\* The user is given the initPoint only after this save.
SavePreference(p) ==
  /\ saga[p] = "saving"
  /\ savePayment(p, draft[p])
  /\ SagaTo(p, "ok", draft[p])
  /\ NoFault
  /\ UNCHANGED <<charge, hookVars, outbox>>

SavePreferenceFails(p) ==
  /\ saga[p] = "saving"
  /\ Fault
  /\ Compensate(p)
  /\ UNCHANGED <<payment, charge, hookVars, outbox>>

\* Fault seeded in SaveRollback: the save is left out.
SaveRollback_dropped(p) ==
  /\ saga[p] = "compensating"
  /\ SagaTo(p, "failed", draft[p])
  /\ NoFault
  /\ UNCHANGED <<payment, charge, hookVars, outbox>>

SaveRollback(p) ==
  /\ saga[p] = "compensating"
  /\ savePayment(p, draft[p])
  /\ SagaTo(p, "failed", draft[p])
  /\ NoFault
  /\ UNCHANGED <<charge, hookVars, outbox>>

\* The rollback is refused by the database, or the process stops.
SagaStops(p) ==
  /\ saga[p] \in {"calling", "saving", "compensating"}
  /\ Fault
  /\ SagaTo(p, "failed", draft[p])
  /\ UNCHANGED <<payment, charge, hookVars, outbox>>

SagaStep(p) ==
  \/ PreferenceCreated(p) \/ PreferenceFails(p)
  \/ SavePreference(p) \/ SaveRollback(p)

-----------------------------------------------------------------------------
(***************************************************************************)
(* The provider (external).  A user who has the initPoint pays, again when *)
(* a charge was rejected; the provider settles and may refund a charge.    *)
(***************************************************************************)

Pay(c) ==
  /\ saga[PreferenceOf[c]] = "ok"
  /\ charge[c] = "none"
  /\ \A other \in Charges :
       PreferenceOf[other] = PreferenceOf[c] =>
         charge[other] \in {"none", "rejected", "cancelled"}
  /\ \E status \in {"pending", "approved", "rejected"} :
       charge' = [charge EXCEPT ![c] = status]
  /\ NoFault
  /\ UNCHANGED <<payment, sagaVars, hookVars, outbox>>

Settle(c) ==
  /\ \/ /\ charge[c] = "pending"
        /\ \E status \in {"approved", "rejected", "cancelled"} :
             charge' = [charge EXCEPT ![c] = status]
     \/ /\ charge[c] = "approved"
        /\ charge' = [charge EXCEPT ![c] = "refunded"]
  /\ NoFault
  /\ UNCHANGED <<payment, sagaVars, hookVars, outbox>>

-----------------------------------------------------------------------------
(***************************************************************************)
(* ProcessWebhookUseCase.  The controllers answer 200 whatever happens, so *)
(* the provider does not repeat a notification that failed.                *)
(***************************************************************************)

HookTo(h, label) == hook' = [hook EXCEPT ![h] = label]

Fetch(h, c) ==
  /\ hook[h] = "idle"
  /\ charge[c] # "none"
  /\ HookTo(h, "fetched")
  /\ held' = [held EXCEPT ![h] =
       [charge |-> c, status |-> charge[c], id |-> PreferenceOf[c],
        entity |-> NoPayment, overlaps |-> InFlightAbout(PreferenceOf[c]) # {}]]
  /\ NoFault
  /\ UNCHANGED <<payment, sagaVars, charge, outbox>>

\* PaymentNotFoundError and PaymentAlreadyProcessedError end the delivery;
\* statuses other than these three are logged.
FindPayment(h) ==
  LET id == findPayment(held[h].charge)
      row == payment[id]
      Change(e) ==
        /\ HookTo(h, "saving")
        /\ held' = [held EXCEPT ![h].id = id, ![h].entity = e]
  IN
  /\ hook[h] = "fetched"
  /\ CASE row = NoPayment \/ isFinal(row) ->
            HookTo(h, "done") /\ UNCHANGED held
       [] ~isFinal(row) /\ held[h].status = "approved" ->
            Change(approve(row, held[h].charge))
       [] ~isFinal(row) /\ held[h].status \in {"rejected", "cancelled"} ->
            Change(reject(row))
       [] OTHER ->
            HookTo(h, "done") /\ UNCHANGED held
  /\ NoFault
  /\ UNCHANGED <<payment, sagaVars, charge, outbox>>

\* Faults seeded in SavePayment: an event for every settled payment; for none.
SavePayment_always(h) ==
  /\ hook[h] = "saving"
  /\ savePayment(held[h].id, held[h].entity)
  /\ HookTo(h, "creating")
  /\ NoFault
  /\ UNCHANGED <<sagaVars, charge, held, outbox>>

SavePayment_noEvent(h) ==
  /\ hook[h] = "saving"
  /\ savePayment(held[h].id, held[h].entity)
  /\ HookTo(h, "done")
  /\ NoFault
  /\ UNCHANGED <<sagaVars, charge, held, outbox>>

SavePayment(h) ==
  /\ hook[h] = "saving"
  /\ savePayment(held[h].id, held[h].entity)
  /\ HookTo(h, IF held[h].status = "approved" THEN "creating" ELSE "done")
  /\ NoFault
  /\ UNCHANGED <<sagaVars, charge, held, outbox>>

CreateEvent(h) ==
  /\ hook[h] = "creating"
  /\ createOutboxEvent(createEvent(held[h].id))
  /\ HookTo(h, "done")
  /\ NoFault
  /\ UNCHANGED <<payment, sagaVars, charge, held>>

\* A call of the delivery rejects, or the process stops.
HookFails(h) ==
  /\ InFlight(h)
  /\ Fault
  /\ HookTo(h, "failed")
  /\ UNCHANGED <<payment, sagaVars, charge, held, outbox>>

HookStep(h) == FindPayment(h) \/ SavePayment(h) \/ CreateEvent(h)

-----------------------------------------------------------------------------

PaymentsNext ==
  \/ \E p \in PaymentIds :
       \/ RefusePreference(p) \/ CreatePayment(p) \/ SagaStep(p)
       \/ SavePreferenceFails(p) \/ SagaStops(p)
  \/ \E c \in Charges : Pay(c) \/ Settle(c)
  \/ \E h \in Hooks :
       \/ \E c \in Charges : Fetch(h, c)
       \/ HookStep(h) \/ HookFails(h)

PaymentsStart == PaymentsInit /\ OutboxInit /\ FaultsInit

PaymentsSpec == PaymentsStart /\ [][PaymentsNext]_<<paymentVars, outbox, faults>>

\* A request that is being served is served on: the event loop runs every
\* continuation, and the provider answers or its timeout fires.  Nobody has to
\* ask for a preference, to pay, or to deliver a notification.
FairPaymentsSpec ==
  /\ PaymentsSpec
  /\ \A p \in PaymentIds : WF_<<paymentVars, outbox, faults>>(SagaStep(p))
  /\ \A h \in Hooks : WF_<<paymentVars, outbox, faults>>(HookStep(h))

-----------------------------------------------------------------------------
(***************************************************************************)
(* Properties.                                                             *)
(***************************************************************************)

Paid(c) == charge[c] \in {"approved", "refunded"}

\* Two deliveries about p were in flight together.
Overlapped(p) ==
  \E h \in Hooks : Notified(h) /\ PreferenceOf[held[h].charge] = p /\ held[h].overlaps

\* A row says APPROVED only of a charge the provider approved for that very
\* payment, whatever deliveries overlap and write stale rows over each other.
ApprovedMeansPaid ==
  \A p \in PaymentIds : payment[p].status = "APPROVED" =>
    \E c \in Charges :
      payment[p].providerPaymentId = c /\ PreferenceOf[c] = p /\ Paid(c)

\* The saga saves before it hands out the initPoint: no charge can exist on a
\* payment whose row is missing, still INITIALIZING or rolled back.
ChargeableMeansPersisted ==
  \A c \in Charges : charge[c] # "none" =>
    /\ payment[PreferenceOf[c]].status \in {"PENDING", "APPROVED", "REJECTED"}
    /\ payment[PreferenceOf[c]].status = "REJECTED" =>
         \E h \in Hooks : Notified(h) /\ held[h].charge \in Charges
                          /\ PreferenceOf[held[h].charge] = PreferenceOf[c]

\* One approved payment, one event: "Idempotency: Handled by `paymentId`
\* unique constraint" (payments/README.md).  Of deliveries that overlap it is
\* not true: both find a payment that is not final.
OneEventPerPayment ==
  \A p \in PaymentIds : ~Overlapped(p) => \A i, j \in EventsOf(p) : i = j

\* A payment in a final status never leaves it (isFinal guards every change),
\* unless deliveries about it overlap.
FinalIsFinal ==
  [][\A p \in PaymentIds :
       payment[p].status \in {"APPROVED", "REJECTED"} /\ ~Overlapped(p)
         => payment'[p] = payment[p]]_<<paymentVars, outbox, faults>>

\* A request that is repeated with its key opens no second payment:
\* "Idempotency key for duplicate prevention" (create-payment.dto.ts).
OnePaymentPerKey ==
  \A p, q \in PaymentIds :
    KeyOf[p] = KeyOf[q] /\ payment[p] # NoPayment /\ payment[q] # NoPayment => p = q

\* Once no delivery about it is in flight, an approved payment has its event:
\* "events are persisted atomically with domain state changes" (schema).
ApprovedIsPublished ==
  \A p \in PaymentIds :
    /\ payment[p].status = "APPROVED"
    /\ \A h \in Hooks : InFlight(h) => PreferenceOf[held[h].charge] # p
    => EventsOf(p) # {}

\* c is paid at once: no other attempt on its preference was turned down.
FirstAttempt(c) ==
  \A other \in Charges \ {c} :
    PreferenceOf[other] = PreferenceOf[c] => charge[other] \notin {"rejected", "cancelled"}

\* While nothing has failed, a delivery that saw an approved charge, the first
\* attempt to pay, and was served to its end leaves the event that credits the
\* user: the webhook "credits user account upon successful payment"
\* (payments.controller.ts).  Of a second attempt it is not true.
PaidNotificationPublishes ==
  \A h \in Hooks :
    faults = 0 /\ hook[h] = "done" /\ held[h].status = "approved"
      /\ FirstAttempt(held[h].charge) /\ ~Overlapped(PreferenceOf[held[h].charge])
    => EventsOf(PreferenceOf[held[h].charge]) # {}

\* A payment does not stay INITIALIZING unless something fails: the provider's
\* answer makes it PENDING, its refusal REJECTED.
InitializationEnds ==
  \A p \in PaymentIds :
    payment[p].status = "INITIALIZING"
      ~> (payment[p].status # "INITIALIZING" \/ faults > 0)

\* An approved payment gets its event in the end, unless something fails.
ApprovalIsPublished ==
  \A p \in PaymentIds :
    payment[p].status = "APPROVED" ~> (EventsOf(p) # {} \/ faults > 0)
=============================================================================
