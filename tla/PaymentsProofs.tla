--------------------------- MODULE PaymentsProofs ---------------------------
(***************************************************************************)
(* Proofs about Payments, for any requests, charges, preferences and       *)
(* deliveries, overlapping or not, with any budget of faults.              *)
(*                                                                         *)
(* The properties speak of rows and events.  What makes them inductive is  *)
(* who may still write a row: the saga until its preference is handed out, *)
(* and from then on the deliveries, each with an entity it read earlier.   *)
(***************************************************************************)
EXTENDS Payments, TLAPS

-----------------------------------------------------------------------------
(***************************************************************************)
(* The invariant.                                                          *)
(***************************************************************************)

\* The row is the saga's, and as its entity was last saved, until the saga
\* ends; it is ready to be paid once the saga has ended well.
SagaOwnsRow ==
  \A p \in PaymentIds :
    /\ saga[p] = "idle" => payment[p] = NoPayment
    /\ saga[p] \in {"calling", "saving", "compensating"} => payment[p] = initializedPayment
    /\ saga[p] = "calling" => draft[p] = initializedPayment
    /\ saga[p] = "saving" => draft[p] = setPreferenceId(initializedPayment)
    /\ saga[p] = "compensating" => draft[p] = markAsInitializationFailed(initializedPayment)
    /\ saga[p] = "failed" => payment[p].status \in {"NONE", "INITIALIZING", "REJECTED"}
    /\ saga[p] = "ok" => payment[p].status \in {"PENDING", "APPROVED", "REJECTED"}

\* Nobody pays without the initPoint, which the saga hands out when it ends.
ChargesFollowSaga ==
  \A c \in Charges : charge[c] # "none" => saga[PreferenceOf[c]] = "ok"

\* The row of p names a charge exactly when it is approved, and then one that
\* was made on the preference of p, and paid.
RowsNameTheirCharge ==
  \A p \in PaymentIds :
    LET c == payment[p].providerPaymentId IN
    IF payment[p].status = "APPROVED"
      THEN c \in Charges /\ PreferenceOf[c] = p /\ Paid(c)
      ELSE c = NULL

\* What a delivery tells is still true of its charge, but for a refund since.
NewsHolds(h) ==
  LET c == held[h].charge IN
  /\ charge[c] # "none"
  /\ held[h].id = PreferenceOf[c]
  /\ held[h].status = "approved" => Paid(c)
  /\ held[h].status \in {"rejected", "cancelled"} => charge[c] = held[h].status

\* The entity a delivery will save, however old, says what its charge says.
EntityHolds(h) ==
  LET e == held[h].entity IN
  \/ held[h].status = "approved" /\ e.status = "APPROVED"
       /\ e.providerPaymentId = held[h].charge
  \/ held[h].status \in {"rejected", "cancelled"} /\ e.status = "REJECTED"
       /\ e.providerPaymentId = NULL

DeliveriesHold ==
  \A h \in Hooks :
    /\ Notified(h) => held[h] \in Delivery /\ NewsHolds(h)
    /\ hook[h] = "saving" => EntityHolds(h)
    /\ hook[h] = "creating" => held[h].status = "approved"

\* h is a delivery about p, on its way or over.
About(h, p) == Notified(h) /\ PreferenceOf[held[h].charge] = p

\* A payment that could be paid was rejected because a charge on it was.
RejectionsHaveCause ==
  \A p \in PaymentIds : saga[p] = "ok" /\ payment[p].status = "REJECTED" =>
    \E h \in Hooks : About(h, p) /\ held[h].status \in {"rejected", "cancelled"}

\* Events are written only of payments that were charged.
EventsArePaid ==
  \A i \in DOMAIN outbox :
    \E c \in Charges : PreferenceOf[c] = outbox[i].payload.paymentId /\ Paid(c)

\* While deliveries about p come one at a time, the one on its way writes over
\* the row it has read, and the event of p comes after its approval, alone.
AloneHolds(p) ==
  /\ \A g, h \in InFlightAbout(p) : g = h
  /\ \A h \in InFlightAbout(p) :
       /\ hook[h] = "saving" => payment[p].status = "PENDING"
       /\ hook[h] = "creating" => payment[p].status = "APPROVED" /\ EventsOf(p) = {}
  /\ EventsOf(p) # {} => payment[p].status = "APPROVED"
  /\ \A i, j \in EventsOf(p) : i = j
  /\ faults = 0 /\ payment[p].status = "APPROVED" =>
       EventsOf(p) # {} \/ \E h \in InFlightAbout(p) : hook[h] = "creating"

DeliveriesAlone == \A p \in PaymentIds : ~Overlapped(p) => AloneHolds(p)

PaymentsInv ==
  /\ PaymentsTypeOK
  /\ SagaOwnsRow
  /\ ChargesFollowSaga
  /\ RowsNameTheirCharge
  /\ DeliveriesHold
  /\ RejectionsHaveCause
  /\ EventsArePaid
  /\ DeliveriesAlone
  /\ PaidNotificationPublishes

-----------------------------------------------------------------------------
(***************************************************************************)
(* Operators of the model.                                                 *)
(***************************************************************************)

\* The entities of a saga are payments that name no charge.
LEMMA SagaEntities ==
  /\ initializedPayment \in Payment
  /\ setPreferenceId(initializedPayment) \in Payment
  /\ markAsInitializationFailed(initializedPayment) \in Payment
  /\ initializedPayment.status = "INITIALIZING"
  /\ setPreferenceId(initializedPayment).status = "PENDING"
  /\ markAsInitializationFailed(initializedPayment).status = "REJECTED"
  /\ initializedPayment.providerPaymentId = NULL
  /\ setPreferenceId(initializedPayment).providerPaymentId = NULL
  /\ markAsInitializationFailed(initializedPayment).providerPaymentId = NULL
  /\ NoPayment.status = "NONE" /\ NoPayment.providerPaymentId = NULL
BY DEF initializedPayment, setPreferenceId, markAsInitializationFailed, NoPayment,
       Payment, PaymentStatus

\* approve and reject change what they say, and nothing else.
LEMMA SettledEntities ==
  ASSUME NEW e \in Payment, NEW c \in Charges
  PROVE  /\ approve(e, c) \in Payment
         /\ approve(e, c).status = "APPROVED" /\ approve(e, c).providerPaymentId = c
         /\ reject(e) \in Payment
         /\ reject(e).status = "REJECTED" /\ reject(e).providerPaymentId = e.providerPaymentId
<1> DEFINE approved == [e EXCEPT !.status = "APPROVED"]
<1>1. approved \in Payment /\ approved.status = "APPROVED"
  BY DEF Payment, PaymentStatus
<1>2. approve(e, c) = [approved EXCEPT !.providerPaymentId = c]
  BY DEF approve
<1>3. /\ approve(e, c) \in Payment
      /\ approve(e, c).status = "APPROVED" /\ approve(e, c).providerPaymentId = c
  <2> HIDE DEF approved
  <2> QED
    BY <1>1, <1>2 DEF Payment
<1>4. /\ reject(e) \in Payment
      /\ reject(e).status = "REJECTED" /\ reject(e).providerPaymentId = e.providerPaymentId
  BY DEF reject, Payment, PaymentStatus
<1> QED
  BY <1>3, <1>4

\* What a delivery holds once it has looked its payment up.
LEMMA DeliveryOfEntity ==
  ASSUME NEW d \in Delivery, NEW p, NEW e
  PROVE  [d EXCEPT !.id = p, !.entity = e] =
           [charge |-> d.charge, status |-> d.status, id |-> p, entity |-> e,
            overlaps |-> d.overlaps]
<1> DEFINE found == [d EXCEPT !.id = p]
<1>1. found = [charge |-> d.charge, status |-> d.status, id |-> p, entity |-> d.entity,
               overlaps |-> d.overlaps]
  BY DEF Delivery
<1>2. [d EXCEPT !.id = p, !.entity = e] = [found EXCEPT !.entity = e]
  OBVIOUS
<1> HIDE DEF found
<1> QED
  BY <1>1, <1>2

LEMMA RowsAreTyped ==
  ASSUME NEW e \in Payment \union {NoPayment}
  PROVE  /\ e.status \in PaymentStatus \union {"NONE"}
         /\ e.status = "NONE" <=> e = NoPayment
BY DEF Payment, PaymentStatus, NoPayment

\* Whichever way the webhook finds a row, it is the one whose preference the
\* charge pays.
LEMMA FindsOwnRow ==
  ASSUME RowsNameTheirCharge, NEW c \in Charges
  PROVE  findPayment(c) = PreferenceOf[c]
<1> DEFINE known == {p \in PaymentIds : payment[p].providerPaymentId = c}
<1>1. ASSUME NEW p \in known PROVE p = PreferenceOf[c]
  BY NullIsNoCharge DEF RowsNameTheirCharge
<1>2. known # {} => (CHOOSE p \in known : TRUE) \in known
  OBVIOUS
<1> QED
  BY <1>1, <1>2 DEF findPayment

\* A new event adds itself, and nothing else, to the events of its payment.
LEMMA NewEvent ==
  ASSUME outbox \in Seq(OutboxEvent), NEW p \in PaymentIds, createOutboxEvent(createEvent(p))
  PROVE  /\ outbox' \in Seq(OutboxEvent)
         /\ DOMAIN outbox' = DOMAIN outbox \union {Len(outbox) + 1}
         /\ Len(outbox) + 1 \notin DOMAIN outbox
         /\ \A i \in DOMAIN outbox : outbox'[i] = outbox[i]
         /\ outbox'[Len(outbox) + 1].payload.paymentId = p
<1>1. createEvent(p) \in OutboxEvent /\ createEvent(p).payload.paymentId = p
  BY DEF createEvent, OutboxEvent, payload, OutboxStatus
<1>2. outbox' = Append(outbox, createEvent(p))
  BY DEF createOutboxEvent
<1> QED
  BY <1>1, <1>2

-----------------------------------------------------------------------------
(***************************************************************************)
(* The saga.                                                               *)
(***************************************************************************)

\* A step of a saga that has not ended keeps the invariant, when its row and
\* its entity are what the new label says.
LEMMA SagaMoves ==
  ASSUME PaymentsInv, NEW p \in PaymentIds, saga[p] \notin {"ok", "failed"},
         NEW label \in SagaControl, NEW e \in Payment \union {NoPayment},
         NEW row \in Payment \union {NoPayment},
         SagaTo(p, label, e), payment' = [payment EXCEPT ![p] = row],
         FaultsTypeOK', faults <= faults', UNCHANGED <<charge, hookVars, outbox>>,
         row.providerPaymentId = NULL,
         label # "idle",
         label \in {"calling", "saving", "compensating"} => row = initializedPayment,
         label = "calling" => e = initializedPayment,
         label = "saving" => e = setPreferenceId(initializedPayment),
         label = "compensating" => e = markAsInitializationFailed(initializedPayment),
         label = "failed" => row.status \in {"NONE", "INITIALIZING", "REJECTED"},
         label = "ok" => row.status = "PENDING"
  PROVE  PaymentsInv'
<1> USE DEF PaymentsInv
<1>0. /\ saga' = [saga EXCEPT ![p] = label] /\ draft' = [draft EXCEPT ![p] = e]
      /\ charge' = charge /\ hook' = hook /\ held' = held /\ outbox' = outbox
  BY DEF SagaTo, hookVars
<1>1. PaymentsTypeOK'
  BY <1>0 DEF PaymentsTypeOK, OutboxTypeOK, FaultsTypeOK
<1>2. \A q \in PaymentIds \ {p} :
        saga'[q] = saga[q] /\ draft'[q] = draft[q] /\ payment'[q] = payment[q]
  BY <1>0 DEF PaymentsTypeOK
<1>3. saga'[p] = label /\ draft'[p] = e /\ payment'[p] = row
  BY <1>0 DEF PaymentsTypeOK
<1>4. \A h \in Hooks : Notified(h) =>
        held[h].charge \in Charges /\ PreferenceOf[held[h].charge] # p
  BY DEF DeliveriesHold, NewsHolds, ChargesFollowSaga, Delivery
<1>5. SagaOwnsRow'
  BY <1>2, <1>3, SagaEntities DEF SagaOwnsRow
<1>6. ChargesFollowSaga'
  BY <1>0, <1>2, PreferenceOfIsTotal DEF ChargesFollowSaga
<1>7. RowsNameTheirCharge'
  <2>1. row.status # "APPROVED"
    BY SagaEntities DEF SagaControl
  <2> QED
    BY <1>0, <1>2, <1>3, <2>1 DEF RowsNameTheirCharge, Paid
<1>8. DeliveriesHold'
  BY <1>0 DEF DeliveriesHold, Notified, NewsHolds, EntityHolds, Paid
<1>9. RejectionsHaveCause'
  BY <1>0, <1>2, <1>3 DEF RejectionsHaveCause, About, Notified
<1>10. EventsArePaid'
  BY <1>0 DEF EventsArePaid, Paid
<1>11. DeliveriesAlone'
  <2> SUFFICES ASSUME NEW q \in PaymentIds, ~Overlapped(q)' PROVE AloneHolds(q)'
    BY DEF DeliveriesAlone
  <2>1. AloneHolds(q)
    BY <1>0 DEF DeliveriesAlone, Overlapped, Notified
  <2>2. InFlightAbout(q)' = InFlightAbout(q) /\ EventsOf(q)' = EventsOf(q)
    BY <1>0 DEF InFlightAbout, InFlight, EventsOf
  <2>3. faults' = 0 => faults = 0
    BY DEF PaymentsTypeOK, FaultsTypeOK
  <2>4. CASE q # p
    BY <1>0, <1>2, <2>1, <2>2, <2>3, <2>4 DEF AloneHolds
  <2>5. CASE q = p
    <3>1. InFlightAbout(p) = {}
      BY <1>4 DEF InFlightAbout, InFlight, Notified
    <3>2. EventsOf(p) = {}
      BY DEF EventsArePaid, EventsOf, ChargesFollowSaga, Paid
    <3>3. payment'[p].status # "APPROVED"
      BY <1>3, SagaEntities DEF SagaControl
    <3> QED
      BY <2>2, <2>5, <3>1, <3>2, <3>3 DEF AloneHolds
  <2> QED
    BY <2>4, <2>5
<1>12. PaidNotificationPublishes'
  <2>1. faults' = 0 => faults = 0
    BY DEF PaymentsTypeOK, FaultsTypeOK
  <2> QED
    BY <1>0, <2>1 DEF PaidNotificationPublishes, FirstAttempt, Overlapped, Notified, EventsOf
<1> QED
  BY <1>1, <1>5, <1>6, <1>7, <1>8, <1>9, <1>10, <1>11, <1>12

LEMMA SagaKeepsInv ==
  ASSUME PaymentsInv, NEW p \in PaymentIds,
         \/ RefusePreference(p) \/ CreatePayment(p) \/ SagaStep(p)
         \/ SavePreferenceFails(p) \/ SagaStops(p)
  PROVE  PaymentsInv'
<1> USE SagaEntities
<1>1. /\ draft[p] \in Payment \union {NoPayment}
      /\ payment[p] \in Payment \union {NoPayment}
      /\ payment' = payment => payment' = [payment EXCEPT ![p] = payment[p]]
      /\ NoFault \/ Fault => FaultsTypeOK' /\ faults <= faults'
  BY MaxFaultsIsNat DEF PaymentsInv, PaymentsTypeOK, NoFault, Fault, FaultsTypeOK
<1>2. SagaOwnsRow /\ RowsNameTheirCharge
  BY DEF PaymentsInv
<1>3. CASE RefusePreference(p)
  <2>1. payment[p] = NoPayment
    BY <1>2, <1>3 DEF SagaOwnsRow, RefusePreference
  <2> QED
    BY <1>1, <1>3, <2>1, SagaMoves DEF RefusePreference, SagaControl
<1>4. CASE CreatePayment(p)
  BY <1>1, <1>4, SagaMoves DEF CreatePayment, savePayment, SagaControl
<1>5. CASE PreferenceCreated(p)
  <2>1. payment[p] = initializedPayment /\ draft[p] = initializedPayment
    BY <1>2, <1>5 DEF SagaOwnsRow, PreferenceCreated
  <2> QED
    BY <1>1, <1>5, <2>1, SagaMoves DEF PreferenceCreated, SagaControl
<1>6. CASE PreferenceFails(p)
  <2>1. payment[p] = initializedPayment /\ draft[p] = initializedPayment
    BY <1>2, <1>6 DEF SagaOwnsRow, PreferenceFails
  <2>2. SagaTo(p, "compensating", markAsInitializationFailed(initializedPayment))
    BY <1>6, <2>1 DEF PreferenceFails, Compensate, canMarkAsInitializationFailed
  <2> QED
    BY <1>1, <1>6, <2>1, <2>2, SagaMoves DEF PreferenceFails, SagaControl
<1>7. CASE SavePreference(p)
  <2>1. draft[p] = setPreferenceId(initializedPayment)
    BY <1>2, <1>7 DEF SagaOwnsRow, SavePreference
  <2> QED
    BY <1>1, <1>7, <2>1, SagaMoves DEF SavePreference, savePayment, SagaControl
<1>8. CASE SavePreferenceFails(p)
  <2>1. payment[p] = initializedPayment /\ draft[p] = setPreferenceId(initializedPayment)
    BY <1>2, <1>8 DEF SagaOwnsRow, SavePreferenceFails
  <2>2. SagaTo(p, "failed", draft[p])
    BY <1>8, <2>1 DEF SavePreferenceFails, Compensate, canMarkAsInitializationFailed
  <2> QED
    BY <1>1, <1>8, <2>1, <2>2, SagaMoves DEF SavePreferenceFails, SagaControl
<1>9. CASE SaveRollback(p)
  <2>1. draft[p] = markAsInitializationFailed(initializedPayment)
    BY <1>2, <1>9 DEF SagaOwnsRow, SaveRollback
  <2> QED
    BY <1>1, <1>9, <2>1, SagaMoves DEF SaveRollback, savePayment, SagaControl
<1>10. CASE SagaStops(p)
  <2>1. payment[p] = initializedPayment
    BY <1>2, <1>10 DEF SagaOwnsRow, SagaStops
  <2> QED
    BY <1>1, <1>10, <2>1, SagaMoves DEF SagaStops, SagaControl
<1> QED
  BY <1>3, <1>4, <1>5, <1>6, <1>7, <1>8, <1>9, <1>10 DEF SagaStep

-----------------------------------------------------------------------------
(***************************************************************************)
(* The provider.                                                           *)
(***************************************************************************)

\* A charge changes and what was known of it stays true.
LEMMA ChargeKeepsInv ==
  ASSUME PaymentsInv, NEW c \in Charges, Pay(c) \/ Settle(c)
  PROVE  PaymentsInv'
<1> USE DEF PaymentsInv
<1>1. /\ payment' = payment /\ saga' = saga /\ draft' = draft
      /\ hook' = hook /\ held' = held /\ outbox' = outbox /\ faults' = faults
  BY DEF Pay, Settle, sagaVars, hookVars, NoFault
<1>2. PICK status \in ChargeStatus : status # "none" /\ charge' = [charge EXCEPT ![c] = status]
  BY DEF Pay, Settle, ChargeStatus
<1>3. saga[PreferenceOf[c]] = "ok"
  BY DEF Pay, Settle, ChargesFollowSaga
<1>4. \A d \in Charges :
        /\ Paid(d) => Paid(d)'
        /\ charge[d] # "none" => charge'[d] # "none"
        /\ charge[d] \in {"rejected", "cancelled"} => charge'[d] = charge[d]
  BY DEF Pay, Settle, Paid, PaymentsTypeOK
<1>5. PaymentsTypeOK'
  BY <1>1, <1>2 DEF PaymentsTypeOK, OutboxTypeOK, FaultsTypeOK
<1>6. SagaOwnsRow' /\ RejectionsHaveCause'
  BY <1>1 DEF SagaOwnsRow, RejectionsHaveCause, About, Notified
<1>7. ChargesFollowSaga'
  BY <1>1, <1>2, <1>3 DEF ChargesFollowSaga, PaymentsTypeOK
<1>8. RowsNameTheirCharge'
  BY <1>1, <1>4 DEF RowsNameTheirCharge
<1>9. DeliveriesHold'
  <2>1. \A h \in Hooks : Notified(h) => held[h].charge \in Charges
    BY DEF DeliveriesHold, Delivery
  <2> QED
    BY <1>1, <1>4, <2>1 DEF DeliveriesHold, Notified, NewsHolds, EntityHolds
<1>10. EventsArePaid'
  BY <1>1, <1>4 DEF EventsArePaid
<1>11. DeliveriesAlone'
  BY <1>1 DEF DeliveriesAlone, Overlapped, Notified, AloneHolds, InFlightAbout, InFlight, EventsOf
<1>12. PaidNotificationPublishes'
  <2>1. \A d \in Charges : FirstAttempt(d)' => FirstAttempt(d)
    BY <1>4 DEF FirstAttempt
  <2>2. \A h \in Hooks : hook[h] = "done" => held[h].charge \in Charges
    BY DEF DeliveriesHold, Delivery, Notified
  <2> QED
    BY <1>1, <2>1, <2>2 DEF PaidNotificationPublishes, Overlapped, Notified, EventsOf
<1> QED
  BY <1>5, <1>6, <1>7, <1>8, <1>9, <1>10, <1>11, <1>12

-----------------------------------------------------------------------------
(***************************************************************************)
(* The deliveries.                                                         *)
(***************************************************************************)

\* A delivery that is about p alone, and another on its way, are one.
LEMMA OneOnItsWay ==
  ASSUME PaymentsInv, NEW p \in PaymentIds, ~Overlapped(p)
  PROVE  AloneHolds(p)
BY DEF PaymentsInv, DeliveriesAlone

LEMMA FetchKeepsInv ==
  ASSUME PaymentsInv, NEW h \in Hooks, NEW c \in Charges, Fetch(h, c)
  PROVE  PaymentsInv'
<1> USE DEF PaymentsInv
<1> DEFINE p == PreferenceOf[c]
           d == [charge |-> c, status |-> charge[c], id |-> p, entity |-> NoPayment,
                 overlaps |-> InFlightAbout(p) # {}]
<1>1. /\ payment' = payment /\ saga' = saga /\ draft' = draft /\ charge' = charge
      /\ outbox' = outbox /\ faults' = faults
      /\ hook' = [hook EXCEPT ![h] = "fetched"] /\ held' = [held EXCEPT ![h] = d]
      /\ hook[h] = "idle" /\ charge[c] # "none"
  BY DEF Fetch, HookTo, sagaVars, NoFault
<1>2. p \in PaymentIds /\ d \in Delivery
  BY PreferenceOfIsTotal DEF Delivery, PaymentsTypeOK
<1> HIDE DEF d
<1>3. d.charge = c /\ d.status = charge[c] /\ d.id = p /\ d.overlaps = (InFlightAbout(p) # {})
  BY DEF d
<1>4. /\ hook'[h] = "fetched" /\ held'[h] = d
      /\ \A g \in Hooks \ {h} : hook'[g] = hook[g] /\ held'[g] = held[g]
  BY <1>1 DEF PaymentsTypeOK
<1>5. PaymentsTypeOK'
  BY <1>1, <1>2 DEF PaymentsTypeOK, OutboxTypeOK, FaultsTypeOK, HookControl
<1>6. SagaOwnsRow' /\ ChargesFollowSaga' /\ RowsNameTheirCharge' /\ EventsArePaid'
  BY <1>1 DEF SagaOwnsRow, ChargesFollowSaga, RowsNameTheirCharge, EventsArePaid, Paid
<1>7. DeliveriesHold'
  BY <1>1, <1>2, <1>3, <1>4 DEF DeliveriesHold, Notified, NewsHolds, EntityHolds, Paid
<1>8. RejectionsHaveCause'
  BY <1>1, <1>4 DEF RejectionsHaveCause, About, Notified
<1>9. \A q \in PaymentIds : ~Overlapped(q)' =>
        /\ ~Overlapped(q)
        /\ InFlightAbout(q) \subseteq InFlightAbout(q)'
        /\ InFlightAbout(q)' \subseteq InFlightAbout(q) \union {h}
        /\ h \in InFlightAbout(q)' => q = p /\ InFlightAbout(q) = {}
  <2> SUFFICES ASSUME NEW q \in PaymentIds, ~Overlapped(q)'
               PROVE  /\ ~Overlapped(q)
                      /\ InFlightAbout(q) \subseteq InFlightAbout(q)'
                      /\ InFlightAbout(q)' \subseteq InFlightAbout(q) \union {h}
                      /\ h \in InFlightAbout(q)' => q = p /\ InFlightAbout(q) = {}
    OBVIOUS
  <2>1. \A g \in Hooks : Notified(g) => Notified(g)' /\ held'[g] = held[g]
    BY <1>1, <1>4 DEF Notified
  <2>2. ~Overlapped(q)
    BY <2>1 DEF Overlapped
  <2>3. \A g \in Hooks \ {h} : g \in InFlightAbout(q)' <=> g \in InFlightAbout(q)
    BY <1>4 DEF InFlightAbout, InFlight
  <2>4. h \notin InFlightAbout(q)
    BY <1>1 DEF InFlightAbout, InFlight
  <2>5. InFlightAbout(q)' \subseteq Hooks /\ InFlightAbout(q) \subseteq Hooks
    BY DEF InFlightAbout
  <2>6. h \in InFlightAbout(q)' => q = p
    BY <1>3, <1>4 DEF InFlightAbout
  <2>7. q = p => InFlightAbout(p) = {}
    BY <1>3, <1>4 DEF Overlapped, Notified
  <2> QED
    BY <2>2, <2>3, <2>4, <2>5, <2>6, <2>7
<1>10. DeliveriesAlone'
  <2> SUFFICES ASSUME NEW q \in PaymentIds, ~Overlapped(q)' PROVE AloneHolds(q)'
    BY DEF DeliveriesAlone
  <2>1. AloneHolds(q)
    BY <1>9, OneOnItsWay
  <2>2. EventsOf(q)' = EventsOf(q)
    BY <1>1 DEF EventsOf
  <2>3. h \notin InFlightAbout(q)
    BY <1>1 DEF InFlightAbout, InFlight
  <2> QED
    BY <1>1, <1>4, <1>9, <2>1, <2>2, <2>3 DEF AloneHolds
<1>11. PaidNotificationPublishes'
  <2>1. \A g \in Hooks : hook'[g] = "done" =>
          /\ hook[g] = "done" /\ held'[g] = held[g]
          /\ Overlapped(PreferenceOf[held[g].charge]) =>
               Overlapped(PreferenceOf[held[g].charge])'
    BY <1>1, <1>4 DEF Overlapped, Notified
  <2> QED
    BY <1>1, <2>1 DEF PaidNotificationPublishes, FirstAttempt, EventsOf
<1> QED
  BY <1>5, <1>6, <1>7, <1>8, <1>10, <1>11

\* A delivery moves on: what it is about stays, whatever it holds of it.
LEMMA DeliveryStays ==
  ASSUME PaymentsInv, NEW h \in Hooks, InFlight(h),
         NEW label \in HookControl \ {"idle", "fetched"}, HookTo(h, label),
         NEW d \in Delivery, held' = [held EXCEPT ![h] = d],
         d.charge = held[h].charge, d.status = held[h].status, d.overlaps = held[h].overlaps
  PROVE  /\ hook'[h] = label /\ held'[h] = d
         /\ \A g \in Hooks \ {h} : hook'[g] = hook[g] /\ held'[g] = held[g]
         /\ \A g \in Hooks : Notified(g)' <=> Notified(g)
         /\ \A p \in PaymentIds :
              /\ Overlapped(p)' <=> Overlapped(p)
              /\ InFlightAbout(p)' =
                   IF label \in {"done", "failed"} THEN InFlightAbout(p) \ {h} ELSE InFlightAbout(p)
              /\ \A g \in Hooks : About(g, p)' <=> About(g, p)
<1>1. /\ hook'[h] = label /\ held'[h] = d
      /\ \A g \in Hooks \ {h} : hook'[g] = hook[g] /\ held'[g] = held[g]
  BY DEF HookTo, PaymentsInv, PaymentsTypeOK
<1>2. \A g \in Hooks : Notified(g)' <=> Notified(g)
  BY <1>1 DEF Notified, InFlight
<1>3. \A g \in Hooks : InFlight(g)' <=> InFlight(g) /\ (g = h => label \notin {"done", "failed"})
  BY <1>1 DEF InFlight, HookControl
<1>4. \A g \in Hooks : held'[g].charge = held[g].charge /\ held'[g].overlaps = held[g].overlaps
  BY <1>1
<1> QED
  BY <1>1, <1>2, <1>3, <1>4 DEF Overlapped, InFlightAbout, About

\* A delivery moves on without a write to a row or an event.  What is left to
\* show is that its new label is right: an entity it is about to save holds and
\* replaces a row that was pending, if no other delivery is on its way; and it
\* ends well only if the event of an approved charge is there.
LEMMA DeliveryMoves ==
  ASSUME PaymentsInv, NEW h \in Hooks, InFlight(h), hook[h] = "creating" => faults' > 0,
         NEW label \in {"saving", "done", "failed"}, HookTo(h, label),
         NEW d \in Delivery, held' = [held EXCEPT ![h] = d],
         d.charge = held[h].charge, d.status = held[h].status, d.overlaps = held[h].overlaps,
         d.id = PreferenceOf[d.charge],
         UNCHANGED <<payment, saga, draft, charge, outbox>>, FaultsTypeOK', faults <= faults',
         label = "saving" => EntityHolds(h)',
         label = "saving" /\ ~Overlapped(d.id) => payment[d.id].status = "PENDING",
         label = "done" /\ faults' = 0 /\ d.status = "approved"
           /\ FirstAttempt(d.charge) /\ ~Overlapped(d.id) => EventsOf(d.id) # {}
  PROVE  PaymentsInv'
<1> USE DEF PaymentsInv
<1> DEFINE p == PreferenceOf[d.charge]
<1>0. label \in HookControl \ {"idle", "fetched"}
  BY DEF HookControl
<1>1. /\ hook'[h] = label /\ held'[h] = d
      /\ \A g \in Hooks \ {h} : hook'[g] = hook[g] /\ held'[g] = held[g]
      /\ \A g \in Hooks : Notified(g)' <=> Notified(g)
      /\ \A q \in PaymentIds :
           /\ Overlapped(q)' <=> Overlapped(q)
           /\ InFlightAbout(q)' =
                IF label \in {"done", "failed"} THEN InFlightAbout(q) \ {h} ELSE InFlightAbout(q)
           /\ \A g \in Hooks : About(g, q)' <=> About(g, q)
  BY <1>0, DeliveryStays
<1>2. p \in PaymentIds /\ h \in InFlightAbout(p)
      /\ \A q \in PaymentIds : h \in InFlightAbout(q) => q = p
  BY PreferenceOfIsTotal DEF InFlightAbout, Delivery
<1>3. faults' = 0 => faults = 0
  BY DEF PaymentsTypeOK, FaultsTypeOK
<1>4. PaymentsTypeOK'
  BY <1>0 DEF PaymentsTypeOK, OutboxTypeOK, HookTo
<1>5. SagaOwnsRow' /\ ChargesFollowSaga' /\ RowsNameTheirCharge' /\ EventsArePaid'
  BY DEF SagaOwnsRow, ChargesFollowSaga, RowsNameTheirCharge, EventsArePaid, Paid
<1>6. DeliveriesHold'
  <2> SUFFICES ASSUME NEW g \in Hooks
               PROVE  /\ Notified(g)' => held'[g] \in Delivery /\ NewsHolds(g)'
                      /\ hook'[g] = "saving" => EntityHolds(g)'
                      /\ hook'[g] = "creating" => held'[g].status = "approved"
    BY DEF DeliveriesHold
  <2>1. Notified(h) /\ NewsHolds(h)
    BY DEF DeliveriesHold, InFlight, Notified
  <2>2. CASE g = h
    BY <1>1, <2>1, <2>2 DEF NewsHolds, Paid
  <2>3. CASE g # h
    BY <1>1, <2>3 DEF DeliveriesHold, NewsHolds, EntityHolds, Paid
  <2> QED
    BY <2>2, <2>3
<1>7. RejectionsHaveCause'
  <2>1. \A g \in Hooks : held'[g].status = held[g].status
    BY <1>1
  <2> QED
    BY <1>1, <2>1 DEF RejectionsHaveCause
<1>8. DeliveriesAlone'
  <2> SUFFICES ASSUME NEW q \in PaymentIds, ~Overlapped(q)' PROVE AloneHolds(q)'
    BY DEF DeliveriesAlone
  <2>1. AloneHolds(q) /\ ~Overlapped(q)
    BY <1>1, OneOnItsWay
  <2>2. EventsOf(q)' = EventsOf(q)
    BY DEF EventsOf
  <2>3. \A g, k \in InFlightAbout(q)' : g = k
    BY <1>1, <2>1 DEF AloneHolds
  <2>4. \A g \in InFlightAbout(q)' :
          /\ hook'[g] = "saving" => payment'[q].status = "PENDING"
          /\ hook'[g] = "creating" => payment'[q].status = "APPROVED" /\ EventsOf(q)' = {}
    <3> SUFFICES ASSUME NEW g \in InFlightAbout(q)'
                 PROVE  /\ hook'[g] = "saving" => payment[q].status = "PENDING"
                        /\ hook'[g] = "creating" =>
                             payment[q].status = "APPROVED" /\ EventsOf(q) = {}
      BY <2>2
    <3>1. g \in InFlightAbout(q) /\ g \in Hooks
      BY <1>1 DEF InFlightAbout
    <3>2. CASE g = h
      BY <1>1, <1>2, <2>1, <3>1, <3>2
    <3>3. CASE g # h
      BY <1>1, <2>1, <3>1, <3>3 DEF AloneHolds
    <3> QED
      BY <3>2, <3>3
  <2>5. faults' = 0 => \A g \in InFlightAbout(q) : hook[g] = "creating" =>
          g \in InFlightAbout(q)' /\ hook'[g] = "creating"
    BY <1>1 DEF InFlightAbout
  <2> QED
    BY <1>3, <2>1, <2>2, <2>3, <2>4, <2>5 DEF AloneHolds
<1>9. PaidNotificationPublishes'
  <2> SUFFICES ASSUME NEW g \in Hooks, faults' = 0, hook'[g] = "done",
                      held'[g].status = "approved", FirstAttempt(held[g].charge)',
                      ~Overlapped(PreferenceOf[held[g].charge])'
               PROVE  EventsOf(PreferenceOf[held[g].charge])' # {}
    BY DEF PaidNotificationPublishes
  <2> DEFINE q == PreferenceOf[held[g].charge]
  <2>1. held'[g].charge = held[g].charge
    BY <1>1
  <2>2. FirstAttempt(held[g].charge)
    BY <2>1 DEF FirstAttempt
  <2>3. Notified(g)
    BY <1>1 DEF Notified
  <2>4. q \in PaymentIds
    BY <2>3, PreferenceOfIsTotal DEF DeliveriesHold, Delivery
  <2>5. ~Overlapped(q)'
    BY <2>1 DEF Overlapped
  <2>6. ~Overlapped(q)
    BY <1>1, <2>4, <2>5
  <2>7. EventsOf(PreferenceOf[held[g].charge])' = EventsOf(q)
    BY <2>1 DEF EventsOf
  <2>8. CASE g = h
    BY <1>1, <2>2, <2>6, <2>7, <2>8
  <2>9. CASE g # h
    BY <1>1, <1>3, <2>2, <2>6, <2>7, <2>9 DEF PaidNotificationPublishes
  <2> QED
    BY <2>8, <2>9
<1> QED
  BY <1>4, <1>5, <1>6, <1>7, <1>8, <1>9

LEMMA FindPaymentKeepsInv ==
  ASSUME PaymentsInv, NEW h \in Hooks, FindPayment(h)
  PROVE  PaymentsInv'
<1> USE DEF PaymentsInv
<1> DEFINE c == held[h].charge
           p == PreferenceOf[c]
           row == payment[p]
<1>1. /\ hook[h] = "fetched" /\ InFlight(h) /\ Notified(h)
      /\ UNCHANGED <<payment, saga, draft, charge, outbox>> /\ FaultsTypeOK' /\ faults' = faults
  BY DEF FindPayment, InFlight, Notified, sagaVars, NoFault, PaymentsTypeOK, FaultsTypeOK
<1>2. held[h] \in Delivery /\ c \in Charges /\ p \in PaymentIds /\ held[h].id = p
      /\ saga[p] = "ok" /\ held[h].status \in ChargeStatus
  BY <1>1, PreferenceOfIsTotal DEF DeliveriesHold, NewsHolds, Delivery, ChargesFollowSaga
<1>3. findPayment(c) = p
  BY <1>2, FindsOwnRow
<1>4. row \in Payment /\ row.status \in {"PENDING", "APPROVED", "REJECTED"} /\ row # NoPayment
  BY <1>2, RowsAreTyped DEF PaymentsTypeOK, SagaOwnsRow, NoPayment, Payment, PaymentStatus
<1>5. ASSUME NEW e \in Payment, ~isFinal(row), HookTo(h, "saving"),
             held' = [held EXCEPT ![h].id = p, ![h].entity = e],
             EntityHolds(h)'
      PROVE  PaymentsInv'
  <2> DEFINE d == [charge |-> c, status |-> held[h].status, id |-> p, entity |-> e,
                   overlaps |-> held[h].overlaps]
  <2>1. d \in Delivery
    BY <1>2 DEF Delivery
  <2>2. d.charge = c /\ d.status = held[h].status /\ d.id = p /\ d.overlaps = held[h].overlaps
    OBVIOUS
  <2>3. [held[h] EXCEPT !.id = p, !.entity = e] = d
    BY <1>2, DeliveryOfEntity
  <2>4. held' = [held EXCEPT ![h] = [held[h] EXCEPT !.id = p, !.entity = e]]
    BY <1>5 DEF PaymentsTypeOK
  <2>5. row.status = "PENDING"
    BY <1>4, <1>5 DEF isFinal
  <2> HIDE DEF d
  <2>6. held' = [held EXCEPT ![h] = d]
    BY <2>3, <2>4
  <2>7. faults <= faults'
    BY <1>1 DEF PaymentsTypeOK, FaultsTypeOK
  <2>8. d.id = PreferenceOf[d.charge] /\ payment[d.id].status = "PENDING"
    BY <2>2, <2>5
  <2> HIDE DEF PaymentsInv
  <2> QED
    BY <1>1, <1>5, <2>1, <2>2, <2>6, <2>7, <2>8, DeliveryMoves
<1>6. ASSUME HookTo(h, "done"), UNCHANGED held,
             held[h].status = "approved" => isFinal(row)
      PROVE  PaymentsInv'
  <2>1. held' = [held EXCEPT ![h] = held[h]]
    BY <1>6 DEF PaymentsTypeOK
  <2>2. ASSUME faults = 0, held[h].status = "approved", FirstAttempt(c), ~Overlapped(p)
        PROVE  EventsOf(p) # {}
    <3>1. row.status # "REJECTED"
      <4> SUFFICES ASSUME row.status = "REJECTED" PROVE FALSE
        OBVIOUS
      <4>1. PICK g \in Hooks : About(g, p) /\ held[g].status \in {"rejected", "cancelled"}
        BY <1>2 DEF RejectionsHaveCause
      <4>2. /\ held[g].charge \in Charges /\ PreferenceOf[held[g].charge] = p
            /\ charge[held[g].charge] \in {"rejected", "cancelled"}
        BY <4>1 DEF About, DeliveriesHold, NewsHolds, Delivery
      <4>3. Paid(c)
        BY <1>1, <2>2 DEF DeliveriesHold, NewsHolds
      <4> QED
        BY <2>2, <4>2, <4>3 DEF FirstAttempt, Paid
    <3>2. row.status = "APPROVED"
      BY <1>6, <2>2, <3>1 DEF isFinal
    <3>3. AloneHolds(p) /\ h \in InFlightAbout(p)
      BY <1>1, <1>2, <2>2, OneOnItsWay DEF InFlightAbout
    <3> QED
      BY <1>1, <2>2, <3>2, <3>3 DEF AloneHolds
  <2>3. faults <= faults'
    BY <1>1 DEF PaymentsTypeOK, FaultsTypeOK
  <2>4. held[h].id = PreferenceOf[held[h].charge]
    BY <1>2
  <2>5. ASSUME faults' = 0, held[h].status = "approved", FirstAttempt(held[h].charge),
               ~Overlapped(held[h].id)
        PROVE  EventsOf(held[h].id) # {}
    BY <1>1, <1>2, <2>2, <2>5
  <2> HIDE DEF PaymentsInv
  <2> QED
    BY <1>1, <1>2, <1>6, <2>1, <2>3, <2>4, <2>5, DeliveryMoves
<1>7. CASE isFinal(row)
  BY <1>3, <1>6, <1>7 DEF FindPayment
<1>8. CASE ~isFinal(row) /\ held[h].status = "approved"
  <2>1. HookTo(h, "saving") /\ held' = [held EXCEPT ![h].id = p, ![h].entity = approve(row, c)]
    BY <1>3, <1>4, <1>8 DEF FindPayment
  <2>2. approve(row, c) \in Payment /\ approve(row, c).status = "APPROVED"
        /\ approve(row, c).providerPaymentId = c
    BY <1>2, <1>4, SettledEntities
  <2>3. held'[h].entity = approve(row, c) /\ held'[h].status = held[h].status
        /\ held'[h].charge = c
    BY <1>2, <2>1 DEF PaymentsTypeOK, Delivery
  <2>4. EntityHolds(h)'
    BY <1>8, <2>2, <2>3 DEF EntityHolds
  <2> QED
    BY <1>5, <1>8, <2>1, <2>2, <2>4
<1>9. CASE ~isFinal(row) /\ held[h].status \in {"rejected", "cancelled"}
  <2>1. HookTo(h, "saving") /\ held' = [held EXCEPT ![h].id = p, ![h].entity = reject(row)]
    BY <1>3, <1>4, <1>9 DEF FindPayment
  <2>2. row.providerPaymentId = NULL
    BY <1>2, <1>9 DEF RowsNameTheirCharge, isFinal
  <2>3. reject(row) \in Payment /\ reject(row).status = "REJECTED"
        /\ reject(row).providerPaymentId = NULL
    BY <1>2, <1>4, <2>2, SettledEntities
  <2>4. held'[h].entity = reject(row) /\ held'[h].status = held[h].status
    BY <1>2, <2>1 DEF PaymentsTypeOK, Delivery
  <2>5. EntityHolds(h)'
    BY <1>9, <2>3, <2>4 DEF EntityHolds
  <2> QED
    BY <1>5, <1>9, <2>1, <2>3, <2>5
<1>10. CASE ~isFinal(row) /\ held[h].status \notin {"approved", "rejected", "cancelled"}
  BY <1>3, <1>4, <1>6, <1>10 DEF FindPayment
<1> QED
  BY <1>7, <1>8, <1>9, <1>10

LEMMA HookFailsKeepsInv ==
  ASSUME PaymentsInv, NEW h \in Hooks, HookFails(h)
  PROVE  PaymentsInv'
<1>1. held[h] \in Delivery /\ held[h].id = PreferenceOf[held[h].charge]
  BY DEF PaymentsInv, HookFails, DeliveriesHold, NewsHolds, InFlight, Notified
<1>2. held' = [held EXCEPT ![h] = held[h]]
  BY DEF HookFails, PaymentsInv, PaymentsTypeOK
<1>3. FaultsTypeOK' /\ faults <= faults' /\ faults' > 0
  BY MaxFaultsIsNat DEF HookFails, Fault, PaymentsInv, PaymentsTypeOK, FaultsTypeOK
<1> QED
  BY <1>1, <1>2, <1>3, DeliveryMoves DEF HookFails, sagaVars

\* The entity of a delivery is written over the row of its payment: nobody else
\* is about it, or the row was the saga's last.
LEMMA SavePaymentKeepsInv ==
  ASSUME PaymentsInv, NEW h \in Hooks, SavePayment(h)
  PROVE  PaymentsInv'
<1> USE DEF PaymentsInv
<1> DEFINE c == held[h].charge
           p == PreferenceOf[c]
           e == held[h].entity
           label == IF held[h].status = "approved" THEN "creating" ELSE "done"
<1>1. /\ hook[h] = "saving" /\ InFlight(h) /\ Notified(h)
      /\ saga' = saga /\ draft' = draft /\ charge' = charge /\ held' = held
      /\ outbox' = outbox /\ faults' = faults /\ HookTo(h, label)
      /\ payment' = [payment EXCEPT ![held[h].id] = e]
  BY DEF SavePayment, savePayment, InFlight, Notified, sagaVars, NoFault
<1>2. held[h] \in Delivery /\ c \in Charges /\ p \in PaymentIds /\ held[h].id = p
      /\ NewsHolds(h) /\ EntityHolds(h)
  BY <1>1, PreferenceOfIsTotal DEF DeliveriesHold, NewsHolds, Delivery
<1>3. e \in Payment \union {NoPayment} /\ saga[p] = "ok" /\ charge[c] # "none"
  BY <1>2 DEF Delivery, ChargesFollowSaga, NewsHolds
<1>4. /\ payment'[p] = e
      /\ \A q \in PaymentIds \ {p} : payment'[q] = payment[q]
  BY <1>1, <1>2 DEF PaymentsTypeOK
<1>5. /\ hook'[h] = label /\ label \in {"creating", "done"}
      /\ \A g \in Hooks \ {h} : hook'[g] = hook[g]
      /\ \A g \in Hooks : Notified(g)' <=> Notified(g)
      /\ \A q \in PaymentIds :
           /\ Overlapped(q)' <=> Overlapped(q)
           /\ InFlightAbout(q)' =
                IF label = "done" THEN InFlightAbout(q) \ {h} ELSE InFlightAbout(q)
           /\ \A g \in Hooks : About(g, q)' <=> About(g, q)
  <2>1. held' = [held EXCEPT ![h] = held[h]]
    BY <1>1 DEF PaymentsTypeOK
  <2>2. ASSUME NEW l \in {"creating", "done"}, HookTo(h, l)
        PROVE  /\ hook'[h] = l
               /\ \A g \in Hooks \ {h} : hook'[g] = hook[g]
               /\ \A g \in Hooks : Notified(g)' <=> Notified(g)
               /\ \A q \in PaymentIds :
                    /\ Overlapped(q)' <=> Overlapped(q)
                    /\ InFlightAbout(q)' =
                         IF l = "done" THEN InFlightAbout(q) \ {h} ELSE InFlightAbout(q)
                    /\ \A g \in Hooks : About(g, q)' <=> About(g, q)
    <3>1. l \in HookControl \ {"idle", "fetched"} /\ l # "failed"
      BY DEF HookControl
    <3>2. InFlight(h) /\ held[h] \in Delivery
      BY <1>1, <1>2
    <3> HIDE DEF PaymentsInv
    <3>3. PaymentsInv
      OBVIOUS
    <3> QED
      BY <2>1, <2>2, <3>1, <3>2, <3>3, DeliveryStays
  <2>3. CASE label = "creating"
    BY <1>1, <2>2, <2>3
  <2>4. CASE label = "done"
    BY <1>1, <2>2, <2>4
  <2> QED
    BY <2>3, <2>4
<1>6. /\ held[h].status = "approved" =>
           label = "creating" /\ e.status = "APPROVED" /\ e.providerPaymentId = c /\ Paid(c)
      /\ held[h].status # "approved" =>
           /\ label = "done" /\ e.status = "REJECTED" /\ e.providerPaymentId = NULL
           /\ held[h].status \in {"rejected", "cancelled"}
  BY <1>2 DEF EntityHolds, NewsHolds
<1> HIDE DEF label, e
<1>7. PaymentsTypeOK'
  BY <1>1, <1>3, <1>5 DEF PaymentsTypeOK, OutboxTypeOK, FaultsTypeOK, HookTo, HookControl
<1>8. SagaOwnsRow'
  BY <1>1, <1>3, <1>4, <1>6 DEF SagaOwnsRow
<1>9. ChargesFollowSaga' /\ EventsArePaid'
  BY <1>1 DEF ChargesFollowSaga, EventsArePaid, Paid
<1>10. RowsNameTheirCharge'
  BY <1>1, <1>2, <1>4, <1>6 DEF RowsNameTheirCharge, Paid
<1>11. DeliveriesHold'
  BY <1>1, <1>5, <1>6 DEF DeliveriesHold, NewsHolds, EntityHolds, Paid
<1>12. RejectionsHaveCause'
  <2> SUFFICES ASSUME NEW q \in PaymentIds, saga[q] = "ok", payment'[q].status = "REJECTED"
               PROVE  \E g \in Hooks : About(g, q)' /\ held[g].status \in {"rejected", "cancelled"}
    BY <1>1 DEF RejectionsHaveCause
  <2>1. CASE q = p
    BY <1>1, <1>2, <1>4, <1>5, <1>6, <2>1 DEF About
  <2>2. CASE q # p
    BY <1>4, <1>5, <2>2 DEF RejectionsHaveCause
  <2> QED
    BY <2>1, <2>2
<1>13. DeliveriesAlone'
  <2> SUFFICES ASSUME NEW q \in PaymentIds, ~Overlapped(q)' PROVE AloneHolds(q)'
    BY DEF DeliveriesAlone
  <2>1. AloneHolds(q) /\ ~Overlapped(q)
    BY <1>5, OneOnItsWay
  <2>2. EventsOf(q)' = EventsOf(q)
    BY <1>1 DEF EventsOf
  <2>3. \A r \in PaymentIds : h \in InFlightAbout(r) <=> r = p
    BY <1>1, <1>2 DEF InFlightAbout
  <2>4. InFlightAbout(q)' \subseteq InFlightAbout(q) /\ InFlightAbout(q) \subseteq Hooks
    BY <1>5 DEF InFlightAbout
  <2>5. CASE q = p
    <3>1. InFlightAbout(q) = {h} /\ payment[q].status = "PENDING" /\ EventsOf(q) = {}
      BY <1>1, <2>1, <2>3, <2>5 DEF AloneHolds
    <3>2. CASE held[h].status = "approved"
      <4>1. hook'[h] = "creating" /\ InFlightAbout(q)' = {h} /\ payment'[q].status = "APPROVED"
        BY <1>4, <1>5, <1>6, <2>5, <3>1, <3>2
      <4> QED
        BY <2>2, <3>1, <4>1 DEF AloneHolds
    <3>3. CASE held[h].status # "approved"
      <4>1. InFlightAbout(q)' = {} /\ payment'[q].status = "REJECTED"
        BY <1>4, <1>5, <1>6, <2>5, <3>1, <3>3
      <4> QED
        BY <2>2, <3>1, <4>1 DEF AloneHolds
    <3> QED
      BY <3>2, <3>3
  <2>6. CASE q # p
    <3>1. h \notin InFlightAbout(q) /\ InFlightAbout(q)' = InFlightAbout(q)
          /\ payment'[q] = payment[q]
      BY <1>4, <1>5, <2>3, <2>6
    <3>2. \A g \in InFlightAbout(q) : hook'[g] = hook[g]
      BY <1>5, <2>4, <3>1
    <3> QED
      BY <1>1, <2>1, <2>2, <3>1, <3>2 DEF AloneHolds
  <2> QED
    BY <2>5, <2>6
<1>14. PaidNotificationPublishes'
  <2> SUFFICES ASSUME NEW g \in Hooks, faults = 0, hook'[g] = "done",
                      held[g].status = "approved", FirstAttempt(held[g].charge)',
                      ~Overlapped(PreferenceOf[held[g].charge])'
               PROVE  EventsOf(PreferenceOf[held[g].charge])' # {}
    BY <1>1 DEF PaidNotificationPublishes
  <2> DEFINE q == PreferenceOf[held[g].charge]
  <2>1. g # h
    BY <1>5, <1>6
  <2>2. hook[g] = "done" /\ Notified(g)
    BY <1>5, <2>1 DEF Notified
  <2>3. q \in PaymentIds
    BY <2>2, PreferenceOfIsTotal DEF DeliveriesHold, Delivery
  <2>4. ~Overlapped(q)' /\ FirstAttempt(held[g].charge)
    BY <1>1 DEF Overlapped, FirstAttempt
  <2>5. ~Overlapped(q)
    BY <1>1, <1>5, <2>3, <2>4
  <2>6. EventsOf(q) # {}
    BY <2>2, <2>4, <2>5 DEF PaidNotificationPublishes
  <2> QED
    BY <1>1, <2>6 DEF EventsOf
<1> QED
  BY <1>7, <1>8, <1>9, <1>10, <1>11, <1>12, <1>13, <1>14

\* The event of a delivery is the first of its payment, unless another overlaps.
LEMMA CreateEventKeepsInv ==
  ASSUME PaymentsInv, NEW h \in Hooks, CreateEvent(h)
  PROVE  PaymentsInv'
<1> USE DEF PaymentsInv
<1> DEFINE c == held[h].charge
           p == PreferenceOf[c]
           new == Len(outbox) + 1
<1>1. /\ hook[h] = "creating" /\ InFlight(h) /\ Notified(h)
      /\ payment' = payment /\ saga' = saga /\ draft' = draft /\ charge' = charge
      /\ held' = held /\ faults' = faults /\ HookTo(h, "done")
      /\ createOutboxEvent(createEvent(held[h].id))
  BY DEF CreateEvent, InFlight, Notified, sagaVars, NoFault
<1>2. held[h] \in Delivery /\ c \in Charges /\ p \in PaymentIds /\ held[h].id = p
      /\ NewsHolds(h) /\ held[h].status = "approved" /\ Paid(c)
  BY <1>1, PreferenceOfIsTotal DEF DeliveriesHold, NewsHolds, Delivery
<1>3. /\ outbox' \in Seq(OutboxEvent)
      /\ DOMAIN outbox' = DOMAIN outbox \union {new}
      /\ new \notin DOMAIN outbox
      /\ \A i \in DOMAIN outbox : outbox'[i] = outbox[i]
      /\ outbox'[new].payload.paymentId = p
  BY <1>1, <1>2, NewEvent DEF PaymentsTypeOK, OutboxTypeOK
<1> HIDE DEF new
<1>4. /\ \A q \in PaymentIds : q = p => EventsOf(q)' = EventsOf(q) \union {new}
      /\ \A q \in PaymentIds \ {p} : EventsOf(q)' = EventsOf(q)
  BY <1>3 DEF EventsOf
<1>5. /\ hook'[h] = "done"
      /\ \A g \in Hooks \ {h} : hook'[g] = hook[g]
      /\ \A g \in Hooks : Notified(g)' <=> Notified(g)
      /\ \A q \in PaymentIds :
           /\ Overlapped(q)' <=> Overlapped(q)
           /\ InFlightAbout(q)' = InFlightAbout(q) \ {h}
           /\ \A g \in Hooks : About(g, q)' <=> About(g, q)
  <2>1. held' = [held EXCEPT ![h] = held[h]]
    BY <1>1 DEF PaymentsTypeOK
  <2>2. "done" \in HookControl \ {"idle", "fetched"}
    BY DEF HookControl
  <2> QED
    BY <1>1, <1>2, <2>1, <2>2, DeliveryStays
<1>6. PaymentsTypeOK'
  BY <1>1, <1>3 DEF PaymentsTypeOK, OutboxTypeOK, FaultsTypeOK, HookTo, HookControl
<1>7. SagaOwnsRow' /\ ChargesFollowSaga' /\ RowsNameTheirCharge'
  BY <1>1 DEF SagaOwnsRow, ChargesFollowSaga, RowsNameTheirCharge, Paid
<1>8. DeliveriesHold'
  BY <1>1, <1>5 DEF DeliveriesHold, NewsHolds, EntityHolds, Paid
<1>9. RejectionsHaveCause'
  BY <1>1, <1>5 DEF RejectionsHaveCause
<1>10. EventsArePaid'
  BY <1>1, <1>2, <1>3 DEF EventsArePaid, Paid
<1>11. DeliveriesAlone'
  <2> SUFFICES ASSUME NEW q \in PaymentIds, ~Overlapped(q)' PROVE AloneHolds(q)'
    BY DEF DeliveriesAlone
  <2>1. AloneHolds(q)
    BY <1>5, OneOnItsWay
  <2>2. \A r \in PaymentIds : h \in InFlightAbout(r) <=> r = p
    BY <1>1, <1>2 DEF InFlightAbout
  <2>3. CASE q = p
    <3>1. InFlightAbout(q) = {h} /\ payment[q].status = "APPROVED" /\ EventsOf(q) = {}
      BY <1>1, <2>1, <2>2, <2>3 DEF AloneHolds
    <3>2. InFlightAbout(q)' = {} /\ EventsOf(q)' = {new}
      BY <1>4, <1>5, <2>3, <3>1
    <3> QED
      BY <1>1, <3>1, <3>2 DEF AloneHolds
  <2>4. CASE q # p
    <3>1. h \notin InFlightAbout(q) /\ InFlightAbout(q)' = InFlightAbout(q)
          /\ EventsOf(q)' = EventsOf(q) /\ InFlightAbout(q) \subseteq Hooks
      BY <1>4, <1>5, <2>2, <2>4 DEF InFlightAbout
    <3>2. \A g \in InFlightAbout(q) : hook'[g] = hook[g]
      BY <1>5, <3>1
    <3> QED
      BY <1>1, <2>1, <3>1, <3>2 DEF AloneHolds
  <2> QED
    BY <2>3, <2>4
<1>12. PaidNotificationPublishes'
  <2> SUFFICES ASSUME NEW g \in Hooks, faults = 0, hook'[g] = "done",
                      held[g].status = "approved", FirstAttempt(held[g].charge)',
                      ~Overlapped(PreferenceOf[held[g].charge])'
               PROVE  EventsOf(PreferenceOf[held[g].charge])' # {}
    BY <1>1 DEF PaidNotificationPublishes
  <2> DEFINE q == PreferenceOf[held[g].charge]
  <2>1. Notified(g)
    BY <1>5 DEF Notified
  <2>2. q \in PaymentIds
    BY <2>1, PreferenceOfIsTotal DEF DeliveriesHold, Delivery
  <2>3. ~Overlapped(q)' /\ FirstAttempt(held[g].charge)
    BY <1>1 DEF Overlapped, FirstAttempt
  <2>4. /\ q = p => EventsOf(q)' = EventsOf(q) \union {new}
        /\ q # p => EventsOf(q)' = EventsOf(q)
        /\ ~Overlapped(q)
    BY <1>1, <1>4, <1>5, <2>2, <2>3
  <2>5. CASE q = p
    BY <2>4, <2>5
  <2>6. CASE q # p
    <3>1. g # h
      BY <2>6
    <3> QED
      BY <1>1, <1>5, <2>3, <2>4, <2>6, <3>1 DEF PaidNotificationPublishes
  <2> QED
    BY <2>5, <2>6
<1> QED
  BY <1>6, <1>7, <1>8, <1>9, <1>10, <1>11, <1>12

-----------------------------------------------------------------------------
(***************************************************************************)
(* The specification.                                                      *)
(***************************************************************************)

LEMMA PaymentsInvInit == PaymentsInit /\ OutboxInit /\ FaultsInit => PaymentsInv
<1> SUFFICES ASSUME PaymentsInit /\ OutboxInit /\ FaultsInit PROVE PaymentsInv
  OBVIOUS
<1> USE DEF PaymentsInit, OutboxInit, FaultsInit
<1>1. PaymentsTypeOK
  BY MaxFaultsIsNat DEF PaymentsTypeOK, OutboxTypeOK, FaultsTypeOK, SagaControl, HookControl,
     ChargeStatus
<1>2. SagaOwnsRow /\ ChargesFollowSaga /\ RowsNameTheirCharge /\ RejectionsHaveCause
  BY PreferenceOfIsTotal, SagaEntities
     DEF SagaOwnsRow, ChargesFollowSaga, RowsNameTheirCharge, RejectionsHaveCause
<1>3. \A h \in Hooks : hook[h] = "idle"
  OBVIOUS
<1>4. DeliveriesHold /\ PaidNotificationPublishes
  BY <1>3 DEF DeliveriesHold, Notified, PaidNotificationPublishes
<1>5. DOMAIN outbox = {}
  OBVIOUS
<1>6. \A p \in PaymentIds : EventsOf(p) = {} /\ InFlightAbout(p) = {}
  BY <1>3, <1>5 DEF EventsOf, InFlightAbout, InFlight
<1>7. DeliveriesAlone
  BY <1>6, SagaEntities DEF DeliveriesAlone, AloneHolds
<1>8. EventsArePaid
  BY <1>5 DEF EventsArePaid
<1> QED
  BY <1>1, <1>2, <1>4, <1>7, <1>8 DEF PaymentsInv

LEMMA PaymentsInvNext == PaymentsInv /\ [PaymentsNext]_<<paymentVars, outbox, faults>> => PaymentsInv'
<1> SUFFICES ASSUME PaymentsInv, [PaymentsNext]_<<paymentVars, outbox, faults>> PROVE PaymentsInv'
  OBVIOUS
<1>1. CASE UNCHANGED <<paymentVars, outbox, faults>>
  BY <1>1 DEF PaymentsInv, paymentVars, sagaVars, hookVars, PaymentsTypeOK, OutboxTypeOK, FaultsTypeOK, SagaOwnsRow,
     ChargesFollowSaga, RowsNameTheirCharge, DeliveriesHold, Notified, NewsHolds, EntityHolds,
     Paid, RejectionsHaveCause, About, EventsArePaid, DeliveriesAlone, Overlapped, AloneHolds,
     InFlightAbout, InFlight, EventsOf, PaidNotificationPublishes, FirstAttempt
<1>2. ASSUME NEW p \in PaymentIds,
             \/ RefusePreference(p) \/ CreatePayment(p) \/ SagaStep(p)
             \/ SavePreferenceFails(p) \/ SagaStops(p)
      PROVE  PaymentsInv'
  BY <1>2, SagaKeepsInv
<1>3. ASSUME NEW c \in Charges, Pay(c) \/ Settle(c) PROVE PaymentsInv'
  BY <1>3, ChargeKeepsInv
<1>4. ASSUME NEW h \in Hooks, NEW c \in Charges, Fetch(h, c) PROVE PaymentsInv'
  BY <1>4, FetchKeepsInv
<1>5. ASSUME NEW h \in Hooks, HookStep(h) PROVE PaymentsInv'
  BY <1>5, FindPaymentKeepsInv, SavePaymentKeepsInv, CreateEventKeepsInv DEF HookStep
<1>6. ASSUME NEW h \in Hooks, HookFails(h) PROVE PaymentsInv'
  BY <1>6, HookFailsKeepsInv
<1> QED
  BY <1>1, <1>2, <1>3, <1>4, <1>5, <1>6 DEF PaymentsNext

LEMMA PaymentsInvariant == PaymentsSpec => []PaymentsInv
BY PaymentsInvInit, PaymentsInvNext, PTL DEF PaymentsSpec, PaymentsStart

\* Every variable keeps its type: a delivery only saves an entity it has built
\* from a row, a saga only one it has created.
THEOREM PaymentsTypeCorrect == PaymentsSpec => []PaymentsTypeOK
<1>1. PaymentsInv => PaymentsTypeOK
  BY DEF PaymentsInv
<1> QED
  BY <1>1, PaymentsInvariant, PTL

\* A row says APPROVED only of a charge the provider approved for that very
\* payment, however many deliveries overlap and write stale entities.
THEOREM ApprovalIsPaid == PaymentsSpec => []ApprovedMeansPaid
<1>1. PaymentsInv => ApprovedMeansPaid
  BY DEF PaymentsInv, RowsNameTheirCharge, ApprovedMeansPaid
<1> QED
  BY <1>1, PaymentsInvariant, PTL

\* No charge exists on a payment whose row is missing, still INITIALIZING or
\* rolled back by its saga, whatever fails in between.
THEOREM ChargeableIsPersisted == PaymentsSpec => []ChargeableMeansPersisted
<1>1. PaymentsInv => ChargeableMeansPersisted
  <2> SUFFICES ASSUME PaymentsInv, NEW c \in Charges, charge[c] # "none"
               PROVE  /\ payment[PreferenceOf[c]].status \in {"PENDING", "APPROVED", "REJECTED"}
                      /\ payment[PreferenceOf[c]].status = "REJECTED" =>
                           \E h \in Hooks : Notified(h) /\ held[h].charge \in Charges
                             /\ PreferenceOf[held[h].charge] = PreferenceOf[c]
    BY DEF ChargeableMeansPersisted
  <2>1. PreferenceOf[c] \in PaymentIds /\ saga[PreferenceOf[c]] = "ok"
    BY PreferenceOfIsTotal DEF PaymentsInv, ChargesFollowSaga
  <2>2. payment[PreferenceOf[c]].status \in {"PENDING", "APPROVED", "REJECTED"}
    BY <2>1 DEF PaymentsInv, SagaOwnsRow
  <2>3. ASSUME payment[PreferenceOf[c]].status = "REJECTED"
        PROVE  \E h \in Hooks : About(h, PreferenceOf[c])
    BY <2>1, <2>3 DEF PaymentsInv, RejectionsHaveCause
  <2>4. \A h \in Hooks : Notified(h) => held[h].charge \in Charges
    BY DEF PaymentsInv, DeliveriesHold, Delivery
  <2> QED
    BY <2>2, <2>3, <2>4 DEF About
<1> QED
  BY <1>1, PaymentsInvariant, PTL

\* A payment about which deliveries come one at a time has one event at most,
\* however often the provider notifies it and whatever fails.
THEOREM OneEvent == PaymentsSpec => []OneEventPerPayment
<1>1. PaymentsInv => OneEventPerPayment
  BY DEF PaymentsInv, DeliveriesAlone, AloneHolds, OneEventPerPayment
<1> QED
  BY <1>1, PaymentsInvariant, PTL

\* While nothing has failed, a delivery that saw its charge approved at the
\* first attempt and was served to its end has left the event of the payment.
THEOREM NotificationPublishes == PaymentsSpec => []PaidNotificationPublishes
<1>1. PaymentsInv => PaidNotificationPublishes
  BY DEF PaymentsInv
<1> QED
  BY <1>1, PaymentsInvariant, PTL

\* A payment that is APPROVED or REJECTED is never written again, as long as
\* no two deliveries about it were in flight together.
THEOREM FinalStays == PaymentsSpec => FinalIsFinal
<1> DEFINE Stays == \A p \in PaymentIds :
      payment[p].status \in {"APPROVED", "REJECTED"} /\ ~Overlapped(p) => payment'[p] = payment[p]
<1>1. PaymentsInv /\ [PaymentsNext]_<<paymentVars, outbox, faults>> => [Stays]_<<paymentVars, outbox, faults>>
  <2> SUFFICES ASSUME PaymentsInv, PaymentsNext, NEW p \in PaymentIds,
                      payment[p].status \in {"APPROVED", "REJECTED"}, ~Overlapped(p)
               PROVE  payment'[p] = payment[p]
    OBVIOUS
  <2>1. payment \in [PaymentIds -> Payment \union {NoPayment}]
    BY DEF PaymentsInv, PaymentsTypeOK
  <2>2. CASE UNCHANGED payment
    BY <2>2
  <2>3. ASSUME NEW q \in PaymentIds, CreatePayment(q) \/ SavePreference(q) \/ SaveRollback(q)
        PROVE  payment'[p] = payment[p]
    <3>1. q # p
      BY <2>3, SagaEntities
         DEF PaymentsInv, SagaOwnsRow, CreatePayment, SavePreference, SaveRollback
    <3> QED
      BY <2>1, <2>3, <3>1 DEF CreatePayment, SavePreference, SaveRollback, savePayment
  <2>4. ASSUME NEW h \in Hooks, SavePayment(h)
        PROVE  payment'[p] = payment[p]
    <3>1. /\ hook[h] = "saving" /\ InFlight(h)
          /\ held[h].id = PreferenceOf[held[h].charge]
      BY <2>4 DEF SavePayment, InFlight, Notified, PaymentsInv, DeliveriesHold, NewsHolds
    <3>2. held[h].id # p
      BY <3>1, OneOnItsWay DEF AloneHolds, InFlightAbout
    <3> QED
      BY <2>1, <2>4, <3>2 DEF SavePayment, savePayment
  <2> QED
    BY <2>2, <2>3, <2>4
       DEF PaymentsNext, SagaStep, HookStep, RefusePreference, PreferenceCreated, PreferenceFails,
           SavePreferenceFails, SagaStops, Pay, Settle, Fetch, FindPayment, CreateEvent, HookFails
<1>2. PaymentsSpec => [][Stays]_<<paymentVars, outbox, faults>>
  BY <1>1, PaymentsInvariant, PTL DEF PaymentsSpec, PaymentsStart
<1> QED
  BY <1>2 DEF FinalIsFinal
=============================================================================
