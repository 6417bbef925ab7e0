---------------------------- MODULE OutboxProofs ----------------------------
(***************************************************************************)
(* Proofs about OutboxProcessor, for any pollers, overlapping as they will *)
(* and stopping at any step, any batch size and any budget of faults.      *)
(*                                                                         *)
(* Nothing claims an event for a poller, so what makes the properties      *)
(* inductive is what the copies in memory say: of the events of a batch,   *)
(* and of the subscription a handler is about to save.                     *)
(***************************************************************************)
EXTENDS OutboxProcessor, FiniteSetTheorems, SequenceTheorems, WellFoundedInduction, TLAPS

-----------------------------------------------------------------------------
(***************************************************************************)
(* The invariants.                                                         *)
(***************************************************************************)

\* A row has never been tried, or is processed after one failure at most.
Untried(e) == e.status = "PENDING" /\ e.attempts = 0

Settled(e) == e.status = "PROCESSED" /\ e.attempts \in 0..1

RowsUntriedOrSettled == \A i \in DOMAIN outbox : Untried(outbox[i]) \/ Settled(outbox[i])

\* A poller holds its events as they were before any poller served them, but
\* for the one whose mark was refused.
EntitiesHold ==
  \A w \in Pollers : \A i \in DOMAIN batch[w] :
    IF poller[w] = "remark" /\ i = Current(w)
      THEN Settled(batch[w][i])
      ELSE Untried(batch[w][i])

AttemptsInv == ProcessorTypeOK /\ RowsUntriedOrSettled /\ EntitiesHold

\* The copy a handler is about to save holds its add at most on top of what
\* the saves of its user have added by now.
LoadedHolds(w) ==
  LET u == Content(w).userId IN
  /\ Subscribed(u)
  /\ loaded[w] \in Subscription
  /\ loaded[w].creditsRemaining \in FREE_TIER_CREDITS..(Earned(u) + Content(w).creditsAmount)

LoadedWithinEarned == \A w \in Pollers : poller[w] = "save" => LoadedHolds(w)

BalanceInv == ProcessorTypeOK /\ BalanceWithinEarned /\ LoadedWithinEarned

\* The copy of an event is about the payment the row is about.
CopiesKeepPayload ==
  \A w \in Pollers : \A i \in DOMAIN batch[w] : batch[w][i].payload = outbox[i].payload

\* The events of p that are marked, or whose handler has returned.
Serving(w, i) == poller[w] \in {"record", "mark"} /\ Current(w) = i

Handled(p) ==
  {i \in EventsOf(p) : outbox[i].status = "PROCESSED" \/ \E w \in Pollers : Serving(w, i)}

\* While nothing has failed, a handler returns only after it has saved.
HandledIsCredited ==
  faults = 0 =>
    /\ \A w \in Pollers : poller[w] # "remark"
    /\ \A p \in PaymentIds : Creditable(p) => Cardinality(Handled(p)) <= credited[p]

CreditedInv == BalanceInv /\ CopiesKeepPayload /\ HandledIsCredited

-----------------------------------------------------------------------------
(***************************************************************************)
(* Steps.  The proofs are about the pollers among any steps of others that *)
(* write events, of the webhooks of Payments as of Publish.                *)
(***************************************************************************)

Outside ==
  /\ UNCHANGED processorVars
  /\ faults' \in faults..MaxFaults
  /\ UNCHANGED outbox \/ \E p \in PaymentIds : createOutboxEvent(createEvent(p))

OutboxTurn == ProcessorNext \/ Outside

LEMMA TurnsOfOutbox ==
  ASSUME ProcessorTypeOK, [OutboxNext]_<<processorVars, outbox, faults>>
  PROVE  OutboxTurn
<1>1. faults \in 0..MaxFaults /\ MaxFaults \in Nat
  BY MaxFaultsIsNat DEF ProcessorTypeOK, FaultsTypeOK
<1>2. ASSUME NEW p \in PaymentIds, Publish(p) PROVE Outside
  BY <1>1, <1>2 DEF Outside, Publish, NoFault, processorVars
<1> QED
  BY <1>1, <1>2 DEF OutboxNext, OutboxTurn, Outside

-----------------------------------------------------------------------------
(***************************************************************************)
(* Operators of the model.                                                 *)
(***************************************************************************)

\* A set of numbers that is not empty has a least member, and Min is in it.
LEMMA LeastIsMember ==
  ASSUME NEW S \in SUBSET Nat, S # {}
  PROVE  Min(S) \in S
<1> DEFINE Less == {ss \in Nat \X Nat : ss[1] < ss[2]}
<1>1. IsWellFoundedOn(Less, Nat)
  <2>1. OpToRel(<, Nat) = Less
    BY DEF OpToRel
  <2> QED
    BY <2>1, NatLessThanWellFounded
<1>2. \A x, y \in Nat : y < x => <<y, x>> \in Less
  OBVIOUS
<1> HIDE DEF Less
<1>3. PICK x \in S : \A y \in S : ~ (<<y, x>> \in Less)
  BY <1>1, WFMin
<1>4. ASSUME NEW y \in S PROVE x <= y
  <2>1. x \in Nat /\ y \in Nat
    OBVIOUS
  <2>2. ~ (y < x)
    BY <1>2, <1>3, <2>1
  <2> QED
    BY <2>1, <2>2
<1> QED
  BY <1>3, <1>4 DEF Min

\* What the methods of the entity do to an event.
LEMMA EventEntities ==
  ASSUME NEW e \in OutboxEvent
  PROVE  /\ markProcessed(e) \in OutboxEvent
         /\ markProcessed(e).payload = e.payload
         /\ markProcessed(e).status = "PROCESSED"
         /\ markProcessed(e).attempts = e.attempts
         /\ recordFailure(e) \in OutboxEvent
         /\ recordFailure(e).payload = e.payload
         /\ recordFailure(e).attempts = e.attempts + 1
         /\ recordFailure(e).status = IF e.attempts + 1 < MAX_ATTEMPTS THEN e.status ELSE "FAILED"
<1>1. /\ markProcessed(e) \in OutboxEvent
      /\ markProcessed(e).payload = e.payload
      /\ markProcessed(e).status = "PROCESSED"
      /\ markProcessed(e).attempts = e.attempts
  BY DEF markProcessed, OutboxEvent, OutboxStatus
<1> DEFINE failed == [e EXCEPT !.attempts = @ + 1]
<1>2. /\ failed \in OutboxEvent /\ failed.payload = e.payload
      /\ failed.attempts = e.attempts + 1 /\ failed.status = e.status
  BY DEF OutboxEvent
<1>3. recordFailure(e) =
        [failed EXCEPT !.status = IF failed.attempts < MAX_ATTEMPTS THEN failed.status ELSE "FAILED"]
  BY DEF recordFailure, canRetry
<1> HIDE DEF failed
<1>4. /\ recordFailure(e) \in OutboxEvent
      /\ recordFailure(e).payload = e.payload
      /\ recordFailure(e).attempts = e.attempts + 1
      /\ recordFailure(e).status = IF e.attempts + 1 < MAX_ATTEMPTS THEN e.status ELSE "FAILED"
  BY <1>2, <1>3 DEF OutboxEvent, OutboxStatus
<1> QED
  BY <1>1, <1>4

\* A row is replaced, the others stay.
LEMMA RowIsWritten ==
  ASSUME outbox \in Seq(OutboxEvent), NEW i \in DOMAIN outbox, NEW e \in OutboxEvent,
         updateEvent(i, e)
  PROVE  /\ outbox' \in Seq(OutboxEvent)
         /\ DOMAIN outbox' = DOMAIN outbox
         /\ outbox'[i] = e
         /\ \A k \in DOMAIN outbox \ {i} : outbox'[k] = outbox[k]
BY ExceptSeq DEF updateEvent

\* The event a poller serves is one of its batch and of the table.
LEMMA CurrentIsInBatch ==
  ASSUME ProcessorTypeOK, NEW w \in Pollers, poller[w] # "sleep"
  PROVE  /\ Current(w) \in DOMAIN batch[w]
         /\ Current(w) \in DOMAIN outbox
         /\ batch[w][Current(w)] \in OutboxEvent
         /\ Content(w).paymentId \in PaymentIds
         /\ Content(w) = payload(Content(w).paymentId)
         /\ Content(w).userId \in Users
         /\ Content(w).userId = PayerOf[Content(w).paymentId]
         /\ Content(w).creditsAmount \in Nat
         /\ Content(w).creditsAmount = CreditsOf[Content(w).paymentId]
<1>1. DOMAIN batch[w] \subseteq DOMAIN outbox /\ DOMAIN batch[w] # {}
      /\ batch[w] \in [DOMAIN batch[w] -> OutboxEvent]
  BY DEF ProcessorTypeOK, IsBatch
<1>2. DOMAIN outbox \subseteq Nat
  BY DEF ProcessorTypeOK, OutboxTypeOK
<1>3. Current(w) \in DOMAIN batch[w]
  BY <1>1, <1>2, LeastIsMember DEF Current
<1>4. batch[w][Current(w)] \in OutboxEvent
  BY <1>1, <1>3
<1>5. PICK p \in PaymentIds : Content(w) = payload(p)
  BY <1>4 DEF Content, OutboxEvent
<1>6. Content(w).paymentId = p
  BY <1>5 DEF payload
<1> QED
  BY <1>1, <1>3, <1>4, <1>5, <1>6, PayerOfIsTotal, CreditsOfIsTotal DEF payload

\* The batch that is left lacks the event just served, and nothing else.
LEMMA AdvanceLeaves ==
  ASSUME ProcessorTypeOK, NEW w \in Pollers, poller[w] # "sleep", Advance(w)
  PROVE  /\ DOMAIN batch' = Pollers
         /\ DOMAIN batch'[w] = DOMAIN batch[w] \ {Current(w)}
         /\ \A i \in DOMAIN batch'[w] : batch'[w][i] = batch[w][i]
         /\ batch'[w] \in [DOMAIN batch'[w] -> OutboxEvent]
         /\ poller'[w] = IF DOMAIN batch'[w] = {} THEN "sleep" ELSE "check"
         /\ \A v \in Pollers \ {w} : batch'[v] = batch[v] /\ poller'[v] = poller[v]
<1>1. batch' = [batch EXCEPT ![w] = Restrict(batch[w], Left(w))]
      /\ poller' = [poller EXCEPT ![w] = IF Left(w) = {} THEN "sleep" ELSE "check"]
  BY DEF Advance, PollerTo
<1>2. batch[w] \in [DOMAIN batch[w] -> OutboxEvent]
  BY DEF ProcessorTypeOK, IsBatch
<1>3. batch'[w] = [i \in Left(w) |-> batch[w][i]]
  BY <1>1 DEF ProcessorTypeOK, Restrict
<1>4. DOMAIN batch'[w] = Left(w) /\ \A i \in Left(w) : batch'[w][i] = batch[w][i]
  BY <1>3
<1>5. batch'[w] \in [Left(w) -> OutboxEvent]
  BY <1>2, <1>3 DEF Left
<1> QED
  BY <1>1, <1>4, <1>5 DEF ProcessorTypeOK, Left

\* What a poll reads: rows of the table, not none of them.
LEMMA PollReads ==
  ASSUME ProcessorTypeOK, NEW w \in Pollers, Poll(w)
  PROVE  /\ DOMAIN batch' = Pollers
         /\ DOMAIN batch'[w] = oldestPending(BATCH_SIZE)
         /\ DOMAIN batch'[w] \subseteq DOMAIN outbox /\ DOMAIN batch'[w] # {}
         /\ \A i \in DOMAIN batch'[w] : batch'[w][i] = outbox[i] /\ IsPending(i)
         /\ batch'[w] \in [DOMAIN batch'[w] -> OutboxEvent]
         /\ poller'[w] = "check"
         /\ \A v \in Pollers \ {w} : batch'[v] = batch[v] /\ poller'[v] = poller[v]
<1> DEFINE ids == oldestPending(BATCH_SIZE)
<1>1. ids # {} /\ ids \subseteq DOMAIN outbox /\ \A i \in ids : IsPending(i)
  BY DEF Poll, oldestPending
<1>2. \A i \in ids : outbox[i] \in OutboxEvent
  BY <1>1 DEF ProcessorTypeOK, OutboxTypeOK
<1> HIDE DEF ids
<1>3. batch' = [batch EXCEPT ![w] = [i \in ids |-> outbox[i]]]
      /\ poller' = [poller EXCEPT ![w] = "check"]
  BY DEF Poll, PollerTo, findPending, ids
<1>4. batch'[w] = [i \in ids |-> outbox[i]] /\ DOMAIN batch' = Pollers /\ poller'[w] = "check"
      /\ \A v \in Pollers \ {w} : batch'[v] = batch[v] /\ poller'[v] = poller[v]
  BY <1>3 DEF ProcessorTypeOK
<1> QED
  BY <1>1, <1>2, <1>4 DEF ids

-----------------------------------------------------------------------------
(***************************************************************************)
(* Type correctness.                                                       *)
(***************************************************************************)

LEMMA ProcessorTypeInit == ProcessorInit /\ OutboxInit /\ FaultsInit => ProcessorTypeOK
<1> SUFFICES ASSUME ProcessorInit /\ OutboxInit /\ FaultsInit PROVE ProcessorTypeOK
  OBVIOUS
<1>1. OutboxTypeOK /\ FaultsTypeOK
  BY MaxFaultsIsNat DEF OutboxInit, FaultsInit, OutboxTypeOK, FaultsTypeOK
<1>2. SubscriptionTypeOK
  <2>1. createFree \in Subscription
    BY FreeTierIsNat DEF createFree, Subscription, SubscriptionStatus
  <2> QED
    BY <2>1 DEF ProcessorInit, SubscriptionInit, SubscriptionTypeOK
<1>3. DOMAIN NoBatch = {} /\ NoBatch \in [{} -> OutboxEvent]
  BY DEF NoBatch
<1>4. \A w \in Pollers : IsBatch(batch[w]) /\ poller[w] = "sleep" /\ DOMAIN batch[w] = {}
  BY <1>3 DEF ProcessorInit, IsBatch
<1> QED
  BY <1>1, <1>2, <1>4 DEF ProcessorTypeOK, ProcessorInit, PollerControl

\* A poller moves with the batch it has, and touches no row.
LEMMA PollerMoves ==
  ASSUME ProcessorTypeOK, NEW w \in Pollers, poller[w] # "sleep",
         NEW label \in PollerControl \ {"sleep"}, PollerTo(w, label),
         UNCHANGED <<outbox, batch>>, FaultsTypeOK', SubscriptionTypeOK',
         loaded' \in [Pollers -> Subscription \union {NoSubscription}],
         credited' \in [PaymentIds -> Nat], earned' \in [Users -> Nat]
  PROVE  ProcessorTypeOK' /\ poller'[w] = label /\ \A v \in Pollers \ {w} : poller'[v] = poller[v]
<1>1. poller' \in [Pollers -> PollerControl] /\ poller'[w] = label
      /\ \A v \in Pollers \ {w} : poller'[v] = poller[v]
  BY DEF ProcessorTypeOK, PollerTo
<1>2. \A v \in Pollers :
        IsBatch(batch[v])' /\ (poller'[v] = "sleep" <=> DOMAIN batch'[v] = {})
  BY <1>1 DEF ProcessorTypeOK, IsBatch
<1> QED
  BY <1>1, <1>2 DEF ProcessorTypeOK, OutboxTypeOK

LEMMA ProcessorTypeNext == ProcessorTypeOK /\ OutboxTurn => ProcessorTypeOK'
<1> SUFFICES ASSUME ProcessorTypeOK, OutboxTurn PROVE ProcessorTypeOK'
  OBVIOUS
<1>0. /\ OutboxTypeOK /\ FaultsTypeOK /\ SubscriptionTypeOK
      /\ loaded \in [Pollers -> Subscription \union {NoSubscription}]
      /\ credited \in [PaymentIds -> Nat] /\ earned \in [Users -> Nat]
      /\ NoFault \/ Fault \/ Outside => FaultsTypeOK'
  BY MaxFaultsIsNat DEF ProcessorTypeOK, NoFault, Fault, Outside, FaultsTypeOK
<1>1. CASE Outside /\ UNCHANGED outbox
  BY <1>0, <1>1 DEF Outside, ProcessorTypeOK, processorVars, pollerVars, history, OutboxTypeOK,
     SubscriptionTypeOK, IsBatch
<1>2. ASSUME NEW w \in Pollers, Poll(w) PROVE ProcessorTypeOK'
  <2>1. UNCHANGED <<outbox, subscription, loaded, credited, earned>> /\ FaultsTypeOK'
    BY <1>0, <1>2 DEF Poll, history
  <2>2. \A v \in Pollers :
          IsBatch(batch[v])' /\ (poller'[v] = "sleep" <=> DOMAIN batch'[v] = {})
    BY <1>2, <2>1, PollReads DEF ProcessorTypeOK, IsBatch
  <2>3. poller' \in [Pollers -> PollerControl] /\ DOMAIN batch' = Pollers
    BY <1>2, PollReads DEF ProcessorTypeOK, Poll, PollerTo, PollerControl
  <2> QED
    BY <1>0, <2>1, <2>2, <2>3 DEF ProcessorTypeOK, OutboxTypeOK, SubscriptionTypeOK
<1>3. ASSUME NEW w \in Pollers, MarkProcessed(w) \/ Remark(w) PROVE ProcessorTypeOK'
  <2>1. UNCHANGED <<subscription, loaded, credited, earned>> /\ FaultsTypeOK'
        /\ poller[w] # "sleep" /\ Advance(w)
    BY <1>0, <1>3 DEF MarkProcessed, Remark, history
  <2>2. PICK e \in OutboxEvent : updateEvent(Current(w), e)
    BY <1>3, <2>1, CurrentIsInBatch, EventEntities DEF MarkProcessed, Remark
  <2>3. OutboxTypeOK' /\ DOMAIN outbox' = DOMAIN outbox
    BY <1>0, <2>1, <2>2, CurrentIsInBatch, RowIsWritten DEF OutboxTypeOK
  <2>4. \A v \in Pollers :
          IsBatch(batch[v])' /\ (poller'[v] = "sleep" <=> DOMAIN batch'[v] = {})
    BY <2>1, <2>3, AdvanceLeaves DEF ProcessorTypeOK, IsBatch
  <2>5. poller' \in [Pollers -> PollerControl] /\ DOMAIN batch' = Pollers
    BY <2>1, AdvanceLeaves DEF ProcessorTypeOK, Advance, PollerTo, PollerControl
  <2> QED
    BY <1>0, <2>1, <2>3, <2>4, <2>5 DEF ProcessorTypeOK, SubscriptionTypeOK
<1>4. ASSUME NEW w \in Pollers, MarkFails(w) PROVE ProcessorTypeOK'
  <2> DEFINE e == recordFailure(markProcessed(batch[w][Current(w)]))
  <2>1. /\ poller[w] = "mark" /\ UNCHANGED <<outbox, subscription, loaded, credited, earned>>
        /\ batch' = [batch EXCEPT ![w] = [batch[w] EXCEPT ![Current(w)] = e]]
        /\ poller' = [poller EXCEPT ![w] = "remark"] /\ FaultsTypeOK'
    BY <1>0, <1>4 DEF MarkFails, PollerTo, history
  <2>2. e \in OutboxEvent /\ Current(w) \in DOMAIN batch[w]
    BY <2>1, CurrentIsInBatch, EventEntities
  <2> HIDE DEF e
  <2>3. batch'[w] = [batch[w] EXCEPT ![Current(w)] = e] /\ DOMAIN batch' = Pollers
        /\ \A v \in Pollers \ {w} : batch'[v] = batch[v]
    BY <2>1 DEF ProcessorTypeOK
  <2>4. IsBatch(batch[w])' /\ DOMAIN batch'[w] = DOMAIN batch[w]
    BY <2>1, <2>2, <2>3 DEF ProcessorTypeOK, IsBatch
  <2>5. \A v \in Pollers :
          IsBatch(batch[v])' /\ (poller'[v] = "sleep" <=> DOMAIN batch'[v] = {})
    BY <2>1, <2>3, <2>4 DEF ProcessorTypeOK, IsBatch
  <2>6. poller' \in [Pollers -> PollerControl]
    BY <2>1 DEF ProcessorTypeOK, PollerControl
  <2> QED
    BY <1>0, <2>1, <2>3, <2>5, <2>6 DEF ProcessorTypeOK, OutboxTypeOK, SubscriptionTypeOK
<1>5. ASSUME NEW w \in Pollers, Stop(w) PROVE ProcessorTypeOK'
  <2>1. /\ UNCHANGED <<outbox, subscription, loaded, credited, earned>>
        /\ batch' = [batch EXCEPT ![w] = NoBatch]
        /\ poller' = [poller EXCEPT ![w] = "sleep"] /\ FaultsTypeOK'
    BY <1>0, <1>5 DEF Stop, PollerTo, history
  <2>2. DOMAIN NoBatch = {} /\ NoBatch \in [{} -> OutboxEvent]
    BY DEF NoBatch
  <2>3. \A v \in Pollers :
          IsBatch(batch[v])' /\ (poller'[v] = "sleep" <=> DOMAIN batch'[v] = {})
    BY <2>1, <2>2 DEF ProcessorTypeOK, IsBatch
  <2>4. poller' \in [Pollers -> PollerControl] /\ DOMAIN batch' = Pollers
    BY <2>1 DEF ProcessorTypeOK, PollerControl
  <2> QED
    BY <1>0, <2>1, <2>3, <2>4 DEF ProcessorTypeOK, OutboxTypeOK, SubscriptionTypeOK
<1>6. ASSUME NEW w \in Pollers, CheckProcessed(w) \/ RecordProcessed(w) \/ HandlerFails(w)
      PROVE  ProcessorTypeOK'
  <2>1. /\ poller[w] # "sleep"
        /\ UNCHANGED <<outbox, batch, subscription, loaded, credited, earned>> /\ FaultsTypeOK'
        /\ SubscriptionTypeOK'
    BY <1>0, <1>6 DEF CheckProcessed, RecordProcessed, HandlerFails, history, SubscriptionTypeOK
  <2>2. PollerTo(w, "load") \/ PollerTo(w, "mark")
    BY <1>6 DEF CheckProcessed, RecordProcessed, HandlerFails
  <2> QED
    BY <1>0, <2>1, <2>2, PollerMoves DEF PollerControl
<1>7. ASSUME NEW w \in Pollers, LoadSubscription(w) PROVE ProcessorTypeOK'
  <2> DEFINE s == findByUserId(Content(w).userId)
  <2>1. /\ poller[w] = "load" /\ FaultsTypeOK'
        /\ UNCHANGED <<outbox, batch, subscription, credited, earned>> /\ SubscriptionTypeOK'
    BY <1>0, <1>7 DEF LoadSubscription, history, SubscriptionTypeOK
  <2>2. CASE s = NoSubscription
    BY <1>0, <1>7, <2>1, <2>2, PollerMoves DEF LoadSubscription, PollerControl
  <2>3. CASE s # NoSubscription
    <3>1. s \in Subscription /\ Content(w).creditsAmount \in Nat
      BY <1>0, <2>1, <2>3, CurrentIsInBatch DEF findByUserId, SubscriptionTypeOK
    <3>2. addCredits(s, Content(w).creditsAmount) \in Subscription
      BY <3>1 DEF addCredits, Subscription
    <3>3. loaded' = [loaded EXCEPT ![w] = addCredits(s, Content(w).creditsAmount)]
          /\ PollerTo(w, "save")
      BY <1>7, <2>3 DEF LoadSubscription
    <3>4. loaded' \in [Pollers -> Subscription \union {NoSubscription}]
      BY <1>0, <3>2, <3>3
    <3> QED
      BY <1>0, <2>1, <3>3, <3>4, PollerMoves DEF PollerControl
  <2> QED
    BY <2>2, <2>3
<1>8. ASSUME NEW w \in Pollers, SaveCredits(w) PROVE ProcessorTypeOK'
  <2>1. /\ poller[w] = "save" /\ FaultsTypeOK' /\ UNCHANGED <<outbox, batch, loaded>>
        /\ subscription' = [subscription EXCEPT ![Content(w).userId] = loaded[w]]
        /\ PollerTo(w, "record")
    BY <1>0, <1>8 DEF SaveCredits, saveSubscription
  <2>2. PICK p \in PaymentIds, u \in Users, n \in Nat :
          /\ credited' = [credited EXCEPT ![p] = credited[p] + 1]
          /\ earned' = [earned EXCEPT ![u] = earned[u] + n]
    BY <1>8, <2>1, CurrentIsInBatch DEF SaveCredits
  <2>3. SubscriptionTypeOK'
    BY <1>0, <2>1 DEF SubscriptionTypeOK
  <2>4. credited' \in [PaymentIds -> Nat]
    BY <1>0, <2>2
  <2>5. earned' \in [Users -> Nat]
    BY <1>0, <2>2
  <2> QED
    BY <1>0, <2>1, <2>3, <2>4, <2>5, PollerMoves DEF PollerControl
<1>9. ASSUME Outside, NEW p \in PaymentIds, createOutboxEvent(createEvent(p)) PROVE ProcessorTypeOK'
  <2>1. /\ UNCHANGED <<subscription, poller, batch, loaded, credited, earned>> /\ FaultsTypeOK'
        /\ outbox' = Append(outbox, createEvent(p))
    BY <1>0, <1>9 DEF Outside, createOutboxEvent, processorVars, pollerVars, history
  <2>2. createEvent(p) \in OutboxEvent
    BY DEF createEvent, OutboxEvent, OutboxStatus
  <2>3. OutboxTypeOK' /\ DOMAIN outbox \subseteq DOMAIN outbox'
    BY <1>0, <2>1, <2>2 DEF OutboxTypeOK
  <2> QED
    BY <1>0, <2>1, <2>3 DEF ProcessorTypeOK, SubscriptionTypeOK, IsBatch
<1> QED
  BY <1>1, <1>2, <1>3, <1>4, <1>5, <1>6, <1>7, <1>8, <1>9
     DEF OutboxTurn, Outside, ProcessorNext, PollerStep, PollerFault, HandlerStep

\* Every variable keeps its type: a poller serves an event of its batch while
\* it has one, and writes back an event and a subscription.
THEOREM OutboxTypeCorrect == OutboxSpec => []ProcessorTypeOK
BY ProcessorTypeInit, ProcessorTypeNext, TurnsOfOutbox, PTL DEF OutboxSpec, OutboxStart

-----------------------------------------------------------------------------
(***************************************************************************)
(* Attempts and the mark.                                                  *)
(***************************************************************************)

LEMMA AttemptsInit == ProcessorInit /\ OutboxInit /\ FaultsInit => AttemptsInv
<1> SUFFICES ASSUME ProcessorInit /\ OutboxInit /\ FaultsInit PROVE AttemptsInv
  OBVIOUS
<1>1. DOMAIN outbox = {} /\ \A w \in Pollers : batch[w] = NoBatch
  BY DEF OutboxInit, ProcessorInit
<1>2. DOMAIN NoBatch = {}
  BY DEF NoBatch
<1> QED
  BY <1>1, <1>2, ProcessorTypeInit DEF AttemptsInv, RowsUntriedOrSettled, EntitiesHold

\* What a step writes over a row says PROCESSED, whatever the row says by then.
LEMMA WritesAreSettled ==
  ASSUME AttemptsInv, NEW w \in Pollers, MarkProcessed(w) \/ Remark(w)
  PROVE  \E e \in OutboxEvent : Settled(e) /\ updateEvent(Current(w), e)
<1>1. /\ poller[w] # "sleep" /\ ProcessorTypeOK
      /\ Current(w) \in DOMAIN batch[w] /\ batch[w][Current(w)] \in OutboxEvent
  BY CurrentIsInBatch DEF AttemptsInv, MarkProcessed, Remark
<1>2. CASE MarkProcessed(w)
  <2>1. Untried(batch[w][Current(w)]) /\ updateEvent(Current(w), markProcessed(batch[w][Current(w)]))
    BY <1>1, <1>2 DEF MarkProcessed, AttemptsInv, EntitiesHold
  <2>2. /\ markProcessed(batch[w][Current(w)]) \in OutboxEvent
        /\ Settled(markProcessed(batch[w][Current(w)]))
    BY <1>1, <2>1, EventEntities DEF Untried, Settled
  <2> QED
    BY <2>1, <2>2
<1>3. CASE Remark(w)
  BY <1>1, <1>3 DEF Remark, AttemptsInv, EntitiesHold
<1> QED
  BY <1>2, <1>3

LEMMA AttemptsNext ==
  ASSUME MAX_ATTEMPTS > 1, AttemptsInv, OutboxTurn
  PROVE  AttemptsInv'
<1>0. ProcessorTypeOK /\ ProcessorTypeOK' /\ RowsUntriedOrSettled /\ EntitiesHold /\ outbox \in Seq(OutboxEvent)
  BY ProcessorTypeNext DEF AttemptsInv, ProcessorTypeOK, OutboxTypeOK
<1>1. CASE Outside /\ UNCHANGED outbox
  BY <1>0, <1>1 DEF Outside, AttemptsInv, RowsUntriedOrSettled, EntitiesHold, processorVars, pollerVars, Current
<1>2. ASSUME NEW w \in Pollers, Poll(w) PROVE AttemptsInv'
  <2>1. outbox' = outbox
    BY <1>2 DEF Poll
  <2>2. \A i \in DOMAIN batch'[w] : Untried(batch'[w][i])
    BY <1>0, <1>2, PollReads DEF RowsUntriedOrSettled, IsPending, Settled
  <2> QED
    BY <1>0, <1>2, <2>1, <2>2, PollReads DEF AttemptsInv, RowsUntriedOrSettled, EntitiesHold, Current
<1>3. ASSUME NEW w \in Pollers, MarkProcessed(w) \/ Remark(w) PROVE AttemptsInv'
  <2>1. poller[w] # "sleep" /\ Advance(w)
    BY <1>3 DEF MarkProcessed, Remark
  <2>2. PICK e \in OutboxEvent : Settled(e) /\ updateEvent(Current(w), e)
    BY <1>3, WritesAreSettled
  <2>3. /\ DOMAIN outbox' = DOMAIN outbox /\ outbox'[Current(w)] = e
        /\ \A k \in DOMAIN outbox \ {Current(w)} : outbox'[k] = outbox[k]
    BY <1>0, <2>1, <2>2, CurrentIsInBatch, RowIsWritten
  <2>4. RowsUntriedOrSettled'
    BY <1>0, <2>2, <2>3 DEF RowsUntriedOrSettled
  <2>5. EntitiesHold'
    BY <1>0, <2>1, AdvanceLeaves DEF EntitiesHold, Current
  <2> QED
    BY <1>0, <2>4, <2>5 DEF AttemptsInv
<1>4. ASSUME NEW w \in Pollers, MarkFails(w) PROVE AttemptsInv'
  <2> DEFINE e == recordFailure(markProcessed(batch[w][Current(w)]))
  <2>1. /\ poller[w] = "mark" /\ outbox' = outbox
        /\ batch' = [batch EXCEPT ![w] = [batch[w] EXCEPT ![Current(w)] = e]]
        /\ poller' = [poller EXCEPT ![w] = "remark"]
    BY <1>4 DEF MarkFails, PollerTo
  <2>2. Untried(batch[w][Current(w)]) /\ Current(w) \in DOMAIN batch[w]
    BY <1>0, <2>1, CurrentIsInBatch DEF EntitiesHold
  <2>3. Settled(e)
    BY <1>0, <2>1, <2>2, CurrentIsInBatch, EventEntities DEF Untried, Settled
  <2> HIDE DEF e
  <2>4. batch'[w] = [batch[w] EXCEPT ![Current(w)] = e] /\ poller'[w] = "remark"
        /\ \A v \in Pollers \ {w} : batch'[v] = batch[v] /\ poller'[v] = poller[v]
    BY <1>0, <2>1 DEF ProcessorTypeOK
  <2>5. /\ DOMAIN batch'[w] = DOMAIN batch[w] /\ batch'[w][Current(w)] = e
        /\ \A i \in DOMAIN batch[w] \ {Current(w)} : batch'[w][i] = batch[w][i]
    BY <1>0, <2>2, <2>4 DEF ProcessorTypeOK, IsBatch
  <2>6. Current(w)' = Current(w)
    BY <2>5 DEF Current
  <2>7. \A i \in DOMAIN batch'[w] :
          IF i = Current(w) THEN Settled(batch'[w][i]) ELSE Untried(batch'[w][i])
    BY <1>0, <2>1, <2>3, <2>5 DEF EntitiesHold
  <2>8. \A v \in Pollers \ {w} : Current(v)' = Current(v)
    BY <2>4 DEF Current
  <2> QED
    BY <1>0, <2>1, <2>4, <2>6, <2>7, <2>8 DEF AttemptsInv, RowsUntriedOrSettled, EntitiesHold
<1>5. ASSUME NEW w \in Pollers, Stop(w) PROVE AttemptsInv'
  <2>1. /\ outbox' = outbox
        /\ batch' = [batch EXCEPT ![w] = NoBatch] /\ poller' = [poller EXCEPT ![w] = "sleep"]
    BY <1>5 DEF Stop, PollerTo
  <2>2. DOMAIN batch'[w] = {}
        /\ \A v \in Pollers \ {w} : batch'[v] = batch[v] /\ poller'[v] = poller[v]
    BY <1>0, <2>1 DEF ProcessorTypeOK, NoBatch
  <2> QED
    BY <1>0, <2>1, <2>2 DEF AttemptsInv, RowsUntriedOrSettled, EntitiesHold, Current
<1>6. ASSUME NEW w \in Pollers, HandlerStep(w) \/ HandlerFails(w) PROVE AttemptsInv'
  <2>1. outbox' = outbox /\ batch' = batch /\ poller[w] # "remark"
    BY <1>6 DEF HandlerStep, CheckProcessed, LoadSubscription, SaveCredits, RecordProcessed,
       HandlerFails
  <2>2. PICK label \in {"load", "save", "record", "mark"} : poller' = [poller EXCEPT ![w] = label]
    BY <1>6 DEF HandlerStep, CheckProcessed, LoadSubscription, SaveCredits, RecordProcessed,
       HandlerFails, PollerTo
  <2>3. \A v \in Pollers : poller'[v] = "remark" <=> poller[v] = "remark"
    BY <1>0, <2>1, <2>2 DEF ProcessorTypeOK
  <2> QED
    BY <1>0, <2>1, <2>3 DEF AttemptsInv, RowsUntriedOrSettled, EntitiesHold, Current
<1>7. ASSUME Outside, NEW p \in PaymentIds, createOutboxEvent(createEvent(p)) PROVE AttemptsInv'
  <2>1. outbox' = Append(outbox, createEvent(p)) /\ batch' = batch /\ poller' = poller
    BY <1>7 DEF Outside, createOutboxEvent, processorVars, pollerVars
  <2>2. createEvent(p) \in OutboxEvent /\ Untried(createEvent(p))
    BY DEF createEvent, OutboxEvent, OutboxStatus, Untried
  <2>3. RowsUntriedOrSettled'
    BY <1>0, <2>1, <2>2 DEF RowsUntriedOrSettled
  <2> QED
    BY <1>0, <2>1, <2>3 DEF AttemptsInv, EntitiesHold, Current
<1> QED
  BY <1>1, <1>2, <1>3, <1>4, <1>5, <1>6, <1>7
     DEF OutboxTurn, Outside, ProcessorNext, PollerStep, PollerFault

LEMMA AttemptsInvariant == ASSUME MAX_ATTEMPTS > 1 PROVE OutboxSpec => []AttemptsInv
<1>1. AttemptsInv /\ [OutboxNext]_<<processorVars, outbox, faults>> => AttemptsInv'
  BY AttemptsNext, TurnsOfOutbox DEF AttemptsInv
<1> QED
  BY <1>1, AttemptsInit, PTL DEF OutboxSpec, OutboxStart

\* An event that may be tried more than once is never dead-lettered, nor tried
\* twice, whatever the handler throws and the updates refuse.
THEOREM RetriesAreNeverSpent ==
  ASSUME MAX_ATTEMPTS > 1
  PROVE  OutboxSpec => []NeverDeadLettered
<1>1. AttemptsInv => NeverDeadLettered
  BY DEF AttemptsInv, RowsUntriedOrSettled, Untried, Settled, NeverDeadLettered
<1> QED
  BY <1>1, AttemptsInvariant, PTL

\* What another poller writes over a processed row later, however old, says
\* PROCESSED too.
LEMMA MarksStay ==
  ASSUME AttemptsInv, OutboxTurn, NEW i \in DOMAIN outbox, outbox[i].status = "PROCESSED"
  PROVE  outbox'[i].status = "PROCESSED"
<1>0. ProcessorTypeOK /\ outbox \in Seq(OutboxEvent)
  BY DEF AttemptsInv, ProcessorTypeOK, OutboxTypeOK
<1>1. CASE outbox' = outbox
  BY <1>1
<1>2. ASSUME NEW w \in Pollers, MarkProcessed(w) \/ Remark(w)
      PROVE  outbox'[i].status = "PROCESSED"
  <2>1. PICK e \in OutboxEvent : Settled(e) /\ updateEvent(Current(w), e)
    BY <1>2, WritesAreSettled
  <2>2. Current(w) \in DOMAIN outbox
    BY <1>0, <1>2, CurrentIsInBatch DEF MarkProcessed, Remark
  <2> QED
    BY <1>0, <2>1, <2>2, RowIsWritten DEF Settled
<1>3. ASSUME NEW p \in PaymentIds, createOutboxEvent(createEvent(p))
      PROVE  outbox'[i].status = "PROCESSED"
  <2>1. createEvent(p) \in OutboxEvent /\ outbox' = Append(outbox, createEvent(p))
    BY <1>3 DEF createOutboxEvent, createEvent, OutboxEvent, OutboxStatus
  <2> QED
    BY <1>0, <2>1
<1> QED
  BY <1>1, <1>2, <1>3
     DEF OutboxTurn, Outside, ProcessorNext, PollerStep, PollerFault, HandlerStep, Poll,
         CheckProcessed, LoadSubscription, SaveCredits, RecordProcessed, HandlerFails, MarkFails, Stop

\* A row that says PROCESSED says so for ever.
THEOREM ProcessedStays ==
  ASSUME MAX_ATTEMPTS > 1
  PROVE  OutboxSpec => ProcessedIsFinal
<1> DEFINE Stays == \A i \in DOMAIN outbox :
      outbox[i].status = "PROCESSED" => outbox'[i].status = "PROCESSED"
<1>1. AttemptsInv /\ [OutboxNext]_<<processorVars, outbox, faults>> => [Stays]_<<processorVars, outbox, faults>>
  BY MarksStay, TurnsOfOutbox DEF AttemptsInv
<1>2. OutboxSpec => [][Stays]_<<processorVars, outbox, faults>>
  BY <1>1, AttemptsInvariant, PTL DEF OutboxSpec, OutboxStart
<1> QED
  BY <1>2 DEF ProcessedIsFinal

-----------------------------------------------------------------------------
(***************************************************************************)
(* Balances.                                                               *)
(***************************************************************************)

\* A step of a poller leaves the others where they are, with what they hold.
LEMMA OthersStay ==
  ASSUME ProcessorTypeOK, NEW w \in Pollers, PollerStep(w) \/ PollerFault(w), NEW v \in Pollers \ {w}
  PROVE  /\ poller'[v] = poller[v] /\ batch'[v] = batch[v] /\ loaded'[v] = loaded[v]
         /\ Current(v)' = Current(v) /\ Content(v)' = Content(v)
<1>1. \E label \in PollerControl : poller' = [poller EXCEPT ![w] = label]
  BY DEF PollerStep, PollerFault, HandlerStep, Poll, MarkProcessed, Remark, Advance, CheckProcessed,
     LoadSubscription, SaveCredits, RecordProcessed, HandlerFails, MarkFails, Stop, PollerTo,
     PollerControl
<1>2. batch'[v] = batch[v]
  <2>1. CASE UNCHANGED batch
    BY <2>1
  <2>2. ASSUME NEW b, batch' = [batch EXCEPT ![w] = b] PROVE batch'[v] = batch[v]
    BY <2>2 DEF ProcessorTypeOK
  <2> QED
    BY <2>1, <2>2 DEF PollerStep, PollerFault, HandlerStep, Poll, MarkProcessed, Remark, Advance,
       CheckProcessed, LoadSubscription, SaveCredits, RecordProcessed, HandlerFails, MarkFails, Stop
<1>3. \E s : loaded' = [loaded EXCEPT ![w] = s]
  <2>1. CASE UNCHANGED loaded
    <3>1. loaded' = [loaded EXCEPT ![w] = loaded[w]]
      BY <2>1 DEF ProcessorTypeOK
    <3> QED
      BY <3>1
  <2> QED
    BY <2>1 DEF PollerStep, PollerFault, HandlerStep, Poll, MarkProcessed, Remark,
       CheckProcessed, LoadSubscription, SaveCredits, RecordProcessed, HandlerFails, MarkFails, Stop
<1>4. poller'[v] = poller[v] /\ batch'[v] = batch[v] /\ loaded'[v] = loaded[v]
  BY <1>1, <1>2, <1>3 DEF ProcessorTypeOK
<1> QED
  BY <1>4 DEF Current, Content

LEMMA BalanceInit == ProcessorInit /\ OutboxInit /\ FaultsInit => BalanceInv
<1> SUFFICES ASSUME ProcessorInit /\ OutboxInit /\ FaultsInit PROVE BalanceInv
  OBVIOUS
<1>1. /\ \A w \in Pollers : poller[w] = "sleep"
      /\ \A u \in Users : earned[u] = 0 /\ subscription[u] \in {NoSubscription, createFree}
  BY DEF ProcessorInit, SubscriptionInit
<1>2. createFree.creditsRemaining = FREE_TIER_CREDITS
  BY DEF createFree
<1> QED
  BY <1>1, <1>2, ProcessorTypeInit, FreeTierIsNat
     DEF BalanceInv, LoadedWithinEarned, BalanceWithinEarned, Subscribed, Earned

\* Only a handler's save changes a balance: any other step of a poller keeps
\* the invariant, if the entity it loads is right.
LEMMA BalanceKept ==
  ASSUME BalanceInv, ProcessorTypeOK', NEW w \in Pollers, PollerStep(w) \/ PollerFault(w),
         UNCHANGED <<subscription, earned>>,
         poller'[w] = "save" => LoadedHolds(w)'
  PROVE  BalanceInv'
<1> USE DEF BalanceInv
<1>1. BalanceWithinEarned'
  BY DEF BalanceWithinEarned, Subscribed, Earned
<1>2. ASSUME NEW v \in Pollers, poller'[v] = "save" PROVE LoadedHolds(v)'
  <2>1. CASE v = w
    BY <1>2, <2>1
  <2>2. CASE v # w
    <3>1. /\ poller'[v] = poller[v] /\ loaded'[v] = loaded[v] /\ Content(v)' = Content(v)
      BY <2>2, OthersStay
    <3>2. LoadedHolds(v)
      BY <1>2, <3>1 DEF LoadedWithinEarned
    <3> QED
      BY <3>1, <3>2 DEF LoadedHolds, Subscribed, Earned
  <2> QED
    BY <2>1, <2>2
<1> QED
  BY <1>1, <1>2 DEF LoadedWithinEarned

LEMMA BalanceNext == BalanceInv /\ OutboxTurn => BalanceInv'
<1> SUFFICES ASSUME BalanceInv, OutboxTurn PROVE BalanceInv'
  OBVIOUS
<1>0. ProcessorTypeOK /\ ProcessorTypeOK' /\ SubscriptionTypeOK /\ BalanceWithinEarned /\ LoadedWithinEarned
      /\ earned \in [Users -> Nat]
  BY ProcessorTypeNext DEF BalanceInv, ProcessorTypeOK
<1>1. CASE Outside
  BY <1>0, <1>1 DEF Outside, BalanceInv, BalanceWithinEarned, LoadedWithinEarned, LoadedHolds, Subscribed,
     Earned, Content, Current, processorVars, pollerVars, history
<1>2. ASSUME NEW w \in Pollers,
             \/ Poll(w) \/ MarkProcessed(w) \/ Remark(w) \/ CheckProcessed(w) \/ RecordProcessed(w)
             \/ PollerFault(w)
      PROVE  BalanceInv'
  <2>1. UNCHANGED <<subscription, earned>> /\ (PollerStep(w) \/ PollerFault(w))
    BY <1>2 DEF PollerStep, HandlerStep, PollerFault, Poll, MarkProcessed, Remark, CheckProcessed,
       RecordProcessed, HandlerFails, MarkFails, Stop, history
  <2>2. PICK label \in PollerControl \ {"save"} : poller' = [poller EXCEPT ![w] = label]
    BY <1>2 DEF PollerFault, Poll, MarkProcessed, Remark, Advance, CheckProcessed,
       RecordProcessed, HandlerFails, MarkFails, Stop, PollerTo, PollerControl
  <2>3. poller'[w] # "save"
    BY <1>0, <2>2 DEF ProcessorTypeOK
  <2> QED
    BY <1>0, <2>1, <2>3, BalanceKept
<1>3. ASSUME NEW w \in Pollers, LoadSubscription(w) PROVE BalanceInv'
  <2> DEFINE u == Content(w).userId
             n == Content(w).creditsAmount
             s == subscription[u]
  <2>1. /\ poller[w] = "load" /\ UNCHANGED <<batch, subscription, earned>>
        /\ PollerStep(w)
    BY <1>3 DEF LoadSubscription, PollerStep, HandlerStep, history
  <2>2. u \in Users /\ n \in Nat /\ Content(w)' = Content(w)
    BY <1>0, <2>1, CurrentIsInBatch DEF Content, Current
  <2>3. CASE s = NoSubscription
    <3>1. poller'[w] = "mark"
      BY <1>0, <1>3, <2>3 DEF LoadSubscription, findByUserId, PollerTo, ProcessorTypeOK
    <3> QED
      BY <1>0, <2>1, <3>1, BalanceKept
  <2>4. CASE s # NoSubscription
    <3>1. loaded' = [loaded EXCEPT ![w] = addCredits(s, n)]
      BY <1>3, <2>4 DEF LoadSubscription, findByUserId
    <3>2. loaded'[w] = addCredits(s, n)
      BY <1>0, <3>1 DEF ProcessorTypeOK
    <3>3. s \in Subscription /\ Subscribed(u)
      BY <1>0, <2>2, <2>4 DEF SubscriptionTypeOK, Subscribed
    <3>4. loaded'[w] \in Subscription
          /\ loaded'[w].creditsRemaining = s.creditsRemaining + n
      BY <2>2, <3>2, <3>3 DEF addCredits, Subscription
    <3>5. s.creditsRemaining \in FREE_TIER_CREDITS..Earned(u) /\ Earned(u) \in Nat
      BY <1>0, <2>2, <3>3, FreeTierIsNat DEF BalanceWithinEarned, Earned
    <3>6. loaded'[w].creditsRemaining \in FREE_TIER_CREDITS..(Earned(u) + n)
      BY <2>2, <3>4, <3>5, FreeTierIsNat
    <3>7. LoadedHolds(w)'
      BY <2>1, <2>2, <3>3, <3>4, <3>6 DEF LoadedHolds, Subscribed, Earned
    <3> QED
      BY <1>0, <2>1, <3>7, BalanceKept
  <2> QED
    BY <2>3, <2>4
<1>4. ASSUME NEW w \in Pollers, SaveCredits(w) PROVE BalanceInv'
  <2> DEFINE u == Content(w).userId
             n == Content(w).creditsAmount
  <2>1. /\ poller[w] = "save" /\ UNCHANGED <<batch, loaded>> /\ PollerStep(w)
        /\ subscription' = [subscription EXCEPT ![u] = loaded[w]]
        /\ earned' = [earned EXCEPT ![u] = earned[u] + n]
        /\ poller' = [poller EXCEPT ![w] = "record"]
    BY <1>4 DEF SaveCredits, saveSubscription, PollerTo, PollerStep, HandlerStep
  <2>2. u \in Users /\ n \in Nat
    BY <1>0, <2>1, CurrentIsInBatch
  <2>3. /\ loaded[w] \in Subscription /\ loaded[w] # NoSubscription
        /\ loaded[w].creditsRemaining \in FREE_TIER_CREDITS..(Earned(u) + n)
    BY <1>0, <2>1 DEF LoadedWithinEarned, LoadedHolds, Subscription, SubscriptionStatus,
       NoSubscription
  <2> HIDE DEF u, n
  <2>4. /\ subscription'[u] = loaded[w] /\ earned'[u] = earned[u] + n
        /\ \A x \in Users \ {u} : subscription'[x] = subscription[x] /\ earned'[x] = earned[x]
    BY <1>0, <2>1, <2>2 DEF SubscriptionTypeOK
  <2>5. \A x \in Users :
          /\ FREE_TIER_CREDITS + earned[x] \in Nat /\ FREE_TIER_CREDITS + earned'[x] \in Nat
          /\ FREE_TIER_CREDITS + earned[x] <= FREE_TIER_CREDITS + earned'[x]
          /\ Subscribed(x) => subscription'[x] # NoSubscription
    BY <1>0, <2>2, <2>3, <2>4, FreeTierIsNat DEF Subscribed
  <2>6. BalanceWithinEarned'
    <3> SUFFICES ASSUME NEW x \in Users, subscription'[x] # NoSubscription
                 PROVE  subscription'[x].creditsRemaining \in
                          FREE_TIER_CREDITS..(FREE_TIER_CREDITS + earned'[x])
      BY DEF BalanceWithinEarned, Subscribed, Earned
    <3>1. CASE x = u
      <4>1. FREE_TIER_CREDITS + earned'[u] = Earned(u) + n
        BY <1>0, <2>2, <2>4, FreeTierIsNat DEF Earned
      <4> QED
        BY <2>3, <2>4, <3>1, <4>1
    <3>2. CASE x # u
      BY <1>0, <2>4, <3>2 DEF BalanceWithinEarned, Subscribed, Earned
    <3> QED
      BY <3>1, <3>2
  <2>7. LoadedWithinEarned'
    <3> SUFFICES ASSUME NEW v \in Pollers, poller'[v] = "save" PROVE LoadedHolds(v)'
      BY DEF LoadedWithinEarned
    <3> DEFINE x == Content(v).userId
               m == Content(v).creditsAmount
    <3>1. v # w
      BY <1>0, <2>1 DEF ProcessorTypeOK
    <3>2. poller[v] = "save" /\ loaded'[v] = loaded[v] /\ Content(v)' = Content(v)
      BY <1>0, <2>1, <3>1, OthersStay
    <3>3. x \in Users /\ m \in Nat
      BY <1>0, <3>2, CurrentIsInBatch
    <3>4. /\ Subscribed(x) /\ loaded[v] \in Subscription
          /\ loaded[v].creditsRemaining \in
               FREE_TIER_CREDITS..((FREE_TIER_CREDITS + earned[x]) + m)
      BY <1>0, <3>2 DEF LoadedWithinEarned, LoadedHolds, Earned
    <3>5. loaded[v].creditsRemaining \in
            FREE_TIER_CREDITS..((FREE_TIER_CREDITS + earned'[x]) + m)
      BY <2>5, <3>3, <3>4, FreeTierIsNat
    <3>6. subscription'[x] # NoSubscription
      BY <2>5, <3>3, <3>4
    <3> QED
      BY <3>2, <3>4, <3>5, <3>6 DEF LoadedHolds, Subscribed, Earned
  <2> QED
    BY <1>0, <2>6, <2>7 DEF BalanceInv
<1> QED
  BY <1>1, <1>2, <1>3, <1>4 DEF OutboxTurn, ProcessorNext, PollerStep, HandlerStep

LEMMA BalanceInvariant == OutboxSpec => []BalanceInv
<1>1. BalanceInv /\ [OutboxNext]_<<processorVars, outbox, faults>> => BalanceInv'
  BY BalanceNext, TurnsOfOutbox DEF BalanceInv
<1> QED
  BY <1>1, BalanceInit, PTL DEF OutboxSpec, OutboxStart

\* A balance never holds more than the free credits and what the saves of its
\* user have added, nor less than the free credits, however handlers overlap
\* and wherever they stop.
THEOREM BalanceStaysWithinEarned == OutboxSpec => []BalanceWithinEarned
<1>1. BalanceInv => BalanceWithinEarned
  BY DEF BalanceInv
<1> QED
  BY <1>1, BalanceInvariant, PTL

-----------------------------------------------------------------------------
(***************************************************************************)
(* Processed events and credits.                                           *)
(***************************************************************************)

\* What is copied is of the event whose row it is written over.
LEMMA CopiesNext ==
  ASSUME ProcessorTypeOK, CopiesKeepPayload, OutboxTurn
  PROVE  CopiesKeepPayload' /\ \A i \in DOMAIN outbox : outbox'[i].payload = outbox[i].payload
<1>0. outbox \in Seq(OutboxEvent)
  BY DEF ProcessorTypeOK, OutboxTypeOK
<1>1. CASE Outside /\ UNCHANGED outbox
  BY <1>1 DEF Outside, CopiesKeepPayload, processorVars, pollerVars
<1>2. ASSUME NEW w \in Pollers, Poll(w)
      PROVE  CopiesKeepPayload' /\ \A i \in DOMAIN outbox : outbox'[i].payload = outbox[i].payload
  <2>1. outbox' = outbox
    BY <1>2 DEF Poll
  <2> QED
    BY <1>2, <2>1, PollReads DEF CopiesKeepPayload
<1>3. ASSUME NEW w \in Pollers, MarkProcessed(w) \/ Remark(w)
      PROVE  CopiesKeepPayload' /\ \A i \in DOMAIN outbox : outbox'[i].payload = outbox[i].payload
  <2>1. poller[w] # "sleep" /\ Advance(w)
    BY <1>3 DEF MarkProcessed, Remark
  <2>2. /\ Current(w) \in DOMAIN batch[w] /\ Current(w) \in DOMAIN outbox
        /\ batch[w][Current(w)] \in OutboxEvent
    BY <2>1, CurrentIsInBatch
  <2>3. PICK e \in OutboxEvent :
          e.payload = batch[w][Current(w)].payload /\ updateEvent(Current(w), e)
    BY <1>3, <2>2, EventEntities DEF MarkProcessed, Remark
  <2>4. \A i \in DOMAIN outbox : outbox'[i].payload = outbox[i].payload
    BY <1>0, <2>2, <2>3, RowIsWritten DEF CopiesKeepPayload
  <2>5. \A v \in Pollers : \A i \in DOMAIN batch'[v] :
          /\ i \in DOMAIN batch[v] /\ batch'[v][i] = batch[v][i]
          /\ i \in DOMAIN outbox
    BY <2>1, AdvanceLeaves DEF ProcessorTypeOK, IsBatch
  <2> QED
    BY <2>4, <2>5 DEF CopiesKeepPayload
<1>4. ASSUME NEW w \in Pollers, MarkFails(w)
      PROVE  CopiesKeepPayload' /\ \A i \in DOMAIN outbox : outbox'[i].payload = outbox[i].payload
  <2> DEFINE e == recordFailure(markProcessed(batch[w][Current(w)]))
  <2>1. /\ poller[w] = "mark" /\ outbox' = outbox
        /\ batch' = [batch EXCEPT ![w] = [batch[w] EXCEPT ![Current(w)] = e]]
    BY <1>4 DEF MarkFails
  <2>2. e.payload = batch[w][Current(w)].payload /\ Current(w) \in DOMAIN batch[w]
    BY <2>1, CurrentIsInBatch, EventEntities
  <2> HIDE DEF e
  <2>3. batch'[w] = [batch[w] EXCEPT ![Current(w)] = e]
        /\ \A v \in Pollers \ {w} : batch'[v] = batch[v]
    BY <2>1 DEF ProcessorTypeOK
  <2>4. DOMAIN batch'[w] = DOMAIN batch[w]
        /\ \A i \in DOMAIN batch[w] : batch'[w][i].payload = batch[w][i].payload
    BY <2>2, <2>3 DEF ProcessorTypeOK, IsBatch
  <2> QED
    BY <2>1, <2>3, <2>4 DEF CopiesKeepPayload
<1>5. ASSUME NEW w \in Pollers, Stop(w)
      PROVE  CopiesKeepPayload' /\ \A i \in DOMAIN outbox : outbox'[i].payload = outbox[i].payload
  <2>1. DOMAIN batch'[w] = {} /\ \A v \in Pollers \ {w} : batch'[v] = batch[v]
    BY <1>5 DEF Stop, ProcessorTypeOK, NoBatch
  <2>2. outbox' = outbox
    BY <1>5 DEF Stop
  <2> QED
    BY <2>1, <2>2 DEF CopiesKeepPayload
<1>6. ASSUME NEW w \in Pollers, HandlerStep(w) \/ HandlerFails(w)
      PROVE  CopiesKeepPayload' /\ \A i \in DOMAIN outbox : outbox'[i].payload = outbox[i].payload
  <2>1. outbox' = outbox /\ batch' = batch
    BY <1>6 DEF HandlerStep, CheckProcessed, LoadSubscription, SaveCredits, RecordProcessed,
       HandlerFails
  <2> QED
    BY <2>1 DEF CopiesKeepPayload
<1>7. ASSUME Outside, NEW p \in PaymentIds, createOutboxEvent(createEvent(p))
      PROVE  CopiesKeepPayload' /\ \A i \in DOMAIN outbox : outbox'[i].payload = outbox[i].payload
  <2>1. outbox' = Append(outbox, createEvent(p)) /\ batch' = batch
    BY <1>7 DEF Outside, createOutboxEvent, processorVars, pollerVars
  <2>2. \A i \in DOMAIN outbox : outbox'[i] = outbox[i]
    BY <1>0, <2>1
  <2> QED
    BY <2>1, <2>2 DEF CopiesKeepPayload, ProcessorTypeOK, IsBatch
<1> QED
  BY <1>1, <1>2, <1>3, <1>4, <1>5, <1>6, <1>7
     DEF OutboxTurn, Outside, ProcessorNext, PollerStep, PollerFault

\* The events are finitely many, so fewer of them count less.
LEMMA HandledIsFinite ==
  ASSUME ProcessorTypeOK, NEW p
  PROVE  /\ IsFiniteSet(Handled(p)) /\ Cardinality(Handled(p)) \in Nat
         /\ \A T : T \subseteq Handled(p) =>
              Cardinality(T) \in Nat /\ Cardinality(T) <= Cardinality(Handled(p))
<1>1. IsFiniteSet(DOMAIN outbox)
  BY FS_Interval DEF ProcessorTypeOK, OutboxTypeOK
<1>2. Handled(p) \subseteq DOMAIN outbox
  BY DEF Handled, EventsOf
<1>3. IsFiniteSet(Handled(p))
  BY <1>1, <1>2, FS_Subset
<1> QED
  BY <1>3, FS_Subset, FS_CardinalityType

LEMMA HandledNext ==
  ASSUME CreditedInv, OutboxTurn
  PROVE  HandledIsCredited'
<1>0. /\ ProcessorTypeOK /\ ProcessorTypeOK' /\ BalanceInv /\ CopiesKeepPayload /\ HandledIsCredited
      /\ credited \in [PaymentIds -> Nat] /\ faults \in Nat
      /\ \A i \in DOMAIN outbox : outbox'[i].payload = outbox[i].payload
  BY ProcessorTypeNext, CopiesNext DEF CreditedInv, BalanceInv, ProcessorTypeOK, FaultsTypeOK
<1> SUFFICES ASSUME faults' = 0
             PROVE  /\ \A w \in Pollers : poller'[w] # "remark"
                    /\ \A p \in PaymentIds : Creditable(p)' => Cardinality(Handled(p))' <= credited'[p]
  BY DEF HandledIsCredited
<1>1. faults = 0 /\ ~Fault
  <2>1. ~Fault
    BY <1>0 DEF Fault
  <2>2. ProcessorNext => NoFault
    BY <2>1 DEF ProcessorNext, PollerStep, PollerFault, HandlerStep, Poll, MarkProcessed,
       Remark, CheckProcessed, LoadSubscription, SaveCredits, RecordProcessed, HandlerFails,
       MarkFails, Stop
  <2> QED
    BY <1>0, <2>1, <2>2, MaxFaultsIsNat DEF NoFault, OutboxTurn, Outside
<1>2. /\ \A w \in Pollers : poller[w] # "remark"
      /\ \A p \in PaymentIds : Creditable(p) => Cardinality(Handled(p)) <= credited[p]
  BY <1>0, <1>1 DEF HandledIsCredited
\* It is enough that no event becomes handled, but for those of a save.
<1>3. ASSUME \A w \in Pollers : poller'[w] # "remark", UNCHANGED credited,
             \A p \in PaymentIds : Creditable(p)' => Creditable(p) /\ Handled(p)' \subseteq Handled(p)
      PROVE  /\ \A w \in Pollers : poller'[w] # "remark"
             /\ \A p \in PaymentIds : Creditable(p)' => Cardinality(Handled(p))' <= credited'[p]
  <2> SUFFICES ASSUME NEW p \in PaymentIds, Creditable(p)'
               PROVE  Cardinality(Handled(p)') <= credited[p]
    BY <1>3
  <2>1. Cardinality(Handled(p)') \in Nat /\ Cardinality(Handled(p)) \in Nat
        /\ Cardinality(Handled(p)') <= Cardinality(Handled(p))
    BY <1>0, <1>3, HandledIsFinite
  <2> QED
    BY <1>0, <1>2, <1>3, <2>1
<1>4. CASE Outside /\ UNCHANGED outbox
  <2>1. \A p : Handled(p)' = Handled(p) /\ Creditable(p)' = Creditable(p)
    BY <1>4 DEF Outside, Handled, EventsOf, Serving, Current, Creditable, Subscribed, processorVars, pollerVars
  <2> QED
    BY <1>2, <1>3, <1>4, <2>1 DEF Outside, processorVars, pollerVars, history
<1>5. ASSUME NEW w \in Pollers, PollerStep(w), NEW v \in Pollers \ {w}
      PROVE  poller'[v] = poller[v] /\ \A i : Serving(v, i)' <=> Serving(v, i)
  <2>1. poller'[v] = poller[v] /\ Current(v)' = Current(v)
    BY <1>0, <1>5, OthersStay
  <2> QED
    BY <2>1 DEF Serving
<1>6. ASSUME NEW w \in Pollers, PollerStep(w), poller'[w] # "remark",
             UNCHANGED <<outbox, subscription, credited>>,
             \A p \in PaymentIds : Creditable(p) =>
               \A i \in EventsOf(p) : Serving(w, i)' => Serving(w, i)
      PROVE  /\ \A v \in Pollers : poller'[v] # "remark"
             /\ \A p \in PaymentIds : Creditable(p)' => Cardinality(Handled(p))' <= credited'[p]
  <2>1. \A v \in Pollers : poller'[v] # "remark"
    BY <1>2, <1>5, <1>6
  <2>2. \A p : EventsOf(p)' = EventsOf(p) /\ Creditable(p)' = Creditable(p)
    BY <1>6 DEF EventsOf, Creditable, Subscribed
  <2>3. \A p \in PaymentIds : Creditable(p) => Handled(p)' \subseteq Handled(p)
    BY <1>5, <1>6, <2>2 DEF Handled
  <2> QED
    BY <1>3, <1>6, <2>1, <2>2, <2>3
<1>7. ASSUME NEW w \in Pollers, Poll(w) \/ CheckProcessed(w) \/ LoadSubscription(w)
      PROVE  /\ \A v \in Pollers : poller'[v] # "remark"
             /\ \A p \in PaymentIds : Creditable(p)' => Cardinality(Handled(p))' <= credited'[p]
  <2>1. PollerStep(w) /\ UNCHANGED <<outbox, subscription, credited>>
    BY <1>7 DEF PollerStep, HandlerStep, Poll, CheckProcessed, LoadSubscription, history
  <2>2. poller'[w] \in {"check", "load", "save", "mark"}
    BY <1>0, <1>7 DEF Poll, CheckProcessed, LoadSubscription, PollerTo, ProcessorTypeOK
  <2>3. ASSUME NEW p \in PaymentIds, Creditable(p), NEW i \in EventsOf(p), Serving(w, i)'
        PROVE  FALSE
    <3>1. ~ Poll(w) /\ poller'[w] = "mark"
      BY <1>0, <2>2, <2>3, PollReads DEF Serving
    <3>2. poller[w] # "sleep" /\ Current(w) = i
      BY <1>7, <2>3, <3>1 DEF CheckProcessed, LoadSubscription, Serving, Current
    <3>3. Content(w).paymentId = p
      BY <1>0, <2>3, <3>2, CurrentIsInBatch DEF CopiesKeepPayload, Content, EventsOf
    <3>4. Content(w).creditsAmount > 0 /\ Content(w).userId \in Users /\ Subscribed(Content(w).userId)
      BY <1>0, <2>3, <3>2, <3>3, CurrentIsInBatch DEF Creditable
    <3>5. isValid(Content(w)) /\ ~ wasProcessedBy(eventId(Content(w)))
      <4>1. "eventId" \notin DOMAIN Content(w)
        BY <1>0, <3>2, CurrentIsInBatch DEF payload
      <4> QED
        BY <3>4, <4>1 DEF isValid, wasProcessedBy, eventId
    <3>6. CASE CheckProcessed(w)
      <4>1. poller' = [poller EXCEPT ![w] = "load"]
        BY <3>5, <3>6 DEF CheckProcessed, PollerTo
      <4> QED
        BY <1>0, <3>1, <4>1 DEF ProcessorTypeOK
    <3>7. CASE LoadSubscription(w)
      <4>1. poller' = [poller EXCEPT ![w] = "save"]
        BY <3>4, <3>7 DEF LoadSubscription, PollerTo, findByUserId, Subscribed
      <4> QED
        BY <1>0, <3>1, <4>1 DEF ProcessorTypeOK
    <3> QED
      BY <1>7, <3>1, <3>6, <3>7
  <2> QED
    BY <1>6, <2>1, <2>2, <2>3
<1>8. ASSUME NEW w \in Pollers, RecordProcessed(w)
      PROVE  /\ \A v \in Pollers : poller'[v] # "remark"
             /\ \A p \in PaymentIds : Creditable(p)' => Cardinality(Handled(p))' <= credited'[p]
  <2>1. PollerStep(w) /\ UNCHANGED <<outbox, batch, subscription, credited>> /\ poller[w] = "record"
    BY <1>8 DEF PollerStep, HandlerStep, RecordProcessed, history
  <2>2. poller'[w] = "mark"
    BY <1>0, <1>8 DEF RecordProcessed, PollerTo, ProcessorTypeOK
  <2>3. \A i : Serving(w, i)' => Serving(w, i)
    BY <2>1 DEF Serving, Current
  <2> QED
    BY <1>6, <2>1, <2>2, <2>3
<1>9. ASSUME NEW w \in Pollers, MarkProcessed(w)
      PROVE  /\ \A v \in Pollers : poller'[v] # "remark"
             /\ \A p \in PaymentIds : Creditable(p)' => Cardinality(Handled(p))' <= credited'[p]
  <2>1. PollerStep(w) /\ UNCHANGED <<subscription, credited>> /\ poller[w] = "mark" /\ Advance(w)
    BY <1>9 DEF PollerStep, MarkProcessed, history
  <2>2. /\ poller'[w] \in {"sleep", "check"}
        /\ Current(w) \in DOMAIN outbox /\ batch[w][Current(w)] \in OutboxEvent
    BY <1>0, <2>1, AdvanceLeaves, CurrentIsInBatch
  <2>3. updateEvent(Current(w), markProcessed(batch[w][Current(w)]))
    BY <1>9 DEF MarkProcessed
  <2>4. /\ DOMAIN outbox' = DOMAIN outbox
        /\ \A k \in DOMAIN outbox \ {Current(w)} : outbox'[k] = outbox[k]
    BY <1>0, <2>2, <2>3, RowIsWritten, EventEntities DEF ProcessorTypeOK, OutboxTypeOK
  <2>5. \A p : EventsOf(p)' = EventsOf(p) /\ Creditable(p)' = Creditable(p)
    BY <1>0, <2>1, <2>4 DEF EventsOf, Creditable, Subscribed
  <2>6. Serving(w, Current(w)) /\ \A i : ~ Serving(w, i)'
    BY <2>1, <2>2 DEF Serving
  <2>7. ASSUME NEW p \in PaymentIds, NEW i \in Handled(p)' PROVE i \in Handled(p)
    <3>1. i \in EventsOf(p) /\ i \in DOMAIN outbox
      BY <2>5, <2>7 DEF Handled, EventsOf
    <3>2. CASE i = Current(w)
      BY <2>6, <3>1, <3>2 DEF Handled
    <3>3. CASE i # Current(w)
      BY <1>5, <2>1, <2>4, <2>6, <2>7, <3>1, <3>3 DEF Handled
    <3> QED
      BY <3>2, <3>3
  <2>8. \A v \in Pollers : poller'[v] # "remark"
    BY <1>2, <1>5, <2>1, <2>2
  <2> QED
    BY <1>3, <2>1, <2>5, <2>7, <2>8
<1>10. ASSUME NEW w \in Pollers, SaveCredits(w)
       PROVE  /\ \A v \in Pollers : poller'[v] # "remark"
              /\ \A p \in PaymentIds : Creditable(p)' => Cardinality(Handled(p))' <= credited'[p]
  <2> DEFINE paid == Content(w).paymentId
  <2>1. /\ PollerStep(w) /\ UNCHANGED <<outbox, batch>> /\ poller[w] = "save"
        /\ subscription' = [subscription EXCEPT ![Content(w).userId] = loaded[w]]
        /\ credited' = [credited EXCEPT ![paid] = credited[paid] + 1]
        /\ poller' = [poller EXCEPT ![w] = "record"]
    BY <1>10 DEF PollerStep, HandlerStep, SaveCredits, saveSubscription, PollerTo
  <2>2. paid \in PaymentIds /\ Subscribed(Content(w).userId) /\ poller'[w] = "record"
    BY <1>0, <2>1, CurrentIsInBatch
       DEF ProcessorTypeOK, BalanceInv, LoadedWithinEarned, LoadedHolds
  <2>3. \A u \in Users : Subscribed(u)' => Subscribed(u)
    BY <1>0, <2>1, <2>2 DEF ProcessorTypeOK, SubscriptionTypeOK, Subscribed
  <2>4. \A p \in PaymentIds : Creditable(p)' => Creditable(p)
    BY <2>3, PayerOfIsTotal DEF Creditable
  <2>5. \A v \in Pollers : poller'[v] # "remark"
    BY <1>2, <1>5, <2>1, <2>2
  <2>6. \A i : Serving(w, i)' => i = Current(w)
    BY <2>1 DEF Serving, Current
  <2>7. ASSUME NEW p \in PaymentIds
        PROVE  Handled(p)' \subseteq Handled(p) \union (IF p = paid THEN {Current(w)} ELSE {})
    <3>1. EventsOf(p)' = EventsOf(p)
      BY <2>1 DEF EventsOf
    <3>2. Current(w) \in EventsOf(p) => p = paid
      BY <1>0, <2>1, CurrentIsInBatch DEF EventsOf, CopiesKeepPayload, Content
    <3> QED
      BY <1>5, <2>1, <2>6, <3>1, <3>2 DEF Handled
  <2> HIDE DEF paid
  <2>8. /\ credited'[paid] = credited[paid] + 1
        /\ \A p \in PaymentIds \ {paid} : credited'[p] = credited[p]
    BY <1>0, <2>1, <2>2
  <2>9. ASSUME NEW p \in PaymentIds, Creditable(p)'
        PROVE  Cardinality(Handled(p)') <= credited'[p]
    <3>1. Cardinality(Handled(p)) <= credited[p] /\ Cardinality(Handled(p)) \in Nat
          /\ IsFiniteSet(Handled(p)) /\ credited[p] \in Nat
      BY <1>0, <1>2, <2>4, <2>9, HandledIsFinite
    <3>2. CASE p = paid
      <4> DEFINE more == Handled(p) \union {Current(w)}
      <4>1. IsFiniteSet(more) /\ Cardinality(more) \in Nat
            /\ Cardinality(more) <= Cardinality(Handled(p)) + 1
        <5>1. /\ IsFiniteSet(more)
              /\ Cardinality(more) = IF Current(w) \in Handled(p)
                                       THEN Cardinality(Handled(p))
                                       ELSE Cardinality(Handled(p)) + 1
          BY <3>1, FS_AddElement
        <5> QED
          BY <3>1, <5>1
      <4>2. Handled(p)' \subseteq more
        BY <2>7, <3>2
      <4> HIDE DEF more
      <4>3. Cardinality(Handled(p)') <= Cardinality(more) /\ Cardinality(Handled(p)') \in Nat
        BY <4>1, <4>2, FS_Subset, FS_CardinalityType
      <4> QED
        BY <2>8, <3>1, <3>2, <4>1, <4>3
    <3>3. CASE p # paid
      <4>1. Handled(p)' \subseteq Handled(p)
        BY <2>7, <3>3
      <4>2. Cardinality(Handled(p)') <= Cardinality(Handled(p)) /\ Cardinality(Handled(p)') \in Nat
        BY <1>0, <4>1, HandledIsFinite
      <4> QED
        BY <2>8, <3>1, <3>3, <4>2
    <3> QED
      BY <3>2, <3>3
  <2> QED
    BY <2>5, <2>9
<1>11. ASSUME Outside, NEW p \in PaymentIds, createOutboxEvent(createEvent(p))
       PROVE  /\ \A v \in Pollers : poller'[v] # "remark"
              /\ \A q \in PaymentIds : Creditable(q)' => Cardinality(Handled(q))' <= credited'[q]
  <2>1. /\ UNCHANGED <<subscription, poller, batch, credited>>
        /\ outbox' = Append(outbox, createEvent(p))
    BY <1>11 DEF Outside, createOutboxEvent, processorVars, pollerVars, history
  <2>2. createEvent(p) \in OutboxEvent /\ createEvent(p).status = "PENDING"
    BY DEF createEvent, OutboxEvent, OutboxStatus
  <2> DEFINE new == Len(outbox) + 1
  <2>3. /\ DOMAIN outbox' = DOMAIN outbox \union {new} /\ new \notin DOMAIN outbox
        /\ \A i \in DOMAIN outbox : outbox'[i] = outbox[i]
        /\ outbox'[new].status = "PENDING"
    BY <1>0, <2>1, <2>2 DEF ProcessorTypeOK, OutboxTypeOK
  <2> HIDE DEF new
  <2>4. \A v \in Pollers : \A i : (Serving(v, i)' <=> Serving(v, i)) /\ (Serving(v, i) => i \in DOMAIN outbox)
    BY <1>0, <2>1, CurrentIsInBatch DEF Serving, Current
  <2>5. \A q : Creditable(q)' = Creditable(q)
    BY <2>1 DEF Creditable, Subscribed
  <2>6. \A q \in PaymentIds : Handled(q)' \subseteq Handled(q)
    BY <2>3, <2>4 DEF Handled, EventsOf
  <2> QED
    BY <1>2, <1>3, <2>1, <2>5, <2>6
<1> QED
  BY <1>1, <1>2, <1>4, <1>7, <1>8, <1>9, <1>10, <1>11
     DEF OutboxTurn, Outside, ProcessorNext, PollerStep, PollerFault, HandlerStep, HandlerFails, MarkFails, Stop,
         Remark

LEMMA CreditedInit == ProcessorInit /\ OutboxInit /\ FaultsInit => CreditedInv
<1> SUFFICES ASSUME ProcessorInit /\ OutboxInit /\ FaultsInit PROVE CreditedInv
  OBVIOUS
<1>1. /\ DOMAIN outbox = {} /\ credited = [p \in PaymentIds |-> 0]
      /\ \A w \in Pollers : poller[w] = "sleep" /\ batch[w] = NoBatch
  BY DEF OutboxInit, ProcessorInit
<1>2. DOMAIN NoBatch = {}
  BY DEF NoBatch
<1>3. \A p \in PaymentIds : Handled(p) = {}
  BY <1>1 DEF Handled, EventsOf
<1>4. HandledIsCredited
  <2>1. \A p \in PaymentIds : Cardinality(Handled(p)) <= credited[p]
    <3> SUFFICES ASSUME NEW p \in PaymentIds PROVE Cardinality(Handled(p)) <= credited[p]
      OBVIOUS
    <3>1. Cardinality(Handled(p)) = 0
      BY <1>3, FS_EmptySet
    <3> QED
      BY <1>1, <3>1
  <2> QED
    BY <1>1, <2>1 DEF HandledIsCredited
<1> QED
  BY <1>1, <1>2, <1>4, BalanceInit DEF CreditedInv, CopiesKeepPayload

LEMMA CreditedNext == CreditedInv /\ OutboxTurn => CreditedInv'
BY BalanceNext, CopiesNext, HandledNext DEF CreditedInv, BalanceInv

LEMMA MarkedAreCredited == CreditedInv => ProcessedIsCredited
<1> SUFFICES ASSUME CreditedInv, NEW p \in PaymentIds, faults = 0, Creditable(p)
             PROVE  Cardinality(Events(p, "PROCESSED")) <= credited[p]
  BY DEF ProcessedIsCredited
<1>1. ProcessorTypeOK /\ Cardinality(Handled(p)) <= credited[p] /\ credited[p] \in Nat
  BY DEF CreditedInv, BalanceInv, HandledIsCredited, ProcessorTypeOK
<1>2. Events(p, "PROCESSED") \subseteq Handled(p)
  BY DEF Events, Handled, EventsOf
<1> QED
  BY <1>1, <1>2, HandledIsFinite

\* While nothing has failed, every event that is marked has added its credits,
\* once at least, to a payer who has a subscription.
THEOREM MarkedIsCredited == OutboxSpec => []ProcessedIsCredited
<1>1. CreditedInv /\ [OutboxNext]_<<processorVars, outbox, faults>> => CreditedInv'
  BY CreditedNext, TurnsOfOutbox DEF CreditedInv, BalanceInv
<1> QED
  BY <1>1, MarkedAreCredited, CreditedInit, PTL DEF OutboxSpec, OutboxStart
=============================================================================
