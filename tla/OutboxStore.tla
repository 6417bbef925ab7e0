---------------------------- MODULE OutboxStore ----------------------------
(***************************************************************************)
(* The outbox table, oldest event first, and the entity loaded from it.    *)
(* Every event is a payment.approved: its payload names the payment, from  *)
(* which the user and the credits follow, and carries no eventId.          *)
(***************************************************************************)
EXTENDS Integers, Sequences, FiniteSets, Accounts, Faults

CONSTANTS
  PaymentIds,
  PayerOf,         \* payment -> the user who pays
  CreditsOf,       \* payment -> credits of the package bought
  MAX_ATTEMPTS     \* maxAttempts of an event (5 in the code)

ASSUME PayerOfIsTotal == PayerOf \in [PaymentIds -> Users]
ASSUME CreditsOfIsTotal == CreditsOf \in [PaymentIds -> Nat]
ASSUME MaxAttemptsIsPositive == MAX_ATTEMPTS \in Nat \ {0}

VARIABLE outbox \* sequence of events

OutboxStatus == {"PENDING", "PROCESSED", "FAILED"}

\* What process-webhook puts in the payload, as far as a handler reads it.
payload(p) == [paymentId |-> p, userId |-> PayerOf[p], creditsAmount |-> CreditsOf[p]]

OutboxEvent ==
  [payload : {payload(p) : p \in PaymentIds}, status : OutboxStatus, attempts : Nat]

createEvent(p) == [payload |-> payload(p), status |-> "PENDING", attempts |-> 0]

canRetry(e) == e.attempts < MAX_ATTEMPTS

\* Fault seeded in markProcessed: only processedAt is set.
markProcessed_dateOnly(e) == e

markProcessed(e) == [e EXCEPT !.status = "PROCESSED"]

\* Fault seeded in recordFailure: the first failure is the last.
recordFailure_atOnce(e) == [e EXCEPT !.attempts = @ + 1, !.status = "FAILED"]

recordFailure(e) ==
  LET failed == [e EXCEPT !.attempts = @ + 1]
  IN  [failed EXCEPT !.status = IF canRetry(failed) THEN @ ELSE "FAILED"]

-----------------------------------------------------------------------------
\* The repository.

createOutboxEvent(e) == outbox' = Append(outbox, e)

IsPending(i) == outbox[i].status = "PENDING"

oldestPending(limit) ==
  {i \in DOMAIN outbox :
     IsPending(i) /\ Cardinality({k \in 1..(i - 1) : IsPending(k)}) < limit}

\* The ids of the oldest pending events, each with a copy of its row.
findPending(limit) == [i \in oldestPending(limit) |-> outbox[i]]

EventsOf(p) == {i \in DOMAIN outbox : outbox[i].payload.paymentId = p}

\* Writes the copy of a poller over the row, whatever the row holds by then.
updateEvent(id, e) == outbox' = [outbox EXCEPT ![id] = e]

OutboxInit == outbox = <<>>

OutboxTypeOK == outbox \in Seq(OutboxEvent)
=============================================================================
