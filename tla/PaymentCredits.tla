--------------------------- MODULE PaymentCredits ---------------------------
(***************************************************************************)
(* The way from a charge to the credits: the payments module writes the    *)
(* outbox, the pollers read it and add the credits.  The two share the     *)
(* outbox table and the faults, and nothing else.                          *)
(***************************************************************************)
EXTENDS Payments, OutboxProcessor

VARIABLES
  polled,    \* history: events some poll has read
  reread,    \* history: events more than one poll has read
  crowded    \* history: users two of whose handlers were between read and save

observed == <<polled, reread, crowded>>

Init ==
  /\ PaymentsInit /\ ProcessorInit /\ OutboxInit /\ FaultsInit
  /\ polled = {} /\ reread = {} /\ crowded = {}

vars == <<outbox, faults, paymentVars, processorVars, observed>>

-----------------------------------------------------------------------------

\* The events a poller that was asleep holds after the step.
JustRead == UNION {DOMAIN batch'[w] : w \in {v \in Pollers : poller[v] = "sleep"}}

Saving(w, u) == poller[w] = "save" /\ Content(w).userId = u

Crowd == {u \in Users : \E v, w \in Pollers : v # w /\ Saving(v, u) /\ Saving(w, u)}

Observe ==
  /\ polled' = polled \union JustRead
  /\ reread' = reread \union (polled \intersect JustRead)
  /\ crowded' = crowded \union Crowd'

PaymentsStep == PaymentsNext /\ UNCHANGED <<processorVars, observed>>

ProcessorStep == ProcessorNext /\ Observe /\ UNCHANGED paymentVars

Next == PaymentsStep \/ ProcessorStep

Spec == Init /\ [][Next]_vars

ServeSaga(p) == SagaStep(p) /\ UNCHANGED <<processorVars, observed>>

ServeHook(h) == HookStep(h) /\ UNCHANGED <<processorVars, observed>>

ServePoller(w) == PollerStep(w) /\ Observe /\ UNCHANGED paymentVars

FairSpec ==
  /\ Spec
  /\ \A p \in PaymentIds : WF_vars(ServeSaga(p))
  /\ \A h \in Hooks : WF_vars(ServeHook(h))
  /\ \A w \in Pollers : WF_vars(ServePoller(w))

-----------------------------------------------------------------------------
(***************************************************************************)
(* Properties.                                                             *)
(***************************************************************************)

ChargedPayments == {PreferenceOf[c] : c \in {d \in Charges : Paid(d)}}

\* Credits are added only for payments the provider has charged, whatever
\* fails, overlaps or is repeated on the way.
NoCreditWithoutCharge ==
  \A p \in PaymentIds : credited[p] > 0 => p \in ChargedPayments

\* Unless something fails, a notification of an approved charge, the first
\* attempt to pay, that the API has fetched ends in the credits of a user who
\* has a subscription.
PaidNotificationCredits ==
  \A h \in Hooks : \A p \in PaymentIds :
    (/\ Notified(h)
     /\ held[h].status = "approved"
     /\ FirstAttempt(held[h].charge)
     /\ PreferenceOf[held[h].charge] = p
     /\ Creditable(p))
      ~> (credited[p] > 0 \/ faults > 0)

\* The credits of p may be added again: deliveries about it overlapped, or a
\* poll has read an event of it that another had read.
Repeated(p) == Overlapped(p) \/ EventsOf(p) \intersect reread # {}

\* What buying credits promises, whatever fails: a charge is credited once, but
\* for the payments the program repeats (above), and a balance grows by what
\* was bought, but for the users whose handlers overlap.
Promise == INSTANCE PaidCredits WITH
  charged <- ChargedPayments,
  added <- {p \in PaymentIds : credited[p] > 0},
  balance <- [u \in Users |-> subscription[u].creditsRemaining],
  repeated <- {p \in PaymentIds : Repeated(p)}

ImplementsPaidCredits == Promise!Spec
=============================================================================
