------------------------------ MODULE Billing ------------------------------
(***************************************************************************)
(* Billing: requests that deduct a credit (a job is created), refund one   *)
(* (a job failed for good) or grant a package (a payment was approved).    *)
(* Each is a read of the row, a change of the entity in memory and a save  *)
(* of the whole row, with an await after the read and another in the save, *)
(* and nothing in the code orders two requests of one user.                *)
(***************************************************************************)
EXTENDS SubscriptionStore

CONSTANTS
  Requests,   \* calls of a use case, each made once
  Amounts     \* amounts of credits a call may name

ASSUME AmountsArePositive == Amounts \subseteq Nat \ {0}

VARIABLES
  pc,         \* request -> where it is
  call,       \* request -> its arguments and the entity it holds in memory
  granted,    \* history: user -> credits added by saves that succeeded
  spent,      \* history: user -> credits deducted by saves that succeeded
  overtaken,  \* history: the calls on their way whose row another has saved
              \* since they read it
  raced       \* history: the users of whom an overtaken call has saved

history == <<granted, spent, overtaken, raced>>

vars == <<subscription, pc, call, history>>

Control == {"idle", "saving", "done", "refused", "failed"}

Call == [op : {"deduct", "add"}, user : Users, amount : Amounts, entity : Subscription]

NoCall == [op |-> "none"]

TypeOK ==
  /\ SubscriptionTypeOK
  /\ pc \in [Requests -> Control]
  /\ call \in [Requests -> Call \union {NoCall}]
  /\ granted \in [Users -> Nat]
  /\ spent \in [Users -> Nat]
  /\ overtaken \subseteq {r \in Requests : pc[r] = "saving"}
  /\ raced \subseteq Users

Init ==
  /\ SubscriptionInit
  /\ pc = [r \in Requests |-> "idle"]
  /\ call = [r \in Requests |-> NoCall]
  /\ granted = [u \in Users |-> 0]
  /\ spent = [u \in Users |-> 0]
  /\ overtaken = {}
  /\ raced = {}

-----------------------------------------------------------------------------

InFlight(u) == {r \in Requests : pc[r] = "saving" /\ call[r].user = u}

Goto(r, label) == pc' = [pc EXCEPT ![r] = label]

\* The entity is changed in memory; the save is awaited.
Hold(r, op, u, amount, s) ==
  /\ Goto(r, "saving")
  /\ call' = [call EXCEPT ![r] = [op |-> op, user |-> u, amount |-> amount, entity |-> s]]

\* DeductCreditUseCase up to the save: the entity refuses or is changed.
Deduct(r, u, amount) ==
  LET s == findByUserId(u) IN
  /\ pc[r] = "idle"
  /\ s # NoSubscription
  /\ IF canDeduct(s, amount)
       THEN Hold(r, "deduct", u, amount, deductCredits(s, amount))
       ELSE Goto(r, "refused") /\ UNCHANGED call
  /\ UNCHANGED <<subscription, history>>

\* RefundCreditUseCase and the grant of PaymentApprovedHandler up to the save.
Add(r, u, amount) ==
  LET s == findByUserId(u) IN
  /\ pc[r] = "idle"
  /\ s # NoSubscription
  /\ Hold(r, "add", u, amount, addCredits(s, amount))
  /\ UNCHANGED <<subscription, history>>

\* SubscriptionNotFoundError, thrown before anything is changed.
NotFound(r, u) ==
  /\ pc[r] = "idle"
  /\ findByUserId(u) = NoSubscription
  /\ Goto(r, "failed")
  /\ UNCHANGED <<subscription, call, history>>

Save(r) ==
  LET c == call[r] IN
  /\ pc[r] = "saving"
  /\ saveSubscription(c.user, c.entity)
  /\ IF c.op = "add"
       THEN granted' = [granted EXCEPT ![c.user] = @ + c.amount] /\ UNCHANGED spent
       ELSE spent' = [spent EXCEPT ![c.user] = @ + c.amount] /\ UNCHANGED granted
  /\ overtaken' = (overtaken \union InFlight(c.user)) \ {r}
  /\ raced' = IF r \in overtaken THEN raced \union {c.user} ELSE raced
  /\ Goto(r, "done")
  /\ UNCHANGED call

\* The database refuses the save, or the process stops before it: the entity
\* in memory is gone and the row keeps its value.
SaveFails(r) ==
  /\ pc[r] = "saving"
  /\ Goto(r, "failed")
  /\ overtaken' = overtaken \ {r}
  /\ UNCHANGED <<subscription, call, granted, spent, raced>>

Start(r, u) ==
  \/ NotFound(r, u)
  \/ \E amount \in Amounts : Deduct(r, u, amount) \/ Add(r, u, amount)

Next ==
  \E r \in Requests :
    \/ \E u \in Users : Start(r, u)
    \/ Save(r)
    \/ SaveFails(r)

Spec == Init /\ [][Next]_vars

-----------------------------------------------------------------------------
(***************************************************************************)
(* Properties.                                                             *)
(***************************************************************************)

Opening(u) == IF subscription[u] = NoSubscription THEN 0 ELSE FREE_TIER_CREDITS

\* "Credits cannot be negative" (billing/README.md): whatever requests overlap
\* and whichever of them write back a stale row, no balance goes below zero.
CreditsNeverNegative ==
  \A u \in Users : subscription[u].creditsRemaining >= 0

\* Stale saves lose updates but never mint credits: a balance is at most the
\* free tier and everything that was ever granted or refunded.
CreditsWithinGrants ==
  \A u \in Users :
    subscription[u].creditsRemaining <= Opening(u) + granted[u]

\* No user consumes more than was ever granted: "resources are consumed only
\* when available" (billing/README.md).
NoOverspend ==
  \A u \in Users : spent[u] <= Opening(u) + granted[u]

\* The row is the "Source of truth" of the balance: free tier, plus grants,
\* minus deductions.  Calls may overlap: an update is lost only by a save that
\* was overtaken, of the same user, between its read and itself.
BalanceIsLedger ==
  \A u \in Users \ raced :
    subscription[u].creditsRemaining = Opening(u) + granted[u] - spent[u]

\* Billing implements the ledger, the calls of a user overlapping as they do: a
\* call takes effect at its save, by exactly its amount unless it was overtaken.
outcomeOf(label) ==
  CASE label = "done"    -> "applied"
    [] label = "refused" -> "refused"
    [] label = "failed"  -> "lost"
    [] OTHER             -> "none"

Ledger == INSTANCE CreditLedger WITH
  balance <- [u \in Users |-> subscription[u].creditsRemaining],
  outcome <- [r \in Requests |-> outcomeOf(pc[r])],
  pending <- [u \in Users |-> InFlight(u)]

ImplementsLedger == Ledger!Spec
=============================================================================
