------------------------- MODULE SubscriptionStore -------------------------
(***************************************************************************)
(* The table of subscriptions and the entity that is loaded from it.       *)
(*                                                                         *)
(* A row is reduced to the two columns the rules of the entity read: the   *)
(* status and the credits.  The entity is a copy of the row in the memory  *)
(* of one request; its methods change the copy, and save() writes the      *)
(* whole copy back, whatever the row holds by then.                        *)
(***************************************************************************)
EXTENDS Integers, Accounts

CONSTANT FREE_TIER_CREDITS   \* credits of a new free subscription (10 in the code)

ASSUME FreeTierIsNat == FREE_TIER_CREDITS \in Nat

VARIABLE subscription \* the table: user -> its one row, or NoSubscription

SubscriptionStatus == {"ACTIVE", "CANCELLED", "PAST_DUE"}

Subscription == [status : SubscriptionStatus, creditsRemaining : Int]

\* findByUserId returns null for a user whose registration stopped before the
\* subscription was created.
NoSubscription == [status |-> "NONE", creditsRemaining |-> 0]

\* Fault seeded in createFree: the plan is stored as the status.
createFree_planAsStatus == [status |-> "FREE", creditsRemaining |-> FREE_TIER_CREDITS]

createFree == [status |-> "ACTIVE", creditsRemaining |-> FREE_TIER_CREDITS]

isActive(s) == s.status = "ACTIVE"

hasCredits(s, amount) == s.creditsRemaining >= amount /\ isActive(s)

\* Faults seeded in canDeduct: the balance is not looked at; the last credits
\* cannot be spent.
canDeduct_unchecked(s, amount) == isActive(s)

canDeduct_offByOne(s, amount) == isActive(s) /\ s.creditsRemaining > amount

\* The two throws of deductCredits, as the condition under which it returns.
canDeduct(s, amount) == isActive(s) /\ ~(s.creditsRemaining < amount)

\* Fault seeded in deductCredits: the sign.
deductCredits_wrongSign(s, amount) == [s EXCEPT !.creditsRemaining = @ + amount]

deductCredits(s, amount) == [s EXCEPT !.creditsRemaining = @ - amount]

\* Fault seeded in addCredits: an assignment in place of an addition.
addCredits_assigned(s, amount) == [s EXCEPT !.creditsRemaining = amount]

addCredits(s, amount) == [s EXCEPT !.creditsRemaining = @ + amount]

findByUserId(u) == subscription[u]

saveSubscription(u, s) == subscription' = [subscription EXCEPT ![u] = s]

SubscriptionInit == subscription \in [Users -> {NoSubscription, createFree}]

SubscriptionTypeOK == subscription \in [Users -> Subscription \union {NoSubscription}]
=============================================================================
