---------------------------- MODULE CreditLedger ----------------------------
(***************************************************************************)
(* What billing promises about credits, with no table and no entity: a     *)
(* request of a user is refused at once, for want of credits, or is        *)
(* pending until it is applied or lost to an error.  Applied, it changes   *)
(* the balance of that user by exactly its amount, and a deduction only if *)
(* the balance covers it.  One case is excepted: a request that another of *)
(* the user overtook, applied while it was pending, may leave any balance  *)
(* that is not negative.                                                   *)
(***************************************************************************)
EXTENDS Integers

CONSTANTS
  Requests,
  Users,
  Amounts,
  FREE_TIER_CREDITS   \* the balance a subscribed user starts from

VARIABLES
  balance,       \* user -> credits
  outcome,       \* request -> "none", "applied", "refused" or "lost"
  pending,       \* user -> the requests on their way
  overtaken      \* the pending requests that another has overtaken

ledgerVars == <<balance, outcome, pending, overtaken>>

Init ==
  /\ balance \in [Users -> {0, FREE_TIER_CREDITS}]
  /\ outcome = [r \in Requests |-> "none"]
  /\ pending = [u \in Users |-> {}]
  /\ overtaken = {}

Resolve(r, result) ==
  /\ outcome[r] = "none"
  /\ outcome' = [outcome EXCEPT ![r] = result]

Begin(r, u) ==
  /\ outcome[r] = "none"
  /\ \A v \in Users : r \notin pending[v]
  /\ pending' = [pending EXCEPT ![u] = @ \union {r}]
  /\ UNCHANGED <<balance, outcome, overtaken>>

Refuse(r, u, amount) ==
  /\ balance[u] < amount
  /\ Resolve(r, "refused")
  /\ UNCHANGED <<balance, pending, overtaken>>

Lose(r) ==
  /\ Resolve(r, "lost")
  /\ pending' = [u \in Users |-> pending[u] \ {r}]
  /\ overtaken' = overtaken \ {r}
  /\ UNCHANGED balance

\* r is applied, and overtakes the others of its user.
Apply(r, u) ==
  /\ r \in pending[u]
  /\ Resolve(r, "applied")
  /\ pending' = [pending EXCEPT ![u] = @ \ {r}]
  /\ overtaken' = (overtaken \union pending[u]) \ {r}

Add(r, u, amount) ==
  /\ r \notin overtaken
  /\ Apply(r, u)
  /\ balance' = [balance EXCEPT ![u] = @ + amount]

Deduct(r, u, amount) ==
  /\ r \notin overtaken
  /\ balance[u] >= amount
  /\ Apply(r, u)
  /\ balance' = [balance EXCEPT ![u] = @ - amount]

Overwrite(r, u) ==
  /\ r \in overtaken
  /\ Apply(r, u)
  /\ balance'[u] >= 0
  /\ balance' = [balance EXCEPT ![u] = balance'[u]]

Next ==
  \E r \in Requests :
    \/ Lose(r)
    \/ \E u \in Users :
         \/ Begin(r, u) \/ Overwrite(r, u)
         \/ \E amount \in Amounts :
              Add(r, u, amount) \/ Deduct(r, u, amount) \/ Refuse(r, u, amount)

Spec == Init /\ [][Next]_ledgerVars
=============================================================================
