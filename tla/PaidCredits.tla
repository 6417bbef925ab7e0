----------------------------- MODULE PaidCredits -----------------------------
(***************************************************************************)
(* What buying credits promises: a payment is charged, and after that its  *)
(* credits are added to the balance of the payer once.  The promise is     *)
(* broken in two ways and no other: a payment that is repeated may be      *)
(* credited again, and a save for a user who is crowded may write any      *)
(* balance.  Both are known of a payment or a user before they matter.     *)
(***************************************************************************)
EXTENDS Integers, Accounts

CONSTANTS
  PaymentIds,
  PayerOf,    \* payment -> user
  CreditsOf   \* payment -> credits bought

VARIABLES
  charged,    \* the payments the provider has charged
  added,      \* the payments whose credits were added
  balance,    \* user -> credits
  repeated,   \* the payments whose credits may be added again
  crowded     \* the users whose saves may overwrite each other

vars == <<charged, added, balance, repeated, crowded>>

Init ==
  /\ charged = {} /\ added = {} /\ repeated = {} /\ crowded = {}
  /\ balance \in [Users -> Nat]

Charge(p) ==
  /\ p \notin charged
  /\ charged' = charged \union {p}
  /\ UNCHANGED <<added, balance, repeated, crowded>>

Pays(p, credits) ==
  /\ \A u \in Users \ {PayerOf[p]} : balance'[u] = balance[u]
  /\ PayerOf[p] \in crowded \/ balance'[PayerOf[p]] = balance[PayerOf[p]] + credits

AddCredits(p) ==
  /\ p \in charged
  /\ p \notin added \/ p \in repeated
  /\ added' = added \union {p}
  /\ balance' \in [Users -> Nat]
  /\ Pays(p, CreditsOf[p])
  /\ UNCHANGED <<charged, repeated, crowded>>

\* Deliveries or handlers overlap, or an event is read again.
Disturb ==
  /\ repeated \subseteq repeated' /\ repeated' \subseteq PaymentIds
  /\ crowded \subseteq crowded' /\ crowded' \subseteq Users
  /\ UNCHANGED <<charged, added, balance>>

Next == Disturb \/ \E p \in PaymentIds : Charge(p) \/ AddCredits(p)

Spec == Init /\ [][Next]_vars
=============================================================================
