--------------------------- MODULE BillingProofs ---------------------------
(***************************************************************************)
(* Proofs about Billing, for any users, requests, amounts and free tier.   *)
(*                                                                         *)
(* The bounds hold however the requests overlap.  They are not inductive   *)
(* alone: a stale entity in memory will be written later, so the entity of *)
(* every request about to save must already satisfy the bound the row will *)
(* have to satisfy.  EntitiesBounded says so.                              *)
(*                                                                         *)
(* Billing implements CreditLedger.  A request that was not overtaken holds *)
(* the row of now changed by its amount (FreshEntities), so that its save  *)
(* is the atomic step; one that was overtaken writes what the ledger       *)
(* leaves open.                                                            *)
(***************************************************************************)
EXTENDS Billing, TLAPS

-----------------------------------------------------------------------------
\* Every entity about to be saved belongs to a user with a row, is not
\* negative, and is covered by the grants there will be once it is saved.
EntitiesBounded ==
  \A r \in Requests : pc[r] = "saving" =>
    LET c == call[r] IN
    /\ c \in Call
    /\ subscription[c.user] # NoSubscription
    /\ c.entity.creditsRemaining >= 0
    /\ c.op = "deduct" => c.entity.creditsRemaining <= FREE_TIER_CREDITS + granted[c.user]
    /\ c.op = "add" =>
         c.entity.creditsRemaining <= FREE_TIER_CREDITS + granted[c.user] + c.amount

BoundInv ==
  /\ TypeOK
  /\ CreditsNeverNegative
  /\ CreditsWithinGrants
  /\ EntitiesBounded

\* No row of the table looks like the null that findByUserId returns.
LEMMA RowIsNotNull == \A s \in Subscription : s # NoSubscription
  BY DEF Subscription, NoSubscription, SubscriptionStatus

LEMMA CreditsAreInt ==
  \A s \in Subscription \union {NoSubscription} : s.creditsRemaining \in Int
  BY DEF Subscription, NoSubscription

\* The methods of the entity return an entity, and change its credits by the
\* amount.
LEMMA EntityMethods ==
  ASSUME NEW s \in Subscription, NEW amount \in Nat
  PROVE  /\ deductCredits(s, amount) \in Subscription
         /\ deductCredits(s, amount).creditsRemaining = s.creditsRemaining - amount
         /\ addCredits(s, amount) \in Subscription
         /\ addCredits(s, amount).creditsRemaining = s.creditsRemaining + amount
  BY DEF Subscription, deductCredits, addCredits

\* A request that has not begun is overtaken by none.
LEMMA IdleIsNotOvertaken ==
  ASSUME TypeOK, NEW r \in Requests, pc[r] = "idle"
  PROVE  overtaken = overtaken \ {r}
BY DEF TypeOK

LEMMA BoundInit == Init => BoundInv
<1> SUFFICES ASSUME Init PROVE BoundInv
  OBVIOUS
<1>1. createFree \in Subscription
  BY FreeTierIsNat DEF createFree, Subscription, SubscriptionStatus
<1>2. SubscriptionTypeOK
  BY <1>1 DEF Init, SubscriptionInit, SubscriptionTypeOK
<1>3. pc \in [Requests -> Control] /\ call \in [Requests -> Call \union {NoCall}]
  BY DEF Init, Control
<1>4. TypeOK
  BY <1>2, <1>3 DEF Init, TypeOK
<1>5. CreditsNeverNegative /\ CreditsWithinGrants
  <2> SUFFICES ASSUME NEW u \in Users
               PROVE  /\ subscription[u].creditsRemaining >= 0
                      /\ subscription[u].creditsRemaining <= Opening(u) + granted[u]
    BY DEF CreditsNeverNegative, CreditsWithinGrants
  <2>1. subscription[u] \in {NoSubscription, createFree} /\ granted[u] = 0
    BY DEF Init, SubscriptionInit
  <2>2. NoSubscription.creditsRemaining = 0 /\ createFree.creditsRemaining = FREE_TIER_CREDITS
    BY DEF NoSubscription, createFree
  <2>3. createFree # NoSubscription
    BY <1>1, RowIsNotNull
  <2> QED
    BY <2>1, <2>2, <2>3, FreeTierIsNat DEF Opening
<1>6. EntitiesBounded
  BY DEF Init, EntitiesBounded
<1> QED
  BY <1>4, <1>5, <1>6 DEF BoundInv

\* A step that writes no row and grants nothing keeps the bounds, if it holds
\* at most one new entity and that entity is bounded.
LEMMA BoundUnchanged ==
  ASSUME BoundInv, NEW r \in Requests,
         UNCHANGED <<subscription, granted, spent, raced>>, overtaken' = overtaken \ {r},
         NEW label \in Control, Goto(r, label),
         NEW c \in Call \union {NoCall}, call' = [call EXCEPT ![r] = c],
         label = "saving" =>
           /\ c \in Call
           /\ subscription[c.user] # NoSubscription
           /\ c.entity.creditsRemaining >= 0
           /\ c.op = "deduct" => c.entity.creditsRemaining <= FREE_TIER_CREDITS + granted[c.user]
           /\ c.op = "add" =>
                c.entity.creditsRemaining <= FREE_TIER_CREDITS + granted[c.user] + c.amount
  PROVE  BoundInv'
<1>1. TypeOK'
  BY DEF BoundInv, TypeOK, SubscriptionTypeOK, Goto
<1>2. EntitiesBounded'
  <2> SUFFICES ASSUME NEW q \in Requests, pc'[q] = "saving"
               PROVE  /\ call'[q] \in Call
                      /\ subscription[call'[q].user] # NoSubscription
                      /\ call'[q].entity.creditsRemaining >= 0
                      /\ call'[q].op = "deduct" =>
                           call'[q].entity.creditsRemaining
                             <= FREE_TIER_CREDITS + granted[call'[q].user]
                      /\ call'[q].op = "add" =>
                           call'[q].entity.creditsRemaining
                             <= FREE_TIER_CREDITS + granted[call'[q].user] + call'[q].amount
    BY DEF EntitiesBounded
  <2>1. CASE q = r
    BY <2>1 DEF BoundInv, TypeOK, Goto
  <2>2. CASE q # r
    <3>1. pc[q] = "saving" /\ call'[q] = call[q]
      BY <2>2 DEF BoundInv, TypeOK, Goto
    <3> QED
      BY <3>1 DEF BoundInv, EntitiesBounded
  <2> QED
    BY <2>1, <2>2
<1> QED
  BY <1>1, <1>2 DEF BoundInv, CreditsNeverNegative, CreditsWithinGrants, Opening

LEMMA BoundNext == BoundInv /\ [Next]_vars => BoundInv'
<1> SUFFICES ASSUME BoundInv, [Next]_vars PROVE BoundInv'
  OBVIOUS
<1> USE AmountsArePositive, FreeTierIsNat
<1>1. ASSUME NEW r \in Requests, NEW u \in Users, NotFound(r, u)
      PROVE  BoundInv'
  <2>1. call' = [call EXCEPT ![r] = call[r]] /\ call[r] \in Call \union {NoCall}
    BY <1>1 DEF NotFound, BoundInv, TypeOK
  <2>2. overtaken' = overtaken \ {r}
    BY <1>1, IdleIsNotOvertaken DEF NotFound, history, BoundInv
  <2> QED
    BY <1>1, <2>1, <2>2, BoundUnchanged DEF NotFound, history, Control
<1>2. ASSUME NEW r \in Requests, NEW u \in Users, NEW amount \in Amounts,
             Deduct(r, u, amount)
      PROVE  BoundInv'
  <2> DEFINE s == subscription[u]
             held == [op |-> "deduct", user |-> u, amount |-> amount,
                      entity |-> deductCredits(s, amount)]
  <2>1. s \in Subscription /\ s # NoSubscription
    BY <1>2 DEF Deduct, findByUserId, BoundInv, TypeOK, SubscriptionTypeOK
  <2>2. CASE canDeduct(s, amount)
    <3>1. Goto(r, "saving") /\ call' = [call EXCEPT ![r] = held]
      BY <1>2, <2>2 DEF Deduct, Hold, findByUserId
    <3>2. /\ deductCredits(s, amount) \in Subscription
          /\ deductCredits(s, amount).creditsRemaining = s.creditsRemaining - amount
      BY <2>1, EntityMethods
    <3>3. held \in Call
      BY <3>2 DEF Call
    <3>4. s.creditsRemaining >= amount /\ s.creditsRemaining \in Int
      BY <2>1, <2>2, CreditsAreInt DEF canDeduct
    <3>5. s.creditsRemaining <= FREE_TIER_CREDITS + granted[u]
      BY <2>1 DEF BoundInv, CreditsWithinGrants, Opening
    <3>6. granted[u] \in Nat
      BY DEF BoundInv, TypeOK
    <3> QED
      <4> HIDE DEF s
      <4>1. /\ held.entity.creditsRemaining >= 0
            /\ held.entity.creditsRemaining <= FREE_TIER_CREDITS + granted[u]
        BY <3>2, <3>4, <3>5, <3>6
      <4>2. UNCHANGED <<subscription, granted, spent, raced>> /\ overtaken' = overtaken \ {r}
        BY <1>2, IdleIsNotOvertaken DEF Deduct, history, BoundInv
      <4> QED
        BY <2>1, <3>1, <3>3, <4>1, <4>2, BoundUnchanged DEF Control, s
  <2>3. CASE ~canDeduct(s, amount)
    <3>1. /\ Goto(r, "refused") /\ UNCHANGED <<subscription, call, granted, spent, raced>>
          /\ overtaken' = overtaken \ {r}
      BY <1>2, <2>3, IdleIsNotOvertaken DEF Deduct, findByUserId, history, BoundInv
    <3>2. call' = [call EXCEPT ![r] = call[r]] /\ call[r] \in Call \union {NoCall}
      BY <3>1 DEF BoundInv, TypeOK
    <3> QED
      BY <3>1, <3>2, BoundUnchanged DEF Control
  <2> QED
    BY <2>2, <2>3
<1>3. ASSUME NEW r \in Requests, NEW u \in Users, NEW amount \in Amounts,
             Add(r, u, amount)
      PROVE  BoundInv'
  <2> DEFINE s == subscription[u]
             held == [op |-> "add", user |-> u, amount |-> amount,
                      entity |-> addCredits(s, amount)]
  <2>1. s \in Subscription /\ s # NoSubscription
    BY <1>3 DEF Add, findByUserId, BoundInv, TypeOK, SubscriptionTypeOK
  <2>2. Goto(r, "saving") /\ call' = [call EXCEPT ![r] = held]
    BY <1>3 DEF Add, Hold, findByUserId
  <2>3. /\ addCredits(s, amount) \in Subscription
        /\ addCredits(s, amount).creditsRemaining = s.creditsRemaining + amount
    BY <2>1, EntityMethods
  <2>4. held \in Call
    BY <2>3 DEF Call
  <2>5. s.creditsRemaining >= 0 /\ s.creditsRemaining <= FREE_TIER_CREDITS + granted[u]
    BY <2>1 DEF BoundInv, CreditsNeverNegative, CreditsWithinGrants, Opening
  <2>6. granted[u] \in Nat /\ s.creditsRemaining \in Int
    BY <2>1, CreditsAreInt DEF BoundInv, TypeOK
  <2>7. UNCHANGED <<subscription, granted, spent, raced>> /\ overtaken' = overtaken \ {r}
    BY <1>3, IdleIsNotOvertaken DEF Add, history, BoundInv
  <2> QED
    <3> HIDE DEF s
    <3>1. /\ held.entity.creditsRemaining >= 0
          /\ held.entity.creditsRemaining <= FREE_TIER_CREDITS + granted[u] + amount
      BY <2>3, <2>5, <2>6
    <3> QED
      BY <2>1, <2>2, <2>4, <2>7, <3>1, BoundUnchanged DEF Control, s
<1>4. ASSUME NEW r \in Requests, Save(r)
      PROVE  BoundInv'
  <2> DEFINE c == call[r]
  <2>1. /\ c \in Call
        /\ c.user \in Users /\ c.amount \in Nat \ {0} /\ c.entity \in Subscription
        /\ c.op \in {"deduct", "add"}
        /\ subscription[c.user] # NoSubscription
        /\ c.entity.creditsRemaining >= 0
        /\ c.op = "deduct" => c.entity.creditsRemaining <= FREE_TIER_CREDITS + granted[c.user]
        /\ c.op = "add" =>
             c.entity.creditsRemaining <= FREE_TIER_CREDITS + granted[c.user] + c.amount
    BY <1>4 DEF Save, BoundInv, EntitiesBounded, Call
  <2>2. /\ subscription' = [subscription EXCEPT ![c.user] = c.entity]
        /\ pc' = [pc EXCEPT ![r] = "done"]
        /\ UNCHANGED call
    BY <1>4 DEF Save, saveSubscription, Goto
  <2>3. /\ granted' \in [Users -> Nat] /\ spent' \in [Users -> Nat]
        /\ \A u \in Users : granted[u] <= granted'[u]
        /\ c.op = "add" => granted'[c.user] = granted[c.user] + c.amount
    <3> HIDE DEF c
    <3>1. granted \in [Users -> Nat] /\ spent \in [Users -> Nat]
      BY DEF BoundInv, TypeOK
    <3>2. CASE c.op = "add"
      <4>1. granted' = [granted EXCEPT ![c.user] = @ + c.amount] /\ UNCHANGED spent
        BY <1>4, <3>2 DEF Save, c
      <4> QED
        BY <2>1, <3>1, <4>1
    <3>3. CASE c.op # "add"
      <4>1. spent' = [spent EXCEPT ![c.user] = @ + c.amount] /\ UNCHANGED granted
        BY <1>4, <3>3 DEF Save, c
      <4> QED
        BY <2>1, <3>1, <3>3, <4>1
    <3> QED
      BY <3>2, <3>3
  <2>4. /\ subscription'[c.user] = c.entity
        /\ \A u \in Users : u # c.user => subscription'[u] = subscription[u]
    BY <2>1, <2>2 DEF BoundInv, TypeOK, SubscriptionTypeOK
  <2>5. c.entity # NoSubscription
    BY <2>1, RowIsNotNull
  <2>6. \A u \in Users : (subscription'[u] = NoSubscription) <=> (subscription[u] = NoSubscription)
    BY <2>1, <2>4, <2>5
  <2>7. TypeOK'
    <3>1. /\ overtaken' = (overtaken \union InFlight(c.user)) \ {r}
          /\ raced' = IF r \in overtaken THEN raced \union {c.user} ELSE raced
      BY <1>4 DEF Save
    <3>2. overtaken' \subseteq {q \in Requests : pc'[q] = "saving"}
      BY <2>2, <3>1 DEF BoundInv, TypeOK, InFlight
    <3>3. raced' \subseteq Users
      BY <2>1, <3>1 DEF BoundInv, TypeOK
    <3> QED
      BY <2>1, <2>2, <2>3, <3>2, <3>3 DEF BoundInv, TypeOK, SubscriptionTypeOK, Control
  <2>8. CreditsNeverNegative' /\ CreditsWithinGrants'
    <3> SUFFICES ASSUME NEW u \in Users
                 PROVE  /\ subscription'[u].creditsRemaining >= 0
                        /\ subscription'[u].creditsRemaining <= Opening(u)' + granted'[u]
      BY DEF CreditsNeverNegative, CreditsWithinGrants
    <3>0. granted[u] \in Nat /\ granted'[u] \in Nat /\ granted[u] <= granted'[u]
      BY <2>3 DEF BoundInv, TypeOK
    <3>1. CASE u = c.user
      <4>1. Opening(u)' = FREE_TIER_CREDITS
        BY <2>4, <2>5, <3>1 DEF Opening
      <4>2. c.entity.creditsRemaining \in Int
        BY <2>1, CreditsAreInt
      <4> QED
        <5> HIDE DEF c
        <5> QED
          BY <2>1, <2>3, <2>4, <3>0, <3>1, <4>1, <4>2
    <3>2. CASE u # c.user
      <4>1. Opening(u)' = Opening(u) /\ Opening(u) \in Nat
        BY <2>4, <3>2 DEF Opening
      <4>2. /\ subscription[u].creditsRemaining >= 0
            /\ subscription[u].creditsRemaining <= Opening(u) + granted[u]
        BY DEF BoundInv, CreditsNeverNegative, CreditsWithinGrants
      <4>3. subscription[u].creditsRemaining \in Int
        BY CreditsAreInt DEF BoundInv, TypeOK, SubscriptionTypeOK
      <4> QED
        <5> HIDE DEF c
        <5> QED
          BY <2>4, <3>0, <3>2, <4>1, <4>2, <4>3
    <3> QED
      BY <3>1, <3>2
  <2>9. EntitiesBounded'
    <3> SUFFICES ASSUME NEW q \in Requests, pc'[q] = "saving"
                 PROVE  LET d == call[q] IN
                        /\ d \in Call
                        /\ subscription'[d.user] # NoSubscription
                        /\ d.entity.creditsRemaining >= 0
                        /\ d.op = "deduct" =>
                             d.entity.creditsRemaining <= FREE_TIER_CREDITS + granted'[d.user]
                        /\ d.op = "add" =>
                             d.entity.creditsRemaining
                               <= FREE_TIER_CREDITS + granted'[d.user] + d.amount
      BY <2>2 DEF EntitiesBounded
    <3> DEFINE d == call[q]
    <3>1. pc[q] = "saving"
      BY <2>2 DEF BoundInv, TypeOK
    <3>2. /\ d \in Call
          /\ subscription[d.user] # NoSubscription
          /\ d.entity.creditsRemaining >= 0
          /\ d.op = "deduct" => d.entity.creditsRemaining <= FREE_TIER_CREDITS + granted[d.user]
          /\ d.op = "add" =>
               d.entity.creditsRemaining <= FREE_TIER_CREDITS + granted[d.user] + d.amount
      BY <3>1 DEF BoundInv, EntitiesBounded
    <3>3. d.user \in Users /\ d.amount \in Nat /\ d.entity.creditsRemaining \in Int
      BY <3>2, CreditsAreInt DEF Call
    <3>4. granted[d.user] \in Nat /\ granted'[d.user] \in Nat /\ granted[d.user] <= granted'[d.user]
      BY <2>3, <3>3 DEF BoundInv, TypeOK
    <3> HIDE DEF c, d
    <3>5. subscription'[d.user] # NoSubscription
      BY <2>6, <3>2, <3>3
    <3>6. /\ d.op = "deduct" => d.entity.creditsRemaining <= FREE_TIER_CREDITS + granted'[d.user]
          /\ d.op = "add" =>
               d.entity.creditsRemaining <= FREE_TIER_CREDITS + granted'[d.user] + d.amount
      BY <3>2, <3>3, <3>4
    <3> QED
      BY <3>2, <3>5, <3>6 DEF d
  <2> QED
    BY <2>7, <2>8, <2>9 DEF BoundInv
<1>5. ASSUME NEW r \in Requests, SaveFails(r)
      PROVE  BoundInv'
  <2>1. call' = [call EXCEPT ![r] = call[r]] /\ call[r] \in Call \union {NoCall}
    BY <1>5 DEF SaveFails, BoundInv, TypeOK
  <2> QED
    BY <1>5, <2>1, BoundUnchanged DEF SaveFails, Control
<1>6. CASE UNCHANGED vars
  BY <1>6 DEF vars, history, BoundInv, TypeOK, SubscriptionTypeOK, CreditsNeverNegative,
              CreditsWithinGrants, EntitiesBounded, Opening
<1> QED
  BY <1>1, <1>2, <1>3, <1>4, <1>5, <1>6 DEF Next, Start

LEMMA BoundCorrect == Spec => []BoundInv
  BY BoundInit, BoundNext, PTL DEF Spec

\* Every variable keeps its type: in particular an entity in memory is always
\* a row that may be written to the table.
THEOREM BillingTypeCorrect == Spec => []TypeOK
<1>1. BoundInv => TypeOK
  BY DEF BoundInv
<1> QED
  BY <1>1, BoundCorrect, PTL

\* Credits cannot be negative, however the requests of one user overlap: the
\* check of deductCredits is made on the entity that is written back.
THEOREM BillingNeverNegative == Spec => []CreditsNeverNegative
<1>1. BoundInv => CreditsNeverNegative
  BY DEF BoundInv
<1> QED
  BY <1>1, BoundCorrect, PTL

\* No interleaving of stale saves mints credits: a balance never exceeds the
\* free tier and what was granted.
THEOREM BillingWithinGrants == Spec => []CreditsWithinGrants
<1>1. BoundInv => CreditsWithinGrants
  BY DEF BoundInv
<1> QED
  BY <1>1, BoundCorrect, PTL

-----------------------------------------------------------------------------
(***************************************************************************)
(* The ledger.                                                             *)
(***************************************************************************)

Fresh(r) ==
  LET c == call[r] IN
  /\ c.op = "add" => c.entity = addCredits(subscription[c.user], c.amount)
  /\ c.op = "deduct" =>
       /\ c.entity = deductCredits(subscription[c.user], c.amount)
       /\ canDeduct(subscription[c.user], c.amount)

\* What a request holds is the row of now, changed, unless it was overtaken.
FreshEntities == \A r \in Requests : pc[r] = "saving" /\ r \notin overtaken => Fresh(r)

\* Nothing in the program takes a subscription out of ACTIVE.
RowsActive ==
  /\ \A u \in Users : subscription[u] # NoSubscription => isActive(subscription[u])
  /\ \A r \in Requests : pc[r] = "saving" => isActive(call[r].entity)

LedgerInv == BoundInv /\ BalanceIsLedger /\ FreshEntities /\ RowsActive

LEMMA LedgerInit == Init => LedgerInv
<1> SUFFICES ASSUME Init PROVE LedgerInv
  OBVIOUS
<1>1. BalanceIsLedger
  <2> SUFFICES ASSUME NEW u \in Users
               PROVE  subscription[u].creditsRemaining = Opening(u) + granted[u] - spent[u]
    BY DEF BalanceIsLedger
  <2>1. /\ subscription[u] \in {NoSubscription, createFree}
        /\ granted[u] = 0 /\ spent[u] = 0
    BY DEF Init, SubscriptionInit
  <2>2. NoSubscription.creditsRemaining = 0 /\ createFree.creditsRemaining = FREE_TIER_CREDITS
    BY DEF NoSubscription, createFree
  <2>3. createFree # NoSubscription
    BY DEF createFree, NoSubscription
  <2> QED
    BY <2>1, <2>2, <2>3, FreeTierIsNat DEF Opening
<1>2. FreshEntities
  BY DEF Init, FreshEntities
<1>3. RowsActive
  BY DEF Init, SubscriptionInit, RowsActive, createFree, isActive
<1> QED
  BY <1>1, <1>2, <1>3, BoundInit DEF LedgerInv

\* A step that writes no row keeps the invariant, if the one entity it may
\* hold is the current row, changed.
LEMMA LedgerUnchanged ==
  ASSUME LedgerInv, BoundInv', NEW r \in Requests,
         UNCHANGED <<subscription, granted, spent, raced>>, overtaken' = overtaken \ {r},
         NEW label \in Control, Goto(r, label),
         NEW c \in Call \union {NoCall}, call' = [call EXCEPT ![r] = c],
         label = "saving" =>
           /\ c.op = "add" => c.entity = addCredits(subscription[c.user], c.amount)
           /\ c.op = "deduct" =>
                /\ c.entity = deductCredits(subscription[c.user], c.amount)
                /\ canDeduct(subscription[c.user], c.amount)
           /\ isActive(c.entity)
  PROVE  LedgerInv'
<1>1. /\ pc'[r] = label /\ call'[r] = c
      /\ \A q \in Requests : q # r => pc'[q] = pc[q] /\ call'[q] = call[q]
  BY DEF LedgerInv, BoundInv, TypeOK, Goto
<1>2. FreshEntities'
  <2> SUFFICES ASSUME NEW q \in Requests, pc'[q] = "saving", q \notin overtaken'
               PROVE  LET d == call'[q] IN
                      /\ d.op = "add" => d.entity = addCredits(subscription[d.user], d.amount)
                      /\ d.op = "deduct" =>
                           /\ d.entity = deductCredits(subscription[d.user], d.amount)
                           /\ canDeduct(subscription[d.user], d.amount)
    BY DEF FreshEntities, Fresh, addCredits, deductCredits, canDeduct, isActive
  <2>1. CASE q = r
    BY <1>1, <2>1
  <2>2. CASE q # r
    BY <1>1, <2>2 DEF LedgerInv, FreshEntities, Fresh
  <2> QED
    BY <2>1, <2>2
<1>3. RowsActive'
  BY <1>1 DEF LedgerInv, RowsActive, isActive
<1> QED
  BY <1>2, <1>3 DEF LedgerInv, BalanceIsLedger, Opening

\* What a request holds, and what its save does.
LEMMA SaveWrites ==
  ASSUME LedgerInv, NEW r \in Requests, Save(r)
  PROVE  LET c == call[r] IN
         /\ c \in Call /\ c.user \in Users /\ c.amount \in Amounts /\ c.amount \in Nat
         /\ c.op \in {"add", "deduct"}
         /\ c.entity \in Subscription /\ isActive(c.entity)
         /\ c.entity.creditsRemaining \in Int /\ c.entity.creditsRemaining >= 0
         /\ subscription[c.user] \in Subscription /\ subscription[c.user] # NoSubscription
         /\ subscription[c.user].creditsRemaining \in Int
         /\ subscription' = [subscription EXCEPT ![c.user] = c.entity]
         /\ pc[r] = "saving" /\ pc' = [pc EXCEPT ![r] = "done"]
         /\ overtaken' = (overtaken \union InFlight(c.user)) \ {r}
         /\ UNCHANGED call
<1> DEFINE c == call[r]
<1>1. /\ c \in Call /\ pc[r] = "saving" /\ subscription[c.user] # NoSubscription
      /\ isActive(c.entity) /\ c.entity.creditsRemaining >= 0
  BY DEF Save, LedgerInv, BoundInv, EntitiesBounded, RowsActive
<1>2. /\ c.user \in Users /\ c.amount \in Amounts /\ c.amount \in Nat
      /\ c.op \in {"add", "deduct"} /\ c.entity \in Subscription
  BY <1>1, AmountsArePositive DEF Call
<1>3. subscription[c.user] \in Subscription
  BY <1>1, <1>2 DEF LedgerInv, BoundInv, TypeOK, SubscriptionTypeOK
<1>4. c.entity.creditsRemaining \in Int /\ subscription[c.user].creditsRemaining \in Int
  BY <1>2, <1>3, CreditsAreInt
<1>5. /\ subscription' = [subscription EXCEPT ![c.user] = c.entity]
      /\ pc' = [pc EXCEPT ![r] = "done"]
      /\ overtaken' = (overtaken \union InFlight(c.user)) \ {r}
      /\ UNCHANGED call
  BY DEF Save, saveSubscription, Goto
<1> QED
  BY <1>1, <1>2, <1>3, <1>4, <1>5

\* The save of a request that was not overtaken moves the row by its amount.
LEMMA FreshSave ==
  ASSUME LedgerInv, NEW r \in Requests, Save(r), r \notin overtaken
  PROVE  LET c == call[r]
             delta == IF c.op = "add" THEN c.amount ELSE -c.amount
         IN  /\ c.op = "deduct" => subscription[c.user].creditsRemaining >= c.amount
             /\ c.entity.creditsRemaining = subscription[c.user].creditsRemaining + delta
<1> DEFINE c == call[r]
           s == subscription[c.user]
<1>1. /\ c \in Call /\ c.user \in Users /\ c.amount \in Nat /\ c.op \in {"add", "deduct"}
      /\ s \in Subscription /\ s.creditsRemaining \in Int
  BY SaveWrites
<1>2. /\ c.op = "add" => c.entity = addCredits(s, c.amount)
      /\ c.op = "deduct" => c.entity = deductCredits(s, c.amount) /\ canDeduct(s, c.amount)
  BY DEF Save, LedgerInv, FreshEntities, Fresh
<1> HIDE DEF c, s
<1>3. c.op = "add" => c.entity.creditsRemaining = s.creditsRemaining + c.amount
  BY <1>1, <1>2, EntityMethods
<1>4. c.op = "deduct" => c.entity.creditsRemaining = s.creditsRemaining - c.amount
  <2>1. deductCredits(s, c.amount).creditsRemaining = s.creditsRemaining - c.amount
    BY <1>1, EntityMethods
  <2> QED
    BY <1>2, <2>1
<1>5. c.op = "deduct" => s.creditsRemaining >= c.amount
  BY <1>1, <1>2 DEF canDeduct
<1>6. s.creditsRemaining - c.amount = s.creditsRemaining + (-c.amount)
  BY <1>1
<1>7. /\ c.op = "deduct" => s.creditsRemaining >= c.amount
      /\ c.entity.creditsRemaining
           = s.creditsRemaining + (IF c.op = "add" THEN c.amount ELSE -c.amount)
  BY <1>1, <1>3, <1>4, <1>5, <1>6
<1> QED
  BY <1>7 DEF c, s

\* What a save adds to the history: its amount, on one side, of one user.
LEMMA SaveCounts ==
  ASSUME LedgerInv, NEW r \in Requests, Save(r)
  PROVE  LET c == call[r]
             delta == IF c.op = "add" THEN c.amount ELSE -c.amount
         IN  /\ granted'[c.user] - spent'[c.user] = granted[c.user] - spent[c.user] + delta
             /\ \A u \in Users : u # c.user => granted'[u] = granted[u] /\ spent'[u] = spent[u]
<1> DEFINE c == call[r]
<1>1. c.user \in Users /\ c.amount \in Nat /\ c.op \in {"add", "deduct"}
  BY SaveWrites
<1>2. granted \in [Users -> Nat] /\ spent \in [Users -> Nat]
  BY DEF LedgerInv, BoundInv, TypeOK
<1>3. CASE c.op = "add"
  <2>1. granted' = [granted EXCEPT ![c.user] = @ + c.amount] /\ spent' = spent
    BY <1>3 DEF Save
  <2> HIDE DEF c
  <2> QED
    BY <1>1, <1>2, <1>3, <2>1 DEF c
<1>4. CASE c.op = "deduct"
  <2>1. spent' = [spent EXCEPT ![c.user] = @ + c.amount] /\ granted' = granted
    BY <1>4 DEF Save
  <2> HIDE DEF c
  <2> QED
    BY <1>1, <1>2, <1>4, <2>1 DEF c
<1> QED
  BY <1>1, <1>3, <1>4

LEMMA SaveKeepsLedger ==
  ASSUME LedgerInv, BoundInv', NEW r \in Requests, Save(r)
  PROVE  LedgerInv'
<1> DEFINE c == call[r]
           delta == IF c.op = "add" THEN c.amount ELSE -c.amount
<1>1. /\ c \in Call /\ c.user \in Users /\ c.amount \in Nat /\ c.op \in {"add", "deduct"}
      /\ c.entity \in Subscription /\ isActive(c.entity)
      /\ subscription[c.user].creditsRemaining \in Int
      /\ subscription[c.user] # NoSubscription
      /\ pc[r] = "saving" /\ pc' = [pc EXCEPT ![r] = "done"]
      /\ overtaken' = (overtaken \union InFlight(c.user)) \ {r}
      /\ UNCHANGED call
  BY SaveWrites
<1>2. /\ subscription'[c.user] = c.entity
      /\ \A u \in Users : u # c.user => subscription'[u] = subscription[u]
  BY SaveWrites DEF LedgerInv, BoundInv, TypeOK, SubscriptionTypeOK
<1>3. c.entity # NoSubscription
  BY <1>1, RowIsNotNull
<1>4. BalanceIsLedger'
  <2> SUFFICES ASSUME NEW u \in Users, u \notin raced'
               PROVE  subscription'[u].creditsRemaining = Opening(u)' + granted'[u] - spent'[u]
    BY DEF BalanceIsLedger
  <2>1. Opening(u)' = Opening(u) /\ Opening(u) \in Nat
    BY <1>1, <1>2, <1>3, FreeTierIsNat DEF Opening
  <2>2. raced' = IF r \in overtaken THEN raced \union {c.user} ELSE raced
    BY DEF Save
  <2>3. u \notin raced /\ (u = c.user => r \notin overtaken)
    BY <2>2
  <2>4. subscription[u].creditsRemaining = Opening(u) + granted[u] - spent[u]
    BY <2>3 DEF LedgerInv, BalanceIsLedger
  <2>5. /\ granted[u] \in Nat /\ spent[u] \in Nat
        /\ granted'[u] \in Nat /\ spent'[u] \in Nat
    BY DEF LedgerInv, BoundInv, TypeOK
  <2>6. CASE u = c.user
    <3>1. c.entity.creditsRemaining = subscription[c.user].creditsRemaining + delta
      BY <2>3, <2>6, FreshSave
    <3>2. granted'[c.user] - spent'[c.user] = granted[c.user] - spent[c.user] + delta
      BY SaveCounts
    <3>3. delta \in Int
      BY <1>1
    <3> HIDE DEF c, delta
    <3> QED
      BY <1>1, <1>2, <2>1, <2>4, <2>5, <2>6, <3>1, <3>2, <3>3
  <2>7. CASE u # c.user
    BY <1>2, <2>1, <2>4, <2>7, SaveCounts
  <2> QED
    BY <2>6, <2>7
<1>5. FreshEntities'
  <2> SUFFICES ASSUME NEW q \in Requests, pc'[q] = "saving", q \notin overtaken'
               PROVE  LET d == call[q] IN
                      /\ d.op = "add" => d.entity = addCredits(subscription'[d.user], d.amount)
                      /\ d.op = "deduct" =>
                           /\ d.entity = deductCredits(subscription'[d.user], d.amount)
                           /\ canDeduct(subscription'[d.user], d.amount)
    BY <1>1 DEF FreshEntities, Fresh, addCredits, deductCredits, canDeduct, isActive
  <2>1. pc[q] = "saving" /\ q # r
    BY <1>1 DEF LedgerInv, BoundInv, TypeOK
  <2>2. q \notin overtaken /\ call[q].user # c.user
    BY <1>1, <2>1 DEF InFlight
  <2>3. call[q].user \in Users
    BY <2>1 DEF LedgerInv, BoundInv, EntitiesBounded, Call
  <2>4. subscription'[call[q].user] = subscription[call[q].user]
    BY <1>2, <2>2, <2>3
  <2> QED
    BY <2>1, <2>2, <2>4 DEF LedgerInv, FreshEntities, Fresh
<1>6. RowsActive'
  <2>1. \A u \in Users : subscription'[u] # NoSubscription => isActive(subscription'[u])
    BY <1>1, <1>2 DEF LedgerInv, RowsActive
  <2>2. \A q \in Requests : pc'[q] = "saving" => isActive(call'[q].entity)
    BY <1>1 DEF LedgerInv, RowsActive, BoundInv, TypeOK
  <2> QED
    BY <2>1, <2>2 DEF RowsActive, isActive
<1> QED
  BY <1>4, <1>5, <1>6 DEF LedgerInv

LEMMA LedgerNext ==
  ASSUME LedgerInv, [Next]_vars
  PROVE  LedgerInv'
<1> USE AmountsArePositive
<1>0. BoundInv'
  BY BoundNext DEF LedgerInv
<1>1. ASSUME NEW r \in Requests, NEW u \in Users, NotFound(r, u)
      PROVE  LedgerInv'
  <2>1. call' = [call EXCEPT ![r] = call[r]] /\ call[r] \in Call \union {NoCall}
    BY <1>1 DEF NotFound, LedgerInv, BoundInv, TypeOK
  <2>2. overtaken' = overtaken \ {r}
    BY <1>1, IdleIsNotOvertaken DEF NotFound, history, LedgerInv, BoundInv
  <2> QED
    BY <1>0, <1>1, <2>1, <2>2, LedgerUnchanged DEF NotFound, history, Control
<1>2. ASSUME NEW r \in Requests, NEW u \in Users, NEW amount \in Amounts,
             Deduct(r, u, amount)
      PROVE  LedgerInv'
  <2> DEFINE s == subscription[u]
             held == [op |-> "deduct", user |-> u, amount |-> amount,
                      entity |-> deductCredits(s, amount)]
  <2>1. s \in Subscription
    BY <1>2 DEF Deduct, findByUserId, LedgerInv, BoundInv, TypeOK, SubscriptionTypeOK
  <2>2. UNCHANGED <<subscription, granted, spent, raced>> /\ overtaken' = overtaken \ {r}
    BY <1>2, IdleIsNotOvertaken DEF Deduct, history, LedgerInv, BoundInv
  <2>3. CASE canDeduct(s, amount)
    <3>1. Goto(r, "saving") /\ call' = [call EXCEPT ![r] = held]
      BY <1>2, <2>3 DEF Deduct, Hold, findByUserId
    <3>2. held \in Call
      BY <2>1, EntityMethods DEF Call
    <3>3. isActive(held.entity)
      BY <2>1, <2>3 DEF canDeduct, isActive, deductCredits, Subscription
    <3> QED
      BY <1>0, <2>2, <2>3, <3>1, <3>2, <3>3, LedgerUnchanged DEF Control
  <2>4. CASE ~canDeduct(s, amount)
    <3>1. Goto(r, "refused") /\ UNCHANGED call
      BY <1>2, <2>4 DEF Deduct, findByUserId
    <3>2. call' = [call EXCEPT ![r] = call[r]] /\ call[r] \in Call \union {NoCall}
      BY <3>1 DEF LedgerInv, BoundInv, TypeOK
    <3> QED
      BY <1>0, <2>2, <3>1, <3>2, LedgerUnchanged DEF Control
  <2> QED
    BY <2>3, <2>4
<1>3. ASSUME NEW r \in Requests, NEW u \in Users, NEW amount \in Amounts,
             Add(r, u, amount)
      PROVE  LedgerInv'
  <2> DEFINE s == subscription[u]
             held == [op |-> "add", user |-> u, amount |-> amount,
                      entity |-> addCredits(s, amount)]
  <2>1. s \in Subscription /\ isActive(s)
    BY <1>3 DEF Add, findByUserId, LedgerInv, BoundInv, TypeOK, SubscriptionTypeOK, RowsActive
  <2>2. UNCHANGED <<subscription, granted, spent, raced>> /\ overtaken' = overtaken \ {r}
    BY <1>3, IdleIsNotOvertaken DEF Add, history, LedgerInv, BoundInv
  <2>3. Goto(r, "saving") /\ call' = [call EXCEPT ![r] = held]
    BY <1>3 DEF Add, Hold, findByUserId
  <2>4. held \in Call
    BY <2>1, EntityMethods DEF Call
  <2>5. isActive(held.entity)
    BY <2>1 DEF isActive, addCredits, Subscription
  <2> QED
    BY <1>0, <2>2, <2>3, <2>4, <2>5, LedgerUnchanged DEF Control
<1>4. ASSUME NEW r \in Requests, Save(r)
      PROVE  LedgerInv'
  BY <1>0, <1>4, SaveKeepsLedger
<1>5. ASSUME NEW r \in Requests, SaveFails(r)
      PROVE  LedgerInv'
  <2>1. call' = [call EXCEPT ![r] = call[r]] /\ call[r] \in Call \union {NoCall}
    BY <1>5 DEF SaveFails, LedgerInv, BoundInv, TypeOK
  <2> QED
    BY <1>0, <1>5, <2>1, LedgerUnchanged DEF SaveFails, Control
<1>6. CASE UNCHANGED vars
  BY <1>0, <1>6 DEF vars, history, LedgerInv, BalanceIsLedger, Opening, FreshEntities, Fresh,
                    RowsActive, addCredits, deductCredits, canDeduct, isActive
<1> QED
  BY <1>1, <1>2, <1>3, <1>4, <1>5, <1>6 DEF Next, Start

-----------------------------------------------------------------------------
(***************************************************************************)
(* The refinement.                                                         *)
(***************************************************************************)

\* The requests on their way, as the ledger sees them.
LEMMA PendingLosesOne ==
  ASSUME TypeOK, NEW r \in Requests, pc[r] = "saving", call[r].user \in Users,
         NEW label \in Control \ {"saving"}, Goto(r, label), UNCHANGED call
  PROVE  /\ \A u \in Users : InFlight(u)' = InFlight(u) \ {r}
         /\ r \in InFlight(call[r].user)
         /\ \A u \in Users : u # call[r].user => r \notin InFlight(u)
BY DEF TypeOK, Goto, InFlight

\* A request that is idle is no user's, and stays so unless it is held.
LEMMA PendingKeepsOthers ==
  ASSUME TypeOK, NEW r \in Requests, pc[r] = "idle",
         NEW label \in Control \ {"saving"}, Goto(r, label), UNCHANGED call
  PROVE  \A u \in Users : InFlight(u)' = InFlight(u) /\ r \notin InFlight(u)
BY DEF TypeOK, Goto, InFlight

LEMMA PendingGainsOne ==
  ASSUME TypeOK, NEW r \in Requests, pc[r] = "idle", NEW v \in Users,
         NEW c, c.user = v, Goto(r, "saving"), call' = [call EXCEPT ![r] = c]
  PROVE  /\ \A u \in Users : r \notin InFlight(u)
         /\ InFlight(v)' = InFlight(v) \union {r}
         /\ \A u \in Users : u # v => InFlight(u)' = InFlight(u)
<1>1. /\ pc'[r] = "saving" /\ call'[r] = c
      /\ \A q \in Requests : q # r => pc'[q] = pc[q] /\ call'[q] = call[q]
  BY DEF TypeOK, Goto
<1> QED
  BY <1>1 DEF InFlight

\* Every step is a step of the ledger or a stutter.
LEMMA StepRefines ==
  ASSUME LedgerInv, LedgerInv', [Next]_vars
  PROVE  [Ledger!Next]_(Ledger!ledgerVars)
<1> USE AmountsArePositive
<1> DEFINE balance == [u \in Users |-> subscription[u].creditsRemaining]
           outcome == [r \in Requests |-> outcomeOf(pc[r])]
           pending == [u \in Users |-> InFlight(u)]
<1>0. TypeOK /\ SubscriptionTypeOK /\ pc \in [Requests -> Control]
  BY DEF LedgerInv, BoundInv, TypeOK
<1>1. ASSUME NEW r \in Requests, NEW u \in Users, NotFound(r, u)
      PROVE  Ledger!Lose(r)
  <2>1. /\ pc' = [pc EXCEPT ![r] = "failed"] /\ pc[r] = "idle"
        /\ Goto(r, "failed") /\ UNCHANGED <<subscription, call, overtaken>>
    BY <1>1 DEF NotFound, Goto, history
  <2>2. \A v \in Users : InFlight(v)' = InFlight(v) /\ r \notin InFlight(v)
    BY <1>0, <2>1, PendingKeepsOthers DEF Control
  <2>3. pending' = [v \in Users |-> pending[v] \ {r}]
    BY <2>2
  <2>4. overtaken' = overtaken \ {r}
    BY <1>0, <2>1, IdleIsNotOvertaken
  <2>5. outcome[r] = "none" /\ outcome' = [outcome EXCEPT ![r] = "lost"]
    BY <1>0, <2>1 DEF outcomeOf
  <2> QED
    BY <2>1, <2>3, <2>4, <2>5 DEF Ledger!Lose, Ledger!Resolve
<1>2. ASSUME NEW r \in Requests, NEW u \in Users, pc[r] = "idle",
             UNCHANGED <<subscription, history>>,
             NEW c \in Call, c.user = u, Goto(r, "saving"), call' = [call EXCEPT ![r] = c]
      PROVE  Ledger!Begin(r, u)
  <2>1. /\ \A v \in Users : r \notin InFlight(v)
        /\ InFlight(u)' = InFlight(u) \union {r}
        /\ \A v \in Users : v # u => InFlight(v)' = InFlight(v)
    BY <1>0, <1>2, PendingGainsOne
  <2>2. pending' = [pending EXCEPT ![u] = @ \union {r}] /\ \A v \in Users : r \notin pending[v]
    BY <2>1
  <2>3. outcome[r] = "none" /\ outcome' = outcome
    BY <1>0, <1>2 DEF outcomeOf, Goto
  <2> QED
    BY <1>2, <2>2, <2>3 DEF Ledger!Begin, history
<1>3. ASSUME NEW r \in Requests, NEW u \in Users, NEW amount \in Amounts,
             Deduct(r, u, amount)
      PROVE  Ledger!Refuse(r, u, amount) \/ Ledger!Begin(r, u)
  <2>1. pc[r] = "idle" /\ UNCHANGED <<subscription, history>> /\ subscription[u] # NoSubscription
    BY <1>3 DEF Deduct, findByUserId
  <2>2. CASE canDeduct(subscription[u], amount)
    <3> DEFINE held == [op |-> "deduct", user |-> u, amount |-> amount,
                        entity |-> deductCredits(subscription[u], amount)]
    <3>1. Goto(r, "saving") /\ call' = [call EXCEPT ![r] = held]
      BY <1>3, <2>2 DEF Deduct, Hold, findByUserId
    <3>2. subscription[u] \in Subscription
      BY <1>0, <2>1 DEF SubscriptionTypeOK
    <3>3. held \in Call
      BY <3>2, EntityMethods DEF Call
    <3> QED
      BY <1>2, <2>1, <3>1, <3>3
  <2>3. CASE ~canDeduct(subscription[u], amount)
    <3>1. pc' = [pc EXCEPT ![r] = "refused"] /\ Goto(r, "refused") /\ UNCHANGED call
      BY <1>3, <2>3 DEF Deduct, Goto, findByUserId
    <3>2. subscription[u].creditsRemaining < amount
      BY <2>1, <2>3 DEF LedgerInv, RowsActive, canDeduct
    <3>3. pending' = pending
      BY <1>0, <2>1, <3>1, PendingKeepsOthers DEF Control
    <3>4. outcome[r] = "none" /\ outcome' = [outcome EXCEPT ![r] = "refused"]
      BY <1>0, <2>1, <3>1 DEF outcomeOf
    <3> QED
      BY <2>1, <3>2, <3>3, <3>4 DEF Ledger!Refuse, Ledger!Resolve, history
  <2> QED
    BY <2>2, <2>3
<1>4. ASSUME NEW r \in Requests, NEW u \in Users, NEW amount \in Amounts,
             Add(r, u, amount)
      PROVE  Ledger!Begin(r, u)
  <2> DEFINE held == [op |-> "add", user |-> u, amount |-> amount,
                      entity |-> addCredits(subscription[u], amount)]
  <2>1. /\ pc[r] = "idle" /\ UNCHANGED <<subscription, history>> /\ subscription[u] # NoSubscription
        /\ Goto(r, "saving") /\ call' = [call EXCEPT ![r] = held]
    BY <1>4 DEF Add, Hold, findByUserId
  <2>2. subscription[u] \in Subscription
    BY <1>0, <2>1 DEF SubscriptionTypeOK
  <2>3. held \in Call
    BY <2>2, EntityMethods DEF Call
  <2> QED
    BY <1>2, <2>1, <2>3
<1>5. ASSUME NEW r \in Requests, Save(r)
      PROVE  \E u \in Users :
               \/ Ledger!Overwrite(r, u)
               \/ \E amount \in Amounts : Ledger!Add(r, u, amount) \/ Ledger!Deduct(r, u, amount)
  <2> DEFINE c == call[r]
             delta == IF c.op = "add" THEN c.amount ELSE -c.amount
  <2>1. /\ c \in Call /\ c.user \in Users /\ c.amount \in Amounts /\ c.amount \in Nat
        /\ c.op \in {"add", "deduct"}
        /\ c.entity.creditsRemaining \in Int /\ c.entity.creditsRemaining >= 0
        /\ subscription[c.user].creditsRemaining \in Int
        /\ subscription' = [subscription EXCEPT ![c.user] = c.entity]
        /\ pc[r] = "saving" /\ pc' = [pc EXCEPT ![r] = "done"]
        /\ overtaken' = (overtaken \union InFlight(c.user)) \ {r}
        /\ UNCHANGED call
    BY <1>5, SaveWrites
  <2>2. /\ \A u \in Users : InFlight(u)' = InFlight(u) \ {r}
        /\ r \in InFlight(c.user)
        /\ \A u \in Users : u # c.user => r \notin InFlight(u)
    <3>1. Goto(r, "done")
      BY <2>1 DEF Goto
    <3> QED
      BY <1>0, <2>1, <3>1, PendingLosesOne DEF Control
  <2>3. PICK u \in Users : u = c.user
    BY <2>1
  <2>4. /\ pending' = [pending EXCEPT ![u] = @ \ {r}]
        /\ r \in pending[u] /\ overtaken' = (overtaken \union pending[u]) \ {r}
    <3> HIDE DEF c
    <3>1. \A v \in Users : v # u => InFlight(v)' = InFlight(v)
      BY <2>2, <2>3
    <3> QED
      BY <2>1, <2>2, <2>3, <3>1
  <2>5. outcome[r] = "none" /\ outcome' = [outcome EXCEPT ![r] = "applied"]
    BY <1>0, <2>1 DEF outcomeOf
  <2>6. Ledger!Apply(r, u)
    BY <2>4, <2>5 DEF Ledger!Apply, Ledger!Resolve
  <2>7. balance' = [balance EXCEPT ![u] = c.entity.creditsRemaining]
    <3> HIDE DEF c
    <3> QED
      BY <1>0, <2>1, <2>3 DEF SubscriptionTypeOK
  <2>8. balance[u] = subscription[c.user].creditsRemaining /\ balance'[u] = c.entity.creditsRemaining
    BY <2>3, <2>7
  <2>9. CASE r \in overtaken
    <3>1. balance' = [balance EXCEPT ![u] = balance'[u]] /\ balance'[u] >= 0
      BY <2>1, <2>7, <2>8
    <3>2. Ledger!Overwrite(r, u)
      BY <2>6, <2>9, <3>1 DEF Ledger!Overwrite
    <3> WITNESS u \in Users
    <3> QED
      BY <3>2
  <2>10. CASE r \notin overtaken
    <3>1. /\ c.op = "deduct" => balance[u] >= c.amount
          /\ c.entity.creditsRemaining = balance[u] + delta
      BY <1>5, <2>8, <2>10, FreshSave
    <3>2. balance[u] \in Int
      BY <2>1, <2>8
    <3> HIDE DEF balance
    <3>3. PICK amount \in Amounts : amount = c.amount
      BY <2>1
    <3>4. CASE c.op = "add"
      <4>1. balance' = [balance EXCEPT ![u] = balance[u] + amount]
        BY <2>7, <3>1, <3>3, <3>4
      <4>2. Ledger!Add(r, u, amount)
        BY <2>6, <2>10, <4>1 DEF Ledger!Add, balance
      <4> QED
        BY <4>2
    <3>5. CASE c.op = "deduct"
      <4>1. balance[u] + (-c.amount) = balance[u] - amount
        BY <2>1, <3>2, <3>3
      <4>2. balance' = [balance EXCEPT ![u] = balance[u] - amount]
        BY <2>7, <3>1, <3>5, <4>1
      <4>3. balance[u] >= amount
        BY <3>1, <3>3, <3>5
      <4>4. Ledger!Deduct(r, u, amount)
        BY <2>6, <2>10, <4>2, <4>3 DEF Ledger!Deduct, balance
      <4> QED
        BY <4>4
    <3> QED
      BY <2>1, <3>4, <3>5
  <2> HIDE DEF balance, outcome, pending, c
  <2> QED
    BY <2>9, <2>10
<1>6. ASSUME NEW r \in Requests, SaveFails(r)
      PROVE  Ledger!Lose(r)
  <2>1. /\ pc' = [pc EXCEPT ![r] = "failed"] /\ pc[r] = "saving" /\ Goto(r, "failed")
        /\ UNCHANGED <<subscription, call>> /\ overtaken' = overtaken \ {r}
    BY <1>6 DEF SaveFails, Goto
  <2>2. call[r].user \in Users
    BY <2>1 DEF LedgerInv, BoundInv, EntitiesBounded, Call
  <2>3. pending' = [v \in Users |-> pending[v] \ {r}]
    BY <1>0, <2>1, <2>2, PendingLosesOne DEF Control
  <2>4. outcome[r] = "none" /\ outcome' = [outcome EXCEPT ![r] = "lost"]
    BY <1>0, <2>1 DEF outcomeOf
  <2> QED
    BY <2>1, <2>3, <2>4 DEF Ledger!Lose, Ledger!Resolve
<1>7. CASE UNCHANGED vars
  BY <1>7 DEF vars, history, Ledger!ledgerVars, outcomeOf, InFlight
<1> QED
  BY <1>1, <1>3, <1>4, <1>5, <1>6, <1>7
  DEF Next, Start, Ledger!Next, Ledger!ledgerVars

LEMMA InitRefines == Init => Ledger!Init
<1> SUFFICES ASSUME Init PROVE Ledger!Init
  OBVIOUS
<1>1. [u \in Users |-> subscription[u].creditsRemaining] \in [Users -> {0, FREE_TIER_CREDITS}]
  BY DEF Init, SubscriptionInit, NoSubscription, createFree
<1>2. [r \in Requests |-> outcomeOf(pc[r])] = [r \in Requests |-> "none"]
  BY DEF Init, outcomeOf
<1>3. [u \in Users |-> InFlight(u)] = [u \in Users |-> {}]
  BY DEF Init, InFlight
<1> QED
  BY <1>1, <1>2, <1>3 DEF Ledger!Init, Init

LEMMA LedgerCorrect == Spec => []LedgerInv
  BY LedgerInit, LedgerNext, PTL DEF Spec

\* Billing as the program runs it, the requests of a user overlapping, is the
\* ledger, for any users, requests, amounts and free tier: a deduction is
\* applied or refused as the balance says, a failed save changes nothing, and
\* only a request that was overtaken moves a balance by anything else than its
\* amount.
THEOREM BillingImplementsLedger == Spec => ImplementsLedger
<1>1. Init => Ledger!Init
  BY InitRefines
<1>2. LedgerInv /\ LedgerInv' /\ [Next]_vars => [Ledger!Next]_(Ledger!ledgerVars)
  BY StepRefines
<1> QED
  BY <1>1, <1>2, LedgerCorrect, PTL DEF Spec, ImplementsLedger, Ledger!Spec

\* The row is the ledger of its user, free tier plus grants minus deductions,
\* of every user of whom no save was overtaken, overlap as requests may.
THEOREM BillingBalance == Spec => []BalanceIsLedger
<1>1. LedgerInv => BalanceIsLedger
  BY DEF LedgerInv
<1> QED
  BY <1>1, LedgerCorrect, PTL
=============================================================================
