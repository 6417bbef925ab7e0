------------------------- MODULE RegistrationProofs -------------------------
(***************************************************************************)
(* Proofs about Registration, for any number of requests for the address,  *)
(* of clicks on their links and of faults.                                 *)
(*                                                                         *)
(* RegistrationIsAllOrNothing speaks of the ends; to get there the         *)
(* invariant says of every step of the use case which rows there are, and  *)
(* that no click makes or takes one.  That the address is unique is part   *)
(* of the type invariant, and follows on the way.                          *)
(***************************************************************************)
EXTENDS Registration, TLAPS

-----------------------------------------------------------------------------
\* Before the insert, and after a refusal or a rollback, there is no row.
NoRowsYet ==
  \A r \in Registrations :
    registration[r] \in {"idle", "creating", "refused", "failed"} => ~Exists(r)

\* From the insert to the answer, or to the rollback, the rows are there.
RowsAreThere ==
  \A r \in Registrations :
    registration[r] \in {"linking", "mailing", "subscribing", "undoing", "answered"} => Exists(r)

\* The subscription is created behind the mail, and the answer behind both.
MailComesFirst ==
  \A r \in Registrations :
    /\ registration[r] \in {"subscribing", "answered"} => r \in mailed
    /\ registration[r] = "answered" => account[r].subscribed

RegistrationInv ==
  RegistrationTypeOK /\ NoRowsYet /\ RowsAreThere /\ MailComesFirst

LEMMA NoAccountIsNone == \A row \in Account : row # NoAccount
  BY DEF Account, NoAccount

LEMMA CreateUserIsAccount == createUser \in Account /\ ~createUser.subscribed
  BY DEF createUser, Account

\* What a click may do to a row: the token or the status, nothing else.
LEMMA RowUpdates ==
  ASSUME NEW row \in Account
  PROVE  /\ \A b \in BOOLEAN :
              /\ [row EXCEPT !.linked = b] \in Account
              /\ [row EXCEPT !.linked = b].subscribed = row.subscribed
         /\ [row EXCEPT !.status = "ACTIVE"] \in Account
         /\ [row EXCEPT !.status = "ACTIVE"].subscribed = row.subscribed
         /\ [row EXCEPT !.subscribed = TRUE] \in Account
         /\ [row EXCEPT !.subscribed = TRUE].subscribed
<1>1. ASSUME NEW b \in BOOLEAN PROVE [row EXCEPT !.linked = b] \in Account
  BY Zenon DEF Account
<1>2. ASSUME NEW b \in BOOLEAN
      PROVE  [row EXCEPT !.linked = b].subscribed = row.subscribed
  BY Zenon DEF Account
<1>3. [row EXCEPT !.status = "ACTIVE"] \in Account
  BY Zenon DEF Account
<1>4. [row EXCEPT !.status = "ACTIVE"].subscribed = row.subscribed
  BY Zenon DEF Account
<1>5. [row EXCEPT !.subscribed = TRUE] \in Account
  BY Zenon DEF Account
<1>6. [row EXCEPT !.subscribed = TRUE].subscribed
  BY Zenon DEF Account
<1> QED
  BY <1>1, <1>2, <1>3, <1>4, <1>5, <1>6

LEMMA RegistrationInitially == RegistrationInit => RegistrationInv
  BY DEF RegistrationInit, RegistrationInv, RegistrationTypeOK, NoRowsYet, RowsAreThere,
         MailComesFirst, RegistrationControl, ClickControl, Exists, findByEmail

\* A row that is written over stays a row, and no other comes or goes.
LEMMA RowWritten ==
  ASSUME RegistrationInv, NEW r \in Registrations, Exists(r), NEW row \in Account,
         saveAccount(r, row)
  PROVE  /\ account' \in [Registrations -> Account \union {NoAccount}]
         /\ account'[r] = row
         /\ \A q \in Registrations : q # r => account'[q] = account[q]
         /\ \A q \in Registrations : Exists(q)' <=> Exists(q)
         /\ (\A p, q \in findByEmail : p = q)'
<1>1. account \in [Registrations -> Account \union {NoAccount}] /\ row # NoAccount
  BY NoAccountIsNone DEF RegistrationInv, RegistrationTypeOK
<1>2. /\ account' \in [Registrations -> Account \union {NoAccount}]
      /\ account'[r] = row
      /\ \A q \in Registrations : q # r => account'[q] = account[q]
  BY <1>1 DEF saveAccount
<1>3. \A q \in Registrations : Exists(q)' <=> Exists(q)
  BY <1>1, <1>2 DEF Exists
<1>4. findByEmail' = findByEmail
  BY <1>3 DEF findByEmail
<1> QED
  BY <1>2, <1>3, <1>4 DEF RegistrationInv, RegistrationTypeOK

\* A step that changes no row but one it writes over, and of the requests at
\* most where one is, keeps the invariant if that one may be there.
LEMMA ClicksKeepInv ==
  ASSUME RegistrationInv, UNCHANGED <<registration, mailed>>,
         click' \in [Clicks -> ClickControl],
         clicked' \in [Clicks -> Registrations \union {"none"}],
         \/ UNCHANGED account
         \/ \E r \in Registrations, row \in Account :
              Exists(r) /\ row.subscribed = account[r].subscribed /\ saveAccount(r, row)
  PROVE  RegistrationInv'
<1>1. CASE UNCHANGED account
  BY <1>1 DEF RegistrationInv, RegistrationTypeOK, NoRowsYet, RowsAreThere, MailComesFirst,
              Exists, findByEmail
<1>2. ASSUME NEW r \in Registrations, NEW row \in Account,
             Exists(r), row.subscribed = account[r].subscribed, saveAccount(r, row)
      PROVE  RegistrationInv'
  <2>1. /\ account' \in [Registrations -> Account \union {NoAccount}]
        /\ \A q \in Registrations : Exists(q)' <=> Exists(q)
        /\ \A q \in Registrations : account'[q].subscribed = account[q].subscribed
        /\ (\A p, q \in findByEmail : p = q)'
    BY <1>2, RowWritten
  <2> QED
    BY <2>1 DEF RegistrationInv, RegistrationTypeOK, NoRowsYet, RowsAreThere, MailComesFirst
<1> QED
  BY <1>1, <1>2

LEMMA RegistrationStep ==
  RegistrationInv /\ [RegistrationNext]_registrationVars => RegistrationInv'
<1> SUFFICES ASSUME RegistrationInv, [RegistrationNext]_registrationVars
             PROVE  RegistrationInv'
  OBVIOUS
<1>0. /\ account \in [Registrations -> Account \union {NoAccount}]
      /\ registration \in [Registrations -> RegistrationControl]
      /\ click \in [Clicks -> ClickControl]
      /\ clicked \in [Clicks -> Registrations \union {"none"}]
  BY DEF RegistrationInv, RegistrationTypeOK
\* Where the rows stay as they are, it is enough to look at the one request.
<1>1. ASSUME NEW r \in Registrations, NEW label \in RegistrationControl,
             RegistrationTo(r, label), UNCHANGED <<account, click, clicked>>,
             mailed \subseteq mailed', mailed' \subseteq Registrations,
             label \in {"idle", "creating", "refused", "failed"} => ~Exists(r),
             label \in {"linking", "mailing", "subscribing", "undoing", "answered"} => Exists(r),
             label \in {"subscribing", "answered"} => r \in mailed',
             label = "answered" => account[r].subscribed
      PROVE  RegistrationInv'
  BY <1>0, <1>1 DEF RegistrationInv, RegistrationTypeOK, NoRowsYet, RowsAreThere,
                    MailComesFirst, RegistrationTo, Exists, findByEmail
<1>2. ASSUME NEW r \in Registrations, CheckEmail(r) PROVE RegistrationInv'
  <2>1. ~Exists(r)
    BY <1>2 DEF CheckEmail, RegistrationInv, NoRowsYet
  <2> QED
    BY <1>1, <1>2, <2>1 DEF CheckEmail, RegistrationControl, RegistrationInv, RegistrationTypeOK
<1>3. ASSUME NEW r \in Registrations, CreateUser(r) PROVE RegistrationInv'
  <2>1. ~Exists(r)
    BY <1>3 DEF CreateUser, RegistrationInv, NoRowsYet
  <2>2. CASE findByEmail # {}
    BY <1>1, <1>3, <2>1, <2>2
    DEF CreateUser, RegistrationControl, RegistrationInv, RegistrationTypeOK
  <2>3. CASE findByEmail = {}
    <3>1. /\ account' = [account EXCEPT ![r] = createUser]
          /\ registration' = [registration EXCEPT ![r] = "linking"]
          /\ UNCHANGED <<mailed, click, clicked>>
      BY <1>3, <2>3 DEF CreateUser, saveAccount, RegistrationTo
    <3>2. \A q \in Registrations : Exists(q)' <=> q = r
      BY <1>0, <2>3, <3>1, CreateUserIsAccount, NoAccountIsNone DEF Exists, findByEmail
    <3>3. RegistrationTypeOK'
      BY <1>0, <3>1, <3>2, CreateUserIsAccount
      DEF RegistrationInv, RegistrationTypeOK, RegistrationControl, findByEmail
    <3>4. \A q \in Registrations : q # r => ~Exists(q)
      BY <2>3 DEF findByEmail
    <3> QED
      BY <1>0, <3>1, <3>2, <3>3, <3>4
      DEF RegistrationInv, NoRowsYet, RowsAreThere, MailComesFirst
  <2> QED
    BY <2>2, <2>3
<1>4. ASSUME NEW r \in Registrations, StoreVerificationToken(r) PROVE RegistrationInv'
  <2> DEFINE row == [account[r] EXCEPT !.linked = TRUE]
  <2>1. Exists(r) /\ account[r] \in Account
    BY <1>0, <1>4 DEF StoreVerificationToken, RegistrationInv, RowsAreThere, Exists
  <2>2. row \in Account /\ row.subscribed = account[r].subscribed
    BY <2>1, RowUpdates
  <2>3. /\ saveAccount(r, row)
        /\ registration' = [registration EXCEPT ![r] = "mailing"]
        /\ UNCHANGED <<mailed, click, clicked>>
    BY <1>4, <2>1 DEF StoreVerificationToken, updateVerificationToken, RegistrationTo
  <2> HIDE DEF row
  <2>4. /\ account' \in [Registrations -> Account \union {NoAccount}]
        /\ \A q \in Registrations : Exists(q)' <=> Exists(q)
        /\ \A q \in Registrations : account'[q].subscribed = account[q].subscribed
        /\ (\A p, q \in findByEmail : p = q)'
    BY <2>1, <2>2, <2>3, RowWritten
  <2> QED
    BY <1>0, <2>1, <2>3, <2>4
    DEF RegistrationInv, RegistrationTypeOK, NoRowsYet, RowsAreThere, MailComesFirst,
        RegistrationControl
<1>5. ASSUME NEW r \in Registrations, SendVerificationEmail(r) PROVE RegistrationInv'
  <2>1. Exists(r)
    BY <1>5 DEF SendVerificationEmail, RegistrationInv, RowsAreThere
  <2> QED
    BY <1>1, <1>5, <2>1
    DEF SendVerificationEmail, RegistrationControl, RegistrationInv, RegistrationTypeOK
<1>6. ASSUME NEW r \in Registrations, SendFails(r) PROVE RegistrationInv'
  <2>1. Exists(r)
    BY <1>6 DEF SendFails, RegistrationInv, RowsAreThere
  <2> QED
    BY <1>1, <1>6, <2>1
    DEF SendFails, RegistrationControl, RegistrationInv, RegistrationTypeOK
<1>7. ASSUME NEW r \in Registrations, CreateSubscription(r) PROVE RegistrationInv'
  <2> DEFINE row == [account[r] EXCEPT !.subscribed = TRUE]
  <2>1. Exists(r) /\ account[r] \in Account /\ r \in mailed
    BY <1>0, <1>7 DEF CreateSubscription, RegistrationInv, RowsAreThere, MailComesFirst, Exists
  <2>2. row \in Account /\ row.subscribed
    BY <2>1, RowUpdates
  <2>3. /\ saveAccount(r, row)
        /\ registration' = [registration EXCEPT ![r] = "answered"]
        /\ UNCHANGED <<mailed, click, clicked>>
    BY <1>7 DEF CreateSubscription, RegistrationTo
  <2> HIDE DEF row
  <2>4. /\ account' \in [Registrations -> Account \union {NoAccount}]
        /\ \A q \in Registrations : Exists(q)' <=> Exists(q)
        /\ account'[r].subscribed
        /\ \A q \in Registrations : q # r => account'[q] = account[q]
        /\ (\A p, q \in findByEmail : p = q)'
    BY <2>1, <2>2, <2>3, RowWritten
  <2> QED
    BY <1>0, <2>1, <2>3, <2>4
    DEF RegistrationInv, RegistrationTypeOK, NoRowsYet, RowsAreThere, MailComesFirst,
        RegistrationControl
<1>8. ASSUME NEW r \in Registrations, SubscriptionFails(r) PROVE RegistrationInv'
  <2>1. Exists(r)
    BY <1>8 DEF SubscriptionFails, RegistrationInv, RowsAreThere
  <2> QED
    BY <1>1, <1>8, <2>1
    DEF SubscriptionFails, RegistrationControl, RegistrationInv, RegistrationTypeOK
<1>9. ASSUME NEW r \in Registrations, DeleteUser(r) PROVE RegistrationInv'
  <2>1. /\ account' = [account EXCEPT ![r] = NoAccount]
        /\ registration' = [registration EXCEPT ![r] = "failed"]
        /\ UNCHANGED <<mailed, click, clicked>>
    BY <1>9 DEF DeleteUser, saveAccount, RegistrationTo
  <2>2. \A q \in Registrations : Exists(q)' <=> Exists(q) /\ q # r
    BY <1>0, <2>1 DEF Exists
  <2>3. RegistrationTypeOK'
    BY <1>0, <2>1, <2>2
    DEF RegistrationInv, RegistrationTypeOK, RegistrationControl, findByEmail
  <2> QED
    BY <1>0, <2>1, <2>2, <2>3
    DEF RegistrationInv, NoRowsYet, RowsAreThere, MailComesFirst
<1>10. ASSUME NEW r \in Registrations, RegistrationStops(r) PROVE RegistrationInv'
  BY <1>1, <1>10
  DEF RegistrationStops, RegistrationControl, RegistrationInv, RegistrationTypeOK
<1>11. ASSUME NEW k \in Clicks, NEW r \in Registrations, FindVerificationToken(k, r)
       PROVE  RegistrationInv'
  BY <1>0, <1>11, ClicksKeepInv DEF FindVerificationToken, ClickTo, ClickControl
<1>12. ASSUME NEW k \in Clicks, VerifyEmail(k) PROVE RegistrationInv'
  <2>1. CASE UNCHANGED account
    BY <1>0, <1>12, <2>1, ClicksKeepInv DEF VerifyEmail, ClickTo, ClickControl
  <2>2. CASE verifyUser(clicked[k]) /\ ClickTo(k, "unlinking")
    <3> DEFINE r == clicked[k]
               row == [account[r] EXCEPT !.status = "ACTIVE"]
    <3>0. UNCHANGED <<registration, mailed, clicked>>
      BY <1>12 DEF VerifyEmail
    <3>2. CASE r \in Registrations
      <4>1. Exists(r) /\ saveAccount(r, row) /\ account[r] \in Account
        BY <1>0, <2>2, <3>2 DEF verifyUser, Exists
      <4>2. row \in Account /\ row.subscribed = account[r].subscribed
        BY <4>1, RowUpdates
      <4>3. click' \in [Clicks -> ClickControl]
        BY <1>0, <2>2 DEF ClickTo, ClickControl
      <4> HIDE DEF row, r
      <4> QED
        BY <1>0, <3>0, <3>2, <4>1, <4>2, <4>3, ClicksKeepInv
    <3>3. CASE r \notin Registrations
      <4>1. account' = account
        BY <1>0, <2>2, <3>3 DEF verifyUser, saveAccount
      <4> QED
        BY <1>0, <2>2, <3>0, <4>1, ClicksKeepInv DEF ClickTo, ClickControl
    <3> QED
      BY <3>2, <3>3
  <2> QED
    BY <1>12, <2>1, <2>2 DEF VerifyEmail
<1>13. ASSUME NEW k \in Clicks, ClearVerificationToken(k) PROVE RegistrationInv'
  <2> DEFINE r == clicked[k]
             row == [account[r] EXCEPT !.linked = FALSE]
  <2>0. /\ UNCHANGED <<registration, mailed, clicked>>
        /\ click' \in [Clicks -> ClickControl]
    BY <1>0, <1>13 DEF ClearVerificationToken, ClickTo, ClickControl
  <2>1. CASE UNCHANGED account
    BY <1>0, <2>0, <2>1, ClicksKeepInv
  <2>2. CASE Exists(r) /\ saveAccount(r, row) /\ r \in Registrations
    <3>1. account[r] \in Account
      BY <1>0, <2>2 DEF Exists
    <3>2. row \in Account /\ row.subscribed = account[r].subscribed
      BY <3>1, RowUpdates
    <3> HIDE DEF row, r
    <3> QED
      BY <1>0, <2>0, <2>2, <3>2, ClicksKeepInv
  <2>3. CASE saveAccount(r, row) /\ r \notin Registrations
    <3>1. account' = account
      BY <1>0, <2>3 DEF saveAccount
    <3> QED
      BY <2>1, <3>1
  <2> QED
    BY <1>13, <2>1, <2>2, <2>3 DEF ClearVerificationToken, updateVerificationToken
<1>14. ASSUME NEW k \in Clicks, VerificationFails(k) PROVE RegistrationInv'
  BY <1>0, <1>14, ClicksKeepInv DEF VerificationFails, ClickTo, ClickControl
<1>15. CASE UNCHANGED registrationVars
  BY <1>15 DEF registrationVars, RegistrationInv, RegistrationTypeOK, NoRowsYet, RowsAreThere,
               MailComesFirst, Exists, findByEmail
<1> QED
  BY <1>2, <1>3, <1>4, <1>5, <1>6, <1>7, <1>8, <1>9, <1>10, <1>11, <1>12, <1>13, <1>14, <1>15
  DEF RegistrationNext

LEMMA RegistrationSafe == RegistrationInv => RegistrationIsAllOrNothing
BY DEF RegistrationInv, NoRowsYet, RowsAreThere, MailComesFirst, RegistrationIsAllOrNothing

\* Whatever requests for the address and clicks on its links come in between,
\* and whatever fails: a user who is answered has a row, a link in the mail
\* and the free credits, and an error leaves nothing that blocks the address.
THEOREM RegistrationAtomic == RegistrationSpec => []RegistrationIsAllOrNothing
<1>1. [RegistrationNext]_<<registrationVars, faults>> => [RegistrationNext]_registrationVars
  OBVIOUS
<1> QED
  BY RegistrationInitially, RegistrationStep, RegistrationSafe, <1>1, PTL DEF RegistrationSpec
=============================================================================
