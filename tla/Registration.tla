---------------------------- MODULE Registration ----------------------------
(***************************************************************************)
(* Registration of one e-mail address and the verification of its link.    *)
(*                                                                         *)
(* RegisterUserUseCase makes three writes and sends a mail, each an await  *)
(* that commits alone; a mail that cannot be sent and a subscription that  *)
(* cannot be created are undone by deleting the user, everything else that *)
(* fails is not.  Several requests for the address may be served at once.  *)
(***************************************************************************)
EXTENDS Faults

CONSTANTS
  Registrations,   \* requests to register the address, and the user ids they draw
  Clicks           \* clicks on the link of a verification mail

VARIABLES
  account,        \* the tables User, AuthCredential, Subscription: id -> row
  registration,   \* request -> where RegisterUserUseCase is
  mailed,         \* requests whose verification mail was delivered
  click,          \* click -> where VerifyEmailUseCase is
  clicked         \* click -> the account whose link it is

registrationVars == <<account, registration, mailed, click, clicked>>

-----------------------------------------------------------------------------
(***************************************************************************)
(* The rows of one user.  A delete of the user cascades to the others.     *)
(***************************************************************************)

NoAccount == [status |-> "NONE", linked |-> FALSE, subscribed |-> FALSE]

Account ==
  [status : {"PENDING", "ACTIVE"},
   linked : BOOLEAN,       \* the hash of a verification token is stored
   subscribed : BOOLEAN]   \* the free subscription exists

\* User.create, its credential in the same write.
createUser == [status |-> "PENDING", linked |-> FALSE, subscribed |-> FALSE]

Exists(r) == account[r] # NoAccount

\* The address is unique.
findByEmail == {r \in Registrations : Exists(r)}

saveAccount(r, row) == account' = [account EXCEPT ![r] = row]

\* updateMany: no row, no change, no error.
updateVerificationToken(r, stored) ==
  IF Exists(r) THEN saveAccount(r, [account[r] EXCEPT !.linked = stored])
  ELSE UNCHANGED account

\* Of the row that a delete took away there is no hash left.
findByEmailVerificationToken(r) == account[r].linked

\* Refused by the database when the user is deleted by then.
verifyUser(r) == Exists(r) /\ saveAccount(r, [account[r] EXCEPT !.status = "ACTIVE"])

RegistrationControl ==
  {"idle", "creating", "linking", "mailing", "subscribing", "undoing",
   "answered", "refused", "failed", "abandoned"}

ClickControl == {"idle", "verifying", "unlinking", "done", "refused", "failed"}

RegistrationTypeOK ==
  /\ account \in [Registrations -> Account \union {NoAccount}]
  /\ registration \in [Registrations -> RegistrationControl]
  /\ mailed \subseteq Registrations
  /\ click \in [Clicks -> ClickControl]
  /\ clicked \in [Clicks -> Registrations \union {"none"}]
  /\ \A r, s \in findByEmail : r = s

RegistrationInit ==
  /\ account = [r \in Registrations |-> NoAccount]
  /\ registration = [r \in Registrations |-> "idle"]
  /\ mailed = {}
  /\ click = [k \in Clicks |-> "idle"]
  /\ clicked = [k \in Clicks |-> "none"]

-----------------------------------------------------------------------------
(***************************************************************************)
(* RegisterUserUseCase.                                                    *)
(***************************************************************************)

RegistrationTo(r, label) == registration' = [registration EXCEPT ![r] = label]

\* UserAlreadyExistsError, or on to the hash of the password and the insert.
CheckEmail(r) ==
  /\ registration[r] = "idle"
  /\ RegistrationTo(r, IF findByEmail # {} THEN "refused" ELSE "creating")
  /\ NoFault
  /\ UNCHANGED <<account, mailed, click, clicked>>

\* The unique address decides between requests that both found it free.
CreateUser(r) ==
  /\ registration[r] = "creating"
  /\ IF findByEmail # {}
       THEN RegistrationTo(r, "refused") /\ UNCHANGED account
       ELSE saveAccount(r, createUser) /\ RegistrationTo(r, "linking")
  /\ NoFault
  /\ UNCHANGED <<mailed, click, clicked>>

StoreVerificationToken(r) ==
  /\ registration[r] = "linking"
  /\ updateVerificationToken(r, TRUE)
  /\ RegistrationTo(r, "mailing")
  /\ NoFault
  /\ UNCHANGED <<mailed, click, clicked>>

SendVerificationEmail(r) ==
  /\ registration[r] = "mailing"
  /\ mailed' = mailed \union {r}
  /\ RegistrationTo(r, "subscribing")
  /\ NoFault
  /\ UNCHANGED <<account, click, clicked>>

\* The mail server refuses, or takes the mail and its answer is lost.
SendFails(r) ==
  /\ registration[r] = "mailing"
  /\ Fault
  /\ mailed' \in {mailed, mailed \union {r}}
  /\ RegistrationTo(r, "undoing")
  /\ UNCHANGED <<account, click, clicked>>

CreateSubscription(r) ==
  /\ registration[r] = "subscribing"
  /\ saveAccount(r, [account[r] EXCEPT !.subscribed = TRUE])
  /\ RegistrationTo(r, "answered")
  /\ NoFault
  /\ UNCHANGED <<mailed, click, clicked>>

\* Fault seeded in SubscriptionFails: the catch throws without the delete.
SubscriptionFails_kept(r) ==
  /\ registration[r] = "subscribing"
  /\ Fault
  /\ RegistrationTo(r, "failed")
  /\ UNCHANGED <<account, mailed, click, clicked>>

SubscriptionFails(r) ==
  /\ registration[r] = "subscribing"
  /\ Fault
  /\ RegistrationTo(r, "undoing")
  /\ UNCHANGED <<account, mailed, click, clicked>>

DeleteUser(r) ==
  /\ registration[r] = "undoing"
  /\ saveAccount(r, NoAccount)
  /\ RegistrationTo(r, "failed")
  /\ NoFault
  /\ UNCHANGED <<mailed, click, clicked>>

\* What no catch undoes: the token cannot be stored, the delete is refused,
\* the process stops.
RegistrationStops(r) ==
  /\ registration[r] \in {"creating", "linking", "mailing", "subscribing", "undoing"}
  /\ Fault
  /\ RegistrationTo(r, "abandoned")
  /\ UNCHANGED <<account, mailed, click, clicked>>

-----------------------------------------------------------------------------
(***************************************************************************)
(* VerifyEmailUseCase.  The link may be clicked as soon as the mail is in. *)
(***************************************************************************)

ClickTo(k, label) == click' = [click EXCEPT ![k] = label]

\* A token that is unknown, used or older than a day is refused.
FindVerificationToken(k, r) ==
  /\ click[k] = "idle"
  /\ r \in mailed
  /\ clicked' = [clicked EXCEPT ![k] = r]
  /\ \/ findByEmailVerificationToken(r) /\ ClickTo(k, "verifying")
     \/ ClickTo(k, "refused")
  /\ NoFault
  /\ UNCHANGED <<account, registration, mailed>>

VerifyEmail(k) ==
  /\ click[k] = "verifying"
  /\ \/ verifyUser(clicked[k]) /\ ClickTo(k, "unlinking")
     \/ ~Exists(clicked[k]) /\ ClickTo(k, "failed") /\ UNCHANGED account
  /\ NoFault
  /\ UNCHANGED <<registration, mailed, clicked>>

ClearVerificationToken(k) ==
  /\ click[k] = "unlinking"
  /\ updateVerificationToken(clicked[k], FALSE)
  /\ ClickTo(k, "done")
  /\ NoFault
  /\ UNCHANGED <<registration, mailed, clicked>>

VerificationFails(k) ==
  /\ click[k] \in {"verifying", "unlinking"}
  /\ Fault
  /\ ClickTo(k, "failed")
  /\ UNCHANGED <<account, registration, mailed, clicked>>

-----------------------------------------------------------------------------

RegistrationNext ==
  \/ \E r \in Registrations :
       \/ CheckEmail(r) \/ CreateUser(r) \/ StoreVerificationToken(r)
       \/ SendVerificationEmail(r) \/ SendFails(r)
       \/ CreateSubscription(r) \/ SubscriptionFails(r)
       \/ DeleteUser(r) \/ RegistrationStops(r)
  \/ \E k \in Clicks :
       \/ \E r \in Registrations : FindVerificationToken(k, r)
       \/ VerifyEmail(k) \/ ClearVerificationToken(k) \/ VerificationFails(k)

RegistrationSpec ==
  /\ RegistrationInit /\ FaultsInit
  /\ [][RegistrationNext]_<<registrationVars, faults>>

-----------------------------------------------------------------------------
(***************************************************************************)
(* Properties.                                                             *)
(***************************************************************************)

\* A user who is answered has everything, a link in the mail and the free
\* credits included; a request that is answered with an error and was not cut
\* short has left nothing, so that the address can be registered again.  Both
\* whatever other requests for the address and clicks come in between.
RegistrationIsAllOrNothing ==
  \A r \in Registrations :
    /\ registration[r] = "answered" =>
         Exists(r) /\ account[r].subscribed /\ r \in mailed
    /\ registration[r] \in {"refused", "failed"} => ~Exists(r)
=============================================================================
