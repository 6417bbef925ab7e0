------------------------------ MODULE Sessions ------------------------------
(***************************************************************************)
(* The sessions and the password of one user: login, refresh, logout,      *)
(* revocation, change and reset of the password, as calls that overlap.    *)
(*                                                                         *)
(* A call is a chain of awaits; a session is read, changed in memory and   *)
(* written back whole.  A refresh token is a signature over the user and   *)
(* the second in which it was made, and nothing else: the tokens of one    *)
(* user are the seconds of the clock.                                      *)
(***************************************************************************)
EXTENDS Faults

CONSTANTS
  MaxCalls,    \* bound on the calls, numbered as they arrive
  MaxSeconds   \* bound on the clock

ASSUME MaxCallsIsNat == MaxCalls \in Nat
ASSUME MaxSecondsIsNat == MaxSeconds \in Nat

VARIABLES
  clock,       \* the second it is
  session,     \* the table: id -> row; the id of a login's session is the call's
  credential,  \* the password (who set it) and the reset token stored with it
  serving,     \* call -> where it is
  work,        \* call -> what it holds
  links,       \* reset links that were mailed, named by the call that asked
  retired,     \* history: <<session, token>> that a call ended or replaced
               \* while no refresh of that session was in flight
  overtaken,   \* history: logins, changes and resets in flight when another
               \* call changed the password
  changed      \* history: the calls that changed the password

sessionsVars ==
  <<clock, session, credential, serving, work, links, retired, overtaken, changed>>

-----------------------------------------------------------------------------
(***************************************************************************)
(* The entity and the two repositories.                                    *)
(***************************************************************************)

CallIds == 1..MaxCalls

\* What was there before the first call: a session, a password.
INITIAL == 0

Tokens == 0..MaxSeconds

NoSession == [token |-> MaxSeconds + 1, revoked |-> FALSE, password |-> INITIAL]

\* The password of a row is history: the one its login was made with.
Session ==
  [token : Tokens, revoked : BOOLEAN, password : CallIds \union {INITIAL}]

NoLink == INITIAL

createSession(token, password) ==
  [token |-> token, revoked |-> FALSE, password |-> password]

rotate(entity, token) == [entity EXCEPT !.token = token]

\* Fault seeded in revoke: the date is returned and not set.
revoke_unset(entity) == entity

revoke(entity) == [entity EXCEPT !.revoked = TRUE]

Live(s) == session[s] # NoSession /\ ~session[s].revoked

findByTokenHash(token) == {s \in DOMAIN session : session[s].token = token}

\* The hash is unique: a second row cannot have it.
IsFree(token, s) == findByTokenHash(token) \subseteq {s}

saveSession(s, row) == session' = [session EXCEPT ![s] = row]

\* Fault seeded in updatePassword: the reset token is left.
updatePassword_linked(c) == credential' = [credential EXCEPT !.password = c]

updatePassword(c) == credential' = [password |-> c, resetToken |-> NoLink]

\* The newest link replaces the one that was stored.
updatePasswordResetToken(c) == credential' = [credential EXCEPT !.resetToken = c]

\* The expiry is not read back with the link, and refuses nothing.
findByPasswordResetToken(l) == credential.resetToken = l

-----------------------------------------------------------------------------
(***************************************************************************)
(* States.                                                                 *)
(***************************************************************************)

Serving == {"signing", "saving", "updating", "revoking", "changing", "deleting", "mailing"}

CallControl == {"idle", "done", "refused", "failed"} \union Serving

Op == {"none", "login", "refresh", "logout", "revoke", "change", "forgot", "reset"}

Work ==
  [op : Op,
   session : CallIds \union {INITIAL},    \* the session it found
   entity : Session \union {NoSession},   \* its copy of the row
   password : CallIds \union {INITIAL},   \* the password it checked
   link : CallIds \union {NoLink}]        \* the link that was followed

NoWork ==
  [op |-> "none", session |-> INITIAL, entity |-> NoSession,
   password |-> INITIAL, link |-> NoLink]

SessionsTypeOK ==
  /\ clock \in Tokens
  /\ session \in [CallIds \union {INITIAL} -> Session \union {NoSession}]
  /\ credential \in [password : CallIds \union {INITIAL}, resetToken : CallIds \union {NoLink}]
  /\ serving \in [CallIds -> CallControl]
  /\ work \in [CallIds -> Work]
  /\ links \subseteq CallIds
  /\ retired \subseteq (CallIds \union {INITIAL}) \X Tokens
  /\ overtaken \subseteq CallIds
  /\ changed \subseteq CallIds

SessionsInit ==
  /\ clock = 0
  /\ session = [s \in CallIds \union {INITIAL} |->
       IF s = INITIAL THEN createSession(0, INITIAL) ELSE NoSession]
  /\ credential = [password |-> INITIAL, resetToken |-> NoLink]
  /\ serving = [c \in CallIds |-> "idle"]
  /\ work = [c \in CallIds |-> NoWork]
  /\ links = {}
  /\ retired = {}
  /\ overtaken = {}
  /\ changed = {}

\* Calls take their numbers in the order of their arrival.
Arrives(c) ==
  /\ serving[c] = "idle"
  /\ \A d \in CallIds : d < c => serving[d] # "idle"

CallTo(c, label) == serving' = [serving EXCEPT ![c] = label]

\* No refresh but c itself holds a copy of session s.
Alone(c, s) ==
  \A d \in CallIds \ {c} :
    serving[d] \in {"signing", "updating"} /\ work[d].op = "refresh" => work[d].session # s

-----------------------------------------------------------------------------
(***************************************************************************)
(* Login.                                                                  *)
(***************************************************************************)

\* The password typed is compared with the one that was read; a wrong one is
\* refused.
FindCredential(c) ==
  /\ Arrives(c)
  /\ \/ /\ work' = [work EXCEPT ![c] =
             [NoWork EXCEPT !.op = "login", !.password = credential.password]]
        /\ CallTo(c, "signing")
     \/ CallTo(c, "refused") /\ UNCHANGED work
  /\ NoFault
  /\ UNCHANGED <<clock, session, credential, links, retired, overtaken, changed>>

\* generateTokens: the second enters the token here, well before the save.
SignTokens(c) ==
  LET w == work[c] IN
  /\ serving[c] = "signing"
  /\ IF w.op = "login"
       THEN /\ work' = [work EXCEPT ![c].entity = createSession(clock, w.password)]
            /\ CallTo(c, "saving")
       ELSE /\ work' = [work EXCEPT ![c].entity = rotate(w.entity, clock)]
            /\ CallTo(c, "updating")
  /\ NoFault
  /\ UNCHANGED <<clock, session, credential, links, retired, overtaken, changed>>

\* A token that was signed in the same second is a duplicate, and the login a
\* conflict.  The audit log that follows swallows its errors.
SaveSession(c) ==
  /\ serving[c] = "saving"
  /\ IF findByTokenHash(work[c].entity.token) = {}
       THEN saveSession(c, work[c].entity) /\ CallTo(c, "done")
       ELSE CallTo(c, "refused") /\ UNCHANGED session
  /\ NoFault
  /\ UNCHANGED <<clock, credential, work, links, retired, overtaken, changed>>

-----------------------------------------------------------------------------
(***************************************************************************)
(* Refresh, logout and revocation.                                         *)
(***************************************************************************)

Hold(c, op, s, entity) ==
  work' = [work EXCEPT ![c] = [NoWork EXCEPT !.op = op, !.session = s, !.entity = entity]]

\* A token that is expired or in no row, or whose session is not valid.
RefuseToken(c) ==
  /\ Arrives(c)
  /\ CallTo(c, "refused")
  /\ NoFault
  /\ UNCHANGED <<clock, session, credential, work, links, retired, overtaken, changed>>

Refresh(c, token) ==
  /\ Arrives(c)
  /\ \E s \in findByTokenHash(token) :
       Live(s) /\ Hold(c, "refresh", s, session[s])
  /\ CallTo(c, "signing")
  /\ NoFault
  /\ UNCHANGED <<clock, session, credential, links, retired, overtaken, changed>>

Logout(c, token) ==
  /\ Arrives(c)
  /\ \E s \in findByTokenHash(token) : Hold(c, "logout", s, revoke(session[s]))
  /\ CallTo(c, "updating")
  /\ NoFault
  /\ UNCHANGED <<clock, session, credential, links, retired, overtaken, changed>>

\* The token a logout ends, or a refresh replaces once its second is past: in
\* that second the same token may be signed again.
Retired(c) ==
  LET s == work[c].session
      old == session[s].token
      new == work[c].entity.token
      replaced == new # old /\ old < clock
  IN  IF Alone(c, s) /\ (work[c].op = "logout" \/ replaced) THEN {<<s, old>>} ELSE {}

\* Fails when the row was deleted meanwhile, or another has the token.
UpdateSession(c) ==
  LET s == work[c].session
      e == work[c].entity
  IN
  /\ serving[c] = "updating"
  /\ IF session[s] # NoSession /\ IsFree(e.token, s)
       THEN /\ session' = [session EXCEPT ![s].token = e.token, ![s].revoked = e.revoked]
            /\ CallTo(c, "done")
            /\ retired' = retired \union Retired(c)
       ELSE CallTo(c, "refused") /\ UNCHANGED <<session, retired>>
  /\ NoFault
  /\ UNCHANGED <<clock, credential, work, links, overtaken, changed>>

FindById(c, s) ==
  /\ Arrives(c)
  /\ session[s] # NoSession
  /\ Hold(c, "revoke", s, NoSession)
  /\ CallTo(c, "revoking")
  /\ NoFault
  /\ UNCHANGED <<clock, session, credential, links, retired, overtaken, changed>>

RevokeById(c) ==
  LET s == work[c].session IN
  /\ serving[c] = "revoking"
  /\ IF session[s] # NoSession
       THEN /\ saveSession(s, revoke(session[s]))
            /\ CallTo(c, "done")
            /\ retired' = retired \union
                 (IF Alone(c, s) THEN {<<s, session[s].token>>} ELSE {})
       ELSE CallTo(c, "refused") /\ UNCHANGED <<session, retired>>
  /\ NoFault
  /\ UNCHANGED <<clock, credential, work, links, overtaken, changed>>

-----------------------------------------------------------------------------
(***************************************************************************)
(* The password.                                                           *)
(***************************************************************************)

ForgotPassword(c) ==
  /\ Arrives(c)
  /\ work' = [work EXCEPT ![c] = [NoWork EXCEPT !.op = "forgot"]]
  /\ updatePasswordResetToken(c)
  /\ CallTo(c, "mailing")
  /\ NoFault
  /\ UNCHANGED <<clock, session, links, retired, overtaken, changed>>

MailLink(c) ==
  /\ serving[c] = "mailing"
  /\ links' = links \union {c}
  /\ CallTo(c, "done")
  /\ NoFault
  /\ UNCHANGED <<clock, session, credential, work, retired, overtaken, changed>>

FindResetToken(c, l) ==
  /\ Arrives(c)
  /\ l \in links
  /\ IF findByPasswordResetToken(l)
       THEN /\ work' = [work EXCEPT ![c] = [NoWork EXCEPT !.op = "reset", !.link = l]]
            /\ CallTo(c, "changing")
       ELSE CallTo(c, "refused") /\ UNCHANGED work
  /\ NoFault
  /\ UNCHANGED <<clock, session, credential, links, retired, overtaken, changed>>

\* A wrong password is refused; see FindCredential.
CheckPassword(c) ==
  /\ Arrives(c)
  /\ work' = [work EXCEPT ![c] =
       [NoWork EXCEPT !.op = "change", !.password = credential.password]]
  /\ CallTo(c, "changing")
  /\ NoFault
  /\ UNCHANGED <<clock, session, credential, links, retired, overtaken, changed>>

\* Who holds a password, or a link, that is no longer the one of the row.
Overtakes(c) ==
  {d \in CallIds \ {c} :
     \/ work[d].op = "login" /\ serving[d] \in {"signing", "saving"}
     \/ serving[d] = "changing"}

\* Fault seeded in UpdatePassword: the sessions are left alone.
UpdatePassword_only(c) ==
  /\ serving[c] = "changing"
  /\ updatePassword(c)
  /\ CallTo(c, "done")
  /\ overtaken' = overtaken \union Overtakes(c)
  /\ changed' = changed \union {c}
  /\ NoFault
  /\ UNCHANGED <<clock, session, work, links, retired>>

UpdatePassword(c) ==
  /\ serving[c] = "changing"
  /\ updatePassword(c)
  /\ CallTo(c, "deleting")
  /\ overtaken' = overtaken \union Overtakes(c)
  /\ changed' = changed \union {c}
  /\ NoFault
  /\ UNCHANGED <<clock, session, work, links, retired>>

DeleteSessions(c) ==
  /\ serving[c] = "deleting"
  /\ session' = [s \in DOMAIN session |-> NoSession]
  /\ retired' = retired \union
       {<<s, session[s].token>> : s \in {r \in DOMAIN session : session[r] # NoSession}}
  /\ CallTo(c, "done")
  /\ NoFault
  /\ UNCHANGED <<clock, credential, work, links, overtaken, changed>>

-----------------------------------------------------------------------------

\* A call to the database or the mail server rejects, or the process stops.
CallFails(c) ==
  /\ serving[c] \in Serving
  /\ Fault
  /\ CallTo(c, "failed")
  /\ UNCHANGED <<clock, session, credential, work, links, retired, overtaken, changed>>

Tick ==
  /\ clock < MaxSeconds
  /\ clock' = clock + 1
  /\ NoFault
  /\ UNCHANGED <<session, credential, serving, work, links, retired, overtaken, changed>>

SessionsNext ==
  \/ Tick
  \/ \E c \in CallIds :
       \/ FindCredential(c) \/ SignTokens(c) \/ SaveSession(c)
       \/ RefuseToken(c) \/ UpdateSession(c) \/ RevokeById(c)
       \/ \E token \in Tokens : Refresh(c, token) \/ Logout(c, token)
       \/ \E s \in DOMAIN session : FindById(c, s)
       \/ ForgotPassword(c) \/ MailLink(c)
       \/ \E l \in CallIds : FindResetToken(c, l)
       \/ CheckPassword(c) \/ UpdatePassword(c) \/ DeleteSessions(c)
       \/ CallFails(c)

SessionsSpec ==
  /\ SessionsInit /\ FaultsInit
  /\ [][SessionsNext]_<<sessionsVars, faults>>

-----------------------------------------------------------------------------
(***************************************************************************)
(* Properties.                                                             *)
(***************************************************************************)

\* A token that a refresh replaced, or whose session was logged out, revoked
\* or deleted, opens that session no more: "Old refresh token invalidated when
\* used" (iam/README.md).  Not of a refresh within the second of the token,
\* nor while another refresh of the session is in flight.
RetiredTokensStayDead ==
  \A s \in DOMAIN session : Live(s) => <<s, session[s].token>> \notin retired

\* Once the change of a password is through, no session is left that was
\* opened with an older one: "Invalidates all sessions after password change"
\* (change-password.use-case.ts), unless its login was overtaken by the change
\* or the deletion failed.
OldPasswordsAreOut ==
  \A s \in DOMAIN session :
    session[s] # NoSession /\ session[s].password # credential.password =>
      \/ s \in overtaken
      \/ \E c \in CallIds : serving[c] = "deleting"
      \/ faults > 0

\* A link is good for one reset: of two that changed the password with it, one
\* had found the link in its row before the other changed it.  A reset that
\* arrives later is refused, whatever links were asked for or followed meanwhile.
LaterResetIsRefused ==
  \A c, d \in changed :
    c # d /\ work[c].op = "reset" /\ work[d].op = "reset" /\ work[c].link = work[d].link =>
      c \in overtaken \/ d \in overtaken
=============================================================================
