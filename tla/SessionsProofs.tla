--------------------------- MODULE SessionsProofs ---------------------------
(***************************************************************************)
(* Proofs about Sessions, for any number of calls, however long the clock  *)
(* runs, and any number of faults.                                         *)
(*                                                                         *)
(* None of the three properties is inductive: each speaks of rows, and the *)
(* calls on their way hold what will be written to them.  The invariant    *)
(* therefore says what every call holds where it is (HoldsWhatItNeeds),    *)
(* which links it may follow (LinksAreKnown), with which password it will  *)
(* open a session (LoginsAreCurrent), and why each token that was retired  *)
(* cannot come back (RetiredAreDead, UnsavedHaveNoPast).                   *)
(***************************************************************************)
EXTENDS Sessions, TLAPS

Ids == CallIds \union {INITIAL}

-----------------------------------------------------------------------------
Unsaved(c) ==
  \/ serving[c] = "idle"
  \/ serving[c] \in {"signing", "saving"} /\ work[c].op = "login"

Refreshing(c, s) ==
  serving[c] \in {"signing", "updating"} /\ work[c].op = "refresh" /\ work[c].session = s

\* What a call holds at a label, for the step that follows.
Holds(label, w) ==
  /\ label = "signing" => w.op \in {"login", "refresh"}
  /\ label = "saving" =>
       w.op = "login" /\ w.entity \in Session /\ w.entity.password = w.password
  /\ label = "updating" => w.op \in {"refresh", "logout"} /\ w.entity \in Session
  /\ label = "updating" /\ w.op = "logout" => w.entity.revoked
  /\ label = "revoking" => w.op = "revoke"
  /\ w.op = "reset" => label \in {"changing", "deleting", "done", "failed"}

HoldsWhatItNeeds == \A c \in CallIds : Holds(serving[c], work[c])

\* A link that is followed was mailed, and so asked for by an earlier call.
LinksAreKnown ==
  /\ \A l \in links : serving[l] # "idle"
  /\ \A c \in CallIds : work[c].op = "reset" => work[c].link \in links

LoginsAreCurrent ==
  \A c \in CallIds :
    serving[c] \in {"signing", "saving"} /\ work[c].op = "login" =>
      work[c].password = credential.password \/ c \in overtaken

\* A token that was retired is of the past, and neither in the row nor in the
\* hands of a refresh; or its session is ended for good.
Dead(s, t) ==
  \/ /\ t < clock
     /\ Live(s) => session[s].token # t
     /\ \A c \in CallIds :
          serving[c] = "updating" /\ Refreshing(c, s) => work[c].entity.token # t
  \/ ~Live(s) /\ \A c \in CallIds : ~Refreshing(c, s)
  \/ session[s] = NoSession

RetiredAreDead == \A s \in Ids, t \in Tokens : <<s, t>> \in retired => Dead(s, t)

\* A session that is still to be saved has no row yet, and no history.
UnsavedHaveNoPast ==
  \A c \in CallIds :
    Unsaved(c) => session[c] = NoSession /\ \A t \in Tokens : <<c, t>> \notin retired

\* A call that changed the password is through with its link, and its link is
\* stored no more: who would follow it found it before.
LinksAreSpent ==
  /\ \A c \in changed :
       /\ serving[c] \in {"deleting", "done", "failed"}
       /\ work[c].op = "reset" => credential.resetToken # work[c].link
  /\ \A c \in changed, d \in CallIds :
       /\ work[c].op = "reset" /\ work[d].op = "reset" /\ work[c].link = work[d].link
       /\ serving[d] = "changing"
       => d \in overtaken
  /\ LaterResetIsRefused

SessionsInv ==
  /\ SessionsTypeOK /\ faults \in Nat
  /\ HoldsWhatItNeeds /\ LinksAreKnown /\ LoginsAreCurrent
  /\ RetiredAreDead /\ UnsavedHaveNoPast
  /\ OldPasswordsAreOut /\ LinksAreSpent

\* What the steps of a process leave of the count of its faults.
FaultsGrow == faults' \in Nat /\ faults' >= faults

-----------------------------------------------------------------------------
(***************************************************************************)
(* What the records are.                                                   *)
(***************************************************************************)

LEMMA NoSessionIsNone == \A row \in Session : row # NoSession
<1>1. MaxSeconds + 1 \notin Tokens
  BY MaxSecondsIsNat DEF Tokens
<1> QED
  BY <1>1 DEF Session, NoSession

LEMMA SessionRowUpdates ==
  ASSUME NEW row \in Session \union {NoSession}, NEW t \in Tokens
  PROVE  /\ rotate(row, t) \in Session /\ rotate(row, t).token = t
         /\ row \in Session => revoke(row) \in Session
         /\ revoke(row).revoked
<1>1. CASE row \in Session
  <2>1. rotate(row, t) \in Session /\ revoke(row) \in Session
    BY Zenon, <1>1 DEF rotate, revoke, Session
  <2>2. rotate(row, t).token = t /\ revoke(row).revoked
    BY Zenon, <1>1 DEF rotate, revoke, Session
  <2> QED
    BY <2>1, <2>2
<1>2. CASE row = NoSession
  <2>1. NoSession \in [token : Tokens \union {MaxSeconds + 1}, revoked : BOOLEAN, password : Ids]
    BY DEF NoSession, Ids
  <2>2. rotate(row, t) \in
          [token : Tokens \union {MaxSeconds + 1}, revoked : BOOLEAN, password : Ids]
    BY Zenon, <1>2, <2>1 DEF rotate
  <2>3. rotate(row, t).token = t /\ revoke(row).revoked
    BY Zenon, <1>2, <2>1 DEF rotate, revoke
  <2> QED
    BY <1>2, <2>2, <2>3, NoSessionIsNone DEF Session, Ids
<1> QED
  BY <1>1, <1>2

LEMMA NewRow ==
  ASSUME NEW t \in Tokens, NEW p \in Ids
  PROVE  /\ createSession(t, p) \in Session
         /\ createSession(t, p).token = t /\ createSession(t, p).password = p
  BY DEF createSession, Session, Ids

\* A call that arrives holds what its first step puts into an empty record.
LEMMA NoWorkIsWork == NoWork \in Work /\ NoWork.op = "none"
  BY DEF NoWork, Work, Op, INITIAL, NoLink

LEMMA Arriving ==
  ASSUME NEW op \in Op
  PROVE  /\ [NoWork EXCEPT !.op = op] \in Work
         /\ [NoWork EXCEPT !.op = op].op = op
<1>1. [NoWork EXCEPT !.op = op] \in Work
  BY Zenon, NoWorkIsWork DEF Work
<1> QED
  BY <1>1, NoWorkIsWork DEF Work

LEMMA ArrivingWith ==
  ASSUME NEW op \in Op, NEW p \in Ids
  PROVE  /\ [NoWork EXCEPT !.op = op, !.password = p] \in Work
         /\ [NoWork EXCEPT !.op = op, !.password = p].op = op
         /\ [NoWork EXCEPT !.op = op, !.password = p].password = p
<1>1. [NoWork EXCEPT !.op = op, !.password = p] \in Work
  BY Zenon, NoWorkIsWork DEF Work, Ids
<1> QED
  BY <1>1, NoWorkIsWork DEF Work

LEMMA ArrivingBy ==
  ASSUME NEW op \in Op, NEW l \in Ids
  PROVE  /\ [NoWork EXCEPT !.op = op, !.link = l] \in Work
         /\ [NoWork EXCEPT !.op = op, !.link = l].op = op
         /\ [NoWork EXCEPT !.op = op, !.link = l].link = l
<1>1. Ids = CallIds \union {NoLink}
  BY DEF Ids, NoLink
<1>2. [NoWork EXCEPT !.op = op, !.link = l] \in Work
  BY Zenon, NoWorkIsWork, <1>1 DEF Work
<1> QED
  BY <1>2, NoWorkIsWork DEF Work

\* SignTokens changes the entity alone.
LEMMA EntitySigned ==
  ASSUME NEW w \in Work, NEW e \in Session
  PROVE  /\ [w EXCEPT !.entity = e] \in Work
         /\ [w EXCEPT !.entity = e].entity = e
         /\ [w EXCEPT !.entity = e].op = w.op
         /\ [w EXCEPT !.entity = e].session = w.session
         /\ [w EXCEPT !.entity = e].password = w.password
<1>1. [w EXCEPT !.entity = e] \in Work
  BY Zenon DEF Work
<1> QED
  BY <1>1 DEF Work

LEMMA SessionsInitially == SessionsInit /\ FaultsInit => SessionsInv
<1> SUFFICES ASSUME SessionsInit, FaultsInit PROVE SessionsInv
  OBVIOUS
<1>1. NoWork \in Work /\ NoWork.op = "none"
  BY NoWorkIsWork
<1>2. createSession(0, INITIAL) \in Session /\ createSession(0, INITIAL).password = INITIAL
  BY MaxSecondsIsNat DEF createSession, Session, Tokens, INITIAL
<1>3. INITIAL \notin CallIds
  BY DEF INITIAL, CallIds
<1>4. SessionsTypeOK
  BY <1>1, <1>2, MaxSecondsIsNat DEF SessionsInit, SessionsTypeOK, CallControl, Tokens, INITIAL, NoLink
<1>5. HoldsWhatItNeeds /\ LinksAreKnown /\ LoginsAreCurrent /\ LinksAreSpent
  BY <1>1 DEF SessionsInit, HoldsWhatItNeeds, Holds, LinksAreKnown, LoginsAreCurrent,
              LinksAreSpent, LaterResetIsRefused
<1>6. RetiredAreDead /\ UnsavedHaveNoPast
  BY <1>3 DEF SessionsInit, RetiredAreDead, UnsavedHaveNoPast
<1>7. OldPasswordsAreOut
  BY <1>2 DEF SessionsInit, OldPasswordsAreOut
<1> QED
  BY <1>4, <1>5, <1>6, <1>7 DEF SessionsInv, FaultsInit

-----------------------------------------------------------------------------
(***************************************************************************)
(* The steps that move one call, and write to no table.                    *)
(***************************************************************************)

LEMMA QuietStep ==
  ASSUME SessionsInv, FaultsGrow, NEW c \in CallIds,
         NEW label \in CallControl \ {"idle"}, NEW w \in Work,
         CallTo(c, label), work' = [work EXCEPT ![c] = w],
         UNCHANGED <<clock, session, credential, links, retired, overtaken, changed>>,
         Holds(label, w),
         w.op = "reset" => label \in {"changing", "failed"} /\ w.link \in links,
         label \in {"signing", "saving"} /\ w.op = "login" =>
           Unsaved(c) /\ (w.password = credential.password \/ c \in overtaken),
         label \in {"signing", "updating"} /\ w.op = "refresh" =>
           Live(w.session) \/ Refreshing(c, w.session),
         label = "updating" /\ w.op = "refresh" => w.entity.token = clock,
         serving[c] = "deleting" => faults' > 0,
         c \in changed => label = "failed" /\ w = work[c],
         w.op = "reset" /\ label = "changing" => findByPasswordResetToken(w.link)
  PROVE  SessionsInv'
<1>1. /\ serving \in [CallIds -> CallControl] /\ work \in [CallIds -> Work]
      /\ clock \in Tokens /\ clock \in Nat
  BY MaxSecondsIsNat DEF SessionsInv, SessionsTypeOK, Tokens
<1>2. /\ serving' \in [CallIds -> CallControl] /\ work' \in [CallIds -> Work]
      /\ serving'[c] = label /\ work'[c] = w
      /\ \A d \in CallIds : d # c => serving'[d] = serving[d] /\ work'[d] = work[d]
  BY <1>1 DEF CallTo
<1>3. SessionsTypeOK' /\ (faults \in Nat)'
  BY <1>2 DEF SessionsInv, SessionsTypeOK, FaultsGrow
<1>4. HoldsWhatItNeeds' /\ LinksAreKnown' /\ LinksAreSpent'
  <2>1. HoldsWhatItNeeds'
    BY <1>2 DEF SessionsInv, HoldsWhatItNeeds
  <2>2. LinksAreKnown'
    BY <1>1, <1>2 DEF SessionsInv, LinksAreKnown, SessionsTypeOK
  <2>3. LinksAreSpent'
    <3>1. \A d \in changed : work'[d] = work[d] /\ serving'[d] \in {"deleting", "done", "failed"}
      BY <1>2 DEF SessionsInv, SessionsTypeOK, LinksAreSpent
    <3>2. ASSUME NEW d \in changed, work'[d].op = "reset"
          PROVE  credential'.resetToken # work'[d].link
      BY <3>1, <3>2 DEF SessionsInv, LinksAreSpent
    <3>3. ASSUME NEW d \in changed, NEW e \in CallIds, work[d].op = "reset", work'[e].op = "reset",
                 work[d].link = work'[e].link, serving'[e] = "changing"
          PROVE  e \in overtaken
      <4>1. CASE e = c
        BY <1>2, <3>2, <3>1, <3>3, <4>1 DEF findByPasswordResetToken
      <4>2. CASE e # c
        BY <1>2, <3>3, <4>2 DEF SessionsInv, LinksAreSpent
      <4> QED
        BY <4>1, <4>2
    <3>4. LaterResetIsRefused'
      BY <3>1 DEF SessionsInv, LinksAreSpent, LaterResetIsRefused
    <3> QED
      BY <3>1, <3>2, <3>3, <3>4 DEF LinksAreSpent
  <2> QED
    BY <2>1, <2>2, <2>3
<1>5. LoginsAreCurrent'
  BY <1>2 DEF SessionsInv, LoginsAreCurrent
<1>6. RetiredAreDead'
  <2> SUFFICES ASSUME NEW s \in Ids, NEW t \in Tokens, <<s, t>> \in retired, Dead(s, t)
               PROVE  Dead(s, t)'
    BY DEF SessionsInv, RetiredAreDead
  <2>1. ~Refreshing(c, s)' \/ Refreshing(c, s) \/ Live(s)
    BY <1>2 DEF Refreshing
  <2>2. t < clock /\ serving'[c] = "updating" /\ Refreshing(c, s)' => work'[c].entity.token # t
    BY <1>1, <1>2 DEF Refreshing, Tokens
  <2> QED
    BY <1>2, <2>1, <2>2 DEF Dead, Live, Refreshing
<1>7. UnsavedHaveNoPast'
  BY <1>2 DEF SessionsInv, UnsavedHaveNoPast, Unsaved
<1>8. OldPasswordsAreOut'
  <2>1. (\E d \in CallIds : serving[d] = "deleting") /\ faults' = 0 =>
          \E d \in CallIds : serving'[d] = "deleting"
    BY <1>2 DEF FaultsGrow
  <2>2. faults > 0 => faults' > 0
    BY DEF FaultsGrow, SessionsInv
  <2> QED
    BY <2>1, <2>2 DEF SessionsInv, OldPasswordsAreOut, FaultsGrow
<1> QED
  BY <1>3, <1>4, <1>5, <1>6, <1>7, <1>8 DEF SessionsInv

\* A step of a call that is refused, or fails, and gives its work up.
LEMMA GivesUp ==
  ASSUME SessionsInv, FaultsGrow, NEW c \in CallIds,
         NEW label \in {"refused", "failed"}, CallTo(c, label),
         UNCHANGED <<clock, session, credential, work, links, retired, overtaken, changed>>,
         label = "refused" => work[c].op # "reset",
         work[c].op = "reset" \/ serving[c] = "deleting" => faults' > 0,
         label = "refused" => serving[c] \notin {"deleting", "done", "failed"}
  PROVE  SessionsInv'
<1>1. work[c] \in Work /\ work' = [work EXCEPT ![c] = work[c]]
  BY DEF SessionsInv, SessionsTypeOK
<1>2. Holds(label, work[c]) /\ (work[c].op = "reset" => work[c].link \in links)
  BY DEF SessionsInv, LinksAreKnown, Holds
<1>3. label \in CallControl \ {"idle"}
  BY DEF CallControl
<1>4. c \in changed => label = "failed"
  BY DEF SessionsInv, LinksAreSpent
<1> QED
  BY <1>1, <1>2, <1>3, <1>4, QuietStep

\* A call that arrives, with what its first step found.
LEMMA Arrived ==
  ASSUME SessionsInv, FaultsGrow, NEW c \in CallIds, serving[c] = "idle",
         NEW label \in {"signing", "updating", "revoking", "changing"}, CallTo(c, label),
         NEW w \in Work, work' = [work EXCEPT ![c] = w],
         UNCHANGED <<clock, session, credential, links, retired, overtaken, changed>>,
         \/ label = "signing" /\ w.op = "login" /\ w.password = credential.password
         \/ label = "signing" /\ w.op = "refresh" /\ Live(w.session)
         \/ label = "updating" /\ w.op = "logout" /\ w.entity \in Session /\ w.entity.revoked
         \/ label = "revoking" /\ w.op = "revoke"
         \/ label = "changing" /\ w.op = "change"
         \/ label = "changing" /\ w.op = "reset" /\ w.link \in links
            /\ findByPasswordResetToken(w.link)
  PROVE  SessionsInv'
<1>1. Holds(label, w) /\ Unsaved(c)
  BY DEF Holds, Unsaved
<1>2. label \in CallControl \ {"idle"}
  BY DEF CallControl, Serving
<1>3. c \notin changed
  BY DEF SessionsInv, LinksAreSpent
<1> QED
  BY <1>1, <1>2, <1>3, QuietStep

LEMMA QuietCalls ==
  ASSUME SessionsInv, FaultsGrow, NEW c \in CallIds,
         \/ FindCredential(c) \/ SignTokens(c) \/ RefuseToken(c)
         \/ CheckPassword(c) \/ CallFails(c)
         \/ \E token \in Tokens : Refresh(c, token) \/ Logout(c, token)
         \/ \E s \in DOMAIN session : FindById(c, s)
         \/ \E l \in CallIds : FindResetToken(c, l)
  PROVE  SessionsInv'
<1>0. /\ serving \in [CallIds -> CallControl] /\ work \in [CallIds -> Work]
      /\ session \in [Ids -> Session \union {NoSession}] /\ DOMAIN session = Ids
      /\ credential.password \in Ids /\ clock \in Tokens /\ links \subseteq CallIds
      /\ Holds(serving[c], work[c])
  BY DEF SessionsInv, SessionsTypeOK, HoldsWhatItNeeds, Ids
<1>1. CASE RefuseToken(c)
  BY <1>0, <1>1, GivesUp DEF RefuseToken, Arrives, Holds
<1>a. \A op \in {"login", "refresh", "logout", "revoke", "change", "forgot", "reset"} : op \in Op
  BY DEF Op
<1>2. CASE FindCredential(c)
  <2> DEFINE w == [NoWork EXCEPT !.op = "login", !.password = credential.password]
  <2>1. CASE CallTo(c, "refused") /\ UNCHANGED work
    BY <1>0, <1>2, <2>1, GivesUp DEF FindCredential, Arrives, Holds
  <2>2. CASE work' = [work EXCEPT ![c] = w] /\ CallTo(c, "signing")
    <3>1. w \in Work /\ w.op = "login" /\ w.password = credential.password
      BY Zenon, <1>0, <1>a, ArrivingWith
    <3>2. UNCHANGED <<clock, session, credential, links, retired, overtaken, changed>>
      BY <1>2 DEF FindCredential
    <3>3. serving[c] = "idle"
      BY <1>2 DEF FindCredential, Arrives
    <3> HIDE DEF w
    <3> QED
      BY <2>2, <3>1, <3>2, <3>3, Arrived
  <2> QED
    BY <1>2, <2>1, <2>2 DEF FindCredential
<1>3. CASE SignTokens(c)
  <2>0. /\ serving[c] = "signing" /\ work[c] \in Work
        /\ UNCHANGED <<clock, session, credential, links, retired, overtaken, changed>>
    BY <1>0, <1>3 DEF SignTokens
  <2>a. c \notin changed
    BY <2>0 DEF SessionsInv, LinksAreSpent
  <2>1. CASE work[c].op = "login"
    <3> DEFINE e == createSession(clock, work[c].password)
               w == [work[c] EXCEPT !.entity = e]
    <3>1. work' = [work EXCEPT ![c] = w] /\ CallTo(c, "saving")
      BY <1>0, <1>3, <2>1 DEF SignTokens
    <3>2. work[c].password \in Ids
      BY <2>0 DEF Work, Ids
    <3>3. e \in Session /\ e.password = work[c].password
      BY <1>0, <3>2, NewRow
    <3>4. w \in Work /\ w.entity = e /\ w.op = "login" /\ w.password = work[c].password
      BY Zenon, <2>0, <2>1, <3>3, EntitySigned
    <3>5. Unsaved(c) /\ (work[c].password = credential.password \/ c \in overtaken)
      BY <2>0, <2>1 DEF Unsaved, SessionsInv, LoginsAreCurrent
    <3>6. Holds("saving", w) /\ "saving" \in CallControl \ {"idle"}
      BY <3>3, <3>4 DEF Holds, CallControl, Serving
    <3> HIDE DEF w, e
    <3> QED
      BY <2>0, <2>a, <3>1, <3>4, <3>5, <3>6, QuietStep
  <2>2. CASE work[c].op # "login"
    <3> DEFINE e == rotate(work[c].entity, clock)
               w == [work[c] EXCEPT !.entity = e]
    <3>1. work' = [work EXCEPT ![c] = w] /\ CallTo(c, "updating") /\ work[c].op = "refresh"
      BY <1>0, <1>3, <2>2 DEF SignTokens, Holds
    <3>2. work[c].entity \in Session \union {NoSession}
      BY <2>0 DEF Work
    <3>3. e \in Session /\ e.token = clock
      BY <1>0, <3>2, SessionRowUpdates
    <3>4. w \in Work /\ w.entity = e /\ w.op = "refresh" /\ w.session = work[c].session
      BY Zenon, <2>0, <3>1, <3>3, EntitySigned
    <3>5. Refreshing(c, work[c].session)
      BY <2>0, <3>1 DEF Refreshing
    <3>6. Holds("updating", w) /\ "updating" \in CallControl \ {"idle"}
      BY <3>3, <3>4 DEF Holds, CallControl, Serving
    <3> HIDE DEF w, e
    <3> QED
      BY <2>0, <2>a, <3>1, <3>3, <3>4, <3>5, <3>6, QuietStep
  <2> QED
    BY <2>1, <2>2
<1>4. CASE CheckPassword(c)
  <2> DEFINE w == [NoWork EXCEPT !.op = "change", !.password = credential.password]
  <2>1. /\ serving[c] = "idle" /\ work' = [work EXCEPT ![c] = w] /\ CallTo(c, "changing")
        /\ UNCHANGED <<clock, session, credential, links, retired, overtaken, changed>>
    BY <1>4 DEF CheckPassword, Arrives
  <2>2. w \in Work /\ w.op = "change"
    BY Zenon, <1>0, <1>a, ArrivingWith
  <2> HIDE DEF w
  <2> QED
    BY <2>1, <2>2, Arrived
<1>5. CASE CallFails(c)
  <2>1. faults' > 0
    BY <1>5 DEF CallFails, Fault, FaultsGrow, SessionsInv
  <2> QED
    BY <1>5, <2>1, GivesUp DEF CallFails
<1>6. ASSUME NEW token \in Tokens, Refresh(c, token) PROVE SessionsInv'
  <2>1. PICK s \in Ids : /\ Live(s)
                         /\ work' = [work EXCEPT ![c] = [NoWork EXCEPT
                              !.op = "refresh", !.session = s, !.entity = session[s]]]
    BY <1>0, <1>6 DEF Refresh, findByTokenHash, Hold
  <2> DEFINE w == [NoWork EXCEPT !.op = "refresh", !.session = s, !.entity = session[s]]
  <2>2. /\ serving[c] = "idle" /\ CallTo(c, "signing")
        /\ UNCHANGED <<clock, session, credential, links, retired, overtaken, changed>>
    BY <1>6 DEF Refresh, Arrives
  <2>3. w \in Work /\ w.op = "refresh" /\ w.session = s
    <3>1. session[s] \in Session \union {NoSession} /\ "refresh" \in Op
      BY <1>0 DEF Op
    <3>2. w \in Work
      BY Zenon, <3>1, NoWorkIsWork DEF Work, Ids
    <3> QED
      BY <3>2, NoWorkIsWork DEF Work
  <2>4. work' = [work EXCEPT ![c] = w]
    BY <2>1
  <2> HIDE DEF w
  <2> QED
    BY <2>1, <2>2, <2>3, <2>4, Arrived
<1>7. ASSUME NEW token \in Tokens, Logout(c, token) PROVE SessionsInv'
  <2>1. PICK s \in Ids : /\ session[s].token = token
                         /\ work' = [work EXCEPT ![c] = [NoWork EXCEPT
                              !.op = "logout", !.session = s, !.entity = revoke(session[s])]]
    BY <1>0, <1>7 DEF Logout, findByTokenHash, Hold
  <2> DEFINE e == revoke(session[s])
             w == [NoWork EXCEPT !.op = "logout", !.session = s, !.entity = e]
  <2>2. /\ serving[c] = "idle" /\ CallTo(c, "updating")
        /\ UNCHANGED <<clock, session, credential, links, retired, overtaken, changed>>
    BY <1>7 DEF Logout, Arrives
  <2>3. session[s] \in Session
    BY <1>0, <2>1, MaxSecondsIsNat DEF NoSession, Tokens
  <2>4. e \in Session /\ e.revoked
    BY <1>0, <2>3, SessionRowUpdates
  <2>5. w \in Work /\ w.op = "logout" /\ w.entity = e
    <3>1. e \in Session \union {NoSession} /\ "logout" \in Op
      BY <2>4 DEF Op
    <3> HIDE DEF e
    <3>2. w \in Work
      BY Zenon, <3>1, NoWorkIsWork DEF Work, Ids
    <3> QED
      BY <3>2, NoWorkIsWork DEF Work
  <2>6. work' = [work EXCEPT ![c] = w]
    BY <2>1
  <2> HIDE DEF w, e
  <2> QED
    BY <2>2, <2>4, <2>5, <2>6, Arrived
<1>8. ASSUME NEW s \in Ids, FindById(c, s) PROVE SessionsInv'
  <2> DEFINE w == [NoWork EXCEPT !.op = "revoke", !.session = s, !.entity = NoSession]
  <2>1. /\ serving[c] = "idle" /\ CallTo(c, "revoking") /\ work' = [work EXCEPT ![c] = w]
        /\ UNCHANGED <<clock, session, credential, links, retired, overtaken, changed>>
    BY <1>8 DEF FindById, Arrives, Hold
  <2>2. w \in Work /\ w.op = "revoke"
    <3>1. NoSession \in Session \union {NoSession} /\ "revoke" \in Op
      BY DEF Op
    <3>2. w \in Work
      BY Zenon, <3>1, NoWorkIsWork DEF Work, Ids
    <3> QED
      BY <3>2, NoWorkIsWork DEF Work
  <2> HIDE DEF w
  <2> QED
    BY <2>1, <2>2, Arrived
<1>9. ASSUME NEW l \in CallIds, FindResetToken(c, l) PROVE SessionsInv'
  <2> DEFINE w == [NoWork EXCEPT !.op = "reset", !.link = l]
  <2>0. /\ serving[c] = "idle" /\ l \in links
        /\ UNCHANGED <<clock, session, credential, links, retired, overtaken, changed>>
    BY <1>9 DEF FindResetToken, Arrives
  <2>1. CASE CallTo(c, "refused") /\ UNCHANGED work
    BY <1>0, <2>0, <2>1, GivesUp DEF Holds
  <2>2. CASE /\ findByPasswordResetToken(l)
             /\ work' = [work EXCEPT ![c] = w] /\ CallTo(c, "changing")
    <3>1. w \in Work /\ w.op = "reset" /\ w.link = l
      BY Zenon, <1>0, <1>a, <2>0, ArrivingBy DEF Ids
    <3> HIDE DEF w
    <3> QED
      BY <2>0, <2>2, <3>1, Arrived
  <2> QED
    BY <1>9, <2>1, <2>2 DEF FindResetToken
<1> QED
  BY <1>0, <1>1, <1>2, <1>3, <1>4, <1>5, <1>6, <1>7, <1>8, <1>9

-----------------------------------------------------------------------------
(***************************************************************************)
(* The steps that write.                                                   *)
(***************************************************************************)

\* A step that ends a call, or sends it on to the sessions, leaves nothing in
\* the hands of the call, and the others where they are.
LEMMA Finishes ==
  ASSUME SessionsInv, NEW c \in CallIds,
         NEW label \in {"done", "refused", "deleting"}, CallTo(c, label), UNCHANGED work,
         label = "refused" => work[c].op # "reset"
  PROVE  /\ serving' \in [CallIds -> CallControl]
         /\ serving'[c] = label
         /\ \A d \in CallIds : d # c => serving'[d] = serving[d]
         /\ HoldsWhatItNeeds'
         /\ \A d \in CallIds : Unsaved(d)' => Unsaved(d) /\ d # c
         /\ \A d \in CallIds, s \in Ids : Refreshing(d, s)' => Refreshing(d, s) /\ d # c
<1>1. /\ serving' \in [CallIds -> CallControl]
      /\ serving'[c] = label
      /\ \A d \in CallIds : d # c => serving'[d] = serving[d]
  BY DEF CallTo, SessionsInv, SessionsTypeOK, CallControl, Serving
<1>2. Holds(label, work[c])
  BY DEF Holds
<1>3. HoldsWhatItNeeds'
  BY <1>1, <1>2 DEF SessionsInv, HoldsWhatItNeeds
<1> QED
  BY <1>1, <1>3 DEF Unsaved, Refreshing

\* What is dead stays dead, when no refresh is new on its session, and the row
\* is as it was.
LEMMA DeadStays ==
  ASSUME SessionsInv, clock' = clock, NEW s \in Ids, NEW t \in Tokens, Dead(s, t),
         session'[s] = session[s], UNCHANGED work,
         \A d \in CallIds : Refreshing(d, s)' => Refreshing(d, s) /\ serving'[d] = serving[d]
  PROVE  Dead(s, t)'
  BY DEF Dead, Live, Refreshing

LEMMA SaveSessionStep ==
  ASSUME SessionsInv, FaultsGrow, NEW c \in CallIds, SaveSession(c)
  PROVE  SessionsInv'
<1>0. /\ serving \in [CallIds -> CallControl] /\ work \in [CallIds -> Work]
      /\ session \in [Ids -> Session \union {NoSession}] /\ DOMAIN session = Ids
      /\ c \in Ids
  BY DEF SessionsInv, SessionsTypeOK, Ids
<1>1. /\ serving[c] = "saving" /\ work[c].op = "login"
      /\ work[c].entity \in Session /\ work[c].entity.password = work[c].password
      /\ UNCHANGED <<clock, credential, work, links, retired, overtaken, changed>>
      /\ faults' \in Nat /\ (faults > 0 => faults' > 0)
  BY DEF SaveSession, SessionsInv, HoldsWhatItNeeds, Holds, FaultsGrow
<1>2. CASE CallTo(c, "refused") /\ UNCHANGED session
  BY <1>0, <1>1, <1>2, GivesUp
<1>3. CASE saveSession(c, work[c].entity) /\ CallTo(c, "done")
  <2>1. /\ serving' \in [CallIds -> CallControl]
        /\ serving'[c] = "done"
        /\ \A d \in CallIds : d # c => serving'[d] = serving[d]
        /\ HoldsWhatItNeeds'
        /\ \A d \in CallIds : Unsaved(d)' => Unsaved(d) /\ d # c
        /\ \A d \in CallIds, s \in Ids : Refreshing(d, s)' => Refreshing(d, s) /\ d # c
    BY <1>1, <1>3, Finishes
  <2>2. /\ session' \in [Ids -> Session \union {NoSession}]
        /\ session'[c] = work[c].entity
        /\ \A s \in Ids : s # c => session'[s] = session[s]
    BY <1>0, <1>1, <1>3 DEF saveSession
  <2>3. SessionsTypeOK'
    BY <1>1, <2>1, <2>2 DEF SessionsInv, SessionsTypeOK, Ids
  <2>4. LinksAreKnown' /\ LinksAreSpent'
    BY <1>1, <2>1 DEF SessionsInv, SessionsTypeOK, LinksAreKnown, LinksAreSpent, LaterResetIsRefused
  <2>5. LoginsAreCurrent'
    BY <1>1, <2>1 DEF SessionsInv, LoginsAreCurrent
  <2>6. RetiredAreDead'
    <3> SUFFICES ASSUME NEW s \in Ids, NEW t \in Tokens, <<s, t>> \in retired
                 PROVE  Dead(s, t)'
      BY <1>1 DEF RetiredAreDead
    <3>1. s # c /\ Dead(s, t)
      BY <1>1 DEF SessionsInv, UnsavedHaveNoPast, Unsaved, RetiredAreDead
    <3> QED
      BY <1>1, <2>1, <2>2, <3>1, DeadStays
  <2>7. UnsavedHaveNoPast'
    BY <1>1, <2>1, <2>2 DEF SessionsInv, UnsavedHaveNoPast, Ids
  <2>8. OldPasswordsAreOut'
    <3>1. work[c].password = credential.password \/ c \in overtaken
      BY <1>1 DEF SessionsInv, LoginsAreCurrent
    <3>2. (\E d \in CallIds : serving[d] = "deleting") =>
            \E d \in CallIds : serving'[d] = "deleting"
      BY <1>1, <2>1
    <3> QED
      BY <1>0, <1>1, <2>2, <3>1, <3>2 DEF SessionsInv, OldPasswordsAreOut
  <2> QED
    BY <1>1, <2>1, <2>3, <2>4, <2>5, <2>6, <2>7, <2>8 DEF SessionsInv
<1> QED
  BY <1>2, <1>3 DEF SaveSession

\* What the writers of one row, and only they, do to the passwords of the rows.
LEMMA PasswordsStay ==
  ASSUME SessionsInv, FaultsGrow, UNCHANGED <<credential, overtaken>>,
         DOMAIN session' = DOMAIN session,
         \A s \in DOMAIN session : session'[s] # NoSession =>
           session[s] # NoSession /\ session'[s].password = session[s].password,
         \A d \in CallIds : serving[d] = "deleting" => serving'[d] = "deleting"
  PROVE  OldPasswordsAreOut'
<1>1. faults > 0 => faults' > 0
  BY DEF FaultsGrow, SessionsInv
<1>2. (\E d \in CallIds : serving[d] = "deleting") => \E d \in CallIds : serving'[d] = "deleting"
  OBVIOUS
<1> QED
  BY <1>1, <1>2 DEF SessionsInv, OldPasswordsAreOut

LEMMA UpdateSessionStep ==
  ASSUME SessionsInv, FaultsGrow, NEW c \in CallIds, UpdateSession(c)
  PROVE  SessionsInv'
<1> DEFINE s == work[c].session
           e == work[c].entity
<1>0. /\ serving \in [CallIds -> CallControl] /\ work \in [CallIds -> Work]
      /\ session \in [Ids -> Session \union {NoSession}] /\ DOMAIN session = Ids
      /\ retired \subseteq Ids \X Tokens /\ clock \in Tokens
  BY DEF SessionsInv, SessionsTypeOK, Ids
<1>1. /\ serving[c] = "updating" /\ s \in Ids
      /\ work[c].op \in {"refresh", "logout"} /\ e \in Session
      /\ work[c].op = "logout" => e.revoked
      /\ UNCHANGED <<clock, credential, work, links, overtaken, changed>>
      /\ faults' \in Nat
  BY <1>0 DEF UpdateSession, SessionsInv, HoldsWhatItNeeds, Holds, FaultsGrow, Work, Ids
<1>2. CASE CallTo(c, "refused") /\ UNCHANGED <<session, retired>>
  BY <1>1, <1>2, GivesUp
<1>3. CASE /\ session[s] # NoSession
           /\ session' = [session EXCEPT ![s].token = e.token, ![s].revoked = e.revoked]
           /\ CallTo(c, "done")
           /\ retired' = retired \union Retired(c)
  <2>1. /\ serving' \in [CallIds -> CallControl]
        /\ serving'[c] = "done"
        /\ \A d \in CallIds : d # c => serving'[d] = serving[d]
        /\ HoldsWhatItNeeds'
        /\ \A d \in CallIds : Unsaved(d)' => Unsaved(d) /\ d # c
        /\ \A d \in CallIds, r \in Ids : Refreshing(d, r)' => Refreshing(d, r) /\ d # c
    BY <1>1, <1>3, Finishes
  <2>2. session[s] \in Session /\ e.token \in Tokens /\ e.revoked \in BOOLEAN
    BY <1>0, <1>1, <1>3 DEF Session
  <2> DEFINE row == [[session[s] EXCEPT !.token = e.token] EXCEPT !.revoked = e.revoked]
  <2>3. /\ session' \in [Ids -> Session \union {NoSession}]
        /\ session'[s] \in Session
        /\ session'[s].token = e.token /\ session'[s].revoked = e.revoked
        /\ session'[s].password = session[s].password
        /\ \A r \in Ids : r # s => session'[r] = session[r]
    <3>1. session' = [session EXCEPT ![s] = row]
      BY Zenon, <1>3
    <3>2. row \in Session /\ row.token = e.token
      BY Zenon, <2>2 DEF Session
    <3>3. row.revoked = e.revoked /\ row.password = session[s].password
      BY Zenon, <2>2 DEF Session
    <3> HIDE DEF row
    <3> QED
      BY <1>0, <1>1, <3>1, <3>2, <3>3
  <2>4. Retired(c) \subseteq {<<s, session[s].token>>}
    BY DEF Retired
  <2>5. SessionsTypeOK'
    BY <1>0, <1>1, <1>3, <2>1, <2>2, <2>3, <2>4 DEF SessionsInv, SessionsTypeOK, Ids, Session
  <2>6. LinksAreKnown' /\ LinksAreSpent' /\ LoginsAreCurrent'
    BY <1>1, <2>1
    DEF SessionsInv, SessionsTypeOK, LinksAreKnown, LinksAreSpent, LaterResetIsRefused, LoginsAreCurrent
  <2>7. OldPasswordsAreOut'
    BY <1>0, <1>1, <1>3, <2>1, <2>3, PasswordsStay
  <2>8. UnsavedHaveNoPast'
    BY <1>1, <1>3, <2>1, <2>3, <2>4 DEF SessionsInv, UnsavedHaveNoPast, Ids
  <2>9. RetiredAreDead'
    <3> SUFFICES ASSUME NEW r \in Ids, NEW t \in Tokens, <<r, t>> \in retired'
                 PROVE  Dead(r, t)'
      BY DEF RetiredAreDead
    <3>1. CASE r # s
      <4>1. <<r, t>> \in retired
        BY <1>3, <2>4, <3>1
      <4>2. Dead(r, t)
        BY <4>1 DEF SessionsInv, RetiredAreDead
      <4> QED
        BY <1>1, <2>1, <2>3, <3>1, <4>2, DeadStays
    <3>2. CASE r = s /\ <<s, t>> \in retired
      <4>1. /\ Dead(s, t)
            /\ session[s] # NoSession
        BY <1>1, <1>3, <3>2 DEF SessionsInv, RetiredAreDead
      <4>2. CASE work[c].op = "logout"
        BY <1>1, <2>1, <2>3, <3>2, <4>1, <4>2 DEF Dead, Live, Refreshing
      <4>3. CASE work[c].op = "refresh"
        <5>1. Refreshing(c, s)
          BY <1>1, <4>3 DEF Refreshing
        <5>2. e.token # t /\ t < clock
          BY <1>1, <4>1, <5>1 DEF Dead
        <5> QED
          BY <1>1, <2>1, <2>3, <3>2, <4>1, <5>1, <5>2 DEF Dead, Live, Refreshing
      <4> QED
        BY <1>1, <4>2, <4>3
    \* The token that is replaced now.
    <3>3. CASE r = s /\ <<s, t>> \in Retired(c)
      <4>1. /\ t = session[s].token
            /\ Alone(c, s)
            /\ work[c].op = "logout" \/ (e.token # t /\ t < clock)
        BY <3>3 DEF Retired
      <4>2. \A d \in CallIds : ~Refreshing(d, s)'
        BY <1>1, <2>1, <4>1 DEF Alone, Refreshing
      <4>3. CASE work[c].op = "logout"
        BY <1>1, <2>3, <3>3, <4>2, <4>3 DEF Dead, Live
      <4>4. CASE e.token # t /\ t < clock
        BY <1>1, <2>3, <3>3, <4>2, <4>4 DEF Dead, Live
      <4> QED
        BY <4>1, <4>3, <4>4
    <3> QED
      BY <1>3, <2>4, <3>1, <3>2, <3>3
  <2> QED
    BY <1>1, <2>1, <2>5, <2>6, <2>7, <2>8, <2>9 DEF SessionsInv
<1> QED
  BY <1>2, <1>3 DEF UpdateSession

LEMMA RevokeByIdStep ==
  ASSUME SessionsInv, FaultsGrow, NEW c \in CallIds, RevokeById(c)
  PROVE  SessionsInv'
<1> DEFINE s == work[c].session
<1>0. /\ serving \in [CallIds -> CallControl] /\ work \in [CallIds -> Work]
      /\ session \in [Ids -> Session \union {NoSession}] /\ DOMAIN session = Ids
      /\ retired \subseteq Ids \X Tokens
  BY DEF SessionsInv, SessionsTypeOK, Ids
<1>1. /\ serving[c] = "revoking" /\ s \in Ids /\ work[c].op = "revoke"
      /\ UNCHANGED <<clock, credential, work, links, overtaken, changed>>
      /\ faults' \in Nat
  BY <1>0 DEF RevokeById, SessionsInv, HoldsWhatItNeeds, Holds, FaultsGrow, Work, Ids
<1>2. CASE CallTo(c, "refused") /\ UNCHANGED <<session, retired>>
  BY <1>1, <1>2, GivesUp
<1>3. CASE /\ session[s] # NoSession
           /\ saveSession(s, revoke(session[s]))
           /\ CallTo(c, "done")
           /\ retired' = retired \union (IF Alone(c, s) THEN {<<s, session[s].token>>} ELSE {})
  <2>1. /\ serving' \in [CallIds -> CallControl]
        /\ serving'[c] = "done"
        /\ \A d \in CallIds : d # c => serving'[d] = serving[d]
        /\ HoldsWhatItNeeds'
        /\ \A d \in CallIds : Unsaved(d)' => Unsaved(d) /\ d # c
        /\ \A d \in CallIds, r \in Ids : Refreshing(d, r)' => Refreshing(d, r) /\ d # c
    BY <1>1, <1>3, Finishes
  <2>2. session[s] \in Session /\ session[s].token \in Tokens
    BY <1>0, <1>1, <1>3 DEF Session
  <2> DEFINE row == revoke(session[s])
  <2>3. /\ session' \in [Ids -> Session \union {NoSession}]
        /\ session'[s] \in Session
        /\ session'[s].revoked /\ session'[s].password = session[s].password
        /\ \A r \in Ids : r # s => session'[r] = session[r]
    <3>1. session' = [session EXCEPT ![s] = row]
      BY <1>3 DEF saveSession
    <3>2. row \in Session /\ row.revoked
      BY <2>2, SessionRowUpdates, MaxSecondsIsNat DEF Tokens
    <3>3. row.password = session[s].password
      BY Zenon, <2>2 DEF revoke, Session
    <3> HIDE DEF row
    <3> QED
      BY <1>0, <1>1, <3>1, <3>2, <3>3
  <2>4. retired' \subseteq retired \union {<<s, session[s].token>>}
    BY <1>3
  <2>5. SessionsTypeOK'
    BY <1>0, <1>1, <2>1, <2>2, <2>3, <2>4 DEF SessionsInv, SessionsTypeOK, Ids
  <2>6. LinksAreKnown' /\ LinksAreSpent' /\ LoginsAreCurrent'
    BY <1>1, <2>1
    DEF SessionsInv, SessionsTypeOK, LinksAreKnown, LinksAreSpent, LaterResetIsRefused, LoginsAreCurrent
  <2>7. OldPasswordsAreOut'
    BY <1>0, <1>1, <1>3, <2>1, <2>3, PasswordsStay
  <2>8. UnsavedHaveNoPast'
    BY <1>1, <1>3, <2>1, <2>3, <2>4 DEF SessionsInv, UnsavedHaveNoPast, Ids
  <2>9. RetiredAreDead'
    <3> SUFFICES ASSUME NEW r \in Ids, NEW t \in Tokens, <<r, t>> \in retired'
                 PROVE  Dead(r, t)'
      BY DEF RetiredAreDead
    <3>1. CASE r # s
      <4>1. Dead(r, t)
        BY <2>4, <3>1 DEF SessionsInv, RetiredAreDead
      <4> QED
        BY <1>1, <2>1, <2>3, <3>1, <4>1, DeadStays
    <3>2. CASE r = s /\ <<s, t>> \in retired
      <4>1. Dead(s, t) /\ session[s] # NoSession
        BY <1>1, <1>3, <3>2 DEF SessionsInv, RetiredAreDead
      <4> QED
        BY <1>1, <2>1, <2>3, <3>2, <4>1 DEF Dead, Live, Refreshing
    <3>3. CASE r = s /\ Alone(c, s)
      BY <1>1, <2>1, <2>3, <3>3 DEF Dead, Live, Alone, Refreshing
    <3> QED
      BY <1>3, <3>1, <3>2, <3>3
  <2> QED
    BY <1>1, <2>1, <2>5, <2>6, <2>7, <2>8, <2>9 DEF SessionsInv
<1> QED
  BY <1>2, <1>3 DEF RevokeById

\* A step that leaves the sessions, and what is in hand of them, where it is.
LEMMA SessionsStay ==
  ASSUME SessionsInv, UNCHANGED <<session, retired>>, clock' \in Nat, clock' >= clock,
         \A d \in CallIds : Unsaved(d)' => Unsaved(d),
         \A d \in CallIds, s \in Ids :
           Refreshing(d, s)' => Refreshing(d, s) /\ serving'[d] = serving[d] /\ work'[d] = work[d]
  PROVE  RetiredAreDead' /\ UnsavedHaveNoPast'
<1>1. clock \in Nat
  BY MaxSecondsIsNat DEF SessionsInv, SessionsTypeOK, Tokens
<1>2. ASSUME NEW s \in Ids, NEW t \in Tokens, Dead(s, t)
      PROVE  Dead(s, t)'
  <2>1. t < clock => t < clock'
    BY <1>1, MaxSecondsIsNat DEF Tokens
  <2> QED
    BY <1>2, <2>1 DEF Dead, Live, Refreshing
<1>3. RetiredAreDead'
  BY <1>2 DEF SessionsInv, RetiredAreDead
<1> QED
  BY <1>3 DEF SessionsInv, UnsavedHaveNoPast

LEMMA ForgotPasswordStep ==
  ASSUME SessionsInv, FaultsGrow, NEW c \in CallIds, ForgotPassword(c)
  PROVE  SessionsInv'
<1> DEFINE w == [NoWork EXCEPT !.op = "forgot"]
<1>0. /\ serving \in [CallIds -> CallControl] /\ work \in [CallIds -> Work]
      /\ clock \in Nat
  BY MaxSecondsIsNat DEF SessionsInv, SessionsTypeOK, Tokens
<1>1. /\ serving[c] = "idle"
      /\ work' = [work EXCEPT ![c] = w]
      /\ credential' = [credential EXCEPT !.resetToken = c]
      /\ serving' = [serving EXCEPT ![c] = "mailing"]
      /\ UNCHANGED <<clock, session, links, retired, overtaken, changed>>
      /\ faults' \in Nat
  BY DEF ForgotPassword, Arrives, updatePasswordResetToken, CallTo, FaultsGrow
<1>2. w \in Work /\ w.op = "forgot"
  <2>1. "forgot" \in Op
    BY DEF Op
  <2> QED
    BY Zenon, <2>1, Arriving
<1> HIDE DEF w
<1>3. /\ serving' \in [CallIds -> CallControl] /\ work' \in [CallIds -> Work]
      /\ serving'[c] = "mailing" /\ work'[c] = w
      /\ \A d \in CallIds : d # c => serving'[d] = serving[d] /\ work'[d] = work[d]
  BY <1>0, <1>1, <1>2 DEF CallControl, Serving
<1>4. /\ credential' \in [password : Ids, resetToken : CallIds \union {NoLink}]
      /\ credential'.password = credential.password /\ credential'.resetToken = c
  <2>1. credential \in [password : Ids, resetToken : CallIds \union {NoLink}]
    BY DEF SessionsInv, SessionsTypeOK, Ids
  <2>2. credential' \in [password : Ids, resetToken : CallIds \union {NoLink}]
    BY Zenon, <1>1, <2>1
  <2> QED
    BY <1>1, <2>1, <2>2
<1>5. SessionsTypeOK'
  BY <1>1, <1>3, <1>4 DEF SessionsInv, SessionsTypeOK, Ids
<1>6. HoldsWhatItNeeds' /\ LoginsAreCurrent'
  BY <1>1, <1>2, <1>3, <1>4 DEF SessionsInv, HoldsWhatItNeeds, Holds, LoginsAreCurrent
<1>7. LinksAreKnown'
  BY <1>1, <1>2, <1>3 DEF SessionsInv, SessionsTypeOK, LinksAreKnown
<1>8. LinksAreSpent'
  <2>1. \A d \in changed : d # c /\ work'[d] = work[d] /\ serving'[d] = serving[d]
    BY <1>1, <1>3 DEF SessionsInv, SessionsTypeOK, LinksAreSpent
  <2>2. c \notin links
    BY <1>1 DEF SessionsInv, LinksAreKnown
  <2>3. ASSUME NEW d \in changed, work'[d].op = "reset"
        PROVE  credential'.resetToken # work'[d].link
    BY <1>4, <2>1, <2>2, <2>3 DEF SessionsInv, SessionsTypeOK, LinksAreKnown
  <2>4. ASSUME NEW d \in changed, NEW e \in CallIds, work[d].op = "reset", work'[e].op = "reset",
               work[d].link = work'[e].link, serving'[e] = "changing"
        PROVE  e \in overtaken
    BY <1>2, <1>3, <2>4 DEF SessionsInv, LinksAreSpent
  <2>5. LaterResetIsRefused'
    BY <1>1, <2>1 DEF SessionsInv, LinksAreSpent, LaterResetIsRefused
  <2> QED
    BY <1>1, <2>1, <2>3, <2>4, <2>5 DEF SessionsInv, LinksAreSpent
<1>9. OldPasswordsAreOut'
  BY <1>1, <1>3, <1>4 DEF SessionsInv, OldPasswordsAreOut, FaultsGrow
<1>10. RetiredAreDead' /\ UnsavedHaveNoPast'
  BY <1>0, <1>1, <1>3, SessionsStay DEF Unsaved, Refreshing
<1> QED
  BY <1>1, <1>5, <1>6, <1>7, <1>8, <1>9, <1>10 DEF SessionsInv

LEMMA MailLinkStep ==
  ASSUME SessionsInv, FaultsGrow, NEW c \in CallIds, MailLink(c)
  PROVE  SessionsInv'
<1>1. /\ serving[c] = "mailing" /\ CallTo(c, "done")
      /\ links' = links \union {c}
      /\ UNCHANGED <<clock, session, credential, work, retired, overtaken, changed>>
      /\ faults' \in Nat
  BY DEF MailLink, FaultsGrow
<1>2. /\ serving' \in [CallIds -> CallControl]
      /\ serving'[c] = "done"
      /\ \A d \in CallIds : d # c => serving'[d] = serving[d]
      /\ HoldsWhatItNeeds'
      /\ \A d \in CallIds : Unsaved(d)' => Unsaved(d) /\ d # c
      /\ \A d \in CallIds, s \in Ids : Refreshing(d, s)' => Refreshing(d, s) /\ d # c
  BY <1>1, Finishes
<1>3. SessionsTypeOK' /\ LoginsAreCurrent'
  BY <1>1, <1>2 DEF SessionsInv, SessionsTypeOK, LoginsAreCurrent
<1>4. LinksAreKnown' /\ LinksAreSpent'
  <2>1. work[c].op # "reset"
    BY <1>1 DEF SessionsInv, HoldsWhatItNeeds, Holds
  <2> QED
    BY <1>1, <1>2, <2>1 DEF SessionsInv, SessionsTypeOK, LinksAreKnown, LinksAreSpent, LaterResetIsRefused
<1>5. OldPasswordsAreOut'
  BY <1>1, <1>2, PasswordsStay
<1>6. RetiredAreDead' /\ UnsavedHaveNoPast'
  <2>1. clock \in Nat
    BY MaxSecondsIsNat DEF SessionsInv, SessionsTypeOK, Tokens
  <2> QED
    BY <1>1, <1>2, <2>1, SessionsStay
<1> QED
  BY <1>1, <1>2, <1>3, <1>4, <1>5, <1>6 DEF SessionsInv

LEMMA UpdatePasswordStep ==
  ASSUME SessionsInv, FaultsGrow, NEW c \in CallIds, UpdatePassword(c)
  PROVE  SessionsInv'
<1>1. /\ serving[c] = "changing" /\ CallTo(c, "deleting")
      /\ credential' = [password |-> c, resetToken |-> NoLink]
      /\ overtaken' = overtaken \union Overtakes(c)
      /\ changed' = changed \union {c}
      /\ UNCHANGED <<clock, session, work, links, retired>>
      /\ faults' \in Nat
  BY DEF UpdatePassword, updatePassword, FaultsGrow
<1>2. /\ serving' \in [CallIds -> CallControl]
      /\ serving'[c] = "deleting"
      /\ \A d \in CallIds : d # c => serving'[d] = serving[d]
      /\ HoldsWhatItNeeds'
      /\ \A d \in CallIds : Unsaved(d)' => Unsaved(d) /\ d # c
      /\ \A d \in CallIds, s \in Ids : Refreshing(d, s)' => Refreshing(d, s) /\ d # c
  BY <1>1, Finishes
<1>3. SessionsTypeOK'
  <2>1. Overtakes(c) \subseteq CallIds /\ changed' \subseteq CallIds
    BY <1>1 DEF Overtakes, SessionsInv, SessionsTypeOK
  <2> QED
    BY <1>1, <1>2, <2>1 DEF SessionsInv, SessionsTypeOK
<1>4. LoginsAreCurrent'
  BY <1>1, <1>2 DEF LoginsAreCurrent, Overtakes
<1>5. LinksAreKnown'
  BY <1>1, <1>2 DEF SessionsInv, SessionsTypeOK, LinksAreKnown
<1>6. LinksAreSpent'
  <2>1. NoLink \notin links /\ changed \subseteq CallIds
    BY DEF SessionsInv, SessionsTypeOK, CallIds, NoLink, INITIAL
  <2>2. \A d \in changed' : serving'[d] \in {"deleting", "done", "failed"}
    BY <1>1, <1>2, <2>1 DEF SessionsInv, LinksAreSpent
  <2>3. \A d \in changed' : work'[d].op = "reset" => credential'.resetToken # work'[d].link
    BY <1>1, <2>1 DEF SessionsInv, LinksAreKnown
  <2>4. \A d \in CallIds : serving'[d] = "changing" => d \in overtaken'
    BY <1>1, <1>2 DEF Overtakes
  <2>5. LaterResetIsRefused'
    BY <1>1, <2>1 DEF SessionsInv, LinksAreSpent, LaterResetIsRefused
  <2> QED
    BY <2>2, <2>3, <2>4, <2>5 DEF LinksAreSpent
<1>7. OldPasswordsAreOut'
  BY <1>2 DEF OldPasswordsAreOut
<1>8. RetiredAreDead' /\ UnsavedHaveNoPast'
  <2>1. clock \in Nat
    BY MaxSecondsIsNat DEF SessionsInv, SessionsTypeOK, Tokens
  <2> QED
    BY <1>1, <1>2, <2>1, SessionsStay
<1> QED
  BY <1>1, <1>2, <1>3, <1>4, <1>5, <1>6, <1>7, <1>8 DEF SessionsInv

LEMMA DeleteSessionsStep ==
  ASSUME SessionsInv, FaultsGrow, NEW c \in CallIds, DeleteSessions(c)
  PROVE  SessionsInv'
<1>0. /\ session \in [Ids -> Session \union {NoSession}] /\ DOMAIN session = Ids
      /\ retired \subseteq Ids \X Tokens
  BY DEF SessionsInv, SessionsTypeOK, Ids
<1>1. /\ serving[c] = "deleting" /\ CallTo(c, "done")
      /\ session' = [s \in Ids |-> NoSession]
      /\ retired' = retired \union
           {<<s, session[s].token>> : s \in {r \in Ids : session[r] # NoSession}}
      /\ UNCHANGED <<clock, credential, work, links, overtaken, changed>>
      /\ faults' \in Nat
  BY <1>0 DEF DeleteSessions, FaultsGrow
<1>2. /\ serving' \in [CallIds -> CallControl]
      /\ serving'[c] = "done"
      /\ \A d \in CallIds : d # c => serving'[d] = serving[d]
      /\ HoldsWhatItNeeds'
      /\ \A d \in CallIds : Unsaved(d)' => Unsaved(d) /\ d # c
      /\ \A d \in CallIds, s \in Ids : Refreshing(d, s)' => Refreshing(d, s) /\ d # c
  BY <1>1, Finishes
<1>3. \A s \in Ids : session[s] # NoSession => session[s].token \in Tokens
  BY <1>0 DEF Session
<1>4. SessionsTypeOK'
  <2>1. retired' \subseteq Ids \X Tokens
    BY <1>0, <1>1, <1>3
  <2> QED
    BY <1>1, <1>2, <2>1 DEF SessionsInv, SessionsTypeOK, Ids
<1>5. LinksAreKnown' /\ LinksAreSpent' /\ LoginsAreCurrent'
  BY <1>1, <1>2
  DEF SessionsInv, SessionsTypeOK, LinksAreKnown, LinksAreSpent, LaterResetIsRefused, LoginsAreCurrent
<1>6. OldPasswordsAreOut'
  BY <1>1 DEF OldPasswordsAreOut
<1>7. RetiredAreDead'
  BY <1>1 DEF RetiredAreDead, Dead
<1>8. UnsavedHaveNoPast'
  BY <1>1, <1>2 DEF SessionsInv, UnsavedHaveNoPast, Ids
<1> QED
  BY <1>1, <1>2, <1>4, <1>5, <1>6, <1>7, <1>8 DEF SessionsInv

\* The clock, and the steps of the rest of the process.
LEMMA OtherSteps ==
  ASSUME SessionsInv, FaultsGrow, Tick \/ UNCHANGED sessionsVars
  PROVE  SessionsInv'
<1>1. /\ clock' \in Tokens /\ clock' \in Nat /\ clock' >= clock
      /\ UNCHANGED <<session, credential, serving, work, links, retired, overtaken, changed>>
      /\ faults' \in Nat
  BY MaxSecondsIsNat
  DEF Tick, sessionsVars, SessionsInv, SessionsTypeOK, Tokens, FaultsGrow
<1>2. SessionsTypeOK'
  BY <1>1 DEF SessionsInv, SessionsTypeOK
<1>3. HoldsWhatItNeeds' /\ LinksAreKnown' /\ LoginsAreCurrent' /\ LinksAreSpent'
  BY <1>1
  DEF SessionsInv, HoldsWhatItNeeds, LinksAreKnown, LoginsAreCurrent, LinksAreSpent, LaterResetIsRefused
<1>4. OldPasswordsAreOut'
  BY <1>1, PasswordsStay
<1>5. RetiredAreDead' /\ UnsavedHaveNoPast'
  BY <1>1, SessionsStay DEF Unsaved, Refreshing
<1> QED
  BY <1>1, <1>2, <1>3, <1>4, <1>5 DEF SessionsInv

LEMMA SessionsStep ==
  SessionsInv /\ [SessionsNext]_sessionsVars /\ FaultsGrow => SessionsInv'
<1>1. SessionsInv => DOMAIN session = Ids
  BY DEF SessionsInv, SessionsTypeOK, Ids
<1> QED
  BY <1>1, QuietCalls, SaveSessionStep, UpdateSessionStep, RevokeByIdStep, ForgotPasswordStep,
     MailLinkStep, UpdatePasswordStep, DeleteSessionsStep, OtherSteps
  DEF SessionsNext

-----------------------------------------------------------------------------
LEMMA SessionsCountFaults == SessionsNext => NoFault \/ Fault
BY DEF SessionsNext, Tick, FindCredential, SignTokens, SaveSession, RefuseToken,
       UpdateSession, RevokeById, Refresh, Logout, FindById, ForgotPassword, MailLink,
       FindResetToken, CheckPassword, UpdatePassword, DeleteSessions, CallFails

LEMMA SessionsFaultsGrow ==
  faults \in Nat /\ [SessionsNext]_<<sessionsVars, faults>> => FaultsGrow
BY SessionsCountFaults DEF NoFault, Fault, FaultsGrow

LEMMA SessionsAlways == SessionsSpec => []SessionsInv
<1>1. SessionsInv => faults \in Nat
  BY DEF SessionsInv
<1>2. [SessionsNext]_<<sessionsVars, faults>> => [SessionsNext]_sessionsVars
  OBVIOUS
<1> QED
  BY SessionsInitially, SessionsFaultsGrow, SessionsStep, <1>1, <1>2, PTL DEF SessionsSpec

LEMMA SessionsSafe ==
  SessionsInv => RetiredTokensStayDead /\ OldPasswordsAreOut /\ LaterResetIsRefused
<1>1. ASSUME SessionsInv, NEW s \in Ids, Live(s) PROVE <<s, session[s].token>> \notin retired
  <2>1. session[s].token \in Tokens
    BY <1>1 DEF SessionsInv, SessionsTypeOK, Ids, Live, Session
  <2>2. ~Dead(s, session[s].token)
    BY <1>1 DEF Dead, Live
  <2> QED
    BY <1>1, <2>1, <2>2 DEF SessionsInv, RetiredAreDead
<1>2. SessionsInv => DOMAIN session = Ids
  BY DEF SessionsInv, SessionsTypeOK, Ids
<1> QED
  BY <1>1, <1>2 DEF SessionsInv, LinksAreSpent, RetiredTokensStayDead

\* A token that was retired while no other refresh of its session was in flight
\* opens that session no more, whatever logins, logouts, revocations, changes
\* of the password and later refreshes overlap, and whatever fails.
THEOREM TokensStayDead == SessionsSpec => []RetiredTokensStayDead
BY SessionsAlways, SessionsSafe, PTL

\* A change of the password that got through leaves no session of an older one,
\* save those of the logins it overtook.
THEOREM PasswordsAreOut == SessionsSpec => []OldPasswordsAreOut
BY SessionsAlways, SessionsSafe, PTL

\* Of two resets with one link both of which changed the password, one had found
\* the link before the other changed it.
THEOREM LaterResetsAreRefused == SessionsSpec => []LaterResetIsRefused
BY SessionsAlways, SessionsSafe, PTL
=============================================================================
