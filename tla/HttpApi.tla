------------------------------- MODULE HttpApi -------------------------------
(***************************************************************************)
(* What a request to the API is answered: the guards before the handler,   *)
(* what the handlers throw, and the filter that turns an error into a      *)
(* status.                                                                 *)
(*                                                                         *)
(* An endpoint is a row of a table: its guards (a body that the pipe       *)
(* validates among them), the status of its success, the statuses its      *)
(* @ApiResponse decorators document, and the errors its use case throws.   *)
(* Of createJob, the way of a credit is modelled too: the look of the      *)
(* guard, and the read and the save of the deduction behind it.            *)
(***************************************************************************)
EXTENDS Faults

CONSTANTS
  Requests,         \* requests of one user
  InitialCredits    \* what the subscription of the user holds

ASSUME InitialCreditsIsNat == InitialCredits \in Nat

VARIABLES
  request,    \* request -> route, credentials, step, and how it was answered
  credits     \* creditsRemaining of the user

apiVars == <<request, credits>>

-----------------------------------------------------------------------------
(***************************************************************************)
(* The filter.                                                             *)
(***************************************************************************)

\* Fault seeded in ERROR_MAPPING: the sessions are not in the map.
ERROR_MAPPING_short ==
  [UserAlreadyExistsError |-> 409, InvalidCredentialsError |-> 401,
   InvalidTokenError |-> 401, QueryParameterRequiredError |-> 400]

ERROR_MAPPING ==
  [UserAlreadyExistsError |-> 409, InvalidCredentialsError |-> 401,
   EmailNotVerifiedError |-> 403, AccountSuspendedError |-> 403,
   InvalidTokenError |-> 401, TfaRequiredError |-> 403,
   InvalidTfaCodeError |-> 401, WeakPasswordError |-> 400,
   AccountLockedError |-> 429, TokenReuseDetectedError |-> 403,
   PasswordResetTokenExpiredError |-> 401, QueryParameterRequiredError |-> 400,
   SessionNotFoundError |-> 404, UnauthorizedSessionAccessError |-> 403]

\* HttpExceptions carry their status; NoCreditsException is the
\* ForbiddenException of CreditGuard for want of credits.
HttpException ==
  [BadRequestException |-> 400, UnauthorizedException |-> 401,
   ForbiddenException |-> 403, NoCreditsException |-> 403,
   ThrottlerException |-> 429, ServiceUnavailableException |-> 503]

\* Errors of Prisma by their code: two are mapped, P2024 (no connection to be
\* had) stands for the others, which are answered with 400.
prismaMapping == [P2002 |-> 409, P2025 |-> 404]

PrismaCode == DOMAIN prismaMapping \union {"P2024"}

\* AllExceptionsFilter.catch: the map, the framework, the database, the rest.
statusOf(error) ==
  CASE error \in DOMAIN ERROR_MAPPING -> ERROR_MAPPING[error]
    [] error \in DOMAIN HttpException -> HttpException[error]
    [] error \in DOMAIN prismaMapping -> prismaMapping[error]
    [] error \in PrismaCode \ DOMAIN prismaMapping -> 400
    [] OTHER -> 500

-----------------------------------------------------------------------------
(***************************************************************************)
(* The controllers.                                                        *)
(***************************************************************************)

Endpoint(guards, ok, documented, errors) ==
  [guards |-> guards, ok |-> ok, documented |-> documented, errors |-> errors]

register ==
  Endpoint({"body"}, 201, {201, 400, 409}, {"UserAlreadyExistsError", "P2002"})

login == Endpoint({"body"}, 200, {200, 401, 429}, {"UnauthorizedException", "P2002"})

refresh ==
  Endpoint({"body"}, 200, {200, 401}, {"UnauthorizedException", "JsonWebTokenError", "P2002", "P2025"})

logout == Endpoint({"body"}, 204, {204}, {"P2002", "P2025"})

forgotPassword == Endpoint({"body"}, 200, {200, 429}, {})

resetPassword == Endpoint({"body"}, 200, {200, 400}, {"InvalidTokenError"})

changePassword == Endpoint({"jwt", "body"}, 200, {200, 401}, {"InvalidCredentialsError"})

getProfile == Endpoint({"jwt"}, 200, {200, 401}, {})

getAdminData == Endpoint({"jwt", "roles"}, 200, {200, 403}, {})

verifyEmail == Endpoint({"body"}, 200, {200}, {"InvalidTokenError", "P2025"})

listSessions == Endpoint({"jwt"}, 200, {200}, {})

revokeSession ==
  Endpoint({"jwt"}, 200, {200, 404, 403},
    {"SessionNotFoundError", "UnauthorizedSessionAccessError", "P2025"})

createJob ==
  Endpoint({"jwt", "credit", "body"}, 201, {201, 403, 400}, {"InvalidJobModeError"})

searchJobs == Endpoint({"jwt"}, 200, {200}, {"QueryParameterRequiredError"})

getJob == Endpoint({"jwt"}, 200, {200, 404, 403}, {"JobNotFoundError", "JobUnauthorizedError"})

listJobs == Endpoint({"jwt"}, 200, {200}, {})

cancelJob ==
  Endpoint({"jwt"}, 204, {200, 404, 403, 400},
    {"JobNotFoundError", "JobUnauthorizedError", "JobInvalidStateError"})

completeJob ==
  Endpoint({"jwt", "roles"}, 201, {201}, {"JobNotFoundError", "JobInvalidStateError"})

presignUpload == Endpoint({"jwt", "body"}, 200, {200, 400, 401}, {"InvalidFileTypeError", "P2002"})

getImageAssets == Endpoint({"jwt"}, 200, {200}, {})

getImageAsset == Endpoint({"jwt"}, 200, {200, 404}, {"ImageAssetNotFoundError"})

deleteImageAsset ==
  Endpoint({"jwt"}, 204, {204, 404, 403},
    {"ImageAssetNotFoundError", "UnauthorizedAssetAccessError", "P2025"})

listProviders == Endpoint({}, 200, {200}, {})

getPackages == Endpoint({}, 200, {200}, {})

listPayments == Endpoint({"jwt"}, 200, {200}, {})

createPreference ==
  Endpoint({"jwt", "body"}, 201, {201, 404, 400, 401},
    {"PaymentProviderNotFoundError", "PaymentProviderNotAvailableError",
     "PackageNotFoundError", "PackageInactiveError", "MercadoPagoApiError"})

\* The webhook of Mercado Pago, the generic and its own: what is thrown is
\* logged, and answered with 200.
webhook == Endpoint({}, 200, {200}, {})

\* The webhooks of Culqi and of crypto payments.
notImplemented == Endpoint({}, 501, {501}, {})

getSubscription == Endpoint({"jwt"}, 200, {200}, {"SubscriptionNotFoundError"})

getStats == Endpoint({"jwt"}, 200, {200}, {})

check == Endpoint({}, 200, {200}, {})

\* The database does not answer.
readiness == Endpoint({}, 200, {200, 503}, {"ServiceUnavailableException"})

routes ==
  [register |-> register, login |-> login, refresh |-> refresh, logout |-> logout,
   forgotPassword |-> forgotPassword, resetPassword |-> resetPassword,
   changePassword |-> changePassword, getProfile |-> getProfile,
   getAdminData |-> getAdminData, verifyEmail |-> verifyEmail,
   listSessions |-> listSessions, revokeSession |-> revokeSession,
   createJob |-> createJob, searchJobs |-> searchJobs, getJob |-> getJob,
   listJobs |-> listJobs, cancelJob |-> cancelJob, completeJob |-> completeJob,
   presignUpload |-> presignUpload, getImageAssets |-> getImageAssets,
   getImageAsset |-> getImageAsset, deleteImageAsset |-> deleteImageAsset,
   listProviders |-> listProviders, getPackages |-> getPackages,
   listPayments |-> listPayments, createPreference |-> createPreference,
   webhook |-> webhook, notImplemented |-> notImplemented,
   getSubscription |-> getSubscription, getStats |-> getStats, check |-> check, readiness |-> readiness]

-----------------------------------------------------------------------------
(***************************************************************************)
(* States.                                                                 *)
(***************************************************************************)

Bearer == {"none", "user", "admin"}

Step == {"idle", "guarding", "crediting", "handling", "deducting", "creating", "answered"}

\* An answer is a status, and the error it comes of; held is the balance the
\* request will save, and overtaken is history.
NoRequest ==
  [route |-> "check", bearer |-> "none", step |-> "idle", status |-> 0,
   error |-> "none", held |-> 0, overtaken |-> FALSE]

ApiTypeOK ==
  /\ \A q \in Requests :
       /\ request[q].route \in DOMAIN routes
       /\ request[q].bearer \in Bearer
       /\ request[q].step \in Step
       /\ request[q].step = "answered" <=> request[q].status # 0
       /\ request[q].held \in Nat
  /\ credits \in Nat

ApiInit ==
  /\ request = [q \in Requests |-> NoRequest]
  /\ credits = InitialCredits

endpoint(q) == routes[request[q].route]

RequestTo(q, step) == request' = [request EXCEPT ![q].step = step]

Reply(q, status, error) ==
  request' = [request EXCEPT ![q].step = "answered", ![q].status = status, ![q].error = error]

Throw(q, error) == Reply(q, statusOf(error), error)

-----------------------------------------------------------------------------
(***************************************************************************)
(* The way of a request.                                                   *)
(***************************************************************************)

\* The throttler, before everything else.
Receive(q, route, bearer) ==
  LET received == [NoRequest EXCEPT !.route = route, !.bearer = bearer] IN
  /\ request[q].step = "idle"
  /\ \/ request' = [request EXCEPT ![q] = [received EXCEPT !.step = "guarding"]]
     \/ request' = [request EXCEPT ![q] = [received EXCEPT !.step = "answered",
          !.status = statusOf("ThrottlerException"), !.error = "ThrottlerException"]]
  /\ NoFault
  /\ UNCHANGED credits

\* JwtAuthGuard and RolesGuard.
Guard(q) ==
  LET guards == endpoint(q).guards
      bearer == request[q].bearer
  IN
  /\ request[q].step = "guarding"
  /\ IF "jwt" \in guards /\ bearer = "none" THEN Throw(q, "UnauthorizedException")
     ELSE IF "roles" \in guards /\ bearer # "admin" THEN Throw(q, "ForbiddenException")
     ELSE RequestTo(q, IF "credit" \in guards THEN "crediting" ELSE "handling")
  /\ NoFault
  /\ UNCHANGED credits

\* Fault seeded in CheckCredits: the balance is not asked for.
CheckCredits_skipped(q) ==
  /\ request[q].step = "crediting"
  /\ RequestTo(q, "handling")
  /\ NoFault
  /\ UNCHANGED credits

\* CreditGuard; it takes nothing yet.
CheckCredits(q) ==
  /\ request[q].step = "crediting"
  /\ IF credits > 0 THEN RequestTo(q, "handling") ELSE Throw(q, "NoCreditsException")
  /\ NoFault
  /\ UNCHANGED credits

\* A subscription that cannot be read is a refusal.
CheckCreditsFails(q) ==
  /\ request[q].step = "crediting"
  /\ Fault
  /\ Throw(q, "ForbiddenException")
  /\ UNCHANGED credits

\* The ValidationPipe refuses the body.
ValidationFails(q) ==
  /\ request[q].step = "handling"
  /\ "body" \in endpoint(q).guards
  /\ Throw(q, "BadRequestException")
  /\ NoFault
  /\ UNCHANGED credits

HandlerThrows(q, error) ==
  /\ request[q].step = "handling"
  /\ error \in endpoint(q).errors
  /\ Throw(q, error)
  /\ NoFault
  /\ UNCHANGED credits

\* The database, the queue or the mail server: an error nobody knows, or one
\* of Prisma's.  The webhooks have it caught.
HandlerFails(q) ==
  /\ request[q].step \in {"handling", "deducting"}
  /\ Fault
  /\ \E error \in {"Error", "P2024"} :
       IF request[q].route = "webhook" THEN Reply(q, 200, error) ELSE Throw(q, error)
  /\ UNCHANGED credits

\* DeductCreditUseCase asks again, ...
DeductCredit(q) ==
  /\ request[q].step = "handling"
  /\ request[q].route = "createJob"
  /\ IF credits > 0
       THEN request' = [request EXCEPT ![q].step = "deducting", ![q].held = credits - 1]
       ELSE Throw(q, "InsufficientCreditsError")
  /\ NoFault
  /\ UNCHANGED credits

\* ... and saves what it made of its copy.  Requests the guard has let through
\* on the credit that this one takes are overtaken.
SaveCredits(q) ==
  LET held == request[q].held
      passed(r) == request[r].step = "handling" /\ request[r].route = "createJob"
  IN
  /\ request[q].step = "deducting"
  /\ credits' = held
  /\ request' = [r \in Requests |->
       IF r = q THEN [request[q] EXCEPT !.step = "creating"]
       ELSE [request[r] EXCEPT !.overtaken = @ \/ (held = 0 /\ passed(r))]]
  /\ NoFault

\* The row or the queue refuses the job: the credit is lost, or given back.
CreateJobFails(q) ==
  /\ request[q].step = "creating"
  /\ Fault
  /\ \E error \in {"Error", "P2024"} : Throw(q, error)
  /\ credits' \in {credits, credits + 1}

HandlerReturns(q) ==
  /\ \/ request[q].step = "handling" /\ request[q].route # "createJob"
     \/ request[q].step = "creating"
  /\ Reply(q, endpoint(q).ok, "none")
  /\ NoFault
  /\ UNCHANGED credits

-----------------------------------------------------------------------------

ApiNext ==
  \E q \in Requests :
    \/ \E route \in DOMAIN routes, bearer \in Bearer : Receive(q, route, bearer)
    \/ Guard(q) \/ CheckCredits(q) \/ CheckCreditsFails(q)
    \/ ValidationFails(q)
    \/ \E error \in endpoint(q).errors : HandlerThrows(q, error)
    \/ HandlerFails(q) \/ HandlerReturns(q)
    \/ DeductCredit(q) \/ SaveCredits(q) \/ CreateJobFails(q)

ApiSpec == ApiInit /\ FaultsInit /\ [][ApiNext]_<<apiVars, faults>>

-----------------------------------------------------------------------------
(***************************************************************************)
(* Properties.                                                             *)
(***************************************************************************)

\* What the documentation of most routes leaves out: the framework's own
\* refusals, and what breaks.
Common == {"ThrottlerException", "UnauthorizedException", "ForbiddenException",
           "BadRequestException", "Error", "P2024"}

\* Errors that no map knows: those of the other modules, and of the token
\* library.  They are answered with 500, whatever the route documents, and
\* whatever the table of uploads/README.md does (404 and 415).
Unmapped ==
  {"JsonWebTokenError", "InvalidJobModeError", "JobNotFoundError", "JobUnauthorizedError",
   "JobInvalidStateError", "InvalidFileTypeError", "ImageAssetNotFoundError",
   "UnauthorizedAssetAccessError", "PaymentProviderNotFoundError",
   "PaymentProviderNotAvailableError", "PackageNotFoundError", "PackageInactiveError",
   "MercadoPagoApiError", "SubscriptionNotFoundError", "InsufficientCreditsError"}

\* Where the status of an error is another than the route documents, or two
\* documents disagree: for want of credits the decorator says the 403 that is
\* answered, the READMEs say 402 (see PaymentIsRequired).
Undocumented ==
  {<<"login", "P2002">>, <<"refresh", "P2002">>, <<"refresh", "P2025">>,
   <<"logout", "P2002">>, <<"logout", "P2025">>,
   <<"resetPassword", "InvalidTokenError">>, <<"verifyEmail", "InvalidTokenError">>,
   <<"verifyEmail", "P2025">>, <<"searchJobs", "QueryParameterRequiredError">>,
   <<"cancelJob", "none">>, <<"presignUpload", "P2002">>,
   <<"createJob", "NoCreditsException">>}

\* A request is answered with a status that the decorators of its route
\* document, and nothing but the differences named above is answered otherwise.
AnswersAsDecorated ==
  \A q \in Requests :
    LET answer == request[q] IN
    answer.step = "answered" =>
      \/ answer.status \in endpoint(q).documented
      \/ answer.error \in Common \union Unmapped
      \/ <<answer.route, answer.error>> \in Undocumented

\* A request the guard let through is refused for want of credits, with a 500,
\* only if another took the last credit between the look of the guard and its
\* own read: of requests that overlap no other is turned away behind the guard.
\* (That two may spend one credit is billing's hazard, see NoOverspend.)
GuardedRefusalIsOvertaken ==
  \A q \in Requests :
    request[q].error = "InsufficientCreditsError" => request[q].overtaken

\* "Error Case: Insufficient Credits (402 Payment Required)" (README.md, and
\* billing/README.md): for want of credits the answer is 402.
PaymentIsRequired ==
  \A q \in Requests :
    request[q].error \in {"NoCreditsException", "InsufficientCreditsError"} =>
      request[q].status = 402
=============================================================================
