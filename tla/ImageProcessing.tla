--------------------------- MODULE ImageProcessing ---------------------------
(***************************************************************************)
(* One image on its way through the AI: ProcessImageUseCase with its       *)
(* retries, timeouts and backoff, and the memory ProcessJobUseCase keeps   *)
(* of a result.                                                            *)
(*                                                                         *)
(* Time is counted in units of the retry delay.  A download and a call to  *)
(* the AI take what they take, and are left at TimeoutDelays; nothing      *)
(* aborts the call that is left, whose answer may still come.              *)
(***************************************************************************)
EXTENDS Faults

CONSTANTS
  Images,          \* images given to processImage
  UrlKinds,        \* the kinds of URL they have
  MaxRetries,      \* attempts in all
  TimeoutDelays    \* the timeout, in retry delays

ASSUME UrlKindsAssumption == UrlKinds \subseteq {"s3", "allowed", "other"}
ASSUME MaxRetriesAssumption == MaxRetries \in Nat \ {0}
ASSUME TimeoutDelaysIsNat == TimeoutDelays \in Nat

\* Arithmetic: what is true of the powers of two a backoff goes through, which
\* the provers know nothing of.
ASSUME PowersOfTwo ==
  \A n \in 0..MaxRetries :
    2^n \in Nat \ {0} /\ 2^(n + 1) = 2 * 2^n /\ \A m \in 0..n : 2^m <= 2^n

VARIABLES
  image,     \* image -> its URL, where its processing is, and since when
  answer,    \* image -> the processing status of the answer
  pending,   \* image -> calls to the AI that were left and are not answered
  memory     \* images whose result has a row in Memory

processingVars == <<image, answer, pending, memory>>

-----------------------------------------------------------------------------
(***************************************************************************)
(* The parts of the use case.                                              *)
(***************************************************************************)

\* validateInputs: a URL that does not begin with http is refused.
validateInputs(url) == url # "s3"

\* SsrfProtector: the hosts of the allow list.
validateUrl(url) == url = "allowed"

DownloadError == {"SSRF Protection", "timed out", "429", "not found", "network"}

AiError == {"AI API timeout", "429", "other"}

\* By words in the message; a download that "timed out" has none of them.
isRetryableError(e) == e \in {"AI API timeout", "429", "network"}

\* Fault seeded in calculateDelay: the exponent is not reduced by one.
calculateDelay_double(attempt) == 2^attempt

calculateDelay(attempt) == 2^(attempt - 1)

ProcessingStatus == {"COMPLETED", "BLOCKED_SAFETY", "FAILED"}

\* VisionAiResponseParser.parse.
parse(finishReason) == IF finishReason = "SAFETY" THEN "BLOCKED_SAFETY" ELSE "COMPLETED"

ImagePhase ==
  {"idle", "downloading", "asking", "sleeping", "embedding", "remembering", "done"}

\* The longest an image can take: every attempt runs into both timeouts.
Longest == MaxRetries * 2 * TimeoutDelays + (2^(MaxRetries - 1) - 1)

ProcessingTypeOK ==
  /\ image \in [Images ->
       [url : UrlKinds, phase : ImagePhase, attempt : 1..MaxRetries, elapsed : Nat]]
  /\ answer \in [Images -> ProcessingStatus \union {"NONE"}]
  /\ pending \in [Images -> 0..MaxRetries]
  /\ memory \subseteq Images

ProcessingInit ==
  /\ \E url \in [Images -> UrlKinds] :
       image = [i \in Images |-> [url |-> url[i], phase |-> "idle", attempt |-> 1, elapsed |-> 0]]
  /\ answer = [i \in Images |-> "NONE"]
  /\ pending = [i \in Images |-> 0]
  /\ memory = {}

-----------------------------------------------------------------------------
(***************************************************************************)
(* Steps.                                                                  *)
(***************************************************************************)

\* On to a phase, delays later.
ImageTo(i, phase, delays) ==
  image' = [image EXCEPT ![i].phase = phase, ![i].elapsed = @ + delays]

Answer(i, status) == answer' = [answer EXCEPT ![i] = status]

\* Every error becomes an answer.
createErrorResult(i, delays) == Answer(i, "FAILED") /\ ImageTo(i, "done", delays)

\* RetryExecutor's catch.
AttemptFails(i, e, delays) ==
  IF image[i].attempt >= MaxRetries \/ ~isRetryableError(e)
    THEN createErrorResult(i, delays)
    ELSE ImageTo(i, "sleeping", delays) /\ UNCHANGED answer

ValidateInputs(i) ==
  /\ image[i].phase = "idle"
  /\ IF validateInputs(image[i].url)
       THEN ImageTo(i, "downloading", 0) /\ UNCHANGED answer
       ELSE createErrorResult(i, 0)
  /\ NoFault
  /\ UNCHANGED <<pending, memory>>

Download(i, d) ==
  /\ image[i].phase = "downloading"
  /\ validateUrl(image[i].url)
  /\ ImageTo(i, "asking", d)
  /\ NoFault
  /\ UNCHANGED <<answer, pending, memory>>

\* Axios counts the time in which nothing arrives: a server that sends a
\* little now and then keeps it waiting.
DownloadDrips(i) ==
  /\ image[i].phase = "downloading"
  /\ validateUrl(image[i].url)
  /\ Fault
  /\ ImageTo(i, "downloading", TimeoutDelays)
  /\ UNCHANGED <<answer, pending, memory>>

DownloadFails(i, d) ==
  /\ image[i].phase = "downloading"
  /\ IF validateUrl(image[i].url)
       THEN \E e \in DownloadError \ {"SSRF Protection", "timed out"} : AttemptFails(i, e, d)
       ELSE AttemptFails(i, "SSRF Protection", 0)
  /\ NoFault
  /\ UNCHANGED <<pending, memory>>

DownloadTimesOut(i) ==
  /\ image[i].phase = "downloading"
  /\ validateUrl(image[i].url)
  /\ AttemptFails(i, "timed out", TimeoutDelays)
  /\ NoFault
  /\ UNCHANGED <<pending, memory>>

AiAnswers(i, finishReason, d) ==
  /\ image[i].phase = "asking"
  /\ Answer(i, parse(finishReason))
  /\ ImageTo(i, IF parse(finishReason) = "COMPLETED" THEN "embedding" ELSE "done", d)
  /\ NoFault
  /\ UNCHANGED <<pending, memory>>

AiFails(i, e, d) ==
  /\ image[i].phase = "asking"
  /\ AttemptFails(i, e, d)
  /\ NoFault
  /\ UNCHANGED <<pending, memory>>

\* Fault seeded in AiTimesOut: generateContent is awaited alone.
AiTimesOut_never(i) == FALSE /\ UNCHANGED <<processingVars, faults>>

\* The call goes on without anybody to hear it.
AiTimesOut(i) ==
  /\ image[i].phase = "asking"
  /\ AttemptFails(i, "AI API timeout", TimeoutDelays)
  /\ pending' = [pending EXCEPT ![i] = @ + 1]
  /\ NoFault
  /\ UNCHANGED memory

\* The answer to a call that was left: Promise.race is decided.
LateAnswer(i) ==
  /\ pending[i] > 0
  /\ pending' = [pending EXCEPT ![i] = @ - 1]
  /\ NoFault
  /\ UNCHANGED <<image, answer, memory>>

Retry(i) ==
  /\ image[i].phase = "sleeping"
  /\ image' = [image EXCEPT ![i].phase = "downloading", ![i].attempt = @ + 1,
                            ![i].elapsed = @ + calculateDelay(image[i].attempt)]
  /\ NoFault
  /\ UNCHANGED <<answer, pending, memory>>

-----------------------------------------------------------------------------
(***************************************************************************)
(* The memory of a result.  No timeout guards the embedding.               *)
(***************************************************************************)

GenerateEmbedding(i) ==
  /\ image[i].phase = "embedding"
  /\ ImageTo(i, "remembering", 0)
  /\ NoFault
  /\ UNCHANGED <<answer, pending, memory>>

SaveMemory(i) ==
  /\ image[i].phase = "remembering"
  /\ memory' = memory \union {i}
  /\ ImageTo(i, "done", 0)
  /\ NoFault
  /\ UNCHANGED <<answer, pending>>

\* The result stands without its memory.
MemoryFails(i) ==
  /\ image[i].phase \in {"embedding", "remembering"}
  /\ ImageTo(i, "done", 0)
  /\ NoFault
  /\ UNCHANGED <<answer, pending, memory>>

-----------------------------------------------------------------------------

\* What the process does by itself and by its timers.
Pipeline(i) ==
  \/ ValidateInputs(i) \/ DownloadTimesOut(i) \/ AiTimesOut(i) \/ Retry(i)
  \/ ~validateUrl(image[i].url) /\ DownloadFails(i, 0)

\* What the servers at the other end do.
Servers(i) ==
  \/ \E d \in 0..TimeoutDelays :
       \/ Download(i, d) \/ DownloadFails(i, d)
       \/ \E finishReason \in {"STOP", "SAFETY"} : AiAnswers(i, finishReason, d)
       \/ \E e \in AiError \ {"AI API timeout"} : AiFails(i, e, d)
  \/ DownloadDrips(i) \/ LateAnswer(i)
  \/ GenerateEmbedding(i) \/ SaveMemory(i) \/ MemoryFails(i)

ProcessingNext == \E i \in Images : Pipeline(i) \/ Servers(i)

ProcessingFairness == \A i \in Images : WF_<<processingVars, faults>>(Pipeline(i))

ProcessingSpec ==
  /\ ProcessingInit /\ FaultsInit
  /\ [][ProcessingNext]_<<processingVars, faults>>
  /\ ProcessingFairness

-----------------------------------------------------------------------------
(***************************************************************************)
(* Properties.                                                             *)
(***************************************************************************)

\* An image is never in processing longer than its attempts, both timeouts of
\* each and the backoff between them allow, whichever of them fail and in what
\* order; a download that drips is not counted.
AnswerIsInTime ==
  \A i \in Images : image[i].elapsed <= Longest + faults * TimeoutDelays

\* Every image is answered, with a result or with an error, even if the image
\* server and the AI never say a word.
EveryImageIsAnswered ==
  \A i \in Images : []<>(answer[i] # "NONE")
=============================================================================
