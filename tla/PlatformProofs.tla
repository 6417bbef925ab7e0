--------------------------- MODULE PlatformProofs ---------------------------
(***************************************************************************)
(* Proofs about Uploads, ImageProcessing and HttpApi, for any number of    *)
(* images, requests, retries and faults, and about the platform they are   *)
(* part of: what is proved of the parts holds of the platform, for to each *)
(* part a step of the platform is a step of its own or none.               *)
(***************************************************************************)
EXTENDS Platform, RegistrationProofs, SessionsProofs, TLAPS

-----------------------------------------------------------------------------
(***************************************************************************)
(* Uploads, whichever images share a storage key.                          *)
(*                                                                         *)
(* ObjectsHaveRows is not inductive: a row may only go once its object is  *)
(* gone, and an object that is put again in between must be one of the     *)
(* late ones.  The invariant says so of every deletion on its way.         *)
(***************************************************************************)

TargetsAreImages ==
  \A d \in Removals : removal[d] \in {"deletingObject", "deletingRow"} => target[d] \in Uploads

\* When a row is about to go, its object is gone, or was put behind it.
ObjectGoesFirst ==
  \A d \in Removals :
    removal[d] = "deletingRow" => Key(target[d]) \notin bucket \/ Key(target[d]) \in late

UploadsInv ==
  UploadsTypeOK /\ TargetsAreImages /\ ObjectGoesFirst /\ ObjectsHaveRows

LEMMA UploadsInitially == UploadsInit => UploadsInv
  BY DEF UploadsInit, UploadsInv, UploadsTypeOK, TargetsAreImages, ObjectGoesFirst,
         ObjectsHaveRows, UploadControl, RemovalControl

\* A step that only moves a request, or its URL, keeps the invariant.
LEMMA RequestsKeepInv ==
  ASSUME UploadsInv, UNCHANGED <<asset, bucket, removal, target, late>>,
         upload' \in [Uploads -> UploadControl], signed' \subseteq Uploads
  PROVE  UploadsInv'
  BY DEF UploadsInv, UploadsTypeOK, TargetsAreImages, ObjectGoesFirst, ObjectsHaveRows,
         findByStorageKey

\* So does a step that takes an object away, and moves a deletion; to the row
\* only when the object is gone.
LEMMA DeletionsKeepInv ==
  ASSUME UploadsInv, UNCHANGED <<asset, upload, signed, late>>,
         bucket' \subseteq bucket,
         NEW d \in Removals, NEW label \in RemovalControl, RemovalTo(d, label),
         NEW i \in Uploads \union {"none"}, target' = [target EXCEPT ![d] = i],
         label \in {"deletingObject", "deletingRow"} => i \in Uploads,
         label = "deletingRow" => Key(i) \notin bucket'
  PROVE  UploadsInv'
<1>1. /\ removal' \in [Removals -> RemovalControl]
      /\ target' \in [Removals -> Uploads \union {"none"}]
      /\ removal'[d] = label /\ target'[d] = i
      /\ \A e \in Removals : e # d => removal'[e] = removal[e] /\ target'[e] = target[e]
  BY DEF UploadsInv, UploadsTypeOK, RemovalTo
<1>2. UploadsTypeOK'
  BY <1>1 DEF UploadsInv, UploadsTypeOK
<1>3. TargetsAreImages' /\ ObjectGoesFirst'
  BY <1>1 DEF UploadsInv, TargetsAreImages, ObjectGoesFirst
<1>4. ObjectsHaveRows'
  BY DEF UploadsInv, ObjectsHaveRows, findByStorageKey
<1> QED
  BY <1>2, <1>3, <1>4 DEF UploadsInv

LEMMA UploadsStep == UploadsInv /\ [UploadsNext]_uploadsVars => UploadsInv'
<1> SUFFICES ASSUME UploadsInv, [UploadsNext]_uploadsVars
             PROVE  UploadsInv'
  OBVIOUS
<1>0. /\ upload \in [Uploads -> UploadControl]
      /\ removal \in [Removals -> RemovalControl]
      /\ target \in [Removals -> Uploads \union {"none"}]
      /\ signed \subseteq Uploads
  BY DEF UploadsInv, UploadsTypeOK
<1>1. ASSUME NEW i \in Uploads, ValidateFile(i) PROVE UploadsInv'
  BY <1>0, <1>1, RequestsKeepInv DEF ValidateFile, UploadTo, UploadControl
<1>2. ASSUME NEW i \in Uploads, CreateAsset(i) PROVE UploadsInv'
  <2>1. CASE findByStorageKey(Key(i)) # {}
    BY <1>0, <1>2, <2>1, RequestsKeepInv DEF CreateAsset, UploadTo, UploadControl
  <2>2. CASE findByStorageKey(Key(i)) = {}
    <3>1. /\ asset' = asset \union {i}
          /\ upload' = [upload EXCEPT ![i] = "signing"]
          /\ UNCHANGED <<bucket, signed, removal, target, late>>
      BY <1>2, <2>2 DEF CreateAsset, createAsset, UploadTo
    <3>2. \A j \in asset : Key(j) # Key(i)
      BY <2>2 DEF findByStorageKey, ImageAsset
    <3>3. UploadsTypeOK'
      BY <3>1, <3>2 DEF UploadsInv, UploadsTypeOK, ImageAsset, UploadControl
    <3> QED
      BY <3>1, <3>3
      DEF UploadsInv, TargetsAreImages, ObjectGoesFirst, ObjectsHaveRows, findByStorageKey
  <2> QED
    BY <2>1, <2>2
<1>3. ASSUME NEW i \in Uploads, SignUrl(i) PROVE UploadsInv'
  BY <1>0, <1>3, RequestsKeepInv DEF SignUrl, UploadTo, UploadControl
<1>4. ASSUME NEW i \in Uploads, UploadFails(i) PROVE UploadsInv'
  BY <1>0, <1>4, RequestsKeepInv DEF UploadFails, UploadTo, UploadControl
<1>5. ASSUME NEW i \in Uploads, PutObject(i) PROVE UploadsInv'
  <2> DEFINE deleted == \/ i \notin asset
                        \/ \E d \in Removals :
                             removal[d] = "deletingRow" /\ Key(target[d]) = Key(i)
  <2>1. /\ bucket' = bucket \union {Key(i)}
        /\ late' = IF deleted THEN late \union {Key(i)} ELSE late
        /\ UNCHANGED <<asset, upload, signed, removal, target>>
    BY <1>5 DEF PutObject
  <2>2. UploadsTypeOK'
    BY <2>1 DEF UploadsInv, UploadsTypeOK, StorageKeys
  <2>3. late \subseteq late' /\ (deleted => Key(i) \in late')
    BY <2>1
  <2>4. TargetsAreImages' /\ ObjectGoesFirst'
    BY <2>1, <2>3 DEF UploadsInv, TargetsAreImages, ObjectGoesFirst
  <2>5. ~deleted => i \in findByStorageKey(Key(i))
    BY DEF findByStorageKey, ImageAsset
  <2>6. ObjectsHaveRows'
    BY <2>1, <2>3, <2>5 DEF UploadsInv, ObjectsHaveRows, findByStorageKey
  <2> QED
    BY <2>2, <2>4, <2>6 DEF UploadsInv
<1>6. ASSUME NEW i \in Uploads, UrlExpires(i) PROVE UploadsInv'
  BY <1>0, <1>6, RequestsKeepInv DEF UrlExpires
<1>7. ASSUME NEW d \in Removals, NEW i \in Uploads, NEW user \in Owners, FindAsset(d, i, user)
      PROVE  UploadsInv'
  <2>1. PICK label \in {"deletingObject", "refused"} : RemovalTo(d, label)
    BY <1>7 DEF FindAsset
  <2> QED
    BY <1>7, <2>1, DeletionsKeepInv DEF FindAsset, RemovalControl
\* The deletions below keep their image.
<1>8. ASSUME NEW d \in Removals, NEW label \in RemovalControl, RemovalTo(d, label),
             UNCHANGED <<asset, upload, signed, target, late>>, bucket' \subseteq bucket,
             removal[d] \in {"deletingObject", "deletingRow"},
             label = "deletingRow" => Key(target[d]) \notin bucket'
      PROVE  UploadsInv'
  <2>1. target[d] \in Uploads /\ target' = [target EXCEPT ![d] = target[d]]
    BY <1>0, <1>8 DEF UploadsInv, TargetsAreImages
  <2> QED
    BY <1>8, <2>1, DeletionsKeepInv
<1>9. ASSUME NEW d \in Removals, DeleteObject(d) PROVE UploadsInv'
  BY <1>8, <1>9 DEF DeleteObject, deleteObject, RemovalControl
<1>10. ASSUME NEW d \in Removals, DeleteObjectFails(d) PROVE UploadsInv'
  BY <1>8, <1>10 DEF DeleteObjectFails, deleteObject, RemovalControl
<1>11. ASSUME NEW d \in Removals, DeleteRow(d) PROVE UploadsInv'
  <2>1. /\ asset' = asset \ {target[d]}
        /\ removal' \in [Removals -> RemovalControl]
        /\ \A e \in Removals :
             removal'[e] \in {"deletingObject", "deletingRow"} => removal'[e] = removal[e]
        /\ UNCHANGED <<bucket, upload, signed, target, late>>
    BY <1>0, <1>11 DEF DeleteRow, deleteAsset, RemovalTo, RemovalControl
  <2>2. Key(target[d]) \notin bucket \/ Key(target[d]) \in late
    BY <1>11 DEF DeleteRow, UploadsInv, ObjectGoesFirst
  <2>3. \A key \in StorageKeys : key # Key(target[d]) =>
          findByStorageKey(key)' = findByStorageKey(key)
    BY <2>1 DEF findByStorageKey, ImageAsset
  <2>4. ObjectsHaveRows'
    BY <2>1, <2>2, <2>3 DEF UploadsInv, UploadsTypeOK, ObjectsHaveRows
  <2>5. UploadsTypeOK'
    BY <2>1 DEF UploadsInv, UploadsTypeOK
  <2>6. TargetsAreImages' /\ ObjectGoesFirst'
    BY <2>1 DEF UploadsInv, TargetsAreImages, ObjectGoesFirst
  <2> QED
    BY <2>4, <2>5, <2>6 DEF UploadsInv
<1>12. ASSUME NEW d \in Removals, DeleteRowFails(d) PROVE UploadsInv'
  BY <1>8, <1>12 DEF DeleteRowFails, RemovalControl
<1>13. CASE UNCHANGED uploadsVars
  BY <1>13 DEF uploadsVars, UploadsInv, UploadsTypeOK, TargetsAreImages, ObjectGoesFirst,
               ObjectsHaveRows, findByStorageKey
<1> QED
  BY <1>1, <1>2, <1>3, <1>4, <1>5, <1>6, <1>7, <1>9, <1>10, <1>11, <1>12, <1>13
  DEF UploadsNext

\* Whatever fails, and however the requests to delete an image overlap: no
\* object is left without a row but those put when their deletion had begun.
THEOREM NoOrphans == UploadsSpec => []ObjectsHaveRows
<1>1. UploadsInv => ObjectsHaveRows
  BY DEF UploadsInv
<1>2. [UploadsNext]_<<uploadsVars, faults>> => [UploadsNext]_uploadsVars
  OBVIOUS
<1> QED
  BY UploadsInitially, UploadsStep, <1>1, <1>2, PTL DEF UploadsSpec

-----------------------------------------------------------------------------
(***************************************************************************)
(* One image, with any number of retries and any timeout.                  *)
(*                                                                         *)
(* AnswerIsInTime is not inductive: it says nothing of the attempts that   *)
(* are left.  The invariant gives every attempt its share: those before it *)
(* took their timeouts and the backoff after each, itself what its phase   *)
(* allows, and a download that drips one timeout more for each fault.      *)
(***************************************************************************)

\* What the attempts before attempt a have taken, each with both timeouts, and
\* the backoff after each.
Before(a) == (a - 1) * (2 * TimeoutDelays) + (2^(a - 1) - 1)

\* What the attempt an image is in may have taken by its phase.
InAttempt(phase) ==
  IF phase \in {"idle", "downloading"} THEN 0
  ELSE IF phase = "asking" THEN TimeoutDelays ELSE 2 * TimeoutDelays

\* What may be said of an image that left some calls to the AI behind, n faults
\* so far: every attempt but the last is followed by a sleep, and leaves one
\* call at most.
Within(p, left, n) ==
  /\ p.elapsed <= Before(p.attempt) + InAttempt(p.phase) + n * TimeoutDelays
  /\ p.phase = "sleeping" => p.attempt < MaxRetries
  /\ left \in Nat
  /\ left <= (IF p.phase \in {"idle", "downloading", "asking"} THEN p.attempt - 1 ELSE p.attempt)

ImageHolds(i) == Within(image[i], pending[i], faults)

ProcessingInv ==
  /\ ProcessingTypeOK /\ faults \in Nat
  /\ \A i \in Images : ImageHolds(i)

\* What an attempt adds to the ones before it.
LEMMA BackoffDoubles ==
  ASSUME NEW a \in 1..MaxRetries
  PROVE  /\ 2^(a - 1) \in Nat \ {0} /\ calculateDelay(a) = 2^(a - 1)
         /\ 2^(a - 1) <= 2^(MaxRetries - 1)
         /\ Before(a) \in Nat
         /\ Before(a + 1) = Before(a) + 2 * TimeoutDelays + 2^(a - 1)
         /\ Before(a) + 2 * TimeoutDelays <= Longest
<1>1. MaxRetries \in Nat \ {0} /\ TimeoutDelays \in Nat /\ a - 1 \in 0..MaxRetries
      /\ MaxRetries - 1 \in 0..MaxRetries /\ a - 1 \in 0..(MaxRetries - 1)
  BY MaxRetriesAssumption, TimeoutDelaysIsNat
<1> DEFINE p == 2^(a - 1)
           m == 2^(MaxRetries - 1)
<1>2. p \in Nat \ {0} /\ 2^((a - 1) + 1) = 2 * p /\ m \in Nat \ {0} /\ p <= m
  BY <1>1, PowersOfTwo
<1>3. 2^a = 2 * p
  <2>1. (a - 1) + 1 = a
    BY <1>1
  <2> QED
    BY <1>2, <2>1
<1>4. (a + 1) - 1 = a
  BY <1>1
<1>5. Before(a) = (a - 1) * (2 * TimeoutDelays) + (p - 1)
  BY DEF Before
<1>6. Before(a + 1) = a * (2 * TimeoutDelays) + (2 * p - 1)
  BY <1>3, <1>4 DEF Before
<1>7. Longest = MaxRetries * 2 * TimeoutDelays + (m - 1)
  BY DEF Longest
<1>8. calculateDelay(a) = p
  BY DEF calculateDelay
<1> HIDE DEF p, m
<1> DEFINE T == 2 * TimeoutDelays
<1>9. /\ (a - 1) * T \in Nat /\ a * T = (a - 1) * T + T
      /\ a * T <= MaxRetries * T /\ MaxRetries * 2 * TimeoutDelays = MaxRetries * T
  <2>1. T \in Nat /\ MaxRetries * 2 * TimeoutDelays = MaxRetries * T
    BY <1>1
  <2> HIDE DEF T
  <2>2. (a - 1) * T \in Nat /\ a * T = (a - 1) * T + T
    BY <1>1, <2>1
  <2>3. MaxRetries * T = a * T + (MaxRetries - a) * T /\ (MaxRetries - a) * T \in Nat
    BY <1>1, <2>1
  <2> QED
    BY <1>1, <2>1, <2>2, <2>3
<1>10. T \in Nat
  BY <1>1
<1> HIDE DEF T
<1>11. Before(a) = (a - 1) * T + (p - 1) /\ Before(a + 1) = a * T + (2 * p - 1)
       /\ Longest = MaxRetries * T + (m - 1)
  BY <1>5, <1>6, <1>7, <1>9 DEF T
<1>12. Before(a) \in Nat /\ Before(a + 1) = Before(a) + T + p /\ Before(a) + T <= Longest
  BY <1>1, <1>2, <1>9, <1>10, <1>11
<1> QED
  BY <1>2, <1>8, <1>12 DEF p, m, T
ImageState == [url : UrlKinds, phase : ImagePhase, attempt : 1..MaxRetries, elapsed : Nat]

LEMMA FaultsLengthen ==
  ASSUME NEW n \in Nat, NEW m \in Nat, n <= m
  PROVE  /\ n * TimeoutDelays \in Nat /\ m * TimeoutDelays \in Nat
         /\ n * TimeoutDelays <= m * TimeoutDelays
         /\ (n + 1) * TimeoutDelays = n * TimeoutDelays + TimeoutDelays
<1>1. /\ (m - n) * TimeoutDelays \in Nat
      /\ m * TimeoutDelays = n * TimeoutDelays + (m - n) * TimeoutDelays
  BY TimeoutDelaysIsNat
<1>2. n * TimeoutDelays \in Nat /\ m * TimeoutDelays \in Nat
      /\ (n + 1) * TimeoutDelays = n * TimeoutDelays + TimeoutDelays
  BY TimeoutDelaysIsNat
<1> QED
  BY <1>1, <1>2

\* A step of i keeps the invariant if what it makes of i is right, ...
LEMMA OneImageMoves ==
  ASSUME ProcessingInv, FaultsGrow, NEW i \in Images, NEW e \in ImageState, NEW left,
         image' = [image EXCEPT ![i] = e], pending' = [pending EXCEPT ![i] = left],
         answer' \in [Images -> ProcessingStatus \union {"NONE"}], memory' \subseteq Images,
         Within(e, left, faults')
  PROVE  ProcessingInv'
<1>1. /\ image \in [Images -> ImageState] /\ pending \in [Images -> 0..MaxRetries]
      /\ faults \in Nat /\ faults' \in Nat /\ MaxRetries \in Nat \ {0}
      /\ \A k \in Images : ImageHolds(k)
  BY MaxRetriesAssumption DEF ProcessingInv, ProcessingTypeOK, ImageState, FaultsGrow
<1>2. image'[i] = e /\ \A k \in Images \ {i} : image'[k] = image[k]
  BY <1>1
<1>3. pending'[i] = left /\ \A k \in Images \ {i} : pending'[k] = pending[k]
  BY <1>1
<1>4. left \in 0..MaxRetries
  BY <1>1 DEF Within, ImageState
<1>5. ProcessingTypeOK'
  BY <1>1, <1>4 DEF ProcessingTypeOK, ImageState
<1>6. ASSUME NEW k \in Images PROVE ImageHolds(k)'
  <2>1. CASE k = i
    BY <1>2, <1>3, <2>1 DEF Within, ImageHolds
  <2>2. CASE k # i
    <3>1. image[k] \in ImageState /\ image[k].attempt \in 1..MaxRetries /\ image[k].elapsed \in Nat
      BY <1>1 DEF ImageState
    <3>2. Before(image[k].attempt) \in Nat /\ InAttempt(image[k].phase) \in Nat
      BY <3>1, BackoffDoubles, TimeoutDelaysIsNat DEF InAttempt
    <3>3. faults * TimeoutDelays <= faults' * TimeoutDelays /\ faults * TimeoutDelays \in Nat
          /\ faults' * TimeoutDelays \in Nat
      BY <1>1, FaultsLengthen DEF FaultsGrow
    <3>4. image'[k] = image[k] /\ pending'[k] = pending[k] /\ ImageHolds(k)
      BY <1>1, <1>2, <1>3, <2>2
    <3> QED
      BY <3>1, <3>2, <3>3, <3>4 DEF ImageHolds, Within
  <2> QED
    BY <2>1, <2>2
<1> QED
  BY <1>1, <1>5, <1>6 DEF ProcessingInv

\* ... and so does a step of another part, with its faults.
LEMMA OthersKeepImages ==
  ASSUME ProcessingInv, FaultsGrow, UNCHANGED processingVars
  PROVE  ProcessingInv'
<1>1. /\ image \in [Images -> ImageState] /\ faults \in Nat /\ faults' \in Nat
  BY DEF ProcessingInv, ProcessingTypeOK, ImageState, FaultsGrow
<1>2. ASSUME NEW k \in Images PROVE ImageHolds(k)'
  <2>1. image[k].attempt \in 1..MaxRetries /\ image[k].elapsed \in Nat
    BY <1>1 DEF ImageState
  <2>2. Before(image[k].attempt) \in Nat /\ InAttempt(image[k].phase) \in Nat
    BY <2>1, BackoffDoubles, TimeoutDelaysIsNat DEF InAttempt
  <2>3. faults * TimeoutDelays <= faults' * TimeoutDelays /\ faults * TimeoutDelays \in Nat
        /\ faults' * TimeoutDelays \in Nat
    BY <1>1, FaultsLengthen DEF FaultsGrow
  <2> QED
    BY <2>1, <2>2, <2>3 DEF ImageHolds, Within, ProcessingInv, processingVars
<1> QED
  BY <1>1, <1>2 DEF ProcessingInv, ProcessingTypeOK, processingVars

LEMMA ProcessingInitially == ProcessingInit /\ FaultsInit => ProcessingInv
<1> SUFFICES ASSUME ProcessingInit, FaultsInit PROVE ProcessingInv
  OBVIOUS
<1>1. 1 \in 1..MaxRetries /\ 0 \in 0..MaxRetries /\ 0 \in Nat
  BY MaxRetriesAssumption
<1>2. PICK url \in [Images -> UrlKinds] :
        image = [i \in Images |-> [url |-> url[i], phase |-> "idle", attempt |-> 1, elapsed |-> 0]]
  BY DEF ProcessingInit
<1>3. /\ answer = [i \in Images |-> "NONE"] /\ pending = [i \in Images |-> 0]
      /\ memory = {} /\ faults = 0
  BY DEF ProcessingInit, FaultsInit
<1>4. ProcessingTypeOK
  BY <1>1, <1>2, <1>3 DEF ProcessingTypeOK, ImagePhase
<1>5. Before(1) \in Nat /\ 0 * TimeoutDelays = 0
  BY <1>1, BackoffDoubles, TimeoutDelaysIsNat
<1>6. ASSUME NEW i \in Images PROVE ImageHolds(i)
  <2>1. image[i].phase = "idle" /\ image[i].attempt = 1 /\ image[i].elapsed = 0 /\ pending[i] = 0
    BY <1>2, <1>3
  <2> HIDE DEF Before
  <2> QED
    BY <1>3, <1>5, <2>1 DEF ImageHolds, Within, InAttempt
<1> QED
  BY <1>3, <1>4, <1>6 DEF ProcessingInv

\* What an image that moves on by delays has, and where it may go.
LEMMA ImageMoves ==
  ASSUME ProcessingInv, FaultsGrow, NEW i \in Images, NEW phase \in ImagePhase, NEW d \in Nat,
         ImageTo(i, phase, d), NEW left \in Nat, pending' = [pending EXCEPT ![i] = left],
         answer' \in [Images -> ProcessingStatus \union {"NONE"}], memory' \subseteq Images,
         InAttempt(image[i].phase) + faults * TimeoutDelays + d
           <= InAttempt(phase) + faults' * TimeoutDelays,
         phase = "sleeping" => image[i].attempt < MaxRetries,
         left <= (IF phase \in {"idle", "downloading", "asking"}
                    THEN image[i].attempt - 1 ELSE image[i].attempt)
  PROVE  ProcessingInv'
<1>1. image \in [Images -> ImageState] /\ image[i] \in ImageState /\ faults \in Nat
      /\ faults' \in Nat /\ ImageHolds(i)
  BY DEF ProcessingInv, ProcessingTypeOK, ImageState, FaultsGrow
<1> DEFINE p == image[i]
           e == [p EXCEPT !.phase = phase, !.elapsed = @ + d]
<1>2. image' = [image EXCEPT ![i] = e]
  BY DEF ImageTo
<1>3. /\ e \in ImageState /\ e.phase = phase /\ e.attempt = p.attempt
      /\ e.elapsed = p.elapsed + d /\ p.attempt \in 1..MaxRetries /\ p.elapsed \in Nat
  <2>1. p.attempt \in 1..MaxRetries /\ p.elapsed \in Nat /\ p.elapsed + d \in Nat
    BY <1>1 DEF ImageState
  <2>2. e = [p EXCEPT !.phase = phase, !.elapsed = p.elapsed + d]
    BY <1>1 DEF ImageState
  <2> HIDE DEF e
  <2>3. e \in ImageState
    BY <1>1, <2>1, <2>2 DEF ImageState
  <2>4. e.phase = phase /\ e.attempt = p.attempt /\ e.elapsed = p.elapsed + d
    BY <1>1, <2>2 DEF ImageState
  <2> QED
    BY <2>1, <2>3, <2>4
<1>4. Before(p.attempt) \in Nat /\ InAttempt(p.phase) \in Nat /\ InAttempt(phase) \in Nat
  BY <1>3, BackoffDoubles, TimeoutDelaysIsNat DEF InAttempt
<1>5. faults * TimeoutDelays \in Nat /\ faults' * TimeoutDelays \in Nat
  BY <1>1, FaultsLengthen DEF FaultsGrow
<1>6. p.elapsed <= Before(p.attempt) + InAttempt(p.phase) + faults * TimeoutDelays
  BY <1>1 DEF ImageHolds, Within
<1>7. p.elapsed + d <= Before(p.attempt) + InAttempt(phase) + faults' * TimeoutDelays
  <2> DEFINE b == Before(p.attempt)
             x == InAttempt(p.phase)
             y == InAttempt(phase)
             n == faults * TimeoutDelays
             m == faults' * TimeoutDelays
             t == p.elapsed
  <2>1. b \in Nat /\ x \in Nat /\ y \in Nat /\ n \in Nat /\ m \in Nat /\ t \in Nat
        /\ t <= b + x + n /\ x + n + d <= y + m
    BY <1>3, <1>4, <1>5, <1>6
  <2> HIDE DEF b, x, y, n, m, t
  <2>2. t + d <= b + y + m
    BY <2>1
  <2> QED
    BY <2>2 DEF b, x, y, n, m, t
<1>8. Within(e, left, faults')
  BY <1>3, <1>7 DEF Within
<1> HIDE DEF e
<1> QED
  BY <1>2, <1>3, <1>8, OneImageMoves

\* An error leaves the image done or asleep, in any case.
LEMMA ErrorsAreMoves ==
  ASSUME NEW i \in Images, NEW e, NEW d, AttemptFails(i, e, d),
         ProcessingTypeOK
  PROVE  /\ \E phase \in {"done", "sleeping"} :
              ImageTo(i, phase, d) /\ (phase = "sleeping" => image[i].attempt < MaxRetries)
         /\ answer' \in [Images -> ProcessingStatus \union {"NONE"}]
<1>1. image[i].attempt \in 1..MaxRetries /\ MaxRetries \in Nat
  BY MaxRetriesAssumption DEF ProcessingTypeOK
<1> QED
  BY <1>1 DEF AttemptFails, createErrorResult, Answer, ProcessingTypeOK, ProcessingStatus


LEMMA Lengthens ==
  ASSUME NEW x \in Nat, NEW y \in Nat, NEW d \in Nat, NEW n \in Nat, NEW m \in Nat,
         x + d <= y, n <= m
  PROVE  x + n + d <= y + m
OBVIOUS

LEMMA ProcessingCountsFaults == ProcessingNext => NoFault \/ Fault
BY DEF ProcessingNext, Pipeline, Servers, ValidateInputs, Download, DownloadDrips,
       DownloadFails, DownloadTimesOut, AiAnswers, AiFails, AiTimesOut, LateAnswer, Retry,
       GenerateEmbedding, SaveMemory, MemoryFails

LEMMA ProcessingStep ==
  ProcessingInv /\ FaultsGrow /\ [ProcessingNext]_processingVars => ProcessingInv'
<1> SUFFICES ASSUME ProcessingInv, FaultsGrow, [ProcessingNext]_processingVars
             PROVE  ProcessingInv'
  OBVIOUS
<1> DEFINE T == TimeoutDelays
<1>1. /\ image \in [Images -> ImageState] /\ answer \in [Images -> ProcessingStatus \union {"NONE"}]
      /\ pending \in [Images -> 0..MaxRetries] /\ memory \subseteq Images
      /\ T \in Nat /\ faults \in Nat /\ faults' \in Nat /\ ProcessingTypeOK
      /\ faults * T \in Nat /\ faults' * T \in Nat /\ faults * T <= faults' * T
  BY TimeoutDelaysIsNat, FaultsLengthen
  DEF ProcessingInv, ProcessingTypeOK, ImageState, FaultsGrow
\* A step of an image that leaves its calls to the AI alone.
<1>2. ASSUME NEW i \in Images, NEW phase \in ImagePhase, NEW d \in Nat, ImageTo(i, phase, d),
             UNCHANGED pending, answer' \in [Images -> ProcessingStatus \union {"NONE"}],
             memory' \subseteq Images,
             InAttempt(image[i].phase) + d <= InAttempt(phase),
             phase = "sleeping" => image[i].attempt < MaxRetries,
             phase \in {"idle", "downloading", "asking"} =>
               image[i].phase \in {"idle", "downloading", "asking"}
      PROVE  ProcessingInv'
  <2>1. pending' = [pending EXCEPT ![i] = pending[i]] /\ pending[i] \in Nat
    BY <1>1, <1>2
  <2>2. pending[i] <= (IF phase \in {"idle", "downloading", "asking"}
                         THEN image[i].attempt - 1 ELSE image[i].attempt)
    BY <1>1, <1>2 DEF ProcessingInv, ImageHolds, Within, ImageState
  <2>3. InAttempt(image[i].phase) + faults * T + d <= InAttempt(phase) + faults' * T
    <3>1. InAttempt(image[i].phase) \in Nat /\ InAttempt(phase) \in Nat
      BY <1>1 DEF InAttempt
    <3>2. faults * T \in Nat /\ faults' * T \in Nat /\ faults * T <= faults' * T
      BY <1>1
    <3> HIDE DEF T
    <3> QED
      BY <1>2, <3>1, <3>2, Lengthens
  <2> QED
    BY <1>2, <2>1, <2>2, <2>3, ImageMoves
<1>3. ASSUME NEW i \in Images, ValidateInputs(i) PROVE ProcessingInv'
  <2>1. PICK phase \in {"downloading", "done"} :
          ImageTo(i, phase, 0) /\ answer' \in [Images -> ProcessingStatus \union {"NONE"}]
    BY <1>1, <1>3 DEF ValidateInputs, createErrorResult, Answer, ProcessingStatus
  <2> QED
    BY <1>1, <1>2, <1>3, <2>1 DEF ValidateInputs, InAttempt, ImagePhase
<1>4. ASSUME NEW i \in Images, NEW d \in 0..T, Download(i, d) PROVE ProcessingInv'
  BY <1>1, <1>2, <1>4 DEF Download, InAttempt, ImagePhase
<1>5. ASSUME NEW i \in Images, DownloadDrips(i) PROVE ProcessingInv'
  <2>1. faults' * T = faults * T + T
    BY <1>1, <1>5, FaultsLengthen DEF DownloadDrips, Fault
  <2>2. pending' = [pending EXCEPT ![i] = pending[i]] /\ pending[i] \in Nat
    BY <1>1, <1>5 DEF DownloadDrips
  <2>3. pending[i] <= image[i].attempt - 1
    BY <1>5 DEF DownloadDrips, ProcessingInv, ImageHolds, Within
  <2>4. InAttempt(image[i].phase) + faults * T + T <= InAttempt("downloading") + faults' * T
    <3>1. InAttempt(image[i].phase) = 0 /\ InAttempt("downloading") = 0
      BY <1>5 DEF DownloadDrips, InAttempt
    <3> DEFINE n == faults * T
               m == faults' * T
    <3>2. n \in Nat /\ m = n + T /\ T \in Nat
      BY <1>1, <2>1
    <3> HIDE DEF n, m, T
    <3>3. 0 + n + T <= 0 + m
      BY <3>2
    <3> QED
      BY <3>1, <3>3 DEF n, m
  <2> QED
    BY <1>1, <1>5, <2>2, <2>3, <2>4, ImageMoves DEF DownloadDrips, ImagePhase
\* An attempt that fails, in time.
<1>6. ASSUME NEW i \in Images, NEW e, NEW d \in 0..T, AttemptFails(i, e, d),
             UNCHANGED <<pending, memory>>,
             image[i].phase \in {"downloading", "asking"}
      PROVE  ProcessingInv'
  <2>1. PICK phase \in {"done", "sleeping"} :
          ImageTo(i, phase, d) /\ (phase = "sleeping" => image[i].attempt < MaxRetries)
    BY <1>1, <1>6, ErrorsAreMoves
  <2>2. answer' \in [Images -> ProcessingStatus \union {"NONE"}]
    BY <1>1, <1>6, ErrorsAreMoves
  <2>3. phase \in ImagePhase /\ d \in Nat /\ InAttempt(image[i].phase) + d <= InAttempt(phase)
    BY <1>1, <1>6 DEF ImagePhase, InAttempt
  <2> QED
    BY <1>1, <1>2, <1>6, <2>1, <2>2, <2>3
<1>7. ASSUME NEW i \in Images, NEW d \in 0..T, DownloadFails(i, d) PROVE ProcessingInv'
  <2>1. 0 \in 0..T
    BY <1>1
  <2>2. \E e, x : x \in 0..T /\ AttemptFails(i, e, x)
    <3>1. CASE validateUrl(image[i].url)
      BY <1>7, <3>1 DEF DownloadFails
    <3>2. CASE ~validateUrl(image[i].url)
      BY <1>7, <2>1, <3>2 DEF DownloadFails
    <3> QED
      BY <3>1, <3>2
  <2>3. UNCHANGED <<pending, memory>> /\ image[i].phase = "downloading"
    BY <1>7 DEF DownloadFails
  <2> QED
    BY <1>6, <2>2, <2>3
<1>8. ASSUME NEW i \in Images, DownloadTimesOut(i) PROVE ProcessingInv'
  <2>1. T \in 0..T
    BY <1>1
  <2>2. /\ AttemptFails(i, "timed out", T) /\ UNCHANGED <<pending, memory>>
        /\ image[i].phase = "downloading"
    BY <1>8 DEF DownloadTimesOut
  <2> QED
    BY <1>6, <2>1, <2>2
<1>9. ASSUME NEW i \in Images, NEW reason \in {"STOP", "SAFETY"}, NEW d \in 0..T,
             AiAnswers(i, reason, d)
      PROVE  ProcessingInv'
  <2>1. PICK phase \in {"embedding", "done"} : ImageTo(i, phase, d)
    BY <1>9 DEF AiAnswers
  <2>2. answer' \in [Images -> ProcessingStatus \union {"NONE"}]
    BY <1>1, <1>9 DEF AiAnswers, Answer, parse, ProcessingStatus
  <2>3. InAttempt(image[i].phase) + d <= InAttempt(phase) /\ d \in Nat /\ phase \in ImagePhase
    BY <1>1, <1>9 DEF AiAnswers, InAttempt, ImagePhase
  <2> QED
    BY <1>1, <1>2, <1>9, <2>1, <2>2, <2>3 DEF AiAnswers
<1>10. ASSUME NEW i \in Images, NEW e \in AiError, NEW d \in 0..T, AiFails(i, e, d)
       PROVE  ProcessingInv'
  BY <1>6, <1>10 DEF AiFails
<1>11. ASSUME NEW i \in Images, AiTimesOut(i) PROVE ProcessingInv'
  <2>1. PICK phase \in {"done", "sleeping"} :
          ImageTo(i, phase, T) /\ (phase = "sleeping" => image[i].attempt < MaxRetries)
    BY <1>1, <1>11, ErrorsAreMoves DEF AiTimesOut
  <2>2. answer' \in [Images -> ProcessingStatus \union {"NONE"}]
    BY <1>1, <1>11, ErrorsAreMoves DEF AiTimesOut
  <2>3. pending' = [pending EXCEPT ![i] = pending[i] + 1] /\ pending[i] + 1 \in Nat
        /\ pending[i] + 1 <= image[i].attempt
    <3>1. pending[i] \in Nat /\ image[i].attempt \in Nat
      BY <1>1 DEF ImageState
    <3>2. pending[i] <= image[i].attempt - 1
      BY <1>11 DEF AiTimesOut, ProcessingInv, ImageHolds, Within
    <3>3. pending' = [pending EXCEPT ![i] = pending[i] + 1]
      BY <1>11 DEF AiTimesOut
    <3> QED
      BY <3>1, <3>2, <3>3
  <2>4. InAttempt(image[i].phase) + faults * T + T <= InAttempt(phase) + faults' * T
    <3>1. InAttempt(image[i].phase) = T /\ InAttempt(phase) = 2 * T
      BY <1>11 DEF AiTimesOut, InAttempt
    <3>2. T + T <= 2 * T /\ 2 * T \in Nat /\ T \in Nat
      BY <1>1
    <3>3. faults * T \in Nat /\ faults' * T \in Nat /\ faults * T <= faults' * T
      BY <1>1
    <3> HIDE DEF T
    <3> QED
      BY <3>1, <3>2, <3>3, Lengthens
  <2> QED
    BY <1>1, <1>11, <2>1, <2>2, <2>3, <2>4, ImageMoves DEF AiTimesOut, ImagePhase
<1>12. ASSUME NEW i \in Images, LateAnswer(i) PROVE ProcessingInv'
  <2>1. /\ pending' = [pending EXCEPT ![i] = pending[i] - 1] /\ pending[i] - 1 \in Nat
        /\ UNCHANGED <<image, answer, memory>>
    BY <1>1, <1>12 DEF LateAnswer
  <2>2. image' = [image EXCEPT ![i] = image[i]] /\ image[i] \in ImageState
    BY <1>1, <2>1
  <2>3. InAttempt(image[i].phase) \in Nat /\ Before(image[i].attempt) \in Nat
    BY <2>2, <1>1, BackoffDoubles DEF InAttempt, ImageState
  <2>4. Within(image[i], pending[i] - 1, faults')
    <3> HIDE DEF T
    <3>1. ImageHolds(i) /\ image[i].elapsed \in Nat /\ image[i].attempt \in Nat
      BY <2>2 DEF ProcessingInv, ImageState
    <3>2. image[i].elapsed <= Before(image[i].attempt) + InAttempt(image[i].phase) + faults' * T
      <4> DEFINE b == Before(image[i].attempt)
                 x == InAttempt(image[i].phase)
                 n == faults * T
                 m == faults' * T
                 t == image[i].elapsed
      <4>1. t <= b + x + n
        BY <3>1 DEF ImageHolds, Within, T
      <4>2. b \in Nat /\ x \in Nat /\ n \in Nat /\ m \in Nat /\ n <= m /\ t \in Nat
        BY <1>1, <2>3, <3>1
      <4> HIDE DEF b, x, n, m, t
      <4>3. t <= b + x + m
        BY <4>1, <4>2
      <4> QED
        BY <4>3 DEF b, x, m, t
    <3>3. pending[i] \in Nat
      BY <1>1
    <3> QED
      BY <2>1, <3>1, <3>2, <3>3 DEF ImageHolds, Within, Within, T
  <2> QED
    BY <1>1, <2>1, <2>2, <2>4, OneImageMoves
<1>13. ASSUME NEW i \in Images, Retry(i) PROVE ProcessingInv'
  <2> DEFINE p == image[i]
             delay == calculateDelay(p.attempt)
             e == [p EXCEPT !.phase = "downloading", !.attempt = p.attempt + 1,
                            !.elapsed = p.elapsed + delay]
  <2>1. p \in ImageState /\ p.attempt \in 1..MaxRetries /\ p.elapsed \in Nat
        /\ p.phase = "sleeping" /\ p.attempt < MaxRetries /\ ImageHolds(i)
    BY <1>1, <1>13 DEF Retry, ImageState, ProcessingInv, ImageHolds, Within
  <2>2. /\ delay \in Nat /\ Before(p.attempt) \in Nat
        /\ Before(p.attempt + 1) = Before(p.attempt) + 2 * T + delay
    BY <2>1, BackoffDoubles
  <2>3. image' = [image EXCEPT ![i] = e]
    BY <1>1, <1>13, <2>1 DEF Retry, ImageState
  <2>4. p.attempt + 1 \in 1..MaxRetries /\ p.elapsed + delay \in Nat
    BY <2>1, <2>2, MaxRetriesAssumption
  <2> HIDE DEF delay
  <2>5. /\ e \in ImageState /\ e.phase = "downloading" /\ e.attempt = p.attempt + 1
        /\ e.elapsed = p.elapsed + delay
    BY <2>1, <2>4 DEF ImageState, ImagePhase
  <2>6. p.elapsed + delay <= Before(p.attempt + 1) + 0 + faults' * T
    <3>1. p.elapsed <= Before(p.attempt) + 2 * T + faults * T
      BY <2>1 DEF ImageHolds, Within, InAttempt
    <3> DEFINE b == Before(p.attempt)
               n == faults * T
               m == faults' * T
               t == p.elapsed
    <3>2. /\ t \in Nat /\ b \in Nat /\ n \in Nat /\ m \in Nat /\ T \in Nat /\ n <= m
          /\ t <= b + 2 * T + n
      BY <1>1, <2>1, <2>2, <3>1
    <3> HIDE DEF b, n, m, t, T
    <3>3. t + delay <= (b + 2 * T + delay) + 0 + m
      BY <2>2, <3>2
    <3> QED
      BY <2>2, <3>3 DEF b, m, t
  <2>7. /\ pending[i] \in Nat /\ pending[i] <= (p.attempt + 1) - 1
        /\ UNCHANGED <<answer, pending, memory>>
    BY <1>1, <1>13, <2>1 DEF ImageHolds, Within, Retry
  <2>8. pending' = [pending EXCEPT ![i] = pending[i]]
    BY <1>1, <2>7
  <2> HIDE DEF e
  <2>9. Within(e, pending[i], faults')
    BY <2>5, <2>6, <2>7 DEF Within, InAttempt
  <2> QED
    BY <1>1, <2>3, <2>5, <2>7, <2>8, <2>9, OneImageMoves
<1>14. ASSUME NEW i \in Images, GenerateEmbedding(i) \/ SaveMemory(i) \/ MemoryFails(i)
       PROVE  ProcessingInv'
  <2>1. PICK phase \in {"remembering", "done"} : ImageTo(i, phase, 0)
    BY <1>14 DEF GenerateEmbedding, SaveMemory, MemoryFails
  <2>2. UNCHANGED <<pending, answer>> /\ memory' \subseteq Images
        /\ image[i].phase \in {"embedding", "remembering"}
    BY <1>1, <1>14 DEF GenerateEmbedding, SaveMemory, MemoryFails
  <2>3. InAttempt(image[i].phase) + 0 <= InAttempt(phase) /\ phase \in ImagePhase
    BY <1>1, <2>2 DEF InAttempt, ImagePhase
  <2> QED
    BY <1>1, <1>2, <2>1, <2>2, <2>3
<1>15. CASE UNCHANGED processingVars
  BY <1>15, OthersKeepImages
<1>16. ASSUME NEW i \in Images, Pipeline(i) PROVE ProcessingInv'
  <2>1. 0 \in 0..T
    BY <1>1
  <2> QED
    BY <1>3, <1>7, <1>8, <1>11, <1>13, <1>16, <2>1 DEF Pipeline
<1>17. ASSUME NEW i \in Images, Servers(i) PROVE ProcessingInv'
  BY <1>4, <1>5, <1>7, <1>9, <1>10, <1>12, <1>14, <1>17 DEF Servers
<1> QED
  BY <1>15, <1>16, <1>17 DEF ProcessingNext

LEMMA ProcessingSafe == ProcessingInv => AnswerIsInTime
<1> SUFFICES ASSUME ProcessingInv, NEW i \in Images
             PROVE  image[i].elapsed <= Longest + faults * TimeoutDelays
  BY DEF AnswerIsInTime
<1> DEFINE p == image[i]
<1>1. /\ p.attempt \in 1..MaxRetries /\ p.elapsed \in Nat /\ ImageHolds(i) /\ faults \in Nat
      /\ MaxRetries \in Nat \ {0} /\ TimeoutDelays \in Nat
  BY MaxRetriesAssumption, TimeoutDelaysIsNat DEF ProcessingInv, ProcessingTypeOK
<1>2. Before(p.attempt) \in Nat /\ Before(p.attempt) + 2 * TimeoutDelays <= Longest
      /\ InAttempt(p.phase) \in Nat /\ InAttempt(p.phase) <= 2 * TimeoutDelays
  BY <1>1, BackoffDoubles DEF InAttempt
<1>3. faults * TimeoutDelays \in Nat
  BY <1>1
<1>4. p.elapsed <= Before(p.attempt) + InAttempt(p.phase) + faults * TimeoutDelays
  BY <1>1 DEF ImageHolds, Within
<1>5. Longest \in Nat
  <2>1. 2^(MaxRetries - 1) \in Nat \ {0}
    BY <1>1, BackoffDoubles
  <2> HIDE DEF Before
  <2>2. MaxRetries * 2 * TimeoutDelays \in Nat
    BY <1>1
  <2> QED
    BY <2>1, <2>2 DEF Longest
<1> DEFINE b == Before(p.attempt)
           x == InAttempt(p.phase)
           n == faults * TimeoutDelays
           t == p.elapsed
           w == 2 * TimeoutDelays
<1>6. w \in Nat
  BY <1>1
<1> HIDE DEF b, x, n, t, w
<1> QED
  BY <1>1, <1>2, <1>3, <1>4, <1>5, <1>6 DEF b, x, n, t, w

\* Whatever fails and in whatever order, an image is never longer in processing
\* than its attempts, their timeouts and the backoff between them allow.
THEOREM AnswersInTime == ProcessingSpec => []AnswerIsInTime
<1>1. ProcessingInv /\ [ProcessingNext]_<<processingVars, faults>> => FaultsGrow
  BY ProcessingCountsFaults DEF ProcessingInv, FaultsGrow, Fault, NoFault
<1>2. [ProcessingNext]_<<processingVars, faults>> => [ProcessingNext]_processingVars
  OBVIOUS
<1> QED
  BY ProcessingInitially, ProcessingStep, ProcessingSafe, <1>1, <1>2, PTL DEF ProcessingSpec

-----------------------------------------------------------------------------
(***************************************************************************)
(* Requests, any number of them, for any number of credits.                *)
(*                                                                         *)
(* AnswersAsDocumented speaks of requests that were answered; that a job   *)
(* is refused for want of credits only when another request was faster is  *)
(* decided earlier, between the guard and the handler.                     *)
(***************************************************************************)

\* The table of routes keeps what the property says of an answer: its success
\* and its errors are documented, or among the differences that are named.
Documents(r) ==
  LET e == routes[r] IN
  /\ e.ok \in e.documented \/ <<r, "none">> \in Undocumented
  /\ \A error \in e.errors :
       \/ statusOf(error) \in e.documented
       \/ error \in Common \union Unmapped
       \/ <<r, error>> \in Undocumented

LEMMA StatusesOfErrors ==
  /\ statusOf("UserAlreadyExistsError") = 409 /\ statusOf("InvalidCredentialsError") = 401
  /\ statusOf("SessionNotFoundError") = 404 /\ statusOf("UnauthorizedSessionAccessError") = 403
  /\ statusOf("ServiceUnavailableException") = 503
  /\ statusOf("P2002") = 409 /\ statusOf("P2025") = 404
BY DEF statusOf, ERROR_MAPPING, HttpException, prismaMapping, PrismaCode

LEMMA EveryErrorHasAStatus == \A error : statusOf(error) \in Nat \ {0}
<1>1. /\ \A e \in DOMAIN ERROR_MAPPING : ERROR_MAPPING[e] \in Nat \ {0}
      /\ \A e \in DOMAIN HttpException : HttpException[e] \in Nat \ {0}
      /\ \A e \in DOMAIN prismaMapping : prismaMapping[e] \in Nat \ {0}
  BY DEF ERROR_MAPPING, HttpException, prismaMapping
<1> QED
  BY <1>1 DEF statusOf

\* ... and only jobs cost credits.
LEMMA RoutesDocument ==
  \A r \in DOMAIN routes :
    /\ Documents(r) /\ routes[r].ok \in Nat \ {0}
    /\ "credit" \in routes[r].guards => r = "createJob"
<1> DEFINE HasItsDocument(r) ==
             /\ Documents(r) /\ routes[r].ok \in Nat \ {0}
             /\ "credit" \in routes[r].guards => r = "createJob"
<1>1. \A r \in {"register", "login", "refresh", "logout"} :
        HasItsDocument(r)
  BY StatusesOfErrors DEF Documents, routes, Endpoint, Undocumented, Common, Unmapped,
     register, login, refresh, logout
<1>2. \A r \in {"forgotPassword", "resetPassword", "changePassword", "getProfile",
              "getAdminData", "verifyEmail"} :
        HasItsDocument(r)
  BY StatusesOfErrors DEF Documents, routes, Endpoint, Undocumented, Common, Unmapped,
     forgotPassword, resetPassword, changePassword, getProfile, getAdminData, verifyEmail
<1>3. \A r \in {"listSessions", "revokeSession", "createJob", "searchJobs", "getJob", "listJobs"} :
        HasItsDocument(r)
  BY StatusesOfErrors DEF Documents, routes, Endpoint, Undocumented, Common, Unmapped,
     listSessions, revokeSession, createJob, searchJobs, getJob, listJobs
<1>4. \A r \in {"cancelJob", "completeJob", "presignUpload", "getImageAssets",
              "getImageAsset", "deleteImageAsset"} :
        HasItsDocument(r)
  BY StatusesOfErrors DEF Documents, routes, Endpoint, Undocumented, Common, Unmapped,
     cancelJob, completeJob, presignUpload, getImageAssets, getImageAsset, deleteImageAsset
<1>5. \A r \in {"listProviders", "getPackages", "listPayments", "createPreference", "webhook"} :
        HasItsDocument(r)
  BY StatusesOfErrors DEF Documents, routes, Endpoint, Undocumented, Common, Unmapped,
     listProviders, getPackages, listPayments, createPreference, webhook
<1>6. \A r \in {"notImplemented", "getSubscription", "getStats", "check", "readiness"} :
        HasItsDocument(r)
  BY StatusesOfErrors DEF Documents, routes, Endpoint, Undocumented, Common, Unmapped,
     notImplemented, getSubscription, getStats, check, readiness
<1> HIDE DEF HasItsDocument
<1>7. \A r \in DOMAIN routes : HasItsDocument(r)
  BY <1>1, <1>2, <1>3, <1>4, <1>5, <1>6 DEF routes
<1> QED
  BY <1>7 DEF HasItsDocument

LEMMA NoRouteLacksCredits ==
  \A r \in DOMAIN routes : "InsufficientCreditsError" \notin routes[r].errors
BY DEF routes, Endpoint, register, login, refresh, logout, forgotPassword, resetPassword,
   changePassword, getProfile, getAdminData, verifyEmail, listSessions, revokeSession, createJob,
   searchJobs, getJob, listJobs, cancelJob, completeJob, presignUpload, getImageAssets,
   getImageAsset, deleteImageAsset, listProviders, getPackages, listPayments, createPreference,
   webhook, notImplemented, getSubscription, getStats, check, readiness

ApiError ==
  {"none", "NoCreditsException", "InsufficientCreditsError"} \union Common
    \union UNION {routes[r].errors : r \in DOMAIN routes}

ApiRequest ==
  [route : DOMAIN routes, bearer : Bearer, step : Step, status : Nat,
   error : ApiError, held : Nat, overtaken : BOOLEAN]

\* A request that is about to ask for its credit finds one, or was overtaken.
GuardedOrOvertaken(q) ==
  request[q].step = "handling" /\ request[q].route = "createJob" =>
    credits > 0 \/ request[q].overtaken

\* The steps of a credit are those of a job.
CostsAreJobs(a) == a.step \in {"crediting", "deducting", "creating"} => a.route = "createJob"

ApiInv ==
  /\ request \in [Requests -> ApiRequest]
  /\ ApiTypeOK
  /\ AnswersAsDecorated /\ GuardedRefusalIsOvertaken
  /\ \A q \in Requests : GuardedOrOvertaken(q) /\ CostsAreJobs(request[q])

LEMMA ApiInitially == ApiInit => ApiInv
<1> SUFFICES ASSUME ApiInit PROVE ApiInv
  OBVIOUS
<1>1. "check" \in DOMAIN routes /\ NoRequest \in ApiRequest
      /\ NoRequest.step = "idle" /\ NoRequest.status = 0 /\ NoRequest.error = "none"
  BY DEF NoRequest, ApiRequest, ApiError, Bearer, Step, routes
<1>2. request \in [Requests -> ApiRequest] /\ \A q \in Requests : request[q] = NoRequest
  BY <1>1 DEF ApiInit
<1>3. ApiTypeOK
  BY <1>1, <1>2, InitialCreditsIsNat DEF ApiInit, ApiTypeOK, ApiRequest
<1>4. /\ AnswersAsDecorated /\ GuardedRefusalIsOvertaken
      /\ \A q \in Requests : GuardedOrOvertaken(q) /\ CostsAreJobs(request[q])
  BY <1>1, <1>2
  DEF AnswersAsDecorated, GuardedRefusalIsOvertaken, GuardedOrOvertaken, CostsAreJobs
<1> QED
  BY <1>2, <1>3, <1>4 DEF ApiInv

\* What the properties say of the answer of one request.
Answered(a) ==
  /\ a.step = "answered" =>
       \/ a.status \in routes[a.route].documented
       \/ a.error \in Common \union Unmapped
       \/ <<a.route, a.error>> \in Undocumented
  /\ a.error = "InsufficientCreditsError" => a.overtaken

LEMMA AnsweredSuffices ==
  (\A q \in Requests : Answered(request[q])) <=> AnswersAsDecorated /\ GuardedRefusalIsOvertaken
BY DEF Answered, AnswersAsDecorated, GuardedRefusalIsOvertaken, endpoint

\* A step of q keeps the invariant if what it makes of q is right, and if it
\* leaves a credit to the others, or says so.
LEMMA OneRequestMoves ==
  ASSUME ApiInv, credits' \in Nat, credits' >= credits, NEW q \in Requests, NEW a \in ApiRequest,
         request' = [request EXCEPT ![q] = a],
         a.step = "answered" <=> a.status # 0, Answered(a), CostsAreJobs(a),
         a.step = "handling" /\ a.route = "createJob" => credits > 0 \/ a.overtaken
  PROVE  ApiInv'
<1>1. /\ request' \in [Requests -> ApiRequest] /\ request'[q] = a
      /\ \A r \in Requests \ {q} : request'[r] = request[r]
      /\ credits \in Nat
  BY DEF ApiInv, ApiTypeOK
<1>2. ApiTypeOK'
  BY <1>1 DEF ApiInv, ApiTypeOK, ApiRequest
<1>3. \A r \in Requests : Answered(request'[r])
  BY <1>1, AnsweredSuffices DEF ApiInv
<1>4. AnswersAsDecorated' /\ GuardedRefusalIsOvertaken'
  BY <1>3 DEF Answered, AnswersAsDecorated, GuardedRefusalIsOvertaken, endpoint
<1>5. \A r \in Requests : GuardedOrOvertaken(r)' /\ CostsAreJobs(request'[r])
  BY <1>1 DEF ApiInv, GuardedOrOvertaken
<1> QED
  BY <1>1, <1>2, <1>4, <1>5 DEF ApiInv

LEMMA ThrowAnswers ==
  ASSUME ApiInv, credits' \in Nat, credits' >= credits,
         NEW q \in Requests, request[q].step # "answered",
         NEW error \in ApiError, Throw(q, error),
         \/ error \in Common
         \/ error \in routes[request[q].route].errors /\ error # "InsufficientCreditsError"
         \/ error = "NoCreditsException" /\ request[q].route = "createJob"
         \/ error = "InsufficientCreditsError" /\ request[q].overtaken
  PROVE  ApiInv'
<1> DEFINE a == [request[q] EXCEPT !.step = "answered", !.status = statusOf(error), !.error = error]
<1>1. request \in [Requests -> ApiRequest] /\ request[q] \in ApiRequest
  BY DEF ApiInv
<1>2. statusOf(error) \in Nat \ {0}
  BY EveryErrorHasAStatus
<1>3. request' = [request EXCEPT ![q] = a]
  BY <1>1 DEF Throw, Reply
<1>4. /\ a \in ApiRequest /\ a.step = "answered" /\ a.status = statusOf(error) /\ a.error = error
      /\ a.route = request[q].route /\ a.overtaken = request[q].overtaken
  BY <1>1, <1>2 DEF ApiRequest, Step
<1> HIDE DEF a
<1>5. Documents(request[q].route)
  BY <1>1, RoutesDocument DEF ApiRequest
<1>6. "InsufficientCreditsError" \in Unmapped /\ "InsufficientCreditsError" \notin Common
      /\ <<"createJob", "NoCreditsException">> \in Undocumented
  BY DEF Unmapped, Common, Undocumented
<1>7. Answered(a) /\ CostsAreJobs(a)
  BY <1>4, <1>5, <1>6 DEF Answered, Documents, CostsAreJobs
<1> QED
  BY <1>2, <1>3, <1>4, <1>7, OneRequestMoves

LEMMA RequestMovesOn ==
  ASSUME ApiInv, UNCHANGED credits, NEW q \in Requests, request[q].step # "answered",
         NEW step \in Step \ {"answered"}, NEW held \in Nat,
         request' = [request EXCEPT ![q].step = step, ![q].held = held],
         step = "handling" /\ request[q].route = "createJob" => credits > 0,
         step \in {"crediting", "deducting", "creating"} => request[q].route = "createJob"
  PROVE  ApiInv'
<1> DEFINE a == [request[q] EXCEPT !.step = step, !.held = held]
<1>1. /\ request \in [Requests -> ApiRequest] /\ request[q] \in ApiRequest
      /\ request[q].status = 0 /\ Answered(request[q]) /\ credits \in Nat
  BY AnsweredSuffices DEF ApiInv, ApiTypeOK
<1>2. request' = [request EXCEPT ![q] = a]
  BY <1>1
<1>3. /\ a \in ApiRequest /\ a.step = step /\ a.status = 0 /\ a.route = request[q].route
      /\ a.error = request[q].error /\ a.overtaken = request[q].overtaken
  BY <1>1 DEF ApiRequest
<1> HIDE DEF a
<1>4. Answered(a) /\ CostsAreJobs(a)
  BY <1>1, <1>3 DEF Answered, CostsAreJobs
<1>5. credits' \in Nat /\ credits' >= credits
  BY <1>1
<1>6. a.step # "answered" /\ a.status = 0
  BY <1>3
<1>7. a.step = "handling" /\ a.route = "createJob" => credits > 0 \/ a.overtaken
  BY <1>3
<1>8. a.step = "answered" <=> a.status # 0
  BY <1>6
<1>9. a \in ApiRequest
  BY <1>3
<1> QED
  BY <1>2, <1>4, <1>5, <1>7, <1>8, <1>9, OneRequestMoves

\* A step of q that writes no copy of the balance.
LEMMA RequestSteps ==
  ASSUME ApiInv, UNCHANGED credits, NEW q \in Requests, request[q].step # "answered",
         NEW step \in Step \ {"answered"}, RequestTo(q, step),
         step = "handling" /\ request[q].route = "createJob" => credits > 0,
         step \in {"crediting", "deducting", "creating"} => request[q].route = "createJob"
  PROVE  ApiInv'
<1>1. request \in [Requests -> ApiRequest] /\ request[q] \in ApiRequest
  BY DEF ApiInv
<1>2. request[q].held \in Nat
  BY <1>1 DEF ApiRequest
<1>3. [request[q] EXCEPT !.step = step] = [request[q] EXCEPT !.step = step, !.held = request[q].held]
  BY <1>1 DEF ApiRequest
<1>4. request' = [request EXCEPT ![q].step = step, ![q].held = request[q].held]
  BY <1>1, <1>3 DEF RequestTo
<1> QED
  BY <1>2, <1>4, RequestMovesOn

\* The one step that takes a credit: the requests it takes the last one from
\* are overtaken.
LEMMA CreditIsTaken ==
  ASSUME ApiInv, NEW q \in Requests, SaveCredits(q)
  PROVE  ApiInv'
<1> DEFINE held == request[q].held
           passed(r) == request[r].step = "handling" /\ request[r].route = "createJob"
           lost(r) == request[r].overtaken \/ (held = 0 /\ passed(r))
           a == [request[q] EXCEPT !.step = "creating"]
           b(r) == [request[r] EXCEPT !.overtaken = lost(r)]
<1>1. /\ request \in [Requests -> ApiRequest] /\ request[q] \in ApiRequest
      /\ request[q].step = "deducting" /\ held \in Nat
      /\ credits' = held
      /\ request' = [r \in Requests |-> IF r = q THEN a ELSE b(r)]
      /\ \A r \in Requests : Answered(request[r]) /\ CostsAreJobs(request[r])
  BY AnsweredSuffices DEF ApiInv, ApiTypeOK, SaveCredits
<1>2. /\ a \in ApiRequest /\ a.step = "creating" /\ a.status = request[q].status
      /\ a.route = request[q].route /\ a.error = request[q].error /\ a.held = request[q].held
      /\ a.overtaken = request[q].overtaken
  BY <1>1 DEF ApiRequest, Step
<1>3. ASSUME NEW r \in Requests
      PROVE  /\ b(r) \in ApiRequest /\ b(r).step = request[r].step
             /\ b(r).status = request[r].status /\ b(r).route = request[r].route
             /\ b(r).error = request[r].error /\ b(r).bearer = request[r].bearer
             /\ b(r).held = request[r].held
             /\ lost(r) => b(r).overtaken
  <2>1. request[r] \in ApiRequest /\ lost(r) \in BOOLEAN
    BY <1>1 DEF ApiRequest
  <2> HIDE DEF lost
  <2> QED
    BY <2>1 DEF ApiRequest
<1>4. request[q].route = "createJob" /\ request[q].status = 0
  BY <1>1 DEF CostsAreJobs, ApiInv, ApiTypeOK
<1>5. \A r \in Requests : request[r].overtaken => lost(r)
  OBVIOUS
<1>6. \A r \in Requests : held = 0 /\ passed(r) => lost(r)
  OBVIOUS
<1> HIDE DEF a, b, lost, held
<1>7. /\ request' \in [Requests -> ApiRequest] /\ request'[q] = a
      /\ \A r \in Requests \ {q} : request'[r] = b(r)
  BY <1>1, <1>2, <1>3
<1>8. ApiTypeOK'
  BY <1>1, <1>2, <1>3, <1>4, <1>7 DEF ApiInv, ApiTypeOK, ApiRequest
<1>9. ASSUME NEW r \in Requests PROVE Answered(request'[r]) /\ CostsAreJobs(request'[r])
  <2>1. CASE r = q
    BY <1>1, <1>2, <1>4, <1>7, <2>1 DEF Answered, CostsAreJobs
  <2>2. CASE r # q
    BY <1>1, <1>3, <1>5, <1>7, <2>2 DEF Answered, CostsAreJobs
  <2> QED
    BY <2>1, <2>2
<1>10. AnswersAsDecorated' /\ GuardedRefusalIsOvertaken'
  BY <1>9 DEF Answered, AnswersAsDecorated, GuardedRefusalIsOvertaken, endpoint
<1>11. ASSUME NEW r \in Requests PROVE GuardedOrOvertaken(r)'
  <2>1. CASE r = q
    BY <1>2, <1>7, <2>1 DEF GuardedOrOvertaken
  <2>2. CASE r # q
    BY <1>1, <1>3, <1>6, <1>7, <2>2 DEF GuardedOrOvertaken
  <2> QED
    BY <2>1, <2>2
<1> QED
  BY <1>7, <1>8, <1>9, <1>10, <1>11 DEF ApiInv

LEMMA RepliesKeepInv ==
  ASSUME ApiInv, credits' \in Nat, credits' >= credits, NEW q \in Requests,
         NEW status \in Nat \ {0}, NEW error \in ApiError, Reply(q, status, error),
         error # "InsufficientCreditsError",
         \/ error \in Common
         \/ status \in routes[request[q].route].documented
         \/ <<request[q].route, error>> \in Undocumented
  PROVE  ApiInv'
<1> DEFINE a == [request[q] EXCEPT !.step = "answered", !.status = status, !.error = error]
<1>1. request \in [Requests -> ApiRequest] /\ request[q] \in ApiRequest
  BY DEF ApiInv
<1>2. /\ a \in ApiRequest /\ a.step = "answered" /\ a.status = status /\ a.error = error
      /\ a.route = request[q].route
  BY <1>1 DEF ApiRequest, Step
<1>3. request' = [request EXCEPT ![q] = a]
  BY <1>1 DEF Reply
<1> HIDE DEF a
<1>4. Answered(a) /\ CostsAreJobs(a)
  BY <1>2 DEF Answered, CostsAreJobs
<1> QED
  BY <1>2, <1>3, <1>4, OneRequestMoves

LEMMA ApiStep == ApiInv /\ [ApiNext]_apiVars => ApiInv'
<1> SUFFICES ASSUME ApiInv, [ApiNext]_apiVars PROVE ApiInv'
  OBVIOUS
<1>1. request \in [Requests -> ApiRequest] /\ credits \in Nat
  BY DEF ApiInv, ApiTypeOK
<1>2. CASE UNCHANGED apiVars
  BY <1>2 DEF apiVars, ApiInv, ApiTypeOK, AnswersAsDecorated, GuardedRefusalIsOvertaken,
     GuardedOrOvertaken, CostsAreJobs, endpoint
<1>3. ASSUME NEW q \in Requests, NEW route \in DOMAIN routes, NEW bearer \in Bearer,
             Receive(q, route, bearer)
      PROVE  ApiInv'
  <2> DEFINE received == [NoRequest EXCEPT !.route = route, !.bearer = bearer]
             a == [received EXCEPT !.step = "guarding"]
             b == [received EXCEPT !.step = "answered",
                     !.status = statusOf("ThrottlerException"), !.error = "ThrottlerException"]
  <2>1. a \in ApiRequest /\ a.step = "guarding" /\ a.status = 0 /\ a.error = "none"
    BY DEF NoRequest, ApiRequest, ApiError, Step
  <2>2. statusOf("ThrottlerException") \in Nat \ {0}
    BY EveryErrorHasAStatus
  <2>3. /\ b \in ApiRequest /\ b.step = "answered" /\ b.status = statusOf("ThrottlerException")
        /\ b.error = "ThrottlerException"
    BY <2>2 DEF NoRequest, ApiRequest, ApiError, Step, Common
  <2>4. /\ UNCHANGED credits
        /\ (request' = [request EXCEPT ![q] = a] \/ request' = [request EXCEPT ![q] = b])
    BY <1>3 DEF Receive
  <2> HIDE DEF a, b
  <2>5. Answered(a) /\ Answered(b) /\ CostsAreJobs(a) /\ CostsAreJobs(b)
    BY <2>1, <2>3 DEF Answered, CostsAreJobs, Common
  <2> QED
    BY <1>1, <2>1, <2>2, <2>3, <2>4, <2>5, OneRequestMoves
<1>4. ASSUME NEW q \in Requests, Guard(q) PROVE ApiInv'
  <2>1. request[q].step = "guarding" /\ UNCHANGED credits /\ request[q] \in ApiRequest
    BY <1>1, <1>4 DEF Guard
  <2>2. CASE \E error \in {"UnauthorizedException", "ForbiddenException"} : Throw(q, error)
    BY <1>1, <2>1, <2>2, ThrowAnswers DEF Common, ApiError
  <2>3. CASE RequestTo(q, IF "credit" \in endpoint(q).guards THEN "crediting" ELSE "handling")
    <3>1. "credit" \in routes["createJob"].guards
      BY DEF routes, createJob, Endpoint
    <3>2. "credit" \in endpoint(q).guards => request[q].route = "createJob"
      BY <2>1, RoutesDocument DEF endpoint, ApiRequest
    <3> QED
      BY <2>1, <2>3, <3>1, <3>2, RequestSteps DEF endpoint, Step
  <2> QED
    BY <1>4, <2>2, <2>3 DEF Guard
<1>5. ASSUME NEW q \in Requests, CheckCredits(q) \/ CheckCreditsFails(q) PROVE ApiInv'
  <2>1. request[q].step = "crediting" /\ UNCHANGED credits
        /\ \/ credits > 0 /\ RequestTo(q, "handling")
           \/ Throw(q, "NoCreditsException")
           \/ Throw(q, "ForbiddenException")
    BY <1>5 DEF CheckCredits, CheckCreditsFails
  <2>2. request[q].route = "createJob"
    BY <2>1 DEF ApiInv, CostsAreJobs
  <2>3. CASE credits > 0 /\ RequestTo(q, "handling")
    BY <2>1, <2>3, RequestSteps DEF Step
  <2>4. CASE Throw(q, "NoCreditsException") \/ Throw(q, "ForbiddenException")
    BY <1>1, <2>1, <2>2, <2>4, ThrowAnswers DEF Common, ApiError
  <2> QED
    BY <2>1, <2>3, <2>4
<1>6. ASSUME NEW q \in Requests,
             ValidationFails(q) \/ \E error \in endpoint(q).errors : HandlerThrows(q, error)
      PROVE  ApiInv'
  <2>1. /\ request[q].step = "handling" /\ UNCHANGED credits
        /\ \E error \in {"BadRequestException"} \union routes[request[q].route].errors :
             Throw(q, error)
    BY <1>6 DEF ValidationFails, HandlerThrows, endpoint
  <2>2. /\ routes[request[q].route].errors \subseteq ApiError
        /\ "InsufficientCreditsError" \notin routes[request[q].route].errors
    BY <1>1, NoRouteLacksCredits DEF ApiRequest, ApiError
  <2> QED
    BY <1>1, <2>1, <2>2, ThrowAnswers DEF Common, ApiError
<1>7. ASSUME NEW q \in Requests, HandlerFails(q) \/ CreateJobFails(q) PROVE ApiInv'
  <2>1. /\ request[q].step # "answered" /\ request[q] \in ApiRequest
        /\ credits' \in Nat /\ credits' >= credits
    BY <1>1, <1>7 DEF HandlerFails, CreateJobFails
  <2>2. PICK error \in {"Error", "P2024"} : Reply(q, 200, error) \/ Throw(q, error)
    BY <1>7 DEF HandlerFails, CreateJobFails
  <2>3. error \in Common /\ error \in ApiError /\ 200 \in Nat \ {0}
    BY DEF Common, ApiError
  <2> QED
    BY <2>1, <2>2, <2>3, ThrowAnswers, RepliesKeepInv
<1>8. ASSUME NEW q \in Requests, HandlerReturns(q) PROVE ApiInv'
  <2>1. /\ request[q].step # "answered" /\ request[q] \in ApiRequest /\ UNCHANGED credits
        /\ Reply(q, routes[request[q].route].ok, "none")
    BY <1>1, <1>8 DEF HandlerReturns, endpoint
  <2>2. Documents(request[q].route) /\ routes[request[q].route].ok \in Nat \ {0}
    BY <2>1, RoutesDocument DEF ApiRequest
  <2>3. "none" \in ApiError
    BY DEF ApiError
  <2> QED
    BY <1>1, <2>1, <2>2, <2>3, RepliesKeepInv DEF Documents
<1>9. ASSUME NEW q \in Requests, DeductCredit(q) PROVE ApiInv'
  <2>1. /\ request[q].step = "handling" /\ request[q].route = "createJob" /\ UNCHANGED credits
    BY <1>9 DEF DeductCredit
  <2>2. CASE credits > 0
    <3>1. request' = [request EXCEPT ![q].step = "deducting", ![q].held = credits - 1]
      BY <1>9, <2>2 DEF DeductCredit
    <3>2. credits - 1 \in Nat
      BY <1>1, <2>2
    <3> QED
      BY <2>1, <2>2, <3>1, <3>2, RequestMovesOn DEF Step
  <2>3. CASE ~(credits > 0)
    <3>1. Throw(q, "InsufficientCreditsError") /\ request[q].overtaken
      BY <1>9, <2>1, <2>3 DEF DeductCredit, ApiInv, GuardedOrOvertaken
    <3> QED
      BY <1>1, <2>1, <3>1, ThrowAnswers DEF ApiError
  <2> QED
    BY <2>2, <2>3
<1> QED
  BY <1>2, <1>3, <1>4, <1>5, <1>6, <1>7, <1>8, <1>9, CreditIsTaken DEF ApiNext

\* Every answer has a status that the decorators of its route document, but for
\* the differences HttpApi names.
THEOREM AnswersDecorated == ApiSpec => []AnswersAsDecorated
<1>1. ApiInv => AnswersAsDecorated
  BY DEF ApiInv
<1>2. [ApiNext]_<<apiVars, faults>> => [ApiNext]_apiVars
  BY DEF apiVars
<1> QED
  BY <1>1, <1>2, ApiInitially, ApiStep, PTL DEF ApiSpec

\* A job is refused behind the guard for want of credits only when another
\* request took the last one in between.
THEOREM RefusalsAreOvertaken == ApiSpec => []GuardedRefusalIsOvertaken
<1>1. ApiInv => GuardedRefusalIsOvertaken
  BY DEF ApiInv
<1>2. [ApiNext]_<<apiVars, faults>> => [ApiNext]_apiVars
  BY DEF apiVars
<1> QED
  BY <1>1, <1>2, ApiInitially, ApiStep, PTL DEF ApiSpec

-----------------------------------------------------------------------------
(***************************************************************************)
(* The parts on the platform.                                              *)
(***************************************************************************)

LEMMA PlatformRunsParts ==
  [PlatformNext]_<<platformVars, faults>> =>
    /\ [RegistrationNext]_registrationVars
    /\ [SessionsNext]_sessionsVars
    /\ [UploadsNext]_uploadsVars
    /\ [ProcessingNext]_processingVars
    /\ [ApiNext]_apiVars
BY DEF PlatformNext, platformVars

\* Whatever part moves, a step counts a fault or none.
LEMMA PlatformCountsFaults ==
  part \in Parts /\ [PlatformNext]_<<platformVars, faults>> => NoFault \/ Fault
<1>1. RegistrationNext => NoFault \/ Fault
  BY DEF RegistrationNext, CheckEmail, CreateUser, StoreVerificationToken,
         SendVerificationEmail, SendFails, CreateSubscription, SubscriptionFails, DeleteUser,
         RegistrationStops, FindVerificationToken, VerifyEmail, ClearVerificationToken,
         VerificationFails
<1>2. SessionsNext => NoFault \/ Fault
  BY SessionsCountFaults
<1>3. UploadsNext => NoFault \/ Fault
  BY DEF UploadsNext, ValidateFile, CreateAsset, SignUrl, UploadFails, PutObject, UrlExpires,
         FindAsset, DeleteObject, DeleteObjectFails, DeleteRow, DeleteRowFails
<1>4. ProcessingNext => NoFault \/ Fault
  BY ProcessingCountsFaults
<1>5. ApiNext => NoFault \/ Fault
  BY DEF ApiNext, Receive, Guard, CheckCredits, CheckCreditsFails, ValidationFails,
         HandlerThrows, HandlerFails, HandlerReturns, DeductCredit, SaveCredits,
         CreateJobFails
<1>6. part \in Parts /\ PlatformNext => NoFault \/ Fault
  BY <1>1, <1>2, <1>3, <1>4, <1>5 DEF Parts, PlatformNext
<1> QED
  BY <1>6 DEF NoFault

LEMMA PlatformFaultsGrow ==
  part \in Parts /\ faults \in Nat /\ [PlatformNext]_<<platformVars, faults>> => FaultsGrow
BY PlatformCountsFaults DEF NoFault, Fault, FaultsGrow

\* Of the platform as of Registration: an answered user is complete, and an
\* error leaves nothing behind.
THEOREM PlatformRegisters == PlatformSpec => []RegistrationIsAllOrNothing
<1>1. PlatformInit => RegistrationInv
  BY RegistrationInitially DEF PlatformInit
<1> QED
  BY <1>1, PlatformRunsParts, RegistrationStep, RegistrationSafe, PTL DEF PlatformSpec

\* Of the platform as of Uploads: no object is left without its row.
THEOREM PlatformKeepsRows == PlatformSpec => []ObjectsHaveRows
<1>1. PlatformInit => UploadsInv
  BY UploadsInitially DEF PlatformInit
<1>2. UploadsInv => ObjectsHaveRows
  BY DEF UploadsInv
<1> QED
  BY <1>1, <1>2, PlatformRunsParts, UploadsStep, PTL DEF PlatformSpec

\* Of the platform as of HttpApi: what is answered the decorators document.
THEOREM PlatformAnswers == PlatformSpec => []AnswersAsDecorated
<1>1. PlatformInit => ApiInv
  BY ApiInitially DEF PlatformInit
<1>2. ApiInv => AnswersAsDecorated
  BY DEF ApiInv
<1> QED
  BY <1>1, <1>2, PlatformRunsParts, ApiStep, PTL DEF PlatformSpec

\* Of the platform as of HttpApi: behind the guard only the overtaken are
\* refused for want of credits.
THEOREM PlatformRefusesOvertaken == PlatformSpec => []GuardedRefusalIsOvertaken
<1>1. PlatformInit => ApiInv
  BY ApiInitially DEF PlatformInit
<1>2. ApiInv => GuardedRefusalIsOvertaken
  BY DEF ApiInv
<1> QED
  BY <1>1, <1>2, PlatformRunsParts, ApiStep, PTL DEF PlatformSpec

\* The two parts whose invariants speak of the faults there were.
LEMMA PlatformCounts == PlatformSpec => [](part \in Parts /\ SessionsInv /\ ProcessingInv)
<1>1. PlatformInit => part \in Parts /\ SessionsInv /\ ProcessingInv
  BY SessionsInitially, ProcessingInitially DEF PlatformInit
<1>2. part \in Parts /\ [PlatformNext]_<<platformVars, faults>> => (part \in Parts)'
  BY DEF PlatformNext, platformVars
<1>3. SessionsInv => faults \in Nat
  BY DEF SessionsInv
<1> QED
  BY <1>1, <1>2, <1>3, PlatformRunsParts, PlatformFaultsGrow, SessionsStep, ProcessingStep, PTL
  DEF PlatformSpec

LEMMA PlatformSessions == PlatformSpec => []SessionsInv
BY PlatformCounts, PTL

\* Of the platform as of ImageProcessing: an image is answered in time.
THEOREM PlatformAnswersInTime == PlatformSpec => []AnswerIsInTime
BY PlatformCounts, ProcessingSafe, PTL

\* Of the platform as of Sessions: what was retired stays dead, ...
THEOREM PlatformTokensStayDead == PlatformSpec => []RetiredTokensStayDead
BY PlatformSessions, SessionsSafe, PTL

\* ... a changed password leaves no session of an older one, ...
THEOREM PlatformPasswordsAreOut == PlatformSpec => []OldPasswordsAreOut
BY PlatformSessions, SessionsSafe, PTL

\* ... and a reset that arrives after another has used its link is refused.
THEOREM PlatformRefusesLaterResets == PlatformSpec => []LaterResetIsRefused
BY PlatformSessions, SessionsSafe, PTL

\* Every variable of every part keeps its type.
THEOREM PlatformTypeCorrect == PlatformSpec => []PlatformTypeOK
<1> DEFINE Rest == RegistrationInv /\ UploadsInv /\ ApiInv /\ FaultsTypeOK
<1>1. PlatformInit => Rest
  BY RegistrationInitially, UploadsInitially, ApiInitially, MaxFaultsIsNat
  DEF PlatformInit, FaultsInit, FaultsTypeOK
<1>2. part \in Parts /\ Rest /\ [PlatformNext]_<<platformVars, faults>> => Rest'
  <2> SUFFICES ASSUME part \in Parts, Rest, [PlatformNext]_<<platformVars, faults>>
               PROVE  Rest'
    OBVIOUS
  <2>1. RegistrationInv' /\ UploadsInv' /\ ApiInv'
    BY PlatformRunsParts, RegistrationStep, UploadsStep, ApiStep
  <2>2. FaultsTypeOK'
    BY PlatformCountsFaults, MaxFaultsIsNat DEF FaultsTypeOK, Fault, NoFault
  <2> QED
    BY <2>1, <2>2
<1>3. part \in Parts /\ SessionsInv /\ ProcessingInv /\ Rest => PlatformTypeOK
  BY DEF PlatformTypeOK, RegistrationInv, SessionsInv, UploadsInv, ProcessingInv, ApiInv
<1> HIDE DEF Rest
<1> QED
  BY <1>1, <1>2, <1>3, PlatformCounts, PTL DEF PlatformSpec
=============================================================================
