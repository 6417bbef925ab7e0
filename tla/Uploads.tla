------------------------------ MODULE Uploads -------------------------------
(***************************************************************************)
(* The images of the users: a row in ImageAsset and an object in the       *)
(* bucket, which nothing keeps together.                                   *)
(*                                                                         *)
(* PresignUploadUseCase inserts the row and signs a URL; the client puts   *)
(* the object with it, whenever it likes until the URL expires.            *)
(* DeleteImageAssetUseCase deletes the object, then the row.               *)
(***************************************************************************)
EXTENDS Faults

CONSTANTS
  Uploads,        \* requests to presign, and the image ids they draw
  Removals,       \* requests to delete an image
  Owners,         \* users
  OwnerOf,        \* [Uploads -> Owners]
  StorageKeyOf    \* [Uploads -> keys]: kind, user, millisecond and file name

ASSUME OwnerOfAssumption == OwnerOf \in [Uploads -> Owners]

VARIABLES
  asset,      \* the table ImageAsset: ids of the rows
  bucket,     \* storage keys of the objects there are
  upload,     \* request to presign -> where PresignUploadUseCase is
  signed,     \* uploads whose URL is signed and not expired
  removal,    \* request to delete -> where DeleteImageAssetUseCase is
  target,     \* request to delete -> the image
  late        \* history: keys that were put when their deletion was under way

uploadsVars == <<asset, bucket, upload, signed, removal, target, late>>

-----------------------------------------------------------------------------
(***************************************************************************)
(* The repository and the bucket.                                          *)
(***************************************************************************)

Key(i) == StorageKeyOf[i]

\* The row of an image, as far as somebody reads it.
ImageAsset(i) == [userId |-> OwnerOf[i], storageKey |-> Key(i)]

StorageKeys == {Key(i) : i \in Uploads}

findByStorageKey(key) == {i \in asset : ImageAsset(i).storageKey = key}

\* The storage key is unique.
createAsset(i) == asset' = asset \union {i}

deleteAsset(i) == asset' = asset \ {i}

\* What the gallery of a user lists; any user may open any of the images.
gallery(user) == {i \in asset : ImageAsset(i).userId = user}

\* Deleting what is not there is no error in S3.
deleteObject(key) == bucket' = bucket \ {key}

UploadControl == {"idle", "creating", "signing", "done", "refused", "failed"}

RemovalControl ==
  {"idle", "deletingObject", "deletingRow", "done", "refused", "failed"}

UploadsTypeOK ==
  /\ asset \subseteq Uploads
  /\ bucket \subseteq StorageKeys
  /\ upload \in [Uploads -> UploadControl]
  /\ signed \subseteq Uploads
  /\ removal \in [Removals -> RemovalControl]
  /\ target \in [Removals -> Uploads \union {"none"}]
  /\ late \subseteq StorageKeys
  /\ \A i, j \in asset : ImageAsset(i).storageKey = ImageAsset(j).storageKey => i = j

UploadsInit ==
  /\ asset = {}
  /\ bucket = {}
  /\ upload = [i \in Uploads |-> "idle"]
  /\ signed = {}
  /\ removal = [d \in Removals |-> "idle"]
  /\ target = [d \in Removals |-> "none"]
  /\ late = {}

-----------------------------------------------------------------------------
(***************************************************************************)
(* PresignUploadUseCase, and the client it answers.                        *)
(***************************************************************************)

UploadTo(i, label) == upload' = [upload EXCEPT ![i] = label]

\* A type that is not allowed is refused.
ValidateFile(i) ==
  /\ upload[i] = "idle"
  /\ UploadTo(i, "creating") \/ UploadTo(i, "refused")
  /\ NoFault
  /\ UNCHANGED <<asset, bucket, signed, removal, target, late>>

\* Fault seeded in CreateAsset: the key is not unique.
CreateAsset_twice(i) ==
  /\ upload[i] = "creating"
  /\ createAsset(i)
  /\ UploadTo(i, "signing")
  /\ NoFault
  /\ UNCHANGED <<bucket, signed, removal, target, late>>

\* Two uploads of a name in one millisecond have one key: the second fails.
CreateAsset(i) ==
  /\ upload[i] = "creating"
  /\ IF findByStorageKey(Key(i)) = {}
       THEN createAsset(i) /\ UploadTo(i, "signing")
       ELSE UploadTo(i, "refused") /\ UNCHANGED asset
  /\ NoFault
  /\ UNCHANGED <<bucket, signed, removal, target, late>>

SignUrl(i) ==
  /\ upload[i] = "signing"
  /\ UploadTo(i, "done")
  /\ signed' = signed \union {i}
  /\ NoFault
  /\ UNCHANGED <<asset, bucket, removal, target, late>>

\* The row of an upload that could not be signed stays.
UploadFails(i) ==
  /\ upload[i] \in {"creating", "signing"}
  /\ Fault
  /\ UploadTo(i, "failed")
  /\ UNCHANGED <<asset, bucket, signed, removal, target, late>>

\* As often as the client likes, the image deleted meanwhile or not.
PutObject(i) ==
  LET deleted == \/ i \notin asset
                 \/ \E d \in Removals : removal[d] = "deletingRow" /\ Key(target[d]) = Key(i)
  IN
  /\ i \in signed
  /\ bucket' = bucket \union {Key(i)}
  /\ late' = IF deleted THEN late \union {Key(i)} ELSE late
  /\ NoFault
  /\ UNCHANGED <<asset, upload, signed, removal, target>>

UrlExpires(i) ==
  /\ i \in signed
  /\ signed' = signed \ {i}
  /\ NoFault
  /\ UNCHANGED <<asset, bucket, upload, removal, target, late>>

-----------------------------------------------------------------------------
(***************************************************************************)
(* DeleteImageAssetUseCase.                                                *)
(***************************************************************************)

RemovalTo(d, label) == removal' = [removal EXCEPT ![d] = label]

\* Not found, or another user's: refused.
FindAsset(d, i, user) ==
  /\ removal[d] = "idle"
  /\ target' = [target EXCEPT ![d] = i]
  /\ RemovalTo(d, IF i \in gallery(user) THEN "deletingObject" ELSE "refused")
  /\ NoFault
  /\ UNCHANGED <<asset, bucket, upload, signed, late>>

DeleteObject(d) ==
  /\ removal[d] = "deletingObject"
  /\ deleteObject(Key(target[d]))
  /\ RemovalTo(d, "deletingRow")
  /\ NoFault
  /\ UNCHANGED <<asset, upload, signed, target, late>>

\* Fault seeded in DeleteObjectFails: handleError returns.
DeleteObjectFails_caught(d) ==
  /\ removal[d] = "deletingObject"
  /\ Fault
  /\ RemovalTo(d, "deletingRow")
  /\ UNCHANGED <<asset, bucket, upload, signed, target, late>>

\* S3OperationError; the object may be gone all the same.
DeleteObjectFails(d) ==
  /\ removal[d] = "deletingObject"
  /\ Fault
  /\ deleteObject(Key(target[d])) \/ UNCHANGED bucket
  /\ RemovalTo(d, "failed")
  /\ UNCHANGED <<asset, upload, signed, target, late>>

\* A second request that comes to a row already deleted is refused.
DeleteRow(d) ==
  /\ removal[d] = "deletingRow"
  /\ deleteAsset(target[d])
  /\ RemovalTo(d, IF target[d] \in asset THEN "done" ELSE "refused")
  /\ NoFault
  /\ UNCHANGED <<bucket, upload, signed, target, late>>

DeleteRowFails(d) ==
  /\ removal[d] = "deletingRow"
  /\ Fault
  /\ RemovalTo(d, "failed")
  /\ UNCHANGED <<asset, bucket, upload, signed, target, late>>

-----------------------------------------------------------------------------

UploadsNext ==
  \/ \E i \in Uploads :
       \/ ValidateFile(i) \/ CreateAsset(i) \/ SignUrl(i) \/ UploadFails(i)
       \/ PutObject(i) \/ UrlExpires(i)
  \/ \E d \in Removals :
       \/ \E i \in Uploads, user \in Owners : FindAsset(d, i, user)
       \/ DeleteObject(d) \/ DeleteObjectFails(d)
       \/ DeleteRow(d) \/ DeleteRowFails(d)

UploadsSpec ==
  /\ UploadsInit /\ FaultsInit
  /\ [][UploadsNext]_<<uploadsVars, faults>>

-----------------------------------------------------------------------------
(***************************************************************************)
(* Properties.                                                             *)
(***************************************************************************)

\* Every object in the bucket has its row, so that somebody can still find and
\* delete it: "Elimina un ImageAsset de BD y S3" (delete-image-asset.use-case).
\* Whatever fails on the way, and with several requests to delete the image.
\* All but the objects that a client put after their deletion had begun: the
\* URL it holds outlives the row.
ObjectsHaveRows ==
  \A key \in bucket : findByStorageKey(key) # {} \/ key \in late
=============================================================================
