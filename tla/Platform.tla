------------------------------ MODULE Platform ------------------------------
(***************************************************************************)
(* The parts of the process around billing, payments and jobs.             *)
(*                                                                         *)
(* They write no table of each other: what they have in common is the      *)
(* process, and whatever fails in it.  A behaviour is therefore one of     *)
(* one part, chosen at the start, with the others at rest; the behaviours  *)
(* of several parts are those of each, interleaved.                        *)
(***************************************************************************)
EXTENDS Registration, Sessions, Uploads, ImageProcessing, HttpApi

VARIABLE part

Parts == {"registration", "sessions", "uploads", "processing", "api"}

platformVars ==
  <<part, registrationVars, sessionsVars, uploadsVars, processingVars, apiVars>>

PlatformInit ==
  /\ part \in Parts
  /\ RegistrationInit /\ SessionsInit /\ UploadsInit
  /\ ProcessingInit /\ ApiInit
  /\ part # "processing" => \A i \in Images : image[i].url = "s3"
  /\ FaultsInit

\* One part moves; its variables and the faults are all that changes.
PlatformNext ==
  /\ UNCHANGED part
  /\ \/ part = "registration" /\ RegistrationNext
     \/ part # "registration" /\ UNCHANGED registrationVars
  /\ \/ part = "sessions" /\ SessionsNext
     \/ part # "sessions" /\ UNCHANGED sessionsVars
  /\ \/ part = "uploads" /\ UploadsNext
     \/ part # "uploads" /\ UNCHANGED uploadsVars
  /\ \/ part = "processing" /\ ProcessingNext
     \/ part # "processing" /\ UNCHANGED processingVars
  /\ \/ part = "api" /\ ApiNext
     \/ part # "api" /\ UNCHANGED apiVars

\* The process runs its own steps and its timers; nobody else owes anything.
PlatformFairness ==
  \A i \in Images : WF_<<platformVars, faults>>(part = "processing" /\ PlatformNext /\ Pipeline(i))

PlatformSpec ==
  PlatformInit /\ [][PlatformNext]_<<platformVars, faults>> /\ PlatformFairness

-----------------------------------------------------------------------------

PlatformTypeOK ==
  /\ part \in Parts
  /\ FaultsTypeOK
  /\ RegistrationTypeOK /\ SessionsTypeOK /\ UploadsTypeOK
  /\ ProcessingTypeOK /\ ApiTypeOK

\* EveryImageIsAnswered, of the behaviours in which images are processed.
ImagesAreAnswered == part = "processing" => EveryImageIsAnswered
=============================================================================
