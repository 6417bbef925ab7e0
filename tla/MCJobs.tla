------------------------------- MODULE MCJobs -------------------------------
(* One job and two workers, one of the API's and one of a worker process:   *)
(* what can happen to a job does not depend on another, which only keeps a  *)
(* worker busy.                                                             *)
EXTENDS Jobs
=============================================================================
