------------------------------- MODULE Faults -------------------------------
(***************************************************************************)
(* The budget of faults of a run.  A fault is a call to the database, the  *)
(* queue or the provider that rejects, or a process that stops: the code   *)
(* meets it as an exception, or not at all.  MaxFaults bounds how many     *)
(* happen, so that "finally the database answers" can be said.             *)
(***************************************************************************)
EXTENDS Naturals

CONSTANT MaxFaults

ASSUME MaxFaultsIsNat == MaxFaults \in Nat

VARIABLE faults

FaultsInit == faults = 0

FaultsTypeOK == faults \in 0..MaxFaults

Fault == faults < MaxFaults /\ faults' = faults + 1

NoFault == UNCHANGED faults
=============================================================================
