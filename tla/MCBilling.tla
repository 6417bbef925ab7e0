----------------------------- MODULE MCBilling -----------------------------
(***************************************************************************)
(* Two users and three requests: two that race, and one of the other user  *)
(* or a third that overtakes or is overtaken.                              *)
(***************************************************************************)
EXTENDS Billing
=============================================================================
