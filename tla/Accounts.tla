------------------------------ MODULE Accounts ------------------------------
(***************************************************************************)
(* The registered users, the one set every part of the system shares.      *)
(***************************************************************************)
CONSTANT Users
=============================================================================
