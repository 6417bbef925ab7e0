----------------------------- MODULE MCPlatform -----------------------------
(***************************************************************************)
(* Both uploads are of one user, and in the same millisecond under one     *)
(* name: i1 and i2 have one storage key.                                   *)
(***************************************************************************)
EXTENDS Platform

CONSTANTS o1

MCOwnerOf == [i \in Uploads |-> o1]

MCStorageKeyOf == [i \in Uploads |-> "key"]
=============================================================================
