-------------------------- MODULE MCOutboxProcessor --------------------------
(***************************************************************************)
(* Users u1 and u2; payments p1 and p2 of u1 with one and two credits, p3  *)
(* of u2 for a package that grants none.                                   *)
(***************************************************************************)
EXTENDS OutboxProcessor, TLC

CONSTANTS p1, p2, p3, u1, u2

MCPayerOf == [p \in PaymentIds |-> IF p = p3 THEN u2 ELSE u1]

MCCreditsOf == [p \in PaymentIds |-> CASE p = p1 -> 1 [] p = p2 -> 2 [] OTHER -> 0]

PollerSymmetry == Permutations(Pollers)
=============================================================================
