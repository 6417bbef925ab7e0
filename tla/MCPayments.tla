----------------------------- MODULE MCPayments -----------------------------
(***************************************************************************)
(* Payments p1 and p2, and which preference each charge pays.              *)
(***************************************************************************)
EXTENDS Payments

CONSTANTS p1, p2, u1, c1, c2, c3

MCPayerOf == [p \in PaymentIds |-> u1]

MCCreditsOf == [p \in PaymentIds |-> 1]

\* c1 and c2 are two attempts on the preference of p1.
MCPreferenceOf == [c \in Charges |-> IF c = c3 THEN p2 ELSE p1]

\* p2 is the request of p1 sent again.
MCKeyOf == [p \in PaymentIds |-> "key"]
=============================================================================
