-------------------------- MODULE MCPaymentCredits --------------------------
(***************************************************************************)
(* A user buys once, and may try to pay twice.                             *)
(***************************************************************************)
EXTENDS PaymentCredits

CONSTANTS p1, u1

MCPayerOf == [p \in PaymentIds |-> u1]

MCCreditsOf == [p \in PaymentIds |-> 1]

MCKeyOf == [p \in PaymentIds |-> p]

\* Both charges are attempts on p1.
Retried == [c \in Charges |-> p1]
=============================================================================
