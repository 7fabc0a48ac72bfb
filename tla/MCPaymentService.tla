-------------------------- MODULE MCPaymentService --------------------------
(* PaymentService with one order and two HTTP threads. *)
EXTENDS PaymentService, TLC

CONSTANTS o1, c1, c2

OneOrder == {o1}
TwoClients == {c1, c2}
=============================================================================
