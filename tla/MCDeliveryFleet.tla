-------------------------- MODULE MCDeliveryFleet --------------------------
(* DeliveryFleet with one order, one deliverer, two deliveries, two clients. *)
EXTENDS DeliveryFleet, TLC

CONSTANTS o1, d1, x1, x2, c1, c2

OneOrder == {o1}
OneDeliverer == {d1}
TwoIds == {x1, x2}
TwoClients == {c1, c2}
=============================================================================
