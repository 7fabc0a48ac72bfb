---------------------------- MODULE MCOrderSaga ----------------------------
(* OrderSaga on small instances: one order, one HTTP thread that may
   cancel (the consumer thread is the second compensating thread), and couriers
   sent out for the one order or for none. *)
EXTENDS OrderSaga

CONSTANTS o1, c1

OneOrder == {o1}
OneClient == {c1}
Nobody == {}
=============================================================================
