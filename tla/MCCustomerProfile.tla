------------------------- MODULE MCCustomerProfile --------------------------
(* CustomerProfile with two customers, two emails, two addresses, two orders  *)
(* and two HTTP threads.                                                      *)
EXTENDS CustomerProfile, TLC

CONSTANTS alice, bob, e1, e2, a1, a2, o1, o2, c1, c2

TwoCustomers == {alice, bob}
TwoEmails == {e1, e2}
TwoAddresses == {a1, a2}
TwoOrders == {o1, o2}
OneStray == {o2}
TwoClients == {c1, c2}
=============================================================================
