--------------------------- MODULE OrderLifecycle ---------------------------
(***************************************************************************)
(* What an order goes through, as its customer may rely on it, with        *)
(* nothing said of threads, messages, refunds or failures.  The service    *)
(* decides one step at a time, always to a later stage than the order has  *)
(* reached, and takes it afterwards: an order is paid once, by one payment *)
(* and before anything else happens to it.  A cancellation may end an      *)
(* order at any time, also between a decision and its step, which then     *)
(* revives the order; a delivery may be decided for any order.             *)
(***************************************************************************)
EXTENDS Naturals

CONSTANTS Orders

VARIABLES status, \* the order's status
          paidBy, \* the payment it was paid by, 0 for none
          due     \* what is decided and not done: at most one pair of an order
                  \* and its next status, or "PAYMENT" for a payment to note

Stage == [CREATED |-> 0, PAID |-> 1, CONFIRMED |-> 2, PREPARING |-> 3,
          READY |-> 4, ASSIGNED |-> 5, DELIVERING |-> 6]

Absent == {"NONE", "GONE"}

Place(o) ==
    /\ status[o] = "NONE"
    /\ status' = [status EXCEPT ![o] = "CREATED"]
    /\ UNCHANGED <<paidBy, due>>

\* The first stage after CREATED is PAID, and PAID comes after CREATED only.
DecideStage(o, s) ==
    /\ due = {}
    /\ status[o] \in DOMAIN Stage
    /\ Stage[s] > Stage[status[o]]
    /\ s = "PAID" <=> status[o] = "CREATED"
    /\ due' = {<<o, s>>}
    /\ UNCHANGED <<status, paidBy>>

DecideDelivered(o) ==
    /\ due = {}
    /\ status[o] \notin Absent \cup {"DELIVERED"}
    /\ due' = {<<o, "DELIVERED">>}
    /\ UNCHANGED <<status, paidBy>>

Take(o, s) ==
    /\ due = {<<o, s>>}
    /\ status' = [status EXCEPT ![o] = s]
    /\ due' = IF s = "PAID" THEN {<<o, "PAYMENT">>} ELSE {}
    /\ UNCHANGED paidBy

NotePayment(o) ==
    /\ due = {<<o, "PAYMENT">>}
    /\ paidBy[o] = 0
    /\ paidBy'[o] \in Nat \ {0}
    /\ paidBy' = [paidBy EXCEPT ![o] = paidBy'[o]]
    /\ due' = {}
    /\ UNCHANGED status

Cancel(o) ==
    /\ status[o] \notin Absent
    /\ status' = [status EXCEPT ![o] = "CANCELLED"]
    /\ UNCHANGED <<paidBy, due>>

\* Every order the service holds is forgotten, with what was decided for it.
Forget ==
    /\ status' = [o \in Orders |-> IF status[o] = "NONE" THEN "NONE" ELSE "GONE"]
    /\ paidBy' = [o \in Orders |-> 0]
    /\ due' = {}

Init ==
    /\ status = [o \in Orders |-> "NONE"]
    /\ paidBy = [o \in Orders |-> 0]
    /\ due = {}

Next ==
    \/ \E o \in Orders : Place(o) \/ DecideDelivered(o) \/ NotePayment(o) \/ Cancel(o)
    \/ \E o \in Orders, s \in DOMAIN Stage : DecideStage(o, s)
    \/ \E o \in Orders, s \in DOMAIN Stage \cup {"DELIVERED"} : Take(o, s)
    \/ Forget

Spec == Init /\ [][Next]_<<status, paidBy, due>>
=============================================================================
