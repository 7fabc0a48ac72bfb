---------------------------- MODULE PaymentLedger ----------------------------
(***************************************************************************)
(* What the other services may rely on of the payments, with nothing said  *)
(* of threads, retries, partial refunds or messages: a payment is entered  *)
(* once, in process; it is decided once, and the gateway has charged its   *)
(* order exactly if it is completed; what was completed may be returned,   *)
(* once.  Nothing else becomes of it, unless payment-service forgets all   *)
(* payments; what was charged stays charged, also a payment that was       *)
(* decided just before it was forgotten.                                   *)
(***************************************************************************)
EXTENDS Naturals

CONSTANTS Orders

VARIABLES ledger, \* the payments, by their ids
          charged \* per order: how often the gateway has charged it

\* Under an id of its own.
Enter(o) ==
    /\ \E id \in DOMAIN ledger' \ DOMAIN ledger :
        ledger' = [p \in DOMAIN ledger \cup {id} |->
                      IF p = id THEN [order |-> o, status |-> "PROCESSING"] ELSE ledger[p]]
    /\ UNCHANGED charged

Complete(p) ==
    /\ ledger[p].status = "PROCESSING"
    /\ ledger' = [ledger EXCEPT ![p].status = "COMPLETED"]
    /\ charged' = [charged EXCEPT ![ledger[p].order] = @ + 1]

Fail(p) ==
    /\ ledger[p].status = "PROCESSING"
    /\ ledger' = [ledger EXCEPT ![p].status = "FAILED"]
    /\ UNCHANGED charged

\* Several at once: the requests that a restart of order-service cuts off.
Return(ps) ==
    /\ \A p \in ps : ledger[p].status = "COMPLETED"
    /\ ledger' = [p \in DOMAIN ledger |->
                     IF p \in ps THEN [ledger[p] EXCEPT !.status = "REFUNDED"] ELSE ledger[p]]
    /\ UNCHANGED charged

NoPayments == [p \in {} |-> {}]

Forget ==
    /\ ledger' = NoPayments
    /\ \/ UNCHANGED charged
       \/ \E p \in DOMAIN ledger :
            /\ ledger[p].status = "PROCESSING"
            /\ charged' = [charged EXCEPT ![ledger[p].order] = @ + 1]

Init ==
    /\ ledger = NoPayments
    /\ charged = [o \in Orders |-> 0]

Next ==
    \/ \E o \in Orders : Enter(o)
    \/ \E p \in DOMAIN ledger : Complete(p) \/ Fail(p)
    \/ \E ps \in SUBSET DOMAIN ledger : Return(ps)
    \/ Forget

Spec == Init /\ [][Next]_<<ledger, charged>>
=============================================================================
