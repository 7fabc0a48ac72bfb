--------------------------- MODULE PaymentService ---------------------------
(***************************************************************************)
(* The threads of payment-service: the consumer of order.created and the   *)
(* HTTP threads share the payments in memory, without a lock.  A payment   *)
(* is looked for, created, charged with retries; a refund is checked,      *)
(* appended, and may then settle the payment; other threads run between    *)
(* these steps.  The amount of every payment is Amount: a request whose    *)
(* amount is not positive is refused before it makes a payment, and one    *)
(* above the limit is declined like a declined card.                       *)
(***************************************************************************)
EXTENDS Naturals, Sequences, FiniteSets

CONSTANTS Orders,
          Clients,     \* HTTP threads
          Consumer,
          Nobody,      \* the order of a thread that has none
          Amount,      \* of a payment: what is not positive makes none
          FlakyErrors, \* of a flaky card, before its first success
          MaxRetries,
          MaxPosts,    \* bounds POST /payments
          MaxRestarts

ASSUME NamesAssumption == Consumer \notin Clients /\ Nobody \notin Orders

\* Their messages are in the queue from the start.
ASSUME OrdersAssumption == IsFiniteSet(Orders)

ASSUME AmountAssumption == Amount \in Nat \ {0}

ASSUME RetryAssumption == MaxRetries \in Nat /\ FlakyErrors \in 0 .. MaxRetries

ASSUME BoundsAssumption == MaxPosts \in Nat /\ MaxRestarts \in Nat

Threads == Clients \cup {Consumer}

VARIABLES payments, \* in the order of their creation, which is that of the dictionary
          queue,    \* payment.process_payment, the unacknowledged message first
          at,       \* per thread: where it is in its request
          charges,  \* per order: how often the gateway has charged it
          posts, restarts, \* how many so far
          again,    \* history: the orders of which two requests found no payment at
                    \* once, or one found a first payment failed or refunded
          rushed    \* history: the payments with two refunds checked at once

vars == <<payments, queue, at, charges, posts, restarts, again, rushed>>

-----------------------------------------------------------------------------
PaymentStatus == {"PROCESSING", "COMPLETED", "FAILED", "REFUNDED"}

Cards == {"valid", "card_declined", "card_flaky"}

\* refunds is the sum of the refunds, attempts the entry of _flaky_attempts.
Payments == [order : Orders, card : Cards, status : PaymentStatus, refunds : Nat, attempts : Nat]

\* What a request asks to charge: a card, or an amount that is not positive.
Asked == Cards \cup {"no_amount"}

Messages == [order : Orders, card : Asked]

Idle == [step |-> "idle", order |-> Nobody, card |-> "valid", size |-> 0, payment |-> 0, amount |-> 0]

\* size is that of the dictionary when the iteration began.
Works == [step : {"idle", "find", "create", "charge", "append", "settle"},
          order : Orders \cup {Nobody}, card : Asked, size : Nat, payment : Nat, amount : Nat]

Goes(t, work) == at' = [at EXCEPT ![t] = work]

\* Mutant: the message is queued again.
Ends_Nacks(t) ==
    /\ Goes(t, Idle)
    /\ queue' = IF t = Consumer THEN Append(Tail(queue), Head(queue)) ELSE queue

\* The request is over; its message is acknowledged.
Ends(t) ==
    /\ Goes(t, Idle)
    /\ queue' = IF t = Consumer THEN Tail(queue) ELSE queue

\* An unexpected exception: 500, or a nack that queues the message again behind
\* those the consumer has already been sent.
Raises(t) ==
    /\ Goes(t, Idle)
    /\ queue' = IF t = Consumer THEN Append(Tail(queue), Head(queue)) ELSE queue

Sets(p, status) == payments' = [payments EXCEPT ![p].status = status]

-----------------------------------------------------------------------------
(* process_payment *)

\* Mutant: the message is acknowledged when it is received.
Process_AutoAck(t, o, c) ==
    /\ at[t] = Idle
    /\ IF t = Consumer THEN /\ queue # <<>> /\ Head(queue) = [order |-> o, card |-> c]
                            /\ queue' = Tail(queue) /\ UNCHANGED posts
       ELSE posts < MaxPosts /\ posts' = posts + 1 /\ UNCHANGED queue
    /\ Goes(t, [Idle EXCEPT !.step = "find", !.order = o, !.card = c, !.size = Len(payments)])
    /\ UNCHANGED <<payments, charges, restarts, again, rushed>>

Process(t, o, c) ==
    /\ at[t] = Idle
    /\ IF t = Consumer THEN queue # <<>> /\ Head(queue) = [order |-> o, card |-> c] /\ UNCHANGED posts
       ELSE posts < MaxPosts /\ posts' = posts + 1
    /\ Goes(t, [Idle EXCEPT !.step = "find", !.order = o, !.card = c, !.size = Len(payments)])
    /\ UNCHANGED <<payments, queue, charges, restarts, again, rushed>>

Of(o) == {p \in DOMAIN payments : payments[p].order = o}

IsFirst(p, o) == p \in Of(o) /\ \A q \in Of(o) : p <= q

\* An amount that is not positive is a PaymentException: 422, or a message that
\* is acknowledged, and neither a payment nor an event.  Otherwise the thread is
\* to create a payment; unusual is true if it is not the only one.
Creates(t, unusual) ==
    IF at[t].card = "no_amount" THEN Ends(t) /\ UNCHANGED again
    ELSE /\ Goes(t, [at[t] EXCEPT !.step = "create", !.size = 0])
         /\ again' = IF unusual THEN again \cup {at[t].order} ELSE again
         /\ UNCHANGED queue

\* Mutant: a payment that is being processed is not enough.
FindByOrder_Charged(t) ==
    /\ at[t].step = "find"
    /\ LET o == at[t].order IN
       IF \E p \in Of(o) : payments[p].status = "COMPLETED" THEN Ends(t) /\ UNCHANGED again
       ELSE Creates(t, \E u \in Threads : at[u].step = "create" /\ at[u].order = o)
    /\ UNCHANGED <<payments, charges, posts, restarts, rushed>>

\* find_by_order_id returns the first payment of the order, and the status is
\* tested.  The iteration raises once another thread has inserted a payment.
FindByOrder(t) ==
    /\ at[t].step = "find"
    /\ LET o == at[t].order IN
       \/ \E p \in DOMAIN payments :
              /\ IsFirst(p, o) /\ p <= at[t].size
              /\ IF payments[p].status \in {"COMPLETED", "PROCESSING"}
                 THEN Ends(t) /\ UNCHANGED again
                 ELSE Creates(t, TRUE)
       \/ /\ Of(o) = {} /\ Len(payments) = at[t].size
          /\ Creates(t, \E u \in Threads : at[u].step = "create" /\ at[u].order = o)
       \/ /\ Len(payments) # at[t].size
          /\ Raises(t) /\ UNCHANGED again
    /\ UNCHANGED <<payments, charges, posts, restarts, rushed>>

\* Mutant: every payment has the same id.
CreatePayment_SameId(t) ==
    /\ at[t].step = "create"
    /\ payments' = <<[order |-> at[t].order, card |-> at[t].card,
                      status |-> "PROCESSING", refunds |-> 0, attempts |-> 0]>>
    /\ Goes(t, [Idle EXCEPT !.step = "charge", !.payment = Len(payments) + 1])
    /\ UNCHANGED <<queue, charges, posts, restarts, again, rushed>>

CreatePayment(t) ==
    /\ at[t].step = "create"
    /\ payments' = Append(payments, [order |-> at[t].order, card |-> at[t].card,
                                     status |-> "PROCESSING", refunds |-> 0, attempts |-> 0])
    /\ Goes(t, [Idle EXCEPT !.step = "charge", !.payment = Len(payments) + 1])
    /\ UNCHANGED <<queue, charges, posts, restarts, again, rushed>>

\* Mutant: the status is not set.
MarkFailed_Unsaved(t) == Ends(t) /\ UNCHANGED <<payments, charges>>

\* PaymentDeclined, or the retries are exhausted.
MarkFailed(t) == Sets(at[t].payment, "FAILED") /\ Ends(t) /\ UNCHANGED charges

\* Mutant: the error before the first success is taken for the last attempt.
GatewayError_LastIsOne(t) == LET p == at[t].payment IN
    /\ payments[p].card = "card_flaky" /\ payments[p].attempts < FlakyErrors
    /\ IF payments[p].attempts + 1 >= FlakyErrors THEN MarkFailed(t)
       ELSE /\ payments' = [payments EXCEPT ![p].attempts = @ + 1]
            /\ UNCHANGED <<queue, at, charges>>

\* The gateway does not answer; the retry calls it again unless that was the last.
GatewayError(t) == LET p == at[t].payment IN
    /\ payments[p].card = "card_flaky" /\ payments[p].attempts < FlakyErrors
    /\ IF payments[p].attempts >= MaxRetries THEN MarkFailed(t)
       ELSE /\ payments' = [payments EXCEPT ![p].attempts = @ + 1]
            /\ UNCHANGED <<queue, at, charges>>

Complete(t) == LET p == at[t].payment IN
    /\ \/ payments[p].card = "valid"
       \/ payments[p].card = "card_flaky" /\ payments[p].attempts >= FlakyErrors
    /\ Sets(p, "COMPLETED")
    /\ charges' = [charges EXCEPT ![payments[p].order] = @ + 1]
    /\ Ends(t)

\* One call of the gateway, and what follows the last.
CallGateway(t) ==
    /\ at[t].step = "charge"
    /\ \/ payments[at[t].payment].card = "card_declined" /\ MarkFailed(t)
       \/ GatewayError(t)
       \/ Complete(t)
    /\ UNCHANGED <<posts, restarts, again, rushed>>

-----------------------------------------------------------------------------
(* refund *)

\* Mutant: what was refunded before does not count.
Refund_EachFits(t, p, amount) ==
    /\ at[t] = Idle
    /\ payments[p].status \in {"COMPLETED", "REFUNDED"}
    /\ amount \in 1 .. Amount
    /\ Goes(t, [Idle EXCEPT !.step = "append", !.payment = p, !.amount = amount])
    /\ rushed' = IF \E u \in Threads : at[u].step = "append" /\ at[u].payment = p
                 THEN rushed \cup {p} ELSE rushed
    /\ UNCHANGED <<payments, queue, charges, posts, restarts, again>>

\* No amount is the remainder.
Refund(t, p, amount) ==
    /\ at[t] = Idle
    /\ payments[p].status \in {"COMPLETED", "REFUNDED"}
    /\ amount > 0 /\ payments[p].refunds + amount <= Amount
    /\ Goes(t, [Idle EXCEPT !.step = "append", !.payment = p, !.amount = amount])
    /\ rushed' = IF \E u \in Threads : at[u].step = "append" /\ at[u].payment = p
                 THEN rushed \cup {p} ELSE rushed
    /\ UNCHANGED <<payments, queue, charges, posts, restarts, again>>

AppendRefund(t) ==
    /\ at[t].step = "append"
    /\ payments' = [payments EXCEPT ![at[t].payment].refunds = @ + at[t].amount]
    /\ Goes(t, [at[t] EXCEPT !.step = "settle"])
    /\ UNCHANGED <<queue, charges, posts, restarts, again, rushed>>

\* Mutant: equal, not at least.
Settle_Exact(t) == LET p == at[t].payment IN
    /\ at[t].step = "settle"
    /\ IF payments[p].refunds = Amount THEN Sets(p, "REFUNDED") ELSE UNCHANGED payments
    /\ Goes(t, Idle)
    /\ UNCHANGED <<queue, charges, posts, restarts, again, rushed>>

Settle(t) == LET p == at[t].payment IN
    /\ at[t].step = "settle"
    /\ IF payments[p].refunds >= Amount THEN Sets(p, "REFUNDED") ELSE UNCHANGED payments
    /\ Goes(t, Idle)
    /\ UNCHANGED <<queue, charges, posts, restarts, again, rushed>>

-----------------------------------------------------------------------------
\* The payments are gone; the message that was not acknowledged is delivered again.
Restart ==
    /\ restarts < MaxRestarts /\ restarts' = restarts + 1
    /\ payments' = <<>> /\ rushed' = {}
    /\ at' = [t \in Threads |-> Idle]
    /\ UNCHANGED <<queue, charges, posts, again>>

\* One order.created per order; the card is the customer's.
Init ==
    /\ payments = <<>>
    /\ queue \in {q \in [1 .. Cardinality(Orders) -> Messages] :
                    \A i, j \in DOMAIN q : q[i].order = q[j].order => i = j}
    /\ at = [t \in Threads |-> Idle]
    /\ charges = [o \in Orders |-> 0]
    /\ posts = 0 /\ restarts = 0
    /\ again = {} /\ rushed = {}

Continues(t) ==
    FindByOrder(t) \/ CreatePayment(t) \/ CallGateway(t) \/ AppendRefund(t) \/ Settle(t)

Consumes == \E o \in Orders, c \in Asked : Process(Consumer, o, c)

Requests(t) ==
    \/ \E o \in Orders, c \in Asked : Process(t, o, c)
    \/ \E p \in DOMAIN payments, amount \in 1 .. Amount : Refund(t, p, amount)

Next ==
    \/ Consumes \/ Restart
    \/ \E t \in Clients : Requests(t)
    \/ \E t \in Threads : Continues(t)

\* The consumer thread goes on; requests of users need not come.
Fairness == WF_vars(Consumes) /\ \A t \in Threads : WF_vars(Continues(t))

Spec == Init /\ [][Next]_vars /\ Fairness

-----------------------------------------------------------------------------
(* Properties *)

\* Besides the types: a thread that works on a payment works on one there is, and
\* one that is to create a payment was asked for a positive amount.
TypeOK ==
    /\ payments \in Seq(Payments)
    /\ queue \in Seq(Messages)
    /\ at \in [Threads -> Works]
    /\ \A t \in Threads : at[t].step \in {"charge", "append", "settle"} =>
           at[t].payment \in DOMAIN payments
    /\ \A t \in Threads : at[t].step = "create" => at[t].card \in Cards
    /\ charges \in [Orders -> Nat]
    /\ posts \in 0 .. MaxPosts /\ restarts \in 0 .. MaxRestarts
    /\ again \subseteq Orders
    /\ rushed \subseteq Nat

\* Whatever is delivered or posted again, the gateway charges an order once, and
\* once more after a restart has lost its payment; save when two requests looked
\* at the same time, or when the first payment of the order, the only one that
\* is looked at, had failed or was refunded.
ChargedOnce == \A o \in Orders \ again : charges[o] <= 1 + restarts

\* A payment that is being processed has a thread that will end it: the requests
\* that find it are answered that all is done.
ProcessingIsWorkedOn ==
    \A p \in DOMAIN payments : payments[p].status = "PROCESSING" =>
        \E t \in Threads : at[t].step = "charge" /\ at[t].payment = p

\* More than was paid is given back only if two refunds were checked at once.
RefundsAreCovered == \A p \in DOMAIN payments : payments[p].refunds <= Amount \/ p \in rushed

\* However the refunds of a payment interleave, it is REFUNDED in the end if
\* nothing of it is left, and only then.
RefundedWhenAllIs ==
    \A p \in DOMAIN payments :
        /\ payments[p].status = "REFUNDED" => payments[p].refunds >= Amount
        /\ payments[p].status # "REFUNDED" /\ payments[p].refunds >= Amount =>
               \E t \in Threads : at[t].step = "settle" /\ at[t].payment = p

\* The retries outlast the errors of a flaky card.
FlakyIsPaid ==
    \A p \in DOMAIN payments : payments[p].card = "card_flaky" => payments[p].status # "FAILED"

\* The payments are, for order-service, those of PaymentLedger: two threads never
\* decide one payment, and no refund reaches a payment that was not charged.
Ledger == INSTANCE PaymentLedger
    WITH ledger <- [p \in DOMAIN payments |->
                       [order |-> payments[p].order, status |-> payments[p].status]],
         charged <- charges

ImplementsLedger == Ledger!Spec

Waiting(o) == \E i \in DOMAIN queue : queue[i].order = o

\* The order.created of the order is waiting, and asks for a positive amount.
PaymentAsked(o) == \E i \in DOMAIN queue : queue[i].order = o /\ queue[i].card # "no_amount"

\* order.created leaves its queue only when the order has a payment, or when its
\* amount is refused.
AckedHasPayment ==
    [][\A o \in Orders : PaymentAsked(o) /\ ~PaymentAsked(o)' => Of(o) # {}]_vars

\* Each order.created is taken in the end, whatever raised or restarted before.
OrdersAreTaken == \A o \in Orders : Waiting(o) ~> ~Waiting(o)
=============================================================================
