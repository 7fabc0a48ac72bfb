----------------------------- MODULE OrderSaga -----------------------------
(***************************************************************************)
(* The order placement SAGA: order-service (OrderService, its repository   *)
(* of shared Order objects, its HTTP threads and its one event-consumer    *)
(* thread), the payment participant it drives through RabbitMQ and calls   *)
(* over HTTP for refunds, and the events restaurant-service and            *)
(* delivery-service publish on behalf of their users.                      *)
(*                                                                         *)
(* Granularity.  Order-service's threads share the Order objects and hold  *)
(* no lock, so a handler's test of the status and its assignment are steps *)
(* of their own, and so are cancel_order's test, its read of payment_id    *)
(* and its assignment: what another thread does in between is overwritten. *)
(* A refund request is one step to pass the circuit breaker and one for    *)
(* the answer.  Events that reach no queue of this module are left out.    *)
(***************************************************************************)
EXTENDS Breaker, Sequences, FiniteSets

CONSTANTS Orders,            \* the orders customers may place
          Clients,           \* order-service's HTTP threads
          MaxRetries,        \* max_retries of PaymentClient's retry_with_backoff
          InTransitKey,      \* routing key of delivery-service's position updates
          RestaurantCalls,   \* bound: the events restaurants publish, each once per order
          Dispatched,        \* bound: the orders a courier is sent out for, once
          MaxUnread,         \* bound: delivery events unread when a position is reported
          MaxDirectPayments, \* bound: payments posted over HTTP
          Free,              \* the orders whose total price is not positive
          MaxDirectRefunds,  \* bound: full refunds posted by somebody else than order-service
          MaxLost,           \* bound: publications that fail (_publish swallows the error)
          MaxRestarts,       \* bound: restarts of the order-service process
          MaxPaymentRestarts \* bound: restarts of the payment-service process

Consumer == "event-consumer" \* order-service's consumer thread

RestaurantKeys == {"OrderAccepted", "OrderRejected", "OrderPreparing", "OrderReady"}

ASSUME SagaAssumption ==
    /\ Consumer \notin Clients
    /\ MaxRetries \in Nat
    /\ InTransitKey \in {"delivery.in_transit", "delivery.in_progress"}
    /\ RestaurantCalls \subseteq RestaurantKeys
    /\ Dispatched \subseteq Orders
    /\ MaxUnread \in Nat
    /\ MaxDirectPayments \in Nat
    /\ Free \subseteq Orders
    /\ MaxDirectRefunds \in Nat
    /\ MaxLost \in Nat
    /\ MaxRestarts \in Nat
    /\ MaxPaymentRestarts \in Nat

VARIABLES order,    \* InMemoryOrderRepository
          call,     \* per thread: the handler or cancellation it is in
          breaker,  \* PaymentClient.circuit_breaker
          payment,  \* every payment ever made, in insertion order
          forgotten, \* how many of them, the first, payment-service lost in a restart
          queue,    \* the durable RabbitMQ queues
          told,     \* per order: what its restaurant has published
          delivery, \* per order: its delivery in delivery-service
          lost,     \* publications that failed
          restarts  \* per service: its restarts

vars == <<order, call, breaker, payment, forgotten, queue, told, delivery, lost, restarts>>

-----------------------------------------------------------------------------
(* Data *)

OrderStatus == {"NONE", "GONE", "CREATED", "PAID", "CONFIRMED", "PREPARING", "READY",
                "ASSIGNED", "DELIVERING", "DELIVERED", "CANCELLED"}

\* The entries of saga_history that say how a cancellation went.
Outcomes == {"COMPENSATED", "FAILED"}

\* payment_id 0 is the empty string of an order that knows no payment.  Status
\* "NONE" is an order not placed yet, "GONE" one forgotten in a restart.
OrderRecord == [status : OrderStatus, history : SUBSET Outcomes, payment_id : Nat]

PaymentStatus == {"PROCESSING", "COMPLETED", "FAILED", "REFUNDED"}

\* by: who asked for the payment; byHand: somebody else than order-service
\* had it refunded (what the reason of the Refund says).
PaymentRecord == [order : Orders, status : PaymentStatus, by : {"consumer", "http"},
                  byHand : BOOLEAN]

Threads == Clients \cup {Consumer}

NoOne == "none" \* no order, no queue, no status

Queues == {"payment.process_payment", "order.payment_results",
           "order.restaurant_updates", "order.delivery_updates"}

\* The routing keys a queue is bound to.  restaurant-service names its keys in
\* PascalCase, the others in dotted lower case.
BoundKeys(q) ==
    CASE q = "payment.process_payment"  -> {"order.created"}
      [] q = "order.payment_results"    -> {"payment.processed", "payment.failed"}
      [] q = "order.restaurant_updates" -> RestaurantKeys
      [] q = "order.delivery_updates"   -> {"delivery.assigned", "delivery.in_progress",
                                            "delivery.completed"}

MessageRecord == [key : UNION {BoundKeys(q) : q \in Queues}, order : Orders, payment : Nat]

DeliveryStatus == {"NONE", "ASSIGNED", "IN_TRANSIT", "DELIVERED"}

\* pc: about to assign the status to, to note payment_id, to read payment_id,
\* to try the refund, awaiting its answer, about to cancel; on: the queue whose
\* message is being handled; attempts: the requests the retry loop has sent.
CallRecord == [pc : {"idle", "write", "note", "check", "post", "answer", "cancel"},
               order : Orders \cup {NoOne}, to : OrderStatus \cup {NoOne},
               on : Queues \cup {NoOne}, attempts : 0..(MaxRetries + 1)]

IdleCall == [pc |-> "idle", order |-> NoOne, to |-> NoOne, on |-> NoOne, attempts |-> 0]

NoOrder == [status |-> "NONE", history |-> {}, payment_id |-> 0]

-----------------------------------------------------------------------------
(* Messages *)

Message(key, o, p) == [key |-> key, order |-> o, payment |-> p]

\* The topic exchange copies a message to the tail of every queue bound to its
\* key.
Route(qs, m) ==
    [q \in Queues |-> IF m.key \in BoundKeys(q) THEN Append(qs[q], m) ELSE qs[q]]

Ack(q) == [queue EXCEPT ![q] = Tail(@)]

\* _publish: the message is routed, or the broker raises and the error is
\* only logged.  qs is what the step leaves in the queues before publishing.
Publish(qs, m) ==
    \/ /\ queue' = Route(qs, m)
       /\ lost' = lost
    \/ /\ lost < MaxLost
       /\ queue' = qs
       /\ lost' = lost + 1

\* The consumer thread is free and the next message of q has this key: one
\* channel serves the three queues of order-service, so its callbacks never
\* overlap.
Receives(q, key) ==
    /\ call[Consumer].pc = "idle"
    /\ queue[q] # <<>>
    /\ Head(queue[q]).key = key

-----------------------------------------------------------------------------
(* order-service *)

\* find_by_id returns the order.
Existing == OrderStatus \ {"NONE", "GONE"}

\* POST /orders, once the restaurant has validated the items.
CreateOrder(o) ==
    /\ order[o].status = "NONE"
    /\ order' = [order EXCEPT ![o].status = "CREATED"]
    /\ Publish(queue, Message("order.created", o, 0))
    /\ UNCHANGED <<call, breaker, payment, forgotten, told, delivery, restarts>>

\* A handler that takes an event of an order in one of the statuses in from,
\* and goes on as next says; any other event it ignores.  The message stays
\* unacknowledged until the handler returns.
Takes(q, key, from, next) ==
    LET m == Head(queue[q]) IN
        /\ Receives(q, key)
        /\ IF order[m.order].status \in from
           THEN /\ call' = [call EXCEPT ![Consumer] = [next EXCEPT !.order = m.order, !.on = q]]
                /\ queue' = queue
           ELSE /\ queue' = Ack(q)
                /\ call' = call
        /\ UNCHANGED <<order, breaker, payment, forgotten, told, delivery, lost, restarts>>

To(status) == [IdleCall EXCEPT !.pc = "write", !.to = status]

OnPaymentProcessed ==
    Takes("order.payment_results", "payment.processed", {"CREATED"}, To("PAID"))

OnPaymentFailed ==
    Takes("order.payment_results", "payment.failed", Existing \ {"CANCELLED"},
          [IdleCall EXCEPT !.pc = "cancel"])

\* Mutant: an order nobody has paid for may be accepted.
OnOrderAccepted_Unpaid ==
    Takes("order.restaurant_updates", "OrderAccepted", {"CREATED", "PAID"}, To("CONFIRMED"))

OnOrderAccepted ==
    Takes("order.restaurant_updates", "OrderAccepted", {"PAID"}, To("CONFIRMED"))

\* Mutant: a late OrderPreparing takes a ready order back to the kitchen.
OnOrderPreparing_Late ==
    Takes("order.restaurant_updates", "OrderPreparing", {"PAID", "CONFIRMED", "READY"},
          To("PREPARING"))

OnOrderPreparing ==
    Takes("order.restaurant_updates", "OrderPreparing", {"PAID", "CONFIRMED"}, To("PREPARING"))

OnOrderReady ==
    Takes("order.restaurant_updates", "OrderReady", {"PAID", "CONFIRMED", "PREPARING"},
          To("READY"))

OnDeliveryAssigned ==
    Takes("order.delivery_updates", "delivery.assigned", {"READY"}, To("ASSIGNED"))

OnDeliveryInProgress ==
    Takes("order.delivery_updates", "delivery.in_progress", {"READY", "ASSIGNED"},
          To("DELIVERING"))

OnDeliveryCompleted ==
    Takes("order.delivery_updates", "delivery.completed", Existing \ {"DELIVERED"},
          To("DELIVERED"))

\* The thread's handler or request returns; a message it handled is acknowledged.
Returns(c) ==
    /\ call' = [call EXCEPT ![c] = IdleCall]
    /\ queue' = IF call[c].on = NoOne THEN queue ELSE Ack(call[c].on)

\* The handler assigns the status, whatever has become of the order since the
\* test; on_payment_processed goes on to assign payment_id.
WriteStatus(c) ==
    /\ call[c].pc = "write"
    /\ order' = [order EXCEPT ![call[c].order].status = call[c].to]
    /\ IF call[c].to = "PAID"
       THEN call' = [call EXCEPT ![c].pc = "note"] /\ queue' = queue
       ELSE Returns(c)
    /\ UNCHANGED <<breaker, payment, forgotten, told, delivery, lost, restarts>>

NotePayment(c) ==
    /\ call[c].pc = "note"
    /\ order' = [order EXCEPT ![call[c].order].payment_id = Head(queue[call[c].on]).payment]
    /\ Returns(c)
    /\ UNCHANGED <<breaker, payment, forgotten, told, delivery, lost, restarts>>

-----------------------------------------------------------------------------
(* Compensation: cancel_order on an HTTP thread, on_order_rejected on the
   consumer thread, and the refund both of them make. *)

\* DELETE /orders/{id}: the tests of the status.
CancelOrder(c, o) ==
    /\ call[c].pc = "idle"
    /\ order[o].status \in {"CREATED", "PAID"}
    /\ call' = [call EXCEPT ![c] = [IdleCall EXCEPT !.pc = "check", !.order = o]]
    /\ UNCHANGED <<order, breaker, payment, forgotten, queue, told, delivery, lost, restarts>>

OnOrderRejected ==
    Takes("order.restaurant_updates", "OrderRejected", Existing \ {"CANCELLED"},
          [IdleCall EXCEPT !.pc = "check"])

\* _refund is called only for an order with a payment_id.
CheckPayment(c) ==
    /\ call[c].pc = "check"
    /\ call' = [call EXCEPT ![c].pc =
                   IF order[call[c].order].payment_id # 0 THEN "post" ELSE "cancel"]
    /\ UNCHANGED <<order, breaker, payment, forgotten, queue, told, delivery, lost, restarts>>

\* Mutant: the failure is logged and nothing else.
RefundFailed_NotFlagged(c) ==
    /\ order' = order
    /\ call' = [call EXCEPT ![c].pc = "cancel"]

\* _refund's except clause: log, flag the SAGA, and go on to cancel.
RefundFailed(c) ==
    /\ order' = [order EXCEPT ![call[c].order].history = @ \cup {"FAILED"}]
    /\ call' = [call EXCEPT ![c].pc = "cancel"]

\* One attempt of the retry loop enters the breaker.  A refusal is a
\* CircuitBreakerException, which the retry does not catch.
Posts(c, count) ==
    /\ call[c].pc = "post"
    /\ IF Admits(breaker)
       THEN /\ breaker' = Admitted(breaker)
            /\ call' = [call EXCEPT ![c].pc = "answer", ![c].attempts = @ + count]
            /\ order' = order
       ELSE /\ RefundFailed(c)
            /\ breaker' = breaker
    /\ UNCHANGED <<payment, forgotten, queue, told, delivery, lost, restarts>>

\* Mutant: the retry loop does not count its attempts.
PostRefund_Uncounted(c) == Posts(c, 0)

PostRefund(c) == Posts(c, 1)

\* The payments payment-service still has.
Known == (forgotten + 1)..Len(payment)

\* payment-service's refund of the whole remainder.  A payment that is already
\* REFUNDED, or was never COMPLETED, is answered with 400, one that was
\* forgotten with 404.
Refunded(p, byHand) ==
    IF p \in Known /\ payment[p].status = "COMPLETED"
    THEN [payment EXCEPT ![p].status = "REFUNDED", ![p].byHand = byHand]
    ELSE payment

\* Any reply below 500, a 400 or a 404 included, is a success of _post_refund.
Answered(c, next) ==
    /\ call[c].pc = "answer"
    /\ payment' = Refunded(order[call[c].order].payment_id, FALSE)
    /\ breaker' = OnSuccess(breaker)
    /\ call' = [call EXCEPT ![c] = next]
    /\ UNCHANGED <<order, forgotten, queue, told, delivery, lost, restarts>>

\* Mutant: the call returns once the refund is made, without cancelling.
RefundAnswered_Returns(c) == Answered(c, IdleCall)

RefundAnswered(c) == Answered(c, [call[c] EXCEPT !.pc = "cancel"])

\* A RequestException: payment-service was not reached, answered 5xx, or made
\* the refund and the reply was lost.  Retried while attempts are left.
Unanswered(c, retries) ==
    /\ call[c].pc = "answer"
    /\ payment' \in {payment, Refunded(order[call[c].order].payment_id, FALSE)}
    /\ breaker' = OnFailure(breaker)
    /\ IF call[c].attempts <= retries
       THEN /\ call' = [call EXCEPT ![c].pc = "post"]
            /\ order' = order
       ELSE RefundFailed(c)
    /\ UNCHANGED <<forgotten, queue, told, delivery, lost, restarts>>

\* Mutant: one attempt more than max_retries + 1.
RefundUnanswered_OneMore(c) == Unanswered(c, MaxRetries + 1)

RefundUnanswered(c) == Unanswered(c, MaxRetries)

\* _cancel, whatever has become of the order since the test.
FinishCancel(c) ==
    /\ call[c].pc = "cancel"
    /\ order' = [order EXCEPT ![call[c].order].status = "CANCELLED",
                              ![call[c].order].history = @ \cup {"COMPENSATED"}]
    /\ Returns(c)
    /\ UNCHANGED <<breaker, payment, forgotten, told, delivery, lost, restarts>>

\* The order-service process stops and starts again: the repository, the
\* breaker and the calls in progress live in memory only.  Queues are durable
\* and a message not acknowledged is delivered again.  A refund request
\* already sent may still reach payment-service.
RestartOrderService ==
    /\ restarts.order < MaxRestarts
    /\ restarts' = [restarts EXCEPT !.order = @ + 1]
    /\ order' = [o \in Orders |->
                    IF order[o].status \in Existing THEN [NoOrder EXCEPT !.status = "GONE"] ELSE order[o]]
    /\ call' = [c \in Threads |-> IdleCall]
    /\ breaker' = NewBreaker
    /\ \E sent \in SUBSET {c \in Threads : call[c].pc = "answer"} :
        payment' = [p \in DOMAIN payment |->
            IF \E c \in sent : order[call[c].order].payment_id = p
            THEN Refunded(p, FALSE)[p] ELSE payment[p]]
    /\ UNCHANGED <<forgotten, queue, told, delivery, lost>>

RecoveryTimeout ==
    /\ breaker.opened_at = "recent"
    /\ breaker' = Elapsed(breaker)
    /\ UNCHANGED <<order, call, payment, forgotten, queue, told, delivery, lost, restarts>>

-----------------------------------------------------------------------------
(* payment-service *)

PaymentsOf(o) == {p \in Known : payment[p].order = o}

\* find_by_order_id returns the first payment saved for the order, and only
\* that one can make process_payment an idempotent replay.
AlreadyPaid(o) ==
    \E p \in PaymentsOf(o) : /\ \A q \in PaymentsOf(o) : p <= q
                             /\ payment[p].status \in {"COMPLETED", "PROCESSING"}

NewPayment(o, by) == [order |-> o, status |-> "PROCESSING", by |-> by, byHand |-> FALSE]

\* Mutant: a payment that has failed is processed again.
Started_Again(o, by) ==
    [p \in DOMAIN payment \cup (IF PaymentsOf(o) = {} THEN {Len(payment) + 1} ELSE {}) |->
        IF p \in DOMAIN payment \ PaymentsOf(o) THEN payment[p] ELSE NewPayment(o, by)]

Started(o, by) == Append(payment, NewPayment(o, by))

\* What payment-service's own consumer thread is processing.
InFlight == {p \in Known : payment[p].by = "consumer" /\ payment[p].status = "PROCESSING"}

\* on_order_created up to the gateway call.  The message is acknowledged when
\* the payment is settled, and at once when the payment exists already or when
\* the amount is refused: nothing is published then.
OnOrderCreated ==
    /\ InFlight = {}
    /\ queue["payment.process_payment"] # <<>>
    /\ LET o == Head(queue["payment.process_payment"]).order IN
       IF AlreadyPaid(o) \/ o \in Free
       THEN queue' = Ack("payment.process_payment") /\ payment' = payment
       ELSE payment' = Started(o, "consumer") /\ queue' = queue
    /\ UNCHANGED <<order, call, breaker, forgotten, told, delivery, lost, restarts>>

DirectPayments == {p \in DOMAIN payment : payment[p].by = "http"}

\* POST /payments, routed by the gateway to payment-service, with an amount of
\* the caller's choice.
PostPayment(o) ==
    /\ order[o].status # "NONE"
    /\ Cardinality(DirectPayments) < MaxDirectPayments
    /\ ~AlreadyPaid(o)
    /\ payment' = Started(o, "http")
    /\ UNCHANGED <<order, call, breaker, forgotten, queue, told, delivery, lost, restarts>>

\* The gateway's answer is recorded and published; qs is what the step leaves
\* in the queues before.
Decides(p, failed, qs) ==
    \E ok \in BOOLEAN :
        /\ payment' = [payment EXCEPT ![p].status = IF ok THEN "COMPLETED" ELSE "FAILED"]
        /\ Publish(qs, Message(IF ok THEN "payment.processed" ELSE failed, payment[p].order, p))

\* The gateway has answered, or declined, or its retries are used up.
Settles(p, failed) ==
    /\ p \in Known
    /\ payment[p].status = "PROCESSING"
    /\ Decides(p, failed,
               IF payment[p].by = "consumer" THEN Ack("payment.process_payment") ELSE queue)
    /\ UNCHANGED <<order, call, breaker, forgotten, told, delivery, restarts>>

\* Mutant: a declined payment is announced under a key no queue is bound to.
SettlePayment_Unheard(p) == Settles(p, "payment.declined")

SettlePayment(p) == Settles(p, "payment.failed")

\* POST /payments/{id}/refund, routed by the gateway, whatever the order's
\* status; a refund of a part that leaves the payment COMPLETED is no step.
RefundDirectly(p) ==
    /\ p \in Known
    /\ payment[p].status = "COMPLETED"
    /\ Cardinality({r \in DOMAIN payment : payment[r].byHand}) < MaxDirectRefunds
    /\ payment' = Refunded(p, TRUE)
    /\ UNCHANGED <<order, call, breaker, forgotten, queue, told, delivery, lost, restarts>>

\* The payment-service process stops and starts again: its repository lives in
\* memory only.  An order.created not acknowledged is delivered again, also
\* when the result of its payment was published just before.
RestartPaymentService ==
    /\ restarts.payment < MaxPaymentRestarts
    /\ restarts' = [restarts EXCEPT !.payment = @ + 1]
    /\ forgotten' = Len(payment)
    /\ \/ UNCHANGED <<payment, queue, lost>>
       \/ \E p \in InFlight : Decides(p, "payment.failed", queue)
    /\ UNCHANGED <<order, call, breaker, told, delivery>>

-----------------------------------------------------------------------------
(* restaurant-service and delivery-service: neither checks the order it is
   given, so each event may come at any time once the order exists. *)

\* accept_order, reject_order, update_order_status.
RestaurantPublishes(o, key) ==
    /\ order[o].status # "NONE"
    /\ key \notin told[o]
    /\ told' = [told EXCEPT ![o] = @ \cup {key}]
    /\ Publish(queue, Message(key, o, 0))
    /\ UNCHANGED <<order, call, breaker, payment, forgotten, delivery, restarts>>

DeliveryPublishes(o, key, from, to) ==
    /\ o \in Dispatched
    /\ order[o].status # "NONE"
    /\ delivery[o] \in from
    /\ delivery' = [delivery EXCEPT ![o] = to]
    /\ Publish(queue, Message(key, o, 0))
    /\ UNCHANGED <<order, call, breaker, payment, forgotten, told, restarts>>

AssignDeliverer(o) == DeliveryPublishes(o, "delivery.assigned", {"NONE"}, "ASSIGNED")

\* A courier reports a position as often as the courier likes.
UpdateLocation(o) ==
    /\ Len(queue["order.delivery_updates"]) < MaxUnread
    /\ DeliveryPublishes(o, InTransitKey, {"ASSIGNED", "IN_TRANSIT"}, "IN_TRANSIT")

ConfirmDelivery(o) ==
    DeliveryPublishes(o, "delivery.completed", {"ASSIGNED", "IN_TRANSIT"}, "DELIVERED")

-----------------------------------------------------------------------------
Init ==
    /\ order = [o \in Orders |-> NoOrder]
    /\ call = [c \in Threads |-> IdleCall]
    /\ breaker = NewBreaker
    /\ payment = <<>>
    /\ forgotten = 0
    /\ queue = [q \in Queues |-> <<>>]
    /\ told = [o \in Orders |-> {}]
    /\ delivery = [o \in Orders |-> "NONE"]
    /\ lost = 0
    /\ restarts = [order |-> 0, payment |-> 0]

\* What order-service's consumer thread does with the next message.
Consume ==
    \/ OnPaymentProcessed
    \/ OnPaymentFailed
    \/ OnOrderAccepted
    \/ OnOrderPreparing
    \/ OnOrderReady
    \/ OnOrderRejected
    \/ OnDeliveryAssigned
    \/ OnDeliveryInProgress
    \/ OnDeliveryCompleted

\* What a thread does next for the handler or the request it is in.
Proceed(c) ==
    \/ WriteStatus(c)
    \/ NotePayment(c)
    \/ CheckPayment(c)
    \/ PostRefund(c)
    \/ RefundAnswered(c)
    \/ RefundUnanswered(c)
    \/ FinishCancel(c)

Next ==
    \/ \E o \in Orders : CreateOrder(o)
    \/ \E c \in Clients, o \in Orders : CancelOrder(c, o)
    \/ Consume
    \/ \E c \in Threads : Proceed(c)
    \/ RecoveryTimeout
    \/ RestartOrderService
    \/ OnOrderCreated
    \/ \E o \in Orders : PostPayment(o)
    \/ \E p \in DOMAIN payment : SettlePayment(p)
    \/ \E p \in DOMAIN payment : RefundDirectly(p)
    \/ RestartPaymentService
    \/ \E o \in Orders, key \in RestaurantCalls : RestaurantPublishes(o, key)
    \/ \E o \in Orders : AssignDeliverer(o)
    \/ \E o \in Orders : UpdateLocation(o)
    \/ \E o \in Orders : ConfirmDelivery(o)

Spec == Init /\ [][Next]_vars

\* What the code schedules: both consumer threads keep consuming, a call in
\* progress goes on (every request has a timeout), the gateway call ends
\* (its retries are bounded).  Users and restaurants promise nothing.
Fairness ==
    /\ WF_vars(Consume)
    /\ \A c \in Threads : WF_vars(Proceed(c))
    /\ WF_vars(OnOrderCreated)
    /\ WF_vars(\E p \in DOMAIN payment : SettlePayment(p))

FairSpec == Spec /\ Fairness

-----------------------------------------------------------------------------
(* Properties *)

TypeOK ==
    /\ order \in [Orders -> OrderRecord]
    /\ call \in [Threads -> CallRecord]
    /\ \A c \in Threads : call[c].pc # "idle" => call[c].order \in Orders
    /\ breaker \in Breakers
    /\ payment \in Seq(PaymentRecord)
    /\ forgotten \in 0..Len(payment)
    /\ queue \in [Queues -> Seq(MessageRecord)]
    /\ told \in [Orders -> SUBSET RestaurantKeys]
    /\ delivery \in [Orders -> DeliveryStatus]
    /\ lost \in 0..MaxLost
    /\ restarts \in [order : 0..MaxRestarts, payment : 0..MaxPaymentRestarts]

\* The payment an order knows was really made, and made for that order.
Settled(o) ==
    LET p == order[o].payment_id IN
    /\ p \in DOMAIN payment
    /\ payment[p].order = o
    /\ payment[p].status \in {"COMPLETED", "REFUNDED"}

InService == {"PAID", "CONFIRMED", "PREPARING", "READY", "ASSIGNED", "DELIVERING"}

\* The kitchen never works on an order nobody paid for: whatever order the
\* restaurant's and the courier's events come in, before the payment included,
\* an order in service carries a genuine payment, or its handler is about to
\* note it.
ServedOrdersArePaid ==
    \A o \in Orders : order[o].status \in InService =>
        Settled(o) \/ (call[Consumer].pc = "note" /\ call[Consumer].order = o)

\* order-service gives money back only as part of a cancellation: once a refund
\* it asked for is made, of the payment its order knows, the order has been
\* cancelled (an event whose handler had tested the status before may have
\* revived it since) or a thread is about to cancel it.
RefundMeansCancelling ==
    \A p \in DOMAIN payment : payment[p].status = "REFUNDED" /\ ~payment[p].byHand =>
        LET o == payment[p].order IN
        \/ order[o].status = "GONE"
        \/ /\ order[o].payment_id = p
           /\ \/ "COMPENSATED" \in order[o].history
              \/ \E c \in Threads : /\ call[c].pc \in {"post", "answer", "cancel"}
                                    /\ call[c].order = o

\* A call that has sent refund requests cancels its order only once the payment
\* is refunded or the SAGA history says that it could not be.
RefundOrFlag(c) ==
    call[c].pc = "cancel" /\ call[c].attempts > 0 =>
        LET r == order[call[c].order] IN
        \/ payment[r.payment_id].status = "REFUNDED"
        \/ "FAILED" \in r.history

\* A refund that was not made is never taken for one that was, although any
\* reply below 500 counts as a success: a 400 comes only for a payment that was
\* refunded before.  Only the 404 of a payment-service that has forgotten the
\* payment deceives order-service.
NoSilentRefundFailure ==
    \A c \in Threads : RefundOrFlag(c) \/ order[call[c].order].payment_id <= forgotten

\* What the event consumer has decided and not yet written: the order and its
\* next status, or the order whose payment it is about to note.
Due == IF call[Consumer].pc = "write" THEN {<<call[Consumer].order, call[Consumer].to>>}
       ELSE IF call[Consumer].pc = "note" THEN {<<call[Consumer].order, "PAYMENT">>}
       ELSE {}

\* The orders go through the stages of OrderLifecycle and no others: paid once
\* and first, moved on by decisions that were right when they were taken; only
\* a cancellation can come between a decision and its effect.
Lifecycle == INSTANCE OrderLifecycle
    WITH status <- [o \in Orders |-> order[o].status],
         paidBy <- [o \in Orders |-> order[o].payment_id],
         due <- Due

ImplementsLifecycle == Lifecycle!Spec

\* What becomes of the payments is what PaymentLedger says, and PaymentService,
\* which opens up payment-service, implements it too.
Ledger == INSTANCE PaymentLedger
    WITH ledger <- [p \in Known |-> [order |-> payment[p].order, status |-> payment[p].status]],
         charged <- [o \in Orders |->
                       Cardinality({p \in DOMAIN payment :
                           payment[p].order = o /\ payment[p].status \in {"COMPLETED", "REFUNDED"}})]

ImplementsLedger == Ledger!Spec

Unread(q, o) == \E i \in DOMAIN queue[q] : queue[q][i].order = o

\* Either payment-service still has to hear of the order, or it is at work on a
\* payment of the order, or the order still has to hear of a result.
UnderWay(o) ==
    \/ Unread("payment.process_payment", o)
    \/ \E p \in PaymentsOf(o) : payment[p].status = "PROCESSING"
    \/ Unread("order.payment_results", o)

\* A restart of payment-service has cut short a payment posted over HTTP: its
\* replay check may have taken order.created for a replay of that payment.
CutShort(o) ==
    \E p \in 1..forgotten : payment[p].order = o /\ payment[p].by = "http"
                             /\ payment[p].status = "PROCESSING"

\* The payment of a CREATED order is under way, whatever payment the replay
\* check took for another and whenever payment-service restarts, unless a
\* publication was lost, the order's price is refused, or CutShort.
PaymentUnderWay ==
    lost = 0 => \A o \in Orders \ Free :
        order[o].status = "CREATED" => UnderWay(o) \/ CutShort(o)

\* A refund order-service asks for is not made for nothing: once it is made, the
\* order is cancelled, or forgotten, in the end.
RefundEndsOrder ==
    \A o \in Orders :
        (/\ order[o].payment_id \in DOMAIN payment
         /\ payment[order[o].payment_id].status = "REFUNDED"
         /\ ~payment[order[o].payment_id].byHand)
            ~> ("COMPENSATED" \in order[o].history \/ order[o].status = "GONE")

\* No order with a positive price waits for its payment for ever: the payment is
\* attempted, again after a restart of payment-service, and either outcome moves
\* the order on; unless a publication was lost, or CutShort.
PaymentResolves ==
    \A o \in Orders \ Free :
        order[o].status = "CREATED" ~> \/ order[o].status # "CREATED"
                                      \/ lost > 0
                                      \/ CutShort(o)

\* No message is poison and no wait is circular: the consumer thread, which a
\* refund blocks with its retries while every queue waits, always comes back,
\* and in the end every message has been acknowledged, also after a restart.
QueuesDrain == \A q \in Queues : []<>(queue[q] = <<>>)

-----------------------------------------------------------------------------
(* What the documentation says and the code does not do. *)

\* documentation/06-coherence-saga.md:50: before the restaurant has accepted,
\* a failure cancels the order with no effect on the customer.  When nothing
\* is under way any more, no payment of a cancelled order is left unreturned
\* unless the SAGA is flagged.
CancelledIsNotCharged ==
    (/\ \A q \in Queues : queue[q] = <<>>
     /\ \A c \in Threads : call[c].pc = "idle"
     /\ \A p \in Known : payment[p].status # "PROCESSING")
    => \A p \in DOMAIN payment : payment[p].status = "COMPLETED" =>
          LET r == order[payment[p].order] IN r.status = "CANCELLED" => "FAILED" \in r.history

\* payment-service/interfaces/events/handlers.py:36: a payment that is refused is
\* acknowledged because the SAGA continues, through the payment.failed already
\* published.  Then no order waits for its payment for ever.
SagaContinues == \A o \in Orders : order[o].status = "CREATED" ~> order[o].status # "CREATED"

\* documentation/06-coherence-saga.md:62: the orchestrator ignores the events
\* that do not match the current step; in its state machine (6.5) nothing
\* leaves ANNULEE.
CancelledIsFinal ==
    [][\A o \in Orders : order[o].status = "CANCELLED" =>
           order'[o].status \in {"CANCELLED", "GONE"}]_vars
=============================================================================
