-------------------------- MODULE OrderSaga_proofs --------------------------
(***************************************************************************)
(* Type correctness of OrderSaga, for any number of orders, HTTP threads,  *)
(* retries, lost publications and restarts of either service.              *)
(***************************************************************************)
EXTENDS OrderSaga, SequenceTheorems, TLAPS

PayQueue == queue["payment.process_payment"]

Results == queue["order.payment_results"]

OrderQueues == Queues \ {"payment.process_payment"}

-----------------------------------------------------------------------------
(* Values *)

\* The transitions of the breaker stay within its type.
LEMMA BreakerType ==
    ASSUME NEW b \in Breakers
    PROVE  /\ NewBreaker \in Breakers
           /\ Admitted(b) \in Breakers
           /\ OnSuccess(b) \in Breakers
           /\ OnFailure(b) \in Breakers
           /\ Elapsed(b) \in Breakers
<1> USE DEF Breakers, NewBreaker, CircuitState
<1>1. NewBreaker \in Breakers
  OBVIOUS
<1>2. Admitted(b) \in Breakers
  BY DEF Admitted, Reset
<1>3. OnSuccess(b) \in Breakers
  <2> DEFINE r == [b EXCEPT !.failures = 0]
             s == [r EXCEPT !.successes = @ + 1]
  <2>1. r \in Breakers
    OBVIOUS
  <2> HIDE DEF r
  <2>1a. s \in Breakers
    BY <2>1
  <2> USE DEF r
  <2>2. OnSuccess(b) \in {r, s, NewBreaker}
    BY DEF OnSuccess, Close
  <2> QED
    BY <1>1, <2>1, <2>1a, <2>2
<1>4. OnFailure(b) \in Breakers
  <2> DEFINE f == [b EXCEPT !.failures = @ + 1]
  <2>1. f \in Breakers
    OBVIOUS
  <2>2. Open(f) \in Breakers
    BY <2>1 DEF Open
  <2>3. OnFailure(b) \in {f, Open(f)}
    BY DEF OnFailure
  <2> QED
    BY <2>1, <2>2, <2>3
<1>5. Elapsed(b) \in Breakers
  BY DEF Elapsed
<1> QED
  BY <1>1, <1>2, <1>3, <1>4, <1>5

\* What a handler that takes an event goes on to do.
Begins == {To(s) : s \in InService \cup {"DELIVERED"}}
            \cup {[IdleCall EXCEPT !.pc = pc] : pc \in {"check", "cancel"}}

LEMMA BeginsType ==
    ASSUME NEW n \in Begins, NEW o \in Orders, NEW q \in Queues
    PROVE  LET r == [n EXCEPT !.order = o, !.on = q] IN
           /\ r \in CallRecord /\ r.order = o /\ r.on = q /\ r.attempts = 0
           /\ r.to = n.to /\ r.pc = n.pc /\ r.pc \in {"write", "check", "cancel"}
           /\ r.pc = "write" => r.to \in InService \cup {"DELIVERED"}
<1>0. 0 \in 0..(MaxRetries + 1)
  BY SagaAssumption DEF SagaAssumption
<1>1. /\ n \in CallRecord /\ n.attempts = 0 /\ n.pc \in {"write", "check", "cancel"}
      /\ n.pc = "write" => n.to \in InService \cup {"DELIVERED"}
  <2>1. ASSUME NEW s \in InService \cup {"DELIVERED"}, n = To(s)
        PROVE  /\ n \in CallRecord /\ n.attempts = 0 /\ n.pc = "write"
               /\ n.to \in InService \cup {"DELIVERED"}
    <3>1. n = [pc |-> "write", order |-> NoOne, to |-> s, on |-> NoOne, attempts |-> 0]
      BY <2>1 DEF To, IdleCall
    <3> QED
      BY <1>0, <2>1, <3>1 DEF CallRecord, InService, OrderStatus
  <2>2. ASSUME NEW pc \in {"check", "cancel"}, n = [IdleCall EXCEPT !.pc = pc]
        PROVE  n \in CallRecord /\ n.attempts = 0 /\ n.pc = pc
    <3>1. n = [pc |-> pc, order |-> NoOne, to |-> NoOne, on |-> NoOne, attempts |-> 0]
      BY <2>2 DEF IdleCall
    <3> QED
      BY <1>0, <3>1 DEF CallRecord
  <2> QED
    BY <2>1, <2>2 DEF Begins
<1> QED
  BY <1>1 DEF CallRecord

\* The steps of a call keep its record well typed, its order and its message.
LEMMA StepTypes ==
    ASSUME NEW r \in CallRecord
    PROVE  /\ \A pc \in {"note", "post", "answer", "cancel"} :
                LET n == [r EXCEPT !.pc = pc] IN
                    /\ n \in CallRecord /\ n.order = r.order /\ n.on = r.on
                    /\ n.attempts = r.attempts /\ n.pc = pc
           /\ r.attempts <= MaxRetries =>
                LET n == [r EXCEPT !.pc = "answer", !.attempts = @ + 1] IN
                    /\ n \in CallRecord /\ n.order = r.order /\ n.on = r.on
                    /\ n.attempts = r.attempts + 1 /\ n.pc = "answer"
<1>1. r.attempts <= MaxRetries => r.attempts + 1 \in 0..(MaxRetries + 1)
  BY SagaAssumption DEF SagaAssumption, CallRecord
<1>2. ASSUME NEW pc \in {"note", "post", "answer", "cancel"}
      PROVE  LET n == [r EXCEPT !.pc = pc] IN
                    /\ n \in CallRecord /\ n.order = r.order /\ n.on = r.on
                    /\ n.attempts = r.attempts /\ n.pc = pc
  BY DEF CallRecord
<1> DEFINE k == r.attempts + 1
<1>3. ASSUME k \in 0..(MaxRetries + 1)
      PROVE  LET n == [r EXCEPT !.pc = "answer", !.attempts = k] IN
                 /\ n \in CallRecord /\ n.order = r.order /\ n.on = r.on
                 /\ n.attempts = k /\ n.pc = "answer"
  <2> HIDE DEF k
  <2> QED
    BY <1>3 DEF CallRecord
<1> QED
  BY <1>1, <1>2, <1>3

-----------------------------------------------------------------------------
(* Queues *)

\* Publishing, under whatever key, keeps the queues well typed and never
\* changes a first message; it adds at most the message, to a queue bound to
\* its key.
LEMMA QueueType ==
    ASSUME NEW qs \in [Queues -> Seq(MessageRecord)], lost \in 0..MaxLost,
           NEW key, NEW o \in Orders, NEW p \in Nat, Publish(qs, Message(key, o, p))
    PROVE  queue' \in [Queues -> Seq(MessageRecord)] /\ lost' \in 0..MaxLost
<1> DEFINE m == Message(key, o, p)
<1>1. ASSUME NEW q \in Queues, m.key \in BoundKeys(q)
      PROVE  Append(qs[q], m) \in Seq(MessageRecord)
  <2>1. m \in MessageRecord
    BY <1>1 DEF Message, MessageRecord
  <2> HIDE DEF m
  <2> QED
    BY <1>1, <2>1
<1>2. Route(qs, m) \in [Queues -> Seq(MessageRecord)]
  BY <1>1 DEF Route
<1>3. lost' \in 0..MaxLost
  BY SagaAssumption DEF Publish, SagaAssumption
<1> QED
  BY <1>2, <1>3 DEF Publish

LEMMA PublishKeeps ==
    ASSUME NEW qs \in [Queues -> Seq(MessageRecord)], NEW m, Publish(qs, m), NEW q \in Queues
    PROVE  /\ qs[q] # <<>> => queue'[q] # <<>> /\ Head(queue'[q]) = Head(qs[q])
           /\ \/ queue'[q] = qs[q]
              \/ m.key \in BoundKeys(q) /\ queue'[q] = Append(qs[q], m)
<1>1. qs[q] # <<>> => Append(qs[q], m) # <<>> /\ Head(Append(qs[q], m)) = Head(qs[q])
  <2>1. Len(Append(qs[q], m)) = Len(qs[q]) + 1 /\ Len(qs[q]) \in Nat /\ Len(<<>>) = 0
    OBVIOUS
  <2>2. Append(qs[q], m) # <<>>
    BY <2>1
  <2> QED
    BY <2>2
<1>2. queue' = qs \/ queue' = Route(qs, m)
  BY DEF Publish
<1> QED
  BY <1>1, <1>2 DEF Route

LEMMA AckType ==
    ASSUME NEW q \in Queues, queue \in [Queues -> Seq(MessageRecord)], queue[q] # <<>>
    PROVE  /\ Ack(q) \in [Queues -> Seq(MessageRecord)]
           /\ Head(queue[q]) \in MessageRecord
           /\ Head(queue[q]).order \in Orders /\ Head(queue[q]).payment \in Nat
           /\ Ack(q)[q] = Tail(queue[q])
           /\ \A r \in Queues \ {q} : Ack(q)[r] = queue[r]
<1>1. Head(queue[q]) \in MessageRecord /\ Ack(q) \in [Queues -> Seq(MessageRecord)]
  BY DEF Ack
<1> QED
  BY <1>1 DEF MessageRecord, Ack

\* Every queue that had a first message still has it.
Kept(q) == queue[q] # <<>> => queue'[q] # <<>> /\ Head(queue'[q]) = Head(queue[q])

LEMMA PublishedKept ==
    ASSUME queue \in [Queues -> Seq(MessageRecord)], NEW m, Publish(queue, m)
    PROVE  \A q \in Queues : Kept(q)
BY PublishKeeps DEF Kept

-----------------------------------------------------------------------------
(* Payments *)

\* The refund leaves the list of payments well typed and the payments theirs.
LEMMA RefundedType ==
    ASSUME payment \in Seq(PaymentRecord), forgotten \in 0..Len(payment), NEW p, NEW byHand \in BOOLEAN
    PROVE  /\ Refunded(p, byHand) \in Seq(PaymentRecord)
           /\ Len(Refunded(p, byHand)) = Len(payment)
           /\ \A q \in DOMAIN payment :
                /\ Refunded(p, byHand)[q].order = payment[q].order
                /\ Refunded(p, byHand)[q].by = payment[q].by
                /\ q # p => Refunded(p, byHand)[q] = payment[q]
                /\ \/ Refunded(p, byHand)[q] = payment[q]
                   \/ /\ q = p /\ p \in Known /\ payment[q].status = "COMPLETED"
                      /\ Refunded(p, byHand)[q].status = "REFUNDED"
                      /\ Refunded(p, byHand)[q].byHand = byHand
           /\ p \in Known /\ payment[p].status = "COMPLETED" =>
                Refunded(p, byHand)[p].status = "REFUNDED"
<1> DEFINE e == [payment[p] EXCEPT !.status = "REFUNDED", !.byHand = byHand]
<1>0. Known \subseteq DOMAIN payment /\ DOMAIN payment = 1..Len(payment)
  BY DEF Known
<1>1. CASE p \in Known /\ payment[p].status = "COMPLETED"
  <2>1. p \in 1..Len(payment) /\ payment[p] \in PaymentRecord
    BY <1>0, <1>1
  <2>2. /\ e \in PaymentRecord /\ e.order = payment[p].order /\ e.by = payment[p].by
        /\ e.status = "REFUNDED" /\ e.byHand = byHand
    BY <2>1 DEF PaymentRecord, PaymentStatus
  <2>3. Refunded(p, byHand) = [payment EXCEPT ![p] = e]
    BY <1>1 DEF Refunded
  <2> HIDE DEF e
  <2> QED
    BY <1>1, <2>1, <2>2, <2>3, ExceptSeq
<1>2. CASE ~(p \in Known /\ payment[p].status = "COMPLETED")
  <2>1. Refunded(p, byHand) = payment
    BY <1>2 DEF Refunded
  <2> QED
    BY <1>2, <2>1
<1> QED
  BY <1>1, <1>2

\* Deciding a payment touches no other.
LEMMA DecidedPayments ==
    ASSUME payment \in Seq(PaymentRecord), NEW p \in DOMAIN payment, NEW failed, NEW qs,
           Decides(p, failed, qs)
    PROVE  /\ payment' \in Seq(PaymentRecord)
           /\ Len(payment') = Len(payment) /\ DOMAIN payment' = DOMAIN payment
           /\ p \in Nat \ {0} /\ payment[p].order \in Orders
           /\ \A q \in DOMAIN payment :
                /\ payment'[q].order = payment[q].order
                /\ payment'[q].by = payment[q].by
                /\ q # p => payment'[q] = payment[q]
           /\ payment'[p].byHand = payment[p].byHand
           /\ \E key : /\ Publish(qs, Message(key, payment[p].order, p))
                       /\ \/ payment'[p].status = "COMPLETED" /\ key = "payment.processed"
                          \/ payment'[p].status = "FAILED" /\ key = failed
<1>1. p \in 1..Len(payment) /\ payment[p] \in PaymentRecord /\ p \in Nat \ {0}
  OBVIOUS
<1>2. PICK ok \in BOOLEAN :
        /\ payment' = [payment EXCEPT ![p].status = IF ok THEN "COMPLETED" ELSE "FAILED"]
        /\ Publish(qs, Message(IF ok THEN "payment.processed" ELSE failed, payment[p].order, p))
  BY DEF Decides
<1> DEFINE e == [payment[p] EXCEPT !.status = IF ok THEN "COMPLETED" ELSE "FAILED"]
<1>3. /\ e \in PaymentRecord /\ e.order = payment[p].order /\ e.by = payment[p].by
      /\ e.byHand = payment[p].byHand
      /\ e.status = (IF ok THEN "COMPLETED" ELSE "FAILED") /\ payment[p].order \in Orders
  BY <1>1 DEF PaymentRecord, PaymentStatus
<1>4. payment' = [payment EXCEPT ![p] = e]
  BY <1>2
<1> HIDE DEF e
<1>5. /\ payment' \in Seq(PaymentRecord) /\ Len(payment') = Len(payment)
      /\ DOMAIN payment' = DOMAIN payment
      /\ payment'[p] = e /\ \A q \in DOMAIN payment : q # p => payment'[q] = payment[q]
  BY <1>1, <1>3, <1>4, ExceptSeq
<1>6. \E key : /\ Publish(qs, Message(key, payment[p].order, p))
               /\ \/ payment'[p].status = "COMPLETED" /\ key = "payment.processed"
                  \/ payment'[p].status = "FAILED" /\ key = failed
  <2>1. CASE ok = TRUE
    BY <1>2, <1>3, <1>5, <2>1
  <2>2. CASE ok = FALSE
    BY <1>2, <1>3, <1>5, <2>2
  <2> QED
    BY <2>1, <2>2
<1> QED
  BY <1>1, <1>3, <1>5, <1>6

\* What a payment that is begun adds.
LEMMA StartedPayment ==
    ASSUME payment \in Seq(PaymentRecord), NEW o \in Orders, NEW by \in {"consumer", "http"}
    PROVE  LET n == Len(payment) + 1 IN
           /\ Started(o, by) \in Seq(PaymentRecord) /\ Len(Started(o, by)) = n
           /\ \A p \in DOMAIN payment : Started(o, by)[p] = payment[p]
           /\ Started(o, by)[n] = NewPayment(o, by)
           /\ DOMAIN Started(o, by) = DOMAIN payment \cup {n} /\ n \notin DOMAIN payment
<1>1. NewPayment(o, by) \in PaymentRecord
  BY DEF NewPayment, PaymentRecord, PaymentStatus
<1> QED
  BY <1>1 DEF Started

\* A restart of order-service refunds, at most, completed payments of the
\* calls it interrupts.
LEMMA RestartedPayments ==
    ASSUME payment \in Seq(PaymentRecord), forgotten \in 0..Len(payment), RestartOrderService
    PROVE  /\ payment' \in Seq(PaymentRecord)
           /\ Len(payment') = Len(payment)
           /\ \A q \in DOMAIN payment :
                /\ payment'[q].order = payment[q].order
                /\ payment'[q].by = payment[q].by
                /\ \/ payment'[q] = payment[q]
                   \/ /\ payment[q].status = "COMPLETED" /\ payment'[q].status = "REFUNDED"
                      /\ q \in Known
                      /\ \E c \in Threads : /\ call[c].pc = "answer"
                                            /\ order[call[c].order].payment_id = q
<1>1. PICK sent \in SUBSET {c \in Threads : call[c].pc = "answer"} :
        payment' = [p \in DOMAIN payment |->
            IF \E c \in sent : order[call[c].order].payment_id = p
            THEN Refunded(p, FALSE)[p] ELSE payment[p]]
  BY DEF RestartOrderService
<1>2. ASSUME NEW q \in DOMAIN payment
      PROVE  /\ Refunded(q, FALSE)[q] \in PaymentRecord
             /\ Refunded(q, FALSE)[q].order = payment[q].order
             /\ Refunded(q, FALSE)[q].by = payment[q].by
             /\ \/ Refunded(q, FALSE)[q] = payment[q]
                \/ /\ q \in Known /\ payment[q].status = "COMPLETED"
                   /\ Refunded(q, FALSE)[q].status = "REFUNDED"
  <2>1. PICK r : r = Refunded(q, FALSE)
    OBVIOUS
  <2>1a. r \in Seq(PaymentRecord) /\ Len(r) = Len(payment)
    BY <2>1, RefundedType
  <2>1b. q \in 1..Len(r)
    BY <2>1a
  <2>1c. r[q] \in PaymentRecord
    BY <2>1a, <2>1b
  <2>2. Refunded(q, FALSE)[q] \in PaymentRecord
    BY <2>1, <2>1c
  <2> QED
    BY <2>2, RefundedType
<1>3. payment' \in [1..Len(payment) -> PaymentRecord]
  <2>1. DOMAIN payment = 1..Len(payment) /\ \A q \in DOMAIN payment : payment[q] \in PaymentRecord
    OBVIOUS
  <2> QED
    BY <1>1, <1>2, <2>1
<1>4. payment' \in Seq(PaymentRecord) /\ Len(payment') = Len(payment)
  BY <1>3
<1> QED
  BY <1>1, <1>2, <1>4

-----------------------------------------------------------------------------
(* Type correctness.  TypeOK is not inductive: an acknowledgement needs the
   message it acknowledges, and the count of attempts needs the retry loop's
   bound.  Bookkeeping adds that a thread keeps the message it is handling,
   which is about its order, and that only order-service's consumer thread
   handles messages and has a status to write. *)

Handling ==
    \A c \in Threads :
        /\ call[c].on # NoOne =>
               /\ c = Consumer /\ call[c].on \in OrderQueues
               /\ queue[call[c].on] # <<>>
               /\ Head(queue[call[c].on]).order = call[c].order
        /\ call[c].pc = "idle" => call[c].on = NoOne
        /\ call[c].pc = "write" =>
               /\ call[c].on # NoOne
               /\ call[c].to \in InService \cup {"DELIVERED"}
               /\ call[c].to = "PAID" <=> call[c].on = "order.payment_results"
        /\ call[c].pc = "note" => call[c].on = "order.payment_results"

Retrying ==
    \A c \in Threads :
        /\ call[c].pc = "post" => call[c].attempts <= MaxRetries
        /\ call[c].pc = "check" => call[c].attempts = 0

\* The payment payment-service's consumer processes is that of the message it
\* holds.
Paying ==
    /\ \A p, q \in InFlight : p = q
    /\ \A p \in InFlight : PayQueue # <<>> /\ Head(PayQueue).order = payment[p].order

Bookkeeping == Handling /\ Retrying /\ Paying

TypeInv == TypeOK /\ Bookkeeping

\* What TypeOK says of the threads, and of the queues.
CallsOK ==
    /\ call \in [Threads -> CallRecord]
    /\ \A c \in Threads : call[c].pc # "idle" => call[c].order \in Orders

Calls == CallsOK /\ Handling /\ Retrying

QueuesOK == queue \in [Queues -> Seq(MessageRecord)] /\ lost \in 0..MaxLost

PaymentsOK == payment \in Seq(PaymentRecord) /\ forgotten \in 0..Len(payment)

LEMMA TypeParts ==
    TypeInv => CallsOK /\ Calls /\ QueuesOK /\ PaymentsOK /\ Paying
BY DEF TypeInv, TypeOK, Bookkeeping, CallsOK, Calls, QueuesOK, PaymentsOK

\* No thread moves, and no message it handles goes away.
LEMMA CallsStay ==
    ASSUME Calls, UNCHANGED call, \A q \in OrderQueues : Kept(q)
    PROVE  Calls'
BY DEF Calls, CallsOK, Handling, Retrying, Kept

\* No payment begins, and the message that is being processed stays.
LEMMA PayingStays ==
    ASSUME PaymentsOK, PaymentsOK', Paying, Len(payment') = Len(payment), forgotten' >= forgotten,
           \A p \in DOMAIN payment :
               /\ payment'[p].order = payment[p].order /\ payment'[p].by = payment[p].by
               /\ payment'[p].status = "PROCESSING" => payment[p].status = "PROCESSING",
           Kept("payment.process_payment")
    PROVE  InFlight' \subseteq InFlight /\ Paying'
<1>1. Known' \subseteq Known /\ Known \subseteq DOMAIN payment
  BY DEF Known, PaymentsOK
<1>2. InFlight' \subseteq InFlight
  BY <1>1 DEF InFlight
<1> QED
  BY <1>1, <1>2 DEF Paying, Kept, PayQueue, InFlight

LEMMA SamePaying ==
    ASSUME Paying, UNCHANGED <<payment, forgotten>>, Kept("payment.process_payment")
    PROVE  Paying'
BY DEF Paying, InFlight, Known, Kept, PayQueue

\* A thread goes on with what it is doing.
LEMMA CallGoesOn ==
    ASSUME Calls, UNCHANGED queue, NEW c \in Threads, call[c].pc # "idle",
           NEW r \in CallRecord, call' = [call EXCEPT ![c] = r],
           r.order = call[c].order, r.on = call[c].on, r.pc \in {"note", "post", "answer", "cancel"},
           r.pc = "note" => call[c].on = "order.payment_results",
           r.pc = "post" => r.attempts <= MaxRetries
    PROVE  Calls'
BY DEF Calls, CallsOK, Handling, Retrying

\* A thread begins something.
LEMMA CallBegins ==
    ASSUME Calls, UNCHANGED queue, NEW c \in Threads,
           NEW r \in CallRecord, call' = [call EXCEPT ![c] = r], r.order \in Orders,
           r.pc \in {"write", "check", "cancel"}, r.attempts = 0,
           r.on # NoOne => /\ c = Consumer /\ r.on \in OrderQueues /\ queue[r.on] # <<>>
                           /\ Head(queue[r.on]).order = r.order,
           r.pc = "write" => /\ r.on # NoOne /\ r.to \in InService \cup {"DELIVERED"}
                             /\ r.to = "PAID" <=> r.on = "order.payment_results"
    PROVE  Calls'
BY DEF Calls, CallsOK, Handling, Retrying

LEMMA IdleType == /\ IdleCall \in CallRecord /\ IdleCall.pc = "idle" /\ IdleCall.on = NoOne
                  /\ IdleCall.order = NoOne
BY SagaAssumption DEF IdleCall, CallRecord, SagaAssumption

\* A thread is done, and so is the message it has handled.
LEMMA CallReturns ==
    ASSUME Calls, QueuesOK, NEW c \in Threads, call[c].pc # "idle", Returns(c)
    PROVE  /\ Calls'
           /\ queue' \in [Queues -> Seq(MessageRecord)]
           /\ PayQueue' = PayQueue
           /\ \/ Results' = Results /\ call[c].on # "order.payment_results"
              \/ /\ call[c].on = "order.payment_results" /\ Results # <<>>
                 /\ Results' = Tail(Results) /\ Head(Results).order = call[c].order
<1> USE DEF QueuesOK
<1>1. call' = [call EXCEPT ![c] = IdleCall]
  BY DEF Returns
<1>2. CASE call[c].on = NoOne
  <2>1. queue' = queue /\ NoOne \notin Queues
    BY <1>2 DEF Returns, NoOne, Queues
  <2>2. Calls'
    BY <1>1, <2>1, IdleType DEF Calls, CallsOK, Handling, Retrying
  <2> QED
    BY <1>2, <2>1, <2>2 DEF PayQueue, Results, NoOne
<1>3. CASE call[c].on # NoOne
  <2> DEFINE q == call[c].on
  <2>1. /\ c = Consumer /\ q \in OrderQueues /\ queue[q] # <<>> /\ Head(queue[q]).order = call[c].order
        /\ queue' = Ack(q)
    BY <1>3 DEF Calls, Handling, Returns
  <2>2. /\ Ack(q) \in [Queues -> Seq(MessageRecord)] /\ Ack(q)[q] = Tail(queue[q])
        /\ \A r \in Queues \ {q} : Ack(q)[r] = queue[r]
    BY <2>1, AckType DEF OrderQueues
  <2>3. \A d \in Threads : call'[d].on = NoOne
    BY <1>1, <2>1, IdleType DEF Calls, CallsOK, Handling
  <2>4. Calls'
    BY <1>1, <2>3, IdleType DEF Calls, CallsOK, Handling, Retrying, NoOne
  <2> QED
    BY <2>1, <2>2, <2>4 DEF PayQueue, Results, OrderQueues, Queues
<1> QED
  BY <1>2, <1>3

\* The parts of TypeOK that a step seldom touches.
Rest == /\ order \in [Orders -> OrderRecord]
        /\ breaker \in Breakers
        /\ told \in [Orders -> SUBSET RestaurantKeys]
        /\ delivery \in [Orders -> DeliveryStatus]
        /\ restarts \in [order : 0..MaxRestarts, payment : 0..MaxPaymentRestarts]

Whole == Calls /\ QueuesOK /\ PaymentsOK /\ Paying /\ Rest

LEMMA TypeIsWhole == TypeInv <=> Whole
BY DEF Whole, Rest, TypeInv, TypeOK, Bookkeeping, CallsOK, Calls, QueuesOK, PaymentsOK

\* Each event handler of OrderService takes the messages of one queue and key.
LEMMA TakesType ==
    ASSUME Whole, NEW q \in OrderQueues, NEW key, NEW from, NEW next \in Begins,
           next.pc = "write" => (next.to = "PAID" <=> q = "order.payment_results"),
           Takes(q, key, from, next)
    PROVE  Whole'
<1> DEFINE m == Head(queue[q])
<1>1. call[Consumer].pc = "idle" /\ queue[q] # <<>> /\ q \in Queues
  BY DEF Takes, Receives, OrderQueues
<1>2. /\ Ack(q) \in [Queues -> Seq(MessageRecord)] /\ m.order \in Orders
      /\ \A r \in Queues \ {q} : Ack(q)[r] = queue[r]
  BY <1>1, AckType DEF Whole, QueuesOK
<1>3. UNCHANGED <<order, breaker, payment, forgotten, told, delivery, lost, restarts>>
  BY DEF Takes
<1>4. CASE queue' = Ack(q) /\ call' = call
  <2>1. \A d \in Threads : call[d].on = NoOne
    BY <1>1 DEF Whole, Calls, Handling
  <2>2. Calls'
    BY <1>4, <2>1 DEF Whole, Calls, CallsOK, Handling, Retrying
  <2>3. QueuesOK' /\ PaymentsOK' /\ Rest'
    BY <1>2, <1>3, <1>4 DEF Whole, QueuesOK, PaymentsOK, Rest
  <2>4. Kept("payment.process_payment")
    BY <1>2, <1>4 DEF Kept, OrderQueues, Queues
  <2> QED
    BY <1>3, <2>2, <2>3, <2>4, SamePaying DEF Whole
<1>5. CASE queue' = queue /\ call' = [call EXCEPT ![Consumer] = [next EXCEPT !.order = m.order, !.on = q]]
  <2> DEFINE r == [next EXCEPT !.order = m.order, !.on = q]
  <2>1. /\ r \in CallRecord /\ r.order = m.order /\ r.on = q /\ r.attempts = 0
        /\ r.to = next.to /\ r.pc = next.pc /\ r.pc \in {"write", "check", "cancel"}
        /\ r.pc = "write" => r.to \in InService \cup {"DELIVERED"}
    BY <1>1, <1>2, BeginsType
  <2>2. Consumer \in Threads /\ q # NoOne
    BY <1>1 DEF Threads, Queues, NoOne
  <2>3. call' = [call EXCEPT ![Consumer] = r]
    BY <1>5
  <2> HIDE DEF r
  <2>4. Calls'
    BY <1>1, <1>2, <1>5, <2>1, <2>2, <2>3, CallBegins DEF Whole
  <2>5. Kept("payment.process_payment")
    BY <1>5 DEF Kept
  <2> QED
    BY <1>3, <1>5, <2>4, <2>5, SamePaying DEF Whole, QueuesOK, PaymentsOK, Rest
<1> QED
  BY <1>4, <1>5 DEF Takes

LEMMA ConsumeType ==
    ASSUME Whole, Consume
    PROVE  Whole'
<1> DEFINE cancels == [IdleCall EXCEPT !.pc = "cancel"]
           checks == [IdleCall EXCEPT !.pc = "check"]
<1>1. /\ \A s \in InService \cup {"DELIVERED"} : To(s) \in Begins /\ To(s).to = s
      /\ cancels \in Begins /\ checks \in Begins
      /\ cancels.pc = "cancel" /\ checks.pc = "check"
  BY DEF Begins, To, IdleCall
<1>2. {"order.payment_results", "order.restaurant_updates", "order.delivery_updates"} \subseteq OrderQueues
  BY DEF OrderQueues, Queues
<1> HIDE DEF cancels, checks
<1>3. CASE OnPaymentProcessed
  BY <1>1, <1>2, <1>3, TakesType DEF OnPaymentProcessed, InService
<1>4. CASE OnPaymentFailed
  <2>1. Takes("order.payment_results", "payment.failed", Existing \ {"CANCELLED"}, cancels)
    BY <1>4 DEF OnPaymentFailed, cancels
  <2> QED
    BY <1>1, <1>2, <2>1, TakesType
<1>5. CASE OnOrderRejected
  <2>1. Takes("order.restaurant_updates", "OrderRejected", Existing \ {"CANCELLED"}, checks)
    BY <1>5 DEF OnOrderRejected, checks
  <2> QED
    BY <1>1, <1>2, <2>1, TakesType
<1>6. CASE OnOrderAccepted
  BY <1>1, <1>2, <1>6, TakesType DEF OnOrderAccepted, InService
<1>7. CASE OnOrderPreparing
  BY <1>1, <1>2, <1>7, TakesType DEF OnOrderPreparing, InService
<1>8. CASE OnOrderReady
  BY <1>1, <1>2, <1>8, TakesType DEF OnOrderReady, InService
<1>9. CASE OnDeliveryAssigned
  BY <1>1, <1>2, <1>9, TakesType DEF OnDeliveryAssigned, InService
<1>10. CASE OnDeliveryInProgress
  BY <1>1, <1>2, <1>10, TakesType DEF OnDeliveryInProgress, InService
<1>11. CASE OnDeliveryCompleted
  BY <1>1, <1>2, <1>11, TakesType DEF OnDeliveryCompleted
<1> QED
  BY <1>3, <1>4, <1>5, <1>6, <1>7, <1>8, <1>9, <1>10, <1>11 DEF Consume

\* Outcomes are only added to the history of an order, and its status written.
LEMMA OrderWrites ==
    ASSUME order \in [Orders -> OrderRecord], NEW o \in Orders
    PROVE  /\ \A s \in OrderStatus : [order EXCEPT ![o].status = s] \in [Orders -> OrderRecord]
           /\ \A p \in Nat : [order EXCEPT ![o].payment_id = p] \in [Orders -> OrderRecord]
           /\ [order EXCEPT ![o].history = @ \cup {"FAILED"}] \in [Orders -> OrderRecord]
           /\ [order EXCEPT ![o].status = "CANCELLED", ![o].history = @ \cup {"COMPENSATED"}]
                 \in [Orders -> OrderRecord]
<1>1. order[o] \in OrderRecord
  OBVIOUS
<1>2. \A s \in OrderStatus : [order EXCEPT ![o].status = s] \in [Orders -> OrderRecord]
  BY <1>1 DEF OrderRecord
<1>3. \A p \in Nat : [order EXCEPT ![o].payment_id = p] \in [Orders -> OrderRecord]
  BY <1>1 DEF OrderRecord
<1> DEFINE h == order[o].history \cup {"FAILED"}
           k == order[o].history \cup {"COMPENSATED"}
           r == [order[o] EXCEPT !.history = h]
           n == [order[o] EXCEPT !.status = "CANCELLED", !.history = k]
<1>4. h \in SUBSET Outcomes /\ k \in SUBSET Outcomes
  BY <1>1 DEF OrderRecord, Outcomes
<1>5. r \in OrderRecord /\ n \in OrderRecord
  <2> HIDE DEF h, k
  <2> QED
    BY <1>1, <1>4 DEF OrderRecord, OrderStatus
<1>6. /\ [order EXCEPT ![o].history = @ \cup {"FAILED"}] = [order EXCEPT ![o] = r]
      /\ [order EXCEPT ![o].status = "CANCELLED", ![o].history = @ \cup {"COMPENSATED"}]
            = [order EXCEPT ![o] = n]
  OBVIOUS
<1> HIDE DEF r, n
<1> QED
  BY <1>2, <1>3, <1>5, <1>6

LEMMA RefundFailedType ==
    ASSUME Whole, NEW c \in Threads, call[c].pc \in {"post", "answer"}, RefundFailed(c), UNCHANGED queue
    PROVE  Calls' /\ order' \in [Orders -> OrderRecord]
<1> DEFINE r == [call[c] EXCEPT !.pc = "cancel"]
<1>1. call[c] \in CallRecord /\ call[c].order \in Orders
  BY DEF Whole, Calls, CallsOK
<1>2. r \in CallRecord /\ r.order = call[c].order /\ r.on = call[c].on /\ r.pc = "cancel"
  BY <1>1, StepTypes
<1>3. call' = [call EXCEPT ![c] = r]
  BY DEF RefundFailed
<1>4. order' \in [Orders -> OrderRecord]
  BY <1>1, OrderWrites DEF RefundFailed, Whole, Rest
<1> HIDE DEF r
<1> QED
  BY <1>2, <1>3, <1>4, CallGoesOn DEF Whole

\* A refund request leaves the payments as they are or has one refunded.
LEMMA AnswerPays ==
    ASSUME Whole, NEW p, NEW b \in BOOLEAN, payment' \in {payment, Refunded(p, b)},
           UNCHANGED <<forgotten, queue>>
    PROVE  PaymentsOK' /\ Paying' /\ InFlight' \subseteq InFlight
<1>1. /\ payment' \in Seq(PaymentRecord) /\ Len(payment') = Len(payment)
      /\ \A q \in DOMAIN payment :
               /\ payment'[q].order = payment[q].order /\ payment'[q].by = payment[q].by
               /\ payment'[q].status = "PROCESSING" => payment[q].status = "PROCESSING"
  <2>1. CASE payment' = payment
    BY <2>1 DEF Whole, PaymentsOK
  <2>2. CASE payment' = Refunded(p, b)
    BY <2>2, RefundedType DEF Whole, PaymentsOK
  <2> QED
    BY <2>1, <2>2
<1>2. forgotten' >= forgotten
  BY DEF Whole, PaymentsOK
<1>3. Kept("payment.process_payment")
  BY DEF Kept
<1>4. PaymentsOK'
  BY <1>1 DEF Whole, PaymentsOK
<1> QED
  BY <1>1, <1>2, <1>3, <1>4, PayingStays DEF Whole

LEMMA ProceedType ==
    ASSUME Whole, NEW c \in Threads, Proceed(c)
    PROVE  Whole'
<1>t. /\ call[c] \in CallRecord /\ order \in [Orders -> OrderRecord]
      /\ call[c].pc # "idle" => call[c].order \in Orders
  BY DEF Whole, Calls, CallsOK, Rest
<1>k. queue' = queue => Kept("payment.process_payment")
  BY DEF Kept
<1>1. CASE WriteStatus(c)
  <2>1. /\ call[c].pc = "write" /\ call[c].to \in InService \cup {"DELIVERED"}
        /\ order' = [order EXCEPT ![call[c].order].status = call[c].to]
        /\ UNCHANGED <<breaker, payment, forgotten, told, delivery, lost, restarts>>
    BY <1>1 DEF WriteStatus, Whole, Calls, Handling
  <2>2. call[c].to \in OrderStatus
    BY <2>1 DEF InService, OrderStatus
  <2>3. order' \in [Orders -> OrderRecord]
    BY <1>t, <2>1, <2>2, OrderWrites
  <2>4. CASE call[c].to = "PAID"
    <3> DEFINE r == [call[c] EXCEPT !.pc = "note"]
    <3>1. /\ r \in CallRecord /\ r.order = call[c].order /\ r.on = call[c].on /\ r.pc = "note"
          /\ call[c].on = "order.payment_results"
      BY <1>t, <2>1, <2>4, StepTypes DEF Whole, Calls, Handling
    <3>2. call' = [call EXCEPT ![c] = r] /\ queue' = queue
      BY <1>1, <2>4 DEF WriteStatus
    <3> HIDE DEF r
    <3>3. Calls'
      BY <2>1, <3>1, <3>2, CallGoesOn DEF Whole
    <3> QED
      BY <1>k, <2>1, <2>3, <3>2, <3>3, SamePaying DEF Whole, QueuesOK, PaymentsOK, Rest
  <2>5. CASE call[c].to # "PAID"
    <3>1. Returns(c)
      BY <1>1, <2>5 DEF WriteStatus
    <3>2. /\ Calls' /\ queue' \in [Queues -> Seq(MessageRecord)] /\ PayQueue' = PayQueue
      BY <2>1, <3>1, CallReturns DEF Whole
    <3>3. Paying'
      BY <2>1, <3>2, SamePaying DEF Whole, Kept, PayQueue
    <3> QED
      BY <2>1, <2>3, <3>2, <3>3 DEF Whole, QueuesOK, PaymentsOK, Rest
  <2> QED
    BY <2>4, <2>5
<1>2. CASE NotePayment(c)
  <2>1. /\ call[c].pc = "note" /\ call[c].on = "order.payment_results" /\ queue[call[c].on] # <<>>
        /\ order' = [order EXCEPT ![call[c].order].payment_id = Head(queue[call[c].on]).payment]
        /\ UNCHANGED <<breaker, payment, forgotten, told, delivery, lost, restarts>>
        /\ Returns(c)
    BY <1>2 DEF NotePayment, Whole, Calls, Handling, NoOne
  <2>2. Head(queue[call[c].on]).payment \in Nat
    BY <2>1, AckType DEF Whole, QueuesOK, Queues
  <2>3. order' \in [Orders -> OrderRecord]
    BY <1>t, <2>1, <2>2, OrderWrites
  <2>4. /\ Calls' /\ queue' \in [Queues -> Seq(MessageRecord)] /\ PayQueue' = PayQueue
    BY <2>1, CallReturns DEF Whole
  <2>5. Paying'
    BY <2>1, <2>4, SamePaying DEF Whole, Kept, PayQueue
  <2> QED
    BY <2>1, <2>3, <2>4, <2>5 DEF Whole, QueuesOK, PaymentsOK, Rest
<1>3. CASE CheckPayment(c)
  <2> DEFINE pc == IF order[call[c].order].payment_id # 0 THEN "post" ELSE "cancel"
             r == [call[c] EXCEPT !.pc = pc]
  <2>1. /\ call[c].pc = "check" /\ call' = [call EXCEPT ![c] = r] /\ call[c].attempts = 0
        /\ UNCHANGED <<order, breaker, payment, forgotten, queue, told, delivery, lost, restarts>>
    BY <1>3 DEF CheckPayment, Whole, Calls, Retrying
  <2>1a. pc \in {"post", "cancel"}
    OBVIOUS
  <2> HIDE DEF pc
  <2>2. /\ r \in CallRecord /\ r.order = call[c].order /\ r.on = call[c].on /\ r.pc \in {"post", "cancel"}
        /\ r.attempts = 0
    <3>1. PICK n \in CallRecord : n = call[c]
      BY <1>t
    <3>2. r = [n EXCEPT !.pc = pc] /\ n.attempts = 0
      BY <2>1, <3>1
    <3> QED
      BY <2>1a, <3>1, <3>2 DEF CallRecord
  <2>2a. 0 <= MaxRetries
    BY SagaAssumption DEF SagaAssumption
  <2> HIDE DEF r
  <2>3. Calls'
    BY <2>1, <2>2, <2>2a, CallGoesOn DEF Whole
  <2> QED
    BY <1>k, <2>1, <2>3, SamePaying DEF Whole, QueuesOK, PaymentsOK, Rest
<1>4. CASE PostRefund(c)
  <2>1. /\ call[c].pc = "post" /\ call[c].attempts <= MaxRetries
        /\ UNCHANGED <<payment, forgotten, queue, told, delivery, lost, restarts>>
    BY <1>4 DEF PostRefund, Posts, Whole, Calls, Retrying
  <2>2. breaker' \in Breakers
    BY <1>4, BreakerType DEF PostRefund, Posts, Whole, Rest
  <2>3. Calls' /\ order' \in [Orders -> OrderRecord]
    <3>1. CASE RefundFailed(c)
      BY <2>1, <3>1, RefundFailedType
    <3>2. CASE /\ order' = order
               /\ call' = [call EXCEPT ![c].pc = "answer", ![c].attempts = @ + 1]
      <4> DEFINE r == [call[c] EXCEPT !.pc = "answer", !.attempts = @ + 1]
      <4>1. r \in CallRecord /\ r.order = call[c].order /\ r.on = call[c].on /\ r.pc = "answer"
        BY <1>t, <2>1, StepTypes
      <4>2. call' = [call EXCEPT ![c] = r]
        BY <3>2
      <4> HIDE DEF r
      <4> QED
        BY <1>t, <2>1, <3>2, <4>1, <4>2, CallGoesOn DEF Whole
    <3> QED
      BY <1>4, <3>1, <3>2 DEF PostRefund, Posts
  <2> QED
    BY <1>k, <2>1, <2>2, <2>3, SamePaying DEF Whole, QueuesOK, PaymentsOK, Rest
<1>5. CASE RefundAnswered(c)
  <2> DEFINE r == [call[c] EXCEPT !.pc = "cancel"]
  <2>1. /\ call[c].pc = "answer" /\ call' = [call EXCEPT ![c] = r]
        /\ payment' = Refunded(order[call[c].order].payment_id, FALSE) /\ breaker' = OnSuccess(breaker)
        /\ UNCHANGED <<order, forgotten, queue, told, delivery, lost, restarts>>
    BY <1>5 DEF RefundAnswered, Answered
  <2>2. r \in CallRecord /\ r.order = call[c].order /\ r.on = call[c].on /\ r.pc = "cancel"
    BY <1>t, <2>1, StepTypes
  <2> HIDE DEF r
  <2>3. Calls'
    BY <2>1, <2>2, CallGoesOn DEF Whole
  <2>4. PaymentsOK' /\ Paying'
    BY <2>1, AnswerPays
  <2> QED
    BY <2>1, <2>3, <2>4, BreakerType DEF Whole, QueuesOK, Rest
<1>6. CASE RefundUnanswered(c)
  <2>1. /\ call[c].pc = "answer" /\ breaker' = OnFailure(breaker)
        /\ payment' \in {payment, Refunded(order[call[c].order].payment_id, FALSE)}
        /\ UNCHANGED <<forgotten, queue, told, delivery, lost, restarts>>
    BY <1>6 DEF RefundUnanswered, Unanswered
  <2>2. PaymentsOK' /\ Paying'
    BY <2>1, AnswerPays
  <2>3. Calls' /\ order' \in [Orders -> OrderRecord]
    <3>1. CASE RefundFailed(c)
      BY <2>1, <3>1, RefundFailedType
    <3>2. CASE /\ order' = order /\ call[c].attempts <= MaxRetries
               /\ call' = [call EXCEPT ![c].pc = "post"]
      <4> DEFINE r == [call[c] EXCEPT !.pc = "post"]
      <4>1. /\ r \in CallRecord /\ r.order = call[c].order /\ r.on = call[c].on /\ r.pc = "post"
            /\ r.attempts <= MaxRetries
        BY <1>t, <3>2, StepTypes
      <4>2. call' = [call EXCEPT ![c] = r]
        BY <3>2
      <4> HIDE DEF r
      <4> QED
        BY <1>t, <2>1, <3>2, <4>1, <4>2, CallGoesOn DEF Whole
    <3> QED
      BY <1>6, <3>1, <3>2 DEF RefundUnanswered, Unanswered
  <2> QED
    BY <2>1, <2>2, <2>3, BreakerType DEF Whole, QueuesOK, Rest
<1>7. CASE FinishCancel(c)
  <2>1. /\ call[c].pc = "cancel" /\ Returns(c)
        /\ order' = [order EXCEPT ![call[c].order].status = "CANCELLED",
                                  ![call[c].order].history = @ \cup {"COMPENSATED"}]
        /\ UNCHANGED <<breaker, payment, forgotten, told, delivery, lost, restarts>>
    BY <1>7 DEF FinishCancel
  <2>2. order' \in [Orders -> OrderRecord]
    BY <1>t, <2>1, OrderWrites
  <2>3. /\ Calls' /\ queue' \in [Queues -> Seq(MessageRecord)] /\ PayQueue' = PayQueue
    BY <2>1, CallReturns DEF Whole
  <2>4. Paying'
    BY <2>1, <2>3, SamePaying DEF Whole, Kept, PayQueue
  <2> QED
    BY <2>1, <2>2, <2>3, <2>4 DEF Whole, QueuesOK, PaymentsOK, Rest
<1> QED
  BY <1>1, <1>2, <1>3, <1>4, <1>5, <1>6, <1>7 DEF Proceed

\* Somebody publishes, and nothing moves but the queues.
LEMMA PublishedType ==
    ASSUME Whole, NEW key, NEW o \in Orders, Publish(queue, Message(key, o, 0)),
           UNCHANGED <<call, payment, forgotten>>
    PROVE  Calls' /\ QueuesOK' /\ PaymentsOK' /\ Paying'
<1>1. QueuesOK'
  BY QueueType DEF Whole, QueuesOK
<1>2. \A q \in Queues : Kept(q)
  BY PublishedKept DEF Whole, QueuesOK
<1>3. Calls'
  BY <1>2, CallsStay DEF Whole, OrderQueues
<1>4. Paying'
  BY <1>2, SamePaying DEF Whole, Queues
<1> QED
  BY <1>1, <1>3, <1>4 DEF Whole, PaymentsOK

LEMMA OrderServiceType ==
    ASSUME Whole
    PROVE  /\ \A o \in Orders : CreateOrder(o) => Whole'
           /\ \A c \in Clients, o \in Orders : CancelOrder(c, o) => Whole'
           /\ RecoveryTimeout => Whole'
           /\ RestartOrderService => Whole'
<1>1. ASSUME NEW o \in Orders, CreateOrder(o) PROVE Whole'
  <2>1. order' \in [Orders -> OrderRecord]
    BY <1>1, OrderWrites DEF CreateOrder, Whole, Rest, OrderStatus
  <2> QED
    BY <1>1, <2>1, PublishedType DEF CreateOrder, Whole, Rest
<1>2. ASSUME NEW c \in Clients, NEW o \in Orders, CancelOrder(c, o) PROVE Whole'
  <2> DEFINE r == [IdleCall EXCEPT !.pc = "check", !.order = o]
  <2>1. /\ r \in CallRecord /\ r.order = o /\ r.pc = "check" /\ r.attempts = 0 /\ r.on = NoOne
    <3>1. PICK n \in CallRecord : n = IdleCall /\ n.attempts = 0 /\ n.on = NoOne
      BY IdleType DEF IdleCall
    <3>2. r = [n EXCEPT !.pc = "check", !.order = o]
      BY <3>1
    <3> QED
      BY <3>1, <3>2 DEF CallRecord
  <2>2. call' = [call EXCEPT ![c] = r] /\ c \in Threads
    BY <1>2 DEF CancelOrder, Threads
  <2>3. UNCHANGED <<order, breaker, payment, forgotten, queue, told, delivery, lost, restarts>>
    BY <1>2 DEF CancelOrder
  <2> HIDE DEF r
  <2>4. Calls'
    BY <2>1, <2>2, <2>3, CallBegins DEF Whole
  <2>5. Kept("payment.process_payment")
    BY <2>3 DEF Kept
  <2> QED
    BY <2>3, <2>4, <2>5, SamePaying DEF Whole, QueuesOK, PaymentsOK, Rest
<1>3. ASSUME RecoveryTimeout PROVE Whole'
  <2>1. /\ UNCHANGED <<order, call, payment, forgotten, queue, told, delivery, lost, restarts>>
        /\ breaker' = Elapsed(breaker)
    BY <1>3 DEF RecoveryTimeout
  <2>2. \A q \in Queues : Kept(q)
    BY <2>1 DEF Kept
  <2>3. Calls' /\ Paying'
    BY <2>1, <2>2, CallsStay, SamePaying DEF Whole, OrderQueues, Queues
  <2> QED
    BY <2>1, <2>3, BreakerType DEF Whole, QueuesOK, PaymentsOK, Rest
<1>4. ASSUME RestartOrderService PROVE Whole'
  <2>1. order' \in [Orders -> OrderRecord]
    <3>1. [NoOrder EXCEPT !.status = "GONE"] \in OrderRecord
      BY DEF NoOrder, OrderRecord, OrderStatus
    <3> QED
      BY <1>4, <3>1 DEF RestartOrderService, Whole, Rest
  <2>2. call' = [c \in Threads |-> IdleCall]
    BY <1>4 DEF RestartOrderService
  <2>3. Calls'
    BY <2>2, IdleType DEF Calls, CallsOK, Handling, Retrying
  <2>4. /\ payment' \in Seq(PaymentRecord) /\ Len(payment') = Len(payment)
        /\ \A p \in DOMAIN payment :
               /\ payment'[p].order = payment[p].order /\ payment'[p].by = payment[p].by
               /\ payment'[p].status = "PROCESSING" => payment[p].status = "PROCESSING"
    BY <1>4, RestartedPayments DEF Whole, PaymentsOK
  <2>5. /\ UNCHANGED <<forgotten, queue, told, delivery, lost>> /\ breaker' = NewBreaker
        /\ restarts' = [restarts EXCEPT !.order = @ + 1] /\ restarts.order < MaxRestarts
    BY <1>4 DEF RestartOrderService
  <2>6. PaymentsOK' /\ forgotten' >= forgotten /\ Kept("payment.process_payment")
    BY <2>4, <2>5 DEF Whole, PaymentsOK, Kept
  <2>7. Paying'
    BY <2>4, <2>6, PayingStays DEF Whole
  <2>8. restarts' \in [order : 0..MaxRestarts, payment : 0..MaxPaymentRestarts]
    <3> DEFINE k == restarts.order + 1
    <3>1. k \in 0..MaxRestarts
      BY <2>5, SagaAssumption DEF SagaAssumption, Whole, Rest
    <3>2. restarts' = [restarts EXCEPT !.order = k]
      BY <2>5
    <3> HIDE DEF k
    <3> QED
      BY <3>1, <3>2 DEF Whole, Rest
  <2>9. breaker' \in Breakers
    BY <2>5, BreakerType DEF Whole, Rest
  <2> QED
    BY <2>1, <2>3, <2>5, <2>6, <2>7, <2>8, <2>9 DEF Whole, QueuesOK, Rest
<1> QED
  BY <1>1, <1>2, <1>3, <1>4

LEMMA StartType ==
    ASSUME Whole, NEW o \in Orders, NEW by \in {"consumer", "http"}, payment' = Started(o, by),
           by = "consumer" => InFlight = {} /\ PayQueue # <<>> /\ Head(PayQueue).order = o,
           UNCHANGED <<order, call, breaker, forgotten, queue, told, delivery, lost, restarts>>
    PROVE  Whole'
<1> DEFINE n == Len(payment) + 1
<1>1. /\ payment' \in Seq(PaymentRecord) /\ Len(payment') = n
      /\ \A p \in DOMAIN payment : payment'[p] = payment[p]
      /\ payment'[n].order = o /\ payment'[n].by = by
      /\ DOMAIN payment' = DOMAIN payment \cup {n} /\ n \notin DOMAIN payment
  <2>1. NewPayment(o, by).order = o /\ NewPayment(o, by).by = by
    BY DEF NewPayment
  <2>2. payment \in Seq(PaymentRecord)
    BY DEF Whole, PaymentsOK
  <2> QED
    BY <2>1, <2>2, StartedPayment
<1>2. PaymentsOK'
  BY <1>1 DEF Whole, PaymentsOK
<1>3. Known' = Known \cup {n} /\ Known \subseteq DOMAIN payment /\ n \notin Known
  BY <1>1 DEF Known, Whole, PaymentsOK
<1>4. Paying'
  <2>1. CASE by = "http"
    <3>1. InFlight' = InFlight
      BY <1>1, <1>3, <2>1 DEF InFlight
    <3> QED
      BY <1>1, <1>3, <3>1 DEF Whole, Paying, PayQueue, InFlight
  <2>2. CASE by = "consumer"
    <3>1. InFlight' \subseteq {n}
      BY <1>1, <1>3, <2>2 DEF InFlight
    <3> QED
      BY <1>1, <2>2, <3>1 DEF Paying, PayQueue
  <2> QED
    BY <2>1, <2>2
<1>5. Calls'
  BY CallsStay DEF Whole, Kept
<1> QED
  BY <1>2, <1>4, <1>5 DEF Whole, QueuesOK, Rest

LEMMA PayAck ==
    ASSUME Whole, PayQueue # <<>>
    PROVE  /\ Ack("payment.process_payment") \in [Queues -> Seq(MessageRecord)]
           /\ Head(PayQueue).order \in Orders
           /\ Ack("payment.process_payment")["payment.process_payment"] = Tail(PayQueue)
           /\ \A q \in OrderQueues : Ack("payment.process_payment")[q] = queue[q]
<1>1. "payment.process_payment" \in Queues
  BY DEF Queues
<1> QED
  BY <1>1, AckType DEF Whole, QueuesOK, PayQueue, OrderQueues

\* The payment that is settled was in process, and if the consumer's, its
\* message is acknowledged.
LEMMA SettlesType ==
    ASSUME Whole, NEW p \in DOMAIN payment, NEW failed, Settles(p, failed)
    PROVE  /\ Whole'
           /\ payment[p].by = "consumer" => PayQueue # <<>> /\ p \in InFlight /\ InFlight' = {}
           /\ InFlight' \subseteq InFlight
<1> DEFINE qs == IF payment[p].by = "consumer" THEN Ack("payment.process_payment") ELSE queue
<1>1. /\ p \in Known /\ payment[p].status = "PROCESSING" /\ Decides(p, failed, qs)
      /\ UNCHANGED <<order, call, breaker, forgotten, told, delivery, restarts>>
  BY DEF Settles
<1>2. payment \in Seq(PaymentRecord) /\ forgotten \in 0..Len(payment)
  BY DEF Whole, PaymentsOK
<1>3. PICK key :
          /\ payment' \in Seq(PaymentRecord) /\ Len(payment') = Len(payment)
          /\ p \in Nat /\ payment[p].order \in Orders
          /\ \A q \in DOMAIN payment :
                /\ payment'[q].order = payment[q].order /\ payment'[q].by = payment[q].by
                /\ q # p => payment'[q] = payment[q]
          /\ Publish(qs, Message(key, payment[p].order, p))
          /\ payment'[p].status \in {"COMPLETED", "FAILED"}
  BY <1>1, <1>2, DecidedPayments
<1>4. payment[p].by = "consumer" => PayQueue # <<>> /\ p \in InFlight
  BY <1>1 DEF InFlight, Whole, Paying
<1>5. qs \in [Queues -> Seq(MessageRecord)] /\ \A q \in OrderQueues : qs[q] = queue[q]
  BY <1>4, PayAck DEF Whole, QueuesOK
<1>6. QueuesOK'
  BY <1>3, <1>5, QueueType DEF Whole, QueuesOK
<1>7. \A q \in OrderQueues : Kept(q)
  BY <1>3, <1>5, PublishKeeps DEF Kept, OrderQueues
<1>8. Calls'
  BY <1>1, <1>7, CallsStay DEF Whole
<1>9. PaymentsOK'
  BY <1>1, <1>3 DEF Whole, PaymentsOK
<1>10. Known' = Known /\ Known \subseteq DOMAIN payment
  BY <1>1, <1>2, <1>3 DEF Known
<1>11. InFlight' \subseteq InFlight /\ p \notin InFlight'
  BY <1>3, <1>10 DEF InFlight
<1>12. payment[p].by = "consumer" => InFlight' = {}
  BY <1>4, <1>11 DEF Whole, Paying
<1>13. Paying'
  <2>1. CASE payment[p].by = "consumer"
    BY <1>12, <2>1 DEF Paying
  <2>2. CASE payment[p].by # "consumer"
    <3>1. Kept("payment.process_payment")
      BY <1>3, <1>5, <2>2, PublishKeeps DEF Kept, Queues
    <3> QED
      BY <1>3, <1>10, <1>11, <3>1 DEF Whole, Paying, Kept, PayQueue, InFlight
  <2> QED
    BY <2>1, <2>2
<1> QED
  BY <1>1, <1>4, <1>6, <1>8, <1>9, <1>11, <1>12, <1>13 DEF Whole, Rest

\* A restart of payment-service may decide the payment its consumer processes,
\* and forgets them all.
LEMMA PaymentRestarts ==
    ASSUME Whole, RestartPaymentService
    PROVE  /\ Whole' /\ InFlight' = {} /\ forgotten' = Len(payment) /\ Len(payment') = Len(payment)
           /\ UNCHANGED <<order, call>> /\ PayQueue' = PayQueue
           /\ \/ UNCHANGED <<payment, queue, lost>>
              \/ \E p \in InFlight : Decides(p, "payment.failed", queue)
<1>1. /\ UNCHANGED <<order, call, breaker, told, delivery>> /\ forgotten' = Len(payment)
      /\ restarts' = [restarts EXCEPT !.payment = @ + 1] /\ restarts.payment < MaxPaymentRestarts
      /\ \/ UNCHANGED <<payment, queue, lost>>
         \/ \E p \in InFlight : Decides(p, "payment.failed", queue)
  BY DEF RestartPaymentService
<1>2. payment \in Seq(PaymentRecord) /\ queue \in [Queues -> Seq(MessageRecord)]
  BY DEF Whole, PaymentsOK, QueuesOK
<1>3. /\ payment' \in Seq(PaymentRecord) /\ Len(payment') = Len(payment) /\ QueuesOK'
      /\ PayQueue' = PayQueue /\ \A q \in OrderQueues : Kept(q)
  <2>1. CASE UNCHANGED <<payment, queue, lost>>
    BY <1>2, <2>1 DEF Whole, QueuesOK, PayQueue, Kept
  <2>2. ASSUME NEW p \in InFlight, Decides(p, "payment.failed", queue)
        PROVE  /\ payment' \in Seq(PaymentRecord) /\ Len(payment') = Len(payment) /\ QueuesOK'
               /\ PayQueue' = PayQueue /\ \A q \in OrderQueues : Kept(q)
    <3>1. p \in DOMAIN payment
      BY <1>2 DEF InFlight, Known, Whole, PaymentsOK
    <3>2. PICK key \in {"payment.processed", "payment.failed"} :
              /\ payment' \in Seq(PaymentRecord) /\ Len(payment') = Len(payment)
              /\ p \in Nat /\ payment[p].order \in Orders
              /\ Publish(queue, Message(key, payment[p].order, p))
      BY <1>2, <2>2, <3>1, DecidedPayments
    <3>3. QueuesOK' /\ \A q \in Queues : Kept(q)
      BY <1>2, <3>2, QueueType, PublishedKept DEF Whole, QueuesOK
    <3>4. Message(key, payment[p].order, p).key \notin BoundKeys("payment.process_payment")
      BY <3>2 DEF Message, BoundKeys
    <3>5. PayQueue' = PayQueue
      BY <1>2, <3>2, <3>4, PublishKeeps DEF PayQueue, Queues
    <3> QED
      BY <3>2, <3>3, <3>5 DEF OrderQueues
  <2> QED
    BY <1>1, <2>1, <2>2
<1>4. Known' = {}
  BY <1>1, <1>2, <1>3 DEF Known
<1>5. InFlight' = {} /\ Paying'
  BY <1>4 DEF InFlight, Paying
<1>6. Calls'
  BY <1>1, <1>3, CallsStay DEF Whole
<1>7. PaymentsOK'
  BY <1>1, <1>3 DEF PaymentsOK
<1>8. restarts' \in [order : 0..MaxRestarts, payment : 0..MaxPaymentRestarts]
  <2> DEFINE k == restarts.payment + 1
  <2>1. k \in 0..MaxPaymentRestarts
    BY <1>1, SagaAssumption DEF SagaAssumption, Whole, Rest
  <2>2. restarts' = [restarts EXCEPT !.payment = k]
    BY <1>1
  <2> HIDE DEF k
  <2> QED
    BY <2>1, <2>2 DEF Whole, Rest
<1>9. Whole'
  BY <1>1, <1>3, <1>5, <1>6, <1>7, <1>8 DEF Whole, Rest
<1> QED
  BY <1>1, <1>3, <1>5, <1>9

LEMMA PaymentServiceType ==
    ASSUME Whole
    PROVE  /\ OnOrderCreated => Whole'
           /\ \A o \in Orders : PostPayment(o) => Whole'
           /\ \A p \in DOMAIN payment : RefundDirectly(p) => Whole'
<1>1. ASSUME OnOrderCreated PROVE Whole'
  <2> DEFINE o == Head(PayQueue).order
  <2>1. /\ InFlight = {} /\ PayQueue # <<>>
        /\ UNCHANGED <<order, call, breaker, forgotten, told, delivery, lost, restarts>>
        /\ \/ queue' = Ack("payment.process_payment") /\ payment' = payment
           \/ payment' = Started(o, "consumer") /\ queue' = queue
    BY <1>1 DEF OnOrderCreated, PayQueue
  <2>2. /\ Ack("payment.process_payment") \in [Queues -> Seq(MessageRecord)] /\ o \in Orders
        /\ \A q \in OrderQueues : Ack("payment.process_payment")[q] = queue[q]
    BY <2>1, PayAck
  <2>3. CASE queue' = Ack("payment.process_payment") /\ payment' = payment
    <3>1. InFlight' = {}
      BY <2>1, <2>3 DEF InFlight, Known
    <3>2. Calls'
      BY <2>1, <2>2, <2>3, CallsStay DEF Whole, Kept
    <3> QED
      BY <2>1, <2>2, <2>3, <3>1, <3>2 DEF Whole, Paying, QueuesOK, PaymentsOK, Rest
  <2>4. CASE payment' = Started(o, "consumer") /\ queue' = queue
    BY <2>1, <2>2, <2>4, StartType
  <2> QED
    BY <2>1, <2>3, <2>4
<1>2. ASSUME NEW o \in Orders, PostPayment(o) PROVE Whole'
  BY <1>2, StartType DEF PostPayment
<1>3. ASSUME NEW p \in DOMAIN payment, RefundDirectly(p) PROVE Whole'
  <2>1. /\ UNCHANGED <<order, call, breaker, forgotten, queue, told, delivery, lost, restarts>>
        /\ payment' = Refunded(p, TRUE)
    BY <1>3 DEF RefundDirectly
  <2>2. PaymentsOK' /\ Paying'
    BY <2>1, AnswerPays
  <2>3. Calls'
    BY <2>1, CallsStay DEF Whole, Kept
  <2> QED
    BY <2>1, <2>2, <2>3 DEF Whole, QueuesOK, Rest
<1> QED
  BY <1>1, <1>2, <1>3

LEMMA OthersType ==
    ASSUME Whole
    PROVE  /\ \A o \in Orders, key \in RestaurantCalls : RestaurantPublishes(o, key) => Whole'
           /\ \A o \in Orders : AssignDeliverer(o) \/ UpdateLocation(o) \/ ConfirmDelivery(o) => Whole'
<1>1. ASSUME NEW o \in Orders, NEW key \in RestaurantCalls, RestaurantPublishes(o, key) PROVE Whole'
  <2>1. told' \in [Orders -> SUBSET RestaurantKeys]
    BY <1>1, SagaAssumption DEF RestaurantPublishes, Whole, Rest, SagaAssumption
  <2> QED
    BY <1>1, <2>1, PublishedType DEF RestaurantPublishes, Whole, Rest
<1>2. ASSUME NEW o \in Orders, NEW key, NEW from, NEW to \in DeliveryStatus,
             DeliveryPublishes(o, key, from, to)
      PROVE  Whole'
  <2>1. delivery' \in [Orders -> DeliveryStatus]
    BY <1>2 DEF DeliveryPublishes, Whole, Rest
  <2> QED
    BY <1>2, <2>1, PublishedType DEF DeliveryPublishes, Whole, Rest
<1> QED
  BY <1>1, <1>2 DEF AssignDeliverer, UpdateLocation, ConfirmDelivery, DeliveryStatus

LEMMA StutterType == Whole /\ UNCHANGED vars => Whole'
<1> SUFFICES ASSUME Whole, UNCHANGED vars PROVE Whole'
  OBVIOUS
<1>1. Calls' /\ Paying'
  BY CallsStay, SamePaying DEF vars, Whole, Kept
<1> QED
  BY <1>1 DEF vars, Whole, QueuesOK, PaymentsOK, Rest

LEMMA NextWhole == Whole /\ [Next]_vars => Whole'
<1> SUFFICES ASSUME Whole, [Next]_vars PROVE Whole'
  OBVIOUS
<1>1. (\E p \in DOMAIN payment : SettlePayment(p)) => Whole'
  BY SettlesType DEF SettlePayment
<1> QED
  BY <1>1, ConsumeType, ProceedType, OrderServiceType, PaymentRestarts, PaymentServiceType,
     OthersType, StutterType DEF Next

LEMMA InitWhole == Init => Whole
<1> SUFFICES ASSUME Init PROVE Whole
  OBVIOUS
<1> USE SagaAssumption DEF SagaAssumption
<1>1. order \in [Orders -> OrderRecord]
  BY DEF Init, NoOrder, OrderRecord, OrderStatus
<1>2. Calls
  BY IdleType DEF Init, Calls, CallsOK, Handling, Retrying
<1>3. breaker \in Breakers
  BY DEF Init, NewBreaker, Breakers, CircuitState
<1>4. PaymentsOK /\ QueuesOK
  BY DEF Init, PaymentsOK, QueuesOK
<1>5. told \in [Orders -> SUBSET RestaurantKeys] /\ delivery \in [Orders -> DeliveryStatus]
  BY DEF Init, DeliveryStatus
<1>6. restarts \in [order : 0..MaxRestarts, payment : 0..MaxPaymentRestarts]
  BY DEF Init
<1>7. Known = {}
  BY DEF Init, Known
<1>8. Paying
  BY <1>7 DEF Paying, InFlight
<1> QED
  BY <1>1, <1>2, <1>3, <1>4, <1>5, <1>6, <1>8 DEF Whole, Rest

LEMMA TypeInductive == Spec => []TypeInv
<1>1. Init => TypeInv
  BY InitWhole, TypeIsWhole
<1>2. Whole <=> TypeInv
  BY TypeIsWhole
<1>3. Whole' <=> TypeInv'
  BY <1>2, PTL
<1>4. TypeInv /\ [Next]_vars => TypeInv'
  BY <1>2, <1>3, NextWhole
<1> QED
  BY <1>1, <1>4, PTL DEF Spec

\* Whatever the numbers of orders, threads, retries, losses and restarts,
\* every variable keeps its type: no call sends more than max_retries + 1
\* refund requests, and no queue holds a message its consumer does not know.
THEOREM TypeCorrect == Spec => []TypeOK
BY TypeInductive, PTL DEF TypeInv
=============================================================================
