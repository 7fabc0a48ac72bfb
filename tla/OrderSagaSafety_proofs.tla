----------------------- MODULE OrderSagaSafety_proofs -----------------------
(***************************************************************************)
(* The safety of money in OrderSaga, for any number of orders, HTTP        *)
(* threads, retries, lost publications and restarts of either service.     *)
(* The invariants hold together only: an order is genuinely paid because   *)
(* the announcement its handler holds is, a refund belongs to a            *)
(* cancellation because a call only refunds what its order knows, and so   *)
(* on.  IInv is their conjunction with what makes them inductive.          *)
(* PaymentUnderWay is proved on top of it: UnderWayInv follows an order    *)
(* from its placement to the result of its payment, through both queues.   *)
(***************************************************************************)
EXTENDS OrderSaga_proofs

Messages(s) == {s[i] : i \in DOMAIN s}

\* The payment a message announces was made for its order, and succeeded.
Genuine(m) ==
    m.key = "payment.processed" =>
        /\ m.payment \in DOMAIN payment
        /\ payment[m.payment].order = m.order
        /\ payment[m.payment].status \in {"COMPLETED", "REFUNDED"}

Announced == \A m \in Messages(Results) : Genuine(m)

\* The consumer has an announcement in hand when it moves an order to PAID,
\* which only a cancellation can have touched since the test; and it has seen
\* a paid order when it moves one further.
Writing ==
    LET k == call[Consumer]
        r == order[k.order]
        Pays == /\ Head(Results).key = "payment.processed"
                /\ r.payment_id = 0
    IN
    /\ k.pc = "write" /\ k.to = "PAID" => Pays /\ r.status \in {"CREATED", "CANCELLED"}
    /\ k.pc = "note" => Pays /\ r.status \in {"PAID", "CANCELLED"}
    /\ k.pc = "write" /\ k.to \in InService \ {"PAID"} => r.payment_id # 0

Noting(o) == call[Consumer].pc = "note" /\ call[Consumer].order = o

\* An order knows a payment, and a genuine one, from the moment it is paid.
Charged ==
    \A o \in Orders :
        /\ order[o].status \in {"NONE", "GONE", "CREATED"} => order[o].payment_id = 0
        /\ order[o].status \in InService => order[o].payment_id # 0 \/ Noting(o)
        /\ order[o].payment_id # 0 => Settled(o)

\* A call works on an order that exists, and refunds only one that was paid.
Working ==
    \A c \in Threads : call[c].pc # "idle" =>
        /\ order[call[c].order].status \in Existing
        /\ call[c].pc \in {"post", "answer"} \/ call[c].attempts > 0 =>
               order[call[c].order].payment_id # 0

Paid == Announced /\ Writing /\ Charged /\ Working

IInv == Whole /\ Paid /\ RefundMeansCancelling /\ NoSilentRefundFailure

\* An order not placed yet is unknown to payment-service.
Unplaced ==
    \A o \in Orders : order[o].status = "NONE" =>
        /\ \A p \in DOMAIN payment : payment[p].order # o
        /\ \A m \in Messages(PayQueue) : m.order # o

\* An order not paid yet still has to hear of every payment that was decided.
Told ==
    lost = 0 => \A p \in DOMAIN payment :
        LET o == payment[p].order IN
        order[o].status = "CREATED" /\ payment[p].status # "PROCESSING" =>
            \E m \in Messages(Results) : m.order = o

UnderWayInv == IInv /\ Unplaced /\ Told /\ PaymentUnderWay

-----------------------------------------------------------------------------
(* Messages and payments *)

LEMMA MessagesOf ==
    ASSUME NEW S, NEW s \in Seq(S)
    PROVE  /\ \A e \in S : Messages(Append(s, e)) = Messages(s) \cup {e}
           /\ s # <<>> => /\ Head(s) \in Messages(s)
                          /\ Messages(Tail(s)) \subseteq Messages(s)
                          /\ Messages(s) \subseteq Messages(Tail(s)) \cup {Head(s)}
<1>1. ASSUME NEW e \in S PROVE Messages(Append(s, e)) = Messages(s) \cup {e}
  <2> DEFINE t == Append(s, e)
  <2>1. /\ DOMAIN t = DOMAIN s \cup {Len(s) + 1} /\ t[Len(s) + 1] = e
        /\ \A i \in DOMAIN s : t[i] = s[i]
    OBVIOUS
  <2> HIDE DEF t
  <2>2. Messages(t) = Messages(s) \cup {e}
    BY <2>1 DEF Messages
  <2> QED
    BY <2>2 DEF t
<1>2. ASSUME s # <<>>
      PROVE  /\ Head(s) \in Messages(s)
             /\ Messages(Tail(s)) \subseteq Messages(s)
             /\ Messages(s) \subseteq Messages(Tail(s)) \cup {Head(s)}
  <2> DEFINE t == Tail(s)
  <2>1. /\ Len(s) \in Nat \ {0} /\ Head(s) = s[1] /\ DOMAIN s = 1..Len(s)
        /\ DOMAIN t = 1..(Len(s) - 1) /\ \A i \in DOMAIN t : t[i] = s[i + 1]
    BY <1>2
  <2> HIDE DEF t
  <2>2. /\ \A i \in DOMAIN t : i + 1 \in DOMAIN s /\ t[i] = s[i + 1]
        /\ \A i \in DOMAIN s : i = 1 \/ (i - 1 \in DOMAIN t /\ t[i - 1] = s[i])
    BY <2>1
  <2>3. Messages(t) \subseteq Messages(s)
    BY <2>2 DEF Messages
  <2>4. Messages(s) \subseteq Messages(t) \cup {Head(s)}
    BY <2>1, <2>2 DEF Messages
  <2>5. Head(s) \in Messages(s)
    BY <2>1 DEF Messages
  <2> QED
    BY <2>3, <2>4, <2>5 DEF t
<1> QED
  BY <1>1, <1>2

\* The results of payments come from payment-service only, and it is told of
\* new orders only.
LEMMA Elsewhere ==
    ASSUME QueuesOK, NEW key, NEW o, NEW p, Publish(queue, Message(key, o, p))
    PROVE  /\ key \notin {"payment.processed", "payment.failed"} => Results' = Results
           /\ key # "order.created" => PayQueue' = PayQueue
<1>1. /\ \/ queue'["order.payment_results"] = queue["order.payment_results"]
         \/ key \in BoundKeys("order.payment_results")
      /\ \/ queue'["payment.process_payment"] = queue["payment.process_payment"]
         \/ key \in BoundKeys("payment.process_payment")
  BY PublishKeeps DEF QueuesOK, Queues, Message
<1> QED
  BY <1>1 DEF Results, PayQueue, BoundKeys

\* What is charged or returned stays so, and forgotten payments stay forgotten.
PaymentsMove ==
    /\ DOMAIN payment \subseteq DOMAIN payment'
    /\ \A p \in DOMAIN payment :
        /\ payment'[p].order = payment[p].order
        /\ payment[p].status \in {"COMPLETED", "REFUNDED"} =>
               payment'[p].status \in {"COMPLETED", "REFUNDED"}
        /\ payment[p].status = "REFUNDED" => payment'[p].status = "REFUNDED"
    /\ forgotten <= forgotten'

\* Order-service has payments returned only by the requests it has sent.
RefundsAsked ==
    \A p \in DOMAIN payment' : payment'[p].status = "REFUNDED" /\ ~payment'[p].byHand =>
        /\ p \in DOMAIN payment
        /\ \/ payment[p].status = "REFUNDED" /\ ~payment[p].byHand
           \/ \E c \in Threads : call[c].pc = "answer" /\ order[call[c].order].payment_id = p

LEMMA PaymentsStay ==
    ASSUME PaymentsOK, UNCHANGED <<payment, forgotten>>
    PROVE  PaymentsMove /\ RefundsAsked
BY DEF PaymentsMove, RefundsAsked, PaymentsOK

LEMMA RefundedMove ==
    ASSUME PaymentsOK, NEW p, NEW byHand \in BOOLEAN, payment' \in {payment, Refunded(p, byHand)},
           UNCHANGED forgotten,
           \/ byHand
           \/ \E c \in Threads : call[c].pc = "answer" /\ order[call[c].order].payment_id = p
    PROVE  PaymentsMove /\ RefundsAsked /\ Len(payment') = Len(payment)
<1>1. CASE payment' = payment
  BY <1>1, PaymentsStay
<1>2. CASE payment' = Refunded(p, byHand)
  <2>1. /\ payment' \in Seq(PaymentRecord) /\ Len(payment') = Len(payment)
        /\ \A q \in DOMAIN payment :
              /\ payment'[q].order = payment[q].order
              /\ \/ payment'[q] = payment[q]
                 \/ /\ q = p /\ payment[q].status = "COMPLETED"
                    /\ payment'[q].status = "REFUNDED" /\ payment'[q].byHand = byHand
    BY <1>2, RefundedType DEF PaymentsOK
  <2>2. DOMAIN payment' = DOMAIN payment
    BY <2>1 DEF PaymentsOK
  <2>3. PaymentsMove
    BY <2>1, <2>2 DEF PaymentsMove, PaymentsOK
  <2>4. RefundsAsked
    BY <2>1, <2>2 DEF RefundsAsked
  <2> QED
    BY <2>1, <2>3, <2>4
<1> QED
  BY <1>1, <1>2

LEMMA StartedMove ==
    ASSUME PaymentsOK, NEW o \in Orders, NEW by \in {"consumer", "http"}, payment' = Started(o, by),
           UNCHANGED forgotten
    PROVE  PaymentsMove /\ RefundsAsked
<1> DEFINE n == Len(payment) + 1
<1>1. NewPayment(o, by).status = "PROCESSING"
  BY DEF NewPayment
<1>2. /\ DOMAIN payment' = DOMAIN payment \cup {n} /\ payment'[n].status = "PROCESSING"
      /\ \A p \in DOMAIN payment : payment'[p] = payment[p]
  BY <1>1, StartedPayment DEF PaymentsOK
<1> QED
  BY <1>2 DEF PaymentsMove, RefundsAsked, PaymentsOK

LEMMA DecidedMove ==
    ASSUME PaymentsOK, PaymentsOK', NEW p \in DOMAIN payment, payment[p].status = "PROCESSING",
           NEW failed, NEW qs, Decides(p, failed, qs), forgotten <= forgotten'
    PROVE  PaymentsMove /\ RefundsAsked
<1>1. /\ DOMAIN payment' = DOMAIN payment
      /\ \A q \in DOMAIN payment : /\ payment'[q].order = payment[q].order
                                   /\ q # p => payment'[q] = payment[q]
      /\ payment'[p].status \in {"COMPLETED", "FAILED"}
  BY DecidedPayments DEF PaymentsOK
<1> QED
  BY <1>1 DEF PaymentsMove, RefundsAsked

-----------------------------------------------------------------------------
(* How the invariants are kept: by what becomes of the announcements, of an
   order, and of a thread. *)

LEMMA AnnouncedStays ==
    ASSUME Announced, PaymentsMove, \A m \in Messages(Results') : m \in Messages(Results) \/ Genuine(m)'
    PROVE  Announced'
<1>1. ASSUME NEW m, Genuine(m) PROVE Genuine(m)'
  BY <1>1 DEF Genuine, PaymentsMove
<1>2. ASSUME NEW m \in Messages(Results') PROVE Genuine(m)'
  BY <1>1, <1>2 DEF Announced
<1> QED
  BY <1>2 DEF Announced, Messages

LEMMA WritingStays ==
    ASSUME Writing, Handling, UNCHANGED <<call[Consumer]>>, Kept("order.payment_results"),
           LET k == call[Consumer] IN k.pc # "idle" =>
               /\ order'[k.order].payment_id = order[k.order].payment_id
               /\ order'[k.order].status \in {order[k.order].status, "CANCELLED"}
    PROVE  Writing'
<1>1. Consumer \in Threads /\ NoOne # "order.payment_results"
  BY DEF Threads, NoOne
<1>2. LET k == call[Consumer] IN
        (k.pc = "write" /\ k.to = "PAID") \/ k.pc = "note" => Results # <<>>
  BY <1>1 DEF Handling, Results
<1> QED
  BY <1>2 DEF Writing, Kept, Results

\* No other thread has a status to write.
LEMMA ConsumerWrites ==
    ASSUME Handling, NEW c \in Threads, call[c].pc \in {"write", "note"} \/ call[c].on # NoOne
    PROVE  c = Consumer
BY DEF Handling, NoOne

\* What an order can become, in the step that Charged' is about.
Charges(o) ==
    \/ /\ order'[o].payment_id = order[o].payment_id
       /\ \/ order'[o].status = order[o].status /\ (Noting(o) => Noting(o)')
          \/ order'[o].status \in {"CANCELLED", "DELIVERED"}
          \/ order'[o].status \in InService /\ (order[o].payment_id # 0 \/ Noting(o)')
          \/ order'[o].status = "CREATED" /\ order[o].payment_id = 0
    \/ order'[o].payment_id = 0 /\ order'[o].status = "GONE"
    \/ Settled(o)' /\ order'[o].payment_id # 0 /\ order'[o].status \in {"PAID", "CANCELLED"}

LEMMA ChargedStays ==
    ASSUME Charged, PaymentsMove, \A o \in Orders : Charges(o)
    PROVE  Charged'
<1> SUFFICES ASSUME NEW o \in Orders
             PROVE  /\ order'[o].status \in {"NONE", "GONE", "CREATED"} => order'[o].payment_id = 0
                    /\ order'[o].status \in InService => order'[o].payment_id # 0 \/ Noting(o)'
                    /\ order'[o].payment_id # 0 => Settled(o)'
  BY DEF Charged
<1>1. order'[o].payment_id = order[o].payment_id /\ Settled(o) => Settled(o)'
  BY DEF Settled, PaymentsMove
<1> QED
  BY <1>1 DEF Charged, Charges, InService

\* An order that knows a payment keeps it, and its history, until it is
\* forgotten.
OrdersMove ==
    \A o \in Orders :
        \/ order'[o].status = "GONE"
        \/ /\ order[o].status # "GONE"
           /\ order[o].payment_id # 0 => order'[o].payment_id = order[o].payment_id
           /\ order[o].history \subseteq order'[o].history

\* A thread that is past its check ends with the cancellation.
CallsMove ==
    \A c \in Threads : call[c].pc \in {"post", "answer", "cancel"} =>
        \/ order'[call[c].order].status = "GONE"
        \/ "COMPENSATED" \in order'[call[c].order].history
        \/ call'[c].pc \in {"post", "answer", "cancel"} /\ call'[c].order = call[c].order

LEMMA RefundsStay ==
    ASSUME Whole, Charged, Working, RefundMeansCancelling, PaymentsMove, RefundsAsked, OrdersMove, CallsMove
    PROVE  RefundMeansCancelling'
<1> SUFFICES ASSUME NEW p \in DOMAIN payment', payment'[p].status = "REFUNDED", ~payment'[p].byHand
             PROVE  LET o == payment'[p].order IN
                    \/ order'[o].status = "GONE"
                    \/ /\ order'[o].payment_id = p
                       /\ \/ "COMPENSATED" \in order'[o].history
                          \/ \E c \in Threads : /\ call'[c].pc \in {"post", "answer", "cancel"}
                                                /\ call'[c].order = o
  BY DEF RefundMeansCancelling
<1> DEFINE o == payment[p].order
<1>1. /\ p \in DOMAIN payment /\ payment'[p].order = o /\ o \in Orders /\ p # 0
  <2>1. p \in DOMAIN payment /\ payment \in Seq(PaymentRecord)
    BY DEF RefundsAsked, Whole, PaymentsOK
  <2>2. payment[p] \in PaymentRecord /\ p # 0
    BY <2>1
  <2> QED
    BY <2>1, <2>2 DEF PaymentsMove, PaymentRecord
<1>2. \/ order[o].status = "GONE"
      \/ /\ order[o].payment_id = p
         /\ \/ "COMPENSATED" \in order[o].history
            \/ \E c \in Threads : call[c].pc \in {"post", "answer", "cancel"} /\ call[c].order = o
  <2>1. CASE payment[p].status = "REFUNDED" /\ ~payment[p].byHand
    BY <1>1, <2>1 DEF RefundMeansCancelling
  <2>2. ASSUME NEW c \in Threads, call[c].pc = "answer", order[call[c].order].payment_id = p
        PROVE  order[o].payment_id = p /\ call[c].order = o
    <3>1. call[c].order \in Orders
      BY <2>2 DEF Whole, Calls, CallsOK
    <3> QED
      BY <1>1, <2>2, <3>1 DEF Charged, Settled
  <2> QED
    BY <2>1, <2>2 DEF RefundsAsked
<1>3. CASE order'[o].status = "GONE"
  BY <1>1, <1>3
<1>4. CASE order'[o].status # "GONE"
  <2>1. order[o].payment_id = p /\ order'[o].payment_id = p /\ order[o].history \subseteq order'[o].history
    BY <1>1, <1>2, <1>4 DEF OrdersMove
  <2>2. \/ "COMPENSATED" \in order'[o].history
        \/ \E c \in Threads : call'[c].pc \in {"post", "answer", "cancel"} /\ call'[c].order = o
    <3>1. CASE "COMPENSATED" \in order[o].history
      BY <2>1, <3>1
    <3>2. ASSUME NEW c \in Threads, call[c].pc \in {"post", "answer", "cancel"}, call[c].order = o
          PROVE  \/ "COMPENSATED" \in order'[o].history
                 \/ call'[c].pc \in {"post", "answer", "cancel"} /\ call'[c].order = o
      BY <1>4, <3>2 DEF CallsMove
    <3>3. order[o].status # "GONE"
      BY <1>1, <1>4 DEF OrdersMove
    <3> QED
      BY <1>2, <3>1, <3>2, <3>3
  <2> QED
    BY <1>1, <2>1, <2>2
<1> QED
  BY <1>3, <1>4

\* A thread that comes to cancel after its requests has the refund made, or
\* flagged, or was told of no such payment.
Concludes(c) ==
    call'[c].pc = "cancel" /\ call'[c].attempts > 0 =>
        LET r == order'[call'[c].order] IN
        \/ call'[c] = call[c]
        \/ "FAILED" \in r.history
        \/ payment'[r.payment_id].status = "REFUNDED"
        \/ r.payment_id <= forgotten'

LEMMA ConclusionsStay ==
    ASSUME Whole, Whole', Charged, Charged', Working, NoSilentRefundFailure, PaymentsMove, OrdersMove,
           \A c \in Threads : Concludes(c)
    PROVE  NoSilentRefundFailure'
<1> SUFFICES ASSUME NEW c \in Threads, call'[c].pc = "cancel", call'[c].attempts > 0
             PROVE  LET r == order'[call'[c].order] IN
                    \/ payment'[r.payment_id].status = "REFUNDED"
                    \/ "FAILED" \in r.history
                    \/ r.payment_id <= forgotten'
  BY DEF NoSilentRefundFailure, RefundOrFlag
<1>1. CASE call'[c] = call[c]
  <2> DEFINE o == call[c].order
             p == order[o].payment_id
  <2>1. o \in Orders /\ p # 0 /\ call[c].pc = "cancel" /\ call[c].attempts > 0
    BY <1>1 DEF Whole, Calls, CallsOK, Working
  <2>2. payment[p].status = "REFUNDED" \/ "FAILED" \in order[o].history \/ p <= forgotten
    BY <2>1 DEF NoSilentRefundFailure, RefundOrFlag
  <2>3. CASE order'[o].status = "GONE"
    <3>1. order'[o].payment_id = 0 /\ forgotten' \in Nat
      BY <2>1, <2>3 DEF Charged, Whole, PaymentsOK
    <3> QED
      BY <1>1, <3>1
  <2>4. CASE order'[o].status # "GONE"
    <3>1. order'[o].payment_id = p /\ order[o].history \subseteq order'[o].history
      BY <2>1, <2>4 DEF OrdersMove
    <3>2. p \in DOMAIN payment
      BY <2>1 DEF Charged, Settled
    <3>3. p \in Nat /\ forgotten \in Nat /\ forgotten' \in Nat
      BY <2>1 DEF Whole, Rest, OrderRecord, PaymentsOK
    <3> QED
      BY <1>1, <2>2, <3>1, <3>2, <3>3 DEF PaymentsMove
  <2> QED
    BY <2>3, <2>4
<1>2. CASE call'[c] # call[c]
  BY <1>2 DEF Concludes
<1> QED
  BY <1>1, <1>2

\* A step of somebody else: no order changes and no thread of order-service
\* moves.
LEMMA BystandersStep ==
    ASSUME IInv, Whole', UNCHANGED <<order, call>>, PaymentsMove, RefundsAsked,
           Kept("order.payment_results"),
           \A m \in Messages(Results') : m \in Messages(Results) \/ Genuine(m)'
    PROVE  IInv'
<1>1. Announced'
  BY AnnouncedStays DEF IInv, Paid
<1>2. Writing'
  BY WritingStays DEF IInv, Paid, Whole, Calls
<1>3. Charged'
  <2>1. \A o \in Orders : Charges(o)
    BY DEF Charges, Noting
  <2> QED
    BY <2>1, ChargedStays DEF IInv, Paid
<1>4. Working'
  BY DEF IInv, Paid, Working
<1>5. OrdersMove /\ CallsMove /\ \A c \in Threads : Concludes(c)
  BY DEF OrdersMove, CallsMove, Concludes
<1>6. RefundMeansCancelling'
  BY <1>5, RefundsStay DEF IInv, Paid
<1>7. NoSilentRefundFailure'
  BY <1>3, <1>5, ConclusionsStay DEF IInv, Paid
<1> QED
  BY <1>1, <1>2, <1>3, <1>4, <1>6, <1>7 DEF IInv, Paid

\* A step of order-service, by what it makes of orders, threads and payments.
Orderly ==
    /\ PaymentsMove /\ RefundsAsked /\ OrdersMove /\ CallsMove
    /\ \A o \in Orders : Charges(o)
    /\ \A c \in Threads : Concludes(c)
    /\ \A m \in Messages(Results') : m \in Messages(Results) \/ Genuine(m)'

LEMMA OrderlyStep ==
    ASSUME IInv, Whole', Orderly, Writing', Working'
    PROVE  IInv'
<1>1. Announced' /\ Charged'
  BY AnnouncedStays, ChargedStays DEF IInv, Paid, Orderly
<1>2. RefundMeansCancelling' /\ NoSilentRefundFailure'
  BY <1>1, RefundsStay, ConclusionsStay DEF IInv, Paid, Orderly
<1> QED
  BY <1>1, <1>2 DEF IInv, Paid

LEMMA CreateSafe ==
    ASSUME IInv, Whole', NEW x \in Orders, CreateOrder(x)
    PROVE  IInv'
<1>1. /\ order[x].status = "NONE" /\ order' = [order EXCEPT ![x].status = "CREATED"]
      /\ UNCHANGED <<call, payment, forgotten>> /\ Publish(queue, Message("order.created", x, 0))
  BY DEF CreateOrder
<1>2. \A o \in Orders : /\ order[o] \in OrderRecord /\ order'[o].payment_id = order[o].payment_id
                        /\ order'[o].history = order[o].history
                        /\ order'[o].status = IF o = x THEN "CREATED" ELSE order[o].status
  BY <1>1 DEF IInv, Whole, Rest, OrderRecord
<1>3. Results' = Results /\ Kept("order.payment_results")
  BY <1>1, Elsewhere DEF IInv, Whole, Results, Kept
<1>4. \A c \in Threads : call[c].pc # "idle" => call[c].order \in Orders \ {x}
  BY <1>1 DEF IInv, Whole, Calls, CallsOK, Paid, Working, Existing
<1>5. PaymentsMove /\ RefundsAsked
  BY <1>1, PaymentsStay DEF IInv, Whole
<1>6. order[x].payment_id = 0
  BY <1>1 DEF IInv, Paid, Charged
<1>7. \A o \in Orders : Charges(o)
  BY <1>1, <1>2, <1>6 DEF Charges, Noting
<1>8. OrdersMove /\ CallsMove /\ \A c \in Threads : Concludes(c)
  BY <1>1, <1>2 DEF OrdersMove, CallsMove, Concludes
<1>9. Writing'
  <2>1. Consumer \in Threads
    BY DEF Threads
  <2> QED
    BY <1>1, <1>2, <1>3, <1>4, <2>1, WritingStays DEF IInv, Paid, Whole, Calls
<1>10. Working'
  BY <1>1, <1>2, <1>4 DEF IInv, Paid, Working
<1> QED
  BY <1>3, <1>5, <1>7, <1>8, <1>9, <1>10, OrderlyStep DEF Orderly

\* A thread, idle before, begins with an order that exists.
LEMMA BeginsSafe ==
    ASSUME IInv, Whole', UNCHANGED <<order, queue, payment, forgotten>>, NEW c \in Threads,
           call[c].pc = "idle", NEW r, call' = [call EXCEPT ![c] = r], r.attempts = 0,
           r.pc \in {"write", "check", "cancel"}, r.order \in Orders, order[r.order].status \in Existing,
           r.pc = "write" => c = Consumer,
           r.pc = "write" /\ r.to = "PAID" => /\ Head(Results).key = "payment.processed"
                                              /\ order[r.order].status = "CREATED",
           r.pc = "write" /\ r.to \in InService \ {"PAID"} => order[r.order].status \in InService
    PROVE  IInv'
<1>1. call'[c] = r /\ \A d \in Threads : d # c => call'[d] = call[d]
  BY DEF IInv, Whole, Calls, CallsOK
<1>2. PaymentsMove /\ RefundsAsked
  BY PaymentsStay DEF IInv, Whole
<1>3. \A o \in Orders : Charges(o)
  BY <1>1 DEF Charges, Noting
<1>4. OrdersMove /\ CallsMove /\ \A d \in Threads : Concludes(d)
  BY <1>1 DEF OrdersMove, CallsMove, Concludes
<1>5. Results' = Results /\ Kept("order.payment_results")
  BY DEF Results, Kept
<1>6. Writing'
  <2>1. CASE c = Consumer
    <3>1. ~Noting(r.order)
      BY <2>1 DEF Noting
    <3>2. order[r.order].status \in InService => order[r.order].payment_id # 0
      BY <3>1 DEF IInv, Paid, Charged
    <3>3. order[r.order].status = "CREATED" => order[r.order].payment_id = 0
      BY DEF IInv, Paid, Charged
    <3> QED
      BY <1>1, <1>5, <2>1, <3>2, <3>3 DEF Writing
  <2>2. CASE c # Consumer
    <3>1. call'[Consumer] = call[Consumer]
      BY <1>1, <2>2 DEF Threads
    <3> QED
      BY <1>5, <3>1, WritingStays DEF IInv, Paid, Whole, Calls
  <2> QED
    BY <2>1, <2>2
<1>7. Working'
  BY <1>1 DEF IInv, Paid, Working
<1> QED
  BY <1>2, <1>3, <1>4, <1>5, <1>6, <1>7, OrderlyStep DEF Orderly

LEMMA TakesSafe ==
    ASSUME IInv, Whole', NEW q \in OrderQueues, NEW key, NEW from \in SUBSET Existing, NEW next \in Begins,
           next.pc = "write" /\ next.to = "PAID" =>
               /\ q = "order.payment_results" /\ key = "payment.processed" /\ from = {"CREATED"},
           next.pc = "write" /\ next.to \in InService \ {"PAID"} => from \subseteq InService,
           Takes(q, key, from, next)
    PROVE  IInv'
<1> DEFINE m == Head(queue[q])
<1>1. /\ call[Consumer].pc = "idle" /\ queue[q] # <<>> /\ m.key = key /\ q \in Queues
      /\ UNCHANGED <<order, payment, forgotten>>
  BY DEF Takes, Receives, OrderQueues
<1>2. m.order \in Orders /\ Consumer \in Threads /\ queue \in [Queues -> Seq(MessageRecord)]
  BY <1>1, AckType DEF IInv, Whole, QueuesOK, Threads
<1>3. CASE order[m.order].status \in from
  <2> DEFINE r == [next EXCEPT !.order = m.order, !.on = q]
  <2>1. /\ r \in CallRecord /\ r.order = m.order /\ r.on = q /\ r.attempts = 0
        /\ r.to = next.to /\ r.pc = next.pc /\ r.pc \in {"write", "check", "cancel"}
        /\ r.pc = "write" => r.to \in InService \cup {"DELIVERED"}
    <3>1. q \in Queues /\ m.order \in Orders
      BY <1>1, <1>2
    <3> QED
      BY <3>1, BeginsType
  <2>2. call' = [call EXCEPT ![Consumer] = r] /\ queue' = queue
    BY <1>3 DEF Takes
  <2> HIDE DEF r
  <2> QED
    BY <1>1, <1>2, <1>3, <2>1, <2>2, BeginsSafe DEF Results
<1>4. CASE order[m.order].status \notin from
  <2>1. queue' = Ack(q) /\ call' = call
    BY <1>4 DEF Takes
  <2>2. PaymentsMove /\ RefundsAsked
    BY <1>1, PaymentsStay DEF IInv, Whole
  <2>3. Messages(Results') \subseteq Messages(Results)
    <3>1. CASE q = "order.payment_results"
      BY <1>1, <1>2, <2>1, <3>1, AckType, MessagesOf DEF Results
    <3>2. CASE q # "order.payment_results"
      BY <1>1, <1>2, <2>1, <3>2, AckType DEF Results, Queues
    <3> QED
      BY <3>1, <3>2
  <2>4. Announced'
    BY <2>2, <2>3, AnnouncedStays DEF IInv, Paid
  <2>5. Writing'
    BY <1>1, <2>1 DEF Writing
  <2>6. \A o \in Orders : Charges(o)
    BY <1>1, <2>1 DEF Charges, Noting
  <2>7. OrdersMove /\ CallsMove /\ \A c \in Threads : Concludes(c)
    BY <1>1, <2>1 DEF OrdersMove, CallsMove, Concludes
  <2>8. Working'
    BY <1>1, <2>1 DEF IInv, Paid, Working
  <2> QED
    BY <2>2, <2>3, <2>5, <2>6, <2>7, <2>8, OrderlyStep DEF Orderly
<1> QED
  BY <1>3, <1>4

LEMMA ConsumeSafe ==
    ASSUME IInv, Whole', Consume
    PROVE  IInv'
<1> DEFINE cancels == [IdleCall EXCEPT !.pc = "cancel"]
           checks == [IdleCall EXCEPT !.pc = "check"]
<1>1. /\ \A s \in InService \cup {"DELIVERED"} : To(s) \in Begins /\ To(s).to = s /\ To(s).pc = "write"
      /\ cancels \in Begins /\ checks \in Begins
      /\ cancels.pc = "cancel" /\ checks.pc = "check"
  BY DEF Begins, To, IdleCall
<1>2. {"order.payment_results", "order.restaurant_updates", "order.delivery_updates"} \subseteq OrderQueues
  BY DEF OrderQueues, Queues
<1>3. InService \cup {"CREATED"} \subseteq Existing
  BY DEF InService, Existing, OrderStatus
<1> HIDE DEF cancels, checks
<1>4. CASE OnPaymentProcessed
  BY <1>1, <1>2, <1>3, <1>4, TakesSafe DEF OnPaymentProcessed, InService
<1>5. CASE OnPaymentFailed
  <2>1. Takes("order.payment_results", "payment.failed", Existing \ {"CANCELLED"}, cancels)
    BY <1>5 DEF OnPaymentFailed, cancels
  <2> QED
    BY <1>1, <1>2, <2>1, TakesSafe
<1>6. CASE OnOrderRejected
  <2>1. Takes("order.restaurant_updates", "OrderRejected", Existing \ {"CANCELLED"}, checks)
    BY <1>6 DEF OnOrderRejected, checks
  <2> QED
    BY <1>1, <1>2, <2>1, TakesSafe
<1>7. CASE OnOrderAccepted
  BY <1>1, <1>2, <1>3, <1>7, TakesSafe DEF OnOrderAccepted, InService
<1>8. CASE OnOrderPreparing
  BY <1>1, <1>2, <1>3, <1>8, TakesSafe DEF OnOrderPreparing, InService
<1>9. CASE OnOrderReady
  BY <1>1, <1>2, <1>3, <1>9, TakesSafe DEF OnOrderReady, InService
<1>10. CASE OnDeliveryAssigned
  BY <1>1, <1>2, <1>3, <1>10, TakesSafe DEF OnDeliveryAssigned, InService
<1>11. CASE OnDeliveryInProgress
  BY <1>1, <1>2, <1>3, <1>11, TakesSafe DEF OnDeliveryInProgress, InService
<1>12. CASE OnDeliveryCompleted
  BY <1>1, <1>2, <1>12, TakesSafe DEF OnDeliveryCompleted, InService
<1> QED
  BY <1>4, <1>5, <1>6, <1>7, <1>8, <1>9, <1>10, <1>11, <1>12 DEF Consume

LEMMA WriteSafe ==
    ASSUME IInv, Whole', NEW c \in Threads, WriteStatus(c)
    PROVE  IInv'
<1> DEFINE o == call[c].order
           s == call[c].to
<1>1. /\ call[c].pc = "write" /\ c = Consumer /\ o \in Orders /\ order[o].status \in Existing
      /\ s \in InService \cup {"DELIVERED"} /\ (s = "PAID" <=> call[c].on = "order.payment_results")
      /\ order' = [order EXCEPT ![o].status = s] /\ UNCHANGED <<payment, forgotten>>
  BY ConsumerWrites DEF WriteStatus, IInv, Whole, Calls, CallsOK, Handling, Paid, Working
<1>2. \A x \in Orders : /\ order'[x].payment_id = order[x].payment_id
                        /\ order'[x].history = order[x].history
                        /\ order'[x].status = IF x = o THEN s ELSE order[x].status
  BY <1>1 DEF IInv, Whole, Rest, OrderRecord
<1>3. /\ \/ s = "PAID" /\ queue' = queue /\ call'[c].pc = "note" /\ call'[c].order = o
            /\ call'[c].attempts = call[c].attempts
         \/ s # "PAID" /\ Returns(c) /\ call'[c] = IdleCall
      /\ \A d \in Threads : d # c => call'[d] = call[d]
  BY <1>1 DEF WriteStatus, Returns, IInv, Whole, Calls, CallsOK, CallRecord
<1>4. Results' = Results
  <2>1. CASE s = "PAID"
    BY <1>3, <2>1 DEF Results
  <2>2. CASE s # "PAID"
    BY <1>1, <1>3, <2>2, CallReturns DEF IInv, Whole
  <2> QED
    BY <2>1, <2>2
<1>5. PaymentsMove /\ RefundsAsked
  BY <1>1, PaymentsStay DEF IInv, Whole
<1>6. s \in InService \ {"PAID"} => order[o].payment_id # 0
  BY <1>1 DEF IInv, Paid, Writing
<1>7. \A x \in Orders : Charges(x)
  <2>1. ASSUME NEW x \in Orders, x = o PROVE Charges(x)
    BY <1>1, <1>2, <1>3, <1>6, <2>1 DEF Charges, Noting
  <2>2. ASSUME NEW x \in Orders, x # o PROVE Charges(x)
    BY <1>1, <1>2, <2>2 DEF Charges, Noting
  <2> QED
    BY <2>1, <2>2
<1>8. order[o].status # "GONE" /\ s # "GONE"
  BY <1>1 DEF Existing, InService
<1>9. OrdersMove /\ CallsMove /\ \A d \in Threads : Concludes(d)
  BY <1>1, <1>2, <1>3, <1>8, IdleType DEF OrdersMove, CallsMove, Concludes
<1>10. Writing'
  BY <1>1, <1>2, <1>3, <1>4, IdleType DEF IInv, Paid, Writing
<1>11. Working'
  <2>1. s \in Existing
    BY <1>1 DEF InService, Existing, OrderStatus
  <2>2. \A d \in Threads : call[d].pc # "idle" => call[d].order \in Orders
    BY DEF IInv, Whole, Calls, CallsOK
  <2> QED
    BY <1>1, <1>2, <1>3, <2>1, <2>2, IdleType DEF IInv, Paid, Working
<1> QED
  BY <1>4, <1>5, <1>7, <1>9, <1>10, <1>11, OrderlyStep DEF Orderly

LEMMA NoteSafe ==
    ASSUME IInv, Whole', NEW c \in Threads, NotePayment(c)
    PROVE  IInv'
<1> DEFINE o == call[c].order
           m == Head(Results)
<1>1. /\ call[c].pc = "note" /\ c = Consumer /\ o \in Orders /\ order[o].status \in Existing
      /\ call[c].on = "order.payment_results" /\ Results # <<>> /\ m.order = o
      /\ order' = [order EXCEPT ![o].payment_id = m.payment] /\ UNCHANGED <<payment, forgotten>>
      /\ Returns(c)
  BY ConsumerWrites DEF NotePayment, IInv, Whole, Calls, CallsOK, Handling, Paid, Working, Results, NoOne
<1>2. \A x \in Orders : /\ order'[x].status = order[x].status
                        /\ order'[x].history = order[x].history
                        /\ order'[x].payment_id = IF x = o THEN m.payment ELSE order[x].payment_id
  BY <1>1 DEF IInv, Whole, Rest, OrderRecord
<1>3. call'[c] = IdleCall /\ \A d \in Threads : d # c => call'[d] = call[d]
  BY <1>1 DEF Returns, IInv, Whole, Calls, CallsOK
<1>4. Results \in Seq(MessageRecord) /\ payment \in Seq(PaymentRecord)
  BY DEF IInv, Whole, QueuesOK, PaymentsOK, Results, Queues
<1>5. Messages(Results') \subseteq Messages(Results) /\ m \in Messages(Results)
  BY <1>1, <1>4, CallReturns, MessagesOf DEF IInv, Whole
<1>6. /\ m.key = "payment.processed" /\ order[o].payment_id = 0
      /\ order[o].status \in {"PAID", "CANCELLED"}
  BY <1>1 DEF IInv, Paid, Writing
<1>7. Genuine(m) /\ m.payment # 0
  BY <1>4, <1>5, <1>6 DEF IInv, Paid, Announced, Genuine
<1>8. PaymentsMove /\ RefundsAsked
  BY <1>1, PaymentsStay DEF IInv, Whole
<1>9. \A x \in Orders : Charges(x)
  <2>1. ASSUME NEW x \in Orders, x = o PROVE Charges(x)
    <3>1. /\ m.payment \in DOMAIN payment /\ payment[m.payment].order = x
          /\ payment[m.payment].status \in {"COMPLETED", "REFUNDED"}
      BY <1>1, <1>6, <1>7, <2>1 DEF Genuine
    <3>2. payment' = payment /\ order'[x].payment_id = m.payment
      BY <1>1, <1>2, <2>1
    <3>3. Settled(x)'
      BY <3>1, <3>2 DEF Settled
    <3> QED
      BY <1>2, <1>6, <1>7, <2>1, <3>2, <3>3 DEF Charges
  <2>2. ASSUME NEW x \in Orders, x # o PROVE Charges(x)
    BY <1>1, <1>2, <2>2 DEF Charges, Noting
  <2> QED
    BY <2>1, <2>2
<1>10. OrdersMove /\ CallsMove /\ \A d \in Threads : Concludes(d)
  BY <1>1, <1>2, <1>3, <1>6, IdleType DEF OrdersMove, CallsMove, Concludes
<1>11. Writing'
  BY <1>1, <1>3, IdleType DEF Writing
<1>12. Working'
  <2>1. \A d \in Threads : call[d].pc # "idle" => call[d].order \in Orders
    BY DEF IInv, Whole, Calls, CallsOK
  <2> QED
    BY <1>1, <1>2, <1>3, <1>7, <2>1, IdleType DEF IInv, Paid, Working
<1> QED
  BY <1>5, <1>8, <1>9, <1>10, <1>11, <1>12, OrderlyStep DEF Orderly

\* A step of a compensation, up to its last.
LEMMA CompensationSafe ==
    ASSUME IInv, Whole', NEW c \in Threads, UNCHANGED queue, call[c].pc \in {"check", "post", "answer"},
           NEW r \in CallRecord, call' = [call EXCEPT ![c] = r], r.order = call[c].order,
           r.pc \in {"post", "answer", "cancel"},
           r.pc \in {"post", "answer"} \/ r.attempts > 0 => order[r.order].payment_id # 0,
           \A x \in Orders : /\ order'[x].status = order[x].status
                             /\ order'[x].payment_id = order[x].payment_id
                             /\ order[x].history \subseteq order'[x].history,
           PaymentsMove, RefundsAsked, Concludes(c)
    PROVE  IInv'
<1>1. /\ call'[c] = r /\ \A d \in Threads : d # c => call'[d] = call[d]
      /\ \A d \in Threads : call[d].pc # "idle" =>
             call[d].order \in Orders /\ order[call[d].order].status \in Existing
      /\ r.order \in Orders /\ order[r.order].status \in Existing
  BY DEF IInv, Whole, Calls, CallsOK, Paid, Working
<1>2. \A x \in Orders : Charges(x)
  BY <1>1 DEF Charges, Noting
<1>3. OrdersMove /\ CallsMove
  BY <1>1 DEF OrdersMove, CallsMove
<1>4. \A d \in Threads : Concludes(d)
  BY <1>1 DEF Concludes
<1>5. Results' = Results /\ Kept("order.payment_results")
  BY DEF Results, Kept
<1>6. Writing'
  <2>1. CASE c = Consumer
    BY <1>1, <2>1 DEF Writing
  <2>2. CASE c # Consumer
    <3>1. call'[Consumer] = call[Consumer] /\ Consumer \in Threads
      BY <1>1, <2>2 DEF Threads
    <3> QED
      BY <1>1, <1>5, <3>1, WritingStays DEF IInv, Paid, Whole, Calls
  <2> QED
    BY <2>1, <2>2
<1>7. Working'
  BY <1>1 DEF IInv, Paid, Working
<1> QED
  BY <1>2, <1>3, <1>4, <1>5, <1>6, <1>7, OrderlyStep DEF Orderly

\* What a compensating thread may rely on.
LEMMA Compensating ==
    ASSUME IInv, NEW c \in Threads, call[c].pc # "idle"
    PROVE  /\ call[c] \in CallRecord /\ call[c].attempts \in Nat /\ call[c].order \in Orders
           /\ order[call[c].order].status \in Existing
           /\ call[c].pc \in {"post", "answer"} \/ call[c].attempts > 0 =>
                  order[call[c].order].payment_id # 0 /\ Settled(call[c].order)
<1>1. call[c] \in CallRecord /\ call[c].order \in Orders /\ call[c].attempts \in Nat
  BY SagaAssumption DEF IInv, Whole, Calls, CallsOK, CallRecord, SagaAssumption
<1> QED
  BY <1>1 DEF IInv, Paid, Working, Charged

\* A failed refund is flagged before the thread goes on.
LEMMA FailureSafe ==
    ASSUME IInv, Whole', NEW c \in Threads, call[c].pc \in {"post", "answer"}, RefundFailed(c),
           UNCHANGED queue, PaymentsMove, RefundsAsked
    PROVE  IInv'
<1> DEFINE r == [call[c] EXCEPT !.pc = "cancel"]
<1>1. /\ r \in CallRecord /\ r.order = call[c].order /\ r.attempts = call[c].attempts
      /\ r.pc = "cancel"
  BY Compensating, StepTypes
<1>2. call' = [call EXCEPT ![c] = r]
  BY DEF RefundFailed
<1>3. \A x \in Orders : /\ order'[x].status = order[x].status
                        /\ order'[x].payment_id = order[x].payment_id
                        /\ order[x].history \subseteq order'[x].history
                        /\ x = call[c].order => "FAILED" \in order'[x].history
  BY DEF RefundFailed, IInv, Whole, Rest, OrderRecord
<1> HIDE DEF r
<1>4. call'[c] = r
  BY <1>2 DEF IInv, Whole, Calls, CallsOK
<1>5. Concludes(c)
  BY <1>1, <1>3, <1>4, Compensating DEF Concludes
<1> QED
  BY <1>1, <1>2, <1>3, <1>5, Compensating, CompensationSafe

LEMMA CheckSafe ==
    ASSUME IInv, Whole', NEW c \in Threads, CheckPayment(c)
    PROVE  IInv'
<1> DEFINE pc == IF order[call[c].order].payment_id # 0 THEN "post" ELSE "cancel"
           r == [call[c] EXCEPT !.pc = pc]
<1>1. /\ call[c].pc = "check" /\ call' = [call EXCEPT ![c] = r] /\ call[c].attempts = 0
      /\ UNCHANGED <<order, payment, forgotten, queue>>
  BY DEF CheckPayment, IInv, Whole, Calls, Retrying
<1>2. pc \in {"post", "cancel"} /\ (pc = "post" => order[call[c].order].payment_id # 0)
  OBVIOUS
<1>3. call[c] \in CallRecord
  BY DEF IInv, Whole, Calls, CallsOK
<1> HIDE DEF pc
<1>4. /\ r \in CallRecord /\ r.order = call[c].order /\ r.pc = pc /\ r.attempts = 0
  <2>1. PICK n \in CallRecord : n = call[c]
    BY <1>3
  <2>2. r = [n EXCEPT !.pc = pc] /\ n.attempts = 0
    BY <1>1, <2>1
  <2> QED
    BY <1>2, <2>1, <2>2 DEF CallRecord
<1> HIDE DEF r
<1>5. PaymentsMove /\ RefundsAsked
  BY <1>1, PaymentsStay DEF IInv, Whole
<1>6. call'[c] = r
  BY <1>1 DEF IInv, Whole, Calls, CallsOK
<1>7. Concludes(c)
  BY <1>4, <1>6 DEF Concludes
<1>8. r.pc \in {"post", "answer"} \/ r.attempts > 0 => order[r.order].payment_id # 0
  BY <1>2, <1>4
<1>9. \A x \in Orders : /\ order'[x].status = order[x].status
                        /\ order'[x].payment_id = order[x].payment_id
                        /\ order[x].history \subseteq order'[x].history
  BY <1>1
<1>10. r.pc \in {"post", "answer", "cancel"} /\ call[c].pc \in {"check", "post", "answer"}
  BY <1>1, <1>2, <1>4
<1> QED
  BY <1>1, <1>4, <1>5, <1>7, <1>8, <1>9, <1>10, CompensationSafe

LEMMA PostSafe ==
    ASSUME IInv, Whole', NEW c \in Threads, PostRefund(c)
    PROVE  IInv'
<1>1. call[c].pc = "post" /\ UNCHANGED <<payment, forgotten, queue>>
  BY DEF PostRefund, Posts
<1>2. PaymentsMove /\ RefundsAsked
  BY <1>1, PaymentsStay DEF IInv, Whole
<1>3. CASE RefundFailed(c)
  BY <1>1, <1>2, <1>3, FailureSafe
<1>4. CASE order' = order /\ call' = [call EXCEPT ![c].pc = "answer", ![c].attempts = @ + 1]
  <2> DEFINE r == [call[c] EXCEPT !.pc = "answer", !.attempts = @ + 1]
  <2>1. r \in CallRecord /\ r.order = call[c].order /\ r.pc = "answer"
    <3>1. call[c] \in CallRecord /\ call[c].attempts <= MaxRetries
      BY <1>1 DEF IInv, Whole, Calls, CallsOK, Retrying
    <3> QED
      BY <3>1, StepTypes
  <2>2. call' = [call EXCEPT ![c] = r]
    BY <1>4
  <2> HIDE DEF r
  <2>3. call'[c] = r
    BY <2>2 DEF IInv, Whole, Calls, CallsOK
  <2>4. Concludes(c)
    BY <2>1, <2>3 DEF Concludes
  <2> QED
    BY <1>1, <1>2, <1>4, <2>1, <2>2, <2>4, Compensating, CompensationSafe
<1> QED
  BY <1>3, <1>4 DEF PostRefund, Posts

\* The refund that is answered is made, was made before, or concerns a payment
\* that is forgotten.
LEMMA AnsweredSafe ==
    ASSUME IInv, Whole', NEW c \in Threads, RefundAnswered(c)
    PROVE  IInv'
<1> DEFINE p == order[call[c].order].payment_id
           r == [call[c] EXCEPT !.pc = "cancel"]
<1>1. /\ call[c].pc = "answer" /\ payment' = Refunded(p, FALSE)
      /\ call' = [call EXCEPT ![c] = r] /\ UNCHANGED <<order, forgotten, queue>>
  BY DEF RefundAnswered, Answered
<1>2. /\ p # 0 /\ p \in Nat /\ p \in DOMAIN payment /\ payment[p].status \in {"COMPLETED", "REFUNDED"}
  BY <1>1, Compensating DEF Settled, IInv, Whole, Rest, OrderRecord
<1>3. payment \in Seq(PaymentRecord) /\ forgotten \in 0..Len(payment)
  BY DEF IInv, Whole, PaymentsOK
<1>4. p > forgotten => payment'[p].status = "REFUNDED"
  <2>1. p > forgotten => p \in Known
    BY <1>2, <1>3 DEF Known
  <2> HIDE DEF p
  <2>2. p \in Known /\ payment[p].status = "COMPLETED" => Refunded(p, FALSE)[p].status = "REFUNDED"
    BY <1>3, RefundedType
  <2>3. p \in Known /\ payment[p].status = "REFUNDED" => Refunded(p, FALSE) = payment
    BY DEF Refunded
  <2> QED
    BY <1>1, <1>2, <2>1, <2>2, <2>3
<1>5. PaymentsMove /\ RefundsAsked
  BY <1>1, RefundedMove DEF IInv, Whole
<1>6. r \in CallRecord /\ r.order = call[c].order /\ r.pc = "cancel" /\ r.attempts = call[c].attempts
  BY <1>1, Compensating, StepTypes
<1> HIDE DEF r
<1>7. call'[c] = r
  BY <1>1 DEF IInv, Whole, Calls, CallsOK
<1>8. Concludes(c)
  <2>1. order'[call'[c].order].payment_id = p /\ forgotten' = forgotten /\ forgotten \in Nat
    BY <1>1, <1>3, <1>6, <1>7
  <2> HIDE DEF p
  <2>2. payment'[p].status = "REFUNDED" \/ p <= forgotten
    BY <1>2, <1>4, <2>1
  <2> QED
    BY <2>1, <2>2 DEF Concludes
<1>9. order[r.order].payment_id # 0
  BY <1>2, <1>6
<1>10. \A x \in Orders : /\ order'[x].status = order[x].status
                         /\ order'[x].payment_id = order[x].payment_id
                         /\ order[x].history \subseteq order'[x].history
  BY <1>1
<1> QED
  BY <1>1, <1>5, <1>6, <1>8, <1>9, <1>10, CompensationSafe

LEMMA UnansweredSafe ==
    ASSUME IInv, Whole', NEW c \in Threads, RefundUnanswered(c)
    PROVE  IInv'
<1>1. /\ call[c].pc = "answer" /\ UNCHANGED <<forgotten, queue>>
      /\ payment' \in {payment, Refunded(order[call[c].order].payment_id, FALSE)}
      /\ \/ RefundFailed(c)
         \/ order' = order /\ call' = [call EXCEPT ![c].pc = "post"]
  BY DEF RefundUnanswered, Unanswered
<1>2. PaymentsMove /\ RefundsAsked
  BY <1>1, RefundedMove DEF IInv, Whole
<1>3. CASE RefundFailed(c)
  BY <1>1, <1>2, <1>3, FailureSafe
<1>4. CASE order' = order /\ call' = [call EXCEPT ![c].pc = "post"]
  <2> DEFINE r == [call[c] EXCEPT !.pc = "post"]
  <2>1. r \in CallRecord /\ r.order = call[c].order /\ r.pc = "post"
    BY <1>1, Compensating, StepTypes
  <2>2. call' = [call EXCEPT ![c] = r]
    BY <1>4
  <2> HIDE DEF r
  <2>3. call'[c] = r
    BY <2>2 DEF IInv, Whole, Calls, CallsOK
  <2>4. Concludes(c)
    BY <2>1, <2>3 DEF Concludes
  <2> QED
    BY <1>1, <1>2, <1>4, <2>1, <2>2, <2>4, Compensating, CompensationSafe
<1> QED
  BY <1>1, <1>3, <1>4

LEMMA FinishSafe ==
    ASSUME IInv, Whole', NEW c \in Threads, FinishCancel(c)
    PROVE  IInv'
<1> DEFINE o == call[c].order
<1>1. /\ call[c].pc = "cancel" /\ o \in Orders /\ order[o].status \in Existing /\ Returns(c)
      /\ order' = [order EXCEPT ![o].status = "CANCELLED", ![o].history = @ \cup {"COMPENSATED"}]
      /\ UNCHANGED <<payment, forgotten>>
  BY Compensating DEF FinishCancel
<1>2. \A x \in Orders : /\ order'[x].payment_id = order[x].payment_id
                        /\ order[x].history \subseteq order'[x].history
                        /\ order'[x].status = IF x = o THEN "CANCELLED" ELSE order[x].status
                        /\ x = o => "COMPENSATED" \in order'[x].history
  BY <1>1 DEF IInv, Whole, Rest, OrderRecord
<1>3. call'[c] = IdleCall /\ \A d \in Threads : d # c => call'[d] = call[d]
  BY <1>1 DEF Returns, IInv, Whole, Calls, CallsOK
<1>4. Results \in Seq(MessageRecord)
  BY DEF IInv, Whole, QueuesOK, Results, Queues
<1>5. Messages(Results') \subseteq Messages(Results)
  BY <1>1, <1>4, CallReturns, MessagesOf DEF IInv, Whole
<1>6. PaymentsMove /\ RefundsAsked
  BY <1>1, PaymentsStay DEF IInv, Whole
<1>7. \A x \in Orders : Charges(x)
  <2>1. ASSUME NEW x \in Orders, x = o PROVE Charges(x)
    BY <1>2, <2>1 DEF Charges
  <2>2. ASSUME NEW x \in Orders, x # o PROVE Charges(x)
    <3>1. Noting(x) => Noting(x)'
      BY <1>1, <1>3 DEF Noting, Threads
    <3> QED
      BY <1>2, <2>2, <3>1 DEF Charges
  <2> QED
    BY <2>1, <2>2
<1>8. OrdersMove /\ CallsMove /\ \A d \in Threads : Concludes(d)
  BY <1>1, <1>2, <1>3, IdleType DEF OrdersMove, CallsMove, Concludes, Existing
<1>9. \A d \in Threads : call[d].pc # "idle" => call[d].order \in Orders
  BY DEF IInv, Whole, Calls, CallsOK
<1>10. Writing'
  <2>1. CASE c = Consumer
    BY <1>3, <2>1, IdleType DEF Writing
  <2>2. CASE c # Consumer
    <3>1. call'[Consumer] = call[Consumer] /\ Consumer \in Threads
      BY <1>3, <2>2 DEF Threads
    <3>2. call[c].on = NoOne
      BY <2>2, ConsumerWrites DEF IInv, Whole, Calls
    <3>3. Kept("order.payment_results")
      BY <1>1, <3>2 DEF Kept, Returns
    <3> QED
      BY <1>2, <1>9, <3>1, <3>3, WritingStays DEF IInv, Paid, Whole, Calls
  <2> QED
    BY <2>1, <2>2
<1>11. Working'
  <2>1. "CANCELLED" \in Existing
    BY DEF Existing, OrderStatus
  <2>2. ASSUME NEW d \in Threads, call'[d].pc # "idle"
        PROVE  /\ order'[call'[d].order].status \in Existing
               /\ call'[d].pc \in {"post", "answer"} \/ call'[d].attempts > 0 =>
                      order'[call'[d].order].payment_id # 0
    <3>1. call'[d] = call[d] /\ call[d].order \in Orders
      BY <1>3, <1>9, <2>2, IdleType
    <3>2. /\ order[call[d].order].status \in Existing
          /\ call[d].pc \in {"post", "answer"} \/ call[d].attempts > 0 =>
                 order[call[d].order].payment_id # 0
      BY <2>2, <3>1 DEF IInv, Paid, Working
    <3> QED
      BY <1>2, <2>1, <3>1, <3>2
  <2> QED
    BY <2>2 DEF Working
<1> QED
  BY <1>5, <1>6, <1>7, <1>8, <1>10, <1>11, OrderlyStep DEF Orderly

LEMMA ProceedSafe ==
    ASSUME IInv, Whole', NEW c \in Threads, Proceed(c)
    PROVE  IInv'
BY WriteSafe, NoteSafe, CheckSafe, PostSafe, AnsweredSafe, UnansweredSafe, FinishSafe DEF Proceed

\* A restart of order-service forgets every order, and with it every call.
LEMMA RestartSafe ==
    ASSUME IInv, Whole', RestartOrderService
    PROVE  IInv'
<1>1. /\ \A c \in Threads : call'[c] = IdleCall
      /\ order' = [o \in Orders |->
            IF order[o].status \in Existing THEN [NoOrder EXCEPT !.status = "GONE"] ELSE order[o]]
      /\ UNCHANGED <<forgotten, queue>>
  BY DEF RestartOrderService
<1>2. \A o \in Orders :
          \/ order'[o].status = "GONE" /\ order'[o].payment_id = 0
          \/ order[o].status = "NONE" /\ order'[o] = order[o]
  <2>1. ASSUME NEW o \in Orders
        PROVE  \/ order'[o].status = "GONE" /\ order'[o].payment_id = 0
               \/ order[o].status = "NONE" /\ order'[o] = order[o]
    <3>1. order[o].status \in Existing \cup {"NONE", "GONE"}
      BY DEF IInv, Whole, Rest, OrderRecord, Existing
    <3>2. order[o].status = "GONE" => order[o].payment_id = 0
      BY DEF IInv, Paid, Charged
    <3> QED
      BY <1>1, <3>1, <3>2 DEF NoOrder
  <2> QED
    BY <2>1
<1>3. PaymentsMove /\ RefundsAsked
  <2>1. /\ payment \in Seq(PaymentRecord) /\ payment' \in Seq(PaymentRecord)
        /\ forgotten \in Nat /\ Len(payment') = Len(payment)
        /\ \A q \in DOMAIN payment :
                /\ payment'[q].order = payment[q].order
                /\ \/ payment'[q] = payment[q]
                   \/ /\ payment[q].status = "COMPLETED" /\ payment'[q].status = "REFUNDED"
                      /\ \E c \in Threads : /\ call[c].pc = "answer"
                                            /\ order[call[c].order].payment_id = q
    BY RestartedPayments DEF IInv, Whole, PaymentsOK
  <2>2. DOMAIN payment' = DOMAIN payment
    BY <2>1
  <2> QED
    BY <1>1, <2>1, <2>2 DEF PaymentsMove, RefundsAsked
<1>4. \A o \in Orders : Charges(o)
  <2>1. \A o \in Orders : order[o].status = "NONE" => ~Noting(o)
    BY DEF Noting, Threads, IInv, Paid, Working, Existing
  <2> QED
    BY <1>2, <2>1 DEF Charges
<1>5. OrdersMove /\ CallsMove /\ \A c \in Threads : Concludes(c)
  <2>1. \A c \in Threads : call[c].pc # "idle" =>
            call[c].order \in Orders /\ order[call[c].order].status # "NONE"
    BY DEF IInv, Whole, Calls, CallsOK, Paid, Working, Existing
  <2> QED
    BY <1>1, <1>2, <2>1, IdleType DEF OrdersMove, CallsMove, Concludes
<1>6. Writing' /\ Working'
  BY <1>1, IdleType DEF Writing, Working, Threads
<1>7. Results' = Results
  BY <1>1 DEF Results
<1> QED
  BY <1>3, <1>4, <1>5, <1>6, <1>7, OrderlyStep DEF Orderly

\* What a publication adds to a queue, and that it adds it unless it is lost.
LEMMA PublishedMessages ==
    ASSUME NEW qs \in [Queues -> Seq(MessageRecord)], NEW q \in Queues, NEW key, NEW o \in Orders,
           NEW p \in Nat, Publish(qs, Message(key, o, p)), lost \in Nat
    PROVE  LET m == Message(key, o, p) IN
           /\ Messages(qs[q]) \subseteq Messages(queue'[q])
           /\ Messages(queue'[q]) \subseteq Messages(qs[q]) \cup {m}
           /\ lost' = lost /\ key \in BoundKeys(q) => m \in Messages(queue'[q])
<1> DEFINE m == Message(key, o, p)
<1>1. ASSUME key \in BoundKeys(q)
      PROVE  Messages(Append(qs[q], m)) = Messages(qs[q]) \cup {m}
  <2>1. m \in MessageRecord
    BY <1>1 DEF Message, MessageRecord
  <2> HIDE DEF m
  <2> QED
    BY <2>1, MessagesOf
<1>2. m.key = key
  BY DEF Message
<1> HIDE DEF m
<1>3. \/ queue'[q] = qs[q] /\ (lost' = lost => key \notin BoundKeys(q))
      \/ queue'[q] = Append(qs[q], m) /\ key \in BoundKeys(q)
  BY <1>2 DEF Publish, Route, m
<1> QED
  BY <1>1, <1>3 DEF m

LEMMA SettleSafe ==
    ASSUME IInv, Whole', NEW p \in DOMAIN payment, SettlePayment(p)
    PROVE  IInv'
<1> DEFINE qs == IF payment[p].by = "consumer" THEN Ack("payment.process_payment") ELSE queue
<1>1. /\ payment[p].status = "PROCESSING" /\ Decides(p, "payment.failed", qs)
      /\ UNCHANGED <<order, call, forgotten>>
      /\ payment[p].by = "consumer" => PayQueue # <<>>
  BY SettlesType DEF SettlePayment, Settles, IInv
<1>2. /\ payment \in Seq(PaymentRecord) /\ lost \in Nat /\ forgotten \in Nat
      /\ queue \in [Queues -> Seq(MessageRecord)]
  BY SagaAssumption DEF IInv, Whole, PaymentsOK, QueuesOK, SagaAssumption
<1>3. PaymentsMove /\ RefundsAsked
  BY <1>1, <1>2, DecidedMove DEF IInv, Whole
<1>4. PICK key :
          /\ Publish(qs, Message(key, payment[p].order, p))
          /\ p \in Nat /\ payment[p].order \in Orders /\ p \in DOMAIN payment'
          /\ payment'[p].order = payment[p].order
          /\ key = "payment.processed" => payment'[p].status = "COMPLETED"
  BY <1>1, <1>2, DecidedPayments
<1>5. qs \in [Queues -> Seq(MessageRecord)] /\ qs["order.payment_results"] = Results
  BY <1>1, <1>2, PayAck DEF IInv, Results, OrderQueues, Queues
<1>6. "order.payment_results" \in Queues
  BY DEF Queues
<1>7. Kept("order.payment_results")
  BY <1>4, <1>5, <1>6, PublishKeeps DEF Kept, Results
<1> DEFINE m == Message(key, payment[p].order, p)
<1> HIDE DEF qs
<1>8. Messages(Results') \subseteq Messages(Results) \cup {m}
  <2>1. Messages(queue'["order.payment_results"]) \subseteq Messages(qs["order.payment_results"]) \cup {m}
    BY <1>2, <1>4, <1>5, <1>6, PublishedMessages
  <2> QED
    BY <1>5, <2>1 DEF Results
<1>9. ASSUME NEW n, n = m PROVE Genuine(n)'
  <2>1. n.key = key /\ n.order = payment[p].order /\ n.payment = p
    BY <1>9 DEF Message
  <2> QED
    BY <1>4, <2>1 DEF Genuine
<1> HIDE DEF m
<1>10. \A n \in Messages(Results') : n \in Messages(Results) \/ Genuine(n)'
  BY <1>8, <1>9
<1> QED
  BY <1>1, <1>3, <1>7, <1>10, BystandersStep

LEMMA PaymentRestartSafe ==
    ASSUME IInv, Whole', RestartPaymentService
    PROVE  IInv'
<1>1. /\ UNCHANGED <<order, call>> /\ forgotten' = Len(payment)
      /\ \/ UNCHANGED <<payment, queue, lost>>
         \/ \E p \in InFlight : Decides(p, "payment.failed", queue)
  BY DEF RestartPaymentService
<1>2. /\ payment \in Seq(PaymentRecord) /\ lost \in Nat /\ forgotten \in 0..Len(payment)
      /\ queue \in [Queues -> Seq(MessageRecord)]
  BY SagaAssumption DEF IInv, Whole, PaymentsOK, QueuesOK, SagaAssumption
<1>3. "order.payment_results" \in Queues
  BY DEF Queues
<1>4. CASE UNCHANGED <<payment, queue, lost>>
  <2>1. PaymentsMove /\ RefundsAsked
    BY <1>1, <1>2, <1>4 DEF PaymentsMove, RefundsAsked
  <2> QED
    BY <1>1, <1>4, <2>1, BystandersStep DEF Kept, Results
<1>5. ASSUME NEW p \in InFlight, Decides(p, "payment.failed", queue) PROVE IInv'
  <2>1. p \in DOMAIN payment /\ payment[p].status = "PROCESSING"
    BY <1>2 DEF InFlight, Known
  <2>2. PaymentsMove /\ RefundsAsked
    BY <1>1, <1>2, <1>5, <2>1, DecidedMove DEF IInv, Whole
  <2>3. PICK key :
          /\ Publish(queue, Message(key, payment[p].order, p))
          /\ p \in Nat /\ payment[p].order \in Orders /\ p \in DOMAIN payment'
          /\ payment'[p].order = payment[p].order
          /\ key = "payment.processed" => payment'[p].status = "COMPLETED"
    BY <1>2, <1>5, <2>1, DecidedPayments
  <2>4. Kept("order.payment_results")
    BY <1>2, <1>3, <2>3, PublishedKept
  <2> DEFINE m == Message(key, payment[p].order, p)
  <2>5. Messages(Results') \subseteq Messages(Results) \cup {m}
    BY <1>2, <1>3, <2>3, PublishedMessages DEF Results
  <2>6. ASSUME NEW n, n = m PROVE Genuine(n)'
    <3>1. n.key = key /\ n.order = payment[p].order /\ n.payment = p
      BY <2>6 DEF Message
    <3> QED
      BY <2>3, <3>1 DEF Genuine
  <2> HIDE DEF m
  <2>7. \A n \in Messages(Results') : n \in Messages(Results) \/ Genuine(n)'
    BY <2>5, <2>6
  <2> QED
    BY <1>1, <2>2, <2>4, <2>7, BystandersStep
<1> QED
  BY <1>1, <1>4, <1>5

LEMMA PaymentServiceSafe ==
    ASSUME IInv, Whole'
    PROVE  /\ OnOrderCreated => IInv'
           /\ \A o \in Orders : PostPayment(o) => IInv'
           /\ \A p \in DOMAIN payment : RefundDirectly(p) => IInv'
<1>t. PaymentsOK
  BY DEF IInv, Whole
<1>1. ASSUME NEW o \in Orders, PostPayment(o) PROVE IInv'
  <2>1. UNCHANGED <<order, call, forgotten, queue>> /\ payment' = Started(o, "http")
    BY <1>1 DEF PostPayment
  <2>2. PaymentsMove /\ RefundsAsked
    BY <1>t, <2>1, StartedMove
  <2> QED
    BY <2>1, <2>2, BystandersStep DEF Kept, Results
<1>2. ASSUME OnOrderCreated PROVE IInv'
  <2>1. /\ UNCHANGED <<order, call, forgotten>> /\ PayQueue # <<>>
        /\ \/ queue' = Ack("payment.process_payment") /\ payment' = payment
           \/ payment' = Started(Head(PayQueue).order, "consumer") /\ queue' = queue
    BY <1>2 DEF OnOrderCreated, PayQueue
  <2>2. /\ Head(PayQueue).order \in Orders
        /\ \A q \in OrderQueues : Ack("payment.process_payment")[q] = queue[q]
    BY <2>1, PayAck DEF IInv
  <2>3. Results' = Results /\ Kept("order.payment_results")
    BY <2>1, <2>2 DEF Results, Kept, OrderQueues, Queues
  <2>4. PaymentsMove /\ RefundsAsked
    BY <1>t, <2>1, <2>2, PaymentsStay, StartedMove
  <2> QED
    BY <2>1, <2>3, <2>4, BystandersStep
<1>3. ASSUME NEW p \in DOMAIN payment, RefundDirectly(p) PROVE IInv'
  <2>1. UNCHANGED <<order, call, forgotten, queue>> /\ payment' = Refunded(p, TRUE)
    BY <1>3 DEF RefundDirectly
  <2>2. PaymentsMove /\ RefundsAsked
    BY <1>t, <2>1, RefundedMove
  <2> QED
    BY <2>1, <2>2, BystandersStep DEF Kept, Results
<1> QED
  BY <1>1, <1>2, <1>3

\* What restaurants and couriers publish, and the breaker's clock.
LEMMA OthersSafe ==
    ASSUME IInv, Whole'
    PROVE  /\ \A o \in Orders, key \in RestaurantCalls : RestaurantPublishes(o, key) => IInv'
           /\ \A o \in Orders : AssignDeliverer(o) \/ UpdateLocation(o) \/ ConfirmDelivery(o) => IInv'
           /\ RecoveryTimeout => IInv'
           /\ UNCHANGED vars => IInv'
<1>1. ASSUME UNCHANGED <<order, call, payment, forgotten>>, Results' = Results PROVE IInv'
  BY <1>1, PaymentsStay, BystandersStep DEF IInv, Whole, Kept, Results
<1>2. ASSUME NEW o \in Orders, NEW key \in RestaurantCalls, RestaurantPublishes(o, key) PROVE IInv'
  <2>1. key \notin {"payment.processed", "payment.failed"}
    BY SagaAssumption DEF SagaAssumption, RestaurantKeys
  <2> QED
    BY <1>1, <1>2, <2>1, Elsewhere DEF RestaurantPublishes, IInv, Whole
<1>3. ASSUME NEW o \in Orders, AssignDeliverer(o) \/ UpdateLocation(o) \/ ConfirmDelivery(o) PROVE IInv'
  <2>1. PICK key \in {"delivery.assigned", InTransitKey, "delivery.completed"} :
            \E from, to : DeliveryPublishes(o, key, from, to)
    BY <1>3 DEF AssignDeliverer, UpdateLocation, ConfirmDelivery
  <2>2. key \notin {"payment.processed", "payment.failed"}
    BY SagaAssumption DEF SagaAssumption
  <2> QED
    BY <1>1, <2>1, <2>2, Elsewhere DEF DeliveryPublishes, IInv, Whole
<1>4. ASSUME RecoveryTimeout \/ UNCHANGED vars PROVE IInv'
  BY <1>1, <1>4 DEF RecoveryTimeout, vars, Results
<1> QED
  BY <1>2, <1>3, <1>4

LEMMA CancelSafe ==
    ASSUME IInv, Whole', NEW c \in Clients, NEW o \in Orders, CancelOrder(c, o)
    PROVE  IInv'
<1> DEFINE r == [IdleCall EXCEPT !.pc = "check", !.order = o]
<1>1. /\ call[c].pc = "idle" /\ order[o].status \in {"CREATED", "PAID"} /\ c \in Threads
      /\ call' = [call EXCEPT ![c] = r] /\ UNCHANGED <<order, payment, forgotten, queue>>
  BY DEF CancelOrder, Threads
<1>2. r.attempts = 0 /\ r.pc = "check" /\ r.order = o
  BY DEF IdleCall
<1>3. order[o].status \in Existing
  BY <1>1 DEF Existing, OrderStatus
<1> HIDE DEF r
<1> QED
  BY <1>1, <1>2, <1>3, BeginsSafe

LEMMA NextSafe == IInv /\ [Next]_vars => IInv'
<1> SUFFICES ASSUME IInv, [Next]_vars PROVE IInv'
  OBVIOUS
<1>1. Whole'
  BY NextWhole DEF IInv
<1> QED
  BY <1>1, CreateSafe, CancelSafe, ConsumeSafe, ProceedSafe, RestartSafe, SettleSafe,
     PaymentRestartSafe, PaymentServiceSafe, OthersSafe DEF Next

LEMMA InitSafe == Init => IInv
<1> SUFFICES ASSUME Init PROVE IInv
  OBVIOUS
<1>1. Whole
  BY InitWhole
<1>2. DOMAIN payment = {}
  BY DEF Init
<1>3. \A o \in Orders : order[o].status = "NONE" /\ order[o].payment_id = 0
  BY DEF Init, NoOrder
<1>4. \A c \in Threads : call[c].pc = "idle"
  BY DEF Init, IdleCall
<1>5. Messages(Results) = {}
  BY DEF Init, Messages, Results, Queues
<1>6. Consumer \in Threads
  BY DEF Threads
<1>7. Paid
  BY <1>3, <1>4, <1>5, <1>6 DEF Paid, Announced, Writing, Charged, Working, InService
<1>8. RefundMeansCancelling /\ NoSilentRefundFailure
  BY <1>2, <1>4 DEF RefundMeansCancelling, NoSilentRefundFailure, RefundOrFlag
<1> QED
  BY <1>1, <1>7, <1>8 DEF IInv

LEMMA IInvHolds == Spec => []IInv
<1>1. Init => IInv
  BY InitSafe
<1>2. IInv /\ [Next]_vars => IInv'
  BY NextSafe
<1> QED
  BY <1>1, <1>2, PTL DEF Spec

\* Whatever order the events come in, an order in service is paid for by a
\* payment that was made for it and succeeded, or its handler, which has a
\* genuine announcement in hand, is about to note it.
THEOREM ServedOrdersPaid == Spec => []ServedOrdersArePaid
<1>1. IInv => ServedOrdersArePaid
  BY DEF IInv, Paid, Charged, ServedOrdersArePaid, Noting
<1> QED
  BY <1>1, IInvHolds, PTL

\* A refund order-service has asked for belongs to a cancellation of the order
\* that knows the payment, over or under way, whoever else refunds payments and
\* whatever process restarts.
THEOREM RefundsBelongToCancellations == Spec => []RefundMeansCancelling
BY IInvHolds, PTL DEF IInv

\* A refund that was not made is flagged, unless payment-service has forgotten
\* the payment and answered 404.
THEOREM RefundFailuresAreFlagged == Spec => []NoSilentRefundFailure
BY IInvHolds, PTL DEF IInv

-----------------------------------------------------------------------------
(* No order is left behind.  Quiet steps, those of order-service's threads
   among them, leave the payment of an order that is still CREATED as far as
   it was: they acknowledge a result only for an order that is CREATED no
   more. *)

PaymentsQuiet ==
    /\ DOMAIN payment' = DOMAIN payment /\ forgotten' = forgotten
    /\ \A p \in DOMAIN payment :
        /\ payment'[p].order = payment[p].order /\ payment'[p].by = payment[p].by
        /\ payment'[p].status = "PROCESSING" <=> payment[p].status = "PROCESSING"

OrdersQuiet ==
    \A o \in Orders : order'[o].status \in {"NONE", "CREATED"} => order[o].status = order'[o].status

Quiet ==
    /\ PaymentsQuiet /\ OrdersQuiet
    /\ lost \in Nat /\ lost' \in Nat /\ lost <= lost'
    /\ Messages(PayQueue') = Messages(PayQueue)
    /\ \A m \in Messages(Results) :
          m \in Messages(Results') \/ order'[m.order].status # "CREATED"

\* Where an order's payment can be, in terms of messages and payments.
LEMMA UnderWayIs ==
    ASSUME NEW o \in Orders
    PROVE  UnderWay(o) <=>
             \/ \E m \in Messages(PayQueue) : m.order = o
             \/ \E p \in Known : payment[p].order = o /\ payment[p].status = "PROCESSING"
             \/ \E m \in Messages(Results) : m.order = o
BY DEF UnderWay, Unread, Messages, PayQueue, Results, PaymentsOf

LEMMA KnownPayments ==
    ASSUME PaymentsOK
    PROVE  /\ Known \subseteq DOMAIN payment /\ 1..forgotten \subseteq DOMAIN payment
           /\ DOMAIN payment = Known \cup 1..forgotten
           /\ \A p \in DOMAIN payment : payment[p].order \in Orders /\ payment[p] \in PaymentRecord
<1>1. /\ DOMAIN payment = 1..Len(payment) /\ Len(payment) \in Nat /\ forgotten \in 0..Len(payment)
      /\ \A p \in DOMAIN payment : payment[p] \in PaymentRecord
  BY DEF PaymentsOK
<1>2. /\ Known \subseteq DOMAIN payment /\ 1..forgotten \subseteq DOMAIN payment
      /\ DOMAIN payment = Known \cup 1..forgotten
  BY <1>1 DEF Known
<1> QED
  BY <1>1, <1>2 DEF PaymentRecord

LEMMA KnownQuiet ==
    ASSUME PaymentsOK, PaymentsOK', PaymentsQuiet
    PROVE  Known' = Known
<1>1. Len(payment) \in Nat /\ Len(payment') \in Nat /\ 1..Len(payment') = 1..Len(payment)
  BY DEF PaymentsOK, PaymentsQuiet
<1>2. Len(payment') = Len(payment)
  BY <1>1
<1> QED
  BY <1>2 DEF Known, PaymentsQuiet

LEMMA QuietStep ==
    ASSUME UnderWayInv, IInv', Quiet
    PROVE  UnderWayInv'
<1>1. PaymentsOK /\ PaymentsOK' /\ Known' = Known
  BY KnownQuiet DEF UnderWayInv, IInv, Whole, Quiet
<1>2. /\ Known \subseteq DOMAIN payment /\ 1..forgotten \subseteq DOMAIN payment
      /\ \A p \in DOMAIN payment : payment[p].order \in Orders
  BY <1>1, KnownPayments
<1>3. Unplaced'
  BY DEF UnderWayInv, Unplaced, Quiet, PaymentsQuiet, OrdersQuiet
<1>4. Told'
  <2> SUFFICES ASSUME lost' = 0, NEW p \in DOMAIN payment',
                      order'[payment'[p].order].status = "CREATED", payment'[p].status # "PROCESSING"
               PROVE  \E m \in Messages(Results') : m.order = payment'[p].order
    BY DEF Told
  <2>1. /\ p \in DOMAIN payment /\ payment'[p].order = payment[p].order /\ payment[p].order \in Orders
        /\ order[payment[p].order].status = "CREATED" /\ payment[p].status # "PROCESSING" /\ lost = 0
    BY <1>2 DEF Quiet, PaymentsQuiet, OrdersQuiet
  <2>2. PICK m \in Messages(Results) : m.order = payment[p].order
    BY <2>1 DEF UnderWayInv, Told
  <2> QED
    BY <2>1, <2>2 DEF Quiet
<1>5. PaymentUnderWay'
  <2> SUFFICES ASSUME lost' = 0, NEW o \in Orders \ Free, order'[o].status = "CREATED"
               PROVE  UnderWay(o)' \/ CutShort(o)'
    BY DEF PaymentUnderWay
  <2>1. order[o].status = "CREATED" /\ lost = 0
    BY DEF Quiet, OrdersQuiet
  <2>2. CutShort(o) => CutShort(o)'
    BY <1>2 DEF CutShort, Quiet, PaymentsQuiet
  <2>3. UnderWay(o) => \/ \E m \in Messages(PayQueue') : m.order = o
                       \/ \E p \in Known' : payment'[p].order = o /\ payment'[p].status = "PROCESSING"
                       \/ \E m \in Messages(Results') : m.order = o
    BY <1>1, <1>2, UnderWayIs DEF Quiet, PaymentsQuiet
  <2>4. UnderWay(o)' <=> \/ \E m \in Messages(PayQueue') : m.order = o
                         \/ \E p \in Known' : payment'[p].order = o /\ payment'[p].status = "PROCESSING"
                         \/ \E m \in Messages(Results') : m.order = o
    BY DEF UnderWay, Unread, Messages, PayQueue, Results, PaymentsOf
  <2> QED
    BY <2>1, <2>2, <2>3, <2>4 DEF UnderWayInv, PaymentUnderWay
<1> QED
  BY <1>3, <1>4, <1>5 DEF UnderWayInv

LEMMA PaymentsStayQuiet ==
    ASSUME UNCHANGED <<payment, forgotten>>
    PROVE  PaymentsQuiet
BY DEF PaymentsQuiet

LEMMA RefundedQuiet ==
    ASSUME PaymentsOK, UNCHANGED forgotten, NEW p, NEW byHand \in BOOLEAN,
           payment' \in {payment, Refunded(p, byHand)}
    PROVE  PaymentsQuiet
<1>1. CASE payment' = payment
  BY <1>1, PaymentsStayQuiet
<1>2. CASE payment' = Refunded(p, byHand)
  <2>1. /\ payment' \in Seq(PaymentRecord) /\ Len(payment') = Len(payment)
        /\ \A q \in DOMAIN payment :
              /\ payment'[q].order = payment[q].order /\ payment'[q].by = payment[q].by
              /\ \/ payment'[q] = payment[q]
                 \/ payment[q].status = "COMPLETED" /\ payment'[q].status = "REFUNDED"
    BY <1>2, RefundedType DEF PaymentsOK
  <2>2. DOMAIN payment' = DOMAIN payment
    BY <2>1 DEF PaymentsOK
  <2> QED
    BY <2>1, <2>2 DEF PaymentsQuiet
<1> QED
  BY <1>1, <1>2

\* Returning from a handler leaves payment-service's queue alone, and drops at
\* most the result that was handled.
LEMMA ReturnsQuiet ==
    ASSUME Whole, NEW c \in Threads, call[c].pc # "idle", Returns(c)
    PROVE  /\ PayQueue' = PayQueue
           /\ \A m \in Messages(Results) : m \in Messages(Results') \/ m.order = call[c].order
<1>1. Results \in Seq(MessageRecord)
  BY DEF Whole, QueuesOK, Results, Queues
<1> QED
  BY <1>1, CallReturns, MessagesOf DEF Whole

LEMMA ProceedQuiet ==
    ASSUME IInv, NEW c \in Threads, Proceed(c)
    PROVE  Quiet
<1> DEFINE o == call[c].order
<1>1. /\ Whole /\ PaymentsOK /\ lost \in Nat /\ order \in [Orders -> OrderRecord]
      /\ call[c].pc # "idle" => o \in Orders
  BY SagaAssumption DEF IInv, Whole, QueuesOK, Rest, Calls, CallsOK, SagaAssumption
<1>2. ASSUME call[c].pc # "idle", Returns(c), PaymentsQuiet, OrdersQuiet, UNCHANGED lost,
             order'[o].status # "CREATED"
      PROVE  Quiet
  <2>1. /\ PayQueue' = PayQueue
        /\ \A m \in Messages(Results) : m \in Messages(Results') \/ m.order = o
    BY <1>1, <1>2, ReturnsQuiet
  <2> QED
    BY <1>1, <1>2, <2>1 DEF Quiet
<1>3. ASSUME UNCHANGED queue, PaymentsQuiet, OrdersQuiet, UNCHANGED lost
      PROVE  Quiet
  BY <1>1, <1>3 DEF Quiet, PayQueue, Results
<1>4. \A x \in Orders : order[x] \in OrderRecord
  BY <1>1
<1>5. CASE WriteStatus(c)
  <2>1. /\ call[c].pc = "write" /\ call[c].to \in InService \cup {"DELIVERED"}
        /\ order' = [order EXCEPT ![o].status = call[c].to] /\ UNCHANGED <<payment, forgotten, lost>>
        /\ queue' = queue \/ Returns(c)
    BY <1>5 DEF WriteStatus, IInv, Whole, Calls, Handling
  <2>2. PaymentsQuiet
    BY <1>1, <2>1, PaymentsStayQuiet
  <2>3. OrdersQuiet /\ order'[o].status # "CREATED"
    BY <1>1, <1>4, <2>1 DEF OrdersQuiet, InService, OrderRecord
  <2> QED
    BY <1>2, <1>3, <2>1, <2>2, <2>3
<1>6. CASE NotePayment(c)
  <2>1. /\ call[c].pc = "note" /\ c = Consumer /\ Returns(c) /\ UNCHANGED <<payment, forgotten, lost>>
        /\ order' = [order EXCEPT ![o].payment_id = Head(queue[call[c].on]).payment]
    BY <1>6, ConsumerWrites DEF NotePayment, IInv, Whole, Calls
  <2>2. PaymentsQuiet
    BY <1>1, <2>1, PaymentsStayQuiet
  <2>3. order[o].status \in {"PAID", "CANCELLED"}
    BY <2>1 DEF IInv, Paid, Writing
  <2>4. OrdersQuiet /\ order'[o].status # "CREATED"
    BY <1>1, <1>4, <2>1, <2>3 DEF OrdersQuiet, OrderRecord
  <2> QED
    BY <1>2, <2>1, <2>2, <2>4
<1>7. CASE CheckPayment(c)
  <2>1. UNCHANGED <<order, payment, forgotten, lost, queue>>
    BY <1>7 DEF CheckPayment
  <2> QED
    BY <1>1, <1>3, <2>1, PaymentsStayQuiet DEF OrdersQuiet
<1>8. ASSUME RefundFailed(c), call[c].pc # "idle" PROVE OrdersQuiet
  BY <1>1, <1>4, <1>8 DEF RefundFailed, OrdersQuiet, OrderRecord
<1>9. CASE PostRefund(c)
  <2>1. /\ UNCHANGED <<payment, forgotten, lost, queue>> /\ call[c].pc # "idle"
        /\ order' = order \/ RefundFailed(c)
    BY <1>9 DEF PostRefund, Posts
  <2>2. OrdersQuiet
    BY <1>8, <2>1 DEF OrdersQuiet
  <2> QED
    BY <1>1, <1>3, <2>1, <2>2, PaymentsStayQuiet
<1>10. CASE RefundAnswered(c) \/ RefundUnanswered(c)
  <2>1. /\ UNCHANGED <<forgotten, lost, queue>> /\ call[c].pc # "idle"
        /\ payment' \in {payment, Refunded(order[call[c].order].payment_id, FALSE)}
        /\ order' = order \/ RefundFailed(c)
    BY <1>10 DEF RefundAnswered, Answered, RefundUnanswered, Unanswered
  <2>2. OrdersQuiet
    BY <1>8, <2>1 DEF OrdersQuiet
  <2>3. PaymentsQuiet
    BY <1>1, <2>1, RefundedQuiet
  <2> QED
    BY <1>3, <2>1, <2>2, <2>3
<1>11. CASE FinishCancel(c)
  <2>1. /\ call[c].pc = "cancel" /\ Returns(c) /\ UNCHANGED <<payment, forgotten, lost>>
        /\ order' = [order EXCEPT ![o].status = "CANCELLED", ![o].history = @ \cup {"COMPENSATED"}]
    BY <1>11 DEF FinishCancel
  <2>2. PaymentsQuiet
    BY <1>1, <2>1, PaymentsStayQuiet
  <2>3. OrdersQuiet /\ order'[o].status # "CREATED"
    BY <1>1, <1>4, <2>1 DEF OrdersQuiet, OrderRecord
  <2> QED
    BY <1>2, <2>1, <2>2, <2>3
<1> QED
  BY <1>5, <1>6, <1>7, <1>9, <1>10, <1>11 DEF Proceed

\* A result is ignored only for an order that is no longer CREATED.
LEMMA TakesQuiet ==
    ASSUME IInv, NEW q \in OrderQueues, NEW key, NEW from, NEW next, Takes(q, key, from, next),
           q = "order.payment_results" => "CREATED" \in from
    PROVE  Quiet
<1> DEFINE m == Head(queue[q])
<1>1. /\ UNCHANGED <<order, payment, forgotten, lost>> /\ queue[q] # <<>>
      /\ queue' = queue \/ (queue' = Ack(q) /\ order[m.order].status \notin from)
  BY DEF Takes, Receives
<1>2. lost \in Nat /\ PaymentsOK /\ queue \in [Queues -> Seq(MessageRecord)]
  BY SagaAssumption DEF IInv, Whole, QueuesOK, SagaAssumption
<1>3. PaymentsQuiet /\ OrdersQuiet
  BY <1>1, <1>2, PaymentsStayQuiet DEF OrdersQuiet
<1>4. CASE queue' = queue
  BY <1>1, <1>2, <1>3, <1>4 DEF Quiet, PayQueue, Results
<1>5. CASE queue' = Ack(q) /\ order[m.order].status \notin from
  <2>1. /\ PayQueue' = PayQueue /\ Ack(q)[q] = Tail(queue[q])
        /\ \A r \in Queues \ {q} : Ack(q)[r] = queue[r]
    BY <1>1, <1>2, <1>5, AckType DEF OrderQueues, PayQueue, Queues
  <2>2. CASE q = "order.payment_results"
    <3>1. Messages(Results) \subseteq Messages(Results') \cup {m}
      BY <1>1, <1>2, <1>5, <2>1, <2>2, MessagesOf DEF Results, Queues
    <3> QED
      BY <1>1, <1>2, <1>3, <1>5, <2>1, <2>2, <3>1 DEF Quiet
  <2>3. CASE q # "order.payment_results"
    <3>1. Results' = Results
      BY <1>5, <2>1, <2>3 DEF Results, Queues
    <3> QED
      BY <1>1, <1>2, <1>3, <2>1, <3>1 DEF Quiet
  <2> QED
    BY <2>2, <2>3
<1> QED
  BY <1>1, <1>4, <1>5

LEMMA ConsumeQuiet ==
    ASSUME IInv, Consume
    PROVE  Quiet
<1>1. "CREATED" \in Existing \ {"CANCELLED"}
  BY DEF Existing, OrderStatus
<1>2. {"order.payment_results", "order.restaurant_updates", "order.delivery_updates"} \subseteq OrderQueues
  BY DEF OrderQueues, Queues
<1>3. CASE OnPaymentProcessed \/ OnPaymentFailed
  BY <1>1, <1>2, <1>3, TakesQuiet DEF OnPaymentProcessed, OnPaymentFailed
<1>4. CASE OnOrderAccepted \/ OnOrderPreparing \/ OnOrderReady \/ OnOrderRejected
  BY <1>2, <1>4, TakesQuiet DEF OnOrderAccepted, OnOrderPreparing, OnOrderReady, OnOrderRejected
<1>5. CASE OnDeliveryAssigned \/ OnDeliveryInProgress \/ OnDeliveryCompleted
  BY <1>2, <1>5, TakesQuiet DEF OnDeliveryAssigned, OnDeliveryInProgress, OnDeliveryCompleted
<1> QED
  BY <1>3, <1>4, <1>5 DEF Consume

LEMMA OthersQuiet ==
    ASSUME IInv, IInv'
    PROVE  /\ \A c \in Clients, o \in Orders : CancelOrder(c, o) => Quiet
           /\ \A o \in Orders, key \in RestaurantCalls : RestaurantPublishes(o, key) => Quiet
           /\ \A o \in Orders : AssignDeliverer(o) \/ UpdateLocation(o) \/ ConfirmDelivery(o) => Quiet
           /\ \A p \in DOMAIN payment : RefundDirectly(p) => Quiet
           /\ RestartOrderService => Quiet
           /\ RecoveryTimeout \/ UNCHANGED vars => Quiet
<1>1. /\ PaymentsOK /\ QueuesOK /\ lost \in Nat /\ lost' \in Nat
  BY SagaAssumption DEF IInv, Whole, QueuesOK, SagaAssumption
<1>2. ASSUME UNCHANGED order, PaymentsQuiet, lost <= lost',
             Messages(PayQueue') = Messages(PayQueue), Messages(Results') = Messages(Results)
      PROVE  Quiet
  BY <1>1, <1>2 DEF Quiet, OrdersQuiet
<1>3. ASSUME UNCHANGED <<order, payment, forgotten>>,
             NEW key, key \notin {"order.created", "payment.processed", "payment.failed"}, NEW o,
             Publish(queue, Message(key, o, 0))
      PROVE  Quiet
  <2>1. Results' = Results /\ PayQueue' = PayQueue
    BY <1>1, <1>3, Elsewhere
  <2>2. lost <= lost'
    BY <1>1, <1>3 DEF Publish
  <2> QED
    BY <1>2, <1>3, <2>1, <2>2, PaymentsStayQuiet
<1>4. ASSUME NEW o \in Orders, NEW key \in RestaurantCalls, RestaurantPublishes(o, key) PROVE Quiet
  <2>1. key \notin {"order.created", "payment.processed", "payment.failed"}
    BY SagaAssumption DEF SagaAssumption, RestaurantKeys
  <2> QED
    BY <1>3, <1>4, <2>1 DEF RestaurantPublishes
<1>5. ASSUME NEW o \in Orders, AssignDeliverer(o) \/ UpdateLocation(o) \/ ConfirmDelivery(o) PROVE Quiet
  <2>1. PICK key \in {"delivery.assigned", InTransitKey, "delivery.completed"} :
            \E from, to : DeliveryPublishes(o, key, from, to)
    BY <1>5 DEF AssignDeliverer, UpdateLocation, ConfirmDelivery
  <2>2. key \notin {"order.created", "payment.processed", "payment.failed"}
    BY SagaAssumption DEF SagaAssumption
  <2> QED
    BY <1>3, <2>1, <2>2 DEF DeliveryPublishes
<1>6. ASSUME NEW p \in DOMAIN payment, RefundDirectly(p) PROVE Quiet
  <2>1. PaymentsQuiet
    BY <1>1, <1>6, RefundedQuiet DEF RefundDirectly
  <2> QED
    BY <1>1, <1>2, <1>6, <2>1 DEF RefundDirectly, PayQueue, Results
<1>7. ASSUME RestartOrderService PROVE Quiet
  <2>1. /\ UNCHANGED <<forgotten, queue, lost>>
        /\ order' = [o \in Orders |->
              IF order[o].status \in Existing THEN [NoOrder EXCEPT !.status = "GONE"] ELSE order[o]]
    BY <1>7 DEF RestartOrderService
  <2>2. /\ payment' \in Seq(PaymentRecord) /\ Len(payment') = Len(payment)
        /\ \A q \in DOMAIN payment :
              /\ payment'[q].order = payment[q].order /\ payment'[q].by = payment[q].by
              /\ \/ payment'[q] = payment[q]
                 \/ payment[q].status = "COMPLETED" /\ payment'[q].status = "REFUNDED"
    BY <1>1, <1>7, RestartedPayments DEF PaymentsOK
  <2>3. DOMAIN payment' = DOMAIN payment
    BY <1>1, <2>2 DEF PaymentsOK
  <2>4. PaymentsQuiet
    BY <2>1, <2>2, <2>3 DEF PaymentsQuiet
  <2>5. OrdersQuiet
    BY <2>1 DEF OrdersQuiet, NoOrder
  <2> QED
    BY <1>1, <2>1, <2>4, <2>5 DEF Quiet, PayQueue, Results
<1>8. ASSUME UNCHANGED <<order, payment, forgotten, queue, lost>> PROVE Quiet
  BY <1>1, <1>2, <1>8, PaymentsStayQuiet DEF PayQueue, Results
<1> QED
  BY <1>4, <1>5, <1>6, <1>7, <1>8 DEF CancelOrder, RecoveryTimeout, vars

-----------------------------------------------------------------------------
(* The steps that take the payment of an order further. *)

LEMMA CreateFollowed ==
    ASSUME UnderWayInv, IInv', NEW x \in Orders, CreateOrder(x)
    PROVE  UnderWayInv'
<1> DEFINE m == Message("order.created", x, 0)
<1>1. /\ order[x].status = "NONE" /\ order' = [order EXCEPT ![x].status = "CREATED"]
      /\ UNCHANGED <<payment, forgotten>> /\ Publish(queue, m)
  BY DEF CreateOrder
<1>2. /\ QueuesOK /\ PaymentsOK /\ lost \in Nat /\ queue \in [Queues -> Seq(MessageRecord)]
      /\ order \in [Orders -> OrderRecord]
  BY SagaAssumption DEF UnderWayInv, IInv, Whole, QueuesOK, Rest, SagaAssumption
<1>3. /\ Messages(PayQueue) \subseteq Messages(PayQueue')
      /\ Messages(PayQueue') \subseteq Messages(PayQueue) \cup {m}
      /\ lost' = lost => m \in Messages(PayQueue')
  BY <1>1, <1>2, PublishedMessages DEF PayQueue, Queues, BoundKeys
<1>4. Results' = Results /\ m.order = x
  BY <1>1, <1>2, Elsewhere DEF Message
<1>5. \A o \in Orders : order'[o].status = IF o = x THEN "CREATED" ELSE order[o].status
  BY <1>1, <1>2 DEF OrderRecord
<1>6. lost' \in {lost, lost + 1}
  BY <1>1 DEF Publish
<1> HIDE DEF m
<1>7. Unplaced'
  BY <1>1, <1>3, <1>4, <1>5 DEF UnderWayInv, Unplaced
<1>8. \A p \in DOMAIN payment : payment[p].order \in Orders /\ payment[p].order # x
  BY <1>1, <1>2, KnownPayments DEF UnderWayInv, Unplaced
<1>9. Told'
  BY <1>1, <1>2, <1>4, <1>5, <1>6, <1>8 DEF UnderWayInv, Told
<1>10. PaymentUnderWay'
  <2> SUFFICES ASSUME lost' = 0, NEW o \in Orders \ Free, order'[o].status = "CREATED"
               PROVE  UnderWay(o)' \/ CutShort(o)'
    BY DEF PaymentUnderWay
  <2>1. UnderWay(o)' <=> \/ \E n \in Messages(PayQueue') : n.order = o
                         \/ \E p \in Known' : payment'[p].order = o /\ payment'[p].status = "PROCESSING"
                         \/ \E n \in Messages(Results') : n.order = o
    BY DEF UnderWay, Unread, Messages, PayQueue, Results, PaymentsOf
  <2>2. lost' = lost /\ lost = 0
    BY <1>2, <1>6
  <2>3. CASE o = x
    BY <1>3, <1>4, <2>1, <2>2, <2>3
  <2>4. CASE o # x
    <3>1. UnderWay(o) \/ CutShort(o)
      BY <1>5, <2>2, <2>4 DEF UnderWayInv, PaymentUnderWay
    <3>2. CutShort(o) => CutShort(o)'
      BY <1>1 DEF CutShort
    <3>3. Known' = Known
      BY <1>1 DEF Known
    <3>4. UnderWay(o) => UnderWay(o)'
      BY <1>1, <1>3, <1>4, <2>1, <3>3, UnderWayIs
    <3> QED
      BY <3>1, <3>2, <3>4
  <2> QED
    BY <2>3, <2>4
<1> QED
  BY <1>7, <1>9, <1>10 DEF UnderWayInv

LEMMA StartFollowed ==
    ASSUME UnderWayInv, IInv', NEW o \in Orders, NEW by \in {"consumer", "http"},
           payment' = Started(o, by), order[o].status # "NONE", UNCHANGED <<order, queue, forgotten, lost>>
    PROVE  UnderWayInv'
<1> DEFINE n == Len(payment) + 1
<1>1. PaymentsOK /\ NewPayment(o, by).order = o /\ NewPayment(o, by).status = "PROCESSING"
  BY DEF UnderWayInv, IInv, Whole, NewPayment
<1>2. /\ DOMAIN payment' = DOMAIN payment \cup {n} /\ n \notin DOMAIN payment
      /\ \A p \in DOMAIN payment : payment'[p] = payment[p]
      /\ payment'[n].order = o /\ payment'[n].status = "PROCESSING" /\ Len(payment') = n
  BY <1>1, StartedPayment DEF PaymentsOK
<1>3. Known \subseteq Known' /\ Known \subseteq DOMAIN payment /\ 1..forgotten \subseteq DOMAIN payment
  BY <1>1, <1>2, KnownPayments DEF Known, PaymentsOK
<1> HIDE DEF n
<1>4. Unplaced'
  BY <1>2 DEF UnderWayInv, Unplaced, PayQueue
<1>5. Told'
  BY <1>2 DEF UnderWayInv, Told, Results
<1>6. PaymentUnderWay'
  <2> SUFFICES ASSUME lost' = 0, NEW x \in Orders \ Free, order'[x].status = "CREATED"
               PROVE  UnderWay(x)' \/ CutShort(x)'
    BY DEF PaymentUnderWay
  <2>1. UnderWay(x) \/ CutShort(x)
    BY DEF UnderWayInv, PaymentUnderWay
  <2>2. CutShort(x) => CutShort(x)'
    BY <1>2, <1>3 DEF CutShort
  <2>3. UnderWay(x) => UnderWay(x)'
    BY <1>2, <1>3 DEF UnderWay, Unread, PaymentsOf
  <2> QED
    BY <2>1, <2>2, <2>3
<1> QED
  BY <1>4, <1>5, <1>6 DEF UnderWayInv

\* order.created is acknowledged without a payment for an order whose price is
\* refused, or which has a payment known to be in process or completed: a
\* completed one was announced.
LEMMA CreatedFollowed ==
    ASSUME UnderWayInv, IInv', OnOrderCreated
    PROVE  UnderWayInv'
<1> DEFINE o == Head(PayQueue).order
<1>1. PayQueue # <<>> /\ UNCHANGED <<order, forgotten, lost>>
  BY DEF OnOrderCreated, PayQueue
<1>2. /\ PaymentsOK /\ PayQueue \in Seq(MessageRecord) /\ o \in Orders
      /\ Ack("payment.process_payment")["payment.process_payment"] = Tail(PayQueue)
      /\ Ack("payment.process_payment")["order.payment_results"] = Results
  BY <1>1, PayAck DEF UnderWayInv, IInv, Whole, QueuesOK, Results, PayQueue, OrderQueues, Queues
<1>3. /\ Head(PayQueue) \in Messages(PayQueue)
      /\ Messages(Tail(PayQueue)) \subseteq Messages(PayQueue)
      /\ Messages(PayQueue) \subseteq Messages(Tail(PayQueue)) \cup {Head(PayQueue)}
  BY <1>1, <1>2, MessagesOf
<1>4. order[o].status # "NONE"
  BY <1>2, <1>3 DEF UnderWayInv, Unplaced
<1>5. CASE payment' = Started(o, "consumer") /\ queue' = queue
  BY <1>1, <1>2, <1>4, <1>5, StartFollowed
<1>6. CASE (AlreadyPaid(o) \/ o \in Free) /\ queue' = Ack("payment.process_payment") /\ payment' = payment
  <2>1. PayQueue' = Tail(PayQueue) /\ Results' = Results
    BY <1>2, <1>6 DEF PayQueue, Results
  <2>2. Unplaced'
    BY <1>1, <1>3, <1>6, <2>1 DEF UnderWayInv, Unplaced
  <2>3. Told'
    BY <1>1, <1>6, <2>1 DEF UnderWayInv, Told
  <2>4. Known' = Known /\ Known \subseteq DOMAIN payment
    BY <1>1, <1>2, <1>6, KnownPayments DEF Known
  <2>5. PaymentUnderWay'
    <3> SUFFICES ASSUME lost' = 0, NEW x \in Orders \ Free, order'[x].status = "CREATED"
                 PROVE  UnderWay(x)' \/ CutShort(x)'
      BY DEF PaymentUnderWay
    <3>1. UnderWay(x)' <=> \/ \E m \in Messages(PayQueue') : m.order = x
                           \/ \E p \in Known' : payment'[p].order = x /\ payment'[p].status = "PROCESSING"
                           \/ \E m \in Messages(Results') : m.order = x
      BY DEF UnderWay, Unread, Messages, PayQueue, Results, PaymentsOf
    <3>2. CASE x = o
      <4>1. PICK p \in Known : /\ payment[p].order = x
                               /\ payment[p].status \in {"COMPLETED", "PROCESSING"}
        BY <1>6, <3>2 DEF AlreadyPaid, PaymentsOf
      <4>2. CASE payment[p].status = "PROCESSING"
        BY <1>6, <2>4, <3>1, <4>1, <4>2
      <4>3. CASE payment[p].status = "COMPLETED"
        BY <1>1, <2>1, <2>4, <3>1, <4>1, <4>3 DEF UnderWayInv, Told
      <4> QED
        BY <4>1, <4>2, <4>3
    <3>3. CASE x # o
      <4>1. UnderWay(x) \/ CutShort(x)
        BY <1>1 DEF UnderWayInv, PaymentUnderWay
      <4>2. CutShort(x) => CutShort(x)'
        BY <1>1, <1>6 DEF CutShort
      <4>3. UnderWay(x) => UnderWay(x)'
        BY <1>3, <1>6, <2>1, <2>4, <3>1, <3>3, UnderWayIs
      <4> QED
        BY <4>1, <4>2, <4>3
    <3> QED
      BY <3>2, <3>3
  <2> QED
    BY <2>2, <2>3, <2>5 DEF UnderWayInv
<1> QED
  BY <1>5, <1>6 DEF OnOrderCreated, PayQueue

\* A payment that is decided is announced, or the announcement is lost.
LEMMA SettleFollowed ==
    ASSUME UnderWayInv, IInv', NEW p \in DOMAIN payment, SettlePayment(p)
    PROVE  UnderWayInv'
<1> DEFINE qs == IF payment[p].by = "consumer" THEN Ack("payment.process_payment") ELSE queue
           o == payment[p].order
<1>1. /\ p \in Known /\ Decides(p, "payment.failed", qs) /\ payment[p].status = "PROCESSING"
      /\ UNCHANGED <<order, call, forgotten>>
      /\ payment[p].by = "consumer" => PayQueue # <<>> /\ Head(PayQueue).order = o
  BY SettlesType DEF SettlePayment, Settles, UnderWayInv, IInv, Whole, Paying
<1>2. /\ payment \in Seq(PaymentRecord) /\ PaymentsOK /\ lost \in Nat /\ PaymentsOK'
      /\ queue \in [Queues -> Seq(MessageRecord)] /\ PayQueue \in Seq(MessageRecord)
  BY SagaAssumption DEF UnderWayInv, IInv, Whole, PaymentsOK, QueuesOK, SagaAssumption, PayQueue, Queues
<1>3. PICK key \in {"payment.processed", "payment.failed"} :
          /\ Publish(qs, Message(key, o, p))
          /\ p \in Nat /\ o \in Orders /\ DOMAIN payment' = DOMAIN payment
          /\ Len(payment') = Len(payment)
          /\ payment'[p].order = o
          /\ \A q \in DOMAIN payment : q # p => payment'[q] = payment[q]
          /\ payment'[p].status # "PROCESSING"
  BY <1>1, <1>2, DecidedPayments
<1>4. /\ qs \in [Queues -> Seq(MessageRecord)] /\ qs["order.payment_results"] = Results
      /\ qs["payment.process_payment"] \in {PayQueue, Tail(PayQueue)}
      /\ qs["payment.process_payment"] # PayQueue => PayQueue # <<>> /\ Head(PayQueue).order = o
  BY <1>1, <1>2, PayAck DEF UnderWayInv, IInv, Results, PayQueue, OrderQueues, Queues
<1> DEFINE m == Message(key, o, p)
<1>5. /\ Messages(Results) \subseteq Messages(Results')
      /\ lost' = lost => m \in Messages(Results')
  <2>1. "order.payment_results" \in Queues /\ key \in BoundKeys("order.payment_results")
    BY DEF Queues, BoundKeys
  <2> HIDE DEF qs, m
  <2>2. /\ Messages(qs["order.payment_results"]) \subseteq Messages(queue'["order.payment_results"])
        /\ lost' = lost => Message(key, o, p) \in Messages(queue'["order.payment_results"])
    BY <1>2, <1>3, <1>4, <2>1, PublishedMessages
  <2> QED
    BY <1>4, <2>2 DEF Results, m
<1>6. /\ Messages(PayQueue') \subseteq Messages(PayQueue)
      /\ \A n \in Messages(PayQueue) : n \in Messages(PayQueue') \/ n.order = o
  <2>1. PayQueue' = qs["payment.process_payment"]
    <3>1. m.key \notin BoundKeys("payment.process_payment")
      BY DEF Message, BoundKeys
    <3> HIDE DEF qs, m
    <3> QED
      BY <1>3, <1>4, <3>1, PublishKeeps DEF PayQueue, Queues, m
  <2> HIDE DEF qs
  <2>2. CASE PayQueue' = PayQueue
    BY <2>2
  <2>3. CASE PayQueue' # PayQueue
    BY <1>2, <1>4, <2>1, <2>3, MessagesOf
  <2> QED
    BY <2>2, <2>3
<1>7. m.order = o /\ lost' \in {lost, lost + 1}
  BY <1>3 DEF Message, Publish
<1> HIDE DEF m, qs
<1>8. Known' = Known /\ Known \subseteq DOMAIN payment /\ 1..forgotten \subseteq DOMAIN payment \ {p}
  BY <1>1, <1>2, <1>3, KnownPayments DEF Known, PaymentsOK
<1>9. Unplaced'
  BY <1>1, <1>3, <1>6 DEF UnderWayInv, Unplaced
<1>10. Told'
  <2> SUFFICES ASSUME lost' = 0, NEW q \in DOMAIN payment',
                      order'[payment'[q].order].status = "CREATED", payment'[q].status # "PROCESSING"
               PROVE  \E n \in Messages(Results') : n.order = payment'[q].order
    BY DEF Told
  <2>1. lost = 0 /\ lost' = lost
    BY <1>2, <1>7
  <2>2. CASE q = p
    BY <1>3, <1>5, <1>7, <2>1, <2>2
  <2>3. CASE q # p
    BY <1>1, <1>3, <1>5, <2>1, <2>3 DEF UnderWayInv, Told
  <2> QED
    BY <2>2, <2>3
<1>11. PaymentUnderWay'
  <2> SUFFICES ASSUME lost' = 0, NEW x \in Orders \ Free, order'[x].status = "CREATED"
               PROVE  UnderWay(x)' \/ CutShort(x)'
    BY DEF PaymentUnderWay
  <2>1. UnderWay(x)' <=> \/ \E n \in Messages(PayQueue') : n.order = x
                         \/ \E q \in Known' : payment'[q].order = x /\ payment'[q].status = "PROCESSING"
                         \/ \E n \in Messages(Results') : n.order = x
    BY DEF UnderWay, Unread, Messages, PayQueue, Results, PaymentsOf
  <2>2. lost = 0 /\ lost' = lost
    BY <1>2, <1>7
  <2>3. CASE x = o
    BY <1>5, <1>7, <2>1, <2>2, <2>3
  <2>4. CASE x # o
    <3>1. UnderWay(x) \/ CutShort(x)
      BY <1>1, <2>2 DEF UnderWayInv, PaymentUnderWay
    <3>2. CutShort(x) => CutShort(x)'
      BY <1>1, <1>3, <1>8 DEF CutShort
    <3>3. UnderWay(x) => UnderWay(x)'
      BY <1>3, <1>5, <1>6, <1>8, <2>1, <2>4, UnderWayIs
    <3> QED
      BY <3>1, <3>2, <3>3
  <2> QED
    BY <2>3, <2>4
<1> QED
  BY <1>9, <1>10, <1>11 DEF UnderWayInv

\* A restart of payment-service hands order.created back for the payment its
\* consumer was processing, and cuts short those posted over HTTP.
LEMMA PaymentRestartFollowed ==
    ASSUME UnderWayInv, IInv', RestartPaymentService
    PROVE  UnderWayInv'
<1>1. /\ UNCHANGED order /\ forgotten' = Len(payment) /\ PayQueue' = PayQueue
      /\ \/ UNCHANGED <<payment, queue, lost>>
         \/ \E p \in InFlight : Decides(p, "payment.failed", queue)
  BY PaymentRestarts DEF UnderWayInv, IInv
<1>2. /\ payment \in Seq(PaymentRecord) /\ PaymentsOK /\ lost \in Nat /\ PaymentsOK' /\ Paying
      /\ queue \in [Queues -> Seq(MessageRecord)] /\ PayQueue \in Seq(MessageRecord)
  BY SagaAssumption DEF UnderWayInv, IInv, Whole, PaymentsOK, QueuesOK, SagaAssumption, PayQueue, Queues
<1>3. /\ Known \subseteq DOMAIN payment /\ 1..forgotten \subseteq DOMAIN payment
      /\ DOMAIN payment = Known \cup 1..forgotten
  BY <1>2, KnownPayments
\* What becomes of the payments and of the announcements.
<1>4. /\ DOMAIN payment' = DOMAIN payment /\ lost' \in {lost, lost + 1}
      /\ Messages(Results) \subseteq Messages(Results')
      /\ \A p \in DOMAIN payment :
            \/ payment'[p] = payment[p]
            \/ /\ p \in InFlight /\ payment'[p].order = payment[p].order
               /\ lost' = lost => \E m \in Messages(Results') : m.order = payment[p].order
  <2>1. CASE UNCHANGED <<payment, queue, lost>>
    BY <2>1 DEF Results
  <2>2. ASSUME NEW p \in InFlight, Decides(p, "payment.failed", queue)
        PROVE  /\ DOMAIN payment' = DOMAIN payment /\ lost' \in {lost, lost + 1}
               /\ Messages(Results) \subseteq Messages(Results')
               /\ \A q \in DOMAIN payment : q # p => payment'[q] = payment[q]
               /\ payment'[p].order = payment[p].order
               /\ lost' = lost => \E m \in Messages(Results') : m.order = payment[p].order
    <3>1. p \in DOMAIN payment
      BY <1>3 DEF InFlight
    <3>2. PICK key \in {"payment.processed", "payment.failed"} :
              /\ Publish(queue, Message(key, payment[p].order, p))
              /\ p \in Nat /\ payment[p].order \in Orders /\ DOMAIN payment' = DOMAIN payment
              /\ payment'[p].order = payment[p].order
              /\ \A q \in DOMAIN payment : q # p => payment'[q] = payment[q]
      BY <1>2, <2>2, <3>1, DecidedPayments
    <3>3. "order.payment_results" \in Queues /\ key \in BoundKeys("order.payment_results")
      BY DEF Queues, BoundKeys
    <3> DEFINE m == Message(key, payment[p].order, p)
    <3>4. /\ Messages(Results) \subseteq Messages(Results')
          /\ lost' = lost => m \in Messages(Results')
      BY <1>2, <3>2, <3>3, PublishedMessages DEF Results
    <3>5. m.order = payment[p].order /\ lost' \in {lost, lost + 1}
      BY <3>2 DEF Message, Publish
    <3> HIDE DEF m
    <3> QED
      BY <3>2, <3>4, <3>5
  <2> QED
    BY <1>1, <2>1, <2>2
<1>5. Unplaced'
  BY <1>1, <1>4 DEF UnderWayInv, Unplaced
<1>6. Told'
  <2> SUFFICES ASSUME lost' = 0, NEW p \in DOMAIN payment',
                      order'[payment'[p].order].status = "CREATED", payment'[p].status # "PROCESSING"
               PROVE  \E m \in Messages(Results') : m.order = payment'[p].order
    BY DEF Told
  <2>1. lost = 0 /\ lost' = lost /\ p \in DOMAIN payment
    BY <1>2, <1>4
  <2>2. CASE payment'[p] = payment[p]
    BY <1>1, <1>4, <2>1, <2>2 DEF UnderWayInv, Told
  <2>3. CASE payment'[p] # payment[p]
    BY <1>4, <2>1, <2>3
  <2> QED
    BY <2>2, <2>3
<1>7. PaymentUnderWay'
  <2> SUFFICES ASSUME lost' = 0, NEW x \in Orders \ Free, order'[x].status = "CREATED"
               PROVE  UnderWay(x)' \/ CutShort(x)'
    BY DEF PaymentUnderWay
  <2>1. lost = 0
    BY <1>2, <1>4
  <2>2. UnderWay(x)' <=> \/ \E n \in Messages(PayQueue') : n.order = x
                         \/ \E q \in Known' : payment'[q].order = x /\ payment'[q].status = "PROCESSING"
                         \/ \E n \in Messages(Results') : n.order = x
    BY DEF UnderWay, Unread, Messages, PayQueue, Results, PaymentsOf
  <2>3. forgotten' = Len(payment) /\ 1..forgotten' = DOMAIN payment
    BY <1>1, <1>2
  <2>4. CASE CutShort(x)
    <3>1. PICK p \in 1..forgotten : payment[p].order = x /\ payment[p].by = "http"
                                     /\ payment[p].status = "PROCESSING"
      BY <2>4 DEF CutShort
    <3>2. p \in DOMAIN payment /\ p \notin InFlight
      BY <1>3, <3>1 DEF InFlight
    <3>3. payment'[p] = payment[p]
      BY <1>4, <3>2
    <3> QED
      BY <2>3, <3>1, <3>2, <3>3 DEF CutShort
  <2>5. ASSUME NEW p \in Known, payment[p].order = x, payment[p].status = "PROCESSING"
        PROVE  UnderWay(x)' \/ CutShort(x)'
    <3>1. p \in DOMAIN payment
      BY <1>3
    <3>2. CASE p \in InFlight
      <4>1. PayQueue # <<>> /\ Head(PayQueue).order = x
        BY <1>2, <2>5, <3>2 DEF Paying
      <4>2. Head(PayQueue) \in Messages(PayQueue)
        BY <1>2, <4>1, MessagesOf
      <4> QED
        BY <1>1, <2>2, <4>1, <4>2
    <3>3. CASE p \notin InFlight
      <4>1. payment[p].by = "http"
        BY <1>2, <2>5, <3>1, <3>3, KnownPayments DEF InFlight, PaymentRecord
      <4>2. payment'[p] = payment[p]
        BY <1>4, <3>1, <3>3
      <4> QED
        BY <2>3, <2>5, <3>1, <4>1, <4>2 DEF CutShort
    <3> QED
      BY <3>2, <3>3
  <2>6. CASE (\E n \in Messages(PayQueue) : n.order = x) \/ (\E n \in Messages(Results) : n.order = x)
    BY <1>1, <1>4, <2>2, <2>6
  <2>7. UnderWay(x) \/ CutShort(x)
    BY <1>1, <2>1 DEF UnderWayInv, PaymentUnderWay
  <2> QED
    BY <2>4, <2>5, <2>6, <2>7, UnderWayIs
<1> QED
  BY <1>5, <1>6, <1>7 DEF UnderWayInv

LEMMA NextFollowed == UnderWayInv /\ [Next]_vars => UnderWayInv'
<1> SUFFICES ASSUME UnderWayInv, [Next]_vars PROVE UnderWayInv'
  OBVIOUS
<1>1. IInv /\ IInv'
  BY NextSafe DEF UnderWayInv
<1>2. ASSUME NEW o \in Orders, PostPayment(o) PROVE UnderWayInv'
  BY <1>1, <1>2, StartFollowed DEF PostPayment
<1>3. ASSUME \/ \E c \in Clients, o \in Orders : CancelOrder(c, o)
             \/ Consume
             \/ \E c \in Threads : Proceed(c)
             \/ RecoveryTimeout
             \/ RestartOrderService
             \/ \E p \in DOMAIN payment : RefundDirectly(p)
             \/ \E o \in Orders, key \in RestaurantCalls : RestaurantPublishes(o, key)
             \/ \E o \in Orders : AssignDeliverer(o) \/ UpdateLocation(o) \/ ConfirmDelivery(o)
             \/ UNCHANGED vars
      PROVE  UnderWayInv'
  <2>1. Quiet
    BY <1>1, <1>3, ConsumeQuiet, ProceedQuiet, OthersQuiet
  <2> QED
    BY <1>1, <2>1, QuietStep
<1> QED
  BY <1>1, <1>2, <1>3, CreateFollowed, CreatedFollowed, SettleFollowed, PaymentRestartFollowed DEF Next

\* Whatever the payments posted over HTTP, the refunds, the restarts of either
\* service and the events of restaurants and couriers: as long as no publication
\* is lost, the payment of a CREATED order whose price is accepted is under way.
THEOREM PaymentStaysUnderWay == Spec => []PaymentUnderWay
<1>1. Init => UnderWayInv
  <2> SUFFICES ASSUME Init PROVE UnderWayInv
    OBVIOUS
  <2>1. IInv
    BY InitSafe
  <2>2. DOMAIN payment = {} /\ Messages(PayQueue) = {} /\ \A o \in Orders : order[o].status = "NONE"
    BY DEF Init, NoOrder, Messages, PayQueue, Queues
  <2> QED
    BY <2>1, <2>2 DEF UnderWayInv, Unplaced, Told, PaymentUnderWay
<1>2. UnderWayInv /\ [Next]_vars => UnderWayInv'
  BY NextFollowed
<1>3. UnderWayInv => PaymentUnderWay
  BY DEF UnderWayInv
<1> QED
  BY <1>1, <1>2, <1>3, PTL DEF Spec
=============================================================================
