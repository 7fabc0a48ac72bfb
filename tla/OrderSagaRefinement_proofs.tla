--------------------- MODULE OrderSagaRefinement_proofs ---------------------
(***************************************************************************)
(* OrderSaga implements OrderLifecycle and PaymentLedger.  What the event  *)
(* consumer decides is right when it decides it, and only a cancellation   *)
(* can come before its effect; a step changes one order at most, or it is  *)
(* a restart, which is Forget.  It enters one payment, decides one,        *)
(* returns some that are completed, or forgets them all.                   *)
(***************************************************************************)
EXTENDS OrderSagaSafety_proofs, FiniteSetTheorems

\* The variables of OrderLifecycle; the third is Due.
AbsStatus == [o \in Orders |-> order[o].status]

AbsPaidBy == [o \in Orders |-> order[o].payment_id]

Abstract == [Lifecycle!Next]_<<AbsStatus, AbsPaidBy, Due>>

\* What a step makes of the customer's view of o, other orders untouched.
Becomes(o, status, payment_id) ==
    \A x \in Orders :
        /\ order'[x].status = IF x = o THEN status ELSE order[x].status
        /\ order'[x].payment_id = IF x = o THEN payment_id ELSE order[x].payment_id

LEMMA BecomesAbs ==
    ASSUME NEW o \in Orders, NEW status, NEW payment_id, Becomes(o, status, payment_id)
    PROVE  /\ AbsStatus' = [AbsStatus EXCEPT ![o] = status]
           /\ AbsPaidBy' = [AbsPaidBy EXCEPT ![o] = payment_id]
           /\ status = order[o].status => AbsStatus' = AbsStatus
           /\ payment_id = order[o].payment_id => AbsPaidBy' = AbsPaidBy
BY DEF Becomes, AbsStatus, AbsPaidBy

LEMMA Stutters ==
    ASSUME UNCHANGED Due,
           \A x \in Orders : /\ order'[x].status = order[x].status
                             /\ order'[x].payment_id = order[x].payment_id
    PROVE  Abstract
BY DEF Abstract, AbsStatus, AbsPaidBy

\* Only the consumer's writing and noting is seen.
LEMMA DueStays ==
    ASSUME CallsOK, NEW c \in Threads, NEW r, call' = [call EXCEPT ![c] = r],
           call[c].pc \notin {"write", "note"}, r.pc \notin {"write", "note"}
    PROVE  UNCHANGED Due
<1>1. /\ call'[c] = r /\ \A d \in Threads : d # c => call'[d] = call[d]
      /\ Consumer \in Threads
  BY DEF CallsOK, Threads
<1> QED
  BY <1>1 DEF Due

LEMMA PlaceStep ==
    ASSUME IInv, NEW o \in Orders, CreateOrder(o)
    PROVE  Abstract
<1>1. order[o].status = "NONE" /\ order' = [order EXCEPT ![o].status = "CREATED"] /\ call' = call
  BY DEF CreateOrder
<1>2. Becomes(o, "CREATED", order[o].payment_id)
  BY <1>1 DEF Becomes, IInv, Whole, Rest, OrderRecord
<1>3. UNCHANGED Due
  BY <1>1 DEF Due
<1>4. Lifecycle!Place(o)
  BY <1>1, <1>2, <1>3, BecomesAbs DEF Lifecycle!Place, AbsStatus, AbsPaidBy
<1> QED
  BY <1>4 DEF Abstract, Lifecycle!Next

\* The consumer decides on a status for an order in one of the statuses in from.
Decidable(from, to) ==
    \/ from = {"CREATED"} /\ to = "PAID"
    \/ /\ from \subseteq InService /\ to \in InService \ {"PAID"}
       /\ \A s \in from : Lifecycle!Stage[to] > Lifecycle!Stage[s]
    \/ from = Existing \ {"DELIVERED"} /\ to = "DELIVERED"

LEMMA StagesAre == DOMAIN Lifecycle!Stage = InService \cup {"CREATED"}
                   /\ Lifecycle!Stage["PAID"] > Lifecycle!Stage["CREATED"]
BY DEF Lifecycle!Stage, InService

LEMMA DecisionStep ==
    ASSUME IInv, NEW o \in Orders, NEW from, NEW to, order[o].status \in from, Decidable(from, to),
           Due = {}, Due' = {<<o, to>>}, UNCHANGED order
    PROVE  Abstract
<1> USE DEF AbsStatus, AbsPaidBy
<1>1. UNCHANGED <<AbsStatus, AbsPaidBy>> /\ AbsStatus[o] = order[o].status
  OBVIOUS
<1>2. CASE from = {"CREATED"} /\ to = "PAID"
  <2>1. Lifecycle!DecideStage(o, "PAID")
    BY <1>1, <1>2, StagesAre DEF Lifecycle!DecideStage
  <2> QED
    BY <2>1, StagesAre DEF Abstract, Lifecycle!Next, InService
<1>3. CASE /\ from \subseteq InService /\ to \in InService \ {"PAID"}
           /\ \A s \in from : Lifecycle!Stage[to] > Lifecycle!Stage[s]
  <2>1. order[o].status \in InService /\ "CREATED" \notin InService
    BY <1>3 DEF InService
  <2>2. Lifecycle!DecideStage(o, to)
    BY <1>1, <1>3, <2>1, StagesAre DEF Lifecycle!DecideStage
  <2> QED
    BY <1>3, <2>2, StagesAre DEF Abstract, Lifecycle!Next
<1>4. CASE from = Existing \ {"DELIVERED"} /\ to = "DELIVERED"
  <2>1. Lifecycle!DecideDelivered(o)
    BY <1>1, <1>4 DEF Lifecycle!DecideDelivered, Lifecycle!Absent, Existing
  <2> QED
    BY <2>1 DEF Abstract, Lifecycle!Next
<1> QED
  BY <1>2, <1>3, <1>4 DEF Decidable

LEMMA TakesStep ==
    ASSUME IInv, NEW q \in OrderQueues, NEW key, NEW from, NEW next \in Begins,
           next.pc = "write" => Decidable(from, next.to), Takes(q, key, from, next)
    PROVE  Abstract
<1> DEFINE m == Head(queue[q])
           r == [next EXCEPT !.order = m.order, !.on = q]
<1>1. /\ call[Consumer].pc = "idle" /\ queue[q] # <<>> /\ q \in Queues /\ UNCHANGED order
      /\ Consumer \in Threads
  BY DEF Takes, Receives, OrderQueues, Threads
<1>2. m.order \in Orders
  BY <1>1, AckType DEF IInv, Whole, QueuesOK
<1>3. Due = {}
  BY <1>1 DEF Due
<1>4. CASE order[m.order].status \in from
  <2>1. call' = [call EXCEPT ![Consumer] = r]
    BY <1>4 DEF Takes
  <2>2. /\ r \in CallRecord /\ r.order = m.order /\ r.on = q /\ r.attempts = 0
        /\ r.to = next.to /\ r.pc = next.pc /\ r.pc \in {"write", "check", "cancel"}
        /\ r.pc = "write" => r.to \in InService \cup {"DELIVERED"}
    <3>1. q \in Queues /\ m.order \in Orders
      BY <1>1, <1>2
    <3> QED
      BY <3>1, BeginsType
  <2> HIDE DEF r
  <2>3. call'[Consumer] = r
    BY <1>1, <2>1 DEF IInv, Whole, Calls, CallsOK
  <2>4. CASE r.pc = "write"
    <3>1. Due' = {<<m.order, next.to>>}
      BY <2>2, <2>3, <2>4 DEF Due
    <3> HIDE DEF m
    <3> QED
      BY <1>1, <1>2, <1>3, <1>4, <2>2, <2>4, <3>1, DecisionStep
  <2>5. CASE r.pc # "write"
    <3>1. Due' = {}
      BY <2>2, <2>3, <2>5 DEF Due
    <3> QED
      BY <1>1, <1>3, <3>1, Stutters
  <2> QED
    BY <2>4, <2>5
<1>5. CASE order[m.order].status \notin from
  <2>1. call' = call
    BY <1>5 DEF Takes
  <2> QED
    BY <1>1, <2>1, Stutters DEF Due
<1> QED
  BY <1>4, <1>5

LEMMA ConsumeStep ==
    ASSUME IInv, Consume
    PROVE  Abstract
<1> DEFINE cancels == [IdleCall EXCEPT !.pc = "cancel"]
           checks == [IdleCall EXCEPT !.pc = "check"]
<1>1. /\ \A s \in InService \cup {"DELIVERED"} : To(s) \in Begins /\ To(s).to = s
      /\ cancels \in Begins /\ checks \in Begins
      /\ cancels.pc = "cancel" /\ checks.pc = "check"
  BY DEF Begins, To, IdleCall
<1>2. {"order.payment_results", "order.restaurant_updates", "order.delivery_updates"} \subseteq OrderQueues
  BY DEF OrderQueues, Queues
<1>3. /\ Decidable({"CREATED"}, "PAID")
      /\ Decidable({"PAID"}, "CONFIRMED")
      /\ Decidable({"PAID", "CONFIRMED"}, "PREPARING")
      /\ Decidable({"PAID", "CONFIRMED", "PREPARING"}, "READY")
      /\ Decidable({"READY"}, "ASSIGNED")
      /\ Decidable({"READY", "ASSIGNED"}, "DELIVERING")
      /\ Decidable(Existing \ {"DELIVERED"}, "DELIVERED")
  BY DEF Decidable, Lifecycle!Stage, InService
<1>4. {"PAID", "CONFIRMED", "PREPARING", "READY", "ASSIGNED", "DELIVERING", "DELIVERED"}
          = InService \cup {"DELIVERED"}
  BY DEF InService
<1> HIDE DEF cancels, checks
<1>5. CASE OnPaymentProcessed
  BY <1>1, <1>2, <1>3, <1>4, <1>5, TakesStep DEF OnPaymentProcessed
<1>6. CASE OnPaymentFailed
  <2>1. Takes("order.payment_results", "payment.failed", Existing \ {"CANCELLED"}, cancels)
    BY <1>6 DEF OnPaymentFailed, cancels
  <2> QED
    BY <1>1, <1>2, <2>1, TakesStep
<1>7. CASE OnOrderRejected
  <2>1. Takes("order.restaurant_updates", "OrderRejected", Existing \ {"CANCELLED"}, checks)
    BY <1>7 DEF OnOrderRejected, checks
  <2> QED
    BY <1>1, <1>2, <2>1, TakesStep
<1>8. CASE OnOrderAccepted
  BY <1>1, <1>2, <1>3, <1>4, <1>8, TakesStep DEF OnOrderAccepted
<1>9. CASE OnOrderPreparing
  BY <1>1, <1>2, <1>3, <1>4, <1>9, TakesStep DEF OnOrderPreparing
<1>10. CASE OnOrderReady
  BY <1>1, <1>2, <1>3, <1>4, <1>10, TakesStep DEF OnOrderReady
<1>11. CASE OnDeliveryAssigned
  BY <1>1, <1>2, <1>3, <1>4, <1>11, TakesStep DEF OnDeliveryAssigned
<1>12. CASE OnDeliveryInProgress
  BY <1>1, <1>2, <1>3, <1>4, <1>12, TakesStep DEF OnDeliveryInProgress
<1>13. CASE OnDeliveryCompleted
  BY <1>1, <1>2, <1>3, <1>4, <1>13, TakesStep DEF OnDeliveryCompleted
<1> QED
  BY <1>5, <1>6, <1>7, <1>8, <1>9, <1>10, <1>11, <1>12, <1>13 DEF Consume

\* The consumer writes what it has decided.
LEMMA WriteStep ==
    ASSUME IInv, NEW c \in Threads, WriteStatus(c)
    PROVE  Abstract
<1> DEFINE o == call[c].order
           s == call[c].to
<1>1. /\ call[c].pc = "write" /\ c = Consumer /\ o \in Orders /\ s \in InService \cup {"DELIVERED"}
      /\ order' = [order EXCEPT ![o].status = s]
  BY ConsumerWrites DEF WriteStatus, IInv, Whole, Calls, CallsOK, Handling
<1>2. Becomes(o, s, order[o].payment_id)
  BY <1>1 DEF Becomes, IInv, Whole, Rest, OrderRecord
<1>3. /\ s = "PAID" => call'[c].pc = "note" /\ call'[c].order = o
      /\ s # "PAID" => call'[c] = IdleCall
  BY <1>1 DEF WriteStatus, Returns, IInv, Whole, Calls, CallsOK, CallRecord
<1>4. Due = {<<o, s>>} /\ Due' = IF s = "PAID" THEN {<<o, "PAYMENT">>} ELSE {}
  BY <1>1, <1>3, IdleType DEF Due
<1>5. s \in DOMAIN Lifecycle!Stage \cup {"DELIVERED"}
  BY <1>1, StagesAre
<1> HIDE DEF o, s
<1>6. ASSUME NEW x \in Orders, NEW t, x = o, t = s PROVE Lifecycle!Take(x, t)
  <2>1. Becomes(x, t, order[x].payment_id)
    BY <1>2, <1>6 DEF Becomes
  <2> QED
    BY <1>4, <1>6, <2>1, BecomesAbs DEF Lifecycle!Take, AbsStatus, AbsPaidBy
<1> QED
  BY <1>1, <1>5, <1>6 DEF Abstract, Lifecycle!Next

LEMMA NoteStep ==
    ASSUME IInv, NEW c \in Threads, NotePayment(c)
    PROVE  Abstract
<1> DEFINE o == call[c].order
           m == Head(Results)
           p == m.payment
<1>1. /\ call[c].pc = "note" /\ c = Consumer /\ o \in Orders
      /\ call[c].on = "order.payment_results" /\ Results # <<>>
      /\ order' = [order EXCEPT ![o].payment_id = p] /\ Returns(c)
  BY ConsumerWrites DEF NotePayment, IInv, Whole, Calls, CallsOK, Handling, Results, NoOne
<1>2. Becomes(o, order[o].status, p)
  BY <1>1 DEF Becomes, IInv, Whole, Rest, OrderRecord
<1>3. Due = {<<o, "PAYMENT">>} /\ Due' = {}
  <2>1. call'[c] = IdleCall
    BY <1>1 DEF Returns, IInv, Whole, Calls, CallsOK
  <2> QED
    BY <1>1, <2>1, IdleType DEF Due
<1>4. order[o].payment_id = 0 /\ p \in Nat \ {0}
  <2>1. m.key = "payment.processed" /\ order[o].payment_id = 0
    BY <1>1 DEF IInv, Paid, Writing
  <2>2. m \in Messages(Results)
    BY <1>1, MessagesOf DEF IInv, Whole, QueuesOK, Results, Queues
  <2>3. p \in DOMAIN payment /\ DOMAIN payment = 1..Len(payment)
    BY <2>1, <2>2 DEF IInv, Paid, Announced, Genuine, Whole, PaymentsOK
  <2> QED
    BY <2>1, <2>3
<1> HIDE DEF o, p
<1>5. /\ AbsStatus' = AbsStatus /\ AbsPaidBy' = [AbsPaidBy EXCEPT ![o] = p]
      /\ AbsPaidBy[o] = 0 /\ AbsPaidBy'[o] = p
  <2>1. AbsStatus' = AbsStatus /\ AbsPaidBy' = [AbsPaidBy EXCEPT ![o] = p]
    BY <1>1, <1>2, BecomesAbs
  <2> QED
    BY <1>1, <1>4, <2>1 DEF AbsPaidBy
<1>6. ASSUME NEW x \in Orders, x = o PROVE Lifecycle!NotePayment(x)
  BY <1>3, <1>4, <1>5, <1>6 DEF Lifecycle!NotePayment, AbsStatus, AbsPaidBy
<1> QED
  BY <1>1, <1>6 DEF Abstract, Lifecycle!Next

\* A thread that compensates goes on; a failed refund is only flagged.
LEMMA CompensationStep ==
    ASSUME IInv, NEW c \in Threads,
           CheckPayment(c) \/ PostRefund(c) \/ RefundAnswered(c) \/ RefundUnanswered(c)
    PROVE  Abstract
<1>1. /\ call[c].pc \in {"check", "post", "answer"}
      /\ \/ UNCHANGED order
         \/ order' = [order EXCEPT ![call[c].order].history = @ \cup {"FAILED"}]
      /\ \/ \E pc \in {"post", "answer", "cancel"} : call' = [call EXCEPT ![c].pc = pc]
         \/ call' = [call EXCEPT ![c].pc = "answer", ![c].attempts = @ + 1]
         \/ call' = [call EXCEPT ![c] = [call[c] EXCEPT !.pc = "cancel"]]
  BY DEF CheckPayment, PostRefund, Posts, RefundAnswered, Answered, RefundUnanswered, Unanswered,
         RefundFailed
<1>2. call[c] \in CallRecord
  BY DEF IInv, Whole, Calls, CallsOK
<1>3. ASSUME NEW pc \in {"post", "answer", "cancel"}
      PROVE  [call[c] EXCEPT !.pc = pc].pc \notin {"write", "note"}
  BY <1>2 DEF CallRecord
<1>4. [call[c] EXCEPT !.pc = "answer", !.attempts = @ + 1].pc \notin {"write", "note"}
  BY <1>2 DEF CallRecord
<1>5. UNCHANGED Due
  <2>1. PICK r : call' = [call EXCEPT ![c] = r] /\ r.pc \notin {"write", "note"}
    BY <1>1, <1>3, <1>4
  <2> QED
    BY <1>1, <2>1, DueStays DEF IInv, Whole, Calls
<1>6. \A x \in Orders : /\ order'[x].status = order[x].status
                        /\ order'[x].payment_id = order[x].payment_id
  BY <1>1 DEF IInv, Whole, Rest, OrderRecord
<1> QED
  BY <1>5, <1>6, Stutters

LEMMA FinishStep ==
    ASSUME IInv, NEW c \in Threads, FinishCancel(c)
    PROVE  Abstract
<1> DEFINE o == call[c].order
<1>1. /\ call[c].pc = "cancel" /\ o \in Orders /\ order[o].status \in Existing
      /\ call' = [call EXCEPT ![c] = IdleCall]
      /\ order' = [order EXCEPT ![o].status = "CANCELLED", ![o].history = @ \cup {"COMPENSATED"}]
  BY Compensating DEF FinishCancel, Returns
<1>2. Becomes(o, "CANCELLED", order[o].payment_id)
  BY <1>1 DEF Becomes, IInv, Whole, Rest, OrderRecord
<1>3. UNCHANGED Due
  BY <1>1, IdleType, DueStays DEF IInv, Whole, Calls
<1> HIDE DEF o
<1>4. ASSUME NEW x \in Orders, x = o PROVE Lifecycle!Cancel(x)
  <2>1. Becomes(x, "CANCELLED", order[x].payment_id) /\ order[x].status \in Existing
    BY <1>1, <1>2, <1>4 DEF Becomes
  <2> QED
    BY <1>3, <2>1, BecomesAbs
       DEF Lifecycle!Cancel, Lifecycle!Absent, AbsStatus, AbsPaidBy, Existing
<1> QED
  BY <1>1, <1>4 DEF Abstract, Lifecycle!Next

LEMMA RestartStep ==
    ASSUME IInv, RestartOrderService
    PROVE  Abstract
<1>1. ASSUME NEW o \in Orders
      PROVE  /\ order'[o].status = IF order[o].status = "NONE" THEN "NONE" ELSE "GONE"
             /\ order'[o].payment_id = 0
  <2>1. order'[o] = IF order[o].status \in Existing THEN [NoOrder EXCEPT !.status = "GONE"] ELSE order[o]
    BY DEF RestartOrderService
  <2>2. order[o].status \in Existing \cup {"NONE", "GONE"}
    BY DEF IInv, Whole, Rest, OrderRecord, Existing
  <2>3. order[o].status \notin Existing => order[o].payment_id = 0
    BY <2>2 DEF IInv, Paid, Charged
  <2> QED
    BY <2>1, <2>2, <2>3 DEF NoOrder, Existing
<1>2. Due' = {}
  BY IdleType DEF RestartOrderService, Due, Threads
<1>3. Lifecycle!Forget
  BY <1>1, <1>2 DEF Lifecycle!Forget
<1> QED
  BY <1>3 DEF Abstract, Lifecycle!Next

LEMMA NextLifecycle == IInv /\ [Next]_vars => Abstract
<1> SUFFICES ASSUME IInv, [Next]_vars PROVE Abstract
  OBVIOUS
<1>1. ASSUME UNCHANGED <<order, call>> PROVE Abstract
  BY <1>1, Stutters DEF Due
<1>2. ASSUME NEW c \in Clients, NEW o \in Orders, CancelOrder(c, o) PROVE Abstract
  <2> DEFINE r == [IdleCall EXCEPT !.pc = "check", !.order = o]
  <2>1. /\ call[c].pc = "idle" /\ call' = [call EXCEPT ![c] = r] /\ UNCHANGED order
        /\ r.pc = "check" /\ c \in Threads
    BY <1>2 DEF CancelOrder, IdleCall, Threads
  <2> HIDE DEF r
  <2>2. UNCHANGED Due
    BY <2>1, DueStays DEF IInv, Whole, Calls
  <2> QED
    BY <2>1, <2>2, Stutters
<1>3. ASSUME NEW c \in Threads, Proceed(c) PROVE Abstract
  BY <1>3, WriteStep, NoteStep, CompensationStep, FinishStep DEF Proceed
<1>4. ASSUME \/ RecoveryTimeout
             \/ OnOrderCreated
             \/ \E o \in Orders : PostPayment(o)
             \/ \E p \in DOMAIN payment : SettlePayment(p) \/ RefundDirectly(p)
             \/ RestartPaymentService
             \/ \E o \in Orders, key \in RestaurantCalls : RestaurantPublishes(o, key)
             \/ \E o \in Orders : AssignDeliverer(o) \/ UpdateLocation(o) \/ ConfirmDelivery(o)
             \/ UNCHANGED vars
      PROVE  Abstract
  <2>1. UNCHANGED <<order, call>>
    BY <1>4 DEF RecoveryTimeout, OnOrderCreated, PostPayment, SettlePayment, Settles, RefundDirectly,
        RestartPaymentService, RestaurantPublishes, AssignDeliverer, UpdateLocation,
        ConfirmDelivery, DeliveryPublishes, vars
  <2> QED
    BY <1>1, <2>1
<1> QED
  BY <1>2, <1>3, <1>4, PlaceStep, ConsumeStep, RestartStep DEF Next

LEMMA InitLifecycle == Init => Lifecycle!Init
<1> SUFFICES ASSUME Init PROVE Lifecycle!Init
  OBVIOUS
<1>1. \A o \in Orders : order[o].status = "NONE" /\ order[o].payment_id = 0
  BY DEF Init, NoOrder
<1>2. Due = {}
  BY IdleType DEF Init, Due, Threads
<1> QED
  BY <1>1, <1>2 DEF Lifecycle!Init

\* OrderService, with its threads that hold no lock, its events in any order,
\* its refunds and its restarts, takes an order through the stages of
\* OrderLifecycle and no others: what a handler decides is right when it tests
\* the status, and a cancellation is all that can come between its test and its
\* assignment (the on_... handlers, cancel_order, the in-memory repository).
THEOREM LifecycleImplemented == Spec => ImplementsLifecycle
<1>1. Init => Lifecycle!Init
  BY InitLifecycle
<1>2. IInv /\ [Next]_vars => [Lifecycle!Next]_<<AbsStatus, AbsPaidBy, Due>>
  BY NextLifecycle DEF Abstract
<1> QED
  BY <1>1, <1>2, IInvHolds, PTL
  DEF Spec, ImplementsLifecycle, Lifecycle!Spec, AbsStatus, AbsPaidBy

-----------------------------------------------------------------------------
(* ImplementsLedger *)

\* The variables of PaymentLedger.
Books == [p \in Known |-> [order |-> payment[p].order, status |-> payment[p].status]]

Bill == [o \in Orders |->
           Cardinality({p \in DOMAIN payment :
               payment[p].order = o /\ payment[p].status \in {"COMPLETED", "REFUNDED"}})]

Booked == [Ledger!Next]_<<Books, Bill>>

\* The payments the gateway has charged to an order.
ChargesTo(o) ==
    {p \in DOMAIN payment : payment[p].order = o /\ payment[p].status \in {"COMPLETED", "REFUNDED"}}

LEMMA BillIs == Bill = [o \in Orders |-> Cardinality(ChargesTo(o))]
BY DEF Bill, ChargesTo

LEMMA SameBill ==
    ASSUME \A o \in Orders : ChargesTo(o)' = ChargesTo(o)
    PROVE  Bill' = Bill
<1>1. Bill' = [o \in Orders |-> Cardinality(ChargesTo(o)')]
  BY DEF Bill, ChargesTo
<1> QED
  BY <1>1, BillIs

LEMMA BookSteps ==
    ASSUME \/ \E o \in Orders : Ledger!Enter(o)
           \/ \E p \in Known : Ledger!Complete(p) \/ Ledger!Fail(p)
           \/ \E ps \in SUBSET Known : Ledger!Return(ps)
           \/ Ledger!Forget
    PROVE  Booked
BY DEF Booked, Ledger!Next

LEMMA StartIsEnter ==
    ASSUME PaymentsOK, NEW o \in Orders, NEW by \in {"consumer", "http"},
           payment' = Started(o, by), UNCHANGED forgotten
    PROVE  Booked
<1> DEFINE n == Len(payment) + 1
           e == [order |-> o, status |-> "PROCESSING"]
<1>1. /\ DOMAIN payment' = DOMAIN payment \cup {n} /\ n \notin DOMAIN payment
      /\ \A p \in DOMAIN payment : payment'[p] = payment[p]
      /\ payment'[n].order = o /\ payment'[n].status = "PROCESSING" /\ Len(payment') = n
  <2>1. NewPayment(o, by).order = o /\ NewPayment(o, by).status = "PROCESSING"
    BY DEF NewPayment
  <2> QED
    BY <2>1, StartedPayment DEF PaymentsOK
<1>2. Known' = Known \cup {n} /\ n \notin Known /\ Known \subseteq DOMAIN payment
  BY <1>1 DEF Known, PaymentsOK
<1>3. /\ DOMAIN Books = Known /\ DOMAIN Books' = Known \cup {n}
      /\ Books'[n] = e /\ \A p \in Known : Books'[p] = Books[p]
  BY <1>1, <1>2 DEF Books
<1>4. Books' = [p \in DOMAIN Books \cup {n} |-> IF p = n THEN e ELSE Books[p]]
  <2>1. Books' = [p \in Known \cup {n} |-> Books'[p]]
    BY <1>2 DEF Books
  <2> QED
    BY <1>2, <1>3, <2>1
<1>5. Bill' = Bill
  <2>1. \A x \in Orders : ChargesTo(x)' = ChargesTo(x)
    BY <1>1 DEF ChargesTo
  <2> QED
    BY <2>1, SameBill
<1>6. n \in DOMAIN Books' \ DOMAIN Books
  BY <1>2, <1>3
<1> HIDE DEF n
<1>7. Ledger!Enter(o)
  BY <1>4, <1>5, <1>6 DEF Ledger!Enter, Books, Bill
<1> QED
  BY <1>7, BookSteps

\* A decision charges the order exactly if the payment completes.
LEMMA DecisionIsBilled ==
    ASSUME PaymentsOK, NEW p \in DOMAIN payment, payment[p].status = "PROCESSING",
           NEW failed, NEW qs, Decides(p, failed, qs)
    PROVE  \/ payment'[p].status = "FAILED" /\ Bill' = Bill
           \/ /\ payment'[p].status = "COMPLETED"
              /\ Bill' = [Bill EXCEPT ![payment[p].order] = @ + 1]
<1> DEFINE o == payment[p].order
<1>1. /\ DOMAIN payment' = DOMAIN payment /\ o \in Orders
      /\ \A q \in DOMAIN payment : payment'[q].order = payment[q].order
                                   /\ (q # p => payment'[q] = payment[q])
      /\ payment'[p].status \in {"COMPLETED", "FAILED"}
  BY DecidedPayments DEF PaymentsOK
<1>2. CASE payment'[p].status = "FAILED"
  <2>1. \A x \in Orders : ChargesTo(x)' = ChargesTo(x)
    BY <1>1, <1>2 DEF ChargesTo
  <2> QED
    BY <1>2, <2>1, SameBill
<1>3. CASE payment'[p].status = "COMPLETED"
  <2>1. \A x \in Orders : x # o => ChargesTo(x)' = ChargesTo(x)
    BY <1>1 DEF ChargesTo
  <2>2. ASSUME NEW x \in Orders, x = o
        PROVE  Cardinality(ChargesTo(x)') = Cardinality(ChargesTo(x)) + 1
    <3>1. ChargesTo(x)' = ChargesTo(x) \cup {p} /\ p \notin ChargesTo(x)
      BY <1>1, <1>3, <2>2 DEF ChargesTo
    <3>2. ChargesTo(x) \in SUBSET (1..Len(payment)) /\ Len(payment) \in Int
      BY DEF ChargesTo, PaymentsOK
    <3>3. IsFiniteSet(1..Len(payment))
      BY <3>2, FS_Interval
    <3>4. IsFiniteSet(ChargesTo(x))
      BY <3>2, <3>3, FS_Subset
    <3> QED
      BY <3>1, <3>4, FS_AddElement
  <2>3. Bill' = [x \in Orders |-> Cardinality(ChargesTo(x)')]
    BY DEF Bill, ChargesTo
  <2>4. \A x \in Orders : /\ Bill[x] = Cardinality(ChargesTo(x))
                          /\ Bill'[x] = IF x = o THEN Bill[x] + 1 ELSE Bill[x]
    BY <2>1, <2>2, <2>3, BillIs
  <2>5. Bill' = [Bill EXCEPT ![o] = @ + 1]
    BY <1>1, <2>3, <2>4, BillIs
  <2> QED
    BY <1>3, <2>5
<1> QED
  BY <1>1, <1>2, <1>3

LEMMA SettleIsDecision ==
    ASSUME PaymentsOK, NEW p \in DOMAIN payment, SettlePayment(p)
    PROVE  Booked
<1>1. /\ p \in Known /\ payment[p].status = "PROCESSING" /\ UNCHANGED forgotten
      /\ \E qs : Decides(p, "payment.failed", qs)
  BY DEF SettlePayment, Settles
<1>2. PICK s \in {"COMPLETED", "FAILED"} : payment'[p].status = s
  BY <1>1, DecidedPayments DEF PaymentsOK
<1>3. /\ Known' = Known /\ payment[p].order \in Orders
      /\ \A q \in Known : payment'[q].order = payment[q].order
                          /\ payment'[q].status = IF q = p THEN s ELSE payment[q].status
  <2>1. /\ Len(payment') = Len(payment) /\ DOMAIN payment' = DOMAIN payment
        /\ payment[p].order \in Orders
        /\ \A q \in DOMAIN payment : payment'[q].order = payment[q].order
                                     /\ (q # p => payment'[q] = payment[q])
    BY <1>1, DecidedPayments DEF PaymentsOK
  <2>2. Known \subseteq DOMAIN payment
    BY DEF Known, PaymentsOK
  <2> QED
    BY <1>1, <1>2, <2>1, <2>2 DEF Known
<1>4. /\ Books' = [Books EXCEPT ![p].status = s]
      /\ Books[p].status = "PROCESSING" /\ Books[p].order = payment[p].order
  BY <1>1, <1>3 DEF Books
<1>5. \/ s = "FAILED" /\ Bill' = Bill
      \/ s = "COMPLETED" /\ Bill' = [Bill EXCEPT ![payment[p].order] = @ + 1]
  BY <1>1, <1>2, DecisionIsBilled
<1>6. CASE s = "FAILED"
  <2>1. Ledger!Fail(p)
    BY <1>4, <1>5, <1>6 DEF Ledger!Fail, Books, Bill
  <2> QED
    BY <1>1, <2>1, BookSteps
<1>7. CASE s = "COMPLETED"
  <2>1. Ledger!Complete(p)
    BY <1>4, <1>5, <1>7 DEF Ledger!Complete, Books, Bill
  <2> QED
    BY <1>1, <2>1, BookSteps
<1> QED
  BY <1>6, <1>7

\* Completed payments are refunded, and nothing else happens to the payments.
Refunds ==
    /\ Len(payment') = Len(payment) /\ DOMAIN payment' = DOMAIN payment /\ forgotten' = forgotten
    /\ \A q \in DOMAIN payment :
        /\ payment'[q].order = payment[q].order
        /\ \/ payment'[q] = payment[q]
           \/ /\ q \in Known
              /\ payment[q].status = "COMPLETED" /\ payment'[q].status = "REFUNDED"

LEMMA RefundsAreReturned ==
    ASSUME PaymentsOK, Refunds
    PROVE  Booked
<1>p. PICK ps \in SUBSET Known :
          ps = {q \in Known : payment[q].status = "COMPLETED" /\ payment'[q].status = "REFUNDED"}
  OBVIOUS
<1>1. Known' = Known /\ Known \subseteq DOMAIN payment
  BY DEF Refunds, Known, PaymentsOK
<1>2. \A q \in ps : Books[q].status = "COMPLETED"
  BY <1>p DEF Books
<1>3. \A q \in Known :
          Books'[q] = IF q \in ps THEN [Books[q] EXCEPT !.status = "REFUNDED"] ELSE Books[q]
  BY <1>p, <1>1 DEF Refunds, Books
<1>4. Books' = [q \in DOMAIN Books |->
          IF q \in ps THEN [Books[q] EXCEPT !.status = "REFUNDED"] ELSE Books[q]]
  BY <1>1, <1>3 DEF Books
<1>5. Bill' = Bill
  <2>1. \A x \in Orders : ChargesTo(x)' = ChargesTo(x)
    BY DEF Refunds, ChargesTo
  <2> QED
    BY <2>1, SameBill
<1>6. Ledger!Return(ps)
  BY <1>2, <1>4, <1>5 DEF Ledger!Return, Books, Bill
<1> QED
  BY <1>6, BookSteps

LEMMA RefundedIsReturned ==
    ASSUME PaymentsOK, NEW p, NEW byHand \in BOOLEAN, payment' = Refunded(p, byHand), UNCHANGED forgotten
    PROVE  Booked
<1>1. Refunds
  BY RefundedType DEF Refunds, PaymentsOK
<1> QED
  BY <1>1, RefundsAreReturned

\* A restart of payment-service forgets the payments, and at most charges the
\* one its consumer thread was processing.
LEMMA RestartIsForget ==
    ASSUME PaymentsOK, RestartPaymentService
    PROVE  Booked
<1>1. /\ forgotten' = Len(payment)
      /\ \/ UNCHANGED payment
         \/ \E p \in InFlight : Decides(p, "payment.failed", queue)
  BY DEF RestartPaymentService
<1>2. \/ Bill' = Bill
      \/ \E p \in Known : /\ Books[p].status = "PROCESSING"
                          /\ Bill' = [Bill EXCEPT ![Books[p].order] = @ + 1]
  <2>1. CASE UNCHANGED payment
    BY <2>1 DEF Bill
  <2>2. ASSUME NEW p \in InFlight, Decides(p, "payment.failed", queue)
        PROVE  \/ Bill' = Bill
               \/ /\ p \in Known /\ Books[p].status = "PROCESSING"
                  /\ Bill' = [Bill EXCEPT ![Books[p].order] = @ + 1]
    <3>1. p \in Known /\ p \in DOMAIN payment /\ payment[p].status = "PROCESSING"
      BY <2>2 DEF InFlight, Known, PaymentsOK
    <3>2. Books[p].status = "PROCESSING" /\ Books[p].order = payment[p].order
      BY <3>1 DEF Books
    <3> QED
      BY <2>2, <3>1, <3>2, DecisionIsBilled
  <2> QED
    BY <1>1, <2>1, <2>2
<1>3. Known' = {}
  <2>1. Len(payment') = Len(payment)
    <3>1. ASSUME NEW p \in InFlight, Decides(p, "payment.failed", queue)
          PROVE  Len(payment') = Len(payment)
      BY <3>1, DecidedPayments DEF InFlight, Known, PaymentsOK
    <3> QED
      BY <1>1, <3>1
  <2>2. Len(payment) \in Nat
    BY DEF PaymentsOK
  <2> QED
    BY <1>1, <2>1, <2>2 DEF Known
<1>4. Books' = Ledger!NoPayments
  BY <1>3 DEF Books, Ledger!NoPayments
<1>5. DOMAIN Books = Known
  BY DEF Books
<1>6. Ledger!Forget
  BY <1>2, <1>4, <1>5 DEF Ledger!Forget, Books, Bill
<1> QED
  BY <1>6, BookSteps

LEMMA NextLedger == Whole /\ [Next]_vars => Booked
<1> SUFFICES ASSUME Whole, [Next]_vars PROVE Booked
  OBVIOUS
<1>t. PaymentsOK
  BY DEF Whole
<1>0. ASSUME UNCHANGED <<payment, forgotten>> PROVE Booked
  BY <1>0 DEF Booked, Books, Bill, Known
<1>1. ASSUME NEW c \in Threads, Proceed(c) PROVE Booked
  <2>1. /\ UNCHANGED forgotten
        /\ payment' = payment \/ payment' = Refunded(order[call[c].order].payment_id, FALSE)
    BY <1>1 DEF Proceed, WriteStatus, NotePayment, CheckPayment, PostRefund, Posts, RefundAnswered,
                Answered, RefundUnanswered, Unanswered, FinishCancel
  <2> QED
    BY <1>t, <1>0, <2>1, RefundedIsReturned
<1>2. CASE RestartOrderService
  <2>1. forgotten' = forgotten
    BY <1>2 DEF RestartOrderService
  <2>2. Refunds
    BY <1>t, <1>2, <2>1, RestartedPayments DEF Refunds, PaymentsOK
  <2> QED
    BY <1>t, <2>2, RefundsAreReturned
<1>3. CASE OnOrderCreated
  <2> DEFINE o == Head(queue["payment.process_payment"]).order
  <2>1. o \in Orders
    BY <1>3, AckType DEF OnOrderCreated, Whole, QueuesOK, Queues
  <2>2. payment' = payment \/ payment' = Started(o, "consumer")
    BY <1>3 DEF OnOrderCreated
  <2>3. UNCHANGED forgotten
    BY <1>3 DEF OnOrderCreated
  <2> HIDE DEF o
  <2> QED
    BY <1>0, <1>t, <2>1, <2>2, <2>3, StartIsEnter
<1>4. ASSUME NEW o \in Orders, PostPayment(o) PROVE Booked
  BY <1>t, <1>4, StartIsEnter DEF PostPayment
<1>5. ASSUME NEW p \in DOMAIN payment, SettlePayment(p) PROVE Booked
  BY <1>t, <1>5, SettleIsDecision
<1>6. ASSUME NEW p \in DOMAIN payment, RefundDirectly(p) PROVE Booked
  BY <1>t, <1>6, RefundedIsReturned DEF RefundDirectly
<1>7. CASE RestartPaymentService
  BY <1>t, <1>7, RestartIsForget
<1>8. ASSUME \/ \E o \in Orders : CreateOrder(o)
             \/ \E c \in Clients, o \in Orders : CancelOrder(c, o)
             \/ Consume
             \/ RecoveryTimeout
             \/ \E o \in Orders, key \in RestaurantCalls : RestaurantPublishes(o, key)
             \/ \E o \in Orders : AssignDeliverer(o) \/ UpdateLocation(o) \/ ConfirmDelivery(o)
             \/ UNCHANGED vars
      PROVE  Booked
  <2>1. Consume => UNCHANGED <<payment, forgotten>>
    BY DEF Consume, OnPaymentProcessed, OnPaymentFailed, OnOrderAccepted, OnOrderPreparing,
           OnOrderReady, OnOrderRejected, OnDeliveryAssigned, OnDeliveryInProgress,
           OnDeliveryCompleted, Takes
  <2>2. UNCHANGED <<payment, forgotten>>
    BY <1>8, <2>1 DEF CreateOrder, CancelOrder, RecoveryTimeout, RestaurantPublishes, AssignDeliverer,
        UpdateLocation, ConfirmDelivery, DeliveryPublishes, vars
  <2> QED
    BY <1>0, <2>2
<1> QED
  BY <1>1, <1>2, <1>3, <1>4, <1>5, <1>6, <1>7, <1>8 DEF Next

LEMMA InitLedger == Init => Ledger!Init
<1> SUFFICES ASSUME Init PROVE Ledger!Init
  OBVIOUS
<1>1. DOMAIN payment = {} /\ Known = {}
  BY DEF Init, Known
<1>2. Books = Ledger!NoPayments
  BY <1>1 DEF Books, Ledger!NoPayments
<1>3. \A o \in Orders : ChargesTo(o) = {}
  BY <1>1 DEF ChargesTo
<1>4. Cardinality({}) = 0
  BY FS_EmptySet
<1>5. Bill = [o \in Orders |-> 0]
  BY <1>3, <1>4, BillIs
<1> QED
  BY <1>2, <1>5 DEF Ledger!Init, Books, Bill

\* ImplementsLedger: whatever the SAGA does of cancellations, retried refunds whose
\* reply was lost, direct payments, direct refunds and restarts, a payment is
\* entered once, decided once, counted as charged exactly when it completes, and
\* refunded only then (process_payment and refund of payment-service as
\* order-service and the gateway drive them).
THEOREM LedgerImplemented == Spec => ImplementsLedger
<1>1. Whole /\ [Next]_vars => [Ledger!Next]_<<Books, Bill>>
  BY NextLedger DEF Booked
<1>2. TypeInv => Whole
  BY TypeIsWhole
<1> QED
  BY <1>1, <1>2, InitLedger, TypeInductive, PTL
  DEF Spec, ImplementsLedger, Ledger!Spec, Books, Bill
=============================================================================
