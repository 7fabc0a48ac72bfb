------------------------ MODULE PaymentService_proofs ------------------------
(***************************************************************************)
(* Proofs about PaymentService: its safety properties, for any number of   *)
(* orders, threads, retries, requests and restarts.                        *)
(***************************************************************************)
EXTENDS PaymentService, SequenceTheorems, FiniteSetTheorems, TLAPS

-----------------------------------------------------------------------------
(* What the operators do *)

LEMMA IdleType == Idle \in Works /\ Idle.step = "idle"
BY DEF Idle, Works, Asked, Cards

\* The orders of requests that look for or create a payment are orders.
TypeInv ==
    /\ TypeOK
    /\ \A t \in Threads : at[t].step \in {"find", "create"} => at[t].order \in Orders

\* Thread t is now at w.
Moves(t, w) ==
    /\ at' \in [Threads -> Works] /\ at'[t] = w
    /\ \A u \in Threads : u # t => at'[u] = at[u]

LEMMA GoesMoves ==
    ASSUME TypeOK, NEW t \in Threads, NEW w \in Works, Goes(t, w)
    PROVE  Moves(t, w)
BY DEF TypeOK, Goes, Moves

\* Only payment p changes, and neither its order nor its card does.
Alters(p) ==
    /\ payments' \in Seq(Payments) /\ DOMAIN payments' = DOMAIN payments
    /\ payments'[p].order = payments[p].order /\ payments'[p].card = payments[p].card
    /\ \A q \in DOMAIN payments : q # p => payments'[q] = payments[q]

LEMMA PaymentType ==
    ASSUME TypeOK, NEW p \in DOMAIN payments
    PROVE  payments[p] \in Payments /\ p \in Nat
BY DEF TypeOK

LEMMA ReplacesOne ==
    ASSUME TypeOK, NEW p \in DOMAIN payments, NEW v \in Payments,
           payments' = [payments EXCEPT ![p] = v],
           v.order = payments[p].order, v.card = payments[p].card
    PROVE  Alters(p) /\ payments'[p] = v
BY DEF TypeOK, Alters

LEMMA SetsAlters ==
    ASSUME TypeOK, NEW p \in DOMAIN payments, NEW s \in PaymentStatus, Sets(p, s)
    PROVE  /\ Alters(p) /\ payments'[p].status = s /\ payments'[p].refunds = payments[p].refunds
<1> DEFINE v == [payments[p] EXCEPT !.status = s]
<1>1. /\ v \in Payments /\ v.order = payments[p].order /\ v.card = payments[p].card
      /\ v.status = s /\ v.refunds = payments[p].refunds
  BY PaymentType DEF Payments
<1>2. payments' = [payments EXCEPT ![p] = v]
  BY DEF Sets
<1> HIDE DEF v
<1> QED
  BY <1>1, <1>2, ReplacesOne

LEMMA Attempted ==
    ASSUME TypeOK, NEW p \in DOMAIN payments,
           payments' = [payments EXCEPT ![p].attempts = @ + 1]
    PROVE  /\ Alters(p) /\ payments'[p].status = payments[p].status
           /\ payments'[p].refunds = payments[p].refunds
<1> DEFINE v == [payments[p] EXCEPT !.attempts = payments[p].attempts + 1]
<1>1. /\ v \in Payments /\ v.order = payments[p].order /\ v.card = payments[p].card
      /\ v.status = payments[p].status /\ v.refunds = payments[p].refunds
  BY PaymentType DEF Payments
<1>2. payments' = [payments EXCEPT ![p] = v]
  OBVIOUS
<1> HIDE DEF v
<1> QED
  BY <1>1, <1>2, ReplacesOne

LEMMA Refunded ==
    ASSUME TypeOK, NEW p \in DOMAIN payments, NEW n \in Nat,
           payments' = [payments EXCEPT ![p].refunds = @ + n]
    PROVE  /\ Alters(p) /\ payments'[p].status = payments[p].status
           /\ payments'[p].refunds = payments[p].refunds + n
<1> DEFINE v == [payments[p] EXCEPT !.refunds = payments[p].refunds + n]
<1>1. /\ v \in Payments /\ v.order = payments[p].order /\ v.card = payments[p].card
      /\ v.status = payments[p].status /\ v.refunds = payments[p].refunds + n
  BY PaymentType DEF Payments
<1>2. payments' = [payments EXCEPT ![p] = v]
  OBVIOUS
<1> HIDE DEF v
<1> QED
  BY <1>1, <1>2, ReplacesOne

LEMMA MessagesMove ==
    ASSUME TypeOK, queue # <<>>
    PROVE  Tail(queue) \in Seq(Messages) /\ Append(Tail(queue), Head(queue)) \in Seq(Messages)
BY DEF TypeOK

-----------------------------------------------------------------------------
(* What the actions do *)

\* Some message leaves the queue, or goes to its end, when the consumer is done.
Leaves(t) == queue' = IF t = Consumer THEN Tail(queue) ELSE queue
Rotates(t) == queue' = IF t = Consumer THEN Append(Tail(queue), Head(queue)) ELSE queue

LEMMA EndsMoves ==
    ASSUME TypeOK, NEW t \in Threads
    PROVE  /\ Ends(t) => Moves(t, Idle) /\ Leaves(t)
           /\ Raises(t) => Moves(t, Idle) /\ Rotates(t)
BY IdleType, GoesMoves DEF Ends, Raises, Leaves, Rotates

LEMMA ProcessDoes ==
    ASSUME TypeOK, NEW t \in Threads, NEW o \in Orders, NEW c \in Asked, Process(t, o, c)
    PROVE  \E w \in Works :
               /\ at[t].step = "idle" /\ Moves(t, w)
               /\ w.step = "find" /\ w.order = o /\ w.card = c
               /\ t = Consumer => queue # <<>> /\ Head(queue).order = o /\ Head(queue).card = c
               /\ posts' \in 0 .. MaxPosts
               /\ UNCHANGED <<payments, queue, charges, restarts, again, rushed>>
<1> DEFINE w == [Idle EXCEPT !.step = "find", !.order = o, !.card = c, !.size = Len(payments)]
<1>1. Len(payments) \in Nat
  BY DEF TypeOK
<1>2. w \in Works /\ w.step = "find" /\ w.order = o /\ w.card = c
  BY <1>1, IdleType DEF Works
<1>3. Goes(t, w) /\ at[t] = Idle /\ UNCHANGED <<payments, queue, charges, restarts, again, rushed>>
  BY DEF Process
<1> HIDE DEF w
<1>4. posts' \in 0 .. MaxPosts
  BY BoundsAssumption DEF Process, TypeOK
<1>5. t = Consumer => queue # <<>> /\ Head(queue).order = o /\ Head(queue).card = c
  BY DEF Process
<1> QED
  BY <1>2, <1>3, <1>4, <1>5, GoesMoves, IdleType

\* The outcomes of find_by_order_id and of the check of the amount.
Answers(t) ==
    /\ Moves(t, Idle) /\ Leaves(t) /\ UNCHANGED again
    /\ \E p \in Of(at[t].order) : payments[p].status \in {"COMPLETED", "PROCESSING"}

Refuses(t) == Moves(t, Idle) /\ Leaves(t) /\ UNCHANGED again /\ at[t].card = "no_amount"

Goes2Create(t) == \E w \in Works :
    /\ Moves(t, w) /\ w.step = "create" /\ w.order = at[t].order /\ w.card \in Cards
    /\ w.card = at[t].card /\ UNCHANGED queue
    /\ again \subseteq again' /\ again' \subseteq again \cup {at[t].order}
    /\ at[t].order \notin again' =>
           /\ Of(at[t].order) = {}
           /\ ~\E u \in Threads : at[u].step = "create" /\ at[u].order = at[t].order

LEMMA CreatesMoves ==
    ASSUME TypeOK, NEW t \in Threads, NEW unusual \in BOOLEAN, Creates(t, unusual),
           unusual \/ /\ Of(at[t].order) = {}
                      /\ ~\E u \in Threads : at[u].step = "create" /\ at[u].order = at[t].order
    PROVE  Goes2Create(t) \/ Refuses(t)
<1> DEFINE w == [at[t] EXCEPT !.step = "create", !.size = 0]
<1>1. CASE at[t].card = "no_amount"
  BY <1>1, EndsMoves DEF Creates, Refuses
<1>2. CASE at[t].card # "no_amount"
  <2>1. /\ w \in Works /\ w.step = "create" /\ w.order = at[t].order /\ w.card = at[t].card
        /\ at[t].card \in Cards
    BY <1>2 DEF TypeOK, Works, Asked
  <2>2. Goes(t, w) /\ UNCHANGED queue
    BY <1>2 DEF Creates
  <2> HIDE DEF w
  <2>3. Moves(t, w)
    BY <2>1, <2>2, GoesMoves
  <2>4. /\ again \subseteq again' /\ again' \subseteq again \cup {at[t].order}
        /\ unusual => at[t].order \in again'
    BY <1>2 DEF Creates
  <2> QED
    BY <2>1, <2>2, <2>3, <2>4 DEF Goes2Create
<1> QED
  BY <1>1, <1>2

LEMMA FindDoes ==
    ASSUME TypeOK, NEW t \in Threads, FindByOrder(t)
    PROVE  /\ at[t].step = "find"
           /\ UNCHANGED <<payments, charges, posts, restarts, rushed>>
           /\ \/ Answers(t)
              \/ Refuses(t)
              \/ Goes2Create(t)
              \/ Moves(t, Idle) /\ Rotates(t) /\ UNCHANGED again
<1> DEFINE o == at[t].order
           others == \E u \in Threads : at[u].step = "create" /\ at[u].order = o
<1>1. at[t].step = "find" /\ UNCHANGED <<payments, charges, posts, restarts, rushed>>
  BY DEF FindByOrder
<1>2. ASSUME NEW p \in DOMAIN payments, IsFirst(p, o),
             payments[p].status \in {"COMPLETED", "PROCESSING"}, Ends(t), UNCHANGED again
      PROVE  Answers(t)
  BY <1>2, EndsMoves DEF Answers, IsFirst
<1>3. ASSUME Creates(t, TRUE) PROVE Goes2Create(t) \/ Refuses(t)
  BY <1>3, CreatesMoves
<1>4. ASSUME Of(o) = {}, Creates(t, others) PROVE Goes2Create(t) \/ Refuses(t)
  <2>1. CASE others
    <3>1. Creates(t, TRUE)
      BY <1>4, <2>1 DEF Creates
    <3> QED
      BY <3>1, CreatesMoves
  <2>2. CASE ~others
    <3>1. Creates(t, FALSE)
      BY <1>4, <2>2 DEF Creates
    <3> QED
      BY <1>4, <2>2, <3>1, CreatesMoves
  <2> QED
    BY <2>1, <2>2
<1>5. Raises(t) => Moves(t, Idle) /\ Rotates(t)
  BY EndsMoves
<1> QED
  BY <1>1, <1>2, <1>3, <1>4, <1>5 DEF FindByOrder

LEMMA CreateDoes ==
    ASSUME TypeInv, NEW t \in Threads, CreatePayment(t)
    PROVE  LET p == Len(payments) + 1 IN
           \E w \in Works :
               /\ at[t].step = "create" /\ Moves(t, w) /\ w.step = "charge" /\ w.payment = p
               /\ payments' \in Seq(Payments)
               /\ p \notin DOMAIN payments /\ DOMAIN payments' = DOMAIN payments \cup {p}
               /\ \A q \in DOMAIN payments : payments'[q] = payments[q]
               /\ payments'[p].order = at[t].order /\ payments'[p].status = "PROCESSING"
               /\ payments'[p].refunds = 0
               /\ UNCHANGED <<queue, charges, posts, restarts, again, rushed>>
<1> DEFINE p == Len(payments) + 1
           w == [Idle EXCEPT !.step = "charge", !.payment = p]
           v == [order |-> at[t].order, card |-> at[t].card,
                 status |-> "PROCESSING", refunds |-> 0, attempts |-> 0]
<1>1. Len(payments) \in Nat /\ payments \in Seq(Payments) /\ at[t] \in Works /\ TypeOK
  BY DEF TypeInv, TypeOK
<1>2. at[t].step = "create" /\ payments' = Append(payments, v) /\ Goes(t, w)
      /\ UNCHANGED <<queue, charges, posts, restarts, again, rushed>>
  BY DEF CreatePayment
<1>p. p \in Nat
  BY <1>1
<1> HIDE DEF p
<1>3. w \in Works /\ w.step = "charge" /\ w.payment = p
  BY <1>p, IdleType DEF Works
<1> USE DEF p
<1>4. /\ v \in Payments /\ v.order = at[t].order /\ v.status = "PROCESSING" /\ v.refunds = 0
  BY <1>1, <1>2 DEF TypeInv, TypeOK, Works, Payments, PaymentStatus
<1> HIDE DEF w, v
<1>5. /\ payments' \in Seq(Payments) /\ payments'[p] = v
      /\ p \notin DOMAIN payments /\ DOMAIN payments' = DOMAIN payments \cup {p}
      /\ \A q \in DOMAIN payments : payments'[q] = payments[q]
  BY <1>1, <1>2, <1>4
<1> QED
  BY <1>1, <1>2, <1>3, <1>4, <1>5, GoesMoves

\* The outcomes of a call of the gateway.
Fails(t, p) ==
    /\ Moves(t, Idle) /\ Leaves(t) /\ UNCHANGED charges
    /\ Alters(p) /\ payments'[p].status = "FAILED" /\ payments'[p].refunds = payments[p].refunds
    /\ payments[p].card # "card_flaky"

TriesAgain(p) ==
    /\ UNCHANGED <<queue, at, charges>>
    /\ Alters(p) /\ payments'[p].status = payments[p].status
    /\ payments'[p].refunds = payments[p].refunds

Charges(t, p) ==
    /\ Moves(t, Idle) /\ Leaves(t)
    /\ Alters(p) /\ payments'[p].status = "COMPLETED" /\ payments'[p].refunds = payments[p].refunds
    /\ charges' = [charges EXCEPT ![payments[p].order] = @ + 1]

LEMMA CallDoes ==
    ASSUME TypeOK, NEW t \in Threads, CallGateway(t)
    PROVE  LET p == at[t].payment IN
           /\ at[t].step = "charge" /\ p \in DOMAIN payments
           /\ UNCHANGED <<posts, restarts, again, rushed>>
           /\ Fails(t, p) \/ TriesAgain(p) \/ Charges(t, p)
<1> DEFINE p == at[t].payment
<1>1. at[t].step = "charge" /\ p \in DOMAIN payments /\ UNCHANGED <<posts, restarts, again, rushed>>
  BY DEF CallGateway, TypeOK
<1>2. ASSUME MarkFailed(t), payments[p].card # "card_flaky" PROVE Fails(t, p)
  BY <1>1, <1>2, SetsAlters, EndsMoves DEF MarkFailed, Fails, PaymentStatus
<1>3. ASSUME GatewayError(t) PROVE TriesAgain(p)
  <2>1. payments[p].attempts < FlakyErrors /\ payments[p].attempts \in Nat
    BY <1>1, <1>3, PaymentType DEF GatewayError, Payments
  <2>2. ~(payments[p].attempts >= MaxRetries)
    BY <2>1, RetryAssumption
  <2>3. payments' = [payments EXCEPT ![p].attempts = @ + 1] /\ UNCHANGED <<queue, at, charges>>
    BY <1>3, <2>2 DEF GatewayError
  <2> QED
    BY <1>1, <2>3, Attempted DEF TriesAgain
<1>4. ASSUME Complete(t) PROVE Charges(t, p)
  BY <1>1, <1>4, SetsAlters, EndsMoves DEF Complete, Charges, PaymentStatus
<1> QED
  BY <1>1, <1>2, <1>3, <1>4 DEF CallGateway

LEMMA RefundDoes ==
    ASSUME TypeOK, NEW t \in Clients, NEW p \in DOMAIN payments, NEW n \in 1 .. Amount, Refund(t, p, n)
    PROVE  \E w \in Works :
               /\ at[t].step = "idle" /\ Moves(t, w)
               /\ w.step = "append" /\ w.payment = p /\ w.amount = n
               /\ payments[p].status \in {"COMPLETED", "REFUNDED"}
               /\ payments[p].refunds + n <= Amount
               /\ rushed' = IF \E u \in Threads : at[u].step = "append" /\ at[u].payment = p
                            THEN rushed \cup {p} ELSE rushed
               /\ UNCHANGED <<payments, queue, charges, posts, restarts, again>>
<1> DEFINE w == [Idle EXCEPT !.step = "append", !.payment = p, !.amount = n]
<1>1. p \in Nat /\ n \in Nat
  BY PaymentType, AmountAssumption
<1>2. w \in Works /\ w.step = "append" /\ w.payment = p /\ w.amount = n
  BY <1>1, IdleType DEF Works
<1>3. Goes(t, w) /\ at[t] = Idle
  BY DEF Refund
<1> HIDE DEF w
<1>4. Moves(t, w)
  BY <1>2, <1>3, GoesMoves DEF Threads
<1> QED
  BY <1>2, <1>3, <1>4, IdleType DEF Refund

LEMMA AppendDoes ==
    ASSUME TypeOK, NEW t \in Threads, AppendRefund(t)
    PROVE  LET p == at[t].payment IN
           \E w \in Works :
               /\ at[t].step = "append" /\ Moves(t, w) /\ w.step = "settle" /\ w.payment = p
               /\ p \in DOMAIN payments /\ Alters(p) /\ at[t].amount \in Nat
               /\ payments'[p].status = payments[p].status
               /\ payments'[p].refunds = payments[p].refunds + at[t].amount
               /\ UNCHANGED <<queue, charges, posts, restarts, again, rushed>>
<1> DEFINE p == at[t].payment
           w == [at[t] EXCEPT !.step = "settle"]
<1>1. at[t] \in Works /\ at[t].step = "append" /\ p \in DOMAIN payments /\ at[t].amount \in Nat
  BY DEF TypeOK, AppendRefund, Works
<1>2. w \in Works /\ w.step = "settle" /\ w.payment = p
  BY <1>1 DEF Works
<1>3. Goes(t, w) /\ payments' = [payments EXCEPT ![p].refunds = @ + at[t].amount]
      /\ UNCHANGED <<queue, charges, posts, restarts, again, rushed>>
  BY DEF AppendRefund
<1> HIDE DEF w
<1>4. Alters(p) /\ payments'[p].status = payments[p].status
      /\ payments'[p].refunds = payments[p].refunds + at[t].amount
  BY <1>1, <1>3, Refunded
<1> QED
  BY <1>1, <1>2, <1>3, <1>4, GoesMoves

LEMMA SettleDoes ==
    ASSUME TypeOK, NEW t \in Threads, Settle(t)
    PROVE  LET p == at[t].payment IN
           /\ at[t].step = "settle" /\ Moves(t, Idle) /\ p \in DOMAIN payments
           /\ UNCHANGED <<queue, charges, posts, restarts, again, rushed>>
           /\ \/ /\ payments[p].refunds >= Amount
                 /\ Alters(p) /\ payments'[p].status = "REFUNDED"
                 /\ payments'[p].refunds = payments[p].refunds
              \/ ~(payments[p].refunds >= Amount) /\ UNCHANGED payments
<1> DEFINE p == at[t].payment
<1>1. /\ at[t].step = "settle" /\ p \in DOMAIN payments /\ Goes(t, Idle)
      /\ UNCHANGED <<queue, charges, posts, restarts, again, rushed>>
      /\ IF payments[p].refunds >= Amount THEN Sets(p, "REFUNDED") ELSE UNCHANGED payments
  BY DEF Settle, TypeOK
<1>2. Moves(t, Idle)
  BY <1>1, GoesMoves, IdleType
<1> QED
  BY <1>1, <1>2, SetsAlters DEF PaymentStatus

\* The actions, whoever takes them.
LEMMA Steps ==
    ASSUME [Next]_vars
    PROVE  \/ \E t \in Threads, o \in Orders, c \in Asked : Process(t, o, c)
           \/ \E t \in Threads : FindByOrder(t) \/ CreatePayment(t) \/ CallGateway(t)
                                 \/ AppendRefund(t) \/ Settle(t)
           \/ \E t \in Clients, p \in DOMAIN payments, n \in 1 .. Amount : Refund(t, p, n)
           \/ Restart \/ UNCHANGED vars
BY DEF Next, Consumes, Requests, Continues, Threads

-----------------------------------------------------------------------------
(* TypeOK, AckedHasPayment *)

\* The consumer works on the message at the head of the queue, and refunds nothing.
ConsumerInv ==
    /\ at[Consumer].step # "idle" => queue # <<>>
    /\ at[Consumer].step \in {"find", "create"} =>
           at[Consumer].order = Head(queue).order /\ at[Consumer].card = Head(queue).card
    /\ at[Consumer].step = "charge" => payments[at[Consumer].payment].order = Head(queue).order
    /\ at[Consumer].step \notin {"append", "settle"}

LEMMA InitType == Init => TypeInv /\ ConsumerInv
<1> SUFFICES ASSUME Init PROVE TypeInv /\ ConsumerInv
  OBVIOUS
<1>1. queue \in Seq(Messages)
  <2>1. queue \in [1 .. Cardinality(Orders) -> Messages]
    BY Zenon DEF Init
  <2>2. Cardinality(Orders) \in Nat
    BY OrdersAssumption, FS_CardinalityType
  <2> QED
    BY <2>1, <2>2
<1>2. payments = <<>> /\ payments \in Seq(Payments)
  BY DEF Init
<1>3. at \in [Threads -> Works] /\ \A t \in Threads : at[t].step = "idle"
  BY IdleType DEF Init
<1>4. charges \in [Orders -> Nat] /\ again = {} /\ rushed = {}
  BY DEF Init
<1>5. posts \in 0 .. MaxPosts /\ restarts \in 0 .. MaxRestarts
  BY BoundsAssumption DEF Init
<1>6. Consumer \in Threads
  BY DEF Threads
<1> QED
  BY <1>1, <1>2, <1>3, <1>4, <1>5, <1>6 DEF TypeInv, TypeOK, ConsumerInv

LEMMA ProcessKeepsType ==
    ASSUME TypeInv, ConsumerInv, NEW t \in Threads, NEW o \in Orders, NEW c \in Asked, Process(t, o, c)
    PROVE  TypeInv' /\ ConsumerInv'
<1>1. PICK w \in Works :
          /\ at[t].step = "idle" /\ Moves(t, w)
          /\ w.step = "find" /\ w.order = o /\ w.card = c
          /\ t = Consumer => queue # <<>> /\ Head(queue).order = o /\ Head(queue).card = c
          /\ posts' \in 0 .. MaxPosts
          /\ UNCHANGED <<payments, queue, charges, restarts, again, rushed>>
  BY ProcessDoes DEF TypeInv
<1>2. TypeInv'
  BY <1>1 DEF TypeInv, TypeOK, Moves
<1>3. ConsumerInv'
  BY <1>1 DEF ConsumerInv, Moves, Threads
<1> QED
  BY <1>2, <1>3

LEMMA FindKeepsType ==
    ASSUME TypeInv, ConsumerInv, NEW t \in Threads, FindByOrder(t)
    PROVE  TypeInv' /\ ConsumerInv'
<1>t. TypeOK /\ at[t].step = "find" /\ at[t].order \in Orders
      /\ UNCHANGED <<payments, charges, posts, restarts, rushed>>
  BY FindDoes DEF TypeInv
<1>q. t = Consumer => queue # <<>>
  BY <1>t DEF ConsumerInv
<1>1. ASSUME Moves(t, Idle), Leaves(t) \/ Rotates(t), UNCHANGED again PROVE TypeInv' /\ ConsumerInv'
  <2>1. queue' \in Seq(Messages) /\ (t # Consumer => queue' = queue)
    BY <1>t, <1>q, <1>1, MessagesMove DEF Leaves, Rotates, TypeOK
  <2>2. TypeInv'
    BY <1>t, <1>1, <2>1, IdleType DEF TypeInv, TypeOK, Moves
  <2>3. ConsumerInv'
    BY <1>t, <1>1, <2>1, IdleType DEF ConsumerInv, Moves, Threads
  <2> QED
    BY <2>2, <2>3
<1>2. ASSUME Goes2Create(t) PROVE TypeInv' /\ ConsumerInv'
  <2>1. PICK w \in Works :
            /\ Moves(t, w) /\ w.step = "create" /\ w.order = at[t].order /\ w.card \in Cards
            /\ w.card = at[t].card /\ UNCHANGED queue
            /\ again' \subseteq again \cup {at[t].order}
    BY <1>2 DEF Goes2Create
  <2>2. TypeInv'
    BY <1>t, <2>1 DEF TypeInv, TypeOK, Moves
  <2>3. ConsumerInv'
    BY <1>t, <2>1 DEF ConsumerInv, Moves, Threads
  <2> QED
    BY <2>2, <2>3
<1> QED
  BY <1>t, <1>1, <1>2, FindDoes DEF Answers, Refuses

LEMMA CreateKeepsType ==
    ASSUME TypeInv, ConsumerInv, NEW t \in Threads, CreatePayment(t)
    PROVE  TypeInv' /\ ConsumerInv'
<1> DEFINE p == Len(payments) + 1
<1>1. PICK w \in Works :
          /\ at[t].step = "create" /\ Moves(t, w) /\ w.step = "charge" /\ w.payment = p
          /\ payments' \in Seq(Payments)
          /\ DOMAIN payments' = DOMAIN payments \cup {p}
          /\ \A q \in DOMAIN payments : payments'[q] = payments[q]
          /\ payments'[p].order = at[t].order
          /\ UNCHANGED <<queue, charges, posts, restarts, again, rushed>>
  BY CreateDoes
<1> HIDE DEF p
<1>2. TypeInv'
  BY <1>1 DEF TypeInv, TypeOK, Moves
<1>3. ConsumerInv'
  BY <1>1 DEF TypeInv, TypeOK, ConsumerInv, Moves, Threads
<1> QED
  BY <1>2, <1>3

LEMMA CallKeepsType ==
    ASSUME TypeInv, ConsumerInv, NEW t \in Threads, CallGateway(t)
    PROVE  TypeInv' /\ ConsumerInv'
<1>t. TypeOK
  BY DEF TypeInv
<1>1. PICK p \in DOMAIN payments :
          /\ at[t].step = "charge" /\ p = at[t].payment
          /\ UNCHANGED <<posts, restarts, again, rushed>>
          /\ Fails(t, p) \/ TriesAgain(p) \/ Charges(t, p)
  BY <1>t, CallDoes
<1>2. /\ payments' \in Seq(Payments) /\ DOMAIN payments' = DOMAIN payments
      /\ \A q \in DOMAIN payments : payments'[q].order = payments[q].order
  BY <1>1 DEF Fails, TriesAgain, Charges, Alters
<1>3. charges' \in [Orders -> Nat]
  <2>1. payments[p].order \in Orders
    BY <1>t, <1>1, PaymentType DEF Payments
  <2> QED
    BY <1>t, <1>1, <2>1 DEF Fails, TriesAgain, Charges, TypeOK
<1>4. CASE TriesAgain(p)
  <2>1. UNCHANGED <<queue, at>>
    BY <1>4 DEF TriesAgain
  <2>2. TypeInv'
    BY <1>t, <1>1, <1>2, <1>3, <2>1 DEF TypeInv, TypeOK
  <2>3. ConsumerInv'
    BY <1>t, <1>2, <2>1 DEF ConsumerInv, TypeOK, Threads
  <2> QED
    BY <2>2, <2>3
<1>5. CASE Moves(t, Idle) /\ Leaves(t)
  <2>1. queue' \in Seq(Messages) /\ (t # Consumer => queue' = queue)
    <3>1. t = Consumer => queue # <<>>
      BY <1>1 DEF ConsumerInv
    <3> QED
      BY <1>t, <1>5, <3>1, MessagesMove DEF Leaves, TypeOK
  <2>2. TypeInv'
    BY <1>t, <1>1, <1>2, <1>3, <1>5, <2>1, IdleType DEF TypeInv, TypeOK, Moves
  <2>3. ConsumerInv'
    BY <1>t, <1>2, <1>5, <2>1, IdleType DEF ConsumerInv, Moves, TypeOK, Threads
  <2> QED
    BY <2>2, <2>3
<1> QED
  BY <1>1, <1>4, <1>5 DEF Fails, Charges

LEMMA RefundKeepsType ==
    ASSUME TypeInv, ConsumerInv, NEW t \in Clients, NEW p \in DOMAIN payments, NEW n \in 1 .. Amount,
           Refund(t, p, n)
    PROVE  TypeInv' /\ ConsumerInv'
<1>1. PICK w \in Works :
          /\ Moves(t, w) /\ w.step = "append" /\ w.payment = p
          /\ rushed' = IF \E u \in Threads : at[u].step = "append" /\ at[u].payment = p
                       THEN rushed \cup {p} ELSE rushed
          /\ UNCHANGED <<payments, queue, charges, posts, restarts, again>>
  BY RefundDoes DEF TypeInv
<1>2. t \in Threads /\ t # Consumer /\ Consumer \in Threads
  BY NamesAssumption DEF Threads
<1>3. rushed' \subseteq Nat
  BY <1>1, PaymentType DEF TypeInv, TypeOK
<1>4. TypeInv'
  BY <1>1, <1>2, <1>3 DEF TypeInv, TypeOK, Moves
<1>5. ConsumerInv'
  BY <1>1, <1>2 DEF ConsumerInv, Moves
<1> QED
  BY <1>4, <1>5

LEMMA AppendKeepsType ==
    ASSUME TypeInv, ConsumerInv, NEW t \in Threads, AppendRefund(t)
    PROVE  TypeInv' /\ ConsumerInv'
<1>1. PICK p \in DOMAIN payments, w \in Works :
          /\ at[t].step = "append" /\ Moves(t, w) /\ w.step = "settle" /\ w.payment = p /\ Alters(p)
          /\ UNCHANGED <<queue, charges, posts, restarts, again, rushed>>
  BY AppendDoes DEF TypeInv
<1>2. t # Consumer
  BY <1>1 DEF ConsumerInv
<1>3. TypeInv'
  BY <1>1 DEF TypeInv, TypeOK, Moves, Alters
<1>4. ConsumerInv'
  BY <1>1, <1>2 DEF ConsumerInv, Moves, Alters, Threads, TypeInv, TypeOK
<1> QED
  BY <1>3, <1>4

LEMMA SettleKeepsType ==
    ASSUME TypeInv, ConsumerInv, NEW t \in Threads, Settle(t)
    PROVE  TypeInv' /\ ConsumerInv'
<1>1. PICK p \in DOMAIN payments :
          /\ at[t].step = "settle" /\ Moves(t, Idle) /\ (Alters(p) \/ UNCHANGED payments)
          /\ UNCHANGED <<queue, charges, posts, restarts, again, rushed>>
  BY SettleDoes DEF TypeInv
<1>2. t # Consumer
  BY <1>1 DEF ConsumerInv
<1>3. /\ payments' \in Seq(Payments) /\ DOMAIN payments' = DOMAIN payments
      /\ \A q \in DOMAIN payments : payments'[q].order = payments[q].order
  BY <1>1 DEF Alters, TypeInv, TypeOK
<1>4. TypeInv'
  BY <1>1, <1>3, IdleType DEF TypeInv, TypeOK, Moves
<1>5. ConsumerInv'
  BY <1>1, <1>2, <1>3 DEF ConsumerInv, Moves, Threads, TypeInv, TypeOK
<1> QED
  BY <1>4, <1>5

LEMMA RestartKeepsType ==
    ASSUME TypeInv, ConsumerInv, Restart
    PROVE  TypeInv' /\ ConsumerInv'
<1>1. at' \in [Threads -> Works] /\ \A t \in Threads : at'[t].step = "idle"
  BY IdleType DEF Restart
<1>2. payments' \in Seq(Payments) /\ restarts' \in 0 .. MaxRestarts
      /\ UNCHANGED <<queue, charges, posts, again>> /\ rushed' = {}
  BY BoundsAssumption DEF Restart, TypeInv, TypeOK
<1> QED
  BY <1>1, <1>2 DEF TypeInv, TypeOK, ConsumerInv, Threads

LEMMA NextType == TypeInv /\ ConsumerInv /\ [Next]_vars => TypeInv' /\ ConsumerInv'
<1>1. ASSUME TypeInv, ConsumerInv, UNCHANGED vars PROVE TypeInv' /\ ConsumerInv'
  BY <1>1 DEF TypeInv, TypeOK, ConsumerInv, vars
<1> QED
  BY <1>1, Steps, ProcessKeepsType, FindKeepsType, CreateKeepsType, CallKeepsType, RefundKeepsType,
     AppendKeepsType, SettleKeepsType, RestartKeepsType

\* TypeOK: no thread works on a payment that is not there.
THEOREM TypeCorrect == Spec => []TypeOK
<1>1. TypeInv => TypeOK
  BY DEF TypeInv
<1> QED
  BY <1>1, InitType, NextType, PTL DEF Spec

-----------------------------------------------------------------------------
(* ProcessingIsWorkedOn, RefundedWhenAllIs, FlakyIsPaid *)

\* One thread charges a payment that is being processed; refunds are of payments
\* that were charged.
WorkInv ==
    /\ \A t \in Threads : at[t].step = "charge" => payments[at[t].payment].status = "PROCESSING"
    /\ \A t, u \in Threads : at[t].step = "charge" /\ at[u].step = "charge"
           /\ at[t].payment = at[u].payment => t = u
    /\ \A t \in Threads : at[t].step \in {"append", "settle"} =>
           payments[at[t].payment].status \in {"COMPLETED", "REFUNDED"}
    /\ ProcessingIsWorkedOn
    /\ RefundedWhenAllIs
    /\ FlakyIsPaid

LEMMA InitWork == Init => WorkInv
BY IdleType DEF Init, WorkInv, ProcessingIsWorkedOn, RefundedWhenAllIs, FlakyIsPaid

\* A step that leaves the payments alone, and no thread that works on one.
LEMMA AsideWork ==
    ASSUME TypeInv, WorkInv, payments' = payments, NEW t \in Threads, NEW w, Moves(t, w),
           at[t].step \notin {"charge", "settle"},
           \/ w.step \notin {"charge", "append", "settle"}
           \/ w.step = "append" /\ payments[w.payment].status \in {"COMPLETED", "REFUNDED"}
    PROVE  WorkInv'
<1>1. \A u \in Threads : at'[u].step \in {"charge", "settle"} \/ at[u].step \in {"charge", "settle"} =>
          at'[u] = at[u]
  BY DEF Moves
<1>2. ProcessingIsWorkedOn'
  BY <1>1 DEF WorkInv, ProcessingIsWorkedOn
<1>3. RefundedWhenAllIs'
  BY <1>1 DEF WorkInv, RefundedWhenAllIs
<1>4. FlakyIsPaid'
  BY DEF WorkInv, FlakyIsPaid
<1>5. \A u \in Threads : at'[u].step = "append" => payments[at'[u].payment].status \in {"COMPLETED", "REFUNDED"}
  BY DEF WorkInv, Moves
<1> QED
  BY <1>1, <1>2, <1>3, <1>4, <1>5 DEF WorkInv

LEMMA CreateWork ==
    ASSUME TypeInv, WorkInv, NEW t \in Threads, CreatePayment(t)
    PROVE  WorkInv'
<1> DEFINE p == Len(payments) + 1
<1>1. PICK w \in Works :
          /\ at[t].step = "create" /\ Moves(t, w) /\ w.step = "charge" /\ w.payment = p
          /\ p \notin DOMAIN payments /\ DOMAIN payments' = DOMAIN payments \cup {p}
          /\ \A q \in DOMAIN payments : payments'[q] = payments[q]
          /\ payments'[p].status = "PROCESSING" /\ payments'[p].refunds = 0
  BY CreateDoes
<1> HIDE DEF p
<1>2. \A u \in Threads : u # t => at'[u] = at[u]
  BY <1>1 DEF Moves
<1>3. at'[t].step = "charge" /\ at'[t].payment = p
  BY <1>1 DEF Moves
<1>4. \A u \in Threads : at[u].step \in {"charge", "append", "settle"} => at[u].payment \in DOMAIN payments
  BY DEF TypeInv, TypeOK
<1>5. ProcessingIsWorkedOn'
  BY <1>1, <1>2, <1>3 DEF WorkInv, ProcessingIsWorkedOn
<1>6. RefundedWhenAllIs'
  <2>1. ~(0 >= Amount)
    BY AmountAssumption
  <2> QED
    BY <1>1, <1>2, <1>3, <2>1 DEF WorkInv, RefundedWhenAllIs
<1>7. FlakyIsPaid'
  BY <1>1 DEF WorkInv, FlakyIsPaid
<1>8. \A u \in Threads : u # t /\ at'[u].step = "charge" => at'[u].payment # p
  BY <1>1, <1>2, <1>4
<1>9. \A u \in Threads : at'[u].step = "charge" => payments'[at'[u].payment].status = "PROCESSING"
  BY <1>1, <1>2, <1>3, <1>4 DEF WorkInv
<1>10. \A u \in Threads : at'[u].step \in {"append", "settle"} =>
           payments'[at'[u].payment].status \in {"COMPLETED", "REFUNDED"}
  BY <1>1, <1>2, <1>3, <1>4 DEF WorkInv
<1>11. \A u, v \in Threads : at'[u].step = "charge" /\ at'[v].step = "charge"
           /\ at'[u].payment = at'[v].payment => u = v
  BY <1>2, <1>3, <1>8 DEF WorkInv
<1> QED
  BY <1>5, <1>6, <1>7, <1>9, <1>10, <1>11 DEF WorkInv

LEMMA CallWork ==
    ASSUME TypeInv, WorkInv, NEW t \in Threads, CallGateway(t)
    PROVE  WorkInv'
<1>t. TypeOK
  BY DEF TypeInv
<1>1. PICK p \in DOMAIN payments :
          /\ at[t].step = "charge" /\ p = at[t].payment /\ Alters(p)
          /\ payments'[p].refunds = payments[p].refunds
          /\ \/ at' = at /\ payments'[p].status = payments[p].status
             \/ Moves(t, Idle) /\ payments'[p].status = "COMPLETED"
             \/ Moves(t, Idle) /\ payments'[p].status = "FAILED" /\ payments[p].card # "card_flaky"
  BY <1>t, CallDoes DEF Fails, TriesAgain, Charges
<1>2. /\ DOMAIN payments' = DOMAIN payments /\ payments'[p].card = payments[p].card
      /\ \A q \in DOMAIN payments : q # p => payments'[q] = payments[q]
      /\ payments[p].status = "PROCESSING"
  BY <1>1 DEF Alters, WorkInv
<1>3. FlakyIsPaid'
  BY <1>1, <1>2 DEF WorkInv, FlakyIsPaid
<1>4. \A u \in Threads : at[u].step \in {"charge", "append", "settle"} => at[u].payment \in DOMAIN payments
  BY DEF TypeInv, TypeOK
<1>5. \A u \in Threads : at[u].step = "charge" /\ at[u].payment = p => u = t
  BY <1>1 DEF WorkInv
<1>6. \A u \in Threads : at[u].step \in {"append", "settle"} => at[u].payment # p
  BY <1>1, <1>2 DEF WorkInv
<1>7. CASE at' = at /\ payments'[p].status = payments[p].status
  <2>1. \A q \in DOMAIN payments : /\ payments'[q].status = payments[q].status
                                   /\ payments'[q].refunds = payments[q].refunds
    BY <1>1, <1>2, <1>7
  <2>2. ProcessingIsWorkedOn' /\ RefundedWhenAllIs'
    BY <1>2, <1>7, <2>1 DEF WorkInv, ProcessingIsWorkedOn, RefundedWhenAllIs
  <2> QED
    BY <1>3, <1>4, <1>7, <2>1, <2>2 DEF WorkInv
<1>8. CASE Moves(t, Idle) /\ payments'[p].status \in {"COMPLETED", "FAILED"}
  <2>1. at'[t].step = "idle" /\ \A u \in Threads : u # t => at'[u] = at[u]
    BY <1>8, IdleType DEF Moves
  <2>2. ProcessingIsWorkedOn'
    BY <1>1, <1>2, <1>8, <2>1 DEF WorkInv, ProcessingIsWorkedOn
  <2>3. RefundedWhenAllIs'
    BY <1>1, <1>2, <1>8, <2>1 DEF WorkInv, RefundedWhenAllIs
  <2>4. \A u \in Threads : at'[u].step \in {"charge", "append", "settle"} =>
            at'[u] = at[u] /\ payments'[at[u].payment] = payments[at[u].payment]
    BY <1>2, <1>4, <1>5, <1>6, <2>1
  <2> QED
    BY <1>3, <2>2, <2>3, <2>4 DEF WorkInv
<1> QED
  BY <1>1, <1>7, <1>8

LEMMA AppendWork ==
    ASSUME TypeInv, WorkInv, NEW t \in Threads, AppendRefund(t)
    PROVE  WorkInv'
<1>p. PICK p \in DOMAIN payments : p = at[t].payment
  BY DEF TypeInv, TypeOK, AppendRefund
<1>1. PICK w \in Works :
          /\ p = at[t].payment /\ at[t].step = "append" /\ Moves(t, w) /\ w.step = "settle" /\ w.payment = p
          /\ p \in DOMAIN payments /\ Alters(p)
          /\ payments'[p].status = payments[p].status
  BY <1>p, AppendDoes DEF TypeInv
<1>2. /\ DOMAIN payments' = DOMAIN payments /\ payments'[p].card = payments[p].card
      /\ \A q \in DOMAIN payments : payments'[q].status = payments[q].status
      /\ \A q \in DOMAIN payments : q # p => payments'[q] = payments[q]
  BY <1>1 DEF Alters
<1>3. \A u \in Threads : u # t => at'[u] = at[u]
  BY <1>1 DEF Moves
<1>4. at'[t].step = "settle" /\ at'[t].payment = p
  BY <1>1 DEF Moves
<1>5. ProcessingIsWorkedOn'
  BY <1>1, <1>2, <1>3 DEF WorkInv, ProcessingIsWorkedOn
<1>6. FlakyIsPaid'
  BY <1>2 DEF WorkInv, FlakyIsPaid
<1>7. RefundedWhenAllIs'
  <2> SUFFICES ASSUME NEW q \in DOMAIN payments
               PROVE  /\ payments'[q].status = "REFUNDED" => payments'[q].refunds >= Amount
                      /\ payments'[q].status # "REFUNDED" /\ payments'[q].refunds >= Amount =>
                             \E u \in Threads : at'[u].step = "settle" /\ at'[u].payment = q
    BY <1>2 DEF RefundedWhenAllIs
  <2>1. CASE q = p
    <3>1. payments[p].refunds \in Nat /\ at[t].amount \in Nat /\ Amount \in Nat
          /\ payments'[p].refunds = payments[p].refunds + at[t].amount
      BY <1>1, AppendDoes, PaymentType, AmountAssumption DEF TypeInv, Payments
    <3>2. payments[p].refunds >= Amount => payments'[p].refunds >= Amount
      BY <3>1
    <3> QED
      BY <1>1, <1>2, <1>4, <2>1, <3>2 DEF WorkInv, RefundedWhenAllIs
  <2>2. CASE q # p
    <3>1. \A u \in Threads : at[u].step = "settle" => at'[u] = at[u]
      BY <1>1, <1>3
    <3> QED
      BY <1>2, <2>2, <3>1 DEF WorkInv, RefundedWhenAllIs
  <2> QED
    BY <2>1, <2>2
<1>8. \A u \in Threads : at[u].step \in {"charge", "append", "settle"} => at[u].payment \in DOMAIN payments
  BY DEF TypeInv, TypeOK
<1>9. \A u \in Threads : at'[u].step = "charge" => at'[u] = at[u]
  BY <1>3, <1>4
<1>10. \A u \in Threads : at'[u].step \in {"append", "settle"} =>
           /\ at[u].step \in {"append", "settle"} /\ at'[u].payment = at[u].payment
  BY <1>1, <1>3, <1>4
<1> QED
  BY <1>2, <1>5, <1>6, <1>7, <1>8, <1>9, <1>10 DEF WorkInv

LEMMA SettleWork ==
    ASSUME TypeInv, WorkInv, NEW t \in Threads, Settle(t)
    PROVE  WorkInv'
<1>1. PICK p \in DOMAIN payments :
          /\ p = at[t].payment /\ at[t].step = "settle" /\ Moves(t, Idle)
          /\ \/ /\ payments[p].refunds >= Amount
                /\ Alters(p) /\ payments'[p].status = "REFUNDED"
                /\ payments'[p].refunds = payments[p].refunds
             \/ ~(payments[p].refunds >= Amount) /\ UNCHANGED payments
  BY SettleDoes DEF TypeInv
<1>2. at'[t].step = "idle" /\ \A u \in Threads : u # t => at'[u] = at[u]
  BY <1>1, IdleType DEF Moves
<1>3. payments[p].status \in {"COMPLETED", "REFUNDED"}
  BY <1>1 DEF WorkInv
<1>4. /\ DOMAIN payments' = DOMAIN payments /\ payments'[p].card = payments[p].card
      /\ payments'[p].refunds = payments[p].refunds
      /\ payments'[p].status = IF payments[p].refunds >= Amount THEN "REFUNDED" ELSE payments[p].status
      /\ \A q \in DOMAIN payments : q # p => payments'[q] = payments[q]
  BY <1>1 DEF Alters
<1>5. ProcessingIsWorkedOn'
  BY <1>1, <1>2, <1>3, <1>4 DEF WorkInv, ProcessingIsWorkedOn
<1>6. RefundedWhenAllIs'
  BY <1>1, <1>2, <1>4 DEF WorkInv, RefundedWhenAllIs
<1>7. FlakyIsPaid'
  BY <1>3, <1>4 DEF WorkInv, FlakyIsPaid
<1>8. \A u \in Threads : at[u].step \in {"charge", "append", "settle"} => at[u].payment \in DOMAIN payments
  BY DEF TypeInv, TypeOK
<1>9. \A u \in Threads : at'[u].step \in {"charge", "append", "settle"} => at'[u] = at[u]
  BY <1>2
<1>10. \A q \in DOMAIN payments :
           /\ payments[q].status = "PROCESSING" => payments'[q].status = "PROCESSING"
           /\ payments[q].status \in {"COMPLETED", "REFUNDED"} =>
                  payments'[q].status \in {"COMPLETED", "REFUNDED"}
  BY <1>3, <1>4
<1> QED
  BY <1>5, <1>6, <1>7, <1>8, <1>9, <1>10 DEF WorkInv

LEMMA NextWork == TypeInv /\ WorkInv /\ [Next]_vars => WorkInv'
<1> SUFFICES ASSUME TypeInv, WorkInv, [Next]_vars PROVE WorkInv'
  OBVIOUS
<1>t. TypeOK
  BY DEF TypeInv
<1>1. ASSUME NEW t \in Threads, NEW o \in Orders, NEW c \in Asked, Process(t, o, c) PROVE WorkInv'
  <2>1. PICK w \in Works : at[t].step = "idle" /\ Moves(t, w) /\ w.step = "find" /\ payments' = payments
    BY <1>t, <1>1, ProcessDoes
  <2> QED
    BY <2>1, AsideWork
<1>2. ASSUME NEW t \in Threads, FindByOrder(t) PROVE WorkInv'
  <2>1. at[t].step = "find" /\ payments' = payments
        /\ \E w \in Works : Moves(t, w) /\ w.step \in {"idle", "create"}
    BY <1>t, <1>2, FindDoes, IdleType DEF Answers, Refuses, Goes2Create
  <2> QED
    BY <2>1, AsideWork
<1>3. ASSUME NEW t \in Clients, NEW p \in DOMAIN payments, NEW n \in 1 .. Amount, Refund(t, p, n)
      PROVE  WorkInv'
  <2>1. t \in Threads
    BY DEF Threads
  <2>2. PICK w \in Works :
            /\ at[t].step = "idle" /\ Moves(t, w) /\ w.step = "append" /\ w.payment = p
            /\ payments[p].status \in {"COMPLETED", "REFUNDED"} /\ payments' = payments
    BY <1>t, <1>3, RefundDoes
  <2> QED
    BY <2>1, <2>2, AsideWork
<1>4. ASSUME Restart PROVE WorkInv'
  <2>1. payments' = <<>> /\ \A t \in Threads : at'[t].step = "idle"
    BY <1>4, IdleType DEF Restart
  <2> QED
    BY <2>1 DEF WorkInv, ProcessingIsWorkedOn, RefundedWhenAllIs, FlakyIsPaid
<1>5. CASE UNCHANGED vars
  BY <1>5 DEF vars, WorkInv, ProcessingIsWorkedOn, RefundedWhenAllIs, FlakyIsPaid
<1> QED
  BY <1>1, <1>2, <1>3, <1>4, <1>5, Steps, CreateWork, CallWork, AppendWork, SettleWork

\* ProcessingIsWorkedOn: a payment that says it is being processed is: who finds it
\* so may be told that all is done.
THEOREM ProcessingStaysWorkedOn == Spec => []ProcessingIsWorkedOn
<1>1. WorkInv => ProcessingIsWorkedOn
  BY DEF WorkInv
<1> QED
  BY <1>1, InitType, NextType, InitWork, NextWork, PTL DEF Spec

\* RefundedWhenAllIs: however refunds interleave, a payment ends REFUNDED when, and
\* only when, nothing of it is left.
THEOREM AllRefundedIsRefunded == Spec => []RefundedWhenAllIs
<1>1. WorkInv => RefundedWhenAllIs
  BY DEF WorkInv
<1> QED
  BY <1>1, InitType, NextType, InitWork, NextWork, PTL DEF Spec

\* FlakyIsPaid: with no more errors than retries, no payment by a flaky card fails.
THEOREM RetriesOutlastErrors == Spec => []FlakyIsPaid
<1>1. WorkInv => FlakyIsPaid
  BY DEF WorkInv
<1> QED
  BY <1>1, InitType, NextType, InitWork, NextWork, PTL DEF Spec

-----------------------------------------------------------------------------
(* RefundsAreCovered *)

Appends(t, p) == at[t].step = "append" /\ at[t].payment = p

\* One refund at a time was checked, and what was checked still fits.
Fits(p) ==
    /\ payments[p].refunds <= Amount
    /\ \A t \in Threads : Appends(t, p) => payments[p].refunds + at[t].amount <= Amount
    /\ \A t, u \in Threads : Appends(t, p) /\ Appends(u, p) => t = u

CoverInv == \A p \in DOMAIN payments : Fits(p) \/ p \in rushed

LEMMA InitCover == Init => CoverInv
BY DEF Init, CoverInv

\* A step after which a payment that fitted still does.
LEMMA AsideFits ==
    ASSUME TypeInv, NEW p \in DOMAIN payments, Fits(p),
           payments'[p].refunds = payments[p].refunds,
           \A t \in Threads : Appends(t, p)' => at'[t] = at[t]
    PROVE  Fits(p)'
BY DEF Fits, Appends

LEMMA NextCover == TypeInv /\ CoverInv /\ [Next]_vars => CoverInv'
<1> SUFFICES ASSUME TypeInv, CoverInv, [Next]_vars PROVE CoverInv'
  OBVIOUS
<1>t. TypeOK
  BY DEF TypeInv
<1>i. Idle.step = "idle"
  BY IdleType
\* Nobody begins or ends a refund, and no refund changes.
<1>a. ASSUME rushed' = rushed, DOMAIN payments' = DOMAIN payments,
             \A p \in DOMAIN payments : payments'[p].refunds = payments[p].refunds,
             \A t \in Threads : at'[t].step = "append" => at'[t] = at[t]
      PROVE  CoverInv'
  <2>1. ASSUME NEW p \in DOMAIN payments, Fits(p) PROVE Fits(p)'
    BY <1>a, <2>1, AsideFits DEF Appends
  <2> QED
    BY <1>a, <2>1 DEF CoverInv
<1>1. ASSUME NEW t \in Threads, NEW o \in Orders, NEW c \in Asked, Process(t, o, c) PROVE CoverInv'
  <2>1. /\ payments' = payments /\ rushed' = rushed
        /\ \E w \in Works : Moves(t, w) /\ w.step = "find"
    BY <1>t, <1>1, ProcessDoes
  <2> QED
    BY <1>a, <2>1 DEF Moves
<1>2. ASSUME NEW t \in Threads, FindByOrder(t) PROVE CoverInv'
  <2>1. /\ payments' = payments /\ rushed' = rushed
        /\ \E w \in Works : Moves(t, w) /\ w.step \in {"idle", "create"}
    BY <1>t, <1>2, FindDoes, IdleType DEF Answers, Refuses, Goes2Create
  <2> QED
    BY <1>a, <2>1 DEF Moves
<1>3. ASSUME NEW t \in Threads, CreatePayment(t) PROVE CoverInv'
  <2> DEFINE p == Len(payments) + 1
  <2>1. PICK w \in Works :
            /\ Moves(t, w) /\ w.step = "charge"
            /\ p \notin DOMAIN payments /\ DOMAIN payments' = DOMAIN payments \cup {p}
            /\ \A q \in DOMAIN payments : payments'[q] = payments[q]
            /\ payments'[p].refunds = 0 /\ rushed' = rushed
    BY <1>3, CreateDoes
  <2> HIDE DEF p
  <2>2. \A u \in Threads : at'[u].step = "append" => at'[u] = at[u] /\ at[u].payment \in DOMAIN payments
    BY <1>t, <2>1 DEF Moves, TypeOK
  <2>3. ASSUME NEW q \in DOMAIN payments, Fits(q) PROVE Fits(q)'
    BY <2>1, <2>2, <2>3, AsideFits DEF Appends
  <2>4. PICK q : q = p
    OBVIOUS
  <2>5. Fits(q)'
    <3>1. \A u \in Threads : ~Appends(u, q)'
      BY <2>1, <2>2, <2>4 DEF Appends
    <3>2. payments'[q].refunds <= Amount
      BY <2>1, <2>4, AmountAssumption
    <3> QED
      BY <3>1, <3>2 DEF Fits
  <2> QED
    BY <2>1, <2>3, <2>4, <2>5 DEF CoverInv
<1>4. ASSUME NEW t \in Threads, CallGateway(t) PROVE CoverInv'
  <2>1. /\ rushed' = rushed /\ at[t].payment \in DOMAIN payments
        /\ Alters(at[t].payment) /\ payments'[at[t].payment].refunds = payments[at[t].payment].refunds
        /\ at' = at \/ Moves(t, Idle)
    BY <1>t, <1>4, CallDoes DEF Fails, TriesAgain, Charges
  <2> QED
    BY <1>a, <1>i, <2>1 DEF Moves, Alters
<1>5. ASSUME NEW t \in Clients, NEW p \in DOMAIN payments, NEW n \in 1 .. Amount, Refund(t, p, n)
      PROVE  CoverInv'
  <2>t. t \in Threads
    BY DEF Threads
  <2>1. PICK w \in Works :
            /\ Moves(t, w) /\ w.step = "append" /\ w.payment = p /\ w.amount = n
            /\ payments[p].refunds + n <= Amount
            /\ rushed' = IF \E u \in Threads : at[u].step = "append" /\ at[u].payment = p
                         THEN rushed \cup {p} ELSE rushed
            /\ payments' = payments
    BY <1>t, <1>5, RefundDoes
  <2>2. ASSUME NEW q \in DOMAIN payments, q # p, Fits(q) PROVE Fits(q)'
    BY <2>1, <2>2, AsideFits DEF Appends, Moves
  <2>3. ASSUME p \notin rushed' PROVE Fits(p)'
    <3>1. Fits(p) /\ \A u \in Threads : ~Appends(u, p)
      BY <2>1, <2>3 DEF CoverInv, Appends
    <3>2. \A u \in Threads : Appends(u, p)' => u = t /\ at'[u].amount = n
      BY <2>t, <2>1, <3>1 DEF Appends, Moves
    <3> QED
      BY <2>1, <3>1, <3>2 DEF Fits
  <2>4. rushed \subseteq rushed'
    BY <2>1
  <2> QED
    BY <2>1, <2>2, <2>3, <2>4 DEF CoverInv
<1>6. ASSUME NEW t \in Threads, AppendRefund(t) PROVE CoverInv'
  <2>p. PICK p \in DOMAIN payments : p = at[t].payment
    BY <1>t, <1>6 DEF TypeOK, AppendRefund
  <2>1. PICK w \in Works :
            /\ at[t].step = "append" /\ Moves(t, w) /\ w.step = "settle" /\ Alters(p)
            /\ payments'[p].refunds = payments[p].refunds + at[t].amount /\ rushed' = rushed
    BY <1>t, <1>6, <2>p, AppendDoes
  <2>2. \A u \in Threads : at'[u].step = "append" => at'[u] = at[u] /\ u # t
    BY <2>1 DEF Moves
  <2>3. ASSUME NEW q \in DOMAIN payments, q # p, Fits(q) PROVE Fits(q)'
    BY <2>1, <2>2, <2>3, AsideFits DEF Appends, Alters
  <2>4. ASSUME Fits(p) PROVE Fits(p)'
    <3>1. Appends(t, p)
      BY <2>p, <2>1 DEF Appends
    <3>2. payments'[p].refunds <= Amount
      BY <2>1, <2>4, <3>1 DEF Fits
    <3>3. \A u \in Threads : Appends(u, p)' => Appends(u, p) /\ u # t
      BY <2>2 DEF Appends
    <3>4. \A u \in Threads : ~Appends(u, p)'
      BY <2>4, <3>1, <3>3 DEF Fits
    <3> QED
      BY <3>2, <3>4 DEF Fits
  <2> QED
    BY <2>1, <2>3, <2>4 DEF CoverInv, Alters
<1>7. ASSUME NEW t \in Threads, Settle(t) PROVE CoverInv'
  <2>1. /\ rushed' = rushed /\ at[t].payment \in DOMAIN payments /\ Moves(t, Idle)
        /\ \/ Alters(at[t].payment) /\ payments'[at[t].payment].refunds = payments[at[t].payment].refunds
           \/ payments' = payments
    BY <1>t, <1>7, SettleDoes
  <2> QED
    BY <1>a, <1>i, <2>1 DEF Moves, Alters
<1>8. CASE Restart
  BY <1>8 DEF Restart, CoverInv
<1>9. CASE UNCHANGED vars
  BY <1>9, <1>a DEF vars
<1> QED
  BY <1>1, <1>2, <1>3, <1>4, <1>5, <1>6, <1>7, <1>8, <1>9, Steps

\* RefundsAreCovered: no more is given back than was paid, unless two refunds of
\* the payment were checked at once.
THEOREM RefundsStayCovered == Spec => []RefundsAreCovered
<1>1. CoverInv => RefundsAreCovered
  BY DEF CoverInv, Fits, RefundsAreCovered
<1> QED
  BY <1>1, InitType, NextType, InitCover, NextCover, PTL DEF Spec

-----------------------------------------------------------------------------
(* ChargedOnce *)

Creating(t, o) == at[t].step = "create" /\ at[t].order = o

Uncharged(p) == payments[p].status \in {"PROCESSING", "FAILED"}

\* The order has one payment, or one thread that is to create it, and was charged
\* for that payment and for those that restarts have lost.
Once(o) ==
    /\ \A p, q \in Of(o) : p = q
    /\ charges[o] <= 1 + restarts
    /\ (\A p \in Of(o) : Uncharged(p)) => charges[o] <= restarts
    /\ (\E t \in Threads : Creating(t, o)) => Of(o) = {}
    /\ \A t, u \in Threads : Creating(t, o) /\ Creating(u, o) => t = u

OnceInv == \A o \in Orders \ again : Once(o)

LEMMA InitOnce == Init => OnceInv
BY IdleType DEF Init, OnceInv, Once, Of, Creating

LEMMA AltersOf ==
    ASSUME NEW p \in DOMAIN payments, Alters(p)
    PROVE  \A o : Of(o)' = Of(o)
BY DEF Of, Alters

\* A step that creates and charges nothing.
LEMMA AsideOnce ==
    ASSUME NEW o \in Orders, Once(o), Of(o)' = Of(o), charges'[o] = charges[o], restarts' = restarts,
           \A p \in Of(o) : Uncharged(p)' => Uncharged(p),
           \A t \in Threads : Creating(t, o)' => Creating(t, o)
    PROVE  Once(o)'
BY DEF Once

LEMMA CallOnce ==
    ASSUME TypeInv, WorkInv, OnceInv, NEW t \in Threads, CallGateway(t)
    PROVE  OnceInv'
<1>t. TypeOK /\ Idle.step = "idle"
  BY IdleType DEF TypeInv
<1>1. PICK p \in DOMAIN payments :
          /\ at[t].step = "charge" /\ p = at[t].payment
          /\ UNCHANGED <<posts, restarts, again, rushed>>
          /\ Fails(t, p) \/ TriesAgain(p) \/ Charges(t, p)
  BY <1>t, CallDoes
<1>2. Alters(p) /\ (at' = at \/ Moves(t, Idle)) /\ Uncharged(p)
  BY <1>1 DEF Fails, TriesAgain, Charges, WorkInv, Uncharged
<1>3. \A o : Of(o)' = Of(o)
  BY <1>2, AltersOf
<1>4. \A u \in Threads : \A o : Creating(u, o)' => Creating(u, o)
  BY <1>t, <1>2 DEF Creating, Moves
<1>5. PICK x \in Orders : x = payments[p].order
  BY <1>t, PaymentType DEF Payments
<1>6. ASSUME NEW o \in Orders \ again, o # x \/ ~Charges(t, p) PROVE Once(o)'
  <2>1. charges'[o] = charges[o] /\ restarts' = restarts /\ Once(o)
    BY <1>t, <1>1, <1>5, <1>6 DEF Fails, TriesAgain, Charges, TypeOK, OnceInv
  <2>2. \A q \in Of(o) : Uncharged(q)' => Uncharged(q)
    <3>1. \A q \in DOMAIN payments : q # p => payments'[q] = payments[q]
      BY <1>2 DEF Alters
    <3> QED
      BY <1>2, <3>1 DEF Of, Uncharged
  <2> QED
    BY <1>3, <1>4, <2>1, <2>2, AsideOnce
<1>7. ASSUME x \notin again, Charges(t, p) PROVE Once(x)'
  <2>1. Once(x) /\ p \in Of(x)
    BY <1>5, <1>7 DEF OnceInv, Of
  <2>2. charges[x] <= restarts /\ charges[x] \in Nat /\ restarts \in Nat
    BY <1>t, <1>2, <2>1, BoundsAssumption DEF Once, TypeOK
  <2>3. charges'[x] = charges[x] + 1 /\ restarts' = restarts
    BY <1>t, <1>1, <1>5, <1>7 DEF Charges, TypeOK
  <2>4. charges'[x] <= 1 + restarts'
    BY <2>2, <2>3
  <2>5. ~Uncharged(p)'
    BY <1>7 DEF Charges, Uncharged
  <2>6. p \in Of(x)'
    BY <1>3, <2>1
  <2>7. ~\A q \in Of(x)' : Uncharged(q)'
    BY <2>5, <2>6
  <2> QED
    BY <1>3, <1>4, <2>1, <2>4, <2>7 DEF Once
<1> QED
  BY <1>1, <1>6, <1>7 DEF OnceInv

LEMMA CreateOnce ==
    ASSUME TypeInv, OnceInv, NEW t \in Threads, CreatePayment(t)
    PROVE  OnceInv'
<1>t. TypeOK
  BY DEF TypeInv
<1>x. PICK x \in Orders : x = at[t].order
  BY DEF TypeInv, CreatePayment
<1> DEFINE p == Len(payments) + 1
<1>1. PICK w \in Works :
          /\ at[t].step = "create" /\ Moves(t, w) /\ w.step = "charge"
          /\ p \notin DOMAIN payments /\ DOMAIN payments' = DOMAIN payments \cup {p}
          /\ \A q \in DOMAIN payments : payments'[q] = payments[q]
          /\ payments'[p].order = x /\ payments'[p].status = "PROCESSING"
          /\ UNCHANGED <<charges, restarts, again>>
  BY <1>x, CreateDoes
<1>p. PICK r : r = p
  OBVIOUS
<1> HIDE DEF p
<1>2. \A u \in Threads : \A o : Creating(u, o)' => Creating(u, o) /\ u # t
  BY <1>1 DEF Creating, Moves
<1>3. \A o : o # x => Of(o)' = Of(o)
  BY <1>1 DEF Of
<1>4. ASSUME NEW o \in Orders \ again, o # x PROVE Once(o)'
  <2>1. \A q \in Of(o) : Uncharged(q)' => Uncharged(q)
    BY <1>1 DEF Of, Uncharged
  <2> QED
    BY <1>1, <1>2, <1>3, <1>4, <2>1, AsideOnce DEF OnceInv
<1>5. ASSUME x \notin again PROVE Once(x)'
  <2>1. Once(x) /\ Creating(t, x)
    BY <1>x, <1>1, <1>5 DEF OnceInv, Creating
  <2>2. Of(x) = {}
    BY <2>1 DEF Once
  <2>3. Of(x)' = {r}
    BY <1>1, <1>p, <2>2 DEF Of
  <2>4. charges[x] <= restarts /\ charges[x] <= 1 + restarts
    BY <2>1, <2>2 DEF Once
  <2>5. \A u \in Threads : ~Creating(u, x)'
    BY <1>2, <2>1 DEF Once
  <2> QED
    BY <1>1, <2>3, <2>4, <2>5 DEF Once
<1> QED
  BY <1>1, <1>4, <1>5 DEF OnceInv

LEMMA FindOnce ==
    ASSUME TypeInv, OnceInv, NEW t \in Threads, FindByOrder(t)
    PROVE  OnceInv'
<1>t. TypeOK /\ Idle.step = "idle"
  BY IdleType DEF TypeInv
<1>1. at[t].step = "find" /\ UNCHANGED <<payments, charges, restarts>>
  BY <1>t, FindDoes
<1>2. \A o : Of(o)' = Of(o)
  BY <1>1 DEF Of
<1>3. \A p : Uncharged(p)' <=> Uncharged(p)
  BY <1>1 DEF Uncharged
<1>4. CASE Moves(t, Idle) /\ UNCHANGED again
  <2>1. \A u \in Threads : \A o : Creating(u, o)' => Creating(u, o)
    BY <1>t, <1>4 DEF Creating, Moves
  <2> QED
    BY <1>1, <1>2, <1>3, <1>4, <2>1, AsideOnce DEF OnceInv
<1>5. CASE Goes2Create(t)
  <2>x. PICK x \in Orders : x = at[t].order
    BY <1>1 DEF TypeInv
  <2>1. PICK w \in Works :
            /\ Moves(t, w) /\ w.step = "create" /\ w.order = x /\ again \subseteq again'
            /\ x \notin again' => Of(x) = {} /\ \A u \in Threads : ~Creating(u, x)
    BY <1>5, <2>x DEF Goes2Create, Creating
  <2>2. \A u \in Threads : \A o : Creating(u, o)' => Creating(u, o) \/ (u = t /\ o = x)
    BY <2>1 DEF Creating, Moves
  <2>3. ASSUME NEW o \in Orders \ again', o # x PROVE Once(o)'
    BY <1>1, <1>2, <1>3, <2>1, <2>2, <2>3, AsideOnce DEF OnceInv
  <2>4. ASSUME x \notin again' PROVE Once(x)'
    <3>1. Once(x) /\ Of(x) = {} /\ \A u \in Threads : ~Creating(u, x)
      BY <2>1, <2>4 DEF OnceInv
    <3>2. \A u \in Threads : Creating(u, x)' => u = t
      BY <2>2, <3>1
    <3> QED
      BY <1>1, <1>2, <3>1, <3>2 DEF Once
  <2> QED
    BY <2>3, <2>4 DEF OnceInv
<1> QED
  BY <1>t, <1>4, <1>5, FindDoes DEF Answers, Refuses

LEMMA NextOnce == TypeInv /\ WorkInv /\ OnceInv /\ [Next]_vars => OnceInv'
<1> SUFFICES ASSUME TypeInv, WorkInv, OnceInv, [Next]_vars PROVE OnceInv'
  OBVIOUS
<1>t. TypeOK /\ Idle.step = "idle"
  BY IdleType DEF TypeInv
\* Nothing is created or charged, and no charged payment becomes another.
<1>a. ASSUME UNCHANGED <<charges, restarts, again>>,
             \A o : Of(o)' = Of(o),
             \A p \in DOMAIN payments : Uncharged(p)' => Uncharged(p),
             \A u \in Threads : \A o : Creating(u, o)' => Creating(u, o)
      PROVE  OnceInv'
  BY <1>a, AsideOnce DEF OnceInv, Of
<1>1. ASSUME NEW t \in Threads, NEW o \in Orders, NEW c \in Asked, Process(t, o, c) PROVE OnceInv'
  <2>1. UNCHANGED <<payments, charges, restarts, again>> /\ \E w \in Works : Moves(t, w) /\ w.step = "find"
    BY <1>t, <1>1, ProcessDoes
  <2>2. \A u \in Threads : \A x : Creating(u, x)' => Creating(u, x)
    BY <2>1 DEF Creating, Moves
  <2> QED
    BY <1>a, <2>1, <2>2 DEF Of, Uncharged
<1>2. ASSUME NEW t \in Clients, NEW p \in DOMAIN payments, NEW n \in 1 .. Amount, Refund(t, p, n)
      PROVE  OnceInv'
  <2>1. UNCHANGED <<payments, charges, restarts, again>> /\ \E w \in Works : Moves(t, w) /\ w.step = "append"
    BY <1>t, <1>2, RefundDoes
  <2>2. \A u \in Threads : \A x : Creating(u, x)' => Creating(u, x)
    BY <2>1 DEF Creating, Moves, Threads
  <2> QED
    BY <1>a, <2>1, <2>2 DEF Of, Uncharged
<1>3. ASSUME NEW t \in Threads, AppendRefund(t) PROVE OnceInv'
  <2>p. PICK p \in DOMAIN payments : p = at[t].payment
    BY <1>t, <1>3 DEF TypeOK, AppendRefund
  <2>1. /\ Alters(p) /\ payments'[p].status = payments[p].status
        /\ UNCHANGED <<charges, restarts, again>> /\ \E w \in Works : Moves(t, w) /\ w.step = "settle"
    BY <1>t, <1>3, <2>p, AppendDoes
  <2>2. \A u \in Threads : \A x : Creating(u, x)' => Creating(u, x)
    BY <2>1 DEF Creating, Moves
  <2>3. \A q \in DOMAIN payments : payments'[q].status = payments[q].status
    BY <2>1 DEF Alters
  <2> QED
    BY <1>a, <2>1, <2>2, <2>3, AltersOf DEF Uncharged
<1>4. ASSUME NEW t \in Threads, Settle(t) PROVE OnceInv'
  <2>p. PICK p \in DOMAIN payments : p = at[t].payment
    BY <1>t, <1>4 DEF TypeOK, Settle
  <2>1. /\ (Alters(p) /\ payments'[p].status = "REFUNDED") \/ UNCHANGED payments
        /\ UNCHANGED <<charges, restarts, again>> /\ Moves(t, Idle)
    BY <1>t, <1>4, <2>p, SettleDoes
  <2>2. \A u \in Threads : \A x : Creating(u, x)' => Creating(u, x)
    BY <1>t, <2>1 DEF Creating, Moves
  <2>3. \A q \in DOMAIN payments : payments'[q] = payments[q] \/ payments'[q].status = "REFUNDED"
    BY <2>1 DEF Alters
  <2>4. \A q \in DOMAIN payments : Uncharged(q)' => Uncharged(q)
    BY <2>3 DEF Uncharged
  <2>5. \A o : Of(o)' = Of(o)
    BY <2>1, AltersOf DEF Of
  <2> QED
    BY <1>a, <2>1, <2>2, <2>4, <2>5
<1>5. ASSUME Restart PROVE OnceInv'
  <2>1. /\ payments' = <<>> /\ UNCHANGED <<charges, again>> /\ restarts' = restarts + 1
        /\ \A u \in Threads : at'[u].step = "idle"
    BY <1>t, <1>5 DEF Restart
  <2>2. ASSUME NEW o \in Orders \ again PROVE Once(o)'
    <3>1. charges[o] <= 1 + restarts /\ charges[o] \in Nat /\ restarts \in Nat
      BY <1>t, BoundsAssumption DEF OnceInv, Once, TypeOK
    <3>2. charges'[o] <= restarts' /\ charges'[o] <= 1 + restarts'
      BY <2>1, <3>1
    <3> QED
      BY <2>1, <3>2 DEF Once, Of, Creating
  <2> QED
    BY <2>1, <2>2 DEF OnceInv
<1>6. CASE UNCHANGED vars
  BY <1>6, <1>a DEF vars, Of, Uncharged, Creating
<1> QED
  BY <1>1, <1>2, <1>3, <1>4, <1>5, <1>6, Steps, FindOnce, CreateOnce, CallOnce

\* ChargedOnce: whatever is posted or delivered again, an order is charged once and
\* once more for each restart, unless two requests looked for its payment at once,
\* or its first payment had failed or was refunded.
THEOREM OrdersAreChargedOnce == Spec => []ChargedOnce
<1>1. OnceInv => ChargedOnce
  BY DEF OnceInv, Once, ChargedOnce
<1> QED
  BY <1>1, InitType, NextType, InitWork, NextWork, InitOnce, NextOnce, PTL DEF Spec

-----------------------------------------------------------------------------
(* AckedHasPayment *)

LEMMA OnlyHeadLeaves ==
    ASSUME queue \in Seq(Messages), queue # <<>>, NEW o, PaymentAsked(o),
           \/ queue' = Tail(queue) /\ (Head(queue).order # o \/ Head(queue).card = "no_amount")
           \/ queue' = Append(Tail(queue), Head(queue))
    PROVE  PaymentAsked(o)'
<1>1. PICK i \in 1 .. Len(queue) : queue[i].order = o /\ queue[i].card # "no_amount"
  BY DEF PaymentAsked
<1>2. PICK rest \in Seq(Messages) : rest = Tail(queue)
  <2>1. Tail(queue) \in Seq(Messages)
    BY HeadTailProperties
  <2> QED
    BY <2>1, Zenon
<1>3. Len(rest) = Len(queue) - 1 /\ \A j \in 1 .. Len(rest) : rest[j] = queue[j + 1]
  BY <1>2, HeadTailProperties
<1>4. Head(queue) = queue[1] /\ Head(queue) \in Messages
  OBVIOUS
<1>5. CASE i = 1
  <2>1. /\ queue' = Append(rest, Head(queue))
        /\ Head(queue).order = o /\ Head(queue).card # "no_amount"
    BY <1>1, <1>2, <1>4, <1>5
  <2>2. Len(rest) + 1 \in DOMAIN queue' /\ queue'[Len(rest) + 1] = Head(queue)
    BY <1>2, <1>4, <2>1
  <2> QED
    BY <2>1, <2>2 DEF PaymentAsked
<1>6. CASE i # 1
  <2>1. i - 1 \in 1 .. Len(rest) /\ rest[i - 1].order = o /\ rest[i - 1].card # "no_amount"
    BY <1>1, <1>3, <1>6
  <2>2. i - 1 \in DOMAIN queue' /\ queue'[i - 1] = rest[i - 1]
    BY <1>2, <1>4, <2>1
  <2> QED
    BY <2>1, <2>2 DEF PaymentAsked
<1> QED
  BY <1>5, <1>6

\* AckedHasPayment: order.created is acknowledged only when a payment of its order
\* was found or created, or when the amount it asks for is refused.
THEOREM AcknowledgedHasPayment == Spec => AckedHasPayment
<1>1. ASSUME TypeInv, ConsumerInv, [Next]_vars, NEW o \in Orders, PaymentAsked(o), ~PaymentAsked(o)'
      PROVE  Of(o) # {}
  <2>t. TypeOK
    BY <1>1 DEF TypeInv
  <2>1. queue' # queue
    BY <1>1 DEF PaymentAsked
  <2>q. queue \in Seq(Messages)
    BY <2>t DEF TypeOK
  <2>l. ASSUME queue # <<>>, Leaves(Consumer) PROVE Head(queue).order = o /\ Head(queue).card # "no_amount"
    BY <1>1, <2>q, <2>l, OnlyHeadLeaves DEF Leaves
  <2>2. ASSUME NEW t \in Threads, FindByOrder(t) PROVE Of(o) # {}
    <3>1. at[t].step = "find" /\ ~Goes2Create(t)
      BY <2>t, <2>1, <2>2, FindDoes DEF Goes2Create
    <3>2. t = Consumer
      BY <2>t, <2>1, <2>2, <3>1, FindDoes DEF Answers, Refuses, Leaves, Rotates
    <3>3. queue # <<>> /\ at[t].order = Head(queue).order /\ at[t].card = Head(queue).card
      BY <1>1, <3>1, <3>2 DEF ConsumerInv
    <3>4. ~Rotates(t)
      BY <1>1, <2>q, <3>2, <3>3, OnlyHeadLeaves DEF Rotates
    <3>5. Answers(t)
      BY <2>t, <2>2, <2>l, <3>1, <3>2, <3>3, <3>4, FindDoes DEF Refuses
    <3> QED
      BY <2>l, <3>2, <3>3, <3>5 DEF Answers
  <2>3. ASSUME NEW t \in Threads, CallGateway(t) PROVE Of(o) # {}
    <3>1. at[t].step = "charge" /\ at[t].payment \in DOMAIN payments /\ Leaves(t)
      BY <2>t, <2>1, <2>3, CallDoes DEF Fails, TriesAgain, Charges
    <3>2. t = Consumer
      BY <2>1, <3>1 DEF Leaves
    <3>3. queue # <<>> /\ payments[at[t].payment].order = Head(queue).order
      BY <1>1, <3>1, <3>2 DEF ConsumerInv
    <3>4. at[t].payment \in Of(o)
      BY <2>l, <3>1, <3>2, <3>3 DEF Of
    <3> QED
      BY <3>4
  <2> QED
    BY <1>1, <2>1, <2>2, <2>3, Steps DEF Process, CreatePayment, AppendRefund, Settle, Refund, Restart, vars
<1>2. TypeInv /\ ConsumerInv /\ [Next]_vars =>
          [\A o \in Orders : PaymentAsked(o) /\ ~PaymentAsked(o)' => Of(o) # {}]_vars
  BY <1>1
<1> QED
  BY <1>2, InitType, NextType, PTL DEF Spec, AckedHasPayment

-----------------------------------------------------------------------------
(* ImplementsLedger *)

\* The value of ledger under the refinement.
Book == [p \in DOMAIN payments |->
            [order |-> payments[p].order, status |-> payments[p].status]]

\* Payment p changes: so does its entry, and no other.
LEMMA BookAlters ==
    ASSUME TypeOK, NEW p \in DOMAIN payments, Alters(p)
    PROVE  Book' = [Book EXCEPT ![p].status = payments'[p].status]
<1>1. DOMAIN payments' = DOMAIN payments
      /\ payments'[p].order = payments[p].order
      /\ \A q \in DOMAIN payments : q # p => payments'[q] = payments[q]
  BY DEF Alters
<1> QED
  BY <1>1 DEF Book

LEMMA BookSame ==
    ASSUME TypeOK, NEW p \in DOMAIN payments, Alters(p), payments'[p].status = payments[p].status
    PROVE  Book' = Book
BY DEF Alters, Book

\* What a step may do to the ledger.
Booked == [Ledger!Next]_<<Book, charges>>

LEMMA BookSteps ==
    ASSUME \/ \E o \in Orders : Ledger!Enter(o)
           \/ \E p \in DOMAIN payments : Ledger!Complete(p) \/ Ledger!Fail(p) \/ Ledger!Return({p})
           \/ Ledger!Forget
    PROVE  Booked
<1>1. CASE \E p \in DOMAIN payments : Ledger!Return({p})
  <2>1. PICK p \in DOMAIN payments : Ledger!Return({p})
    BY <1>1
  <2>2. {p} \in SUBSET DOMAIN payments
    OBVIOUS
  <2> QED
    BY <2>1, <2>2 DEF Booked, Ledger!Next
<1>2. CASE \/ \E o \in Orders : Ledger!Enter(o)
           \/ \E p \in DOMAIN payments : Ledger!Complete(p) \/ Ledger!Fail(p)
           \/ Ledger!Forget
  BY <1>2 DEF Booked, Ledger!Next
<1> QED
  BY <1>1, <1>2

LEMMA CreateIsEnter ==
    ASSUME TypeInv, NEW t \in Threads, CreatePayment(t)
    PROVE  Booked
<1>1. PICK o \in Orders : o = at[t].order
  BY DEF TypeInv, CreatePayment
<1> DEFINE p == Len(payments) + 1
           e == [order |-> o, status |-> "PROCESSING"]
<1>2. /\ p \notin DOMAIN payments /\ DOMAIN payments' = DOMAIN payments \cup {p}
      /\ \A q \in DOMAIN payments : payments'[q] = payments[q]
      /\ payments'[p].order = o /\ payments'[p].status = "PROCESSING"
      /\ charges' = charges
  BY <1>1, CreateDoes
<1> HIDE DEF p
<1>3. Book' = [q \in DOMAIN Book \cup {p} |-> IF q = p THEN e ELSE Book[q]]
  BY <1>2 DEF Book
<1>4. p \in DOMAIN Book' \ DOMAIN Book
  BY <1>2 DEF Book
<1>5. Ledger!Enter(o)
  BY <1>2, <1>3, <1>4 DEF Ledger!Enter, Book
<1> QED
  BY <1>5, BookSteps

LEMMA CallIsDecision ==
    ASSUME TypeInv, WorkInv, NEW t \in Threads, CallGateway(t)
    PROVE  Booked
<1>1. PICK p \in DOMAIN payments :
          /\ TypeOK /\ at[t].step = "charge" /\ p = at[t].payment
          /\ Fails(t, p) \/ TriesAgain(p) \/ Charges(t, p)
  BY CallDoes DEF TypeInv
<1>2. Book[p].status = "PROCESSING" /\ Book[p].order = payments[p].order
  BY <1>1 DEF WorkInv, Book
<1>3. CASE Fails(t, p)
  <2>1. Book' = [Book EXCEPT ![p].status = "FAILED"] /\ charges' = charges
    BY <1>1, <1>3, BookAlters DEF Fails
  <2>2. Ledger!Fail(p)
    BY <1>2, <2>1 DEF Ledger!Fail, Book
  <2> QED
    BY <2>2, BookSteps
<1>4. CASE TriesAgain(p)
  BY <1>1, <1>4, BookSame DEF TriesAgain, Booked
<1>5. CASE Charges(t, p)
  <2>1. /\ Book' = [Book EXCEPT ![p].status = "COMPLETED"]
        /\ charges' = [charges EXCEPT ![payments[p].order] = @ + 1]
    BY <1>1, <1>5, BookAlters DEF Charges
  <2>2. Ledger!Complete(p)
    BY <1>2, <2>1 DEF Ledger!Complete, Book
  <2> QED
    BY <2>2, BookSteps
<1> QED
  BY <1>1, <1>3, <1>4, <1>5

LEMMA SettleIsReturn ==
    ASSUME TypeInv, WorkInv, NEW t \in Threads, Settle(t)
    PROVE  Booked
<1>1. PICK p \in DOMAIN payments :
          /\ TypeOK /\ at[t].step = "settle" /\ p = at[t].payment /\ charges' = charges
          /\ \/ Alters(p) /\ payments'[p].status = "REFUNDED"
             \/ UNCHANGED payments
  BY SettleDoes DEF TypeInv
<1>2. payments[p].status \in {"COMPLETED", "REFUNDED"}
  BY <1>1 DEF WorkInv
<1>3. CASE payments' = payments
  BY <1>1, <1>3 DEF Booked, Book
<1>4. CASE Alters(p) /\ payments'[p].status = "REFUNDED" /\ payments[p].status = "REFUNDED"
  BY <1>1, <1>4, BookSame DEF Booked
<1>5. CASE Alters(p) /\ payments'[p].status = "REFUNDED" /\ payments[p].status = "COMPLETED"
  <2>1. Book' = [Book EXCEPT ![p].status = "REFUNDED"] /\ Book[p].status = "COMPLETED"
    BY <1>1, <1>5, BookAlters DEF Book
  <2>2. Book' = [q \in DOMAIN Book |->
                    IF q \in {p} THEN [Book[q] EXCEPT !.status = "REFUNDED"] ELSE Book[q]]
    BY <2>1
  <2>3. Ledger!Return({p})
    BY <1>1, <2>1, <2>2 DEF Ledger!Return, Book
  <2> QED
    BY <2>3, BookSteps
<1> QED
  BY <1>1, <1>2, <1>3, <1>4, <1>5

LEMMA RestartIsForget ==
    ASSUME Restart
    PROVE  Booked
<1>1. DOMAIN payments' = {} /\ charges' = charges
  BY DEF Restart
<1>2. Book' = Ledger!NoPayments
  BY <1>1 DEF Book, Ledger!NoPayments
<1>3. Ledger!Forget
  BY <1>1, <1>2 DEF Ledger!Forget, Book
<1> QED
  BY <1>3, BookSteps

LEMMA NextLedger == TypeInv /\ WorkInv /\ [Next]_vars => Booked
<1> SUFFICES ASSUME TypeInv, WorkInv, [Next]_vars PROVE Booked
  OBVIOUS
<1>t. TypeOK
  BY DEF TypeInv
<1>1. ASSUME NEW t \in Threads, NEW o \in Orders, NEW c \in Asked, Process(t, o, c) PROVE Booked
  BY <1>1 DEF Process, Booked, Book
<1>2. ASSUME NEW t \in Threads, FindByOrder(t) PROVE Booked
  BY <1>2 DEF FindByOrder, Booked, Book
<1>3. ASSUME NEW t \in Threads, AppendRefund(t) PROVE Booked
  <2>1. LET p == at[t].payment IN
        /\ p \in DOMAIN payments /\ Alters(p) /\ payments'[p].status = payments[p].status
        /\ charges' = charges
    BY <1>t, <1>3, AppendDoes
  <2> QED
    BY <1>t, <2>1, BookSame DEF Booked
<1>4. ASSUME NEW t \in Clients, NEW p \in DOMAIN payments, NEW n \in 1 .. Amount, Refund(t, p, n)
      PROVE  Booked
  BY <1>4 DEF Refund, Booked, Book
<1>5. CASE UNCHANGED vars
  BY <1>5 DEF vars, Booked, Book
<1> QED
  BY <1>1, <1>2, <1>3, <1>4, <1>5, Steps, CreateIsEnter, CallIsDecision, SettleIsReturn, RestartIsForget

LEMMA InitLedger == Init => Ledger!Init
<1> SUFFICES ASSUME Init PROVE Ledger!Init
  OBVIOUS
<1>1. DOMAIN payments = {}
  BY DEF Init
<1>2. Book = Ledger!NoPayments
  BY <1>1 DEF Book, Ledger!NoPayments
<1> QED
  BY <1>2 DEF Init, Ledger!Init, Book

\* ImplementsLedger: whatever the threads, the retries, the messages delivered
\* again and the refunds in parts do, payment-service enters a payment once, decides
\* it once, charges its order exactly when it completes it, and returns only what it
\* has charged (process_payment and refund of payment_service.py).
THEOREM LedgerImplemented == Spec => ImplementsLedger
<1>1. TypeInv /\ WorkInv /\ [Next]_vars => [Ledger!Next]_<<Book, charges>>
  BY NextLedger DEF Booked
<1> QED
  BY <1>1, InitLedger, InitType, NextType, InitWork, NextWork, PTL
  DEF Spec, ImplementsLedger, Ledger!Spec, Book
=============================================================================
