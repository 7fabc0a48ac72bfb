# A TLA+ model of the food-delivery microservices

Ten Flask services (`services/main/*-service`, `services/main/api-gateway`) and a
`shared` package. They call each other over HTTP and exchange events over
RabbitMQ topic exchanges with durable queues. What ties them together is the
SAGA that order-service orchestrates: place an order, have it paid, cooked,
delivered, or compensate. This directory models that SAGA, the circuit breaker its
calls go through, and the inside of the services around it: payments, deliveries and
deliverers, the catalog and its sources, customers. It checks them with TLC and proves
their main safety properties with TLAPS, for every value of the constants.

The models are translated from the Python code. Where the documentation
describes something else, the code is what is modelled, and the disagreement is
a run that expects a violation or a case a property exempts by name (see *Findings*).

## 1. Inventory

| Part | State | Operations that change it | Talks to |
|---|---|---|---|
| **order-service** | in-memory dict of shared `Order` objects: status, SAGA state and history, `payment_id`, `delivery_id`; two circuit breakers | `create_order`, `cancel_order` (HTTP threads); nine `on_*` handlers (one consumer thread) | publishes `order.*`; consumes `payment.*`, restaurant and `delivery.*` events; HTTP to restaurant-service (validation) and payment-service (refund) |
| **payment-service** | in-memory dict of `Payment` with its refunds | `process_payment` (consumer of `order.created`, and `POST /payments`), `refund` | publishes `payment.processed`, `payment.failed`, `payment.refunded`; a simulated bank gateway |
| **delivery-service** | in-memory dict of shared `Delivery` objects | `assign_deliverer`, `update_location`, `confirm_delivery`, `fail_delivery` | HTTP to deliverer-service (reserve, release); publishes `delivery.*`; waits for `order.ready` |
| **deliverer-service** | MongoDB deliverers: AVAILABLE, BUSY, OFFLINE | `register`, `set_availability`, `assign_available`, `release_deliverer` | called by delivery-service |
| **restaurant-service** | in-memory dict of shared `Restaurant` objects with their menus and rating | restaurants and menus; `accept_order`, `reject_order`, `update_order_status`; `on_rating_created` | publishes restaurant and order events in PascalCase |
| **catalog-service** | in-memory projection of restaurants | five `on_*` handlers, one consumer thread, two queues | consumes restaurant and rating events |
| **rating-service** | in-memory dict of ratings | `create_rating` | publishes the new average |
| **customer-service** | MongoDB customers, one document each | registration, profile, addresses; `add_order_ref` from events | consumes `order.created` |
| **notification-service** | in-memory list of notifications | one or two per event received | consumes order, payment and delivery events |
| **api-gateway** | none of its own | forwards requests | every service |
| **shared/circuit_breaker** | state, two counters, `opened_at` | `call`, `_on_success`, `_on_failure`, `_open`, `_close`, `_reset` | used by the HTTP clients, without a lock |
| **shared/retry** | the attempt number | the loop | around the breaker |
| **shared/message_broker** | exchanges, queues, bindings | publish, subscribe, ack, nack with requeue | every service |
| **shared/openapi_validator** | none | – | the HTTP routes |

### What is hard here, and what makes each part correct

* **order-service.** HTTP threads and the consumer thread change the same `Order`
  object without a lock: each tests the status and assigns the next one some statements
  later. `cancel_order` checks the status, spends up to several
  seconds in refund retries, then cancels without looking again. A refund may be answered by a
  payment-service that has forgotten the payment, or had it refunded at somebody else's request. Events come
  from services that never ask whether the order exists, so in any order. A
  failed publication is logged and forgotten. A restart empties the repository
  while the queues keep their messages. *Correct if* each decision moves an order forward,
  an order is served only when paid for, has its money returned by order-service only in a cancellation
  and is never cancelled with a failed refund left unsaid; and if payments resolve
  and queues drain.
* **payment-service.** The replay check reads the first payment of the order and saves
  another some statements later; the refund checks, appends and settles in three
  steps; both on threads that share the objects; an amount that is not positive is refused with
  neither a payment nor an event. *Correct if* an order is charged once,
  never refunded more than it was charged, marked REFUNDED exactly when nothing is left,
  and never left PROCESSING with nobody at work.
* **circuit breaker and retry.** The retry surrounds the breaker; threads share the
  breaker without a lock. *Correct if* an open circuit is always tried again
  after its recovery timeout and a failing call makes a bounded number of attempts.
* **message broker.** At-least-once delivery; a handler that raises puts its message
  back at once. *Correct if* no message is lost once queued and none is poison.
* **delivery and deliverer.** A reservation is a find and a save in another service; a
  reply may be lost or come too late; statuses are tested and assigned in two steps;
  `fail_delivery` has no guard. *Correct if* a deliverer carries one delivery at a time,
  is not left BUSY for nothing, and an order that is ready gets a delivery that ends announced.
* **restaurant, catalog, rating.** Threads change shared objects, then publish what they find
  there; nothing orders two threads' events, and not every change of a status has one. *Correct if* the catalog agrees with its
  sources once the queues are empty.
* **customer.** Read–change–replace of whole documents by several threads;
  look-up then insert; a message saved before it is acknowledged. *Correct if* an address
  book has one default, an email one owner, and a history every order.
* **notification, api-gateway, OpenAPI validator.** Nothing that another part depends on.

Every such hazard is in `PROJECT.json` under `hazards`, at the line where it
bites, with the properties that watch it, and what they exempt or why none does.

## 2. Modules

| Module | Models |
|---|---|
| `Breaker` | `CircuitBreaker`: its value, and what each method makes of it |
| `OrderLifecycle` | abstract specification: what an order goes through, as its customer sees it |
| `PaymentLedger` | abstract specification: what becomes of payments, as order-service may rely on it |
| `OrderSaga` | order-service, the payment participant, the queues between them, the restaurants' and couriers' events |
| `MCOrderSaga` | instances of `OrderSaga` for TLC |
| `OrderSaga_proofs` | type correctness of `OrderSaga` |
| `OrderSagaSafety_proofs` | its four safety invariants |
| `OrderSagaRefinement_proofs` | that `OrderSaga` implements `OrderLifecycle` and `PaymentLedger` |
| `CircuitBreaker` | threads that interleave inside the breaker's methods; `Breaker` is what a call alone does |
| `MCCircuitBreaker` | instances of `CircuitBreaker` for TLC |
| `CircuitBreaker_proofs` | what overlapping calls cannot do to a breaker |
| `DeliveryFleet` | delivery-service, deliverer-service and the calls between them |
| `PaymentService` | the threads inside payment-service, its gateway and retries |
| `CatalogProjection` | restaurant-service and rating-service as writers, catalog-service as their projection |
| `CustomerProfile` | customer-service: documents in MongoDB, HTTP threads, the event consumer |
| `MCDeliveryFleet`, `MCPaymentService`, `MCCatalogProjection`, `MCCustomerProfile` | their instances for TLC |
| `DeliveryFleet_proofs`, `PaymentService_proofs`, `CatalogProjection_proofs`, `CustomerProfile_proofs` | their theorems |

`OrderSaga` composes order-service, the SAGA's view of payment-service and the breaker (`Breaker`), and
implements `OrderLifecycle`. The modules of the services open up what `OrderSaga` takes as given: the
inside of a payment, the courier who confirms. They are not composed with it: they
share no state but the messages, which each module takes in any number its bounds allow. What joins the
two views of payment-service is `PaymentLedger`, which `OrderSaga` and `PaymentService` both implement.

### `Breaker`

The record `[state, failures, successes, opened_at]` is the object; `Admits` and
`Admitted` are the first half of `call`, `OnSuccess` and `OnFailure` the second.
The clock is only compared with `recovery_timeout`, so `opened_at` is `"none"`,
`"recent"` or `"elapsed"`. `last_failure_time` is written and never read and is
left out. As in the code, a failure in HALF_OPEN does not reopen the circuit
before `failure_threshold` of them have been counted again, a late failure
refreshes `opened_at` of an open circuit, and a late success resets its count.

### `CircuitBreaker`

`b` is the object, `phase` says per thread where in `call` it is. The methods take no
lock, so the question is what another thread may see and do half-way. Every
Dockerfile runs `python:3.10-slim`, and CPython 3.10 lets another thread run at a call or
a jump only: a step of the model is the stretch between two such points that matter.
`_reset` and `_close` name the Enum member (a call), then assign all their fields in one stretch;
`failure_count += 1` is not torn; `_open` asks for the time between setting the state and
setting `opened_at`, so it is cut in two; a test is cut from the action it guards,
since a jump and a log line lie between them.

| Action | Code |
|---|---|
| `Call`, `ShouldReset`, `ResetCircuit` | `call` up to the protected function: the state is read twice, then whether there is a date, then the date |
| `FuncReturns`, `CountSuccess`, `CloseCircuit` | `_on_success`, `_close` |
| `FuncFails`, `Failed`, `OpenCircuit` | `_on_failure`, `_open` |
| `FuncRaises` | an exception that is not `expected_exception` |
| `Elapse` | `recovery_timeout` goes by |

`solo` is a history variable: while one call runs alone it holds the value that `Breaker`'s operators
predict, and it is empty once two calls have overlapped. `SoloCallsAreAtomic` compares the two, so the
breaker that `OrderSaga` composes is checked against the finer model.

### `OrderSaga`

| Variable | In the code |
|---|---|
| `order` | `InMemoryOrderRepository`: each order's `status`, the outcomes in `saga_history`, `payment_id` (0 is the empty string). `NONE`: not placed. `GONE`: forgotten in a restart |
| `call` | per thread, where its handler or its `cancel_order` stands: about to assign the status (`write`), to note `payment_id` (`note`), to read it (`check`), to send the refund (`post`), awaiting the answer (`answer`), about to cancel (`cancel`); the queue whose message it handles; the attempts made |
| `breaker` | `PaymentClient.circuit_breaker`, one for all threads |
| `payment` | the payments ever made in insertion order (a Python dict keeps it), since `find_by_order_id` returns the first match. `byHand`: somebody else than order-service had it refunded |
| `forgotten` | how many of them, the first, payment-service has lost in restarts; its repository is `Known` |
| `queue` | the four durable queues between the services of the SAGA |
| `told`, `delivery` | the bounds of the environment: which restaurant events were published, how far each delivery is |
| `lost`, `restarts` | counters that bound failed publications and restarts of each service |

| Action | Handler |
|---|---|
| `CreateOrder` | `create_order` after the restaurant's validation |
| `OnPaymentProcessed`, `OnPaymentFailed`, `OnOrderAccepted`, `OnOrderPreparing`, `OnOrderReady`, `OnOrderRejected`, `OnDelivery*` | the `on_*` handlers up to their test of the status (`Takes`), with the ack if it fails |
| `WriteStatus`, `NotePayment` | the assignments that follow the test, and the ack |
| `CancelOrder`, `CheckPayment` | the tests of `cancel_order`; `if order.payment_id`, there and in `on_order_rejected` |
| `PostRefund`, `RefundAnswered`, `RefundUnanswered` | one attempt of the retry loop through the breaker, and its outcomes |
| `FinishCancel` | `_cancel`, and for the consumer the ack |
| `RestartOrderService`, `RestartPaymentService`, `RecoveryTimeout` | a process restarts; the breaker's clock |
| `OnOrderCreated`, `PostPayment`, `SettlePayment` | `process_payment` up to the gateway's answer, on the consumer thread or over HTTP, and after it |
| `RefundDirectly` | `POST /payments/{id}/refund` from anybody but order-service, at any time |
| `RestaurantPublishes`, `AssignDeliverer`, `UpdateLocation`, `ConfirmDelivery` | what the other services publish |

**Granularity.** Order-service's threads share the `Order` objects and hold no lock, so a
test of the status and the assignment after it are two steps, the assignments of `status` and
`payment_id` in `on_payment_processed` too, and so are the test, the read of `payment_id` and the
assignment of `cancel_order`. What another thread has done in between is overwritten, as in the code: a customer
who cancels between the test of CREATED and the assignment of PAID has a PAID order. The
refund request is cut again: one step passes the breaker, another takes the answer. The consumer thread of
order-service serves three queues on one channel, so its callbacks never overlap: `Receives` requires it
to be idle, and a message stays at the head of its queue until its handler returns.

**Refunds.** A refund that fails with a lost reply may have been made (`RefundUnanswered`), one in flight when the
process dies may still arrive (`RestartOrderService`). Any reply below 500 is a success for `_post_refund`: a 400
because the payment is REFUNDED already, by an earlier attempt or by hand, and a 404 because payment-service has
restarted and forgotten it. A direct refund of a part leaves the payment COMPLETED and is a stuttering step.

**Refused amounts.** `Free` are the orders whose total is not positive: `process_payment` raises before it makes a
payment, publishes nothing, and `on_order_created` acknowledges. `DELIVERY_FEE` is 2.99, so it takes dishes with
a negative price, which no service refuses.

**Data left out.** Amounts (a refund asks for 0.0, which payment-service takes as the
whole remainder), items, prices, names, reasons, `delivery_id` and `saga_state` (written, and read by no decision), the
texts of the history. Of the history only the outcomes are kept: they tell a flagged SAGA from another. The
restaurant's synchronous validation decides only whether an order is created. Events that reach
none of the four queues (`order.paid`, `order.cancelled`, `payment.refunded` and others, for notification-service) are left
out. A crash of payment-service between the gateway's answer and the record of it is a crash before the answer.

**`InTransitKey`.** delivery-service publishes `delivery.in_transit`; the order-service
queue is bound to `delivery.in_progress`. The key is therefore a constant: the runs
that take the code as deployed use the former, for which `OnDeliveryInProgress`
never fires; `saga_lifecycle` uses the latter so that this handler is checked too,
and the theorems hold for both.

### `OrderLifecycle`

What a customer can rely on: the service *decides* one step at a time, always to a later stage than the order has
reached and PAID first (`DecideStage`, `DecideDelivered`), and takes it afterwards (`Take`, `NotePayment`); an order is paid once,
by one payment. A cancellation may end an order at any time (`Cancel`), also between a decision and its effect, which
then revives it; a delivery may be decided for any order, since `on_delivery_completed` excludes DELIVERED only. Nothing
else gets between: no event, restart or retry makes a decision out of its order, and none is taken that was not decided. It says
nothing of threads, messages, refunds, breakers.

### `PaymentLedger`

A payment is entered in process, is decided once, and the gateway has charged its order
exactly if it is completed; what is completed may be returned, once. Partial refunds, threads, retries
and messages are stuttering. `Return` takes a set because a restart of order-service cuts several
refund requests off at once. `Forget` is the restart of payment-service, in both modules; what was charged stays charged, and the payment that was
being recorded when the process died may have been charged too. A refund by hand is a `Return` like any other. In
`OrderSaga` the order's charges are the completed and refunded payments ever made; in `PaymentService` they are
counted at the gateway, so that the two agree is part of what is shown. That a payment charges an order
*once* is not promised here: a second payment of the order may be entered, which is `ChargedOnce`'s subject.

### `DeliveryFleet`

| Variable | In the code |
|---|---|
| `fleet` | `MongoDBDelivererRepository`: each deliverer's status, `none` before registration |
| `deliveries` | `InMemoryDeliveryRepository`: order, deliverer, status; `find_by_id` gives every thread the same object |
| `ready` | queue `delivery-order-events`, bound to `order.ready` |
| `pc`, `on` | per thread of delivery-service: where it is, and the order or delivery it works for |
| `job` | per HTTP thread of deliverer-service: `<<t, 0>>` is the one thread `t` waits for, `<<t, n>>` one it stopped waiting for |
| `announced` | the deliveries whose `delivery.completed` was published |

| Action | Code |
|---|---|
| `Register`, `SetAvailability` | `register_deliverer`, `set_availability` to AVAILABLE or OFFLINE |
| `AssignFind`, `AssignSave`, `Release` | `assign_available` cut between its find and its save; `release_deliverer` |
| `Assign`, `Assigned`, `GiveUp`, `Ack` | `assign_deliverer` up to its call, after its reply, without a deliverer; the ack of `_on_order_ready` |
| `Tests`, `UpdateLocation`, `ConfirmDelivery`, `FailDelivery` | the status is tested in one step, assigned in another: `datetime.now()` lies between |
| `Released`, `Publishes`, `NoReply`, `TimesOut`, `Raises` | what follows the call: `URLError` is caught and the event published, or lost when the broker raises, which `_publish` swallows; another exception leaves the method |
| `CallLost`, `Restart` | the call dies; delivery-service restarts, forgets its deliveries, and `order.ready` is redelivered |

`urlopen` raises `URLError` when it cannot connect, but an error of its own (`socket.timeout`,
`RemoteDisconnected`) while it waits for the reply, and the code catches only the former: after
a call that died the model does either (`NoReply`); after a time-out, the latter. A publication that fails counts as a
fault like a call that dies: `DeliveredIsAnnounced` says that nothing but these loses the event. A call that timed out goes on in
deliverer-service (`Abandons`). A message that is nacked goes behind those already sent to
the consumer, which has no prefetch limit.

`shared` is a history variable: the deliverers whom an unguarded step may have given away — two
overlapping reservations that found the same deliverer, a status saved in a delivery that was already
over (the test was passed before), a user who set AVAILABLE by hand. `BookedOnce` holds for the others, which is what
the code does guarantee; for those in `shared` a double booking is reachable, although
`src/documentation/02-analyse-domaine.md:59` asks for idempotent calls. Setting BUSY by hand is not modelled: nobody has to undo it.
`order.ready` is published by no service (restaurant-service publishes `OrderReady`), so the content of
the queue is an input, at most one message per order.

### `PaymentService`

`payments` is the dictionary in its order of insertion, `queue` the queue of `order.created`, `at` per thread its
place in its request, `charges` how often the gateway has charged each order.

| Action | Code |
|---|---|
| `Process`, `FindByOrder`, `CreatePayment` | `process_payment`: the iteration of `find_by_order_id`, the test, the save |
| `CallGateway`: `MarkFailed`, `GatewayError`, `Complete` | one call of the simulated gateway, with the retry around it and what follows the last |
| `Refund`, `AppendRefund`, `Settle` | `refund`: the checks, the append, the comparison that sets REFUNDED |
| `Ends`, `Raises` | ack and nack of `on_order_created`; for HTTP, the reply |
| `Restart` | the process restarts: payments gone, unacknowledged message redelivered |

The iteration over a dictionary raises `RuntimeError` when another thread inserts into it: the model keeps the size at
its start (`size`) and raises, or has found the payment before. Amounts are multiples of a part of
`Amount`, as a refund of a half and of the whole need. An amount that is not positive (`"no_amount"`
in `Asked`) is refused after the look-up, with neither a payment nor an event, and its message acknowledged: `AckedHasPayment` says that
this is the only message that leaves without a payment. One above the limit fares as a declined card. Publications are `OrderSaga`'s.

Two history variables name the races that the code has: `again`, the orders of which two requests found no
payment at once, or one found the first payment FAILED or REFUNDED (it looks at no other: an order that was
paid by a second payment, or refunded, is charged anew when it is posted again); `rushed`, the payments of
which two refunds passed their checks at once. Outside them `ChargedOnce` and `RefundsAreCovered` hold, and a
restart accounts for one more charge.

### `CatalogProjection`

One restaurant, since restaurants share no state. `restaurant`, `menus` and `ratings` are the objects in the memory
of restaurant-service and rating-service, `catalog` its `CatalogEntry`, `index`, `toCatalog`, `toRestaurant` the
three queues, `at` what each HTTP thread has left to do.

| Action | Code |
|---|---|
| `CreateRestaurant`, `UpdateRestaurant`, `AddMenu`, `FindMenu`, `EditMenu`, `DeleteMenu` | the operations, up to their save; those on a menu are cut after `get_menu` |
| `BuildEvent`, `PublishEvent` | the event is built from the object as it is by then, and published in a further step |
| `CreateRating`, `Recompute`, `PublishRating` | `create_rating`: the save, the iteration of `find_by_target`, which may raise, the event |
| `on_*`, `UpdateIndex`, `UpdateRatings`, `RateRestaurant` | the handlers of the two consumers, each with its ack |
| `RatingRestart`, `CatalogRestart` | a service restarts and has forgotten everything |

`create_restaurant` takes the status from the request, and announces the registration only. `untold` (history) marks a restaurant that was
created CLOSED and has not been ACTIVE since: no event has told the catalog.

A summary is represented by the number of ratings it is computed from: ratings are never deleted, so two
summaries of as many ratings are the same. An item is an id with a name and a price, so `update_menu_item` replaces one item by
another. The name of the restaurant stands for the name and the kind of cuisine.

`unsure` is a history variable: the kinds of data whose last write overlapped another of its kind, was not announced
(`_publish` swallows the error), or is forgotten. A later write that no other overlaps makes its kind sure again, except that a missed closing is not
announced twice. The properties say that the catalog shows what is *not* unsure. They describe the code where a reader
would expect something else: the dishes shown are those of the menu written **last**, not of all menus
(`on_menu_updated` replaces the list); a restaurant that reopens stays closed in the catalog, so only the closing is
stated, and not for a restaurant that is `untold`; and a catalog that restarts shows nothing until the next event, whereas `src/documentation/03-microservices.md:41` has it rebuilt.

### `CustomerProfile`

`profiles` are the MongoDB documents, `customerOf` the customer each order was placed for, `queue` the queue of
`order.created`, `at` each thread's place with its copy of the document.

| Action | Code |
|---|---|
| `Register`, `SaveNew` | `register`: `find_by_email`, then `save` |
| `GetProfile` and `UpdateProfile`, `ChangeEmail`, `AddAddress`, `UpdateAddress`, `DeleteAddress`, `Refuse` | the other requests: `get_profile` gives a copy, which is changed and replaces the document |
| `FindCustomer`, `AddOrderRef`, `Ack` | `on_order_created`, cut at the requests to MongoDB and at the ack |
| `MongoRaises`, `Restart` | an exception of pymongo, after which the save may have been made or not; a restart, which keeps the documents |

`POST /orders` does not check its `customerId`, so orders of a `Stranger` (`Strays`) are possible: their message raises
`CustomerNotFound` and is requeued for ever. That the others get through all the same rests on where the broker puts
a requeued message (`Requeues`), which the mutant of `OrdersAreRecorded` shows.

`overwritten` names the customers whose document was replaced by a stale copy, `raced` the emails two requests found free at
once or a stale copy brought back: for the others `HistoryIsComplete` and `EmailsAreUnique` hold. `OneDefaultAddress` needs no such
exception: a replacement is always of a whole, well-formed document.

**The history variables** of these four modules (`shared`, `again`, `rushed`, `unsure`, `overwritten`, `raced`) only observe: no guard reads
them. Each is changed in one or two places, next to the step that makes the race, and holds no more than that race; the properties claim
that nothing *else* breaks the promise. The races themselves are reachable in the instances.

## 3. Runs

Seven runs pass, five expect a violation.

| Run | Instance | Shows |
|---|---|---|
| `saga_lifecycle` | 1 order, 1 HTTP thread + consumer, all four restaurant events, all courier events, no retry, threshold 1, a lost publication, a refund by hand | `ServedOrdersArePaid`, `RefundMeansCancelling`, `ImplementsLifecycle`: every behaviour is one of `OrderLifecycle` |
| `saga_liveness` | 1 order, 1 HTTP thread + consumer, 1 retry, threshold 2, a rejection, a payment and a refund over HTTP, a restart of each service, fairness | `NoSilentRefundFailure`, `PaymentUnderWay`, `PaymentResolves`, `QueuesDrain`, `RefundEndsOrder`, and `ImplementsLedger`: every behaviour is one of `PaymentLedger` |
| `saga_late_payment` | violation | `CancelledIsNotCharged` |
| `saga_revival` | violation | `CancelledIsFinal` |
| `saga_free_order` | violation: an order whose total is not positive, fairness | `SagaContinues` |
| `breaker_threads` | 3 threads (symmetric), both thresholds 2 | `CountedOutIsOpen`, `SoloCallsAreAtomic`, `OpenIsTemporary` |
| `breaker_trial` | violation: 1 thread, the deployed threshold 3 | `FailedTrialReopens` |
| `fleet` | 1 order, 1 deliverer, 2 deliveries, 2 HTTP threads + consumer, 1 fault | `NoStrandedDeliverer`, `BookedOnce`, `DeliveredIsAnnounced`, `AckedIsAssigned`, `ReadyIsAssigned` |
| `payment` | 1 order, 2 HTTP threads + consumer, amount 2 or none, the deployed 3 retries and 2 flaky errors, 2 posts, 1 restart | `ChargedOnce`, `ProcessingIsWorkedOn`, `RefundsAreCovered`, `RefundedWhenAllIs`, `FlakyIsPaid`, `AckedHasPayment`, `OrdersAreTaken`, `ImplementsLedger` |
| `catalog` | 2 threads, 2 menus, 1 item, 2 names (one empty), 4 requests, 1 fault | `IndexCatchesUp`, `RatingsAgree`, `RatingCatchesUp`, `EventuallyShown` |
| `customer` | 2 customers, 2 emails, 2 addresses, 2 orders (one a stray), 2 HTTP threads + consumer, 4 requests, 1 fault | `OneDefaultAddress`, `EmailsAreUnique`, `RefsAreRedeliveries`, `HistoryIsComplete`, `OrdersAreRecorded` |
| `customer_redelivery` | violation: one restart | `OrdersAreListedOnce` |

`saga_liveness` and each of the last passing five also check their `TypeOK`.

**Bounds, and why they are enough.** Orders meet only at the shared breaker and at the consumer
thread. Two compensating threads (one client, one consumer) overlap in every way that two
calls can, and both may refund the one order; what calls of *different* orders do to each other goes through the breaker, whose every
value one order's two calls bring about, and is in the proofs, which hold for any number of orders. The two runs divide the
work because one instance with everything does not finish: `saga_lifecycle` has all events in any order, every handler's test overtaken by
a cancellation, a publication that may be lost at every step and a refund by hand, and no retry;
`saga_liveness` has the retries, a breaker that opens inside the loop, between two calls, or refuses
the last attempt (threshold 2 and one retry; deployed are three and three), both restarts, and the 404 of a forgotten
payment. Lost publications are not in the latter because every liveness property exempts them, and the proof of
`PaymentUnderWay` covers `lost = 0` among any `MaxLost`. Each restaurant event occurs once
per order, in any order and at any time: the handlers' guards depend only on the
status, and a second copy finds a status that a first one could have left. One direct
payment beside that of `order.created` gives the two payments that the replay
check can confuse. A courier reports positions as often as the courier likes, while fewer
than `MaxUnread` delivery events wait. The proofs below need none of these bounds.

`breaker_threads` has three threads: one that opens, one that closes or resets, and one that is let
through in between, which is every role there is. With thresholds 2 a counter is seen below, at and
beyond its threshold, and success is counted once without closing. The model has no bound of its own: `TypeOK`
says that the failures never exceed the threshold by as many as there are threads, and the state
space is finite because of it.

`fleet`: a double booking takes two reservations of one deliverer and two deliveries, a stranded one a single lost call; a
deliverer is the only thing two deliveries share, so one suffices. Three threads let a late confirmation, a failure and a
booking overlap. A fault is a call that dies, a time-out, a failed publication or a restart. One at a time is what each property distinguishes (`faults = 0` or not); that it may come at every step matters,
and a second is in the proofs. `payment`: three threads are two that race and one that is between them; a second post may find the failed
payment of the first; amount 2 has partial, full and excessive refunds. `catalog`: two threads overlap in every pair of writes, and four requests
are a restaurant, a menu and two changes of it, or two ratings twice. `customer`: four requests
are two registrations and the two that then race for an email, or a registration and three changes of the address book.
The bounds on requests and faults are needed only for TLC: the theorems hold for all of their values.

`CHECK_DEADLOCK FALSE` in the `saga` runs, `payment`, `catalog` and `customer`: when users, restaurants and couriers have used up what
the bounds allow, and all is settled, the system rightly has nothing left to do. In `fleet` users can always change
an availability, and deadlock is checked.

**Fairness.** Only what the code schedules: the two consumer threads keep consuming
(`start_consuming` loops), a call in progress goes on (`requests` has a timeout, the
retry loop is bounded), the simulated gateway always ends. Nothing is assumed of users,
restaurants or couriers, nor of the breaker's clock: `RecoveryTimeout` is not fair, so
the liveness properties hold even if the circuit never closes again, because a refusal
ends the retry loop.

In the other modules likewise: consumer threads keep consuming, a thread that has begun a request ends it, and
deliverer-service serves the calls it has (every call has a time-out or ends). Nothing is assumed of users' requests or of faults. The consumer of the catalog
has two queues on one channel, whose messages RabbitMQ sends it in turn, hence fairness for each of its two actions. The fairness is
weak throughout: a step that is due stays due until it is taken. `ReadyIsAssigned` asks more, in its premise: that in the end
some deliverer stays available, since nothing else keeps two threads from taking him in turn.

## 4. Proofs

For all constants satisfying `BreakerAssumption` (both thresholds positive) and
`SagaAssumption` (bounds are naturals, the consumer is not an HTTP thread, the
transit key is one of the two above, `Free` is any set of orders) — any number of orders, threads, retries, lost
publications, direct payments and refunds, and restarts of both services — and, for those of `CircuitBreaker`, `ThreadsAssumption` (any finite set of threads):

| Theorem | States |
|---|---|
| `TypeCorrect` | `Spec => []TypeOK`, the bound `max_retries + 1` on refund attempts included |
| `ServedOrdersPaid` | `Spec => []ServedOrdersArePaid` |
| `RefundsBelongToCancellations` | `Spec => []RefundMeansCancelling` |
| `RefundFailuresAreFlagged` | `Spec => []NoSilentRefundFailure` |
| `LifecycleImplemented` | `Spec => ImplementsLifecycle` |
| `PaymentStaysUnderWay` | `Spec => []PaymentUnderWay` |
| `LedgerImplemented` | `Spec => ImplementsLedger` |
| `TypeCorrect` | `Spec => []TypeOK`, of `CircuitBreaker`, the bound on counted failures included |
| `SoloCallsMatchBreaker` | `Spec => []SoloCallsAreAtomic`, of `CircuitBreaker` |
| `CountedOut` | `Spec => []CountedOutIsOpen`, of `CircuitBreaker` |
| `NeverStuckOpen` | `Spec => []OpenIsTemporary`, of `CircuitBreaker` |

And of the four services, each for any sets of names, threads, orders, deliverers, menus, and any bounds on requests and faults, from the
named `ASSUME`s of its module only (the consumer is not an HTTP thread, names differ, at most `MaxRetries` flaky errors; `Amount`, the amount of a
payment that is not refused, is positive, since the code refuses all others, which is the branch `"no_amount"`):

| Module | Theorems |
|---|---|
| `DeliveryFleet_proofs` | `TypeCorrect`, `DeliverersAreBookedOnce`, `NobodyIsStranded`, `DeliveredGetsAnnounced`, `AcknowledgedIsAssigned` |
| `PaymentService_proofs` | `TypeCorrect`, `OrdersAreChargedOnce`, `ProcessingStaysWorkedOn`, `RefundsStayCovered`, `AllRefundedIsRefunded`, `RetriesOutlastErrors`, `AcknowledgedHasPayment`, `LedgerImplemented` |
| `CatalogProjection_proofs` | `TypeCorrect`, `RatingsStayInAgreement`, `RatingIsCaughtUp`, `IndexIsCaughtUp` |
| `CustomerProfile_proofs` | `TypeCorrect`, `DefaultsAreKept`, `EmailsStayUnique`, `HistoryStaysComplete`, `RefsAreOnlyRedeliveries` |

**The type invariant** is not inductive alone. `NotePayment` and `FinishCancel` take the head of a queue
that nothing in `TypeOK` says is not empty, `SettlePayment` another, and `PostRefund` adds
one to the attempts. `Bookkeeping` says what makes these steps safe. `Handling`: a consumer that is in a handler
holds its unacknowledged message, for its order, at the head of its queue. `Retrying`: a call about to send has an attempt left.
`Paying`: a payment being processed by payment-service's consumer holds its `order.created`, and is the only one. `Whole` is `TypeOK` and
these.

**The safety invariant** `IInv` adds `Paid`: where a payment's number may be.

* `Announced` — a `payment.processed` message names a payment of its order that was completed;
* `Writing` — a handler about to make an order PAID still has that message at the head, and the order can only have been cancelled since the
  test; one about to move it further has seen it paid. This is what a lock would give for free;
* `Charged` — an order in service knows its payment, or its handler is about to note it, one that is CREATED knows none, and what an order
  knows is a payment of its own, completed or refunded;
* `Working` — a call works for an order that is there, and one that sends a refund for an order that knows a payment.

`ServedOrdersArePaid` is part of `Charged`. `RefundMeansCancelling` and `NoSilentRefundFailure`
need the whole: order-service has a payment refunded only if its order knows it, no handler makes the order forget it, and a call
reaches *cancel* after an answer, which has refunded it or found it refunded or forgotten, or through `RefundFailed`, which
has flagged the SAGA. The refunds by hand are told apart by `byHand`.

**`PaymentUnderWay`** says where an order that waits for its payment is. `UnderWayInv` adds to `IInv`: `Told` (if no publication
was lost, an order that is CREATED has in the results a message for each of its decided payments) and `Unplaced` (one not placed has no payment and no message). A step of
payment-service's consumer acknowledges the message of the payment it settles (`Paying`); a message of
the results leaves its queue when its handler returns, after which its order is no longer CREATED, or was not before. A restart of
payment-service leaves the unacknowledged `order.created` where it was: only a payment posted over HTTP, for which the replay check
has let `order.created` go, is lost with it (`CutShort`). The lemmas `QuietStep` and `*Quiet` deal with the steps that bring no order
to CREATED and take nothing under way; `CreateFollowed`, `CreatedFollowed`, `SettleFollowed`, `PaymentRestartFollowed` with the others.

`IInv` and `UnderWayInv` were model-checked, with two orders too, before they were proved.

**The refinement** maps `status` to `order[o].status` (`AbsStatus`), `paidBy` to `order[o].payment_id` (`AbsPaidBy`) and what is decided to `Due`, read off
the consumer's position. `TakesStep` shows that a handler's test is a decision, from `StagesAre` and the statuses each handler admits; `WriteStep` and
`NoteStep` take it, and need `Writing`: the order is paid by nobody yet. A cancellation and the refunds before it stutter up to `FinishCancel`.

**The ledger.** Both implementations are proved step by step: `StartIsEnter`, `SettleIsDecision`, `RefundsAreReturned` in
`OrderSaga`, where `Books` and `Bill` are the mapped ledger and charges and a restart of payment-service is `RestartIsForget`; `CreateIsEnter`, `CallIsDecision`, `SettleIsReturn`, `RestartIsForget` in `PaymentService`; the other actions
stutter. In `OrderSaga` the mapped charges are a cardinality, so that a step must be shown to add one payment to a finite
set, or none: a refund turns COMPLETED into REFUNDED, both charged. In `PaymentService` it is `WorkInv` that makes
a decision fall on a payment still in process, and a refund that settles find it completed, although other threads have
worked on the payment since the checks.

**The breaker.** Both properties speak of the moments when no call is under way, and say nothing a step
could be proved from. `OpenerExists` says who will make the first true: while the failures reach the
threshold and the circuit is not open, some thread is between counting and opening. It survives the
others because whatever takes the state out of OPEN (`_reset`, `_close`) zeroes the count in the same
stretch — on an interpreter that could switch between these assignments the argument, and the property, fail.
`StamperExists` does the same for the date: an open circuit without one has a thread about to note it.

The bound of `TypeOK`, fewer failures beyond the threshold than threads, counts who may have made them (`Contained`):
while the circuit is not open, the threads that have counted a failure and are about to open it; once it is open,
those that are not in the protected function, since nobody new is let in. Opening it turns the former into the latter and loses none.
`SoloCallsAreAtomic` needs the value predicted at each step of `call`, not only at its end: `Due` gives for each position what
the rest of the call will make of the object as it is.

**The fleet** (`DeliveryFleet_proofs`). `ConsumerInv` places the consumer: it works on
the message at the head of its queue, and once it has *saved*, the delivery of that
message's order exists; `AckedIsAssigned` follows when the message goes. `BookedOnce`
needs `AloneInv`: a deliverer that never was `shared` is held by at most one handler,
by none while he carries a delivery, carries at most one, and is neither booked nor
carrying when the fleet has him AVAILABLE. Without faults, `Orderly` ties the two
services together: a call in course has its job (`CallsAreServed`), a BUSY deliverer
carries a delivery or is booked by a handler (`NobodyStranded`), and a DELIVERED
delivery is announced or its thread is about to announce it (`AllAnnounced`), faults being calls that die and publications that fail alike.

**Payments** (`PaymentService_proofs`). `ConsumerInv` says that what the consumer does
is for the head of its queue; `AckedHasPayment` follows. `WorkInv` gives each
payment in PROCESSING exactly one thread that charges it. For `RefundsAreCovered`, a
payment not in `rushed` `Fits`: at most one refund has been checked and not appended,
and it fits beside those that were appended. For `ChargedOnce`, an order not in `again`
has at most one payment, or one thread about to create it, never both; and its charges
are at most those that restarts have made the service forget, plus one once that
payment is no longer uncharged.

**The catalog** (`CatalogProjection_proofs`). The two queues of rating events are fed by
one exchange and drained separately. `RatingInv` compares what each will have left:
`Coming` is the restaurant's rating once its queue is empty, and the last summary in the
catalog's queue is that one too. While no two threads have been rating at once (`unsure`
lacks "rating"), the thread that may still announce counts all ratings there are.

`IndexCatchesUp` follows the events through their queue. For a kind of data that is sure, either a thread has yet to tell,
and it is the only one and will tell what is there; or nobody has, and then the *last* event of that kind in the queue
carries what was written, or there is none and the catalog has it (`NameInv`, `DishesInv`). `LatestAppend` and `LatestTail` say
what a publication and a consumption make of the last event of a kind. The closing is different (`StatusInv`): it applies only to an entry that is there, so its
event must also come after one that makes the entry, which holds because the restaurant was
registered, in the same queue, before anybody could close it. It speaks of closings that were announced (`ToldClosed`). `ShapeInv` says what a thread that is about to publish carries.

**Customers** (`CustomerProfile_proofs`). `AllGood` is about the documents and the copies
threads hold alike: a copy with two defaults would become a document with two.
`EmailInv` gives each email that was never `raced` for one owner or one claimant, not
both. `HistoryInv` says that a message the consumer has *saved* is in its
customer's history before it leaves the queue. `RefsInv` counts: a queue holds an order
once, an order still pending is at most `faults` times in the history, and one that
is no longer pending at most `1 + faults` times, in the documents and in the copies.

**Only model-checked:** liveness (`PaymentResolves`, `QueuesDrain`, `RefundEndsOrder`, `ReadyIsAssigned`, `OrdersAreTaken`, `EventuallyShown`,
`OrdersAreRecorded`), which needs fairness and ENABLED, out of the prover's reach; and the violations, which are
counterexamples. Every invariant, action property and refinement of the passing runs is a theorem.

## 5. Findings

* **Charged after a cancellation** (`saga_late_payment`). `cancel_order` refunds only what it
  already knows, and `on_payment_processed` ignores an order that is no longer CREATED. A
  customer who cancels while the payment is in flight ends CANCELLED, charged and not
  flagged; the documentation promises no effect on the customer before the restaurant accepts.
* **A cancelled order is delivered** (`saga_revival`). `on_delivery_completed` excludes only
  DELIVERED. The documentation says that events not matching the current step are ignored. With the customer's thread
  (`Clients <- OneClient`) the same property is violated by `on_payment_processed` alone: the customer cancels between
  its test of CREATED and its assignment of PAID.
* **An order with a refused total waits for ever** (`saga_free_order`). `process_payment` refuses it with neither a payment nor an event;
  the comment of `on_order_created` says that a payment.failed has been published.
* **A failed trial does not reopen the circuit** (`breaker_trial`). `_reset` zeroes the count and `_on_failure`
  opens at `failure_threshold` in every state, so a half-open circuit lets calls through until as many
  have failed again. The documentation promises one trial request, and 30 s of OPEN when it fails.
* **An order is listed twice** (`customer_redelivery`). `on_order_created` of customer-service saves, then acknowledges, and
  remembers no `message_id`; the documentation says that every participant deduplicates by it. What does hold is
  `RefsAreRedeliveries`: one entry more per redelivery, and none without.

**Known divergences the properties exempt.** Each of these is reachable in the model; a property of a passing run names the
case and claims that nothing *else* breaks the promise. Dropping the exemption from the property gives the trace. The lines of the
documents are under `src/documentation/`.

| The document | The code | Exempted by |
|---|---|---|
| `07-resilience.md:10`: an outbox, no event is lost | `_publish` logs and drops; the SAGA freezes | `lost` in `PaymentUnderWay`, `PaymentResolves`; `faults` in `DeliveredIsAnnounced` |
| `order_service.py:294`: a compensation that could not complete is flagged | a 404 of a restarted payment-service counts as a refund | `forgotten` in `NoSilentRefundFailure` |
| `adr/ADR-007:23`: no double application | two look-ups before either save charge twice; so does a payment posted again after a failed or refunded one | `again` in `ChargedOnce` |
| `test_application_payment_service.py:83`: no refund of more than was paid | two refunds pass the check before either is appended | `rushed` in `RefundsAreCovered` |
| `02-analyse-domaine.md:59`: the calls of deliverer-service are idempotent | a lost reply leaves a deliverer BUSY, and the call made again books another | `faults` in `NoStrandedDeliverer` |
| `03-microservices.md:83`: the first available deliverer is assigned | two reservations find the same one | `shared` in `BookedOnce` |
| `03-microservices.md:18`: an email is unique | two registrations look it up before either inserts | `raced` in `EmailsAreUnique` |
| `03-microservices.md:39`: opening and closing are projected | a restaurant created CLOSED, and one reopened, are not announced | `untold`, and only closings are compared, in `IndexCatchesUp` |
| `03-microservices.md:41`: the catalog can be rebuilt from events | nothing is replayed | `unsure` in `IndexCatchesUp` |

## 6. Not modelled

Listed in `PROJECT.json` with their reasons.

* **notification-service**: one consumer thread appends a fixed notification per event and looks at none again.
* **api-gateway** and the **OpenAPI validator**: stateless; requests in the models are those that have passed them.
* **Reads, searches, login and tokens**: they change nothing. `restaurant_client` and its breaker decide only whether an order is created.
* **Restarts of restaurant-service**: a restart loses the restaurant and its id, so nothing is left
  to compare the catalog with. Restarts of deliverer-service are calls that die (`CallLost`); its documents stay.
* **Dead consumers**: `start_consuming` raises when the connection drops and its thread ends for good; and delivery-service's HTTP threads publish on
  the connection that its consumer thread reads. What pika then does is pika's; both are listed as hazards without a property.
* **Composition.** `OrderSaga` takes the breaker's methods as atomic, as `Breaker` gives them; what
  their overlap adds is in `CircuitBreaker`. In `OrderSaga` one
  `process_payment` is atomic up to its gateway call, and a refund is of the whole remainder; `PaymentService` opens both, without the events; what
  they share is `PaymentLedger`. A refund made by hand is in; that the FAILED flag leads to one is not.
* **Clocks, amounts in full, texts**: delays are asynchronous; the data kept is what the properties tell apart.
