--------------------------- MODULE DeliveryFleet ---------------------------
(***************************************************************************)
(* delivery-service and the deliverer-service it books deliverers from.    *)
(* Deliverers are documents of MongoDB, deliveries live in the memory of   *)
(* delivery-service, and a booking is a HTTP call between the two, made by *)
(* the consumer of order.ready or by a HTTP thread.  A call has a time-out *)
(* of 5 s, after which deliverer-service may still carry it out; it finds  *)
(* an available deliverer and saves it as busy in two requests to MongoDB. *)
(* Threads share the Delivery objects: CPython 3.10 may switch between the *)
(* test of a status and its assignment, where datetime.now() is called.    *)
(***************************************************************************)
EXTENDS Naturals, Sequences, FiniteSets

CONSTANTS Orders,     \* their order.ready waits in the queue at the start
          Deliverers,
          Ids,        \* of deliveries: bounds POST /deliveries
          Clients,    \* HTTP threads of delivery-service
          Consumer,   \* its consumer thread
          NoOne,
          MaxFaults   \* bounds the calls lost, timed out, and the restarts

ASSUME NamesAssumption ==
    /\ Consumer \notin Clients
    /\ NoOne \notin Deliverers \cup Clients \cup {Consumer}

ASSUME OrdersAssumption == IsFiniteSet(Orders)

ASSUME BoundsAssumption == MaxFaults \in Nat

Threads == Clients \cup {Consumer}

\* deliverer-service starts a thread for each call: <<t, 0>> is the one that
\* works for thread t, <<t, n>> the one t stopped waiting for at fault n.
Handlers == Threads \X (0 .. MaxFaults)

VARIABLES fleet,      \* per deliverer: its status, "none" until registered
          deliveries, \* per id: the delivery
          ready,      \* queue delivery-order-events, the unacknowledged first
          pc, on,     \* per thread: where it is, the order or the delivery it is about
          job,        \* per HTTP thread of deliverer-service: what it does
          announced,  \* the deliveries whose delivery.completed was published
          faults,     \* how many so far
          shared      \* history: the deliverers who may have been given away while
                      \* they carried a delivery, for a reason noted where it arises

vars == <<fleet, deliveries, ready, pc, on, job, announced, faults, shared>>

-----------------------------------------------------------------------------
DelivererStatus == {"AVAILABLE", "BUSY", "OFFLINE"}

NoDelivery == [order |-> NoOne, deliverer |-> NoOne, status |-> "none"]

Active == {"ASSIGNED", "IN_TRANSIT"}

Statuses == Active \cup {"DELIVERED", "FAILED", "none"}

IsActive(x) == deliveries[x].status \in Active

Free == {x \in Ids : deliveries[x].status = "none"}

\* In a call: to book; to release, before delivery.completed or delivery.failed.
Calling == {"assigning", "confirmed", "failed"}

PCs == Calling \cup {"idle", "saved", "confirming", "moving"}

NoJob == [step |-> "idle", deliverer |-> NoOne]

Steps == {"idle", "find", "save", "assigned", "release", "released"}

Asks(t, step, d) == job' = [job EXCEPT ![<<t, 0>>] = [step |-> step, deliverer |-> d]]

\* Thread t stops waiting: what is over is thrown away, what is not goes on.
Abandons(ts) ==
    job' = [h \in Handlers |->
               IF h[1] \in ts /\ h[2] = 0 THEN NoJob
               ELSE IF h[1] \in ts /\ h[2] = faults + 1 /\ job[<<h[1], 0>>].step \notin {"assigned", "released"}
                    THEN job[<<h[1], 0>>] ELSE job[h]]

\* Thread t goes on, about y; it is back for another request; it goes on with this one.
Goes(t, from, to, y) ==
    /\ pc[t] = from
    /\ pc' = [pc EXCEPT ![t] = to]
    /\ on' = [on EXCEPT ![t] = y]

Ends(t, from) == Goes(t, from, "idle", NoOne)

GoesOn(t, from, to) == Goes(t, from, to, on[t])

\* Status s is saved in delivery x; who does so without a test that still holds
\* may free, or keep, a deliverer who is on another delivery.
Sets(x, s) ==
    /\ deliveries' = [deliveries EXCEPT ![x].status = s]
    /\ shared' = IF IsActive(x) THEN shared ELSE shared \cup {deliveries[x].deliverer}

Fault == faults < MaxFaults /\ faults' = faults + 1

NoFault == UNCHANGED faults

-----------------------------------------------------------------------------
(* deliverer-service *)

Register(d) ==
    /\ fleet[d] = "none"
    /\ fleet' = [fleet EXCEPT ![d] = "AVAILABLE"]
    /\ UNCHANGED <<deliveries, ready, pc, on, job, announced, faults, shared>>

\* set_availability, of a user, to AVAILABLE or OFFLINE: who makes a deliverer
\* BUSY by hand need not release him.  A save replaces the document, of which
\* only the status ever changes: what was read before does not matter.
SetAvailability(d, s) ==
    /\ fleet[d] # "none" /\ s # fleet[d]
    /\ fleet' = [fleet EXCEPT ![d] = s]
    /\ shared' = IF s = "AVAILABLE" THEN shared \cup {d} ELSE shared
    /\ UNCHANGED <<deliveries, ready, pc, on, job, announced, faults>>

\* Thread h is done with its call; the caller may no longer be there.
Replies(h, step, d) ==
    job' = [job EXCEPT ![h] = IF h[2] = 0 THEN [step |-> step, deliverer |-> d] ELSE NoJob]

\* find_first_available: MongoDB promises no order.
AssignFind(h) ==
    /\ job[h].step = "find"
    /\ \/ \E d \in {e \in Deliverers : fleet[e] = "AVAILABLE"} :
           /\ job' = [job EXCEPT ![h] = [step |-> "save", deliverer |-> d]]
           /\ shared' = IF \E g \in Handlers : job[g].step = "save" /\ job[g].deliverer = d
                        THEN shared \cup {d} ELSE shared
       \/ /\ \A d \in Deliverers : fleet[d] # "AVAILABLE"
          /\ Replies(h, "assigned", NoOne)
          /\ UNCHANGED shared
    /\ UNCHANGED <<fleet, deliveries, ready, pc, on, announced, faults>>

\* Mutant: the change is not saved.
AssignSave_Forgets(h) ==
    /\ job[h].step = "save"
    /\ Replies(h, "assigned", job[h].deliverer)
    /\ UNCHANGED <<fleet, deliveries, ready, pc, on, announced, faults, shared>>

AssignSave(h) ==
    /\ job[h].step = "save"
    /\ fleet' = [fleet EXCEPT ![job[h].deliverer] = "BUSY"]
    /\ Replies(h, "assigned", job[h].deliverer)
    /\ UNCHANGED <<deliveries, ready, pc, on, announced, faults, shared>>

Release(h) ==
    /\ job[h].step = "release"
    /\ fleet' = [fleet EXCEPT ![job[h].deliverer] = "AVAILABLE"]
    /\ Replies(h, "released", NoOne)
    /\ UNCHANGED <<deliveries, ready, pc, on, announced, faults, shared>>

\* The call is refused, or dies before it has replied: an error page, a
\* connection that closes, a crash of deliverer-service.
CallLost(h) ==
    /\ job[h] # NoJob
    /\ Fault
    /\ job' = [job EXCEPT ![h] = NoJob]
    /\ UNCHANGED <<fleet, deliveries, ready, pc, on, announced, shared>>

-----------------------------------------------------------------------------
(* delivery-service *)

\* assign_deliverer, up to its call: of the order at the head of the queue, or
\* of POST /deliveries.
Assign(t, o) ==
    /\ IF t = Consumer THEN ready # <<>> /\ o = Head(ready)
       ELSE Cardinality(Free) > Len(ready) + Cardinality({c \in Clients : pc[c] = "assigning"})
    /\ Goes(t, "idle", "assigning", o)
    /\ Asks(t, "find", NoOne)
    /\ UNCHANGED <<fleet, deliveries, ready, announced, faults, shared>>

\* Mutant: the message is acknowledged although no deliverer was available.
GiveUp_Acks(t) ==
    /\ Ends(t, "assigning")
    /\ ready' = IF t = Consumer THEN Tail(ready) ELSE ready
    /\ UNCHANGED <<fleet, deliveries, announced, shared>>

\* DeliveryException: 503, or a nack that queues the message again behind those
\* that the consumer has already been sent.
GiveUp(t) ==
    /\ Ends(t, "assigning")
    /\ ready' = IF t = Consumer THEN Append(Tail(ready), Head(ready)) ELSE ready
    /\ UNCHANGED <<fleet, deliveries, announced, shared>>

\* assign_deliverer, from its reply: the delivery is saved and announced.
Assigned(t) ==
    /\ job[<<t, 0>>].step = "assigned"
    /\ job' = [job EXCEPT ![<<t, 0>>] = NoJob]
    /\ \/ job[<<t, 0>>].deliverer = NoOne /\ GiveUp(t)
       \/ /\ job[<<t, 0>>].deliverer # NoOne
          /\ IF t = Consumer THEN GoesOn(t, "assigning", "saved") ELSE Ends(t, "assigning")
          /\ Free # {}
          /\ deliveries' = [deliveries EXCEPT ![CHOOSE x \in Free : TRUE] =
                 [order |-> on[t], deliverer |-> job[<<t, 0>>].deliverer, status |-> "ASSIGNED"]]
          /\ UNCHANGED <<fleet, ready, announced, shared>>
    /\ NoFault

Ack ==
    /\ Ends(Consumer, "saved")
    /\ ready' = Tail(ready)
    /\ UNCHANGED <<fleet, deliveries, job, announced, faults, shared>>

\* update_location and confirm_delivery, up to their test of the status.
Tests(t, x, to) ==
    /\ IsActive(x)
    /\ Goes(t, "idle", to, x)
    /\ UNCHANGED <<fleet, deliveries, ready, job, announced, faults, shared>>

UpdateLocation(t) ==
    /\ Ends(t, "moving")
    /\ Sets(on[t], "IN_TRANSIT")
    /\ UNCHANGED <<fleet, ready, job, announced, faults>>

\* Mutant: nobody is called.
ConfirmDelivery_KeepsDeliverer(t) ==
    /\ Ends(t, "confirming")
    /\ Sets(on[t], "DELIVERED")
    /\ announced' = announced \cup {on[t]}
    /\ UNCHANGED <<fleet, ready, job, faults>>

ConfirmDelivery(t) ==
    /\ GoesOn(t, "confirming", "confirmed")
    /\ Sets(on[t], "DELIVERED")
    /\ Asks(t, "release", deliveries[on[t]].deliverer)
    /\ UNCHANGED <<fleet, ready, announced, faults>>

\* fail_delivery looks at no status.
FailDelivery(t, x) ==
    /\ deliveries[x].status # "none"
    /\ Goes(t, "idle", "failed", x)
    /\ Sets(x, "FAILED")
    /\ Asks(t, "release", deliveries[x].deliverer)
    /\ UNCHANGED <<fleet, ready, announced, faults>>

\* Mutant: only a failure is published.
Publishes_FailedOnly(t) ==
    /\ Ends(t, "confirmed") \/ Ends(t, "failed")
    /\ UNCHANGED <<fleet, deliveries, ready, announced, faults, shared>>

\* release_deliverer has returned, whatever it returned: _publish, which
\* swallows what the broker raises.  Nobody is bound to delivery.failed.
Publishes(t) ==
    /\ \/ Ends(t, "confirmed") /\ announced' = announced \cup {on[t]} /\ NoFault
       \/ Ends(t, "confirmed") /\ UNCHANGED announced /\ Fault
       \/ Ends(t, "failed") /\ UNCHANGED announced /\ NoFault
    /\ UNCHANGED <<fleet, deliveries, ready, shared>>

Released(t) ==
    /\ job[<<t, 0>>].step = "released"
    /\ job' = [job EXCEPT ![<<t, 0>>] = NoJob]
    /\ Publishes(t)

\* An exception other than URLError leaves the method: 500 and no event.
Raises(t) ==
    \/ GiveUp(t)
    \/ /\ Ends(t, "confirmed") \/ Ends(t, "failed")
       /\ UNCHANGED <<fleet, deliveries, ready, announced, shared>>

NoReply(t) ==
    /\ pc[t] \in Calling
    /\ job[<<t, 0>>] = NoJob
    /\ (Raises(t) /\ NoFault) \/ Publishes(t)
    /\ UNCHANGED job

\* Mutant: the reply stays to be read by the next call.
TimesOut_KeepsReply(t) == job[<<t, 0>>] # NoJob /\ Fault /\ Raises(t) /\ UNCHANGED job

\* Not a URLError either: the read of the reply timed out.
TimesOut(t) ==
    /\ job[<<t, 0>>] # NoJob
    /\ Abandons({t})
    /\ Fault
    /\ Raises(t)

\* The deliveries are gone, and their ids; what is unacknowledged is delivered
\* again; what deliverer-service was asked goes on.
Restart ==
    /\ Fault
    /\ deliveries' = [x \in Ids |-> NoDelivery]
    /\ announced' = {}
    /\ pc' = [t \in Threads |-> "idle"]
    /\ on' = [t \in Threads |-> NoOne]
    /\ Abandons(Threads)
    /\ UNCHANGED <<fleet, ready, shared>>

-----------------------------------------------------------------------------
Init ==
    /\ fleet = [d \in Deliverers |-> "none"]
    /\ deliveries = [x \in Ids |-> NoDelivery]
    /\ ready \in {q \in [1 .. Cardinality(Orders) -> Orders] :
                    \A i, j \in DOMAIN q : q[i] = q[j] => i = j}
    /\ pc = [t \in Threads |-> "idle"]
    /\ on = [t \in Threads |-> NoOne]
    /\ job = [h \in Handlers |-> NoJob]
    /\ announced = {}
    /\ faults = 0
    /\ shared = {}

\* What a thread has begun it ends.
Continues(t) ==
    \/ Assigned(t) \/ Released(t) \/ NoReply(t)
    \/ UpdateLocation(t) \/ ConfirmDelivery(t)

Serves(h) == AssignFind(h) \/ AssignSave(h) \/ Release(h)

Consumes == (\E o \in Orders : Assign(Consumer, o)) \/ Ack

Requests(t) ==
    \/ \E o \in Orders : Assign(t, o)
    \/ \E x \in Ids : Tests(t, x, "confirming") \/ Tests(t, x, "moving") \/ FailDelivery(t, x)

Users ==
    \/ \E t \in Clients : Requests(t)
    \/ \E d \in Deliverers : Register(d) \/ \E s \in {"AVAILABLE", "OFFLINE"} : SetAvailability(d, s)

Faults ==
    \/ \E h \in Handlers : CallLost(h)
    \/ \E t \in Threads : TimesOut(t)
    \/ Restart

Next ==
    \/ Users \/ Faults \/ Consumes
    \/ \E t \in Threads : Continues(t)
    \/ \E h \in Handlers : Serves(h)

\* Threads that are running go on running; users and faults need not come.
Fairness ==
    /\ WF_vars(Consumes)
    /\ \A t \in Threads : WF_vars(Continues(t))
    /\ \A h \in Handlers : WF_vars(Serves(h))

Spec == Init /\ [][Next]_vars /\ Fairness

-----------------------------------------------------------------------------
(* Properties *)

\* Besides the types: deliverer-service works for a thread only while it waits.
TypeOK ==
    /\ fleet \in [Deliverers -> DelivererStatus \cup {"none"}]
    /\ deliveries \in [Ids -> [order : Orders \cup {NoOne}, deliverer : Deliverers \cup {NoOne},
                               status : Statuses]]
    /\ ready \in Seq(Orders)
    /\ pc \in [Threads -> PCs]
    /\ on \in [Threads -> Orders \cup Ids \cup {NoOne}]
    /\ job \in [Handlers -> [step : Steps, deliverer : Deliverers \cup {NoOne}]]
    /\ announced \subseteq Ids
    /\ faults \in 0 .. MaxFaults
    /\ shared \subseteq Deliverers
    /\ \A t \in Threads : job[<<t, 0>>] # NoJob => pc[t] \in Calling

\* Something is under way that has deliverer d booked or will release it.
BookedBy(d, h) == job[h].deliverer = d /\ job[h].step \in {"assigned", "release"}

Carries(d, x) == IsActive(x) /\ deliveries[x].deliverer = d

\* A deliverer who carries nothing, and whom nobody is about to book or to
\* release, is not left BUSY: as long as every call is answered, no order of the
\* steps of two requests loses a deliverer.
NoStrandedDeliverer ==
    faults = 0 => \A d \in Deliverers :
        fleet[d] = "BUSY" => (\E x \in Ids : Carries(d, x)) \/ (\E h \in Handlers : BookedBy(d, h))

\* However calls are lost, time out or are made twice, a deliverer carries one
\* delivery at a time, those excepted whom two overlapping requests were given,
\* a request took from a delivery that was over, or a user set available.
BookedOnce ==
    \A d \in Deliverers \ shared :
        /\ \A x, y \in Ids : Carries(d, x) /\ Carries(d, y) => x = y
        /\ \A h \in Handlers : BookedBy(d, h) => \A x \in Ids : ~Carries(d, x)

\* A delivery that is over was announced, or is about to be: otherwise its order
\* stays in delivery for ever.  As long as every call is answered and every
\* publication reaches the broker, no interleaving of confirmations, reports of
\* a position and failures of the same delivery prevents it.
DeliveredIsAnnounced ==
    faults = 0 => \A x \in Ids : deliveries[x].status = "DELIVERED" =>
        x \in announced \/ \E t \in Threads : pc[t] = "confirmed" /\ on[t] = x

InQueue(o) == \E i \in DOMAIN ready : ready[i] = o

HasDelivery(o) == \E x \in Ids : deliveries[x].order = o

\* order.ready leaves its queue only when a delivery of the order was saved.
AckedIsAssigned ==
    [][\A o \in Orders : InQueue(o) /\ ~InQueue(o)' => HasDelivery(o)]_vars

\* An order that is ready gets a delivery once a deliverer stays available,
\* whatever was refused, lost or timed out before.
ReadyIsAssigned ==
    <>[](\E d \in Deliverers : fleet[d] = "AVAILABLE") =>
        \A o \in Orders : InQueue(o) ~> HasDelivery(o)
=============================================================================
