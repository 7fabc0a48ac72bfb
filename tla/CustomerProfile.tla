--------------------------- MODULE CustomerProfile --------------------------
(***************************************************************************)
(* customer-service: its HTTP threads and the consumer of order.created    *)
(* read a customer from MongoDB, change their copy, and replace the whole  *)
(* document.  Nothing is locked and no index is unique: what two threads   *)
(* do in between decides which addresses, orders and email remain.         *)
(* Passwords, tokens, names and phones are left out: they are only copied. *)
(***************************************************************************)
EXTENDS Naturals, Sequences, FiniteSets

CONSTANTS Customers,   \* their ids, of which registration takes a new one
          Stranger,    \* a customerId that is not one: nothing checks that of an order
          Emails, AddressIds, Orders,
          Strays,      \* orders created with such an id, whose messages, which never
                       \* leave the queue, are there from the start
          Clients,     \* HTTP threads
          Consumer,
          Nobody,      \* the customer of an order that is not created yet
          MaxRequests, \* bounds the requests of users
          MaxFaults    \* bounds the restarts and the exceptions of MongoDB

ASSUME NamesAssumption ==
    /\ Consumer \notin Clients
    /\ Stranger \notin Customers /\ Nobody \notin Customers \cup {Stranger}

ASSUME SetsAssumption == Emails # {} /\ Strays \subseteq Orders /\ IsFiniteSet(Strays)

ASSUME BoundsAssumption == MaxRequests \in Nat /\ MaxFaults \in Nat

Threads == Clients \cup {Consumer}

VARIABLES profiles,  \* per id: the document, if it is here
          customerOf, \* per order: the customerId it was created with
          queue,     \* customer.order_history, the unacknowledged message first
          at,        \* per thread: where it is in its request, with its copy
          requests, faults, \* how many so far
          overwritten, \* history: the customers whose document was replaced from
                       \* a copy that was no longer up to date
          raced      \* history: the emails two requests found free at once, or that
                     \* such a replacement brought back

vars == <<profiles, customerOf, queue, at, requests, faults, overwritten, raced>>

-----------------------------------------------------------------------------
\* default holds the addresses whose is_default is set, orders how often each
\* order is in the history.
Profiles == [here : BOOLEAN, email : Emails, addresses : SUBSET AddressIds,
             default : SUBSET AddressIds, orders : [Orders -> Nat]]

NoProfile == [here |-> FALSE, email |-> CHOOSE e \in Emails : TRUE, addresses |-> {},
              default |-> {}, orders |-> [o \in Orders |-> 0]]

Idle == [step |-> "idle", customer |-> Nobody, copy |-> NoProfile, email |-> NoProfile.email]

Works == [step : {"idle", "free", "found", "claimed", "saved"},
          customer : Customers \cup {Nobody}, copy : Profiles, email : Emails]

Goes(t, work) == at' = [at EXCEPT ![t] = work]

Ends(t) == Goes(t, Idle)

IsFree(e) == \A c \in Customers : profiles[c].here => profiles[c].email # e

\* A thread has found that nobody has email e, and is going to save it.
Claims(t, e) == at[t].step \in {"free", "claimed"} /\ at[t].email = e

\* Mutant: find_by_email is not asked.
ClaimsEmail_Unasked(t, e, work) ==
    /\ Goes(t, [work EXCEPT !.email = e])
    /\ UNCHANGED raced

\* find_by_email finds nothing.
ClaimsEmail(t, e, work) ==
    /\ IsFree(e)
    /\ Goes(t, [work EXCEPT !.email = e])
    /\ raced' = IF \E u \in Threads : Claims(u, e) THEN raced \cup {e} ELSE raced

\* save replaces the document by the copy of t, changed.
Saves(t, document) == LET c == at[t].customer IN
    /\ profiles' = [profiles EXCEPT ![c] = document]
    /\ overwritten' = IF at[t].copy = profiles[c] THEN overwritten ELSE overwritten \cup {c}
    /\ raced' = IF at[t].step = "found" /\ document.email # profiles[c].email
                THEN raced \cup {document.email} ELSE raced

Request == requests < MaxRequests /\ requests' = requests + 1

Fault == faults < MaxFaults /\ faults' = faults + 1

-----------------------------------------------------------------------------
(* The requests of users *)

\* register, up to its answer from find_by_email.
Register(t, e) ==
    /\ at[t] = Idle /\ Request
    /\ ClaimsEmail(t, e, [Idle EXCEPT !.step = "free"])
    /\ UNCHANGED <<profiles, customerOf, queue, faults, overwritten>>

\* The first address is the default one.
SaveNew(t, c, addresses) ==
    /\ at[t].step = "free" /\ ~profiles[c].here
    /\ profiles' = [profiles EXCEPT ![c] = [NoProfile EXCEPT !.here = TRUE, !.email = at[t].email,
                                               !.addresses = addresses, !.default = addresses]]
    /\ Ends(t)
    /\ UNCHANGED <<customerOf, queue, requests, faults, overwritten, raced>>

\* get_profile, in every other request.
GetProfile(t, c) ==
    /\ at[t] = Idle /\ Request
    /\ profiles[c].here
    /\ Goes(t, [Idle EXCEPT !.step = "found", !.customer = c, !.copy = profiles[c]])
    /\ UNCHANGED <<profiles, customerOf, queue, faults, overwritten, raced>>

\* update_profile, of an email that is another one than the copy's.
ChangeEmail(t, e) ==
    /\ at[t].step = "found" /\ e # at[t].copy.email
    /\ ClaimsEmail(t, e, [at[t] EXCEPT !.step = "claimed"])
    /\ UNCHANGED <<profiles, customerOf, queue, requests, faults, overwritten>>

\* A request whose copy is changed, and saved, goes on here.
Replaces(t, document) ==
    /\ Saves(t, document)
    /\ Ends(t)
    /\ UNCHANGED <<customerOf, queue, requests, faults>>

\* update_profile, of an email that was free or of what is left out here.
UpdateProfile(t) ==
    \/ at[t].step = "found" /\ Replaces(t, at[t].copy)
    \/ at[t].step = "claimed" /\ Replaces(t, [at[t].copy EXCEPT !.email = at[t].email])

AddAddress(t, a, isDefault) == LET p == at[t].copy IN
    /\ at[t].step = "found" /\ a \notin p.addresses
    /\ Replaces(t, [p EXCEPT !.addresses = @ \cup {a},
                             !.default = IF isDefault \/ p.addresses = {} THEN {a} ELSE @])

\* With is_default; without, it changes what is left out here.
UpdateAddress(t, a) ==
    /\ at[t].step = "found" /\ a \in at[t].copy.addresses
    /\ Replaces(t, [at[t].copy EXCEPT !.default = {a}])

\* Mutant: no other address becomes the default.
DeleteAddress_NoDefault(t, a) ==
    /\ at[t].step = "found" /\ a \in at[t].copy.addresses
    /\ Replaces(t, [at[t].copy EXCEPT !.addresses = @ \ {a}, !.default = @ \ {a}])

\* The first of those that remain becomes the default; which one that is does
\* not matter here.
DeleteAddress(t, a) ==
    LET p == at[t].copy
        rest == p.addresses \ {a} IN
    /\ at[t].step = "found" /\ a \in p.addresses
    /\ IF a \in p.default /\ rest # {}
       THEN \E b \in rest :
                Replaces(t, [p EXCEPT !.addresses = rest, !.default = (@ \ {a}) \cup {b}])
       ELSE Replaces(t, [p EXCEPT !.addresses = rest, !.default = @ \ {a}])

\* EmailAlreadyExists, or ADDRESS_NOT_FOUND.
Refuse(t) ==
    /\ at[t].step = "found"
    /\ Ends(t)
    /\ UNCHANGED <<profiles, customerOf, queue, requests, faults, overwritten, raced>>

-----------------------------------------------------------------------------
(* on_order_created *)

\* order-service publishes order.created.
PublishOrder(o, c) ==
    /\ customerOf[o] = Nobody
    /\ profiles[c].here
    /\ customerOf' = [customerOf EXCEPT ![o] = c]
    /\ queue' = Append(queue, o)
    /\ UNCHANGED <<profiles, at, requests, faults, overwritten, raced>>

\* Mutant: the message is dropped; it is queued again in front.
Requeues_Never == queue' = Tail(queue)
Requeues_InFront == UNCHANGED queue

\* An exception: the message is queued again, behind those that the consumer has
\* already been sent.
Requeues == queue' = Append(Tail(queue), Head(queue))

\* Mutant: CustomerNotFound is not raised.
FindCustomer_OrNone ==
    /\ at[Consumer] = Idle /\ queue # <<>>
    /\ Goes(Consumer, [Idle EXCEPT !.step = "found", !.customer = customerOf[Head(queue)]])
    /\ UNCHANGED <<profiles, customerOf, queue, requests, faults, overwritten, raced>>

\* add_order_ref, up to the reply of find_by_id: CustomerNotFound is raised.
FindCustomer ==
    /\ at[Consumer] = Idle /\ queue # <<>>
    /\ LET c == customerOf[Head(queue)] IN
       IF c \in Customers /\ profiles[c].here
       THEN /\ Goes(Consumer, [Idle EXCEPT !.step = "found", !.customer = c, !.copy = profiles[c]])
            /\ UNCHANGED queue
       ELSE Requeues /\ UNCHANGED at
    /\ UNCHANGED <<profiles, customerOf, requests, faults, overwritten, raced>>

WithRef(p, o) == [p EXCEPT !.orders[o] = @ + 1]

AddOrderRef ==
    /\ at[Consumer].step = "found"
    /\ Saves(Consumer, WithRef(at[Consumer].copy, Head(queue)))
    /\ Goes(Consumer, [Idle EXCEPT !.step = "saved"])
    /\ UNCHANGED <<customerOf, queue, requests, faults>>

\* Mutant: the message is queued again after all.
Ack_Requeues ==
    /\ at[Consumer].step = "saved"
    /\ Requeues
    /\ Ends(Consumer)
    /\ UNCHANGED <<profiles, customerOf, requests, faults, overwritten, raced>>

Ack ==
    /\ at[Consumer].step = "saved"
    /\ queue' = Tail(queue)
    /\ Ends(Consumer)
    /\ UNCHANGED <<profiles, customerOf, requests, faults, overwritten, raced>>

-----------------------------------------------------------------------------
\* MongoDB raises; what it was asked to save it may have saved.
MongoRaises(t) ==
    /\ at[t] # Idle /\ Fault
    /\ IF t = Consumer THEN Requeues ELSE UNCHANGED queue
    /\ Ends(t)
    /\ UNCHANGED <<profiles, customerOf, requests, overwritten, raced>>

\* The documents stay; the message that was not acknowledged is delivered again.
Restart ==
    /\ Fault
    /\ at' = [t \in Threads |-> Idle]
    /\ UNCHANGED <<profiles, customerOf, queue, requests, overwritten, raced>>

Init ==
    /\ profiles = [c \in Customers |-> NoProfile]
    /\ customerOf = [o \in Orders |-> IF o \in Strays THEN Stranger ELSE Nobody]
    /\ queue \in {q \in [1 .. Cardinality(Strays) -> Strays] :
                    \A i, j \in DOMAIN q : q[i] = q[j] => i = j}
    /\ at = [t \in Threads |-> Idle]
    /\ requests = 0 /\ faults = 0
    /\ overwritten = {} /\ raced = {}

Requests(t) ==
    \/ \E e \in Emails : Register(t, e) \/ ChangeEmail(t, e)
    \/ \E c \in Customers : GetProfile(t, c)
    \/ \E c \in Customers, a \in AddressIds : \E addresses \in {{}, {a}} : SaveNew(t, c, addresses)
    \/ \E a \in AddressIds, isDefault \in BOOLEAN : AddAddress(t, a, isDefault)
    \/ \E a \in AddressIds : UpdateAddress(t, a) \/ DeleteAddress(t, a)
    \/ UpdateProfile(t) \/ Refuse(t)

Consumes == FindCustomer \/ AddOrderRef \/ Ack

Next ==
    \/ \E t \in Clients : Requests(t)
    \/ \E o \in Orders, c \in Customers : PublishOrder(o, c)
    \/ Consumes
    \/ \E t \in Threads : MongoRaises(t)
    \/ Restart

\* The consumer thread takes the messages there are.
Spec == Init /\ [][Next]_vars /\ WF_vars(Consumes)

-----------------------------------------------------------------------------
(* Properties *)

\* Besides the types: the consumer works on the message at the head of the queue.
TypeOK ==
    /\ profiles \in [Customers -> Profiles]
    /\ customerOf \in [Orders -> Customers \cup {Stranger, Nobody}]
    /\ queue \in Seq(Orders)
    /\ at \in [Threads -> Works]
    /\ \A t \in Threads : at[t].step \in {"found", "claimed"} => at[t].customer \in Customers
    /\ at[Consumer] # Idle => queue # <<>>
    /\ requests \in 0 .. MaxRequests /\ faults \in 0 .. MaxFaults
    /\ overwritten \subseteq Customers
    /\ raced \subseteq Emails

\* However replacements overwrite each other, a customer with an address has one
\* default address, which is one of his.
OneDefaultAddress ==
    \A c \in Customers : profiles[c].addresses # {} =>
        \E a \in profiles[c].addresses : profiles[c].default = {a}

\* Two customers have the same email only if two requests found it free at once,
\* or a replacement brought it back after it was given up.
EmailsAreUnique ==
    \A c, d \in Customers :
        profiles[c].here /\ profiles[d].here /\ profiles[c].email = profiles[d].email =>
            c = d \/ profiles[c].email \in raced

InQueue(o) == \E i \in DOMAIN queue : queue[i] = o

\* No message_id is looked at: an order is in the history of its customer once more
\* for each time it was delivered again, but never more often, and in nobody else's.
RefsAreRedeliveries ==
    \A c \in Customers, o \in Orders :
        profiles[c].orders[o] <= IF customerOf[o] = c THEN 1 + faults ELSE 0

\* An order that is acknowledged is in the history of its customer, unless a copy
\* made before replaced the document after: then it is missing for good.
HistoryIsComplete ==
    \A o \in Orders : customerOf[o] \in Customers \ overwritten =>
        InQueue(o) \/ profiles[customerOf[o]].orders[o] > 0

\* The order of a customer is recorded, although a message nobody can process is
\* taken again and again.
OrdersAreRecorded ==
    \A o \in Orders, c \in Customers :
        customerOf[o] = c ~> profiles[c].orders[o] > 0 \/ c \in overwritten
-----------------------------------------------------------------------------
(* What the documentation says and the code does not do. *)

\* documentation/06-coherence-saga.md:62: each participant drops the messages it has
\* already processed.  A history then lists an order once.
OrdersAreListedOnce == \A c \in Customers, o \in Orders : profiles[c].orders[o] <= 1
=============================================================================
