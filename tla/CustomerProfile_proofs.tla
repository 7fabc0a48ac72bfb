----------------------- MODULE CustomerProfile_proofs -----------------------
(***************************************************************************)
(* What holds of customer-service for any number of customers, threads,    *)
(* requests and faults: TypeOK, one default address, unique emails, and    *)
(* what the history of orders holds.                                       *)
(***************************************************************************)
EXTENDS CustomerProfile, FiniteSetTheorems, TLAPS

LEMMA NoProfileType == NoProfile \in Profiles
<1>1. (CHOOSE e \in Emails : TRUE) \in Emails
  BY SetsAssumption
<1> QED
  BY <1>1 DEF NoProfile, Profiles

LEMMA IdleType == Idle \in Works /\ Idle.step = "idle" /\ Idle.copy = NoProfile
BY NoProfileType DEF Idle, Works, Profiles

\* A customer with an address has one default address, which is one of his.
Good(p) == p.addresses # {} => \E a \in p.addresses : p.default = {a}

\* What a client saves: a document that differs from its copy in no more than the
\* addresses and, if it was claimed, the email, and is as good.
Changed(t, d) == LET p == at[t].copy IN
    /\ at[t].step \in {"found", "claimed"}
    /\ d \in Profiles
    /\ d.here = p.here /\ d.orders = p.orders
    /\ d.email = IF at[t].step = "claimed" THEN at[t].email ELSE p.email
    /\ Good(p) => Good(d)

LEMMA UpdateProfileChanges ==
    ASSUME TypeOK, NEW t \in Clients, UpdateProfile(t)
    PROVE  \E d : Changed(t, d) /\ Replaces(t, d)
<1>1. at[t].copy \in Profiles /\ at[t].email \in Emails
  BY DEF TypeOK, Threads, Works
<1>2. CASE at[t].step = "found" /\ Replaces(t, at[t].copy)
  BY <1>1, <1>2 DEF Changed
<1>3. CASE at[t].step = "claimed" /\ Replaces(t, [at[t].copy EXCEPT !.email = at[t].email])
  <2> DEFINE d == [at[t].copy EXCEPT !.email = at[t].email]
  <2>1. Changed(t, d)
    BY <1>1, <1>3 DEF Changed, Profiles, Good
  <2> QED
    BY <1>3, <2>1
<1> QED
  BY <1>2, <1>3 DEF UpdateProfile

LEMMA AddAddressChanges ==
    ASSUME TypeOK, NEW t \in Clients, NEW a \in AddressIds, NEW isDefault \in BOOLEAN,
           AddAddress(t, a, isDefault)
    PROVE  \E d : Changed(t, d) /\ Replaces(t, d)
<1> DEFINE p == at[t].copy
           default == IF isDefault \/ p.addresses = {} THEN {a} ELSE p.default
           d == [p EXCEPT !.addresses = p.addresses \cup {a}, !.default = default]
<1>1. p \in Profiles /\ at[t].step = "found" /\ Replaces(t, d)
  BY DEF TypeOK, Threads, Works, AddAddress
<1>2. default = {a} \/ (default = p.default /\ p.addresses # {})
  OBVIOUS
<1>3. p.addresses \subseteq AddressIds /\ p.default \subseteq AddressIds
  BY <1>1 DEF Profiles
<1>4. default \subseteq AddressIds
  BY <1>2, <1>3
<1> HIDE DEF default
<1>5. /\ d.addresses = p.addresses \cup {a} /\ d.default = default
      /\ d \in Profiles /\ d.here = p.here /\ d.orders = p.orders /\ d.email = p.email
  BY <1>1, <1>3, <1>4 DEF Profiles
<1> HIDE DEF d
<1>6. Good(p) => Good(d)
  BY <1>2, <1>5 DEF Good
<1> QED
  BY <1>1, <1>5, <1>6 DEF Changed

LEMMA UpdateAddressChanges ==
    ASSUME TypeOK, NEW t \in Clients, NEW a \in AddressIds, UpdateAddress(t, a)
    PROVE  \E d : Changed(t, d) /\ Replaces(t, d)
<1> DEFINE p == at[t].copy
           d == [p EXCEPT !.default = {a}]
<1>1. p \in Profiles /\ at[t].step = "found" /\ a \in p.addresses /\ Replaces(t, d)
  BY DEF TypeOK, Threads, Works, UpdateAddress
<1>2. /\ d.addresses = p.addresses /\ d.default = {a}
      /\ d \in Profiles /\ d.here = p.here /\ d.orders = p.orders /\ d.email = p.email
  BY <1>1 DEF Profiles
<1> HIDE DEF d
<1> QED
  BY <1>1, <1>2 DEF Changed, Good

LEMMA DeleteAddressChanges ==
    ASSUME TypeOK, NEW t \in Clients, NEW a \in AddressIds, DeleteAddress(t, a)
    PROVE  \E d : Changed(t, d) /\ Replaces(t, d)
<1> DEFINE p == at[t].copy
           rest == p.addresses \ {a}
           d(default) == [p EXCEPT !.addresses = rest, !.default = default]
<1>1. /\ p \in Profiles /\ at[t].step = "found" /\ a \in p.addresses
      /\ p.addresses \subseteq AddressIds /\ p.default \subseteq AddressIds
  BY DEF TypeOK, Threads, Works, DeleteAddress, Profiles
<1>2. \E default \in SUBSET AddressIds :
          /\ Replaces(t, d(default))
          /\ \/ a \in p.default /\ rest # {} /\ \E b \in rest : default = (p.default \ {a}) \cup {b}
             \/ ~(a \in p.default /\ rest # {}) /\ default = p.default \ {a}
  <2>1. CASE a \in p.default /\ rest # {}
    <3>1. PICK b \in rest : Replaces(t, d((p.default \ {a}) \cup {b}))
      BY <2>1 DEF DeleteAddress
    <3>2. (p.default \ {a}) \cup {b} \in SUBSET AddressIds
      BY <1>1
    <3> QED
      BY <2>1, <3>1, <3>2
  <2>2. CASE ~(a \in p.default /\ rest # {})
    <3>1. Replaces(t, d(p.default \ {a}))
      BY <2>2 DEF DeleteAddress
    <3>2. p.default \ {a} \in SUBSET AddressIds
      BY <1>1
    <3> QED
      BY <2>2, <3>1, <3>2
  <2> QED
    BY <2>1, <2>2
<1>3. PICK default \in SUBSET AddressIds :
          /\ Replaces(t, d(default))
          /\ \/ a \in p.default /\ rest # {} /\ \E b \in rest : default = (p.default \ {a}) \cup {b}
             \/ ~(a \in p.default /\ rest # {}) /\ default = p.default \ {a}
  BY <1>2
<1>4. /\ d(default).addresses = rest /\ d(default).default = default
      /\ d(default) \in Profiles /\ d(default).here = p.here
      /\ d(default).orders = p.orders /\ d(default).email = p.email
  BY <1>1 DEF Profiles
<1>5. ASSUME Good(p) PROVE Good(d(default))
  <2>1. PICK b \in p.addresses : p.default = {b}
    BY <1>1, <1>5 DEF Good
  <2>2. CASE a = b
    BY <1>3, <1>4, <2>1, <2>2 DEF Good
  <2>3. CASE a # b
    BY <1>3, <1>4, <2>1, <2>3 DEF Good
  <2> QED
    BY <2>2, <2>3
<1> QED
  BY <1>1, <1>3, <1>4, <1>5 DEF Changed

\* The requests and messages, with the four ways of saving a copy as one.
LEMMA Steps ==
    ASSUME TypeOK, [Next]_vars
    PROVE  \/ \E t \in Clients, e \in Emails : Register(t, e) \/ ChangeEmail(t, e)
           \/ \E t \in Clients, c \in Customers : GetProfile(t, c)
           \/ \E t \in Clients, c \in Customers, a \in AddressIds :
                  SaveNew(t, c, {}) \/ SaveNew(t, c, {a})
           \/ \E t \in Clients, d \in Profiles : Changed(t, d) /\ Replaces(t, d)
           \/ \E t \in Clients : Refuse(t)
           \/ \E o \in Orders, c \in Customers : PublishOrder(o, c)
           \/ FindCustomer \/ AddOrderRef \/ Ack
           \/ \E t \in Threads : MongoRaises(t)
           \/ Restart
           \/ UNCHANGED vars
<1>1. ASSUME NEW t \in Clients,
             \/ UpdateProfile(t)
             \/ \E a \in AddressIds, isDefault \in BOOLEAN : AddAddress(t, a, isDefault)
             \/ \E a \in AddressIds : UpdateAddress(t, a) \/ DeleteAddress(t, a)
      PROVE  \E d \in Profiles : Changed(t, d) /\ Replaces(t, d)
  <2>1. \E d : Changed(t, d) /\ Replaces(t, d)
    BY <1>1, UpdateProfileChanges, AddAddressChanges, UpdateAddressChanges, DeleteAddressChanges
  <2> QED
    BY <2>1 DEF Changed
<1>2. CASE \E t \in Clients : Requests(t)
  <2>1. PICK t \in Clients : Requests(t)
    BY <1>2
  <2> QED
    BY <1>1, <2>1 DEF Requests
<1>3. CASE Next /\ ~\E t \in Clients : Requests(t)
  BY <1>3 DEF Next, Consumes
<1> QED
  BY <1>2, <1>3
-----------------------------------------------------------------------------
(* TypeOK *)

LEMMA WithRefType ==
    ASSUME NEW p \in Profiles, NEW o \in Orders
    PROVE  /\ WithRef(p, o) \in Profiles
           /\ WithRef(p, o).here = p.here /\ WithRef(p, o).email = p.email
           /\ WithRef(p, o).addresses = p.addresses /\ WithRef(p, o).default = p.default
           /\ WithRef(p, o).orders = [p.orders EXCEPT ![o] = p.orders[o] + 1]
<1> DEFINE q == [p.orders EXCEPT ![o] = p.orders[o] + 1]
<1>1. q \in [Orders -> Nat]
  BY DEF Profiles
<1>2. WithRef(p, o) = [p EXCEPT !.orders = q]
  BY DEF WithRef
<1> HIDE DEF q
<1>3. /\ WithRef(p, o) \in Profiles /\ WithRef(p, o).orders = q
      /\ WithRef(p, o).here = p.here /\ WithRef(p, o).email = p.email
      /\ WithRef(p, o).addresses = p.addresses /\ WithRef(p, o).default = p.default
  BY <1>1, <1>2 DEF Profiles
<1> QED
  BY <1>3 DEF q

LEMMA RequeuesType ==
    ASSUME queue \in Seq(Orders), queue # <<>>, Requeues
    PROVE  queue' \in Seq(Orders) /\ queue' # <<>>
BY DEF Requeues

LEMMA InitType == Init => TypeOK
<1> SUFFICES ASSUME Init PROVE TypeOK
  OBVIOUS
<1>1. queue \in Seq(Orders)
  <2>1. Cardinality(Strays) \in Nat
    BY SetsAssumption, FS_CardinalityType
  <2>2. queue \in [1 .. Cardinality(Strays) -> Strays]
    BY Zenon DEF Init
  <2> QED
    BY <2>1, <2>2, SetsAssumption
<1>2. \A t \in Threads : at[t] = Idle
  BY DEF Init
<1>3. customerOf \in [Orders -> Customers \cup {Stranger, Nobody}]
  BY DEF Init
<1>4. profiles \in [Customers -> Profiles] /\ at \in [Threads -> Works]
  BY NoProfileType, IdleType DEF Init
<1> QED
  BY <1>1, <1>2, <1>3, <1>4, IdleType, BoundsAssumption DEF Init, TypeOK, Threads

\* A thread of Works goes on with a work of Works.
LEMMA GoesType ==
    ASSUME TypeOK, NEW t \in Threads, NEW w \in Works, Goes(t, w),
           w.step \in {"found", "claimed"} => w.customer \in Customers,
           queue' \in Seq(Orders),
           IF t = Consumer THEN w # Idle => queue' # <<>> ELSE queue # <<>> => queue' # <<>>
    PROVE  /\ at' \in [Threads -> Works]
           /\ \A u \in Threads : at'[u].step \in {"found", "claimed"} => at'[u].customer \in Customers
           /\ at'[Consumer] # Idle => queue' # <<>>
BY DEF TypeOK, Goes, Threads

LEMMA NextType == TypeOK /\ [Next]_vars => TypeOK'
<1> SUFFICES ASSUME TypeOK, [Next]_vars PROVE TypeOK'
  OBVIOUS
<1> USE DEF TypeOK
<1>c. Clients \subseteq Threads /\ Consumer \in Threads /\ \A t \in Clients : t # Consumer
  BY NamesAssumption DEF Threads
<1>1. ASSUME NEW t \in Clients, NEW e \in Emails, Register(t, e) PROVE TypeOK'
  <2> DEFINE w == [Idle EXCEPT !.step = "free", !.email = e]
  <2>1. w \in Works /\ w.step = "free"
    BY IdleType DEF Works
  <2>2. Goes(t, w) /\ raced' \subseteq Emails
    <3>1. ClaimsEmail(t, e, [Idle EXCEPT !.step = "free"])
      BY <1>1 DEF Register
    <3> QED
      BY <3>1, IdleType DEF ClaimsEmail, Works
  <2> HIDE DEF w
  <2> QED
    BY <1>1, <1>c, <2>1, <2>2, GoesType, BoundsAssumption DEF Register, Request
<1>2. ASSUME NEW t \in Clients, NEW e \in Emails, ChangeEmail(t, e) PROVE TypeOK'
  <2> DEFINE w == [at[t] EXCEPT !.step = "claimed", !.email = e]
  <2>1. w \in Works /\ at[t].step = "found" /\ w.customer = at[t].customer
    BY <1>2, <1>c DEF ChangeEmail, Works
  <2>2. Goes(t, w) /\ raced' \subseteq Emails
    BY <1>2, <1>c DEF ChangeEmail, ClaimsEmail
  <2> HIDE DEF w
  <2> QED
    BY <1>2, <1>c, <2>1, <2>2, GoesType DEF ChangeEmail
<1>3. ASSUME NEW t \in Clients, NEW c \in Customers, GetProfile(t, c) PROVE TypeOK'
  <2> DEFINE w == [Idle EXCEPT !.step = "found", !.customer = c, !.copy = profiles[c]]
  <2>1. w \in Works /\ w.customer = c
    BY IdleType DEF Works
  <2>2. Goes(t, w)
    BY <1>3 DEF GetProfile
  <2> HIDE DEF w
  <2> QED
    BY <1>3, <1>c, <2>1, <2>2, GoesType, BoundsAssumption DEF GetProfile, Request
<1>4. ASSUME NEW t \in Clients, NEW c \in Customers, NEW s \in SUBSET AddressIds, SaveNew(t, c, s)
      PROVE  TypeOK'
  <2>1. [NoProfile EXCEPT !.here = TRUE, !.email = at[t].email, !.addresses = s, !.default = s]
            \in Profiles
    BY <1>c, NoProfileType DEF Profiles, Works
  <2>2. profiles' \in [Customers -> Profiles]
    BY <1>4, <2>1 DEF SaveNew
  <2> QED
    BY <1>4, <1>c, <2>2, IdleType, GoesType DEF SaveNew, Ends
<1>5. ASSUME NEW t \in Clients, NEW d \in Profiles, Changed(t, d), Replaces(t, d) PROVE TypeOK'
  <2>1. profiles' \in [Customers -> Profiles] /\ overwritten' \subseteq Customers
    BY <1>5, <1>c DEF Replaces, Saves, Changed
  <2>2. raced' \subseteq Emails
    BY <1>5 DEF Replaces, Saves, Profiles
  <2> QED
    BY <1>5, <1>c, <2>1, <2>2, IdleType, GoesType DEF Replaces, Ends
<1>6. ASSUME NEW t \in Clients, Refuse(t) PROVE TypeOK'
  BY <1>6, <1>c, IdleType, GoesType DEF Refuse, Ends
<1>7. ASSUME NEW o \in Orders, NEW c \in Customers, PublishOrder(o, c) PROVE TypeOK'
  <2>1. queue' \in Seq(Orders) /\ queue' # <<>>
    BY <1>7 DEF PublishOrder
  <2> QED
    BY <1>7, <2>1 DEF PublishOrder
<1>8. ASSUME FindCustomer PROVE TypeOK'
  <2> DEFINE c == customerOf[Head(queue)]
             w == [Idle EXCEPT !.step = "found", !.customer = c, !.copy = profiles[c]]
  <2>1. CASE c \in Customers /\ profiles[c].here
    <3>1. w \in Works /\ w.customer = c /\ Goes(Consumer, w)
      BY <1>8, <2>1, IdleType DEF Works, FindCustomer
    <3> HIDE DEF w
    <3> QED
      BY <1>8, <1>c, <2>1, <3>1, GoesType DEF FindCustomer
  <2>2. CASE ~(c \in Customers /\ profiles[c].here)
    BY <1>8, <2>2, RequeuesType DEF FindCustomer
  <2> QED
    BY <2>1, <2>2
<1>9. ASSUME AddOrderRef PROVE TypeOK'
  <2> DEFINE p == at[Consumer].copy
             d == WithRef(p, Head(queue))
  <2>1. queue # <<>> /\ at[Consumer].customer \in Customers /\ p \in Profiles
    BY <1>9, <1>c, IdleType DEF AddOrderRef, Works
  <2>2. Head(queue) \in Orders
    BY <2>1
  <2>3. d \in Profiles
    BY <2>1, <2>2, WithRefType
  <2>4. Saves(Consumer, d)
    BY <1>9 DEF AddOrderRef
  <2> HIDE DEF d
  <2>5. profiles' \in [Customers -> Profiles] /\ overwritten' \subseteq Customers /\ raced' \subseteq Emails
    BY <2>1, <2>3, <2>4 DEF Saves, Profiles
  <2>6. [Idle EXCEPT !.step = "saved"] \in Works /\ [Idle EXCEPT !.step = "saved"].step = "saved"
    BY IdleType DEF Works
  <2> QED
    BY <1>9, <1>c, <2>1, <2>5, <2>6, GoesType DEF AddOrderRef
<1>10. ASSUME Ack PROVE TypeOK'
  <2>1. queue # <<>>
    BY <1>10, <1>c, IdleType DEF Ack
  <2> QED
    BY <1>10, <1>c, <2>1, IdleType, GoesType DEF Ack, Ends
<1>11. ASSUME NEW t \in Threads, MongoRaises(t) PROVE TypeOK'
  <2>1. queue' \in Seq(Orders) /\ (queue # <<>> => queue' # <<>>)
    BY <1>11, RequeuesType DEF MongoRaises
  <2> QED
    BY <1>11, <2>1, IdleType, GoesType, BoundsAssumption DEF MongoRaises, Ends, Fault
<1>12. ASSUME Restart PROVE TypeOK'
  BY <1>12, <1>c, IdleType, BoundsAssumption DEF Restart, Fault
<1>13. CASE UNCHANGED vars
  BY <1>13 DEF vars
<1> QED
  BY <1>1, <1>2, <1>3, <1>4, <1>5, <1>6, <1>7, <1>8, <1>9, <1>10, <1>11, <1>12, <1>13, Steps

\* TypeOK: whatever requests, messages, exceptions and restarts come.
THEOREM TypeCorrect == Spec => []TypeOK
BY InitType, NextType, PTL DEF Spec
\* register and an update of the email: t has found that nobody has email e.
LEMMA ClaimSteps ==
    ASSUME TypeOK, NEW t \in Clients, NEW e \in Emails, Register(t, e) \/ ChangeEmail(t, e)
    PROVE  /\ \E w \in Works :
                  /\ Goes(t, w) /\ w.email = e
                  /\ \/ w.step = "free" /\ w.copy = NoProfile
                     \/ /\ w.step = "claimed" /\ at[t].step = "found"
                        /\ w.copy = at[t].copy /\ w.customer = at[t].customer
           /\ IsFree(e)
           /\ raced' = IF \E u \in Threads : Claims(u, e) THEN raced \cup {e} ELSE raced
           /\ UNCHANGED <<profiles, customerOf, queue, faults, overwritten>>
<1>1. CASE Register(t, e)
  <2> DEFINE w == [Idle EXCEPT !.step = "free", !.email = e]
  <2>1. w \in Works /\ w.email = e /\ w.step = "free" /\ w.copy = NoProfile
    BY IdleType DEF Works
  <2>2. ClaimsEmail(t, e, [Idle EXCEPT !.step = "free"])
    BY <1>1 DEF Register
  <2>3. Goes(t, w)
    BY <2>2, IdleType DEF ClaimsEmail, Works
  <2> HIDE DEF w
  <2> QED
    BY <1>1, <2>1, <2>2, <2>3 DEF Register, ClaimsEmail
<1>2. CASE ChangeEmail(t, e)
  <2> DEFINE w == [at[t] EXCEPT !.step = "claimed", !.email = e]
  <2>1. at[t] \in Works /\ at[t].step = "found"
    BY <1>2 DEF TypeOK, Threads, ChangeEmail
  <2>2. /\ w \in Works /\ w.email = e /\ w.step = "claimed"
        /\ w.copy = at[t].copy /\ w.customer = at[t].customer
    BY <2>1 DEF Works
  <2>3. ClaimsEmail(t, e, [at[t] EXCEPT !.step = "claimed"])
    BY <1>2 DEF ChangeEmail
  <2>4. Goes(t, w)
    BY <2>1, <2>3 DEF ClaimsEmail, Works
  <2> HIDE DEF w
  <2> QED
    BY <1>2, <2>1, <2>2, <2>3, <2>4 DEF ChangeEmail, ClaimsEmail
<1> QED
  BY <1>1, <1>2

-----------------------------------------------------------------------------
(* OneDefaultAddress: every document, and every copy, is good. *)

AllGood == (\A c \in Customers : Good(profiles[c])) /\ (\A t \in Threads : Good(at[t].copy))

LEMMA IdleGood == Good(NoProfile)
BY DEF Good, NoProfile

\* A thread goes on with a good copy.
LEMMA GoesGood ==
    ASSUME TypeOK, AllGood, NEW t \in Threads, NEW w, Goes(t, w), Good(w.copy)
    PROVE  \A u \in Threads : Good(at'[u].copy)
BY DEF TypeOK, AllGood, Goes

LEMMA InitGood == Init => AllGood
BY IdleGood, IdleType DEF Init, AllGood

LEMMA NextGood == TypeOK /\ AllGood /\ [Next]_vars => AllGood'
<1> SUFFICES ASSUME TypeOK, AllGood, [Next]_vars PROVE AllGood'
  OBVIOUS
<1>c. Clients \subseteq Threads /\ Consumer \in Threads
  BY DEF Threads
<1>i. Good(Idle.copy)
  BY IdleGood, IdleType
<1>1. ASSUME NEW t \in Clients, NEW e \in Emails, Register(t, e) \/ ChangeEmail(t, e) PROVE AllGood'
  <2>1. PICK w \in Works : Goes(t, w) /\ (w.copy = NoProfile \/ w.copy = at[t].copy)
    BY <1>1, ClaimSteps
  <2>2. Good(w.copy) /\ profiles' = profiles
    BY <1>1, <1>c, <2>1, IdleGood, ClaimSteps DEF AllGood
  <2> QED
    BY <1>c, <2>1, <2>2, GoesGood DEF AllGood
<1>2. ASSUME NEW t \in Clients, NEW c \in Customers, GetProfile(t, c) PROVE AllGood'
  <2>1. [Idle EXCEPT !.step = "found", !.customer = c, !.copy = profiles[c]].copy = profiles[c]
    BY IdleType DEF Works
  <2> QED
    BY <1>2, <1>c, <2>1, GoesGood DEF GetProfile, AllGood
<1>3. ASSUME NEW t \in Clients, NEW c \in Customers, NEW s \in SUBSET AddressIds,
             SaveNew(t, c, s), s = {} \/ \E a : s = {a}
      PROVE  AllGood'
  <2> DEFINE d == [NoProfile EXCEPT !.here = TRUE, !.email = at[t].email, !.addresses = s, !.default = s]
  <2>1. d.addresses = s /\ d.default = s
    BY NoProfileType DEF Profiles
  <2>2. profiles' = [profiles EXCEPT ![c] = d]
    BY <1>3 DEF SaveNew
  <2> HIDE DEF d
  <2>3. Good(d)
    BY <1>3, <2>1 DEF Good
  <2>4. \A b \in Customers : Good(profiles'[b])
    BY <2>2, <2>3 DEF AllGood, TypeOK
  <2> QED
    BY <1>3, <1>c, <1>i, <2>4, GoesGood DEF SaveNew, Ends, AllGood
<1>4. ASSUME NEW t \in Clients, NEW d \in Profiles, Changed(t, d), Replaces(t, d) PROVE AllGood'
  <2>1. Good(d)
    BY <1>4, <1>c DEF Changed, AllGood
  <2>2. \A b \in Customers : Good(profiles'[b])
    BY <1>4, <2>1 DEF Replaces, Saves, AllGood, TypeOK
  <2> QED
    BY <1>4, <1>c, <1>i, <2>2, GoesGood DEF Replaces, Ends, AllGood
<1>5. ASSUME NEW t \in Clients, Refuse(t) PROVE AllGood'
  BY <1>5, <1>c, <1>i, GoesGood DEF Refuse, Ends, AllGood
<1>6. ASSUME NEW o \in Orders, NEW c \in Customers, PublishOrder(o, c) PROVE AllGood'
  BY <1>6 DEF PublishOrder, AllGood
<1>7. ASSUME FindCustomer PROVE AllGood'
  <2> DEFINE c == customerOf[Head(queue)]
             w == [Idle EXCEPT !.step = "found", !.customer = c, !.copy = profiles[c]]
  <2>1. w.copy = profiles[c]
    BY IdleType DEF Works
  <2>2. CASE c \in Customers /\ profiles[c].here
    <3>1. Goes(Consumer, w)
      BY <1>7, <2>2 DEF FindCustomer
    <3> HIDE DEF w
    <3> QED
      BY <1>7, <1>c, <2>1, <2>2, <3>1, GoesGood DEF FindCustomer, AllGood
  <2>3. CASE ~(c \in Customers /\ profiles[c].here)
    BY <1>7, <2>3 DEF FindCustomer, AllGood
  <2> QED
    BY <2>2, <2>3
<1>8. ASSUME AddOrderRef PROVE AllGood'
  <2> DEFINE d == WithRef(at[Consumer].copy, Head(queue))
  <2>1. queue # <<>> /\ at[Consumer].copy \in Profiles
    BY <1>8, <1>c, IdleType DEF AddOrderRef, Works, TypeOK
  <2>2. Head(queue) \in Orders
    BY <2>1 DEF TypeOK
  <2>3. Good(d)
    <3>1. d.addresses = at[Consumer].copy.addresses /\ d.default = at[Consumer].copy.default
      BY <2>1, <2>2, WithRefType
    <3>2. Good(at[Consumer].copy)
      BY <1>c DEF AllGood
    <3> HIDE DEF d
    <3> QED
      BY <3>1, <3>2 DEF Good
  <2>4. profiles' = [profiles EXCEPT ![at[Consumer].customer] = d]
    BY <1>8 DEF AddOrderRef, Saves
  <2> HIDE DEF d
  <2>5. \A b \in Customers : Good(profiles'[b])
    BY <2>3, <2>4 DEF AllGood, TypeOK
  <2>6. [Idle EXCEPT !.step = "saved"].copy = Idle.copy
    BY IdleType DEF Works
  <2> QED
    BY <1>8, <1>c, <1>i, <2>5, <2>6, GoesGood DEF AddOrderRef, AllGood
<1>9. ASSUME NEW t \in Threads, (Ack /\ t = Consumer) \/ MongoRaises(t) PROVE AllGood'
  BY <1>9, <1>i, GoesGood DEF Ack, MongoRaises, Ends, AllGood
<1>10. ASSUME Restart PROVE AllGood'
  BY <1>10, <1>i DEF Restart, AllGood
<1>11. CASE UNCHANGED vars
  BY <1>11 DEF vars, AllGood
<1> QED
  BY <1>c, <1>1, <1>2, <1>3, <1>4, <1>5, <1>6, <1>7, <1>8, <1>9, <1>10, <1>11, Steps

\* OneDefaultAddress: a lost update loses a whole document, never half of one.
THEOREM DefaultsAreKept == Spec => []OneDefaultAddress
<1>1. AllGood => OneDefaultAddress
  BY DEF AllGood, Good, OneDefaultAddress
<1> QED
  BY <1>1, InitType, NextType, InitGood, NextGood, PTL DEF Spec
-----------------------------------------------------------------------------
(* EmailsAreUnique *)

\* Who is known stays known: a thread that has a copy of a document has it from
\* one that is there, and so does an order its customer.
AllHere ==
    /\ \A t \in Threads : at[t].step \in {"found", "claimed"} =>
           profiles[at[t].customer].here /\ at[t].copy.here
    /\ \A o \in Orders : customerOf[o] \in Customers => profiles[customerOf[o]].here

LEMMA InitHere == Init => AllHere
BY IdleType, NamesAssumption DEF Init, AllHere

\* No step removes a document, and a thread that gets a copy finds one.
LEMMA HereKept ==
    ASSUME TypeOK, AllHere, at' \in [Threads -> Works],
           \A c \in Customers : profiles[c].here => profiles'[c].here,
           \A t \in Threads : at'[t].step \in {"found", "claimed"} =>
               \/ /\ at[t].step \in {"found", "claimed"}
                  /\ at'[t].copy = at[t].copy /\ at'[t].customer = at[t].customer
               \/ /\ at'[t].customer \in Customers /\ profiles[at'[t].customer].here
                  /\ at'[t].copy = profiles[at'[t].customer],
           \A o \in Orders : customerOf'[o] \in Customers =>
               customerOf'[o] = customerOf[o] \/ profiles[customerOf'[o]].here
    PROVE  AllHere'
<1>1. ASSUME NEW t \in Threads, at'[t].step \in {"found", "claimed"}
      PROVE  profiles'[at'[t].customer].here /\ at'[t].copy.here
  BY <1>1 DEF TypeOK, AllHere
<1>2. ASSUME NEW o \in Orders, customerOf'[o] \in Customers PROVE profiles'[customerOf'[o]].here
  BY <1>2 DEF AllHere
<1> QED
  BY <1>1, <1>2 DEF AllHere

LEMMA NextHere == TypeOK /\ TypeOK' /\ AllHere /\ [Next]_vars => AllHere'
<1> SUFFICES ASSUME TypeOK, TypeOK', AllHere, [Next]_vars PROVE AllHere'
  OBVIOUS
<1>c. Clients \subseteq Threads /\ Consumer \in Threads
  BY DEF Threads
<1>a. at \in [Threads -> Works] /\ at' \in [Threads -> Works]
  BY DEF TypeOK
<1>i. Idle.step = "idle" /\ [Idle EXCEPT !.step = "saved"].step = "saved"
  BY IdleType DEF Works
<1>1. ASSUME NEW t \in Clients, NEW e \in Emails, Register(t, e) \/ ChangeEmail(t, e) PROVE AllHere'
  <2>1. PICK w \in Works : Goes(t, w) /\ \/ w.step = "free"
                                         \/ /\ at[t].step = "found"
                                            /\ w.copy = at[t].copy /\ w.customer = at[t].customer
    BY <1>1, ClaimSteps
  <2>2. UNCHANGED <<profiles, customerOf>>
    BY <1>1, ClaimSteps
  <2> QED
    BY <1>a, <1>c, <2>1, <2>2, HereKept DEF Goes
<1>2. ASSUME NEW t \in Clients, NEW c \in Customers, GetProfile(t, c) PROVE AllHere'
  <2> DEFINE w == [Idle EXCEPT !.step = "found", !.customer = c, !.copy = profiles[c]]
  <2>1. w.copy = profiles[c] /\ w.customer = c
    BY IdleType DEF Works
  <2>2. Goes(t, w) /\ profiles[c].here /\ UNCHANGED <<profiles, customerOf>>
    BY <1>2 DEF GetProfile
  <2> HIDE DEF w
  <2> QED
    BY <1>a, <1>c, <2>1, <2>2, HereKept DEF Goes
<1>3. ASSUME NEW t \in Clients, NEW c \in Customers, NEW s \in SUBSET AddressIds, SaveNew(t, c, s)
      PROVE  AllHere'
  <2>1. ~profiles[c].here /\ Goes(t, Idle) /\ UNCHANGED customerOf
    BY <1>3 DEF SaveNew, Ends
  <2>2. \A b \in Customers : b # c => profiles'[b] = profiles[b]
    BY <1>3 DEF SaveNew, TypeOK
  <2> QED
    BY <1>a, <1>c, <1>i, <2>1, <2>2, HereKept DEF Goes
<1>4. ASSUME NEW t \in Clients, NEW d \in Profiles, Changed(t, d), Replaces(t, d) PROVE AllHere'
  <2>1. d.here
    BY <1>4, <1>c DEF Changed, AllHere
  <2>2. \A b \in Customers : profiles'[b] = d \/ profiles'[b] = profiles[b]
    BY <1>4 DEF Replaces, Saves, TypeOK
  <2>3. Goes(t, Idle) /\ UNCHANGED customerOf
    BY <1>4 DEF Replaces, Ends
  <2> QED
    BY <1>a, <1>c, <1>i, <2>1, <2>2, <2>3, HereKept DEF Goes
<1>5. ASSUME NEW t \in Clients, Refuse(t) PROVE AllHere'
  BY <1>5, <1>a, <1>c, <1>i, HereKept DEF Refuse, Ends, Goes
<1>6. ASSUME NEW o \in Orders, NEW c \in Customers, PublishOrder(o, c) PROVE AllHere'
  BY <1>6, <1>a, HereKept DEF PublishOrder, TypeOK
<1>7. ASSUME FindCustomer PROVE AllHere'
  <2> DEFINE c == customerOf[Head(queue)]
             w == [Idle EXCEPT !.step = "found", !.customer = c, !.copy = profiles[c]]
  <2>1. w.copy = profiles[c] /\ w.customer = c
    BY IdleType DEF Works
  <2>2. CASE c \in Customers /\ profiles[c].here
    <3>1. Goes(Consumer, w) /\ UNCHANGED <<profiles, customerOf>>
      BY <1>7, <2>2 DEF FindCustomer
    <3> HIDE DEF w, c
    <3> QED
      BY <1>a, <1>c, <2>1, <2>2, <3>1, HereKept DEF Goes
  <2>3. CASE ~(c \in Customers /\ profiles[c].here)
    BY <1>7, <1>a, <2>3, HereKept DEF FindCustomer
  <2> QED
    BY <2>2, <2>3
<1>8. ASSUME AddOrderRef PROVE AllHere'
  <2> DEFINE d == WithRef(at[Consumer].copy, Head(queue))
  <2>1. queue # <<>> /\ at[Consumer].copy \in Profiles /\ at[Consumer].copy.here
    BY <1>8, <1>c, IdleType DEF AddOrderRef, Works, TypeOK, AllHere
  <2>2. d.here
    <3>1. Head(queue) \in Orders
      BY <2>1 DEF TypeOK
    <3> QED
      BY <2>1, <3>1, WithRefType
  <2>3. Saves(Consumer, d) /\ Goes(Consumer, [Idle EXCEPT !.step = "saved"]) /\ UNCHANGED customerOf
    BY <1>8 DEF AddOrderRef
  <2> HIDE DEF d
  <2>4. \A b \in Customers : profiles'[b] = d \/ profiles'[b] = profiles[b]
    BY <2>3 DEF Saves, TypeOK
  <2> QED
    BY <1>a, <1>c, <1>i, <2>2, <2>3, <2>4, HereKept DEF Goes
<1>9. ASSUME NEW t \in Threads, (Ack /\ t = Consumer) \/ MongoRaises(t) PROVE AllHere'
  BY <1>9, <1>a, <1>i, HereKept DEF Ack, MongoRaises, Ends, Goes
<1>10. ASSUME Restart PROVE AllHere'
  BY <1>10, <1>a, <1>i, HereKept DEF Restart
<1>11. CASE UNCHANGED vars
  BY <1>11 DEF vars, AllHere
<1> QED
  BY <1>c, <1>1, <1>2, <1>3, <1>4, <1>5, <1>6, <1>7, <1>8, <1>9, <1>10, <1>11, Steps
Has(c, e) == profiles[c].here /\ profiles[c].email = e

\* Of the emails that were never raced for: one customer has it, or one thread is
\* going to save it, not both.
EmailInv ==
    \A e \in Emails \ raced :
        /\ \A c, d \in Customers : Has(c, e) /\ Has(d, e) => c = d
        /\ \A t, u \in Threads : Claims(t, e) /\ Claims(u, e) => t = u
        /\ \A t \in Threads : Claims(t, e) => IsFree(e)

LEMMA InitEmails == Init => EmailInv
<1> SUFFICES ASSUME Init PROVE EmailInv
  OBVIOUS
<1>1. \A t \in Threads : at[t].step = "idle"
  BY IdleType DEF Init
<1>2. \A c \in Customers : ~profiles[c].here
  BY DEF Init, NoProfile
<1> QED
  BY <1>1, <1>2 DEF EmailInv, Has, Claims

\* Steps that save nothing and claim nothing.
LEMMA EmailsKept ==
    ASSUME EmailInv, profiles' = profiles, raced' = raced,
           \A t \in Threads : at'[t].step \in {"free", "claimed"} => at'[t] = at[t]
    PROVE  EmailInv'
BY DEF EmailInv, Has, Claims, IsFree

\* Thread t saves document d of c, and is done; c had its email, or t had claimed it.
SavedBy(t, c, d, w) ==
    /\ w.step \in {"idle", "saved"}
    /\ profiles' = [profiles EXCEPT ![c] = d]
    /\ Goes(t, w)
    /\ raced \subseteq raced'
    /\ d.email \notin raced' => Has(c, d.email) \/ Claims(t, d.email)

LEMMA EmailsSaved ==
    ASSUME TypeOK, EmailInv, NEW t \in Threads, NEW c \in Customers, NEW d \in Profiles,
           NEW w, SavedBy(t, c, d, w)
    PROVE  EmailInv'
<1> USE DEF SavedBy
<1> SUFFICES ASSUME NEW e \in Emails \ raced'
             PROVE  /\ \A x, y \in Customers : Has(x, e)' /\ Has(y, e)' => x = y
                    /\ \A u, v \in Threads : Claims(u, e)' /\ Claims(v, e)' => u = v
                    /\ \A u \in Threads : Claims(u, e)' => IsFree(e)'
  BY DEF EmailInv
<1>1. e \in Emails \ raced
  OBVIOUS
<1>2. \A u \in Threads : Claims(u, e)' => u # t /\ Claims(u, e)
  BY DEF Claims, Goes, TypeOK
<1>3. \A x \in Customers : Has(x, e)' => (x # c /\ Has(x, e)) \/ (x = c /\ d.email = e)
  <2> SUFFICES ASSUME NEW x \in Customers, Has(x, e)'
               PROVE  (x # c /\ Has(x, e)) \/ (x = c /\ d.email = e)
    OBVIOUS
  <2>1. profiles'[x] = IF x = c THEN d ELSE profiles[x]
    BY DEF TypeOK
  <2> QED
    BY <2>1 DEF Has
<1>4. CASE d.email # e
  <2>1. \A x \in Customers : Has(x, e)' => Has(x, e)
    BY <1>3, <1>4
  <2>2. IsFree(e) => IsFree(e)'
    BY <2>1 DEF IsFree, Has
  <2> QED
    BY <1>1, <1>2, <2>1, <2>2 DEF EmailInv
<1>5. CASE d.email = e /\ Has(c, e)
  <2>1. \A x \in Customers : Has(x, e)' => Has(x, e)
    BY <1>3, <1>5
  <2>2. IsFree(e) => IsFree(e)'
    BY <2>1 DEF IsFree, Has
  <2> QED
    BY <1>1, <1>2, <2>1, <2>2 DEF EmailInv
<1>6. CASE d.email = e /\ Claims(t, e)
  <2>1. IsFree(e)
    BY <1>1, <1>6 DEF EmailInv
  <2>2. \A x \in Customers : Has(x, e)' => x = c
    BY <1>3, <2>1 DEF IsFree, Has
  <2>3. \A u \in Threads : ~Claims(u, e)'
    BY <1>1, <1>2, <1>6 DEF EmailInv
  <2> QED
    BY <2>2, <2>3
<1> QED
  BY <1>4, <1>5, <1>6

LEMMA NextEmails == TypeOK /\ AllHere /\ EmailInv /\ [Next]_vars => EmailInv'
<1> SUFFICES ASSUME TypeOK, AllHere, EmailInv, [Next]_vars PROVE EmailInv'
  OBVIOUS
<1>c. Clients \subseteq Threads /\ Consumer \in Threads
  BY DEF Threads
<1>i. Idle.step = "idle" /\ [Idle EXCEPT !.step = "saved"].step = "saved"
  BY IdleType DEF Works
<1>1. ASSUME NEW t \in Clients, NEW e \in Emails, Register(t, e) \/ ChangeEmail(t, e) PROVE EmailInv'
  <2>1. /\ IsFree(e) /\ profiles' = profiles
        /\ raced' = IF \E u \in Threads : Claims(u, e) THEN raced \cup {e} ELSE raced
    BY <1>1, ClaimSteps
  <2>2. PICK w \in Works : Goes(t, w) /\ w.email = e
    BY <1>1, ClaimSteps
  <2>3. ASSUME NEW f \in Emails \ raced'
        PROVE  /\ \A c, d \in Customers : Has(c, f)' /\ Has(d, f)' => c = d
               /\ \A u, v \in Threads : Claims(u, f)' /\ Claims(v, f)' => u = v
               /\ \A u \in Threads : Claims(u, f)' => IsFree(f)'
    <3>1. f \in Emails \ raced /\ (f = e => \A u \in Threads : ~Claims(u, e))
      BY <2>1
    <3>2. \A u \in Threads : Claims(u, f)' => Claims(u, f) \/ (u = t /\ f = e)
      BY <1>c, <2>2 DEF Claims, Goes, TypeOK
    <3>3. IsFree(f)' <=> IsFree(f)
      BY <2>1 DEF IsFree
    <3>4. \A c \in Customers : Has(c, f)' <=> Has(c, f)
      BY <2>1 DEF Has
    <3> QED
      BY <2>1, <3>1, <3>2, <3>3, <3>4 DEF EmailInv
  <2> QED
    BY <2>3 DEF EmailInv
<1>2. ASSUME NEW t \in Clients, NEW c \in Customers, GetProfile(t, c) PROVE EmailInv'
  <2>1. [Idle EXCEPT !.step = "found", !.customer = c, !.copy = profiles[c]].step = "found"
    BY IdleType DEF Works
  <2> QED
    BY <1>2, <1>c, <2>1, EmailsKept DEF GetProfile, Goes, TypeOK
<1>3. ASSUME NEW t \in Clients, NEW c \in Customers, NEW s \in SUBSET AddressIds, SaveNew(t, c, s)
      PROVE  EmailInv'
  <2> DEFINE d == [NoProfile EXCEPT !.here = TRUE, !.email = at[t].email, !.addresses = s, !.default = s]
  <2>1. d \in Profiles /\ d.email = at[t].email
    BY <1>c, NoProfileType DEF Profiles, Works, TypeOK
  <2>2. profiles' = [profiles EXCEPT ![c] = d]
    BY <1>3 DEF SaveNew
  <2> HIDE DEF d
  <2>3. Goes(t, Idle) /\ raced' = raced /\ Claims(t, d.email)
    BY <1>3, <2>1 DEF SaveNew, Ends, Claims
  <2>4. SavedBy(t, c, d, Idle)
    BY <1>i, <2>2, <2>3 DEF SavedBy
  <2> QED
    BY <1>c, <2>1, <2>4, EmailsSaved
<1>4. ASSUME NEW t \in Clients, NEW d \in Profiles, Changed(t, d), Replaces(t, d) PROVE EmailInv'
  <2> DEFINE c == at[t].customer
  <2>1. /\ c \in Customers /\ profiles[c].here
        /\ profiles' = [profiles EXCEPT ![c] = d] /\ Goes(t, Idle)
    BY <1>4, <1>c DEF Changed, Replaces, Saves, Ends, TypeOK, AllHere
  <2>2. raced' = IF at[t].step = "found" /\ d.email # profiles[c].email
                 THEN raced \cup {d.email} ELSE raced
    BY <1>4 DEF Replaces, Saves
  <2>3. d.email \notin raced' => Has(c, d.email) \/ Claims(t, d.email)
    BY <1>4, <2>1, <2>2 DEF Changed, Has, Claims
  <2>4. raced \subseteq raced'
    BY <2>2
  <2> HIDE DEF c
  <2>5. SavedBy(t, c, d, Idle)
    BY <1>i, <2>1, <2>3, <2>4 DEF SavedBy
  <2> QED
    BY <1>c, <2>1, <2>5, EmailsSaved
<1>5. ASSUME NEW t \in Clients, Refuse(t) PROVE EmailInv'
  BY <1>5, <1>c, <1>i, EmailsKept DEF Refuse, Ends, Goes, TypeOK
<1>6. ASSUME NEW o \in Orders, NEW c \in Customers, PublishOrder(o, c) PROVE EmailInv'
  BY <1>6, EmailsKept DEF PublishOrder
<1>7. ASSUME FindCustomer PROVE EmailInv'
  <2>1. PICK w : (Goes(Consumer, w) /\ w.step = "found") \/ at' = at
    <3>1. [Idle EXCEPT !.step = "found", !.customer = customerOf[Head(queue)],
                       !.copy = profiles[customerOf[Head(queue)]]].step = "found"
      BY IdleType DEF Works
    <3> QED
      BY <1>7, <3>1 DEF FindCustomer
  <2> QED
    BY <1>7, <1>c, <2>1, EmailsKept DEF FindCustomer, Goes, TypeOK
<1>8. ASSUME AddOrderRef PROVE EmailInv'
  <2> DEFINE d == WithRef(at[Consumer].copy, Head(queue))
             c == at[Consumer].customer
             w == [Idle EXCEPT !.step = "saved"]
  <2>1. /\ queue # <<>> /\ at[Consumer].copy \in Profiles /\ c \in Customers
        /\ profiles[c].here /\ at[Consumer].step = "found"
    BY <1>8, <1>c, IdleType DEF AddOrderRef, Works, TypeOK, AllHere
  <2>2. d \in Profiles
    <3>1. Head(queue) \in Orders
      BY <2>1 DEF TypeOK
    <3> QED
      BY <2>1, <3>1, WithRefType
  <2>3. Saves(Consumer, d) /\ Goes(Consumer, w) /\ w.step = "saved"
    BY <1>8, <1>i DEF AddOrderRef
  <2> HIDE DEF d, w
  <2>4. /\ profiles' = [profiles EXCEPT ![c] = d]
        /\ raced' = IF d.email # profiles[c].email THEN raced \cup {d.email} ELSE raced
    BY <2>1, <2>3 DEF Saves
  <2>5. (d.email \notin raced' => Has(c, d.email)) /\ raced \subseteq raced'
    BY <2>1, <2>4 DEF Has
  <2> HIDE DEF c
  <2>6. SavedBy(Consumer, c, d, w)
    BY <2>3, <2>4, <2>5 DEF SavedBy
  <2> QED
    BY <1>c, <2>1, <2>2, <2>6, EmailsSaved
<1>9. ASSUME NEW t \in Threads, (Ack /\ t = Consumer) \/ MongoRaises(t) PROVE EmailInv'
  BY <1>9, <1>i, EmailsKept DEF Ack, MongoRaises, Ends, Goes, TypeOK
<1>10. ASSUME Restart PROVE EmailInv'
  BY <1>10, <1>i, EmailsKept DEF Restart
<1>11. CASE UNCHANGED vars
  BY <1>11, EmailsKept DEF vars
<1> QED
  BY <1>c, <1>1, <1>2, <1>3, <1>4, <1>5, <1>6, <1>7, <1>8, <1>9, <1>10, <1>11, Steps

\* EmailsAreUnique: the two exceptions it names are all there are.
THEOREM EmailsStayUnique == Spec => []EmailsAreUnique
<1>1. TypeOK /\ EmailInv => EmailsAreUnique
  <2> SUFFICES ASSUME TypeOK, EmailInv, NEW c \in Customers, NEW d \in Customers,
                      profiles[c].here, profiles[d].here, profiles[c].email = profiles[d].email
               PROVE  c = d \/ profiles[c].email \in raced
    BY DEF EmailsAreUnique
  <2>1. profiles[c].email \in Emails
    BY DEF TypeOK, Profiles
  <2> QED
    BY <2>1 DEF EmailInv, Has
<1> QED
  BY <1>1, InitType, NextType, InitHere, NextHere, InitEmails, NextEmails, PTL DEF Spec
-----------------------------------------------------------------------------
(* HistoryIsComplete *)

\* What happens to the queue when its first message is queued again, or leaves.
LEMMA RequeuedStays ==
    ASSUME queue \in Seq(Orders), queue # <<>>, Requeues
    PROVE  \A o : InQueue(o)' <=> InQueue(o)
<1>1. /\ Len(queue) \in Nat \ {0} /\ Len(queue') = Len(queue)
      /\ queue'[Len(queue)] = queue[1]
      /\ \A i \in 1 .. Len(queue) - 1 : queue'[i] = queue[i + 1]
  BY DEF Requeues
<1>2. DOMAIN queue = 1 .. Len(queue) /\ DOMAIN queue' = 1 .. Len(queue)
  BY <1>1, RequeuesType
<1>3. ASSUME NEW o, InQueue(o) PROVE InQueue(o)'
  <2>1. PICK i \in 1 .. Len(queue) : queue[i] = o
    BY <1>2, <1>3 DEF InQueue
  <2>2. CASE i = 1
    BY <1>1, <1>2, <2>1, <2>2 DEF InQueue
  <2>3. CASE i # 1
    <3>1. i - 1 \in 1 .. Len(queue) - 1 /\ (i - 1) + 1 = i
      BY <1>1, <2>1, <2>3
    <3>2. queue'[i - 1] = o /\ i - 1 \in DOMAIN queue'
      BY <1>1, <1>2, <2>1, <3>1
    <3> QED
      BY <3>2 DEF InQueue
  <2> QED
    BY <2>2, <2>3
<1>4. ASSUME NEW o, InQueue(o)' PROVE InQueue(o)
  <2>1. PICK i \in 1 .. Len(queue) : queue'[i] = o
    BY <1>2, <1>4 DEF InQueue
  <2>2. CASE i = Len(queue)
    <3>1. queue[1] = o /\ 1 \in DOMAIN queue
      BY <1>1, <1>2, <2>1, <2>2
    <3> QED
      BY <3>1 DEF InQueue
  <2>3. CASE i # Len(queue)
    <3>1. i \in 1 .. Len(queue) - 1 /\ i + 1 \in 1 .. Len(queue)
      BY <1>1, <2>1, <2>3
    <3> QED
      BY <1>1, <1>2, <2>1, <3>1 DEF InQueue
  <2> QED
    BY <2>2, <2>3
<1> QED
  BY <1>3, <1>4

LEMMA AckedLeaves ==
    ASSUME queue \in Seq(Orders), queue # <<>>, queue' = Tail(queue)
    PROVE  /\ \A o : InQueue(o)' => InQueue(o)
           /\ \A o : InQueue(o) => InQueue(o)' \/ o = Head(queue)
<1>1. /\ Len(queue) \in Nat \ {0} /\ Len(queue') = Len(queue) - 1
      /\ \A i \in 1 .. Len(queue) - 1 : queue'[i] = queue[i + 1]
      /\ Head(queue) = queue[1]
  OBVIOUS
<1>2. DOMAIN queue = 1 .. Len(queue) /\ DOMAIN queue' = 1 .. Len(queue) - 1
  BY <1>1
<1>3. ASSUME NEW o, InQueue(o)' PROVE InQueue(o)
  <2>1. PICK i \in 1 .. Len(queue) - 1 : queue'[i] = o
    BY <1>2, <1>3 DEF InQueue
  <2>2. i + 1 \in 1 .. Len(queue)
    BY <1>1, <2>1
  <2> QED
    BY <1>1, <1>2, <2>1, <2>2 DEF InQueue
<1>4. ASSUME NEW o, InQueue(o), o # Head(queue) PROVE InQueue(o)'
  <2>1. PICK i \in 1 .. Len(queue) : queue[i] = o
    BY <1>2, <1>4 DEF InQueue
  <2>2. i - 1 \in 1 .. Len(queue) - 1 /\ (i - 1) + 1 = i
    BY <1>1, <1>4, <2>1
  <2> QED
    BY <1>1, <1>2, <2>1, <2>2 DEF InQueue
<1> QED
  BY <1>3, <1>4

LEMMA PublishedWaits ==
    ASSUME queue \in Seq(Orders), NEW o \in Orders, queue' = Append(queue, o)
    PROVE  /\ \A x : InQueue(x)' <=> InQueue(x) \/ x = o
           /\ queue # <<>> => Head(queue') = Head(queue)
<1>1. /\ Len(queue) \in Nat /\ Len(queue') = Len(queue) + 1
      /\ queue'[Len(queue) + 1] = o
      /\ \A i \in 1 .. Len(queue) : queue'[i] = queue[i]
      /\ queue' \in Seq(Orders)
  OBVIOUS
<1>2. DOMAIN queue = 1 .. Len(queue) /\ DOMAIN queue' = 1 .. Len(queue) + 1
  BY <1>1
<1>3. \A x : InQueue(x)' <=> InQueue(x) \/ x = o
  BY <1>1, <1>2 DEF InQueue
<1>4. queue # <<>> => Head(queue') = Head(queue)
  BY <1>1
<1> QED
  BY <1>3, <1>4

\* The history holds what is no longer in the queue; while the consumer works on a
\* message, it works for the customer of that message.
HistoryInv ==
    /\ HistoryIsComplete
    /\ at[Consumer].step = "found" => customerOf[Head(queue)] = at[Consumer].customer
    /\ at[Consumer].step = "saved" => LET c == customerOf[Head(queue)] IN
           /\ c \in Customers
           /\ c \notin overwritten => profiles[c].orders[Head(queue)] > 0

LEMMA InitHistory == Init => HistoryInv
<1> SUFFICES ASSUME Init PROVE HistoryInv
  OBVIOUS
<1>1. \A o \in Orders : customerOf[o] \notin Customers
  BY NamesAssumption DEF Init
<1>2. at[Consumer].step = "idle"
  BY IdleType DEF Init, Threads
<1> QED
  BY <1>1, <1>2 DEF HistoryInv, HistoryIsComplete

\* A step that loses no message, records nothing, and of the customers that are
\* not overwritten changes no history.
Harmless ==
    /\ customerOf' = customerOf /\ overwritten \subseteq overwritten'
    /\ \A o \in Orders : customerOf[o] \in Customers \ overwritten' =>
           profiles'[customerOf[o]].orders[o] = profiles[customerOf[o]].orders[o]
    /\ \/ queue' = queue /\ at'[Consumer] = at[Consumer]
       \/ at'[Consumer].step = "idle" /\ \A o : InQueue(o) => InQueue(o)'

LEMMA HistoryKept ==
    ASSUME TypeOK, HistoryInv, Harmless
    PROVE  HistoryInv'
<1>1. \A o : InQueue(o) => InQueue(o)'
  BY DEF Harmless, InQueue
<1>2. HistoryIsComplete'
  BY <1>1 DEF HistoryInv, HistoryIsComplete, Harmless
<1>3. CASE queue' = queue /\ at'[Consumer] = at[Consumer]
  <2>1. at[Consumer].step = "saved" => Head(queue) \in Orders
    BY IdleType DEF TypeOK
  <2> QED
    BY <1>2, <1>3, <2>1 DEF HistoryInv, Harmless
<1>4. CASE at'[Consumer].step = "idle"
  BY <1>2, <1>4 DEF HistoryInv
<1> QED
  BY <1>3, <1>4 DEF Harmless

LEMMA NextHistory == TypeOK /\ AllHere /\ HistoryInv /\ [Next]_vars => HistoryInv'
<1> SUFFICES ASSUME TypeOK, AllHere, HistoryInv, [Next]_vars PROVE HistoryInv'
  OBVIOUS
<1>c. Consumer \in Threads /\ \A t \in Clients : t \in Threads /\ t # Consumer
  BY NamesAssumption DEF Threads
<1>i. Idle.step = "idle" /\ [Idle EXCEPT !.step = "saved"].step = "saved"
  BY IdleType DEF Works
<1>g. ASSUME NEW t \in Clients, NEW w, Goes(t, w) PROVE at'[Consumer] = at[Consumer]
  BY <1>c, <1>g DEF Goes, TypeOK
<1>1. ASSUME NEW t \in Clients, NEW e \in Emails, Register(t, e) \/ ChangeEmail(t, e) PROVE HistoryInv'
  <2>1. PICK w \in Works : Goes(t, w)
    BY <1>1, ClaimSteps
  <2>2. UNCHANGED <<profiles, customerOf, queue, overwritten>>
    BY <1>1, ClaimSteps
  <2>3. Harmless
    BY <1>g, <2>1, <2>2 DEF Harmless
  <2> QED
    BY <2>3, HistoryKept
<1>2. ASSUME NEW t \in Clients, NEW c \in Customers, GetProfile(t, c) PROVE HistoryInv'
  <2>1. Harmless
    BY <1>2, <1>g DEF GetProfile, Harmless
  <2> QED
    BY <2>1, HistoryKept
<1>3. ASSUME NEW t \in Clients, NEW c \in Customers, NEW s \in SUBSET AddressIds, SaveNew(t, c, s)
      PROVE  HistoryInv'
  <2>1. \A o \in Orders : customerOf[o] \in Customers => customerOf[o] # c
    BY <1>3 DEF SaveNew, AllHere
  <2>2. \A b \in Customers : b # c => profiles'[b] = profiles[b]
    BY <1>3 DEF SaveNew, TypeOK
  <2>3. Harmless
    BY <1>3, <1>g, <2>1, <2>2 DEF SaveNew, Ends, Harmless
  <2> QED
    BY <2>3, HistoryKept
<1>4. ASSUME NEW t \in Clients, NEW d \in Profiles, Changed(t, d), Replaces(t, d) PROVE HistoryInv'
  <2> DEFINE c == at[t].customer
  <2>1. c \in Customers /\ d.orders = at[t].copy.orders
    BY <1>4, <1>c DEF Changed, TypeOK
  <2>2. /\ profiles' = [profiles EXCEPT ![c] = d]
        /\ overwritten' = IF at[t].copy = profiles[c] THEN overwritten ELSE overwritten \cup {c}
        /\ Goes(t, Idle) /\ UNCHANGED <<customerOf, queue>>
    BY <1>4 DEF Replaces, Saves, Ends
  <2>3. \A b \in Customers \ overwritten' : profiles'[b].orders = profiles[b].orders
    BY <2>1, <2>2 DEF TypeOK
  <2>4. Harmless
    BY <1>g, <2>2, <2>3 DEF Harmless
  <2> QED
    BY <2>4, HistoryKept
<1>5. ASSUME NEW t \in Clients, Refuse(t) PROVE HistoryInv'
  <2>1. Harmless
    BY <1>5, <1>g DEF Refuse, Ends, Harmless
  <2> QED
    BY <2>1, HistoryKept
<1>6. ASSUME NEW o \in Orders, NEW c \in Customers, PublishOrder(o, c) PROVE HistoryInv'
  <2>1. /\ \A x : InQueue(x)' <=> InQueue(x) \/ x = o
        /\ queue # <<>> => Head(queue') = Head(queue)
    BY <1>6, PublishedWaits DEF PublishOrder, TypeOK
  <2>2. /\ UNCHANGED <<profiles, at, overwritten>> /\ customerOf[o] = Nobody
        /\ \A x \in Orders : x # o => customerOf'[x] = customerOf[x]
    BY <1>6 DEF PublishOrder, TypeOK
  <2>3. HistoryIsComplete'
    BY <2>1, <2>2 DEF HistoryInv, HistoryIsComplete
  <2>4. at[Consumer].step # "idle" => queue # <<>> /\ Head(queue) \in Orders
    BY <1>i DEF TypeOK
  <2>5. at[Consumer].step \in {"found", "saved"} => customerOf[Head(queue)] \in Customers
    BY <1>c DEF HistoryInv, TypeOK
  <2>6. at[Consumer].step \in {"found", "saved"} =>
            customerOf'[Head(queue')] = customerOf[Head(queue)] /\ Head(queue') = Head(queue)
    BY <2>1, <2>2, <2>4, <2>5, NamesAssumption
  <2> QED
    BY <2>2, <2>3, <2>6 DEF HistoryInv
<1>7. ASSUME FindCustomer PROVE HistoryInv'
  <2> DEFINE c == customerOf[Head(queue)]
             w == [Idle EXCEPT !.step = "found", !.customer = c, !.copy = profiles[c]]
  <2>1. CASE c \in Customers /\ profiles[c].here
    <3>1. w.step = "found" /\ w.customer = c
      BY IdleType DEF Works
    <3>2. Goes(Consumer, w) /\ UNCHANGED <<queue, profiles, customerOf, overwritten>>
      BY <1>7, <2>1 DEF FindCustomer
    <3> HIDE DEF w
    <3>3. at'[Consumer].step = "found" /\ at'[Consumer].customer = customerOf'[Head(queue')]
      BY <1>c, <3>1, <3>2 DEF Goes, TypeOK
    <3>4. HistoryIsComplete'
      BY <3>2 DEF HistoryInv, HistoryIsComplete, InQueue
    <3> QED
      BY <3>3, <3>4 DEF HistoryInv
  <2>2. CASE ~(c \in Customers /\ profiles[c].here)
    <3>1. /\ Requeues /\ queue # <<>> /\ at'[Consumer].step = "idle"
          /\ UNCHANGED <<profiles, customerOf, overwritten>>
      BY <1>7, <1>i, <2>2 DEF FindCustomer
    <3>2. \A o : InQueue(o) => InQueue(o)'
      BY <3>1, RequeuedStays DEF TypeOK
    <3>3. Harmless
      BY <3>1, <3>2 DEF Harmless
    <3> QED
      BY <3>3, HistoryKept
  <2> QED
    BY <2>1, <2>2
<1>8. ASSUME AddOrderRef PROVE HistoryInv'
  <2> DEFINE h == Head(queue)
             c == at[Consumer].customer
             p == at[Consumer].copy
             d == WithRef(p, h)
             w == [Idle EXCEPT !.step = "saved"]
  <2>1. h \in Orders /\ p \in Profiles /\ c \in Customers /\ customerOf[h] = c
    BY <1>8, <1>c, IdleType DEF AddOrderRef, Works, TypeOK, HistoryInv
  <2>2. d \in Profiles /\ d.orders = [p.orders EXCEPT ![h] = p.orders[h] + 1]
    BY <2>1, WithRefType
  <2>3. /\ profiles' = [profiles EXCEPT ![c] = d]
        /\ overwritten' = IF p = profiles[c] THEN overwritten ELSE overwritten \cup {c}
        /\ Goes(Consumer, w) /\ UNCHANGED <<customerOf, queue>>
    BY <1>8 DEF AddOrderRef, Saves
  <2>4. at'[Consumer].step = "saved"
    BY <1>c, <1>i, <2>3 DEF Goes, TypeOK
  <2> HIDE DEF d, w
  <2>5. p.orders \in [Orders -> Nat] /\ profiles'[c].orders = d.orders
    BY <2>1, <2>2, <2>3 DEF Profiles, TypeOK
  <2>6. profiles'[c].orders[h] > 0
    BY <2>1, <2>2, <2>5
  <2>7. \A o \in Orders, b \in Customers \ overwritten' :
            profiles[b].orders[o] > 0 => profiles'[b].orders[o] > 0
    <3> SUFFICES ASSUME NEW o \in Orders, NEW b \in Customers \ overwritten', profiles[b].orders[o] > 0
                 PROVE  profiles'[b].orders[o] > 0
      OBVIOUS
    <3>1. CASE b # c
      BY <2>3, <3>1 DEF TypeOK
    <3>2. CASE b = c
      <4>1. p = profiles[c]
        BY <2>3, <3>2
      <4> QED
        BY <2>1, <2>2, <2>5, <3>2, <4>1
    <3> QED
      BY <3>1, <3>2
  <2>8. HistoryIsComplete'
    BY <2>3, <2>7 DEF HistoryInv, HistoryIsComplete, InQueue
  <2> QED
    BY <2>1, <2>3, <2>4, <2>6, <2>8 DEF HistoryInv
<1>9. ASSUME Ack PROVE HistoryInv'
  <2>1. /\ queue \in Seq(Orders) /\ queue # <<>> /\ queue' = Tail(queue)
        /\ at[Consumer].step = "saved" /\ at'[Consumer].step = "idle"
        /\ UNCHANGED <<profiles, customerOf, overwritten>>
    BY <1>9, <1>c, <1>i DEF Ack, Ends, Goes, TypeOK
  <2>2. \A o : InQueue(o) => InQueue(o)' \/ o = Head(queue)
    BY <2>1, AckedLeaves
  <2>3. HistoryIsComplete'
    BY <2>1, <2>2 DEF HistoryInv, HistoryIsComplete
  <2> QED
    BY <2>1, <2>3 DEF HistoryInv
<1>10. ASSUME NEW t \in Threads, MongoRaises(t) PROVE HistoryInv'
  <2>1. UNCHANGED <<profiles, customerOf, overwritten>> /\ Goes(t, Idle)
    BY <1>10 DEF MongoRaises, Ends
  <2>2. CASE t = Consumer
    <3>1. Requeues /\ queue # <<>> /\ at'[Consumer].step = "idle"
      BY <1>10, <1>c, <1>i, <2>1, <2>2 DEF MongoRaises, Goes, TypeOK
    <3>2. \A o : InQueue(o) => InQueue(o)'
      BY <3>1, RequeuedStays DEF TypeOK
    <3>3. Harmless
      BY <2>1, <3>1, <3>2 DEF Harmless
    <3> QED
      BY <3>3, HistoryKept
  <2>3. CASE t # Consumer
    <3>1. queue' = queue /\ at'[Consumer] = at[Consumer]
      BY <1>10, <1>c, <2>1, <2>3 DEF MongoRaises, Goes, TypeOK
    <3>2. Harmless
      BY <2>1, <3>1 DEF Harmless
    <3> QED
      BY <3>2, HistoryKept
  <2> QED
    BY <2>2, <2>3
<1>11. ASSUME Restart PROVE HistoryInv'
  <2>1. Harmless
    BY <1>11, <1>c, <1>i DEF Restart, Harmless, InQueue
  <2> QED
    BY <2>1, HistoryKept
<1>12. CASE UNCHANGED vars
  <2>1. Harmless
    BY <1>12 DEF vars, Harmless
  <2> QED
    BY <2>1, HistoryKept
<1> QED
  BY <1>c, <1>1, <1>2, <1>3, <1>4, <1>5, <1>6, <1>7, <1>8, <1>9, <1>10, <1>11, <1>12, Steps

\* HistoryIsComplete: only a replacement from an old copy loses an order.
THEOREM HistoryStaysComplete == Spec => []HistoryIsComplete
<1>1. HistoryInv => HistoryIsComplete
  BY DEF HistoryInv
<1> QED
  BY <1>1, InitType, NextType, InitHere, NextHere, InitHistory, NextHistory, PTL DEF Spec
-----------------------------------------------------------------------------
(* RefsAreRedeliveries *)

Distinct(q) == \A i, j \in DOMAIN q : q[i] = q[j] => i = j

LEMMA RequeuedDistinct ==
    ASSUME queue \in Seq(Orders), queue # <<>>, Requeues, Distinct(queue)
    PROVE  Distinct(queue')
<1>1. /\ Len(queue) \in Nat \ {0} /\ Len(queue') = Len(queue)
      /\ queue'[Len(queue)] = queue[1]
      /\ \A i \in 1 .. Len(queue) - 1 : queue'[i] = queue[i + 1]
  BY DEF Requeues
<1>2. DOMAIN queue = 1 .. Len(queue) /\ DOMAIN queue' = 1 .. Len(queue)
  BY <1>1, RequeuesType
<1> DEFINE from(i) == IF i = Len(queue) THEN 1 ELSE i + 1
<1>3. \A i \in 1 .. Len(queue) : from(i) \in 1 .. Len(queue) /\ queue'[i] = queue[from(i)]
  BY <1>1
<1>4. \A i, j \in 1 .. Len(queue) : from(i) = from(j) => i = j
  BY <1>1
<1> HIDE DEF from
<1> QED
  BY <1>2, <1>3, <1>4 DEF Distinct

LEMMA AckedDistinct ==
    ASSUME queue \in Seq(Orders), queue # <<>>, queue' = Tail(queue), Distinct(queue)
    PROVE  Distinct(queue') /\ \A o : InQueue(o)' => o # Head(queue)
<1>1. /\ Len(queue) \in Nat \ {0} /\ Len(queue') = Len(queue) - 1
      /\ \A i \in 1 .. Len(queue) - 1 : queue'[i] = queue[i + 1]
      /\ Head(queue) = queue[1]
  OBVIOUS
<1>2. DOMAIN queue = 1 .. Len(queue) /\ DOMAIN queue' = 1 .. Len(queue) - 1
  BY <1>1
<1>3. \A i \in 1 .. Len(queue) - 1 : i + 1 \in 1 .. Len(queue) /\ i + 1 # 1
  BY <1>1
<1>4. Distinct(queue')
  BY <1>1, <1>2, <1>3 DEF Distinct
<1>5. ASSUME NEW i \in DOMAIN queue', queue'[i] = Head(queue) PROVE FALSE
  BY <1>1, <1>2, <1>3, <1>5 DEF Distinct
<1> QED
  BY <1>4, <1>5 DEF InQueue

LEMMA PublishedDistinct ==
    ASSUME queue \in Seq(Orders), NEW o \in Orders, ~InQueue(o), queue' = Append(queue, o),
           Distinct(queue)
    PROVE  Distinct(queue')
<1>1. /\ Len(queue) \in Nat /\ Len(queue') = Len(queue) + 1
      /\ queue'[Len(queue) + 1] = o
      /\ \A i \in 1 .. Len(queue) : queue'[i] = queue[i]
      /\ queue' \in Seq(Orders)
  OBVIOUS
<1>2. DOMAIN queue = 1 .. Len(queue) /\ DOMAIN queue' = 1 .. Len(queue) + 1
  BY <1>1
<1> QED
  BY <1>1, <1>2 DEF Distinct, InQueue

\* Order o is still to be recorded.
Pending(o) == InQueue(o) /\ ~(at[Consumer].step = "saved" /\ o = Head(queue))

\* How often order o may be in the history of c.
Limit(c, o) == IF customerOf[o] # c THEN 0 ELSE IF Pending(o) THEN faults ELSE 1 + faults

\* Neither a document nor a copy has an order more often than it may be there.
RefsInv ==
    /\ Distinct(queue)
    /\ \A o \in Orders : InQueue(o) => customerOf[o] # Nobody
    /\ \A c \in Customers, o \in Orders : profiles[c].orders[o] <= Limit(c, o)
    /\ \A t \in Threads : at[t].step \in {"found", "claimed"} =>
           \A o \in Orders : at[t].copy.orders[o] <= Limit(at[t].customer, o)

LEMMA LimitType ==
    ASSUME TypeOK, NEW c, NEW o
    PROVE  Limit(c, o) \in Nat
BY BoundsAssumption DEF TypeOK, Limit

LEMMA LimitTypeAfter ==
    ASSUME TypeOK', NEW c, NEW o
    PROVE  Limit(c, o)' \in Nat
<1>1. faults' \in 0 .. MaxFaults
  BY DEF TypeOK
<1>2. \A n \in 0 .. MaxFaults : n \in Nat /\ 1 + n \in Nat
  BY BoundsAssumption
<1>3. faults' \in Nat /\ 1 + faults' \in Nat
  BY <1>1, <1>2, Zenon
<1>4. CASE customerOf'[o] # c
  BY <1>4 DEF Limit
<1>5. CASE customerOf'[o] = c /\ Pending(o)'
  BY <1>3, <1>5 DEF Limit
<1>6. CASE customerOf'[o] = c /\ ~Pending(o)'
  <2>1. Limit(c, o)' = 1 + faults'
    BY <1>6 DEF Limit
  <2> QED
    BY <1>3, <2>1
<1> QED
  BY <1>4, <1>5, <1>6

LEMMA CountType ==
    ASSUME NEW p \in Profiles, NEW o \in Orders
    PROVE  p.orders[o] \in Nat
BY DEF Profiles

LEMMA InitRefs == Init => RefsInv
<1> SUFFICES ASSUME Init PROVE RefsInv
  OBVIOUS
<1>1. Distinct(queue) /\ queue \in [1 .. Cardinality(Strays) -> Strays]
  BY Zenon DEF Init, Distinct
<1>2. \A o \in Orders : InQueue(o) => customerOf[o] # Nobody
  <2> SUFFICES ASSUME NEW o \in Orders, InQueue(o) PROVE customerOf[o] # Nobody
    OBVIOUS
  <2>1. o \in Strays
    BY <1>1 DEF InQueue
  <2> QED
    BY <2>1, NamesAssumption DEF Init
<1>3. \A c \in Customers, o \in Orders : profiles[c].orders[o] = 0
  BY DEF Init, NoProfile
<1>4. \A t \in Threads : at[t].step = "idle"
  BY IdleType DEF Init
<1>5. \A c \in Customers, o \in Orders : Limit(c, o) \in Nat
  BY InitType, LimitType
<1> QED
  BY <1>1, <1>2, <1>3, <1>4, <1>5 DEF RefsInv

\* No limit falls, and what a document or a copy holds now was held before.
Bounded ==
    /\ Distinct(queue') /\ \A o \in Orders : InQueue(o)' => customerOf'[o] # Nobody
    /\ \A c \in Customers, o \in Orders : Limit(c, o) <= Limit(c, o)'
    /\ \A c \in Customers, o \in Orders :
           \/ profiles'[c].orders[o] <= Limit(c, o)'
           \/ profiles'[c].orders[o] = profiles[c].orders[o]
    /\ \A t \in Threads : at'[t].step \in {"found", "claimed"} =>
           \/ /\ at[t].step \in {"found", "claimed"}
              /\ at'[t].copy = at[t].copy /\ at'[t].customer = at[t].customer
           \/ at'[t].customer \in Customers /\ at'[t].copy = profiles[at'[t].customer]

LEMMA RefsKept ==
    ASSUME TypeOK, TypeOK', RefsInv, Bounded
    PROVE  RefsInv'
<1>1. \A c \in Customers, o \in Orders : Limit(c, o) \in Nat /\ Limit(c, o)' \in Nat
  BY LimitType, LimitTypeAfter
<1>2. ASSUME NEW c \in Customers, NEW o \in Orders PROVE profiles'[c].orders[o] <= Limit(c, o)'
  <2>1. profiles[c].orders[o] \in Nat /\ profiles[c].orders[o] <= Limit(c, o)
    BY CountType DEF TypeOK, RefsInv
  <2>2. Limit(c, o) <= Limit(c, o)'
    BY DEF Bounded
  <2>3. \/ profiles'[c].orders[o] <= Limit(c, o)'
        \/ profiles'[c].orders[o] = profiles[c].orders[o]
    BY DEF Bounded
  <2> QED
    BY <1>1, <2>1, <2>2, <2>3
<1>3. ASSUME NEW t \in Threads, at'[t].step \in {"found", "claimed"}, NEW o \in Orders,
             NEW c \in Customers, c = at'[t].customer
      PROVE  at'[t].copy.orders[o] <= Limit(c, o)'
  <2>1. at'[t].copy.orders[o] \in Nat
    BY CountType DEF TypeOK, Works
  <2>2. at'[t].copy.orders[o] <= Limit(c, o)
    <3>1. CASE /\ at[t].step \in {"found", "claimed"}
               /\ at'[t].copy = at[t].copy /\ at'[t].customer = at[t].customer
      BY <1>3, <3>1 DEF RefsInv
    <3>2. CASE at'[t].copy = profiles[c]
      BY <3>2 DEF RefsInv
    <3> QED
      BY <1>3, <3>1, <3>2 DEF Bounded
  <2>3. Limit(c, o) <= Limit(c, o)'
    BY DEF Bounded
  <2> QED
    BY <1>1, <2>1, <2>2, <2>3
<1>4. \A t \in Threads : at'[t].step \in {"found", "claimed"} => at'[t].customer \in Customers
  BY DEF TypeOK
<1>5. \A t \in Threads : at'[t].step \in {"found", "claimed"} =>
          \A o \in Orders : at'[t].copy.orders[o] <= Limit(at[t].customer, o)'
  BY <1>3, <1>4
<1> QED
  BY <1>2, <1>5 DEF RefsInv, Bounded

\* An order is not created twice, and becomes pending again only by a fault.
Steady ==
    /\ customerOf' = customerOf
    /\ faults' \in Nat /\ faults <= faults'
    /\ Distinct(queue')
    /\ \A o : InQueue(o)' => InQueue(o)
    /\ \A o \in Orders : Pending(o)' => Pending(o) \/ faults + 1 <= faults'

LEMMA SteadyLimits ==
    ASSUME TypeOK, RefsInv, Steady
    PROVE  /\ Distinct(queue') /\ \A o \in Orders : InQueue(o)' => customerOf'[o] # Nobody
           /\ \A c \in Customers, o \in Orders : Limit(c, o) <= Limit(c, o)'
<1>1. faults \in Nat /\ faults' \in Nat /\ faults <= faults' /\ customerOf' = customerOf
  BY BoundsAssumption DEF Steady, TypeOK
<1>2. ASSUME NEW c \in Customers, NEW o \in Orders PROVE Limit(c, o) <= Limit(c, o)'
  <2>1. Pending(o)' => Pending(o) \/ faults + 1 <= faults'
    BY DEF Steady
  <2>2. CASE customerOf[o] # c
    BY <1>1, <2>2 DEF Limit
  <2>3. CASE customerOf[o] = c /\ Pending(o)
    <3>1. Limit(c, o) = faults
      BY <2>3 DEF Limit
    <3>2. Limit(c, o)' = faults' \/ Limit(c, o)' = 1 + faults'
      BY <1>1, <2>3 DEF Limit
    <3> QED
      BY <1>1, <3>1, <3>2
  <2>4. CASE customerOf[o] = c /\ ~Pending(o)
    <3>1. Limit(c, o) = 1 + faults
      BY <2>4 DEF Limit
    <3>2. Limit(c, o)' = 1 + faults' \/ (Limit(c, o)' = faults' /\ Pending(o)')
      BY <1>1, <2>4 DEF Limit
    <3> QED
      BY <1>1, <2>1, <2>4, <3>1, <3>2
  <2> QED
    BY <2>2, <2>3, <2>4
<1> QED
  BY <1>1, <1>2 DEF Steady, RefsInv

LEMMA NextRefs ==
    TypeOK /\ TypeOK' /\ AllHere /\ HistoryInv /\ RefsInv /\ [Next]_vars => RefsInv'
<1> SUFFICES ASSUME TypeOK, TypeOK', AllHere, HistoryInv, RefsInv, [Next]_vars PROVE RefsInv'
  OBVIOUS
<1>c. Consumer \in Threads /\ \A t \in Clients : t \in Threads /\ t # Consumer
  BY NamesAssumption DEF Threads
<1>i. Idle.step = "idle" /\ [Idle EXCEPT !.step = "saved"].step = "saved"
  BY IdleType DEF Works
<1>f. faults \in Nat /\ faults' \in Nat
  <2>1. faults \in 0 .. MaxFaults /\ faults' \in 0 .. MaxFaults
    BY DEF TypeOK
  <2> QED
    BY <2>1, BoundsAssumption
<1>g. ASSUME NEW t \in Threads, NEW w, Goes(t, w)
      PROVE  at'[t] = w /\ \A u \in Threads : u # t => at'[u] = at[u]
  BY <1>g DEF Goes, TypeOK
\* A client's step leaves the queue and the consumer alone.
<1>s. ASSUME UNCHANGED <<queue, customerOf, faults>>, at'[Consumer] = at[Consumer] PROVE Steady
  BY <1>s, <1>f DEF Steady, Pending, InQueue, RefsInv
<1>k. ASSUME Steady,
             \A c \in Customers, o \in Orders :
                 \/ profiles'[c].orders[o] <= Limit(c, o)'
                 \/ profiles'[c].orders[o] = profiles[c].orders[o],
             \A t \in Threads : at'[t].step \in {"found", "claimed"} =>
                 \/ /\ at[t].step \in {"found", "claimed"}
                    /\ at'[t].copy = at[t].copy /\ at'[t].customer = at[t].customer
                 \/ at'[t].customer \in Customers /\ at'[t].copy = profiles[at'[t].customer]
      PROVE  RefsInv'
  <2>1. Bounded
    BY <1>k, SteadyLimits DEF Bounded
  <2> QED
    BY <2>1, RefsKept
<1>1. ASSUME NEW t \in Clients, NEW e \in Emails, Register(t, e) PROVE RefsInv'
  <2>1. PICK w \in Works : Goes(t, w) /\ w.step = "free"
    <3>1. [Idle EXCEPT !.step = "free", !.email = e] \in Works
      BY IdleType DEF Works
    <3> QED
      BY <1>1, <3>1 DEF Register, ClaimsEmail, Works
  <2>2. UNCHANGED <<profiles, customerOf, queue, faults>>
    BY <1>1 DEF Register
  <2>3. at'[t] = w /\ \A u \in Threads : u # t => at'[u] = at[u]
    BY <1>c, <1>g, <2>1
  <2> QED
    BY <1>c, <1>k, <1>s, <2>1, <2>2, <2>3
<1>2. ASSUME NEW t \in Clients, NEW e \in Emails, ChangeEmail(t, e) PROVE RefsInv'
  <2> DEFINE w == [at[t] EXCEPT !.step = "claimed", !.email = e]
  <2>1. /\ w.step = "claimed" /\ w.copy = at[t].copy /\ w.customer = at[t].customer
        /\ at[t].step = "found"
    BY <1>2, <1>c DEF ChangeEmail, TypeOK, Works
  <2>2. Goes(t, w) /\ UNCHANGED <<profiles, customerOf, queue, faults>>
    BY <1>2, <1>c DEF ChangeEmail, ClaimsEmail, TypeOK, Works
  <2> HIDE DEF w
  <2>3. at'[t] = w /\ \A u \in Threads : u # t => at'[u] = at[u]
    BY <1>c, <1>g, <2>2
  <2> QED
    BY <1>c, <1>k, <1>s, <2>1, <2>2, <2>3
<1>3. ASSUME NEW t \in Clients, NEW c \in Customers, GetProfile(t, c) PROVE RefsInv'
  <2> DEFINE w == [Idle EXCEPT !.step = "found", !.customer = c, !.copy = profiles[c]]
  <2>1. w.copy = profiles[c] /\ w.customer = c
    BY IdleType DEF Works
  <2>2. Goes(t, w) /\ UNCHANGED <<profiles, customerOf, queue, faults>>
    BY <1>3 DEF GetProfile
  <2> HIDE DEF w
  <2>3. at'[t] = w /\ \A u \in Threads : u # t => at'[u] = at[u]
    BY <1>c, <1>g, <2>2
  <2> QED
    BY <1>c, <1>k, <1>s, <2>1, <2>2, <2>3
<1>4. ASSUME NEW t \in Clients, NEW c \in Customers, NEW s \in SUBSET AddressIds, SaveNew(t, c, s)
      PROVE  RefsInv'
  <2>1. Goes(t, Idle) /\ UNCHANGED <<customerOf, queue, faults>>
    BY <1>4 DEF SaveNew, Ends
  <2>2. at'[t] = Idle /\ \A u \in Threads : u # t => at'[u] = at[u]
    BY <1>c, <1>g, <2>1
  <2>3. Steady
    BY <1>c, <1>s, <2>1, <2>2
  <2>4. profiles'[c].orders = [o \in Orders |-> 0] /\ \A b \in Customers : b # c => profiles'[b] = profiles[b]
    BY <1>4, NoProfileType DEF SaveNew, NoProfile, Profiles, TypeOK
  <2>5. \A b \in Customers, o \in Orders :
            profiles'[b].orders[o] <= Limit(b, o)' \/ profiles'[b].orders[o] = profiles[b].orders[o]
    <3>1. \A o \in Orders : Limit(c, o) \in Nat
      BY LimitType
    <3>2. \A o \in Orders : Limit(c, o) <= Limit(c, o)'
      BY <2>3, SteadyLimits
    <3>3. \A o \in Orders : Limit(c, o)' \in Nat
      BY LimitTypeAfter
    <3> QED
      BY <2>4, <3>3
  <2> QED
    BY <1>i, <1>k, <2>2, <2>3, <2>5
<1>5. ASSUME NEW t \in Clients, NEW d \in Profiles, Changed(t, d), Replaces(t, d) PROVE RefsInv'
  <2>c. at[t].customer \in Customers /\ at[t].step \in {"found", "claimed"}
    BY <1>5, <1>c DEF Changed, TypeOK
  <2>p. PICK c \in Customers : c = at[t].customer
    BY <2>c
  <2>1. /\ c \in Customers /\ d.orders = at[t].copy.orders
        /\ at[t].step \in {"found", "claimed"}
    BY <1>5, <2>c DEF Changed
  <2>2. /\ profiles' = [profiles EXCEPT ![c] = d]
        /\ Goes(t, Idle) /\ UNCHANGED <<customerOf, queue, faults>>
    BY <1>5, <2>p DEF Replaces, Saves, Ends
  <2>3. at'[t] = Idle /\ \A u \in Threads : u # t => at'[u] = at[u]
    BY <1>c, <1>g, <2>2
  <2>4. Steady
    BY <1>c, <1>s, <2>2, <2>3
  <2>5. \A o \in Orders : profiles'[c].orders[o] <= Limit(c, o)'
    <3> SUFFICES ASSUME NEW o \in Orders PROVE profiles'[c].orders[o] <= Limit(c, o)'
      OBVIOUS
    <3>1. profiles'[c].orders[o] = at[t].copy.orders[o] /\ at[t].copy.orders[o] \in Nat
      BY <1>c, <2>1, <2>2, CountType DEF TypeOK, Works
    <3>2. at[t].copy.orders[o] <= Limit(c, o)
      BY <1>c, <2>p, <2>1 DEF RefsInv
    <3>3. Limit(c, o) <= Limit(c, o)' /\ Limit(c, o) \in Nat /\ Limit(c, o)' \in Nat
      BY <2>4, LimitType, LimitTypeAfter, SteadyLimits
    <3> QED
      BY <3>1, <3>2, <3>3
  <2>6. \A b \in Customers : b # c => profiles'[b] = profiles[b]
    BY <2>2 DEF TypeOK
  <2>7. \A b \in Customers, o \in Orders :
            profiles'[b].orders[o] <= Limit(b, o)' \/ profiles'[b].orders[o] = profiles[b].orders[o]
    BY <2>5, <2>6
  <2> QED
    BY <1>i, <1>k, <2>3, <2>4, <2>7
<1>6. ASSUME NEW t \in Clients, Refuse(t) PROVE RefsInv'
  <2>1. Goes(t, Idle) /\ UNCHANGED <<profiles, customerOf, queue, faults>>
    BY <1>6 DEF Refuse, Ends
  <2>2. at'[t] = Idle /\ \A u \in Threads : u # t => at'[u] = at[u]
    BY <1>c, <1>g, <2>1
  <2> QED
    BY <1>c, <1>i, <1>k, <1>s, <2>1, <2>2
<1>7. ASSUME NEW o \in Orders, NEW c \in Customers, PublishOrder(o, c) PROVE RefsInv'
  <2>1. /\ customerOf[o] = Nobody /\ queue' = Append(queue, o) /\ queue \in Seq(Orders)
        /\ UNCHANGED <<profiles, at, faults>>
        /\ customerOf' = [customerOf EXCEPT ![o] = c]
    BY <1>7 DEF PublishOrder, TypeOK
  <2>2. customerOf'[o] = c /\ \A x \in Orders : x # o => customerOf'[x] = customerOf[x]
    BY <2>1 DEF TypeOK
  <2>3. ~InQueue(o) /\ Distinct(queue)
    BY <2>1 DEF RefsInv
  <2>4. Distinct(queue')
    BY <2>1, <2>3, PublishedDistinct
  <2>5. /\ \A x : InQueue(x)' <=> InQueue(x) \/ x = o
        /\ queue # <<>> => Head(queue') = Head(queue)
    BY <2>1, PublishedWaits
  <2>6. \A x \in Orders : InQueue(x)' => customerOf'[x] # Nobody
    BY <2>2, <2>5, NamesAssumption DEF RefsInv
  <2>7. at[Consumer].step = "saved" => queue # <<>>
    BY <1>i DEF TypeOK
  <2>8. ASSUME NEW b \in Customers, NEW x \in Orders PROVE Limit(b, x) <= Limit(b, x)'
    <3>1. CASE x = o
      <4>1. Limit(b, x) = 0
        BY <2>1, <3>1, NamesAssumption DEF Limit
      <4> QED
        BY <4>1, LimitTypeAfter
    <3>2. CASE x # o
      <4>1. Pending(x)' <=> Pending(x)
        BY <2>1, <2>5, <2>7, <3>2 DEF Pending
      <4>2. Limit(b, x)' = Limit(b, x)
        BY <2>1, <2>2, <3>2, <4>1 DEF Limit
      <4>3. Limit(b, x) \in Nat
        BY LimitType
      <4> QED
        BY <4>2, <4>3
    <3> QED
      BY <3>1, <3>2
  <2>9. Bounded
    BY <2>1, <2>4, <2>6, <2>8 DEF Bounded
  <2> QED
    BY <2>9, RefsKept
<1>8. ASSUME FindCustomer PROVE RefsInv'
  <2> DEFINE c == customerOf[Head(queue)]
             w == [Idle EXCEPT !.step = "found", !.customer = c, !.copy = profiles[c]]
  <2>1. at[Consumer].step = "idle" /\ UNCHANGED <<profiles, customerOf, faults>>
    BY <1>8, <1>i DEF FindCustomer
  <2>2. CASE c \in Customers /\ profiles[c].here
    <3>1. w.step = "found" /\ w.customer = c /\ w.copy = profiles[c]
      BY IdleType DEF Works
    <3>2. Goes(Consumer, w) /\ queue' = queue
      BY <1>8, <2>2 DEF FindCustomer
    <3>3. c \in Customers
      BY <2>2
    <3> HIDE DEF w
    <3>4. at'[Consumer] = w /\ \A u \in Threads : u # Consumer => at'[u] = at[u]
      BY <1>c, <1>g, <3>2
    <3>5. Steady
      BY <1>f, <2>1, <3>1, <3>2, <3>4 DEF Steady, Pending, InQueue, RefsInv
    <3> HIDE DEF c
    <3> QED
      BY <1>k, <2>1, <3>1, <3>3, <3>4, <3>5
  <2>3. CASE ~(c \in Customers /\ profiles[c].here)
    <3>1. Requeues /\ queue # <<>> /\ at' = at /\ queue \in Seq(Orders) /\ Distinct(queue)
      BY <1>8, <2>3 DEF FindCustomer, TypeOK, RefsInv
    <3>2. Distinct(queue') /\ \A o : InQueue(o)' <=> InQueue(o)
      BY <3>1, RequeuedDistinct, RequeuedStays
    <3>3. Steady
      BY <1>f, <2>1, <3>1, <3>2 DEF Steady, Pending
    <3> QED
      BY <1>k, <2>1, <3>1, <3>3
  <2> QED
    BY <2>2, <2>3
<1>9. ASSUME AddOrderRef PROVE RefsInv'
  <2>q. queue # <<>> /\ queue \in Seq(Orders) /\ at[Consumer].step = "found"
    BY <1>9, <1>i DEF AddOrderRef, TypeOK
  <2>h. PICK h \in Orders : h = Head(queue)
    BY <2>q
  <2>c. PICK c \in Customers : c = at[Consumer].customer
    BY <2>q, <1>c DEF TypeOK
  <2> DEFINE p == at[Consumer].copy
             d == WithRef(p, h)
             w == [Idle EXCEPT !.step = "saved"]
  <2>1. /\ h \in Orders /\ p \in Profiles /\ c \in Customers /\ customerOf[h] = c
        /\ queue # <<>> /\ at[Consumer].step = "found"
    BY <1>c, <2>q, <2>h, <2>c DEF Works, TypeOK, HistoryInv
  <2>2. d \in Profiles /\ d.orders = [p.orders EXCEPT ![h] = p.orders[h] + 1]
    BY <2>1, WithRefType
  <2>3. /\ profiles' = [profiles EXCEPT ![c] = d]
        /\ Goes(Consumer, w) /\ UNCHANGED <<customerOf, queue, faults>>
    BY <1>9, <2>h, <2>c DEF AddOrderRef, Saves
  <2>4. at'[Consumer] = w /\ \A u \in Threads : u # Consumer => at'[u] = at[u]
    BY <1>c, <1>g, <2>3
  <2>5. w.step = "saved"
    BY <1>i
  <2> HIDE DEF d, w
  <2>6. \A o \in Orders : o # h => (Pending(o)' <=> Pending(o))
    BY <2>h, <2>1, <2>3, <2>4, <2>5 DEF Pending, InQueue
  <2>7. Pending(h) /\ ~Pending(h)'
    <3>1. queue[1] = h /\ 1 \in DOMAIN queue
      BY <2>h, <2>q
    <3>2. InQueue(h)
      BY <3>1 DEF InQueue
    <3> QED
      BY <2>h, <2>1, <2>3, <2>4, <2>5, <3>2 DEF Pending
  <2>8. Steady
    BY <1>f, <2>3, <2>6, <2>7 DEF Steady, InQueue, RefsInv
  <2>9. Limit(c, h) = faults /\ Limit(c, h)' = 1 + faults
    BY <2>1, <2>3, <2>7 DEF Limit
  <2>10. profiles'[c].orders = d.orders /\ p.orders \in [Orders -> Nat]
    BY <2>1, <2>2, <2>3 DEF Profiles, TypeOK
  <2>11. \A o \in Orders : p.orders[o] <= Limit(c, o)
    BY <1>c, <2>c, <2>1 DEF RefsInv
  <2>12. profiles'[c].orders[h] <= Limit(c, h)'
    <3>1. profiles'[c].orders[h] = p.orders[h] + 1 /\ p.orders[h] \in Nat
      BY <2>1, <2>2, <2>10
    <3>2. p.orders[h] <= faults
      BY <2>1, <2>9, <2>11
    <3>3. profiles'[c].orders[h] <= 1 + faults
      BY <1>f, <3>1, <3>2
    <3> QED
      BY <2>9, <3>3
  <2>13. ASSUME NEW o \in Orders, o # h PROVE profiles'[c].orders[o] <= Limit(c, o)'
    <3>1. profiles'[c].orders[o] = p.orders[o] /\ p.orders[o] \in Nat
      BY <2>2, <2>10, <2>13
    <3>2. Limit(c, o) <= Limit(c, o)' /\ Limit(c, o) \in Nat /\ Limit(c, o)' \in Nat
      BY <2>1, <2>8, LimitType, LimitTypeAfter, SteadyLimits
    <3> QED
      BY <2>11, <3>1, <3>2
  <2>14. \A b \in Customers : b # c => profiles'[b] = profiles[b]
    BY <2>3 DEF TypeOK
  <2>15. \A b \in Customers, o \in Orders :
             profiles'[b].orders[o] <= Limit(b, o)' \/ profiles'[b].orders[o] = profiles[b].orders[o]
    BY <2>12, <2>13, <2>14
  <2> QED
    BY <1>k, <2>4, <2>5, <2>8, <2>15
<1>10. ASSUME Ack PROVE RefsInv'
  <2>1. /\ queue \in Seq(Orders) /\ queue # <<>> /\ queue' = Tail(queue) /\ Distinct(queue)
        /\ at[Consumer].step = "saved" /\ Goes(Consumer, Idle)
        /\ UNCHANGED <<profiles, customerOf, faults>>
    BY <1>10, <1>i DEF Ack, Ends, TypeOK, RefsInv
  <2>2. at'[Consumer] = Idle /\ \A u \in Threads : u # Consumer => at'[u] = at[u]
    BY <1>c, <1>g, <2>1
  <2>3. Distinct(queue') /\ \A o : InQueue(o)' => o # Head(queue)
    BY <2>1, AckedDistinct
  <2>4. \A o : InQueue(o)' => InQueue(o)
    BY <2>1, AckedLeaves
  <2>5. \A o \in Orders : Pending(o)' => Pending(o)
    BY <2>3, <2>4 DEF Pending
  <2>6. Steady
    BY <1>f, <2>1, <2>3, <2>4, <2>5 DEF Steady
  <2> QED
    BY <1>i, <1>k, <2>1, <2>2, <2>6
<1>11. ASSUME NEW t \in Threads, MongoRaises(t) PROVE RefsInv'
  <2>1. UNCHANGED <<profiles, customerOf>> /\ Goes(t, Idle) /\ faults' = faults + 1
    BY <1>11 DEF MongoRaises, Ends, Fault
  <2>2. at'[t] = Idle /\ \A u \in Threads : u # t => at'[u] = at[u]
    BY <1>g, <2>1
  <2>3. Distinct(queue') /\ \A o : InQueue(o)' => InQueue(o)
    <3>1. CASE t = Consumer
      <4>1. Requeues /\ queue # <<>> /\ queue \in Seq(Orders) /\ Distinct(queue)
        BY <1>11, <3>1 DEF MongoRaises, TypeOK, RefsInv
      <4> QED
        BY <4>1, RequeuedDistinct, RequeuedStays
    <3>2. CASE t # Consumer
      BY <1>11, <3>2 DEF MongoRaises, RefsInv, InQueue
    <3> QED
      BY <3>1, <3>2
  <2>4. Steady
    BY <1>f, <2>1, <2>3 DEF Steady
  <2> QED
    BY <1>i, <1>k, <2>1, <2>2, <2>4
<1>12. ASSUME Restart PROVE RefsInv'
  <2>1. UNCHANGED <<profiles, customerOf, queue>> /\ faults' = faults + 1
    BY <1>12 DEF Restart, Fault
  <2>2. \A t \in Threads : at'[t].step = "idle"
    BY <1>12, <1>i DEF Restart
  <2>3. Steady
    BY <1>f, <2>1 DEF Steady, InQueue, RefsInv
  <2> QED
    BY <1>k, <2>1, <2>2, <2>3
<1>13. CASE UNCHANGED vars
  BY <1>13, <1>c, <1>k, <1>s DEF vars
<1> QED
  BY <1>c, <1>1, <1>2, <1>3, <1>4, <1>5, <1>6, <1>7, <1>8, <1>9, <1>10, <1>11, <1>12, <1>13, Steps

\* RefsAreRedeliveries: an order is in the history of its customer once more at
\* most for each fault that may have had it delivered again.
THEOREM RefsAreOnlyRedeliveries == Spec => []RefsAreRedeliveries
<1>1. TypeOK /\ RefsInv => RefsAreRedeliveries
  <2> SUFFICES ASSUME TypeOK, RefsInv, NEW c \in Customers, NEW o \in Orders
               PROVE  profiles[c].orders[o] <= IF customerOf[o] = c THEN 1 + faults ELSE 0
    BY DEF RefsAreRedeliveries
  <2>1. faults \in Nat /\ profiles[c].orders[o] \in Nat
    BY BoundsAssumption, CountType DEF TypeOK
  <2>2. profiles[c].orders[o] <= Limit(c, o)
    BY DEF RefsInv
  <2>3. Limit(c, o) \in Nat /\ Limit(c, o) <= IF customerOf[o] = c THEN 1 + faults ELSE 0
    BY <2>1 DEF Limit
  <2> QED
    BY <2>1, <2>2, <2>3
<1> QED
  BY <1>1, InitType, NextType, InitHere, NextHere, InitHistory, NextHistory, InitRefs, NextRefs,
     PTL DEF Spec
=============================================================================
