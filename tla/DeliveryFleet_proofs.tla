------------------------ MODULE DeliveryFleet_proofs ------------------------
(***************************************************************************)
(* Proofs about DeliveryFleet: that deliverers are neither lost nor carry  *)
(* two deliveries, that deliveries are announced and orders acknowledged   *)
(* only with a delivery, for any number of each and of faults.             *)
(***************************************************************************)
EXTENDS DeliveryFleet, SequenceTheorems, FiniteSetTheorems, TLAPS

-----------------------------------------------------------------------------
(* What the operators do *)

Jobs == [step : Steps, deliverer : Deliverers \cup {NoOne}]

Places == Orders \cup Ids \cup {NoOne}

DeliveryType == [order : Orders \cup {NoOne}, deliverer : Deliverers \cup {NoOne}, status : Statuses]

LEMMA NoJobType == NoJob \in Jobs /\ NoJob.step = "idle" /\ NoJob.deliverer = NoOne
BY DEF NoJob, Jobs, Steps

LEMMA HandlerType ==
    ASSUME NEW t \in Threads
    PROVE  <<t, 0>> \in Handlers
BY BoundsAssumption DEF Handlers

\* Besides the types: a thread in the middle of a request knows what it is about.
TypeInv ==
    /\ TypeOK
    /\ \A t \in Threads : pc[t] = "assigning" => on[t] \in Orders
    /\ \A t \in Threads : pc[t] \in {"confirming", "moving", "confirmed", "failed"} =>
           on[t] \in Ids /\ deliveries[on[t]].status # "none"
    /\ \A x \in Ids : deliveries[x].status # "none" => deliveries[x].deliverer \in Deliverers
    /\ \A h \in Handlers : job[h].step \in {"save", "release"} => job[h].deliverer \in Deliverers

\* The consumer works on the message at the head of its queue.
ConsumerInv ==
    /\ pc[Consumer] \in {"idle", "assigning", "saved"}
    /\ pc[Consumer] # "idle" => ready # <<>>
    /\ pc[Consumer] = "assigning" => on[Consumer] = Head(ready)
    /\ pc[Consumer] = "saved" =>
           \E x \in Ids : deliveries[x].status # "none" /\ deliveries[x].order = Head(ready)

\* Thread t is now at a place, and nobody else moved.
Sits(t, to, y) ==
    /\ pc' \in [Threads -> PCs] /\ on' \in [Threads -> Places]
    /\ pc'[t] = to /\ on'[t] = y
    /\ \A u \in Threads : u # t => pc'[u] = pc[u] /\ on'[u] = on[u]

LEMMA GoesSits ==
    ASSUME TypeOK, NEW t \in Threads, NEW from, NEW to \in PCs, NEW y \in Places, Goes(t, from, to, y)
    PROVE  pc[t] = from /\ Sits(t, to, y)
BY DEF TypeOK, Goes, Sits, Places

LEMMA EndsSits ==
    ASSUME TypeOK, NEW t \in Threads, NEW from, Ends(t, from)
    PROVE  pc[t] = from /\ Sits(t, "idle", NoOne)
<1>1. "idle" \in PCs /\ NoOne \in Places
  BY DEF PCs, Places
<1> QED
  BY <1>1, GoesSits DEF Ends

LEMMA GoesOnSits ==
    ASSUME TypeOK, NEW t \in Threads, NEW from, NEW to \in PCs, GoesOn(t, from, to)
    PROVE  pc[t] = from /\ Sits(t, to, on[t])
<1>1. on[t] \in Places
  BY DEF TypeOK, Places
<1> QED
  BY <1>1, GoesSits DEF GoesOn

\* Handler h has job j now, and the others what they had.
JobIs(h, j) ==
    /\ job' \in [Handlers -> Jobs] /\ job'[h] = j
    /\ \A g \in Handlers : g # h => job'[g] = job[g]

LEMMA ReplacesJob ==
    ASSUME TypeOK, NEW h \in Handlers, NEW j \in Jobs, job' = [job EXCEPT ![h] = j]
    PROVE  JobIs(h, j)
BY DEF TypeOK, JobIs, Jobs

LEMMA AsksJob ==
    ASSUME TypeOK, NEW t \in Threads, NEW step \in Steps, NEW d \in Deliverers \cup {NoOne},
           Asks(t, step, d)
    PROVE  JobIs(<<t, 0>>, [step |-> step, deliverer |-> d])
<1>1. [step |-> step, deliverer |-> d] \in Jobs
  BY DEF Jobs
<1> QED
  BY <1>1, HandlerType, ReplacesJob DEF Asks

LEMMA RepliesJob ==
    ASSUME TypeOK, NEW h \in Handlers, NEW step \in Steps, NEW d \in Deliverers \cup {NoOne},
           Replies(h, step, d)
    PROVE  JobIs(h, IF h[2] = 0 THEN [step |-> step, deliverer |-> d] ELSE NoJob)
<1>1. [step |-> step, deliverer |-> d] \in Jobs
  BY DEF Jobs
<1> QED
  BY <1>1, NoJobType, ReplacesJob DEF Replies

\* Delivery x is v now, and the others what they were.
DeliveryIs(x, v) ==
    /\ deliveries' \in [Ids -> DeliveryType] /\ deliveries'[x] = v
    /\ \A y \in Ids : y # x => deliveries'[y] = deliveries[y]

LEMMA SetsDelivery ==
    ASSUME TypeOK, NEW x \in Ids, NEW s \in Statuses, Sets(x, s)
    PROVE  \E v \in DeliveryType :
               /\ DeliveryIs(x, v) /\ v.status = s
               /\ v.order = deliveries[x].order /\ v.deliverer = deliveries[x].deliverer
               /\ shared' = IF IsActive(x) THEN shared ELSE shared \cup {deliveries[x].deliverer}
<1> DEFINE v == [deliveries[x] EXCEPT !.status = s]
<1>1. deliveries \in [Ids -> DeliveryType]
  BY DEF TypeOK, DeliveryType
<1>2. /\ v \in DeliveryType /\ v.status = s
      /\ v.order = deliveries[x].order /\ v.deliverer = deliveries[x].deliverer
  BY <1>1 DEF DeliveryType
<1>3. deliveries' = [deliveries EXCEPT ![x] = v]
  BY DEF Sets
<1> HIDE DEF v
<1>4. DeliveryIs(x, v)
  BY <1>1, <1>2, <1>3 DEF DeliveryIs
<1> QED
  BY <1>2, <1>4 DEF Sets

\* Jobs only change places, and the calls of ts are over.
Moved(ts) ==
    /\ job' \in [Handlers -> Jobs]
    /\ \A t \in ts : job'[<<t, 0>>] = NoJob
    /\ \A t \in Threads \ ts : job'[<<t, 0>>] = job[<<t, 0>>]
    /\ \E from \in [Handlers -> Handlers] :
           /\ \A h \in Handlers : job'[h] = NoJob \/ job'[h] = job[from[h]]
           /\ \A g, h \in Handlers : job'[g] # NoJob /\ job'[h] # NoJob /\ from[g] = from[h] => g = h

LEMMA AbandonsMoves ==
    ASSUME TypeOK, NEW ts \in SUBSET Threads, Abandons(ts)
    PROVE  Moved(ts)
<1> DEFINE goes(h) == /\ h[1] \in ts /\ h[2] = faults + 1
                      /\ job[<<h[1], 0>>].step \notin {"assigned", "released"}
           over(h) == h[1] \in ts /\ h[2] = 0
           from == [h \in Handlers |-> IF goes(h) THEN <<h[1], 0>> ELSE h]
<1>1. \A h \in Handlers : job'[h] = IF over(h) THEN NoJob ELSE IF goes(h) THEN job[<<h[1], 0>>] ELSE job[h]
  BY DEF Abandons
<1>2. DOMAIN job' = Handlers /\ job' = [h \in Handlers |-> job'[h]]
  BY DEF Abandons
<1>3. \A h \in Handlers : /\ h[1] \in Threads /\ h[2] \in 0 .. MaxFaults
                          /\ <<h[1], 0>> \in Handlers /\ h = <<h[1], h[2]>>
  BY BoundsAssumption DEF Handlers
<1>4. job \in [Handlers -> Jobs]
  BY DEF TypeOK, Jobs
<1>5. \A t \in Threads : <<t, 0>> \in Handlers /\ <<t, 0>>[1] = t /\ <<t, 0>>[2] = 0
  BY HandlerType
<1>6. faults + 1 # 0
  BY BoundsAssumption DEF TypeOK
<1>7. \A h \in Handlers : goes(h) => h[1] \in ts /\ h[2] = faults + 1
  OBVIOUS
<1>8. \A h \in Handlers : over(h) <=> h[1] \in ts /\ h[2] = 0
  OBVIOUS
<1> HIDE DEF goes, over
<1>9. job' \in [Handlers -> Jobs]
  BY <1>1, <1>2, <1>3, <1>4, NoJobType
<1>10. \A t \in ts : job'[<<t, 0>>] = NoJob
  BY <1>1, <1>5, <1>8
<1>11. \A t \in Threads \ ts : job'[<<t, 0>>] = job[<<t, 0>>]
  BY <1>1, <1>5, <1>7, <1>8
<1>12. from \in [Handlers -> Handlers]
  BY <1>3
<1>13. \A h \in Handlers : from[h] = IF goes(h) THEN <<h[1], 0>> ELSE h
  OBVIOUS
<1> HIDE DEF from
<1>14. \A h \in Handlers : job'[h] = NoJob \/ job'[h] = job[from[h]]
  BY <1>1, <1>13
<1>15. ASSUME NEW g \in Handlers, NEW h \in Handlers, job'[g] # NoJob, job'[h] # NoJob, from[g] = from[h]
       PROVE  g = h
  <2>1. ~over(g) /\ ~over(h)
    BY <1>1, <1>15
  <2>2. CASE goes(g) /\ goes(h)
    <3>1. <<g[1], 0>> = <<h[1], 0>>
      BY <1>13, <1>15, <2>2
    <3>2. g[1] = h[1] /\ g[2] = h[2]
      BY <1>7, <2>2, <3>1
    <3> QED
      BY <1>3, <3>2
  <2>3. CASE goes(g) /\ ~goes(h)
    <3>1. h = <<g[1], 0>>
      BY <1>13, <1>15, <2>3
    <3>2. over(h)
      BY <1>7, <1>8, <2>3, <3>1
    <3> QED
      BY <2>1, <3>2
  <2>4. CASE ~goes(g) /\ goes(h)
    <3>1. g = <<h[1], 0>>
      BY <1>13, <1>15, <2>4
    <3>2. over(g)
      BY <1>7, <1>8, <2>4, <3>1
    <3> QED
      BY <2>1, <3>2
  <2>5. CASE ~goes(g) /\ ~goes(h)
    BY <1>13, <1>15, <2>5
  <2> QED
    BY <2>2, <2>3, <2>4, <2>5
<1> QED
  BY <1>9, <1>10, <1>11, <1>12, <1>14, <1>15 DEF Moved

-----------------------------------------------------------------------------
(* What each action does *)

Kept(v) == v' = v

\* Only the jobs, and perhaps the fleet, change when deliverer-service works.
Served == UNCHANGED <<deliveries, ready, pc, on, announced, faults>>

LEMMA AssignFindDoes ==
    ASSUME TypeInv, NEW h \in Handlers, AssignFind(h)
    PROVE  /\ Served /\ Kept(fleet) /\ job[h].step = "find"
           /\ \/ \E d \in Deliverers :
                  /\ fleet[d] = "AVAILABLE"
                  /\ JobIs(h, [step |-> "save", deliverer |-> d])
                  /\ shared' = IF \E g \in Handlers : job[g].step = "save" /\ job[g].deliverer = d
                               THEN shared \cup {d} ELSE shared
              \/ /\ JobIs(h, IF h[2] = 0 THEN [step |-> "assigned", deliverer |-> NoOne] ELSE NoJob)
                 /\ Kept(shared)
<1>1. CASE \E d \in {e \in Deliverers : fleet[e] = "AVAILABLE"} :
               /\ job' = [job EXCEPT ![h] = [step |-> "save", deliverer |-> d]]
               /\ shared' = IF \E g \in Handlers : job[g].step = "save" /\ job[g].deliverer = d
                            THEN shared \cup {d} ELSE shared
  <2>1. PICK d \in Deliverers :
               /\ fleet[d] = "AVAILABLE"
               /\ job' = [job EXCEPT ![h] = [step |-> "save", deliverer |-> d]]
               /\ shared' = IF \E g \in Handlers : job[g].step = "save" /\ job[g].deliverer = d
                            THEN shared \cup {d} ELSE shared
    BY <1>1
  <2>2. [step |-> "save", deliverer |-> d] \in Jobs
    BY DEF Jobs, Steps
  <2>3. JobIs(h, [step |-> "save", deliverer |-> d])
    BY <2>1, <2>2, ReplacesJob DEF TypeInv
  <2>4. Served /\ Kept(fleet) /\ job[h].step = "find"
    BY DEF AssignFind, Served, Kept
  <2> QED
    BY <2>1, <2>3, <2>4
<1>2. CASE Replies(h, "assigned", NoOne) /\ UNCHANGED shared
  <2>1. "assigned" \in Steps
    BY DEF Steps
  <2>2. JobIs(h, IF h[2] = 0 THEN [step |-> "assigned", deliverer |-> NoOne] ELSE NoJob)
    BY <1>2, <2>1, RepliesJob DEF TypeInv
  <2> QED
    BY <1>2, <2>2 DEF AssignFind, Served, Kept
<1> QED
  BY <1>1, <1>2 DEF AssignFind

LEMMA AssignSaveDoes ==
    ASSUME TypeInv, NEW h \in Handlers, AssignSave(h)
    PROVE  \E d \in Deliverers :
               /\ Served /\ Kept(shared) /\ job[h].step = "save" /\ job[h].deliverer = d
               /\ fleet' = [fleet EXCEPT ![d] = "BUSY"]
               /\ JobIs(h, IF h[2] = 0 THEN [step |-> "assigned", deliverer |-> d] ELSE NoJob)
<1>1. PICK d \in Deliverers : job[h].deliverer = d
  BY DEF TypeInv, AssignSave
<1>2. "assigned" \in Steps
  BY DEF Steps
<1>3. JobIs(h, IF h[2] = 0 THEN [step |-> "assigned", deliverer |-> d] ELSE NoJob)
  BY <1>1, <1>2, RepliesJob DEF TypeInv, AssignSave
<1> QED
  BY <1>1, <1>3 DEF AssignSave, Served, Kept

LEMMA ReleaseDoes ==
    ASSUME TypeInv, NEW h \in Handlers, Release(h)
    PROVE  \E d \in Deliverers :
               /\ Served /\ Kept(shared) /\ job[h].step = "release" /\ job[h].deliverer = d
               /\ fleet' = [fleet EXCEPT ![d] = "AVAILABLE"]
               /\ JobIs(h, IF h[2] = 0 THEN [step |-> "released", deliverer |-> NoOne] ELSE NoJob)
<1>1. PICK d \in Deliverers : job[h].deliverer = d
  BY DEF TypeInv, Release
<1>2. "released" \in Steps
  BY DEF Steps
<1>3. JobIs(h, IF h[2] = 0 THEN [step |-> "released", deliverer |-> NoOne] ELSE NoJob)
  BY <1>2, RepliesJob DEF TypeInv, Release
<1> QED
  BY <1>1, <1>3 DEF Release, Served, Kept

LEMMA CallLostDoes ==
    ASSUME TypeInv, NEW h \in Handlers, CallLost(h)
    PROVE  /\ JobIs(h, NoJob) /\ UNCHANGED <<fleet, deliveries, ready, pc, on, announced, shared>>
           /\ faults' \in 0 .. MaxFaults /\ faults' # 0
<1>1. JobIs(h, NoJob)
  BY NoJobType, ReplacesJob DEF TypeInv, CallLost
<1> QED
  BY <1>1, BoundsAssumption DEF CallLost, Fault, TypeInv, TypeOK

LEMMA AssignDoes ==
    ASSUME TypeInv, NEW t \in Threads, NEW o \in Orders, Assign(t, o)
    PROVE  /\ pc[t] = "idle" /\ Sits(t, "assigning", o)
           /\ JobIs(<<t, 0>>, [step |-> "find", deliverer |-> NoOne])
           /\ UNCHANGED <<fleet, deliveries, ready, announced, faults, shared>>
           /\ t = Consumer => ready # <<>> /\ o = Head(ready)
<1>1. "assigning" \in PCs /\ "find" \in Steps /\ o \in Places
  BY DEF PCs, Calling, Steps, Places
<1>2. pc[t] = "idle" /\ Sits(t, "assigning", o)
  BY <1>1, GoesSits DEF Assign, TypeInv
<1>3. JobIs(<<t, 0>>, [step |-> "find", deliverer |-> NoOne])
  BY <1>1, AsksJob DEF Assign, TypeInv
<1> QED
  BY <1>2, <1>3 DEF Assign

\* The message at the head of the queue goes to its end.
LEMMA Requeued ==
    ASSUME ready \in Seq(Orders), ready # <<>>
    PROVE  /\ Append(Tail(ready), Head(ready)) \in Seq(Orders)
           /\ \A o \in Orders : (\E i \in DOMAIN ready : ready[i] = o) =>
                  \E i \in DOMAIN Append(Tail(ready), Head(ready)) : Append(Tail(ready), Head(ready))[i] = o
<1> DEFINE w == Tail(ready)
           h == Head(ready)
<1>1. /\ w \in Seq(Orders) /\ h \in Orders /\ h = ready[1] /\ Len(w) = Len(ready) - 1 /\ Len(ready) \in Nat
      /\ \A i \in 1 .. Len(w) : w[i] = ready[i + 1]
  BY HeadTailProperties
<1> HIDE DEF w, h
<1>2. /\ Append(w, h) \in Seq(Orders) /\ Len(Append(w, h)) = Len(ready)
      /\ Append(w, h)[Len(ready)] = h
      /\ \A i \in 1 .. Len(w) : Append(w, h)[i] = ready[i + 1]
  BY <1>1, AppendProperties
<1>3. ASSUME NEW i \in DOMAIN ready
      PROVE  \E j \in DOMAIN Append(w, h) : Append(w, h)[j] = ready[i]
  <2>1. i \in 1 .. Len(ready)
    BY <1>3
  <2>2. DOMAIN Append(w, h) = 1 .. Len(ready)
    BY <1>2
  <2>3. CASE i = 1
    BY <1>1, <1>2, <2>1, <2>2, <2>3
  <2>4. CASE i # 1
    <3>1. i - 1 \in 1 .. Len(w) /\ i - 1 + 1 = i /\ i - 1 \in 1 .. Len(ready)
      BY <1>1, <2>1, <2>4
    <3>2. Append(w, h)[i - 1] = ready[i]
      BY <1>2, <3>1
    <3> QED
      BY <2>2, <3>1, <3>2
  <2> QED
    BY <2>3, <2>4
<1>4. \A o \in Orders : (\E i \in DOMAIN ready : ready[i] = o) =>
          \E j \in DOMAIN Append(w, h) : Append(w, h)[j] = o
  BY <1>3
<1> QED
  BY <1>2, <1>4 DEF w, h

\* No message leaves the queue.
Stays == ready' \in Seq(Orders) /\ \A o \in Orders : InQueue(o) => InQueue(o)'

LEMMA GiveUpDoes ==
    ASSUME TypeInv, ConsumerInv, NEW t \in Threads, GiveUp(t)
    PROVE  /\ pc[t] = "assigning" /\ Sits(t, "idle", NoOne)
           /\ UNCHANGED <<fleet, deliveries, announced, shared>>
           /\ Stays /\ (t # Consumer => ready' = ready)
<1>1. pc[t] = "assigning" /\ Sits(t, "idle", NoOne)
  BY EndsSits DEF GiveUp, TypeInv
<1>2. ready \in Seq(Orders)
  BY DEF TypeInv, TypeOK
<1>3. CASE t = Consumer
  <2>1. ready # <<>> /\ ready' = Append(Tail(ready), Head(ready))
    BY <1>1, <1>3 DEF ConsumerInv, GiveUp
  <2>2. Stays
    BY <1>2, <2>1, Requeued DEF Stays, InQueue
  <2> QED
    BY <1>1, <1>3, <2>2 DEF GiveUp
<1>4. CASE t # Consumer
  BY <1>1, <1>2, <1>4 DEF GiveUp, Stays, InQueue
<1> QED
  BY <1>3, <1>4

\* The call of thread t is over, and so is its request.
Over(t) ==
    /\ pc[t] \in Calling /\ Sits(t, "idle", NoOne)
    /\ UNCHANGED <<fleet, deliveries, shared>>
    /\ announced' \subseteq Ids /\ announced \subseteq announced'
    /\ Stays /\ (t # Consumer => ready' = ready)

LEMMA GiveUpIsOver ==
    ASSUME TypeInv, ConsumerInv, NEW t \in Threads, GiveUp(t)
    PROVE  Over(t) /\ pc[t] = "assigning"
<1>1. announced \subseteq Ids
  BY DEF TypeInv, TypeOK
<1> QED
  BY <1>1, GiveUpDoes DEF Over, Calling

\* A fault is counted when it happens, and never forgotten.
Counted == faults' \in 0 .. MaxFaults /\ (faults' = 0 => faults' = faults)

LEMMA FaultsAreCounted ==
    ASSUME TypeInv, Fault \/ NoFault
    PROVE  Counted /\ (Fault => faults' # 0)
<1>1. faults \in 0 .. MaxFaults /\ MaxFaults \in Nat
  BY BoundsAssumption DEF TypeInv, TypeOK
<1>2. CASE Fault
  BY <1>1, <1>2 DEF Fault, Counted
<1>3. CASE NoFault
  BY <1>1, <1>3 DEF NoFault, Fault, Counted
<1> QED
  BY <1>2, <1>3

\* A publication is lost by a fault, or reaches the broker.
LEMMA PublishesIsOver ==
    ASSUME TypeInv, ConsumerInv, NEW t \in Threads, Publishes(t)
    PROVE  /\ Over(t) /\ pc[t] \in {"confirmed", "failed"} /\ t # Consumer /\ Counted
           /\ pc[t] = "confirmed" /\ faults' = 0 => announced' = announced \cup {on[t]}
<1>1. pc[t] \in {"confirmed", "failed"} /\ Sits(t, "idle", NoOne)
  BY EndsSits DEF Publishes, TypeInv
<1>2. t # Consumer /\ on[t] \in Ids
  BY <1>1 DEF ConsumerInv, TypeInv
<1>3. Counted /\ (pc[t] = "confirmed" /\ faults' = 0 => announced' = announced \cup {on[t]})
  <2>1. Counted /\ (Fault => faults' # 0)
    BY FaultsAreCounted DEF Publishes
  <2> QED
    BY <2>1 DEF Publishes, Ends, Goes
<1>4. announced' \subseteq Ids /\ announced \subseteq announced' /\ Stays
  BY <1>2 DEF Publishes, TypeInv, TypeOK, Stays, InQueue
<1> QED
  BY <1>1, <1>2, <1>3, <1>4 DEF Publishes, Over, Calling

LEMMA RaisesIsOver ==
    ASSUME TypeInv, ConsumerInv, NEW t \in Threads, Raises(t)
    PROVE  Over(t)
<1>1. CASE GiveUp(t)
  BY <1>1, GiveUpIsOver
<1>2. CASE /\ Ends(t, "confirmed") \/ Ends(t, "failed")
           /\ UNCHANGED <<fleet, deliveries, ready, announced, shared>>
  <2>1. pc[t] \in {"confirmed", "failed"} /\ Sits(t, "idle", NoOne)
    BY <1>2, EndsSits DEF TypeInv
  <2>2. announced' \subseteq Ids /\ announced \subseteq announced' /\ Stays
    BY <1>2 DEF TypeInv, TypeOK, Stays, InQueue
  <2> QED
    BY <1>2, <2>1, <2>2 DEF Over, Calling
<1> QED
  BY <1>1, <1>2 DEF Raises

\* A delivery of order o is given to d, under an id that was free.
Saved(o, d) ==
    \E x \in Free : /\ DeliveryIs(x, [order |-> o, deliverer |-> d, status |-> "ASSIGNED"])
                    /\ UNCHANGED <<fleet, ready, announced, shared>>

LEMMA AssignedDoes ==
    ASSUME TypeInv, ConsumerInv, NEW t \in Threads, Assigned(t)
    PROVE  /\ job[<<t, 0>>].step = "assigned" /\ JobIs(<<t, 0>>, NoJob) /\ Kept(faults)
           /\ pc[t] = "assigning" /\ on[t] \in Orders
           /\ \/ job[<<t, 0>>].deliverer = NoOne /\ Over(t)
              \/ \E d \in Deliverers :
                  /\ job[<<t, 0>>].deliverer = d /\ Saved(on[t], d)
                  /\ IF t = Consumer THEN Sits(t, "saved", on[t]) ELSE Sits(t, "idle", NoOne)
<1>1. JobIs(<<t, 0>>, NoJob) /\ job[<<t, 0>>].step = "assigned" /\ Kept(faults)
  BY HandlerType, NoJobType, ReplacesJob DEF TypeInv, Assigned, NoFault, Kept
<1>2. CASE job[<<t, 0>>].deliverer = NoOne /\ GiveUp(t)
  <2>1. Over(t) /\ pc[t] = "assigning"
    BY <1>2, GiveUpIsOver
  <2>2. on[t] \in Orders
    BY <2>1 DEF TypeInv
  <2> QED
    BY <1>1, <1>2, <2>1, <2>2
<1>3. CASE /\ job[<<t, 0>>].deliverer # NoOne
           /\ IF t = Consumer THEN GoesOn(t, "assigning", "saved") ELSE Ends(t, "assigning")
           /\ Free # {}
           /\ deliveries' = [deliveries EXCEPT ![CHOOSE x \in Free : TRUE] =
                 [order |-> on[t], deliverer |-> job[<<t, 0>>].deliverer, status |-> "ASSIGNED"]]
           /\ UNCHANGED <<fleet, ready, announced, shared>>
  <2>1. PICK d \in Deliverers : job[<<t, 0>>].deliverer = d
    BY <1>3, HandlerType DEF TypeInv, TypeOK
  <2>2. PICK x \in Free : x = CHOOSE y \in Free : TRUE
    BY <1>3
  <2>3. /\ pc[t] = "assigning"
        /\ IF t = Consumer THEN Sits(t, "saved", on[t]) ELSE Sits(t, "idle", NoOne)
    <3>1. "saved" \in PCs
      BY DEF PCs
    <3> QED
      BY <1>3, <3>1, EndsSits, GoesOnSits DEF TypeInv
  <2>4. on[t] \in Orders
    BY <2>3 DEF TypeInv
  <2>5. PICK o \in Orders : o = on[t]
    BY <2>4
  <2> DEFINE v == [order |-> o, deliverer |-> d, status |-> "ASSIGNED"]
  <2>6. v \in DeliveryType
    BY DEF DeliveryType, Statuses, Active
  <2>7. deliveries' = [deliveries EXCEPT ![x] = v] /\ deliveries \in [Ids -> DeliveryType] /\ x \in Ids
    BY <1>3, <2>1, <2>2, <2>5 DEF TypeInv, TypeOK, DeliveryType, Free
  <2> HIDE DEF v
  <2>8. DeliveryIs(x, v)
    BY <2>6, <2>7 DEF DeliveryIs
  <2>9. Saved(o, d)
    BY <1>3, <2>8 DEF Saved, v
  <2> QED
    BY <1>1, <2>1, <2>3, <2>4, <2>5, <2>9
<1> QED
  BY <1>2, <1>3 DEF Assigned

LEMMA AckDoes ==
    ASSUME TypeInv, ConsumerInv, Ack
    PROVE  /\ pc[Consumer] = "saved" /\ Sits(Consumer, "idle", NoOne)
           /\ UNCHANGED <<fleet, deliveries, job, announced, faults, shared>>
           /\ ready' \in Seq(Orders) /\ ready # <<>> /\ ready' = Tail(ready)
<1>1. Consumer \in Threads
  BY DEF Threads
<1>2. pc[Consumer] = "saved" /\ Sits(Consumer, "idle", NoOne)
  BY <1>1, EndsSits DEF Ack, TypeInv
<1>3. ready # <<>> /\ ready \in Seq(Orders)
  BY <1>2 DEF ConsumerInv, TypeInv, TypeOK
<1>4. Tail(ready) \in Seq(Orders)
  BY <1>3, HeadTailProperties
<1> QED
  BY <1>2, <1>3, <1>4 DEF Ack

LEMMA TestsDoes ==
    ASSUME TypeInv, NEW t \in Threads, NEW x \in Ids, NEW to \in {"confirming", "moving"}, Tests(t, x, to)
    PROVE  /\ pc[t] = "idle" /\ Sits(t, to, x) /\ IsActive(x)
           /\ UNCHANGED <<fleet, deliveries, ready, job, announced, faults, shared>>
<1>1. to \in PCs /\ x \in Places
  BY DEF PCs, Places
<1> QED
  BY <1>1, GoesSits DEF Tests, TypeInv

\* Delivery x has status s, and who may have been given away is noted.
Marked(x, s) ==
    \E v \in DeliveryType :
        /\ DeliveryIs(x, v) /\ v.status = s
        /\ v.order = deliveries[x].order /\ v.deliverer = deliveries[x].deliverer
        /\ shared' = IF IsActive(x) THEN shared ELSE shared \cup {deliveries[x].deliverer}

LEMMA UpdateLocationDoes ==
    ASSUME TypeInv, NEW t \in Threads, UpdateLocation(t)
    PROVE  /\ pc[t] = "moving" /\ Sits(t, "idle", NoOne)
           /\ \E x \in Ids : on[t] = x /\ deliveries[x].status # "none" /\ Marked(x, "IN_TRANSIT")
           /\ UNCHANGED <<fleet, ready, job, announced, faults>>
<1>1. pc[t] = "moving" /\ Sits(t, "idle", NoOne)
  BY EndsSits DEF UpdateLocation, TypeInv
<1>2. PICK x \in Ids : on[t] = x /\ deliveries[x].status # "none"
  BY <1>1 DEF TypeInv
<1>3. "IN_TRANSIT" \in Statuses
  BY DEF Statuses, Active
<1>4. Marked(x, "IN_TRANSIT")
  BY <1>2, <1>3, SetsDelivery DEF UpdateLocation, TypeInv, Marked
<1> QED
  BY <1>1, <1>2, <1>4 DEF UpdateLocation

\* Thread t asks to release the deliverer of x, which has status s now.
Frees(t, x, s) ==
    /\ deliveries[x].status # "none" /\ Marked(x, s)
    /\ JobIs(<<t, 0>>, [step |-> "release", deliverer |-> deliveries[x].deliverer])
    /\ UNCHANGED <<fleet, ready, announced, faults>>

LEMMA ConfirmDeliveryDoes ==
    ASSUME TypeInv, NEW t \in Threads, ConfirmDelivery(t)
    PROVE  \E x \in Ids : pc[t] = "confirming" /\ Sits(t, "confirmed", x) /\ Frees(t, x, "DELIVERED")
<1>1. "confirmed" \in PCs /\ "release" \in Steps /\ "DELIVERED" \in Statuses
  BY DEF PCs, Calling, Steps, Statuses
<1>2. pc[t] = "confirming" /\ Sits(t, "confirmed", on[t])
  BY <1>1, GoesOnSits DEF ConfirmDelivery, TypeInv
<1>3. PICK x \in Ids : on[t] = x /\ deliveries[x].status # "none"
  BY <1>2 DEF TypeInv
<1>4. Marked(x, "DELIVERED")
  BY <1>1, <1>3, SetsDelivery DEF ConfirmDelivery, TypeInv, Marked
<1>5. deliveries[x].deliverer \in Deliverers
  BY <1>3 DEF TypeInv
<1>6. JobIs(<<t, 0>>, [step |-> "release", deliverer |-> deliveries[x].deliverer])
  BY <1>1, <1>3, <1>5, AsksJob DEF ConfirmDelivery, TypeInv
<1> QED
  BY <1>2, <1>3, <1>4, <1>6 DEF ConfirmDelivery, Frees

LEMMA FailDeliveryDoes ==
    ASSUME TypeInv, NEW t \in Threads, NEW x \in Ids, FailDelivery(t, x)
    PROVE  pc[t] = "idle" /\ Sits(t, "failed", x) /\ Frees(t, x, "FAILED")
<1>1. "failed" \in PCs /\ "release" \in Steps /\ "FAILED" \in Statuses /\ x \in Places
  BY DEF PCs, Calling, Steps, Statuses, Places
<1>2. pc[t] = "idle" /\ Sits(t, "failed", x)
  BY <1>1, GoesSits DEF FailDelivery, TypeInv
<1>3. Marked(x, "FAILED")
  BY <1>1, SetsDelivery DEF FailDelivery, TypeInv, Marked
<1>4. deliveries[x].deliverer \in Deliverers
  BY DEF TypeInv, FailDelivery
<1>5. JobIs(<<t, 0>>, [step |-> "release", deliverer |-> deliveries[x].deliverer])
  BY <1>1, <1>4, AsksJob DEF FailDelivery, TypeInv
<1> QED
  BY <1>2, <1>3, <1>5 DEF FailDelivery, Frees

LEMMA ReleasedDoes ==
    ASSUME TypeInv, ConsumerInv, NEW t \in Threads, Released(t)
    PROVE  /\ job[<<t, 0>>].step = "released" /\ JobIs(<<t, 0>>, NoJob) /\ Counted
           /\ Over(t) /\ t # Consumer
           /\ pc[t] = "confirmed" /\ faults' = 0 => announced' = announced \cup {on[t]}
<1>1. JobIs(<<t, 0>>, NoJob)
  BY HandlerType, NoJobType, ReplacesJob DEF TypeInv, Released
<1> QED
  BY <1>1, PublishesIsOver DEF Released

LEMMA NoReplyDoes ==
    ASSUME TypeInv, ConsumerInv, NEW t \in Threads, NoReply(t)
    PROVE  job[<<t, 0>>] = NoJob /\ pc[t] \in Calling /\ Over(t) /\ job' = job /\ Counted
<1>1. Over(t)
  BY RaisesIsOver, PublishesIsOver DEF NoReply
<1>2. Counted
  BY FaultsAreCounted, PublishesIsOver DEF NoReply
<1> QED
  BY <1>1, <1>2 DEF NoReply

LEMMA TimesOutDoes ==
    ASSUME TypeInv, ConsumerInv, NEW t \in Threads, TimesOut(t)
    PROVE  Moved({t}) /\ Over(t) /\ faults' \in 0 .. MaxFaults /\ faults' # 0
<1>1. Moved({t})
  BY AbandonsMoves DEF TimesOut, TypeInv
<1>2. faults' \in 0 .. MaxFaults /\ faults' # 0
  BY BoundsAssumption DEF TimesOut, Fault, TypeInv, TypeOK
<1> QED
  BY <1>1, <1>2, RaisesIsOver DEF TimesOut

LEMMA RestartDoes ==
    ASSUME TypeInv, Restart
    PROVE  /\ Moved(Threads) /\ faults' \in 0 .. MaxFaults /\ faults' # 0
           /\ deliveries' = [x \in Ids |-> NoDelivery] /\ announced' = {}
           /\ pc' = [t \in Threads |-> "idle"] /\ on' = [t \in Threads |-> NoOne]
           /\ UNCHANGED <<fleet, ready, shared>>
<1>1. Moved(Threads)
  BY AbandonsMoves DEF Restart, TypeInv
<1>2. faults' \in 0 .. MaxFaults /\ faults' # 0
  BY BoundsAssumption DEF Restart, Fault, TypeInv, TypeOK
<1> QED
  BY <1>1, <1>2 DEF Restart

-----------------------------------------------------------------------------
(* Types, and where the consumer is *)

Inv == TypeInv /\ ConsumerInv

\* What TypeInv asks of the jobs, of the deliveries, and of the threads.
JobsAreTyped ==
    /\ job \in [Handlers -> Jobs]
    /\ \A h \in Handlers : job[h].step \in {"save", "release"} => job[h].deliverer \in Deliverers
    /\ \A t \in Threads : job[<<t, 0>>] # NoJob => pc[t] \in Calling

DeliveriesAreTyped ==
    /\ deliveries \in [Ids -> DeliveryType]
    /\ \A x \in Ids : deliveries[x].status # "none" => deliveries[x].deliverer \in Deliverers

ThreadsAreTyped ==
    /\ pc \in [Threads -> PCs] /\ on \in [Threads -> Places]
    /\ \A t \in Threads : pc[t] = "assigning" => on[t] \in Orders
    /\ \A t \in Threads : pc[t] \in {"confirming", "moving", "confirmed", "failed"} =>
           on[t] \in Ids /\ deliveries[on[t]].status # "none"

RestIsTyped ==
    /\ fleet \in [Deliverers -> DelivererStatus \cup {"none"}] /\ ready \in Seq(Orders)
    /\ announced \subseteq Ids /\ faults \in 0 .. MaxFaults /\ shared \subseteq Deliverers

LEMMA TypeParts ==
    TypeInv <=> JobsAreTyped /\ DeliveriesAreTyped /\ ThreadsAreTyped /\ RestIsTyped
BY DEF TypeInv, TypeOK, JobsAreTyped, DeliveriesAreTyped, ThreadsAreTyped, RestIsTyped, Jobs, DeliveryType, Places

LEMMA TypePartsNext ==
    ASSUME JobsAreTyped', DeliveriesAreTyped', ThreadsAreTyped', RestIsTyped'
    PROVE  TypeInv'
BY DEF TypeInv, TypeOK, JobsAreTyped, DeliveriesAreTyped, ThreadsAreTyped, RestIsTyped, Jobs, DeliveryType, Places

\* deliverer-service disturbs no thread of delivery-service.
LEMMA ServedKeepsInv ==
    ASSUME Inv, Served, fleet' \in [Deliverers -> DelivererStatus \cup {"none"}], shared' \subseteq Deliverers,
           NEW h \in Handlers, NEW j \in Jobs, JobIs(h, j),
           j.step \in {"save", "release"} => j.deliverer \in Deliverers,
           job[h] # NoJob \/ j = NoJob
    PROVE  Inv'
<1>1. JobsAreTyped /\ DeliveriesAreTyped /\ ThreadsAreTyped /\ RestIsTyped /\ ConsumerInv
  BY TypeParts DEF Inv
<1>2. JobsAreTyped'
  <2>1. \A t \in Threads : job'[<<t, 0>>] # NoJob => pc[t] \in Calling
    BY <1>1, HandlerType DEF JobsAreTyped, JobIs
  <2> QED
    BY <1>1, <2>1 DEF JobsAreTyped, JobIs, Served
<1>3. DeliveriesAreTyped' /\ ThreadsAreTyped' /\ RestIsTyped' /\ ConsumerInv'
  BY <1>1 DEF DeliveriesAreTyped, ThreadsAreTyped, RestIsTyped, ConsumerInv, Served
<1> QED
  BY <1>2, <1>3, TypePartsNext DEF Inv

LEMMA ServesType ==
    ASSUME Inv, NEW h \in Handlers, Serves(h)
    PROVE  Inv'
<1>1. job[h] \in Jobs /\ fleet \in [Deliverers -> DelivererStatus \cup {"none"}] /\ shared \subseteq Deliverers
  BY DEF Inv, TypeInv, TypeOK, Jobs
<1>2. CASE AssignFind(h)
  <2>1. job[h] # NoJob
    BY <1>2, NoJobType DEF AssignFind
  <2>2. CASE \E d \in Deliverers :
                 /\ fleet[d] = "AVAILABLE"
                 /\ JobIs(h, [step |-> "save", deliverer |-> d])
                 /\ shared' = IF \E g \in Handlers : job[g].step = "save" /\ job[g].deliverer = d
                              THEN shared \cup {d} ELSE shared
    <3>1. PICK d \in Deliverers :
                 /\ JobIs(h, [step |-> "save", deliverer |-> d])
                 /\ shared' = IF \E g \in Handlers : job[g].step = "save" /\ job[g].deliverer = d
                              THEN shared \cup {d} ELSE shared
      BY <2>2
    <3> DEFINE j == [step |-> "save", deliverer |-> d]
    <3>2. j \in Jobs /\ j.deliverer \in Deliverers /\ shared' \subseteq Deliverers /\ JobIs(h, j)
      BY <1>1, <3>1 DEF Jobs, Steps
    <3>3. Served /\ fleet' = fleet
      BY <1>2, AssignFindDoes DEF Inv, Kept
    <3> HIDE DEF j
    <3> QED
      BY <1>1, <2>1, <3>2, <3>3, ServedKeepsInv
  <2>3. CASE /\ JobIs(h, IF h[2] = 0 THEN [step |-> "assigned", deliverer |-> NoOne] ELSE NoJob)
             /\ Kept(shared)
    <3> DEFINE j == IF h[2] = 0 THEN [step |-> "assigned", deliverer |-> NoOne] ELSE NoJob
    <3>1. j \in Jobs /\ j.step \notin {"save", "release"} /\ JobIs(h, j)
      BY <2>3, NoJobType DEF Jobs, Steps
    <3>2. Served /\ fleet' = fleet /\ shared' = shared
      BY <1>2, <2>3, AssignFindDoes DEF Inv, Kept
    <3> HIDE DEF j
    <3> QED
      BY <1>1, <2>1, <3>1, <3>2, ServedKeepsInv
  <2> QED
    BY <1>2, <2>2, <2>3, AssignFindDoes DEF Inv
<1>3. CASE AssignSave(h)
  <2>1. PICK d \in Deliverers :
               /\ Served /\ Kept(shared) /\ job[h].step = "save" /\ job[h].deliverer = d
               /\ fleet' = [fleet EXCEPT ![d] = "BUSY"]
               /\ JobIs(h, IF h[2] = 0 THEN [step |-> "assigned", deliverer |-> d] ELSE NoJob)
    BY <1>3, AssignSaveDoes DEF Inv
  <2> DEFINE j == IF h[2] = 0 THEN [step |-> "assigned", deliverer |-> d] ELSE NoJob
  <2>2. j \in Jobs /\ j.step \notin {"save", "release"} /\ JobIs(h, j) /\ job[h] # NoJob
    BY <2>1, NoJobType DEF Jobs, Steps
  <2>3. fleet' \in [Deliverers -> DelivererStatus \cup {"none"}] /\ shared' \subseteq Deliverers
    BY <1>1, <2>1 DEF DelivererStatus, Kept
  <2> HIDE DEF j
  <2> QED
    BY <2>1, <2>2, <2>3, ServedKeepsInv
<1>4. CASE Release(h)
  <2>1. PICK d \in Deliverers :
               /\ Served /\ Kept(shared) /\ job[h].step = "release" /\ job[h].deliverer = d
               /\ fleet' = [fleet EXCEPT ![d] = "AVAILABLE"]
               /\ JobIs(h, IF h[2] = 0 THEN [step |-> "released", deliverer |-> NoOne] ELSE NoJob)
    BY <1>4, ReleaseDoes DEF Inv
  <2> DEFINE j == IF h[2] = 0 THEN [step |-> "released", deliverer |-> NoOne] ELSE NoJob
  <2>2. j \in Jobs /\ j.step \notin {"save", "release"} /\ JobIs(h, j) /\ job[h] # NoJob
    BY <2>1, NoJobType DEF Jobs, Steps
  <2>3. fleet' \in [Deliverers -> DelivererStatus \cup {"none"}] /\ shared' \subseteq Deliverers
    BY <1>1, <2>1 DEF DelivererStatus, Kept
  <2> HIDE DEF j
  <2> QED
    BY <2>1, <2>2, <2>3, ServedKeepsInv
<1> QED
  BY <1>2, <1>3, <1>4 DEF Serves

LEMMA CallLostType ==
    ASSUME Inv, NEW h \in Handlers, CallLost(h)
    PROVE  Inv'
<1>1. JobsAreTyped /\ DeliveriesAreTyped /\ ThreadsAreTyped /\ RestIsTyped /\ ConsumerInv
  BY TypeParts DEF Inv
<1>2. /\ JobIs(h, NoJob) /\ UNCHANGED <<fleet, deliveries, ready, pc, on, announced, shared>>
      /\ faults' \in 0 .. MaxFaults
  BY CallLostDoes DEF Inv
<1>3. JobsAreTyped'
  <2>1. \A t \in Threads : job'[<<t, 0>>] # NoJob => pc[t] \in Calling
    BY <1>1, <1>2, HandlerType DEF JobsAreTyped, JobIs
  <2> QED
    BY <1>1, <1>2, <2>1, NoJobType DEF JobsAreTyped, JobIs
<1>4. DeliveriesAreTyped' /\ ThreadsAreTyped' /\ RestIsTyped' /\ ConsumerInv'
  BY <1>1, <1>2 DEF DeliveriesAreTyped, ThreadsAreTyped, RestIsTyped, ConsumerInv
<1> QED
  BY <1>3, <1>4, TypePartsNext DEF Inv

LEMMA OverType ==
    ASSUME Inv, NEW t \in Threads, Over(t), faults' \in 0 .. MaxFaults
    PROVE  DeliveriesAreTyped' /\ ThreadsAreTyped' /\ RestIsTyped' /\ ConsumerInv'
<1>1. DeliveriesAreTyped /\ ThreadsAreTyped /\ RestIsTyped /\ ConsumerInv
  BY TypeParts DEF Inv
<1>2. ThreadsAreTyped'
  BY <1>1 DEF ThreadsAreTyped, Over, Sits
<1>3. DeliveriesAreTyped' /\ RestIsTyped'
  BY <1>1 DEF DeliveriesAreTyped, RestIsTyped, Over, Stays
<1>4. ConsumerInv'
  <2>1. Consumer \in Threads
    BY DEF Threads
  <2>2. CASE t = Consumer
    BY <2>2 DEF ConsumerInv, Over, Sits
  <2>3. CASE t # Consumer
    BY <1>1, <2>1, <2>3 DEF ConsumerInv, Over, Sits
  <2> QED
    BY <2>2, <2>3
<1> QED
  BY <1>2, <1>3, <1>4

\* The call of thread t is over: no one works for it any more.
LEMMA JobGone ==
    ASSUME Inv, NEW t \in Threads, JobIs(<<t, 0>>, NoJob), NEW to, NEW y, Sits(t, to, y)
    PROVE  JobsAreTyped'
<1>1. JobsAreTyped
  BY TypeParts DEF Inv
<1>2. \A u \in Threads : job'[<<u, 0>>] # NoJob => pc'[u] \in Calling
  BY <1>1, HandlerType DEF JobsAreTyped, JobIs, Sits
<1>3. /\ job' \in [Handlers -> Jobs]
      /\ \A h \in Handlers : job'[h].step \in {"save", "release"} => job'[h].deliverer \in Deliverers
  BY <1>1, NoJobType DEF JobsAreTyped, JobIs
<1> QED
  BY <1>2, <1>3 DEF JobsAreTyped

\* Thread t makes a call.
LEMMA JobAsked ==
    ASSUME Inv, NEW t \in Threads, NEW j \in Jobs, JobIs(<<t, 0>>, j), NEW to \in Calling, NEW y, Sits(t, to, y),
           j.step \in {"save", "release"} => j.deliverer \in Deliverers
    PROVE  JobsAreTyped'
<1>1. JobsAreTyped
  BY TypeParts DEF Inv
<1>2. \A u \in Threads : job'[<<u, 0>>] # NoJob => pc'[u] \in Calling
  BY <1>1, HandlerType DEF JobsAreTyped, JobIs, Sits
<1>3. /\ job' \in [Handlers -> Jobs]
      /\ \A h \in Handlers : job'[h].step \in {"save", "release"} => job'[h].deliverer \in Deliverers
  BY <1>1 DEF JobsAreTyped, JobIs
<1> QED
  BY <1>2, <1>3 DEF JobsAreTyped

\* Thread t, which is in no call, moves and calls nobody.
LEMMA JobsSame ==
    ASSUME Inv, NEW t \in Threads, UNCHANGED job, NEW to, NEW y, Sits(t, to, y), job[<<t, 0>>] = NoJob
    PROVE  JobsAreTyped'
<1>1. JobsAreTyped
  BY TypeParts DEF Inv
<1>2. \A u \in Threads : job'[<<u, 0>>] # NoJob => pc'[u] \in Calling
  BY <1>1 DEF JobsAreTyped, Sits
<1> QED
  BY <1>1, <1>2 DEF JobsAreTyped

LEMMA NoCall ==
    ASSUME Inv, NEW t \in Threads, pc[t] \notin Calling
    PROVE  job[<<t, 0>>] = NoJob
BY DEF Inv, TypeInv, TypeOK

LEMMA AssignType ==
    ASSUME Inv, NEW t \in Threads, NEW o \in Orders, Assign(t, o)
    PROVE  Inv'
<1>1. DeliveriesAreTyped /\ ThreadsAreTyped /\ RestIsTyped /\ ConsumerInv
  BY TypeParts DEF Inv
<1>2. /\ pc[t] = "idle" /\ Sits(t, "assigning", o)
      /\ JobIs(<<t, 0>>, [step |-> "find", deliverer |-> NoOne])
      /\ UNCHANGED <<fleet, deliveries, ready, announced, faults, shared>>
      /\ t = Consumer => ready # <<>> /\ o = Head(ready)
  BY AssignDoes DEF Inv
<1>3. JobsAreTyped'
  <2>1. [step |-> "find", deliverer |-> NoOne] \in Jobs /\ "assigning" \in Calling
    BY DEF Jobs, Steps, Calling
  <2> QED
    BY <1>2, <2>1, JobAsked
<1>4. ThreadsAreTyped'
  BY <1>1, <1>2 DEF ThreadsAreTyped, Sits
<1>5. DeliveriesAreTyped' /\ RestIsTyped'
  BY <1>1, <1>2 DEF DeliveriesAreTyped, RestIsTyped
<1>6. ConsumerInv'
  <2>1. Consumer \in Threads
    BY DEF Threads
  <2> QED
    BY <1>1, <1>2, <2>1 DEF ConsumerInv, Sits
<1> QED
  BY <1>3, <1>4, <1>5, <1>6, TypePartsNext DEF Inv

LEMMA AssignedType ==
    ASSUME Inv, NEW t \in Threads, Assigned(t)
    PROVE  Inv'
<1>1. DeliveriesAreTyped /\ ThreadsAreTyped /\ RestIsTyped /\ ConsumerInv
  BY TypeParts DEF Inv
<1>2. JobIs(<<t, 0>>, NoJob) /\ faults' = faults /\ pc[t] = "assigning" /\ on[t] \in Orders
  BY AssignedDoes DEF Inv, Kept
<1>3. CASE Over(t)
  <2>1. faults' \in 0 .. MaxFaults
    BY <1>1, <1>2 DEF RestIsTyped
  <2>2. JobsAreTyped'
    BY <1>2, <1>3, JobGone DEF Over
  <2> QED
    BY <1>3, <2>1, <2>2, OverType, TypePartsNext DEF Inv
<1>4. CASE \E d \in Deliverers :
              /\ job[<<t, 0>>].deliverer = d /\ Saved(on[t], d)
              /\ IF t = Consumer THEN Sits(t, "saved", on[t]) ELSE Sits(t, "idle", NoOne)
  <2>1. PICK o \in Orders : o = on[t]
    BY <1>2
  <2>2. PICK d \in Deliverers :
              /\ Saved(on[t], d)
              /\ IF t = Consumer THEN Sits(t, "saved", on[t]) ELSE Sits(t, "idle", NoOne)
    BY <1>4
  <2>3. PICK x \in Free : /\ DeliveryIs(x, [order |-> o, deliverer |-> d, status |-> "ASSIGNED"])
                          /\ UNCHANGED <<fleet, ready, announced, shared>>
    BY <2>1, <2>2 DEF Saved
  <2>4. x \in Ids
    BY DEF Free
  <2>5. JobsAreTyped'
    BY <1>2, <2>2, JobGone
  <2>6. DeliveriesAreTyped' /\ RestIsTyped'
    BY <1>1, <1>2, <2>3, <2>4 DEF DeliveriesAreTyped, RestIsTyped, DeliveryIs
  <2>7. \A y \in Ids : deliveries[y].status # "none" =>
            deliveries'[y].status # "none" /\ deliveries'[y].order = deliveries[y].order
    BY <2>3 DEF Free, DeliveryIs
  <2>8. ThreadsAreTyped'
    BY <1>1, <2>2, <2>7 DEF ThreadsAreTyped, Sits
  <2>9. ConsumerInv'
    <3>1. Consumer \in Threads
      BY DEF Threads
    <3>2. CASE t = Consumer
      <4>1. Sits(t, "saved", o) /\ o = Head(ready) /\ ready # <<>>
        BY <1>1, <1>2, <2>1, <2>2, <3>2 DEF ConsumerInv
      <4>2. deliveries'[x].status # "none" /\ deliveries'[x].order = o
        BY <2>3 DEF DeliveryIs
      <4> QED
        BY <2>3, <2>4, <3>2, <4>1, <4>2 DEF ConsumerInv, Sits
    <3>3. CASE t # Consumer
      <4>1. pc'[Consumer] = pc[Consumer] /\ on'[Consumer] = on[Consumer] /\ ready' = ready
        BY <2>2, <2>3, <3>1, <3>3 DEF Sits
      <4> QED
        BY <1>1, <2>7, <4>1 DEF ConsumerInv
    <3> QED
      BY <3>2, <3>3
  <2> QED
    BY <2>5, <2>6, <2>8, <2>9, TypePartsNext DEF Inv
<1> QED
  BY <1>3, <1>4, AssignedDoes DEF Inv

LEMMA AckType ==
    ASSUME Inv, Ack
    PROVE  Inv'
<1>1. DeliveriesAreTyped /\ ThreadsAreTyped /\ RestIsTyped /\ ConsumerInv
  BY TypeParts DEF Inv
<1>2. /\ pc[Consumer] = "saved" /\ Sits(Consumer, "idle", NoOne) /\ ready' \in Seq(Orders)
      /\ UNCHANGED <<fleet, deliveries, job, announced, faults, shared>>
  BY AckDoes DEF Inv
<1>3. Consumer \in Threads /\ job[<<Consumer, 0>>] = NoJob
  BY <1>2, NoCall DEF Threads, Calling
<1>4. JobsAreTyped'
  BY <1>2, <1>3, JobsSame
<1>5. ThreadsAreTyped'
  BY <1>1, <1>2 DEF ThreadsAreTyped, Sits
<1>6. DeliveriesAreTyped' /\ RestIsTyped' /\ ConsumerInv'
  BY <1>1, <1>2 DEF DeliveriesAreTyped, RestIsTyped, ConsumerInv, Sits
<1> QED
  BY <1>4, <1>5, <1>6, TypePartsNext DEF Inv

LEMMA TestsType ==
    ASSUME Inv, NEW t \in Clients, NEW x \in Ids, NEW to \in {"confirming", "moving"}, Tests(t, x, to)
    PROVE  Inv'
<1>1. DeliveriesAreTyped /\ ThreadsAreTyped /\ RestIsTyped /\ ConsumerInv
  BY TypeParts DEF Inv
<1>2. t \in Threads /\ t # Consumer /\ Consumer \in Threads
  BY NamesAssumption DEF Threads
<1>3. /\ pc[t] = "idle" /\ Sits(t, to, x) /\ IsActive(x)
      /\ UNCHANGED <<fleet, deliveries, ready, job, announced, faults, shared>>
  BY <1>2, TestsDoes DEF Inv
<1>4. JobsAreTyped'
  <2>1. job[<<t, 0>>] = NoJob
    BY <1>2, <1>3, NoCall DEF Calling
  <2> QED
    BY <1>2, <1>3, <2>1, JobsSame
<1>5. ThreadsAreTyped'
  <2>1. deliveries[x].status # "none"
    BY <1>3 DEF IsActive, Active
  <2> QED
    BY <1>1, <1>3, <2>1 DEF ThreadsAreTyped, Sits
<1>6. DeliveriesAreTyped' /\ RestIsTyped' /\ ConsumerInv'
  BY <1>1, <1>2, <1>3 DEF DeliveriesAreTyped, RestIsTyped, ConsumerInv, Sits
<1> QED
  BY <1>4, <1>5, <1>6, TypePartsNext DEF Inv

\* A status is saved in a delivery that exists, by a thread that is not the consumer.
LEMMA MarkedType ==
    ASSUME Inv, NEW t \in Threads, t # Consumer, NEW to \in PCs \ {"assigning"}, NEW y, Sits(t, to, y),
           NEW x \in Ids, NEW s, s # "none", deliveries[x].status # "none", Marked(x, s),
           to \in {"confirming", "moving", "confirmed", "failed"} => y = x,
           UNCHANGED <<fleet, ready, announced, faults>>
    PROVE  DeliveriesAreTyped' /\ ThreadsAreTyped' /\ RestIsTyped' /\ ConsumerInv'
<1>1. DeliveriesAreTyped /\ ThreadsAreTyped /\ RestIsTyped /\ ConsumerInv
  BY TypeParts DEF Inv
<1>2. PICK v \in DeliveryType :
        /\ DeliveryIs(x, v) /\ v.status = s
        /\ v.order = deliveries[x].order /\ v.deliverer = deliveries[x].deliverer
        /\ shared' = IF IsActive(x) THEN shared ELSE shared \cup {deliveries[x].deliverer}
  BY DEF Marked
<1>3. deliveries[x].deliverer \in Deliverers
  BY <1>1 DEF DeliveriesAreTyped
<1>4. DeliveriesAreTyped'
  BY <1>1, <1>2, <1>3 DEF DeliveriesAreTyped, DeliveryIs
<1>5. RestIsTyped'
  <2>1. shared' \subseteq Deliverers
    BY <1>1, <1>2, <1>3 DEF RestIsTyped
  <2> QED
    BY <1>1, <2>1 DEF RestIsTyped
<1>6. \A z \in Ids : deliveries[z].status # "none" =>
          deliveries'[z].status # "none" /\ deliveries'[z].order = deliveries[z].order
  BY <1>2 DEF DeliveryIs
<1>7. ThreadsAreTyped'
  BY <1>1, <1>6 DEF ThreadsAreTyped, Sits
<1>8. ConsumerInv'
  <2>1. pc'[Consumer] = pc[Consumer] /\ on'[Consumer] = on[Consumer] /\ ready' = ready
    BY DEF Sits, Threads
  <2> QED
    BY <1>1, <1>6, <2>1 DEF ConsumerInv
<1> QED
  BY <1>4, <1>5, <1>7, <1>8

LEMMA UpdateLocationType ==
    ASSUME Inv, NEW t \in Threads, UpdateLocation(t)
    PROVE  Inv'
<1>1. /\ pc[t] = "moving" /\ Sits(t, "idle", NoOne)
      /\ \E x \in Ids : on[t] = x /\ deliveries[x].status # "none" /\ Marked(x, "IN_TRANSIT")
      /\ UNCHANGED <<fleet, ready, job, announced, faults>>
  BY UpdateLocationDoes DEF Inv
<1>2. t # Consumer /\ job[<<t, 0>>] = NoJob
  BY <1>1, NoCall DEF Inv, ConsumerInv, Calling
<1>3. PICK x \in Ids : deliveries[x].status # "none" /\ Marked(x, "IN_TRANSIT")
  BY <1>1
<1>4. JobsAreTyped'
  BY <1>1, <1>2, JobsSame
<1>5. "idle" \in PCs \ {"assigning"}
  BY DEF PCs
<1>6. DeliveriesAreTyped' /\ ThreadsAreTyped' /\ RestIsTyped' /\ ConsumerInv'
  BY <1>1, <1>2, <1>3, <1>5, MarkedType
<1> QED
  BY <1>4, <1>6, TypePartsNext DEF Inv

LEMMA FreesType ==
    ASSUME Inv, NEW t \in Threads, t # Consumer, NEW x \in Ids, NEW to \in {"confirmed", "failed"}, Sits(t, to, x),
           NEW s \in {"DELIVERED", "FAILED"}, Frees(t, x, s)
    PROVE  Inv'
<1>1. to \in PCs \ {"assigning"} /\ to \in Calling
  BY DEF PCs, Calling
<1>2. DeliveriesAreTyped' /\ ThreadsAreTyped' /\ RestIsTyped' /\ ConsumerInv'
  BY <1>1, MarkedType DEF Frees
<1>3. JobsAreTyped'
  <2> DEFINE j == [step |-> "release", deliverer |-> deliveries[x].deliverer]
  <2>1. deliveries[x].deliverer \in Deliverers
    BY DEF Frees, Inv, TypeInv
  <2>2. j \in Jobs /\ j.deliverer \in Deliverers /\ JobIs(<<t, 0>>, j)
    BY <2>1 DEF Jobs, Steps, Frees
  <2> HIDE DEF j
  <2> QED
    BY <1>1, <2>2, JobAsked
<1> QED
  BY <1>2, <1>3, TypePartsNext DEF Inv

LEMMA ConfirmDeliveryType ==
    ASSUME Inv, NEW t \in Threads, ConfirmDelivery(t)
    PROVE  Inv'
<1>1. PICK x \in Ids : pc[t] = "confirming" /\ Sits(t, "confirmed", x) /\ Frees(t, x, "DELIVERED")
  BY ConfirmDeliveryDoes DEF Inv
<1>2. t # Consumer
  BY <1>1 DEF Inv, ConsumerInv
<1> QED
  BY <1>1, <1>2, FreesType

LEMMA FailDeliveryType ==
    ASSUME Inv, NEW t \in Clients, NEW x \in Ids, FailDelivery(t, x)
    PROVE  Inv'
<1>1. t \in Threads /\ t # Consumer
  BY NamesAssumption DEF Threads
<1> QED
  BY <1>1, FailDeliveryDoes, FreesType DEF Inv

LEMMA ReleasedType ==
    ASSUME Inv, NEW t \in Threads, Released(t)
    PROVE  Inv'
<1>1. JobIs(<<t, 0>>, NoJob) /\ Counted /\ Over(t)
  BY ReleasedDoes DEF Inv
<1>2. JobsAreTyped' /\ faults' \in 0 .. MaxFaults
  BY <1>1, JobGone DEF Over, Counted, Inv, TypeInv, TypeOK
<1> QED
  BY <1>1, <1>2, OverType, TypePartsNext DEF Inv

LEMMA NoReplyType ==
    ASSUME Inv, NEW t \in Threads, NoReply(t)
    PROVE  Inv'
<1>1. job[<<t, 0>>] = NoJob /\ Over(t) /\ job' = job /\ Counted
  BY NoReplyDoes DEF Inv
<1>2. JobsAreTyped' /\ faults' \in 0 .. MaxFaults
  BY <1>1, JobsSame DEF Over, Counted, Inv, TypeInv, TypeOK
<1> QED
  BY <1>1, <1>2, OverType, TypePartsNext DEF Inv

\* Jobs that only change places stay typed.
LEMMA MovedType ==
    ASSUME Inv, NEW ts \in SUBSET Threads, Moved(ts), \A u \in Threads \ ts : pc'[u] = pc[u]
    PROVE  JobsAreTyped'
<1>1. JobsAreTyped
  BY TypeParts DEF Inv
<1>2. PICK from \in [Handlers -> Handlers] : \A h \in Handlers : job'[h] = NoJob \/ job'[h] = job[from[h]]
  BY DEF Moved
<1>3. ASSUME NEW h \in Handlers, job'[h].step \in {"save", "release"}
      PROVE  job'[h].deliverer \in Deliverers
  <2>1. job'[h] # NoJob
    BY <1>3, NoJobType
  <2>2. job'[h] = job[from[h]] /\ from[h] \in Handlers
    BY <1>2, <2>1
  <2> QED
    BY <1>1, <1>3, <2>2 DEF JobsAreTyped
<1>4. ASSUME NEW t \in Threads, job'[<<t, 0>>] # NoJob
      PROVE  pc'[t] \in Calling
  <2>1. t \notin ts
    BY <1>4 DEF Moved
  <2>2. job'[<<t, 0>>] = job[<<t, 0>>] /\ pc'[t] = pc[t]
    BY <2>1 DEF Moved
  <2> QED
    BY <1>1, <1>4, <2>2 DEF JobsAreTyped
<1> QED
  BY <1>3, <1>4 DEF JobsAreTyped, Moved

LEMMA TimesOutType ==
    ASSUME Inv, NEW t \in Threads, TimesOut(t)
    PROVE  Inv'
<1>1. Moved({t}) /\ Over(t) /\ faults' \in 0 .. MaxFaults
  BY TimesOutDoes DEF Inv
<1>2. \A u \in Threads \ {t} : pc'[u] = pc[u]
  BY <1>1 DEF Over, Sits
<1>3. {t} \in SUBSET Threads
  OBVIOUS
<1>4. JobsAreTyped'
  BY <1>1, <1>2, <1>3, MovedType
<1> QED
  BY <1>1, <1>4, OverType, TypePartsNext DEF Inv

LEMMA RestartType ==
    ASSUME Inv, Restart
    PROVE  Inv'
<1>1. DeliveriesAreTyped /\ ThreadsAreTyped /\ RestIsTyped /\ ConsumerInv
  BY TypeParts DEF Inv
<1>2. /\ Moved(Threads) /\ faults' \in 0 .. MaxFaults
      /\ deliveries' = [x \in Ids |-> NoDelivery] /\ announced' = {}
      /\ pc' = [t \in Threads |-> "idle"] /\ on' = [t \in Threads |-> NoOne]
      /\ UNCHANGED <<fleet, ready, shared>>
  BY RestartDoes DEF Inv
<1>3. Threads \in SUBSET Threads /\ \A u \in Threads \ Threads : pc'[u] = pc[u]
  OBVIOUS
<1>4. JobsAreTyped'
  BY <1>2, <1>3, MovedType
<1>5. NoDelivery \in DeliveryType /\ NoDelivery.status = "none"
  BY DEF NoDelivery, DeliveryType, Statuses
<1>6. DeliveriesAreTyped' /\ RestIsTyped'
  BY <1>1, <1>2, <1>5 DEF DeliveriesAreTyped, RestIsTyped
<1>7. "idle" \in PCs /\ NoOne \in Places
  BY DEF PCs, Places
<1>8. ThreadsAreTyped'
  BY <1>2, <1>7 DEF ThreadsAreTyped
<1>9. ConsumerInv'
  BY <1>2 DEF ConsumerInv, Threads
<1> QED
  BY <1>4, <1>6, <1>8, <1>9, TypePartsNext DEF Inv

\* Deliverers register and set their availability: only the fleet is concerned.
FleetChanges ==
    /\ UNCHANGED <<deliveries, ready, pc, on, job, announced, faults>>
    /\ \E d \in Deliverers :
          \/ fleet[d] = "none" /\ fleet' = [fleet EXCEPT ![d] = "AVAILABLE"] /\ shared' = shared
          \/ fleet' = [fleet EXCEPT ![d] = "OFFLINE"] /\ shared' = shared
          \/ fleet' = [fleet EXCEPT ![d] = "AVAILABLE"] /\ shared' = shared \cup {d}

LEMMA UsersOfFleet ==
    ASSUME NEW d \in Deliverers, Register(d) \/ \E s \in {"AVAILABLE", "OFFLINE"} : SetAvailability(d, s)
    PROVE  FleetChanges
<1>1. CASE Register(d)
  BY <1>1 DEF Register, FleetChanges
<1>2. CASE SetAvailability(d, "AVAILABLE")
  BY <1>2 DEF SetAvailability, FleetChanges
<1>3. CASE SetAvailability(d, "OFFLINE")
  BY <1>3 DEF SetAvailability, FleetChanges
<1> QED
  BY <1>1, <1>2, <1>3

LEMMA FleetType ==
    ASSUME Inv, FleetChanges
    PROVE  Inv'
<1>1. JobsAreTyped /\ DeliveriesAreTyped /\ ThreadsAreTyped /\ RestIsTyped /\ ConsumerInv
  BY TypeParts DEF Inv
<1>2. RestIsTyped'
  BY <1>1 DEF RestIsTyped, FleetChanges, DelivererStatus
<1>3. JobsAreTyped' /\ DeliveriesAreTyped' /\ ThreadsAreTyped' /\ ConsumerInv'
  BY <1>1 DEF JobsAreTyped, DeliveriesAreTyped, ThreadsAreTyped, ConsumerInv, FleetChanges
<1> QED
  BY <1>2, <1>3, TypePartsNext DEF Inv

\* The steps, sorted by what they do.
LEMMA Steppers ==
    ASSUME Next
    PROVE  \/ FleetChanges
           \/ \E t \in Threads, o \in Orders : Assign(t, o)
           \/ \E t \in Clients, x \in Ids : Tests(t, x, "confirming") \/ Tests(t, x, "moving") \/ FailDelivery(t, x)
           \/ \E h \in Handlers : CallLost(h)
           \/ \E t \in Threads : TimesOut(t)
           \/ Restart \/ Ack
           \/ \E t \in Threads : Continues(t)
           \/ \E h \in Handlers : Serves(h)
<1>1. Consumer \in Threads /\ Clients \subseteq Threads
  BY DEF Threads
<1>2. CASE Users
  BY <1>1, <1>2, UsersOfFleet DEF Users, Requests
<1>3. CASE Faults
  BY <1>3 DEF Faults
<1>4. CASE Consumes
  BY <1>1, <1>4 DEF Consumes
<1>5. CASE (\E t \in Threads : Continues(t)) \/ (\E h \in Handlers : Serves(h))
  BY <1>5
<1> QED
  BY <1>2, <1>3, <1>4, <1>5 DEF Next

LEMMA InitType ==
    ASSUME Init
    PROVE  Inv
<1>1. Cardinality(Orders) \in Nat
  BY OrdersAssumption, FS_CardinalityType
<1>2. ready \in [1 .. Cardinality(Orders) -> Orders]
  BY Zenon DEF Init
<1>3. ready \in Seq(Orders)
  BY <1>1, <1>2, IsASeq
<1>4. NoDelivery \in DeliveryType /\ NoDelivery.status = "none"
  BY DEF NoDelivery, DeliveryType, Statuses
<1>5. RestIsTyped
  BY <1>3, BoundsAssumption DEF RestIsTyped, Init, DelivererStatus
<1>6. JobsAreTyped
  <2>1. job = [h \in Handlers |-> NoJob]
    BY DEF Init
  <2>2. \A h \in Handlers : job[h] = NoJob
    BY <2>1
  <2>3. \A t \in Threads : job[<<t, 0>>] = NoJob
    BY <2>2, HandlerType
  <2> QED
    BY <2>1, <2>2, <2>3, NoJobType DEF JobsAreTyped
<1>7. DeliveriesAreTyped
  BY <1>4 DEF DeliveriesAreTyped, Init
<1>8. "idle" \in PCs /\ NoOne \in Places
  BY DEF PCs, Places
<1>9. ThreadsAreTyped
  BY <1>8 DEF ThreadsAreTyped, Init
<1>10. ConsumerInv
  BY DEF ConsumerInv, Init, Threads
<1> QED
  BY <1>5, <1>6, <1>7, <1>9, <1>10, TypeParts DEF Inv

LEMMA NextType ==
    ASSUME Inv, [Next]_vars
    PROVE  Inv'
<1>1. CASE Next
  <2>1. CASE FleetChanges
    BY <2>1, FleetType
  <2>2. CASE \E t \in Threads, o \in Orders : Assign(t, o)
    BY <2>2, AssignType
  <2>3. CASE \E t \in Clients, x \in Ids : Tests(t, x, "confirming") \/ Tests(t, x, "moving") \/ FailDelivery(t, x)
    BY <2>3, TestsType, FailDeliveryType
  <2>4. CASE \E h \in Handlers : CallLost(h)
    BY <2>4, CallLostType
  <2>5. CASE \E t \in Threads : TimesOut(t)
    BY <2>5, TimesOutType
  <2>6. CASE Restart \/ Ack
    BY <2>6, RestartType, AckType
  <2>7. CASE \E t \in Threads : Continues(t)
    BY <2>7, AssignedType, ReleasedType, NoReplyType, UpdateLocationType, ConfirmDeliveryType DEF Continues
  <2>8. CASE \E h \in Handlers : Serves(h)
    BY <2>8, ServesType
  <2> QED
    BY <1>1, <2>1, <2>2, <2>3, <2>4, <2>5, <2>6, <2>7, <2>8, Steppers
<1>2. CASE UNCHANGED vars
  <2>1. JobsAreTyped /\ DeliveriesAreTyped /\ ThreadsAreTyped /\ RestIsTyped /\ ConsumerInv
    BY TypeParts DEF Inv
  <2>2. JobsAreTyped' /\ DeliveriesAreTyped' /\ ThreadsAreTyped' /\ RestIsTyped' /\ ConsumerInv'
    BY <1>2, <2>1 DEF JobsAreTyped, DeliveriesAreTyped, ThreadsAreTyped, RestIsTyped, ConsumerInv, vars
  <2> QED
    BY <2>2, TypePartsNext DEF Inv
<1> QED
  BY <1>1, <1>2

LEMMA InvHolds == Spec => []Inv
<1>1. Init => Inv
  BY InitType
<1>2. Inv /\ [Next]_vars => Inv'
  BY NextType
<1> QED
  BY <1>1, <1>2, PTL DEF Spec

\* The variables keep their types whatever is lost, late or restarted, and
\* deliverer-service works for a thread only while it waits for its reply.
THEOREM TypeCorrect == Spec => []TypeOK
<1>1. Inv => TypeOK
  BY DEF Inv, TypeInv
<1> QED
  BY <1>1, InvHolds, PTL

\* order.ready leaves its queue only when a delivery of its order was saved: the
\* consumer acknowledges the message it began with, after the save.
THEOREM AcknowledgedIsAssigned == Spec => AckedIsAssigned
<1>1. ASSUME Inv, [Next]_vars
      PROVE  [\A o \in Orders : InQueue(o) /\ ~InQueue(o)' => HasDelivery(o)]_vars
  <2>1. CASE Ack
    <3>1. /\ ready \in Seq(Orders) /\ ready # <<>> /\ ready' = Tail(ready) /\ pc[Consumer] = "saved"
      BY <1>1, <2>1, AckDoes DEF Inv, TypeInv, TypeOK
    <3>2. PICK x \in Ids : deliveries[x].order = Head(ready)
      BY <1>1, <3>1 DEF Inv, ConsumerInv
    <3>3. ASSUME NEW o \in Orders, InQueue(o), ~InQueue(o)'
          PROVE  o = Head(ready)
      <4>1. /\ Head(ready) = ready[1] /\ Len(Tail(ready)) = Len(ready) - 1 /\ Len(ready) \in Nat
            /\ \A i \in 1 .. Len(Tail(ready)) : Tail(ready)[i] = ready[i + 1]
            /\ Tail(ready) \in Seq(Orders)
        BY <3>1, HeadTailProperties
      <4>2. PICK i \in DOMAIN ready : ready[i] = o
        BY <3>3 DEF InQueue
      <4>3. i \in 1 .. Len(ready)
        BY <3>1, <4>2
      <4>4. CASE i = 1
        BY <4>1, <4>2, <4>4
      <4>5. CASE i # 1
        <5>1. i - 1 \in 1 .. Len(Tail(ready)) /\ i - 1 + 1 = i
          BY <4>1, <4>3, <4>5
        <5>2. ready'[i - 1] = o
          BY <3>1, <4>1, <4>2, <5>1
        <5>3. i - 1 \in DOMAIN ready'
          BY <3>1, <4>1, <5>1
        <5> QED
          BY <3>3, <5>2, <5>3 DEF InQueue
      <4> QED
        BY <4>4, <4>5
    <3> QED
      BY <3>2, <3>3 DEF HasDelivery
  <2>2. CASE \A o \in Orders : InQueue(o) => InQueue(o)'
    BY <2>2
  <2>3. CASE ready' = ready
    BY <2>3 DEF InQueue
  <2>4. CASE UNCHANGED vars
    BY <2>4
  <2>5. ASSUME NEW t \in Threads, Continues(t)
        PROVE  ready' = ready \/ Stays
    <3>1. CASE Assigned(t)
      BY <1>1, <3>1, AssignedDoes DEF Inv, Over, Saved
    <3>2. CASE Released(t)
      BY <1>1, <3>2, ReleasedDoes DEF Inv, Over
    <3>3. CASE NoReply(t)
      BY <1>1, <3>3, NoReplyDoes DEF Inv, Over
    <3>4. CASE UpdateLocation(t) \/ ConfirmDelivery(t)
      BY <3>4 DEF UpdateLocation, ConfirmDelivery
    <3> QED
      BY <2>5, <3>1, <3>2, <3>3, <3>4 DEF Continues
  <2>6. ASSUME NEW t \in Threads, TimesOut(t)
        PROVE  Stays
    BY <1>1, <2>6, TimesOutDoes DEF Inv, Over
  <2>7. ASSUME Next, ~Ack
        PROVE  ready' = ready \/ Stays
    <3>1. CASE FleetChanges \/ Restart
      BY <3>1 DEF FleetChanges, Restart
    <3>2. CASE \E t \in Threads, o \in Orders : Assign(t, o)
      BY <3>2 DEF Assign
    <3>3. CASE \E t \in Clients, x \in Ids : Tests(t, x, "confirming") \/ Tests(t, x, "moving") \/ FailDelivery(t, x)
      BY <3>3 DEF Tests, FailDelivery
    <3>4. CASE \E h \in Handlers : CallLost(h) \/ Serves(h)
      BY <3>4 DEF CallLost, Serves, AssignFind, AssignSave, Release
    <3> QED
      BY <2>5, <2>6, <2>7, <3>1, <3>2, <3>3, <3>4, Steppers
  <2> QED
    BY <1>1, <2>1, <2>2, <2>3, <2>4, <2>7 DEF Stays
<1> QED
  BY <1>1, InvHolds, PTL DEF Spec, AckedIsAssigned

-----------------------------------------------------------------------------
(* A deliverer carries one delivery at a time *)

InHand == {"save", "assigned", "release"}

Holds(d, h) == job[h].deliverer = d /\ job[h].step \in InHand

\* At most one handler is about deliverer d, and none while d carries a
\* delivery; and whoever may be found available is booked and carries nothing.
Alone(d) ==
    /\ \A g, h \in Handlers : Holds(d, g) /\ Holds(d, h) => g = h
    /\ \A h \in Handlers, x \in Ids : ~(Holds(d, h) /\ Carries(d, x))
    /\ \A x, y \in Ids : Carries(d, x) /\ Carries(d, y) => x = y
    /\ fleet[d] \in {"none", "AVAILABLE"} =>
           (\A x \in Ids : ~Carries(d, x)) /\ (\A h \in Handlers : ~BookedBy(d, h))

AloneInv == \A d \in Deliverers \ shared : Alone(d)

\* Nothing more is under way for d, though jobs may have changed places.
LEMMA FewerByPlaces ==
    ASSUME NEW d \in Deliverers, Alone(d), fleet'[d] = fleet[d],
           \A x \in Ids : Carries(d, x)' => Carries(d, x),
           NEW from \in [Handlers -> Handlers],
           \A h \in Handlers : Holds(d, h)' => job'[h] = job[from[h]],
           \A g, h \in Handlers : Holds(d, g)' /\ Holds(d, h)' /\ from[g] = from[h] => g = h
    PROVE  Alone(d)'
<1>1. \A h \in Handlers : Holds(d, h)' => Holds(d, from[h]) /\ from[h] \in Handlers
  BY DEF Holds
<1>2. \A h \in Handlers : BookedBy(d, h)' => BookedBy(d, from[h])
  BY DEF Holds, BookedBy, InHand
<1>3. \A g, h \in Handlers : Holds(d, g)' /\ Holds(d, h)' => g = h
  BY <1>1 DEF Alone
<1>4. \A h \in Handlers, x \in Ids : ~(Holds(d, h)' /\ Carries(d, x)')
  BY <1>1 DEF Alone
<1>5. \A x, y \in Ids : Carries(d, x)' /\ Carries(d, y)' => x = y
  BY DEF Alone
<1>6. fleet'[d] \in {"none", "AVAILABLE"} =>
          (\A x \in Ids : ~Carries(d, x)') /\ (\A h \in Handlers : ~BookedBy(d, h)')
  BY <1>1, <1>2 DEF Alone
<1> QED
  BY <1>3, <1>4, <1>5, <1>6 DEF Alone

LEMMA Fewer ==
    ASSUME NEW d \in Deliverers, Alone(d), fleet'[d] = fleet[d],
           \A x \in Ids : Carries(d, x)' => Carries(d, x),
           \A h \in Handlers : Holds(d, h)' => job'[h] = job[h]
    PROVE  Alone(d)'
<1> DEFINE from == [h \in Handlers |-> h]
<1>1. from \in [Handlers -> Handlers] /\ \A h \in Handlers : from[h] = h
  OBVIOUS
<1> HIDE DEF from
<1> QED
  BY <1>1, FewerByPlaces

\* The usual case: one job is over, or another is begun that is not about d.
LEMMA FewerByJob ==
    ASSUME NEW d \in Deliverers, Alone(d), fleet'[d] = fleet[d],
           \A x \in Ids : Carries(d, x)' => Carries(d, x),
           NEW g \in Handlers, NEW j, JobIs(g, j), j.deliverer # d \/ j.step \notin InHand
    PROVE  Alone(d)'
<1>1. \A h \in Handlers : Holds(d, h)' => job'[h] = job[h]
  BY DEF Holds, JobIs
<1> QED
  BY <1>1, Fewer

LEMMA SameCarried ==
    ASSUME deliveries' = deliveries, NEW d
    PROVE  \A x \in Ids : Carries(d, x)' <=> Carries(d, x)
BY DEF Carries, IsActive

LEMMA NoJobHeld ==
    ASSUME NEW d \in Deliverers
    PROVE  NoJob.deliverer # d /\ NoJob.step \notin InHand
BY NamesAssumption DEF NoJob, InHand

LEMMA AssignFindAlone ==
    ASSUME Inv, AloneInv, NEW h \in Handlers, AssignFind(h)
    PROVE  AloneInv'
<1>1. Served /\ fleet' = fleet /\ job[h].step = "find"
  BY AssignFindDoes DEF Inv, Kept
<1>2. CASE \E d \in Deliverers :
               /\ fleet[d] = "AVAILABLE"
               /\ JobIs(h, [step |-> "save", deliverer |-> d])
               /\ shared' = IF \E g \in Handlers : job[g].step = "save" /\ job[g].deliverer = d
                            THEN shared \cup {d} ELSE shared
  <2>1. PICK e \in Deliverers :
               /\ fleet[e] = "AVAILABLE"
               /\ JobIs(h, [step |-> "save", deliverer |-> e])
               /\ shared' = IF \E g \in Handlers : job[g].step = "save" /\ job[g].deliverer = e
                            THEN shared \cup {e} ELSE shared
    BY <1>2
  <2>2. ASSUME NEW d \in Deliverers \ shared'
        PROVE  Alone(d)'
    <3>1. d \notin shared /\ Alone(d) /\ \A x \in Ids : Carries(d, x)' <=> Carries(d, x)
      BY <1>1, <2>1, <2>2, SameCarried DEF AloneInv, Served
    <3>2. CASE d # e
      <4>1. [step |-> "save", deliverer |-> e].deliverer # d
        BY <3>2
      <4> QED
        BY <1>1, <2>1, <3>1, <4>1, FewerByJob
    <3>3. CASE d = e
      <4>1. \A g \in Handlers : ~(job[g].step = "save" /\ job[g].deliverer = d)
        BY <2>1, <2>2, <3>3
      <4>2. /\ \A x \in Ids : ~Carries(d, x)'
            /\ \A g \in Handlers : ~BookedBy(d, g)
        BY <2>1, <3>1, <3>3 DEF Alone
      <4>3. \A g \in Handlers : ~Holds(d, g)
        BY <4>1, <4>2 DEF Holds, BookedBy, InHand
      <4>4. \A g \in Handlers : Holds(d, g)' => g = h
        BY <2>1, <4>3 DEF Holds, JobIs
      <4>5. \A g \in Handlers : ~BookedBy(d, g)'
        <5>1. \A g \in Handlers : g # h => ~BookedBy(d, g)'
          BY <2>1, <4>2 DEF BookedBy, JobIs
        <5>2. ~BookedBy(d, h)'
          BY <2>1 DEF BookedBy, JobIs
        <5> QED
          BY <5>1, <5>2
      <4> QED
        BY <4>2, <4>4, <4>5 DEF Alone
    <3> QED
      BY <3>2, <3>3
  <2> QED
    BY <2>2 DEF AloneInv
<1>3. CASE /\ JobIs(h, IF h[2] = 0 THEN [step |-> "assigned", deliverer |-> NoOne] ELSE NoJob)
           /\ Kept(shared)
  <2>1. ASSUME NEW d \in Deliverers \ shared'
        PROVE  Alone(d)'
    <3>1. Alone(d) /\ \A x \in Ids : Carries(d, x)' <=> Carries(d, x)
      BY <1>1, <1>3, <2>1, SameCarried DEF AloneInv, Served, Kept
    <3> DEFINE j == IF h[2] = 0 THEN [step |-> "assigned", deliverer |-> NoOne] ELSE NoJob
    <3>2. j.deliverer # d /\ JobIs(h, j)
      BY <1>3, NoJobHeld, NamesAssumption
    <3> HIDE DEF j
    <3> QED
      BY <1>1, <3>1, <3>2, FewerByJob
  <2> QED
    BY <2>1 DEF AloneInv
<1> QED
  BY <1>2, <1>3, AssignFindDoes DEF Inv

LEMMA AssignSaveAlone ==
    ASSUME Inv, AloneInv, NEW h \in Handlers, AssignSave(h)
    PROVE  AloneInv'
<1>1. PICK e \in Deliverers :
             /\ Served /\ Kept(shared) /\ job[h].step = "save" /\ job[h].deliverer = e
             /\ fleet' = [fleet EXCEPT ![e] = "BUSY"]
             /\ JobIs(h, IF h[2] = 0 THEN [step |-> "assigned", deliverer |-> e] ELSE NoJob)
  BY AssignSaveDoes DEF Inv
<1>2. fleet \in [Deliverers -> DelivererStatus \cup {"none"}]
  BY DEF Inv, TypeInv, TypeOK
<1>3. ASSUME NEW d \in Deliverers \ shared'
      PROVE  Alone(d)'
  <2>1. Alone(d) /\ \A x \in Ids : Carries(d, x)' <=> Carries(d, x)
    BY <1>1, <1>3, SameCarried DEF AloneInv, Served, Kept
  <2> DEFINE j == IF h[2] = 0 THEN [step |-> "assigned", deliverer |-> e] ELSE NoJob
  <2>2. CASE d # e
    <3>1. (j.deliverer # d \/ j.step \notin InHand) /\ JobIs(h, j)
      BY <1>1, <2>2, NoJobHeld
    <3>2. fleet'[d] = fleet[d]
      BY <1>1, <1>2, <2>2
    <3> HIDE DEF j
    <3> QED
      BY <2>1, <3>1, <3>2, FewerByJob
  <2>3. CASE d = e
    <3>1. fleet'[d] = "BUSY" /\ Holds(d, h)
      BY <1>1, <1>2, <2>3 DEF Holds, InHand
    <3>2. \A g \in Handlers : Holds(d, g)' => g = h
      BY <1>1, <2>1, <3>1 DEF Alone, Holds, JobIs
    <3>3. \A x \in Ids : ~Carries(d, x)'
      BY <2>1, <3>1 DEF Alone
    <3> QED
      BY <3>1, <3>2, <3>3 DEF Alone
  <2> QED
    BY <2>2, <2>3
<1> QED
  BY <1>3 DEF AloneInv

LEMMA ReleaseAlone ==
    ASSUME Inv, AloneInv, NEW h \in Handlers, Release(h)
    PROVE  AloneInv'
<1>1. PICK e \in Deliverers :
             /\ Served /\ Kept(shared) /\ job[h].step = "release" /\ job[h].deliverer = e
             /\ fleet' = [fleet EXCEPT ![e] = "AVAILABLE"]
             /\ JobIs(h, IF h[2] = 0 THEN [step |-> "released", deliverer |-> NoOne] ELSE NoJob)
  BY ReleaseDoes DEF Inv
<1>2. fleet \in [Deliverers -> DelivererStatus \cup {"none"}]
  BY DEF Inv, TypeInv, TypeOK
<1>3. ASSUME NEW d \in Deliverers \ shared'
      PROVE  Alone(d)'
  <2>1. Alone(d) /\ \A x \in Ids : Carries(d, x)' <=> Carries(d, x)
    BY <1>1, <1>3, SameCarried DEF AloneInv, Served, Kept
  <2> DEFINE j == IF h[2] = 0 THEN [step |-> "released", deliverer |-> NoOne] ELSE NoJob
  <2>2. j.deliverer # d /\ JobIs(h, j)
    BY <1>1, NoJobHeld, NamesAssumption
  <2> HIDE DEF j
  <2>3. CASE d # e
    <3>1. fleet'[d] = fleet[d]
      BY <1>1, <1>2, <2>3
    <3> QED
      BY <2>1, <2>2, <3>1, FewerByJob
  <2>4. CASE d = e
    <3>1. Holds(d, h)
      BY <1>1, <2>4 DEF Holds, InHand
    <3>2. \A g \in Handlers : ~Holds(d, g)'
      BY <2>1, <2>2, <3>1 DEF Alone, Holds, JobIs
    <3>3. \A x \in Ids : ~Carries(d, x)'
      BY <2>1, <3>1 DEF Alone
    <3>4. \A g \in Handlers : ~BookedBy(d, g)'
      BY <3>2 DEF Holds, BookedBy, InHand
    <3> QED
      BY <3>2, <3>3, <3>4 DEF Alone
  <2> QED
    BY <2>3, <2>4
<1> QED
  BY <1>3 DEF AloneInv

\* A job is over, or one is begun that is about nobody yet; nothing else moves.
LEMMA JobAlone ==
    ASSUME AloneInv, fleet' = fleet, deliveries' = deliveries, shared' = shared,
           NEW h \in Handlers, NEW j, JobIs(h, j), j.step \notin InHand
    PROVE  AloneInv'
<1>1. ASSUME NEW d \in Deliverers \ shared'
      PROVE  Alone(d)'
  <2>1. Alone(d) /\ \A x \in Ids : Carries(d, x)' <=> Carries(d, x)
    BY <1>1, SameCarried DEF AloneInv
  <2> QED
    BY <2>1, FewerByJob
<1> QED
  BY <1>1 DEF AloneInv

LEMMA QuietAlone ==
    ASSUME AloneInv, UNCHANGED <<fleet, deliveries, job, shared>>
    PROVE  AloneInv'
BY DEF AloneInv, Alone, Holds, Carries, IsActive, BookedBy

LEMMA CallLostAlone ==
    ASSUME Inv, AloneInv, NEW h \in Handlers, CallLost(h)
    PROVE  AloneInv'
<1>1. JobIs(h, NoJob) /\ fleet' = fleet /\ deliveries' = deliveries /\ shared' = shared
  BY CallLostDoes DEF Inv
<1>2. NoJob.step \notin InHand
  BY DEF NoJob, InHand
<1> QED
  BY <1>1, <1>2, JobAlone

LEMMA AssignAlone ==
    ASSUME Inv, AloneInv, NEW t \in Threads, NEW o \in Orders, Assign(t, o)
    PROVE  AloneInv'
<1> DEFINE j == [step |-> "find", deliverer |-> NoOne]
<1>1. JobIs(<<t, 0>>, j) /\ fleet' = fleet /\ deliveries' = deliveries /\ shared' = shared
  BY AssignDoes DEF Inv
<1>2. j.step \notin InHand
  BY DEF InHand
<1> HIDE DEF j
<1> QED
  BY <1>1, <1>2, HandlerType, JobAlone

LEMMA AssignedAlone ==
    ASSUME Inv, AloneInv, NEW t \in Threads, Assigned(t)
    PROVE  AloneInv'
<1>1. JobIs(<<t, 0>>, NoJob) /\ job[<<t, 0>>].step = "assigned" /\ on[t] \in Orders /\ <<t, 0>> \in Handlers
  BY AssignedDoes, HandlerType DEF Inv
<1>2. CASE Over(t)
  <2>1. NoJob.step \notin InHand
    BY DEF NoJob, InHand
  <2> QED
    BY <1>1, <1>2, <2>1, JobAlone DEF Over
<1>3. CASE \E d \in Deliverers : job[<<t, 0>>].deliverer = d /\ Saved(on[t], d)
  <2>1. PICK o \in Orders : o = on[t]
    BY <1>1
  <2>2. PICK e \in Deliverers : job[<<t, 0>>].deliverer = e /\ Saved(on[t], e)
    BY <1>3
  <2>3. PICK x \in Free : /\ DeliveryIs(x, [order |-> o, deliverer |-> e, status |-> "ASSIGNED"])
                          /\ UNCHANGED <<fleet, ready, announced, shared>>
    BY <2>1, <2>2 DEF Saved
  <2>4. x \in Ids /\ deliveries'[x].deliverer = e
    BY <2>3 DEF Free, DeliveryIs
  <2>5. ASSUME NEW d \in Deliverers \ shared'
        PROVE  Alone(d)'
    <3>1. Alone(d)
      BY <2>3, <2>5 DEF AloneInv
    <3>2. \A y \in Ids : y # x => (Carries(d, y)' <=> Carries(d, y))
      BY <2>3 DEF Carries, IsActive, DeliveryIs
    <3>3. CASE d # e
      <4>1. ~Carries(d, x)'
        BY <2>4, <3>3 DEF Carries
      <4>2. fleet'[d] = fleet[d] /\ NoJob.deliverer # d
        BY <2>3, NoJobHeld
      <4> QED
        BY <1>1, <3>1, <3>2, <4>1, <4>2, FewerByJob
    <3>4. CASE d = e
      <4>1. Holds(d, <<t, 0>>) /\ BookedBy(d, <<t, 0>>)
        BY <1>1, <2>2, <3>4 DEF Holds, BookedBy, InHand
      <4>2. \A h \in Handlers : ~Holds(d, h)'
        BY <1>1, <3>1, <4>1, NoJobHeld DEF Alone, Holds, JobIs
      <4>3. \A y \in Ids : y # x => ~Carries(d, y)'
        BY <1>1, <3>1, <3>2, <4>1 DEF Alone
      <4>4. fleet'[d] \notin {"none", "AVAILABLE"}
        BY <1>1, <2>3, <3>1, <4>1 DEF Alone
      <4> QED
        BY <4>2, <4>3, <4>4 DEF Alone
    <3> QED
      BY <3>3, <3>4
  <2> QED
    BY <2>5 DEF AloneInv
<1> QED
  BY <1>2, <1>3, AssignedDoes DEF Inv

LEMMA UpdateLocationAlone ==
    ASSUME Inv, AloneInv, NEW t \in Threads, UpdateLocation(t)
    PROVE  AloneInv'
<1>1. PICK x \in Ids : deliveries[x].status # "none" /\ Marked(x, "IN_TRANSIT")
  BY UpdateLocationDoes DEF Inv
<1>2. fleet' = fleet /\ job' = job
  BY UpdateLocationDoes DEF Inv
<1>3. PICK v \in DeliveryType :
        /\ DeliveryIs(x, v) /\ v.deliverer = deliveries[x].deliverer
        /\ shared' = IF IsActive(x) THEN shared ELSE shared \cup {deliveries[x].deliverer}
  BY <1>1 DEF Marked
<1>4. ASSUME NEW d \in Deliverers \ shared'
      PROVE  Alone(d)'
  <2>1. Alone(d)
    BY <1>3, <1>4 DEF AloneInv
  <2>2. ASSUME NEW y \in Ids, Carries(d, y)'
        PROVE  Carries(d, y)
    <3>1. CASE y # x
      BY <1>3, <2>2, <3>1 DEF Carries, IsActive, DeliveryIs
    <3>2. CASE y = x
      BY <1>3, <1>4, <2>2, <3>2 DEF Carries, DeliveryIs
    <3> QED
      BY <3>1, <3>2
  <2>3. \A h \in Handlers : Holds(d, h)' => job'[h] = job[h]
    BY <1>2
  <2> QED
    BY <1>2, <2>1, <2>2, <2>3, Fewer
<1> QED
  BY <1>4 DEF AloneInv

LEMMA FreesAlone ==
    ASSUME Inv, AloneInv, NEW t \in Threads, NEW x \in Ids, NEW s \in {"DELIVERED", "FAILED"}, Frees(t, x, s)
    PROVE  AloneInv'
<1>1. PICK v \in DeliveryType :
        /\ DeliveryIs(x, v) /\ v.status = s /\ v.deliverer = deliveries[x].deliverer
        /\ shared' = IF IsActive(x) THEN shared ELSE shared \cup {deliveries[x].deliverer}
  BY DEF Marked, Frees
<1>2. PICK e \in Deliverers : deliveries[x].deliverer = e
  BY DEF Frees, Inv, TypeInv
<1>3. JobIs(<<t, 0>>, [step |-> "release", deliverer |-> e]) /\ fleet' = fleet /\ <<t, 0>> \in Handlers
  BY <1>2, HandlerType DEF Frees
<1>4. ASSUME NEW d \in Deliverers \ shared'
      PROVE  Alone(d)'
  <2>1. Alone(d)
    BY <1>1, <1>4 DEF AloneInv
  <2>2. \A y \in Ids : y # x => (Carries(d, y)' <=> Carries(d, y))
    BY <1>1 DEF Carries, IsActive, DeliveryIs
  <2>3. ~Carries(d, x)'
    BY <1>1 DEF Carries, IsActive, Active, DeliveryIs
  <2>4. CASE d # e
    <3>1. [step |-> "release", deliverer |-> e].deliverer # d
      BY <2>4
    <3> QED
      BY <1>3, <2>1, <2>2, <2>3, <3>1, FewerByJob
  <2>5. CASE d = e
    <3>1. Carries(d, x)
      BY <1>1, <1>2, <1>4, <2>5 DEF Carries
    <3>2. \A h \in Handlers : ~Holds(d, h)
      BY <2>1, <3>1 DEF Alone
    <3>3. \A h \in Handlers : Holds(d, h)' => h = <<t, 0>>
      BY <1>3, <3>2 DEF Holds, JobIs
    <3>4. \A y \in Ids : ~Carries(d, y)'
      BY <2>1, <2>2, <2>3, <3>1 DEF Alone
    <3>5. fleet'[d] \notin {"none", "AVAILABLE"}
      BY <1>3, <2>1, <3>1 DEF Alone
    <3> QED
      BY <3>3, <3>4, <3>5 DEF Alone
  <2> QED
    BY <2>4, <2>5
<1> QED
  BY <1>4 DEF AloneInv

LEMMA ReleasedAlone ==
    ASSUME Inv, AloneInv, NEW t \in Threads, Released(t)
    PROVE  AloneInv'
<1>1. JobIs(<<t, 0>>, NoJob) /\ Over(t) /\ <<t, 0>> \in Handlers
  BY ReleasedDoes, HandlerType DEF Inv
<1>2. NoJob.step \notin InHand
  BY DEF NoJob, InHand
<1> QED
  BY <1>1, <1>2, JobAlone DEF Over

\* Calls that are abandoned go on elsewhere, and no delivery begins.
LEMMA MovedAlone ==
    ASSUME AloneInv, NEW ts \in SUBSET Threads, Moved(ts), fleet' = fleet, shared' = shared,
           \A d \in Deliverers, x \in Ids : Carries(d, x)' => Carries(d, x)
    PROVE  AloneInv'
<1>1. PICK from \in [Handlers -> Handlers] :
           /\ \A h \in Handlers : job'[h] = NoJob \/ job'[h] = job[from[h]]
           /\ \A g, h \in Handlers : job'[g] # NoJob /\ job'[h] # NoJob /\ from[g] = from[h] => g = h
  BY DEF Moved
<1>2. ASSUME NEW d \in Deliverers \ shared'
      PROVE  Alone(d)'
  <2>1. Alone(d)
    BY <1>2 DEF AloneInv
  <2>2. \A h \in Handlers : Holds(d, h)' => job'[h] # NoJob
    BY NoJobHeld DEF Holds
  <2>3. \A h \in Handlers : Holds(d, h)' => job'[h] = job[from[h]]
    BY <1>1, <2>2
  <2>4. \A g, h \in Handlers : Holds(d, g)' /\ Holds(d, h)' /\ from[g] = from[h] => g = h
    BY <1>1, <2>2
  <2> QED
    BY <2>1, <2>3, <2>4, FewerByPlaces
<1> QED
  BY <1>2 DEF AloneInv

LEMMA TimesOutAlone ==
    ASSUME Inv, AloneInv, NEW t \in Threads, TimesOut(t)
    PROVE  AloneInv'
<1>1. Moved({t}) /\ Over(t) /\ {t} \in SUBSET Threads
  BY TimesOutDoes DEF Inv
<1>2. \A d \in Deliverers, x \in Ids : Carries(d, x)' => Carries(d, x)
  BY <1>1, SameCarried DEF Over
<1> QED
  BY <1>1, <1>2, MovedAlone DEF Over

LEMMA RestartAlone ==
    ASSUME Inv, AloneInv, Restart
    PROVE  AloneInv'
<1>1. Moved(Threads) /\ deliveries' = [x \in Ids |-> NoDelivery] /\ fleet' = fleet /\ shared' = shared
  BY RestartDoes DEF Inv
<1>2. \A d \in Deliverers, x \in Ids : Carries(d, x)' => Carries(d, x)
  BY <1>1 DEF Carries, IsActive, NoDelivery, Active
<1> QED
  BY <1>1, <1>2, MovedAlone

LEMMA FleetAlone ==
    ASSUME Inv, AloneInv, FleetChanges
    PROVE  AloneInv'
<1>1. deliveries' = deliveries /\ job' = job
  BY DEF FleetChanges
<1>2. PICK e \in Deliverers :
          \/ fleet[e] = "none" /\ fleet' = [fleet EXCEPT ![e] = "AVAILABLE"] /\ shared' = shared
          \/ fleet' = [fleet EXCEPT ![e] = "OFFLINE"] /\ shared' = shared
          \/ fleet' = [fleet EXCEPT ![e] = "AVAILABLE"] /\ shared' = shared \cup {e}
  BY DEF FleetChanges
<1>3. fleet \in [Deliverers -> DelivererStatus \cup {"none"}]
  BY DEF Inv, TypeInv, TypeOK
<1>4. ASSUME NEW d \in Deliverers \ shared'
      PROVE  Alone(d)'
  <2>1. d \notin shared /\ Alone(d) /\ \A x \in Ids : Carries(d, x)' <=> Carries(d, x)
    BY <1>1, <1>2, <1>4, SameCarried DEF AloneInv
  <2>2. \A h \in Handlers : (Holds(d, h)' <=> Holds(d, h)) /\ (BookedBy(d, h)' <=> BookedBy(d, h))
    BY <1>1 DEF Holds, BookedBy
  <2>3. fleet'[d] \in {"none", "AVAILABLE"} => fleet[d] \in {"none", "AVAILABLE"}
    BY <1>2, <1>3, <1>4
  <2> QED
    BY <2>1, <2>2, <2>3 DEF Alone
<1> QED
  BY <1>4 DEF AloneInv

LEMMA InitAlone ==
    ASSUME Init
    PROVE  AloneInv
<1>1. \A x \in Ids : ~IsActive(x)
  BY DEF Init, IsActive, NoDelivery, Active
<1>2. \A h \in Handlers : job[h].step \notin InHand
  BY DEF Init, NoJob, InHand
<1> QED
  BY <1>1, <1>2 DEF AloneInv, Alone, Holds, Carries, BookedBy, InHand

LEMMA ContinuesAlone ==
    ASSUME Inv, AloneInv, NEW t \in Threads, Continues(t)
    PROVE  AloneInv'
<1>1. CASE NoReply(t)
  <2>1. UNCHANGED <<fleet, deliveries, job, shared>>
    BY <1>1, NoReplyDoes DEF Inv, Over
  <2> QED
    BY <2>1, QuietAlone
<1>2. CASE ConfirmDelivery(t)
  BY <1>2, ConfirmDeliveryDoes, FreesAlone DEF Inv
<1>3. CASE Assigned(t) \/ Released(t) \/ UpdateLocation(t)
  BY <1>3, AssignedAlone, ReleasedAlone, UpdateLocationAlone
<1> QED
  BY <1>1, <1>2, <1>3 DEF Continues

LEMMA RequestsAlone ==
    ASSUME Inv, AloneInv, NEW t \in Clients, NEW x \in Ids,
           Tests(t, x, "confirming") \/ Tests(t, x, "moving") \/ FailDelivery(t, x)
    PROVE  AloneInv'
<1>1. t \in Threads
  BY DEF Threads
<1>2. CASE FailDelivery(t, x)
  BY <1>1, <1>2, FailDeliveryDoes, FreesAlone DEF Inv
<1>3. CASE Tests(t, x, "confirming") \/ Tests(t, x, "moving")
  BY <1>3, QuietAlone DEF Tests
<1> QED
  BY <1>2, <1>3

LEMMA NextAlone ==
    ASSUME Inv, AloneInv, [Next]_vars
    PROVE  AloneInv'
<1>1. CASE Next
  <2>1. CASE FleetChanges
    BY <2>1, FleetAlone
  <2>2. CASE \E t \in Threads, o \in Orders : Assign(t, o)
    BY <2>2, AssignAlone
  <2>3. CASE \E t \in Clients, x \in Ids : Tests(t, x, "confirming") \/ Tests(t, x, "moving") \/ FailDelivery(t, x)
    BY <2>3, RequestsAlone
  <2>4. CASE \E h \in Handlers : CallLost(h)
    BY <2>4, CallLostAlone
  <2>5. CASE \E t \in Threads : TimesOut(t)
    BY <2>5, TimesOutAlone
  <2>6. CASE Restart
    BY <2>6, RestartAlone
  <2>7. CASE Ack
    BY <2>7, QuietAlone DEF Ack
  <2>8. CASE \E t \in Threads : Continues(t)
    BY <2>8, ContinuesAlone
  <2>9. CASE \E h \in Handlers : Serves(h)
    BY <2>9, AssignFindAlone, AssignSaveAlone, ReleaseAlone DEF Serves
  <2> QED
    BY <1>1, <2>1, <2>2, <2>3, <2>4, <2>5, <2>6, <2>7, <2>8, <2>9, Steppers
<1>2. CASE UNCHANGED vars
  BY <1>2, QuietAlone DEF vars
<1> QED
  BY <1>1, <1>2

\* Calls may be lost, time out and still be carried out, and delivery-service may
\* restart: a deliverer carries one delivery at a time, and none while a call
\* books or releases him, unless one of the three races noted in shared gave him
\* away.
THEOREM DeliverersAreBookedOnce == Spec => []BookedOnce
<1>1. Init => Inv /\ AloneInv
  BY InitType, InitAlone
<1>2. (Inv /\ AloneInv) /\ [Next]_vars => (Inv /\ AloneInv)'
  BY NextType, NextAlone
<1>3. Inv /\ AloneInv => BookedOnce
  <2>1. ASSUME AloneInv
        PROVE  BookedOnce
    <3>1. \A d \in Deliverers \ shared : Alone(d)
      BY <2>1 DEF AloneInv
    <3>2. \A d \in Deliverers, h \in Handlers : BookedBy(d, h) => Holds(d, h)
      BY DEF BookedBy, Holds, InHand
    <3> QED
      BY <3>1, <3>2 DEF BookedOnce, Alone
  <2> QED
    BY <2>1
<1> QED
  BY <1>1, <1>2, <1>3, PTL DEF Spec

-----------------------------------------------------------------------------
(* As long as every call is answered *)

\* Every call in course is the one of a thread that waits for it, and the other way round.
CallsAreServed ==
    /\ \A h \in Handlers : h[2] # 0 => job[h] = NoJob
    /\ \A t \in Threads : pc[t] \in Calling => job[<<t, 0>>] # NoJob

NobodyStranded ==
    \A d \in Deliverers :
        fleet[d] = "BUSY" => (\E x \in Ids : Carries(d, x)) \/ (\E h \in Handlers : BookedBy(d, h))

AllAnnounced ==
    \A x \in Ids : deliveries[x].status = "DELIVERED" =>
        x \in announced \/ \E t \in Threads : pc[t] = "confirmed" /\ on[t] = x

Orderly == CallsAreServed /\ NobodyStranded /\ AllAnnounced

\* Thread t asks, or is done with its call.
LEMMA CallsByThread ==
    ASSUME CallsAreServed, NEW t \in Threads, NEW to, NEW y, Sits(t, to, y), NEW j, JobIs(<<t, 0>>, j),
           to \in Calling => j # NoJob
    PROVE  CallsAreServed'
<1>1. \A h \in Handlers : h[2] # 0 => h # <<t, 0>>
  OBVIOUS
<1>2. \A u \in Threads : u # t => <<u, 0>> # <<t, 0>>
  OBVIOUS
<1> QED
  BY <1>1, <1>2, HandlerType DEF CallsAreServed, Sits, JobIs

\* A step of deliverer-service that answers, or goes on, keeps the call in course.
LEMMA CallsByHandler ==
    ASSUME CallsAreServed, NEW h \in Handlers, job[h] # NoJob, UNCHANGED pc,
           NEW j, JobIs(h, j), h[2] = 0 => j # NoJob
    PROVE  CallsAreServed'
<1>1. h[2] = 0
  BY DEF CallsAreServed
<1> QED
  BY <1>1, HandlerType DEF CallsAreServed, JobIs

\* Nothing that keeps a deliverer busy ends.
LEMMA KeepsStranded ==
    ASSUME NobodyStranded, \A d \in Deliverers : fleet'[d] = "BUSY" => fleet[d] = "BUSY",
           \A d \in Deliverers, x \in Ids : Carries(d, x) => Carries(d, x)',
           \A d \in Deliverers, h \in Handlers : BookedBy(d, h) => BookedBy(d, h)'
    PROVE  NobodyStranded'
BY DEF NobodyStranded

\* The job that is over kept nobody busy.
LEMMA StrandedByJob ==
    ASSUME NobodyStranded, fleet' = fleet, deliveries' = deliveries, NEW g \in Handlers, NEW j, JobIs(g, j),
           \A d \in Deliverers : ~BookedBy(d, g)
    PROVE  NobodyStranded'
<1>1. \A d \in Deliverers, h \in Handlers : BookedBy(d, h) => BookedBy(d, h)'
  BY DEF BookedBy, JobIs
<1>2. \A d \in Deliverers, x \in Ids : Carries(d, x) => Carries(d, x)'
  BY SameCarried
<1> QED
  BY <1>1, <1>2, KeepsStranded

LEMMA AnnouncedStays ==
    ASSUME AllAnnounced, UNCHANGED <<deliveries, announced, pc, on>>
    PROVE  AllAnnounced'
BY DEF AllAnnounced

\* A thread that does not leave "confirmed" without publishing moves.
LEMMA AnnouncedByThread ==
    ASSUME AllAnnounced, deliveries' = deliveries, announced \subseteq announced',
           NEW t \in Threads, NEW to, NEW y, Sits(t, to, y), pc[t] = "confirmed" => on[t] \in announced'
    PROVE  AllAnnounced'
<1>1. \A x \in Ids, u \in Threads : pc[u] = "confirmed" /\ on[u] = x =>
          x \in announced' \/ (pc'[u] = "confirmed" /\ on'[u] = x)
  BY DEF Sits
<1> QED
  BY <1>1 DEF AllAnnounced

LEMMA ServesOrderly ==
    ASSUME Inv, Orderly, NEW h \in Handlers, Serves(h)
    PROVE  Orderly'
<1>1. CASE AssignFind(h)
  <2>1. Served /\ fleet' = fleet /\ job[h].step = "find"
    BY <1>1, AssignFindDoes DEF Inv, Kept
  <2>2. JobIs(h, job'[h]) /\ (h[2] = 0 => job'[h] # NoJob)
    <3>1. CASE \E d \in Deliverers : JobIs(h, [step |-> "save", deliverer |-> d])
      BY <3>1 DEF JobIs, NoJob
    <3>2. CASE JobIs(h, IF h[2] = 0 THEN [step |-> "assigned", deliverer |-> NoOne] ELSE NoJob)
      BY <3>2 DEF JobIs, NoJob
    <3> QED
      BY <1>1, <3>1, <3>2, AssignFindDoes DEF Inv
  <2>3. job[h] # NoJob /\ \A d \in Deliverers : ~BookedBy(d, h)
    BY <2>1 DEF NoJob, BookedBy
  <2> QED
    BY <2>1, <2>2, <2>3, CallsByHandler, StrandedByJob, AnnouncedStays DEF Orderly, Served
<1>2. CASE AssignSave(h)
  <2>1. PICK e \in Deliverers :
               /\ Served /\ job[h].step = "save" /\ job[h].deliverer = e
               /\ fleet' = [fleet EXCEPT ![e] = "BUSY"]
               /\ JobIs(h, IF h[2] = 0 THEN [step |-> "assigned", deliverer |-> e] ELSE NoJob)
    BY <1>2, AssignSaveDoes DEF Inv
  <2>2. h[2] = 0 /\ job[h] # NoJob
    BY <2>1 DEF Orderly, CallsAreServed, NoJob
  <2>3. BookedBy(e, h)' /\ job'[h] # NoJob
    BY <2>1, <2>2 DEF BookedBy, JobIs, NoJob
  <2>4. \A d \in Deliverers, g \in Handlers : BookedBy(d, g) => BookedBy(d, g)'
    BY <2>1 DEF BookedBy, JobIs
  <2>5. \A d \in Deliverers, x \in Ids : Carries(d, x) => Carries(d, x)'
    BY <2>1, SameCarried DEF Served
  <2>6. \A d \in Deliverers : d # e => fleet'[d] = fleet[d]
    BY <2>1 DEF Inv, TypeInv, TypeOK
  <2>7. NobodyStranded'
    BY <2>3, <2>4, <2>5, <2>6 DEF Orderly, NobodyStranded
  <2>8. CallsAreServed'
    BY <2>1, <2>2, CallsByHandler DEF Orderly, Served, NoJob
  <2> QED
    BY <2>1, <2>7, <2>8, AnnouncedStays DEF Orderly, Served
<1>3. CASE Release(h)
  <2>1. PICK e \in Deliverers :
               /\ Served /\ job[h].step = "release" /\ job[h].deliverer = e
               /\ fleet' = [fleet EXCEPT ![e] = "AVAILABLE"]
               /\ JobIs(h, IF h[2] = 0 THEN [step |-> "released", deliverer |-> NoOne] ELSE NoJob)
    BY <1>3, ReleaseDoes DEF Inv
  <2>2. job[h] # NoJob
    BY <2>1 DEF NoJob
  <2>3. \A d \in Deliverers : fleet'[d] = "BUSY" => d # e /\ fleet[d] = "BUSY"
    BY <2>1 DEF Inv, TypeInv, TypeOK
  <2>4. \A d \in Deliverers, g \in Handlers : d # e /\ BookedBy(d, g) => BookedBy(d, g)'
    BY <2>1 DEF BookedBy, JobIs
  <2>5. \A d \in Deliverers, x \in Ids : Carries(d, x) => Carries(d, x)'
    BY <2>1, SameCarried DEF Served
  <2>6. NobodyStranded'
    BY <2>3, <2>4, <2>5 DEF Orderly, NobodyStranded
  <2>7. CallsAreServed'
    BY <2>1, <2>2, CallsByHandler DEF Orderly, Served, NoJob
  <2> QED
    BY <2>1, <2>6, <2>7, AnnouncedStays DEF Orderly, Served
<1> QED
  BY <1>1, <1>2, <1>3 DEF Serves

LEMMA AssignOrderly ==
    ASSUME Inv, Orderly, NEW t \in Threads, NEW o \in Orders, Assign(t, o)
    PROVE  Orderly'
<1> DEFINE j == [step |-> "find", deliverer |-> NoOne]
<1>1. /\ pc[t] = "idle" /\ Sits(t, "assigning", o) /\ JobIs(<<t, 0>>, j)
      /\ UNCHANGED <<fleet, deliveries, announced>>
  BY AssignDoes DEF Inv
<1>2. j # NoJob /\ "assigning" \in Calling
  BY DEF NoJob, Calling
<1>3. job[<<t, 0>>] = NoJob
  BY <1>1, NoCall DEF Calling
<1>4. \A d \in Deliverers : ~BookedBy(d, <<t, 0>>)
  BY <1>3, NoJobHeld DEF BookedBy
<1> HIDE DEF j
<1>5. CallsAreServed'
  BY <1>1, <1>2, CallsByThread DEF Orderly
<1>6. NobodyStranded'
  BY <1>1, <1>4, HandlerType, StrandedByJob DEF Orderly
<1>7. AllAnnounced'
  BY <1>1, AnnouncedByThread DEF Orderly
<1> QED
  BY <1>5, <1>6, <1>7 DEF Orderly

LEMMA AssignedOrderly ==
    ASSUME Inv, Orderly, NEW t \in Threads, Assigned(t)
    PROVE  Orderly'
<1>1. /\ JobIs(<<t, 0>>, NoJob) /\ job[<<t, 0>>].step = "assigned" /\ pc[t] = "assigning" /\ on[t] \in Orders
      /\ <<t, 0>> \in Handlers
  BY AssignedDoes, HandlerType DEF Inv
<1>2. CASE job[<<t, 0>>].deliverer = NoOne /\ Over(t)
  <2>1. CallsAreServed'
    BY <1>1, <1>2, CallsByThread DEF Orderly, Over, Calling
  <2>2. \A d \in Deliverers : ~BookedBy(d, <<t, 0>>)
    BY <1>2, NamesAssumption DEF BookedBy
  <2>3. NobodyStranded'
    BY <1>1, <1>2, <2>2, StrandedByJob DEF Orderly, Over
  <2>4. AllAnnounced'
    BY <1>1, <1>2, AnnouncedByThread DEF Orderly, Over
  <2> QED
    BY <2>1, <2>3, <2>4 DEF Orderly
<1>3. CASE \E d \in Deliverers :
              /\ job[<<t, 0>>].deliverer = d /\ Saved(on[t], d)
              /\ IF t = Consumer THEN Sits(t, "saved", on[t]) ELSE Sits(t, "idle", NoOne)
  <2>1. PICK o \in Orders : o = on[t]
    BY <1>1
  <2>2. PICK e \in Deliverers :
              /\ job[<<t, 0>>].deliverer = e /\ Saved(on[t], e)
              /\ IF t = Consumer THEN Sits(t, "saved", on[t]) ELSE Sits(t, "idle", NoOne)
    BY <1>3
  <2>3. PICK x \in Free : /\ DeliveryIs(x, [order |-> o, deliverer |-> e, status |-> "ASSIGNED"])
                          /\ UNCHANGED <<fleet, ready, announced, shared>>
    BY <2>1, <2>2 DEF Saved
  <2>4. x \in Ids /\ deliveries[x].status = "none"
    BY DEF Free
  <2>5. PICK to, y : Sits(t, to, y) /\ to \notin Calling
    BY <2>2 DEF Calling
  <2>6. CallsAreServed'
    BY <1>1, <2>5, CallsByThread DEF Orderly
  <2>7. Carries(e, x)'
    BY <2>3, <2>4 DEF Carries, IsActive, Active, DeliveryIs
  <2>8. \A d \in Deliverers, z \in Ids : Carries(d, z) => Carries(d, z)'
    BY <2>3, <2>4 DEF Carries, IsActive, Active, DeliveryIs
  <2>9. \A d \in Deliverers, h \in Handlers : d # e /\ BookedBy(d, h) => BookedBy(d, h)'
    BY <1>1, <2>2 DEF BookedBy, JobIs
  <2>10. NobodyStranded'
    BY <2>3, <2>4, <2>7, <2>8, <2>9 DEF Orderly, NobodyStranded
  <2>11. \A z \in Ids : deliveries'[z].status = "DELIVERED" => deliveries[z].status = "DELIVERED"
    BY <2>3, <2>4 DEF DeliveryIs
  <2>12. \A u \in Threads : pc[u] = "confirmed" => pc'[u] = "confirmed" /\ on'[u] = on[u]
    BY <1>1, <2>5 DEF Sits
  <2>13. AllAnnounced'
    BY <2>3, <2>11, <2>12 DEF Orderly, AllAnnounced
  <2> QED
    BY <2>6, <2>10, <2>13 DEF Orderly
<1> QED
  BY <1>2, <1>3, AssignedDoes DEF Inv

\* Thread t, which is in no call, moves without one.
LEMMA CallsSame ==
    ASSUME CallsAreServed, UNCHANGED job, NEW t \in Threads, NEW to, NEW y, Sits(t, to, y), to \notin Calling
    PROVE  CallsAreServed'
BY DEF CallsAreServed, Sits

LEMMA AckOrderly ==
    ASSUME Inv, Orderly, Ack
    PROVE  Orderly'
<1>1. /\ pc[Consumer] = "saved" /\ Sits(Consumer, "idle", NoOne) /\ Consumer \in Threads
      /\ UNCHANGED <<fleet, deliveries, job, announced>>
  BY AckDoes DEF Inv, Threads
<1>2. CallsAreServed'
  BY <1>1, CallsSame DEF Orderly, Calling
<1>3. NobodyStranded'
  BY <1>1 DEF Orderly, NobodyStranded, Carries, IsActive, BookedBy
<1>4. AllAnnounced'
  BY <1>1, AnnouncedByThread DEF Orderly
<1> QED
  BY <1>2, <1>3, <1>4 DEF Orderly

LEMMA TestsOrderly ==
    ASSUME Inv, Orderly, NEW t \in Threads, NEW x \in Ids, NEW to \in {"confirming", "moving"}, Tests(t, x, to)
    PROVE  Orderly'
<1>1. pc[t] = "idle" /\ Sits(t, to, x) /\ UNCHANGED <<fleet, deliveries, job, announced>>
  BY TestsDoes DEF Inv
<1>2. CallsAreServed'
  BY <1>1, CallsSame DEF Orderly, Calling
<1>3. NobodyStranded'
  BY <1>1 DEF Orderly, NobodyStranded, Carries, IsActive, BookedBy
<1>4. AllAnnounced'
  BY <1>1, AnnouncedByThread DEF Orderly
<1> QED
  BY <1>2, <1>3, <1>4 DEF Orderly

LEMMA UpdateLocationOrderly ==
    ASSUME Inv, Orderly, NEW t \in Threads, UpdateLocation(t)
    PROVE  Orderly'
<1>1. pc[t] = "moving" /\ Sits(t, "idle", NoOne) /\ UNCHANGED <<fleet, job, announced>>
  BY UpdateLocationDoes DEF Inv
<1>2. PICK x \in Ids : Marked(x, "IN_TRANSIT")
  BY UpdateLocationDoes DEF Inv
<1>3. PICK v \in DeliveryType : DeliveryIs(x, v) /\ v.status = "IN_TRANSIT" /\ v.deliverer = deliveries[x].deliverer
  BY <1>2 DEF Marked
<1>4. CallsAreServed'
  BY <1>1, CallsSame DEF Orderly, Calling
<1>5. \A d \in Deliverers, z \in Ids : Carries(d, z) => Carries(d, z)'
  BY <1>3 DEF Carries, IsActive, Active, DeliveryIs
<1>6. NobodyStranded'
  BY <1>1, <1>5, KeepsStranded DEF Orderly, BookedBy
<1>7. \A z \in Ids : deliveries'[z].status = "DELIVERED" => deliveries[z].status = "DELIVERED"
  BY <1>3 DEF DeliveryIs
<1>8. \A u \in Threads : pc[u] = "confirmed" => pc'[u] = "confirmed" /\ on'[u] = on[u]
  BY <1>1 DEF Sits
<1>9. AllAnnounced'
  BY <1>1, <1>7, <1>8 DEF Orderly, AllAnnounced
<1> QED
  BY <1>4, <1>6, <1>9 DEF Orderly

\* The deliverer of a delivery that ends is about to be released, and the
\* delivery to be announced if it is delivered.
LEMMA FreesOrderly ==
    ASSUME Inv, Orderly, NEW t \in Threads, NEW x \in Ids, NEW s \in {"DELIVERED", "FAILED"}, Frees(t, x, s),
           NEW to \in Calling, Sits(t, to, x), pc[t] \notin Calling, s = "DELIVERED" => to = "confirmed"
    PROVE  Orderly'
<1>1. PICK v \in DeliveryType : DeliveryIs(x, v) /\ v.status = s /\ v.deliverer = deliveries[x].deliverer
  BY DEF Frees, Marked
<1>2. PICK e \in Deliverers : deliveries[x].deliverer = e
  BY DEF Frees, Inv, TypeInv
<1>3. /\ JobIs(<<t, 0>>, [step |-> "release", deliverer |-> e]) /\ <<t, 0>> \in Handlers
      /\ fleet' = fleet /\ announced' = announced
  BY <1>2, HandlerType DEF Frees
<1>4. CallsAreServed'
  <2> DEFINE j == [step |-> "release", deliverer |-> e]
  <2>1. j # NoJob
    BY DEF NoJob
  <2> HIDE DEF j
  <2>2. JobIs(<<t, 0>>, j)
    BY <1>3 DEF j
  <2> QED
    BY <2>1, <2>2, CallsByThread DEF Orderly
<1>5. NobodyStranded'
  <2>1. BookedBy(e, <<t, 0>>)'
    BY <1>3 DEF BookedBy, JobIs
  <2>2. \A d \in Deliverers, z \in Ids : d # e /\ Carries(d, z) => Carries(d, z)'
    BY <1>1, <1>2 DEF Carries, IsActive, DeliveryIs
  <2>3. \A d \in Deliverers : ~BookedBy(d, <<t, 0>>)
    BY NoCall, NoJobHeld DEF BookedBy
  <2>4. \A d \in Deliverers, h \in Handlers : BookedBy(d, h) => BookedBy(d, h)'
    BY <1>3, <2>3 DEF BookedBy, JobIs
  <2> QED
    BY <1>3, <2>1, <2>2, <2>4 DEF Orderly, NobodyStranded
<1>6. AllAnnounced'
  <2>1. \A z \in Ids : z # x => deliveries'[z].status = deliveries[z].status
    BY <1>1 DEF DeliveryIs
  <2>2. deliveries'[x].status = s
    BY <1>1 DEF DeliveryIs
  <2>3. \A u \in Threads : pc[u] = "confirmed" => pc'[u] = "confirmed" /\ on'[u] = on[u]
    BY DEF Sits, Calling
  <2>4. s = "DELIVERED" => pc'[t] = "confirmed" /\ on'[t] = x
    BY DEF Sits
  <2> QED
    BY <1>3, <2>1, <2>2, <2>3, <2>4 DEF Orderly, AllAnnounced
<1> QED
  BY <1>4, <1>5, <1>6 DEF Orderly

LEMMA ReleasedOrderly ==
    ASSUME Inv, Orderly, NEW t \in Threads, Released(t), faults' = 0
    PROVE  Orderly'
<1>1. /\ job[<<t, 0>>].step = "released" /\ JobIs(<<t, 0>>, NoJob) /\ Over(t) /\ <<t, 0>> \in Handlers
      /\ pc[t] = "confirmed" => announced' = announced \cup {on[t]}
  BY ReleasedDoes, HandlerType DEF Inv
<1>2. CallsAreServed'
  BY <1>1, CallsByThread DEF Orderly, Over, Calling
<1>3. \A d \in Deliverers : ~BookedBy(d, <<t, 0>>)
  BY <1>1 DEF BookedBy
<1>4. NobodyStranded'
  BY <1>1, <1>3, StrandedByJob DEF Orderly, Over
<1>5. AllAnnounced'
  BY <1>1, AnnouncedByThread DEF Orderly, Over
<1> QED
  BY <1>2, <1>4, <1>5 DEF Orderly

LEMMA FleetOrderly ==
    ASSUME Inv, Orderly, FleetChanges
    PROVE  Orderly'
<1>1. UNCHANGED <<deliveries, pc, on, job, announced>>
  BY DEF FleetChanges
<1>2. \A d \in Deliverers : fleet'[d] = "BUSY" => fleet[d] = "BUSY"
  BY DEF FleetChanges, Inv, TypeInv, TypeOK
<1>3. NobodyStranded'
  BY <1>1, <1>2 DEF Orderly, NobodyStranded, Carries, IsActive, BookedBy
<1>4. CallsAreServed' /\ AllAnnounced'
  BY <1>1, AnnouncedStays DEF Orderly, CallsAreServed
<1> QED
  BY <1>3, <1>4 DEF Orderly

LEMMA InitOrderly ==
    ASSUME Init
    PROVE  Orderly
<1>1. CallsAreServed
  BY DEF Init, CallsAreServed, Calling
<1>2. NobodyStranded
  BY DEF Init, NobodyStranded
<1>3. AllAnnounced
  BY DEF Init, AllAnnounced, NoDelivery
<1> QED
  BY <1>1, <1>2, <1>3 DEF Orderly

LEMMA ContinuesOrderly ==
    ASSUME Inv, Orderly, NEW t \in Threads, Continues(t), faults' = 0
    PROVE  Orderly'
<1>1. ~NoReply(t)
  BY DEF NoReply, Orderly, CallsAreServed
<1>2. CASE ConfirmDelivery(t)
  <2>1. PICK x \in Ids : pc[t] = "confirming" /\ Sits(t, "confirmed", x) /\ Frees(t, x, "DELIVERED")
    BY <1>2, ConfirmDeliveryDoes DEF Inv
  <2>2. "confirmed" \in Calling /\ pc[t] \notin Calling
    BY <2>1 DEF Calling
  <2> QED
    BY <2>1, <2>2, FreesOrderly
<1>3. CASE Assigned(t) \/ Released(t) \/ UpdateLocation(t)
  BY <1>3, AssignedOrderly, ReleasedOrderly, UpdateLocationOrderly
<1> QED
  BY <1>1, <1>2, <1>3 DEF Continues

LEMMA RequestsOrderly ==
    ASSUME Inv, Orderly, NEW t \in Clients, NEW x \in Ids,
           Tests(t, x, "confirming") \/ Tests(t, x, "moving") \/ FailDelivery(t, x)
    PROVE  Orderly'
<1>1. t \in Threads
  BY DEF Threads
<1>2. CASE FailDelivery(t, x)
  <2>1. pc[t] = "idle" /\ Sits(t, "failed", x) /\ Frees(t, x, "FAILED")
    BY <1>1, <1>2, FailDeliveryDoes DEF Inv
  <2>2. "failed" \in Calling /\ pc[t] \notin Calling
    BY <2>1 DEF Calling
  <2> QED
    BY <1>1, <2>1, <2>2, FreesOrderly
<1>3. CASE Tests(t, x, "confirming") \/ Tests(t, x, "moving")
  BY <1>1, <1>3, TestsOrderly
<1> QED
  BY <1>2, <1>3

LEMMA NextOrderly ==
    ASSUME Inv, (faults = 0 => Orderly), [Next]_vars
    PROVE  faults' = 0 => Orderly'
<1>1. ASSUME Next, faults' = 0
      PROVE  Orderly'
  <2>1. CASE FleetChanges
    BY <1>1, <2>1, FleetOrderly DEF FleetChanges
  <2>2. CASE \E t \in Threads, o \in Orders : Assign(t, o)
    BY <1>1, <2>2, AssignOrderly DEF Assign
  <2>3. CASE \E t \in Clients, x \in Ids : Tests(t, x, "confirming") \/ Tests(t, x, "moving") \/ FailDelivery(t, x)
    BY <1>1, <2>3, RequestsOrderly DEF Tests, FailDelivery
  <2>4. CASE \E h \in Handlers : CallLost(h)
    BY <1>1, <2>4, CallLostDoes DEF Inv
  <2>5. CASE \E t \in Threads : TimesOut(t)
    BY <1>1, <2>5, TimesOutDoes DEF Inv
  <2>6. CASE Restart
    BY <1>1, <2>6, RestartDoes DEF Inv
  <2>7. CASE Ack
    BY <1>1, <2>7, AckOrderly DEF Ack
  <2>8. CASE \E t \in Threads : Continues(t)
    <3>1. PICK t \in Threads : Continues(t)
      BY <2>8
    <3>2. faults' = faults
      <4>1. CASE Released(t) \/ NoReply(t)
        BY <1>1, <4>1, ReleasedDoes, NoReplyDoes DEF Inv, Counted
      <4>2. CASE Assigned(t) \/ UpdateLocation(t) \/ ConfirmDelivery(t)
        BY <4>2 DEF Assigned, UpdateLocation, ConfirmDelivery, NoFault
      <4> QED
        BY <3>1, <4>1, <4>2 DEF Continues
    <3> QED
      BY <1>1, <3>1, <3>2, ContinuesOrderly
  <2>9. CASE \E h \in Handlers : Serves(h)
    <3>1. PICK h \in Handlers : Serves(h)
      BY <2>9
    <3>2. faults' = faults
      BY <3>1 DEF Serves, AssignFind, AssignSave, Release
    <3> QED
      BY <1>1, <3>1, <3>2, ServesOrderly
  <2> QED
    BY <1>1, <2>1, <2>2, <2>3, <2>4, <2>5, <2>6, <2>7, <2>8, <2>9, Steppers
<1>2. CASE UNCHANGED vars
  BY <1>2, AnnouncedStays DEF Orderly, CallsAreServed, NobodyStranded, Carries, IsActive, BookedBy, vars
<1> QED
  BY <1>1, <1>2

LEMMA OrderlyHolds == Spec => [](faults = 0 => Orderly)
<1>1. Init => Inv /\ (faults = 0 => Orderly)
  BY InitType, InitOrderly
<1>2. Inv /\ (faults = 0 => Orderly) /\ [Next]_vars => (Inv /\ (faults = 0 => Orderly))'
  BY NextType, NextOrderly
<1> QED
  BY <1>1, <1>2, PTL DEF Spec

\* As long as every call is answered a deliverer who is BUSY carries a delivery,
\* or a call in course is about to give him one or to release him.
THEOREM NobodyIsStranded == Spec => []NoStrandedDeliverer
<1>1. (faults = 0 => Orderly) => NoStrandedDeliverer
  BY DEF Orderly, NobodyStranded, NoStrandedDeliverer
<1> QED
  BY <1>1, OrderlyHolds, PTL

\* As long as every call is answered and every publication reaches the broker a
\* delivery that is DELIVERED was announced,
\* or the thread that confirmed it is about to announce it.
THEOREM DeliveredGetsAnnounced == Spec => []DeliveredIsAnnounced
<1>1. (faults = 0 => Orderly) => DeliveredIsAnnounced
  BY DEF Orderly, AllAnnounced, DeliveredIsAnnounced
<1> QED
  BY <1>1, OrderlyHolds, PTL
=============================================================================
