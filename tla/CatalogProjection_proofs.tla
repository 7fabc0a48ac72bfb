---------------------- MODULE CatalogProjection_proofs ----------------------
(***************************************************************************)
(* Proofs about CatalogProjection: type correctness, that the average of a *)
(* restaurant is the same in both services that keep it, and is up to      *)
(* date, and that its name, dishes and closing reach the catalog, whatever *)
(* the threads, the losses and the restarts were.                          *)
(***************************************************************************)
EXTENDS CatalogProjection, SequenceTheorems, TLAPS

-----------------------------------------------------------------------------
(* TypeOK *)

\* Each rating is a request of its own.
TypeInv == TypeOK /\ ratings <= requests

LEMMA IdleType == Idle \in Works /\ Idle.step = "idle"
BY BoundsAssumption DEF Idle, Works, Steps, Ratings

LEMMA EventType ==
    ASSUME NEW n \in Names, NEW items \in SUBSET Dishes,
           NEW type \in {"RestaurantRegistered", "RestaurantUpdated", "RestaurantClosed", "MenuUpdated"}
    PROVE  {Event(type, n, items)} \in SUBSET Events
BY DEF Event, Events

LEMMA GoesType ==
    ASSUME TypeOK, NEW t \in Threads, NEW step \in Steps, NEW menu \in SUBSET Menus,
           NEW news \in SUBSET Events, Goes(t, step, menu, news)
    PROVE  /\ at' \in [Threads -> Works]
           /\ at'[t].step = step /\ at'[t].menu = menu
           /\ \A u \in Threads : u # t => at'[u] = at[u]
<1>1. [step |-> step, menu |-> menu, news |-> news, count |-> 0] \in Works
  BY BoundsAssumption DEF Works, Ratings
<1> QED
  BY <1>1 DEF TypeOK, Goes

LEMMA EndsType ==
    ASSUME TypeOK, NEW t \in Threads, Ends(t)
    PROVE  /\ at' \in [Threads -> Works]
           /\ at'[t] = Idle /\ \A u \in Threads : u # t => at'[u] = at[u]
BY IdleType DEF TypeOK, Ends

LEMMA CountsType ==
    ASSUME TypeOK, NEW t \in Threads, NEW step \in Steps, NEW n \in Ratings, Counts(t, step, n)
    PROVE  /\ at' \in [Threads -> Works]
           /\ at'[t].step = step /\ at'[t].count = n /\ at'[t].menu = at[t].menu
           /\ \A u \in Threads : u # t => at'[u] = at[u]
<1>1. at[t] \in Works
  BY DEF TypeOK
<1>2. [at[t] EXCEPT !.step = step, !.count = n] \in Works
  BY <1>1 DEF Works
<1> QED
  BY <1>1, <1>2 DEF TypeOK, Counts, Works

LEMMA BeginsType ==
    ASSUME TypeOK, NEW t \in Threads, NEW step \in Steps, NEW menu \in SUBSET Menus,
           NEW news \in SUBSET Events, Begins(t, step, menu, news)
    PROVE  /\ at' \in [Threads -> Works]
           /\ at'[t].step = step /\ at'[t].menu = menu
           /\ \A u \in Threads : u # t => at'[u] = at[u]
           /\ at[t] = Idle
           /\ requests' = requests + 1 /\ requests' \in 0 .. MaxRequests
<1>1. at[t] = Idle /\ requests < MaxRequests /\ requests' = requests + 1
  BY DEF Begins
<1>2. requests' \in 0 .. MaxRequests
  BY <1>1, BoundsAssumption DEF TypeOK
<1> QED
  BY <1>1, <1>2, GoesType DEF Begins

LEMMA WritesType ==
    ASSUME TypeOK, NEW k \in Kinds, NEW sure, Writes(k, sure)
    PROVE  /\ unsure' \subseteq Kinds
           /\ k # "rating" => ("rating" \in unsure' <=> "rating" \in unsure)
BY DEF TypeOK, Writes, Doubts, Kinds

LEMMA FaultType ==
    ASSUME TypeOK, Fault
    PROVE  faults' \in 0 .. MaxFaults
BY BoundsAssumption DEF TypeOK, Fault

\* What there is of an event once it is published, or not.
LEMMA PublishEventChanges ==
    ASSUME TypeOK, NEW t \in Threads, PublishEvent(t)
    PROVE  /\ index' \in Seq(Events) /\ faults' \in 0 .. MaxFaults /\ unsure' \subseteq Kinds
           /\ "rating" \in unsure' <=> "rating" \in unsure
<1> DEFINE k == IF at[t].menu # {} THEN "menu" ELSE "profile"
<1>1. CASE (\E e \in at[t].news : index' = Append(index, e)) /\ UNCHANGED <<unsure, faults>>
  BY <1>1 DEF TypeOK, Works
<1>2. CASE UNCHANGED index /\ Fault /\ unsure' = unsure \cup Doubts(k)
  BY <1>2, FaultType DEF TypeOK, Doubts, Kinds
<1> QED
  BY <1>1, <1>2 DEF PublishEvent, Publishes

LEMMA PublishRatingChanges ==
    ASSUME TypeOK, NEW t \in Threads, PublishRating(t)
    PROVE  /\ at[t].step = "announce" /\ Ends(t)
           /\ UNCHANGED <<service, ratings, catalog, index, requests>>
           /\ \/ /\ toCatalog' = Append(toCatalog, at[t].count)
                 /\ toRestaurant' = Append(toRestaurant, at[t].count)
                 /\ UNCHANGED <<unsure, faults>>
              \/ /\ UNCHANGED <<toCatalog, toRestaurant>>
                 /\ Fault /\ unsure' = unsure \cup {"rating"}
BY DEF PublishRating, Publishes, Doubts

LEMMA CatalogType ==
    ASSUME TypeOK, UpdateIndex
    PROVE  catalog' \in Entries /\ catalog'.rating = catalog.rating /\ index' \in Seq(Events)
           /\ (catalog.here => catalog'.here)
<1>1. index \in Seq(Events) /\ index # <<>> /\ index' = Tail(index) /\ catalog \in Entries
  BY DEF UpdateIndex, TypeOK
<1>2. PICK e \in Events : e = Head(index)
  BY <1>1
<1>3. \/ catalog' = on_restaurant_registered(e)
      \/ catalog' = on_restaurant_updated(e)
      \/ catalog' = on_restaurant_closed(e)
      \/ catalog' = on_menu_updated(e)
  BY <1>1, <1>2 DEF UpdateIndex, Events
<1>4. on_restaurant_registered(e) \in Entries
      /\ on_restaurant_registered(e).rating = catalog.rating /\ on_restaurant_registered(e).here
  BY <1>1 DEF on_restaurant_registered, Entries, Events
<1>5. /\ on_restaurant_updated(e) \in Entries
      /\ on_restaurant_updated(e).rating = catalog.rating /\ on_restaurant_updated(e).here
  <2>1. CASE catalog.here
    <3>1. on_restaurant_updated(e) =
              [catalog EXCEPT !.name = IF e.name # Empty THEN e.name ELSE catalog.name]
      BY <2>1 DEF on_restaurant_updated
    <3>2. (IF e.name # Empty THEN e.name ELSE catalog.name) \in Names
      BY <1>1 DEF Entries, Events
    <3> QED
      BY <1>1, <2>1, <3>1, <3>2 DEF Entries
  <2>2. CASE ~catalog.here
    BY <1>4, <2>2 DEF on_restaurant_updated
  <2> QED
    BY <2>1, <2>2
<1>6. /\ on_restaurant_closed(e) \in Entries
      /\ on_restaurant_closed(e).rating = catalog.rating
      /\ on_restaurant_closed(e).here = catalog.here
  <2>1. [catalog EXCEPT !.is_open = FALSE] \in Entries
    BY <1>1 DEF Entries
  <2> QED
    BY <1>1, <2>1 DEF on_restaurant_closed, Entries
<1>7. /\ on_menu_updated(e) \in Entries
      /\ on_menu_updated(e).rating = catalog.rating /\ on_menu_updated(e).here
  <2>1. e.items \in SUBSET Dishes
    BY DEF Events
  <2> QED
    BY <1>1, <2>1 DEF on_menu_updated, Entries
<1> QED
  BY <1>1, <1>3, <1>4, <1>5, <1>6, <1>7

LEMMA RatedType ==
    ASSUME TypeOK, NEW n \in Ratings
    PROVE  on_rating_created(n) \in Entries /\ on_rating_created(n).here = catalog.here
           /\ on_rating_created(n).rating = IF catalog.here THEN n ELSE catalog.rating
BY DEF TypeOK, on_rating_created, Entries, Ratings

LEMMA InitType == Init => TypeInv
<1> SUFFICES ASSUME Init PROVE TypeInv
  OBVIOUS
<1>1. 0 \in 0 .. MaxRequests /\ 0 \in 0 .. MaxFaults
  BY BoundsAssumption
<1>2. /\ restaurant \in Restaurants
      /\ catalog \in Entries /\ at \in [Threads -> Works]
  BY <1>1, IdleType, NamesAssumption DEF Init, Restaurants, RestaurantStatus, NoEntry, Entries
<1>3. menus \in [Menus -> [state : {"new", "listed", "deleted"}, items : SUBSET Dishes]]
  BY DEF Init
<1>4. /\ index \in Seq(Events) /\ toCatalog \in Seq(Ratings) /\ toRestaurant \in Seq(Ratings)
      /\ last \subseteq Menus /\ unsure \subseteq Kinds /\ ratings <= requests
  BY DEF Init
<1> QED
  BY <1>1, <1>2, <1>3, <1>4 DEF Init, TypeInv, TypeOK, Ratings

RatingSteps == {"rated", "summing", "announce"}

\* A step that has nothing to do with ratings.
Aside ==
    /\ restaurant'.rating = restaurant.rating /\ (restaurant.here => restaurant'.here)
    /\ catalog'.rating = catalog.rating /\ (catalog.here => catalog'.here)
    /\ UNCHANGED <<ratings, toCatalog, toRestaurant>>
    /\ "rating" \in unsure' <=> "rating" \in unsure
    /\ \A t \in Threads : IF at[t].step \in RatingSteps THEN at'[t] = at[t]
                          ELSE at'[t].step \notin RatingSteps

\* ... of a thread.
LEMMA ThreadAside ==
    ASSUME TypeInv, NEW t \in Threads, at[t].step \notin RatingSteps,
           at'[t].step \notin RatingSteps, \A u \in Threads : u # t => at'[u] = at[u],
           UNCHANGED <<ratings, catalog, toCatalog, toRestaurant>>,
           restaurant' \in Restaurants, restaurant'.rating = restaurant.rating,
           restaurant.here => restaurant'.here,
           menus' \in [Menus -> [state : {"new", "listed", "deleted"}, items : SUBSET Dishes]],
           last' \subseteq Menus,
           at' \in [Threads -> Works], index' \in Seq(Events),
           unsure' \subseteq Kinds, "rating" \in unsure' <=> "rating" \in unsure,
           requests' = requests \/ (requests' = requests + 1 /\ requests' \in 0 .. MaxRequests),
           faults' \in 0 .. MaxFaults
    PROVE  TypeInv' /\ Aside
<1>1. requests' \in 0 .. MaxRequests /\ ratings' <= requests'
  <2>1. ratings \in Nat /\ requests \in Nat /\ ratings <= requests /\ ratings' = ratings
    BY BoundsAssumption DEF TypeInv, TypeOK, Ratings
  <2> QED
    BY <2>1 DEF TypeInv, TypeOK
<1>2. TypeOK'
  BY <1>1 DEF TypeInv, TypeOK
<1>3. Aside
  BY DEF Aside
<1> QED
  BY <1>1, <1>2, <1>3 DEF TypeInv

LEMMA CreateRestaurantAside ==
    ASSUME TypeInv, NEW t \in Threads, NEW n \in Names, NEW s \in RestaurantStatus, CreateRestaurant(t, n, s)
    PROVE  TypeInv' /\ Aside
<1> DEFINE news == {Event("RestaurantRegistered", n, {})}
<1>1. Begins(t, "publish", {}, news) /\ news \in SUBSET Events /\ TypeOK
  BY EventType DEF CreateRestaurant, TypeInv
<1> HIDE DEF news
<1>2. /\ at' \in [Threads -> Works] /\ at'[t].step = "publish"
      /\ \A u \in Threads : u # t => at'[u] = at[u]
      /\ at[t] = Idle /\ requests' = requests + 1 /\ requests' \in 0 .. MaxRequests
  BY <1>1, BeginsType DEF Steps
<1>3. unsure' \subseteq Kinds /\ ("rating" \in unsure' <=> "rating" \in unsure)
  BY <1>1, WritesType DEF CreateRestaurant, Kinds
<1>4. /\ restaurant' = [restaurant EXCEPT !.here = TRUE, !.name = n, !.status = s,
                                           !.untold = (s = "CLOSED")]
      /\ UNCHANGED <<menus, last, ratings, catalog, index, toCatalog, toRestaurant, faults>>
  BY DEF CreateRestaurant, queues
<1>5. /\ restaurant' \in Restaurants /\ restaurant'.rating = restaurant.rating
      /\ restaurant'.here
  BY <1>1, <1>4 DEF TypeOK, Restaurants
<1> QED
  BY <1>1, <1>2, <1>3, <1>4, <1>5, IdleType, ThreadAside DEF TypeOK, RatingSteps

LEMMA UpdateRestaurantAside ==
    ASSUME TypeInv, NEW t \in Threads, UpdateRestaurant(t)
    PROVE  TypeInv' /\ Aside
<1>t. TypeOK
  BY DEF TypeInv
<1>1. PICK step \in {"updated", "closing"}, news \in SUBSET Events : Begins(t, step, {}, news)
  <2>1. {Event("RestaurantClosed", Empty, {})} \in SUBSET Events
    BY EventType, NamesAssumption
  <2> QED
    BY <2>1 DEF UpdateRestaurant
<1>2. /\ at' \in [Threads -> Works] /\ at'[t].step = step
      /\ \A u \in Threads : u # t => at'[u] = at[u]
      /\ at[t] = Idle /\ requests' = requests + 1 /\ requests' \in 0 .. MaxRequests
  <2>1. step \in Steps /\ {} \in SUBSET Menus
    BY DEF Steps
  <2> QED
    BY <1>t, <1>1, <2>1, BeginsType, Zenon
<1>3. unsure' \subseteq Kinds /\ ("rating" \in unsure' <=> "rating" \in unsure)
  BY <1>t, WritesType DEF UpdateRestaurant, Kinds
<1>4. UNCHANGED <<menus, last, ratings, catalog, index, toCatalog, toRestaurant, faults>>
  BY DEF UpdateRestaurant, queues
<1>5. /\ restaurant' \in Restaurants /\ restaurant'.rating = restaurant.rating
      /\ restaurant.here => restaurant'.here
  <2>1. \/ \E n \in Names : restaurant' = [restaurant EXCEPT !.name = n]
        \/ \E st \in RestaurantStatus :
              restaurant' = [restaurant EXCEPT !.status = st, !.untold = @ /\ st = "CLOSED"]
    BY DEF UpdateRestaurant
  <2> QED
    BY <1>t, <2>1 DEF TypeOK, Restaurants
<1> QED
  BY <1>t, <1>2, <1>3, <1>4, <1>5, IdleType, ThreadAside DEF TypeOK, RatingSteps

\* The requests about menus.
LEMMA WritesMenuAside ==
    ASSUME TypeInv, NEW t \in Threads, NEW m \in Menus,
           NEW v \in [state : {"new", "listed", "deleted"}, items : SUBSET Dishes],
           NEW sure, WritesMenu(t, m, v, sure),
           at[t].step \notin RatingSteps, at'[t].step \notin RatingSteps,
           \A u \in Threads : u # t => at'[u] = at[u], at' \in [Threads -> Works],
           requests' = requests \/ (requests' = requests + 1 /\ requests' \in 0 .. MaxRequests)
    PROVE  TypeInv' /\ Aside
<1>1. /\ menus' = [menus EXCEPT ![m] = v] /\ last' = {m} /\ TypeOK
      /\ UNCHANGED <<restaurant, ratings, catalog, index, toCatalog, toRestaurant, faults>>
  BY DEF WritesMenu, queues, TypeInv
<1>2. unsure' \subseteq Kinds /\ ("rating" \in unsure' <=> "rating" \in unsure)
  BY <1>1, WritesType DEF WritesMenu, Kinds
<1>3. menus' \in [Menus -> [state : {"new", "listed", "deleted"}, items : SUBSET Dishes]]
  BY <1>1 DEF TypeOK
<1> QED
  BY <1>1, <1>2, <1>3, ThreadAside DEF TypeOK

LEMMA AddMenuAside ==
    ASSUME TypeInv, NEW t \in Threads, NEW m \in Menus, AddMenu(t, m)
    PROVE  TypeInv' /\ Aside
<1> DEFINE v == [state |-> "listed", items |-> {}]
<1>1. /\ v \in [state : {"new", "listed", "deleted"}, items : SUBSET Dishes]
      /\ WritesMenu(t, m, v, TRUE) /\ Begins(t, "written", {m}, {}) /\ TypeOK
  BY DEF AddMenu, TypeInv
<1> HIDE DEF v
<1>2. /\ at' \in [Threads -> Works] /\ at'[t].step = "written"
      /\ \A u \in Threads : u # t => at'[u] = at[u]
      /\ at[t] = Idle /\ requests' = requests + 1 /\ requests' \in 0 .. MaxRequests
  <2>1. {m} \in SUBSET Menus /\ {} \in SUBSET Events /\ "written" \in Steps
    BY DEF Steps
  <2> QED
    BY <1>1, <2>1, BeginsType, Zenon
<1> QED
  BY <1>1, <1>2, IdleType, WritesMenuAside DEF RatingSteps

LEMMA FindMenuAside ==
    ASSUME TypeInv, NEW t \in Threads, NEW m \in Menus, FindMenu(t, m)
    PROVE  TypeInv' /\ Aside
<1>1. Begins(t, "found", {m}, {}) /\ TypeOK
  BY DEF FindMenu, TypeInv
<1>2. /\ at' \in [Threads -> Works] /\ at'[t].step = "found"
      /\ \A u \in Threads : u # t => at'[u] = at[u]
      /\ at[t] = Idle /\ requests' = requests + 1 /\ requests' \in 0 .. MaxRequests
  <2>1. {m} \in SUBSET Menus /\ {} \in SUBSET Events /\ "found" \in Steps
    BY DEF Steps
  <2> QED
    BY <1>1, <2>1, BeginsType, Zenon
<1>3. UNCHANGED <<restaurant, menus, last, ratings, catalog, index, toCatalog, toRestaurant, unsure, faults>>
  BY DEF FindMenu, queues, service
<1> QED
  BY <1>1, <1>2, <1>3, IdleType, ThreadAside DEF TypeOK, RatingSteps

LEMMA EditMenuAside ==
    ASSUME TypeInv, NEW t \in Threads, EditMenu(t)
    PROVE  TypeInv' /\ Aside
<1>1. PICK m \in at[t].menu :
          /\ at[t].step = "found" /\ Goes(t, "written", {m}, {}) /\ requests' = requests
          /\ \E items \in Edits(menus[m].items) :
                 WritesMenu(t, m, [menus[m] EXCEPT !.items = items], menus[m].state = "listed")
  BY DEF EditMenu
<1>2. m \in Menus /\ TypeOK
  BY <1>1 DEF TypeInv, TypeOK, Works
<1>3. PICK items \in Edits(menus[m].items) :
          WritesMenu(t, m, [menus[m] EXCEPT !.items = items], menus[m].state = "listed")
  BY <1>1
<1>4. items \in SUBSET Dishes
  BY <1>2 DEF TypeOK, Edits
<1>5. [menus[m] EXCEPT !.items = items] \in [state : {"new", "listed", "deleted"}, items : SUBSET Dishes]
  BY <1>2, <1>4 DEF TypeOK
<1>6. /\ at' \in [Threads -> Works] /\ at'[t].step = "written"
      /\ \A u \in Threads : u # t => at'[u] = at[u]
  BY <1>1, <1>2, GoesType DEF Steps
<1> QED
  BY <1>1, <1>2, <1>3, <1>5, <1>6, WritesMenuAside DEF RatingSteps

LEMMA DeleteMenuAside ==
    ASSUME TypeInv, NEW t \in Threads, DeleteMenu(t)
    PROVE  TypeInv' /\ Aside
<1> DEFINE news == {Event("MenuUpdated", Empty, {})}
<1>1. PICK m \in at[t].menu :
          /\ at[t].step = "found" /\ Goes(t, "publish", {m}, news) /\ requests' = requests
          /\ WritesMenu(t, m, [menus[m] EXCEPT !.state = "deleted"], TRUE)
  BY DEF DeleteMenu
<1>2. m \in Menus /\ TypeOK /\ news \in SUBSET Events
  BY <1>1, EventType, NamesAssumption DEF TypeInv, TypeOK, Works
<1> HIDE DEF news
<1>3. [menus[m] EXCEPT !.state = "deleted"] \in [state : {"new", "listed", "deleted"}, items : SUBSET Dishes]
  BY <1>2 DEF TypeOK
<1>4. /\ at' \in [Threads -> Works] /\ at'[t].step = "publish"
      /\ \A u \in Threads : u # t => at'[u] = at[u]
  BY <1>1, <1>2, GoesType DEF Steps
<1> QED
  BY <1>1, <1>2, <1>3, <1>4, WritesMenuAside DEF RatingSteps

LEMMA RaisesNotFoundAside ==
    ASSUME TypeInv, NEW t \in Threads, RaisesNotFound(t)
    PROVE  TypeInv' /\ Aside
<1>1. at[t].step = "found" /\ Ends(t) /\ TypeOK
  BY DEF RaisesNotFound, TypeInv
<1>2. at' \in [Threads -> Works] /\ at'[t] = Idle /\ \A u \in Threads : u # t => at'[u] = at[u]
  BY <1>1, EndsType
<1>3. UNCHANGED <<restaurant, menus, last, ratings, catalog, index, toCatalog, toRestaurant, unsure,
                  faults, requests>>
  BY DEF RaisesNotFound, queues, service
<1> QED
  BY <1>1, <1>2, <1>3, IdleType, ThreadAside DEF TypeOK, RatingSteps

LEMMA BuildEventAside ==
    ASSUME TypeInv, NEW t \in Threads, BuildEvent(t)
    PROVE  TypeInv' /\ Aside
<1>t. TypeOK
  BY DEF TypeInv
<1>1. at[t].step \in {"updated", "written"}
  BY DEF BuildEvent
<1>2. PICK menu \in SUBSET Menus, news \in SUBSET Events : Goes(t, "publish", menu, news)
  <2>1. CASE Goes(t, "publish", {}, {Event("RestaurantUpdated", restaurant.name, {})})
    <3>1. {Event("RestaurantUpdated", restaurant.name, {})} \in SUBSET Events
      BY <1>t, EventType DEF TypeOK, Restaurants
    <3> QED
      BY <2>1, <3>1
  <2>2. ASSUME NEW m \in at[t].menu, Goes(t, "publish", {m}, {Event("MenuUpdated", Empty, menus[m].items)})
        PROVE  \E menu \in SUBSET Menus, news \in SUBSET Events : Goes(t, "publish", menu, news)
    <3>1. m \in Menus
      BY <1>t DEF TypeOK, Works
    <3>2. {Event("MenuUpdated", Empty, menus[m].items)} \in SUBSET Events
      BY <1>t, <3>1, EventType, NamesAssumption DEF TypeOK
    <3> QED
      BY <2>2, <3>1, <3>2
  <2> QED
    BY <2>1, <2>2 DEF BuildEvent
<1>3. /\ at' \in [Threads -> Works] /\ at'[t].step = "publish"
      /\ \A u \in Threads : u # t => at'[u] = at[u]
  BY <1>t, <1>2, GoesType DEF Steps
<1>4. UNCHANGED <<restaurant, menus, last, ratings, catalog, index, toCatalog, toRestaurant, unsure,
                  faults, requests>>
  BY DEF BuildEvent, queues, service
<1> QED
  BY <1>t, <1>1, <1>3, <1>4, ThreadAside DEF TypeOK, RatingSteps

LEMMA PublishEventAside ==
    ASSUME TypeInv, NEW t \in Threads, PublishEvent(t)
    PROVE  TypeInv' /\ Aside
<1>t. TypeOK
  BY DEF TypeInv
<1>1. at[t].step \in {"closing", "publish"} /\ (Goes(t, "updated", {}, {}) \/ Ends(t))
  BY DEF PublishEvent
<1>2. at' \in [Threads -> Works] /\ at'[t].step \in {"idle", "updated"}
      /\ \A u \in Threads : u # t => at'[u] = at[u]
  BY <1>t, <1>1, GoesType, EndsType, IdleType DEF Steps
<1>3. UNCHANGED <<restaurant, menus, last, ratings, catalog, toCatalog, toRestaurant, requests>>
  BY DEF PublishEvent, service
<1> QED
  BY <1>t, <1>1, <1>2, <1>3, PublishEventChanges, ThreadAside DEF TypeOK, RatingSteps

LEMMA UpdateIndexAside ==
    ASSUME TypeInv, UpdateIndex
    PROVE  TypeInv' /\ Aside
<1>1. /\ catalog' \in Entries /\ catalog'.rating = catalog.rating /\ index' \in Seq(Events)
      /\ catalog.here => catalog'.here
  BY CatalogType DEF TypeInv
<1>2. UNCHANGED <<restaurant, menus, last, ratings, toCatalog, toRestaurant, at, unsure, faults, requests>>
  BY DEF UpdateIndex, service
<1>3. TypeInv'
  BY <1>1, <1>2 DEF TypeInv, TypeOK
<1> QED
  BY <1>1, <1>2, <1>3 DEF Aside, RatingSteps

LEMMA StutterAside ==
    ASSUME TypeInv, UNCHANGED vars
    PROVE  TypeInv' /\ Aside
BY DEF TypeInv, TypeOK, vars, Aside, RatingSteps

\* The steps that are not about ratings.
LEMMA StepsAside ==
    ASSUME TypeInv, [Next]_vars
    PROVE  \/ TypeInv' /\ Aside
           \/ \E t \in Threads : CreateRating(t) \/ Recompute(t) \/ PublishRating(t)
           \/ UpdateRatings \/ RateRestaurant \/ RatingRestart \/ CatalogRestart
<1>1. ASSUME NEW t \in Threads, Requests(t) PROVE (TypeInv' /\ Aside) \/ CreateRating(t)
  BY <1>1, CreateRestaurantAside, UpdateRestaurantAside, AddMenuAside, FindMenuAside DEF Requests
<1>2. ASSUME NEW t \in Threads, Continues(t)
      PROVE  (TypeInv' /\ Aside) \/ Recompute(t) \/ PublishRating(t)
  BY <1>2, EditMenuAside, DeleteMenuAside, RaisesNotFoundAside, BuildEventAside, PublishEventAside
  DEF Continues
<1> QED
  BY <1>1, <1>2, UpdateIndexAside, StutterAside DEF Next, Consumes, Faults

-----------------------------------------------------------------------------
(* RatingsAgree and RatingCatchesUp *)

LastOf(q) == q[Len(q)]

LEMMA LastOfAppend ==
    ASSUME NEW S, NEW q \in Seq(S), NEW n \in S
    PROVE  Append(q, n) \in Seq(S) /\ Append(q, n) # <<>> /\ LastOf(Append(q, n)) = n
BY DEF LastOf

LEMMA LastOfTail ==
    ASSUME NEW S, NEW q \in Seq(S), q # <<>>
    PROVE  /\ Head(q) \in S /\ Tail(q) \in Seq(S)
           /\ LastOf(q) = IF Tail(q) = <<>> THEN Head(q) ELSE LastOf(Tail(q))
<1>1. Len(q) \in Nat \ {0} /\ Head(q) = q[1] /\ Head(q) \in S
  OBVIOUS
<1>2. PICK w \in Seq(S) : w = Tail(q)
  <2>1. Tail(q) \in Seq(S)
    BY HeadTailProperties
  <2> QED
    BY <2>1, Zenon
<1>3. Len(w) = Len(q) - 1 /\ \A i \in 1 .. Len(w) : w[i] = q[i + 1]
  BY <1>2, HeadTailProperties
<1>4. CASE w = <<>>
  <2>1. Len(w) = 0
    BY <1>4
  <2>2. Len(q) = 1
    BY <1>1, <1>3, <2>1
  <2> QED
    BY <1>1, <1>2, <1>4, <2>2 DEF LastOf
<1>5. CASE w # <<>>
  <2>1. Len(w) \in 1 .. Len(w) /\ Len(w) + 1 = Len(q)
    BY <1>1, <1>3, <1>5
  <2>2. LastOf(w) = LastOf(q)
    BY <1>3, <2>1 DEF LastOf
  <2> QED
    BY <1>1, <1>2, <1>5, <2>2
<1> QED
  BY <1>4, <1>5

\* What the restaurant's average will be once its queue is empty.
Coming == IF toRestaurant = <<>> THEN restaurant.rating ELSE LastOf(toRestaurant)

\* A thread that has saved a rating and not announced it.
Rating(t) == at[t].step \in RatingSteps

\* The two queues end with the same summary; and while no rating is in doubt, the
\* one thread that may still announce one announces all ratings there are.
RatingInv ==
    /\ toRestaurant # <<>> \/ (\E t \in Threads : Rating(t)) => restaurant.here
    /\ ~catalog.here => catalog.rating = 0
    /\ IF toCatalog = <<>> THEN catalog.rating \in {0, Coming} ELSE LastOf(toCatalog) = Coming
    /\ "rating" \notin unsure =>
           /\ (\A t \in Threads : ~Rating(t)) => Coming = ratings
           /\ \A t, u \in Threads : Rating(t) /\ Rating(u) => t = u
           /\ \A t \in Threads : at[t].step \in {"summing", "announce"} => at[t].count = ratings

LEMMA InitRating == Init => RatingInv
BY IdleType DEF Init, RatingInv, Rating, RatingSteps, Coming, NoEntry

LEMMA AsideRating ==
    ASSUME TypeInv, RatingInv, Aside
    PROVE  RatingInv'
<1>1. Coming' = Coming
  BY DEF Aside, Coming
<1>2. \A t \in Threads : (Rating(t)' <=> Rating(t)) /\ (Rating(t) => at'[t] = at[t])
  BY DEF Aside, Rating
<1>3. \A t \in Threads : at'[t].step \in {"summing", "announce"} => Rating(t)'
  BY DEF Rating, RatingSteps
<1> QED
  BY <1>1, <1>2, <1>3 DEF Aside, RatingInv, Rating, RatingSteps

\* Writes and Unsaid, of ratings.
LEMMA UnsaidRatings ==
    Unsaid("rating") = {} <=> \A t \in Threads : ~Rating(t)
BY DEF Unsaid, Rating, RatingSteps

LEMMA CreateRatingKeeps ==
    ASSUME TypeInv, RatingInv, NEW t \in Threads, CreateRating(t)
    PROVE  TypeInv' /\ RatingInv'
<1>t. TypeOK
  BY DEF TypeInv
<1>1. /\ at' \in [Threads -> Works] /\ at'[t].step = "rated"
      /\ \A u \in Threads : u # t => at'[u] = at[u]
      /\ at[t] = Idle /\ requests' = requests + 1 /\ requests' \in 0 .. MaxRequests
  <2>1. Begins(t, "rated", {}, {}) /\ "rated" \in Steps /\ {} \in SUBSET Menus /\ {} \in SUBSET Events
    BY DEF CreateRating, Steps
  <2> QED
    BY <1>t, <2>1, BeginsType, Zenon
<1>2. unsure' \subseteq Kinds
  BY <1>t, WritesType DEF CreateRating, Kinds
<1>3. /\ ratings' = ratings + 1 /\ restaurant.here
      /\ UNCHANGED <<restaurant, menus, last, catalog, index, toCatalog, toRestaurant, faults>>
  BY DEF CreateRating, service, queues
<1>4. ratings' \in Ratings /\ ratings' <= requests'
  <2>1. ratings \in Nat /\ requests \in Nat /\ ratings <= requests
    BY BoundsAssumption DEF TypeInv, TypeOK, Ratings
  <2> QED
    BY <1>1, <1>3, <2>1, BoundsAssumption DEF Ratings
<1>5. TypeInv'
  BY <1>t, <1>1, <1>2, <1>3, <1>4 DEF TypeInv, TypeOK
<1>6. Coming' = Coming
  BY <1>3 DEF Coming
<1>7. Rating(t)' /\ \A u \in Threads : u # t => (Rating(u)' <=> Rating(u))
  BY <1>1 DEF Rating, RatingSteps
<1>8. "rating" \notin unsure' => \A u \in Threads : ~Rating(u)
  <2>1. Writes("rating", TRUE)
    BY DEF CreateRating
  <2> QED
    BY <2>1, UnsaidRatings DEF Writes, Doubts
<1>9. ASSUME "rating" \notin unsure', NEW u \in Threads PROVE at'[u].step \notin {"summing", "announce"}
  BY <1>1, <1>8, <1>9 DEF Rating, RatingSteps
<1> QED
  BY <1>3, <1>5, <1>6, <1>7, <1>8, <1>9 DEF RatingInv

LEMMA RecomputeKeeps ==
    ASSUME TypeInv, RatingInv, NEW t \in Threads, Recompute(t)
    PROVE  TypeInv' /\ RatingInv'
<1>t. TypeOK /\ ratings \in Ratings
  BY DEF TypeInv, TypeOK
<1>1. at[t].step \in {"rated", "summing"} /\
      \/ Counts(t, "summing", ratings)
      \/ at[t].count = ratings /\ Counts(t, "announce", ratings)
      \/ at[t].count # ratings /\ Ends(t) /\ at[t].step = "summing"
  BY DEF Recompute
<1>2. UNCHANGED <<restaurant, menus, last, ratings, catalog, index, toCatalog, toRestaurant, unsure,
                  faults, requests>>
  BY DEF Recompute, service, queues
<1>3. /\ at' \in [Threads -> Works]
      /\ \A u \in Threads : u # t => at'[u] = at[u]
      /\ \/ at'[t].step \in {"summing", "announce"} /\ at'[t].count = ratings
         \/ at'[t].step = "idle" /\ at[t].count # ratings /\ at[t].step = "summing"
  BY <1>t, <1>1, CountsType, EndsType, IdleType DEF Steps
<1>4. TypeInv'
  BY <1>t, <1>2, <1>3 DEF TypeInv, TypeOK
<1>5. Coming' = Coming /\ Rating(t)
  BY <1>1, <1>2 DEF Coming, Rating, RatingSteps
<1>6. \A u \in Threads : u # t => (Rating(u)' <=> Rating(u))
  BY <1>3 DEF Rating
<1>7. "rating" \notin unsure => Rating(t)'
  BY <1>3 DEF RatingInv, Rating, RatingSteps
<1> QED
  BY <1>2, <1>3, <1>4, <1>5, <1>6, <1>7 DEF RatingInv

LEMMA PublishRatingKeeps ==
    ASSUME TypeInv, RatingInv, NEW t \in Threads, PublishRating(t)
    PROVE  TypeInv' /\ RatingInv'
<1> DEFINE n == at[t].count
<1>t. TypeOK
  BY DEF TypeInv
<1>n. n \in Ratings /\ Rating(t) /\ at[t].step = "announce"
  BY <1>t, PublishRatingChanges DEF TypeOK, Works, Rating, RatingSteps
<1>1. /\ UNCHANGED <<restaurant, menus, last, ratings, catalog, index, requests>>
      /\ at' \in [Threads -> Works] /\ at'[t].step = "idle"
      /\ \A u \in Threads : u # t => at'[u] = at[u]
  BY <1>t, PublishRatingChanges, EndsType, IdleType DEF service
<1>2. ~Rating(t)' /\ \A u \in Threads : u # t => (Rating(u)' <=> Rating(u))
  BY <1>1 DEF Rating, RatingSteps
<1>3. CASE /\ toCatalog' = Append(toCatalog, n) /\ toRestaurant' = Append(toRestaurant, n)
           /\ UNCHANGED <<unsure, faults>>
  <2>1. /\ toCatalog' \in Seq(Ratings) /\ toCatalog' # <<>> /\ LastOf(toCatalog') = n
        /\ toRestaurant' \in Seq(Ratings) /\ toRestaurant' # <<>> /\ LastOf(toRestaurant') = n
    BY <1>t, <1>n, <1>3, LastOfAppend DEF TypeOK
  <2>2. TypeInv'
    BY <1>t, <1>1, <1>3, <2>1 DEF TypeInv, TypeOK
  <2>3. Coming' = n /\ LastOf(toCatalog') = Coming'
    BY <2>1 DEF Coming, LastOf
  <2>4. "rating" \notin unsure => n = ratings /\ \A u \in Threads : ~Rating(u)'
    BY <1>n, <1>2 DEF RatingInv
  <2>5. "rating" \notin unsure => \A u \in Threads : at'[u].step \notin {"summing", "announce"}
    BY <2>4 DEF Rating, RatingSteps
  <2> HIDE DEF n
  <2> QED
    BY <1>n, <1>1, <1>2, <1>3, <2>1, <2>2, <2>3, <2>4, <2>5 DEF RatingInv
<1>4. CASE UNCHANGED <<toCatalog, toRestaurant>> /\ Fault /\ unsure' = unsure \cup {"rating"}
  <2>1. TypeInv'
    BY <1>t, <1>1, <1>4, FaultType DEF TypeInv, TypeOK, Kinds
  <2>2. Coming' = Coming
    BY <1>1, <1>4 DEF Coming
  <2> QED
    BY <1>1, <1>2, <1>4, <2>1, <2>2 DEF RatingInv
<1> QED
  BY <1>3, <1>4, PublishRatingChanges, <1>t

LEMMA UpdateRatingsKeeps ==
    ASSUME TypeInv, RatingInv, UpdateRatings
    PROVE  TypeInv' /\ RatingInv'
<1>t. TypeOK /\ toCatalog \in Seq(Ratings) /\ toCatalog # <<>> /\ toCatalog' = Tail(toCatalog)
  BY DEF TypeInv, TypeOK, UpdateRatings
<1>n. PICK n \in Ratings : n = Head(toCatalog)
  BY <1>t
<1>1. /\ catalog' = on_rating_created(n)
      /\ UNCHANGED <<restaurant, menus, last, ratings, index, toRestaurant, at, unsure, faults, requests>>
  BY <1>n DEF UpdateRatings, service
<1>2. /\ catalog' \in Entries /\ catalog'.here = catalog.here
      /\ catalog'.rating = IF catalog.here THEN n ELSE catalog.rating
  BY <1>t, <1>1, RatedType
<1>3. /\ toCatalog' \in Seq(Ratings)
      /\ LastOf(toCatalog) = IF toCatalog' = <<>> THEN n ELSE LastOf(toCatalog')
  BY <1>t, <1>n, LastOfTail
<1>4. TypeInv'
  BY <1>t, <1>1, <1>2, <1>3 DEF TypeInv, TypeOK
<1>5. Coming' = Coming /\ \A u \in Threads : Rating(u)' <=> Rating(u)
  BY <1>1 DEF Coming, Rating
<1> QED
  BY <1>t, <1>1, <1>2, <1>3, <1>4, <1>5 DEF RatingInv

LEMMA RateRestaurantKeeps ==
    ASSUME TypeInv, RatingInv, RateRestaurant
    PROVE  TypeInv' /\ RatingInv'
<1>t. /\ TypeOK /\ toRestaurant \in Seq(Ratings) /\ toRestaurant # <<>>
      /\ toRestaurant' = Tail(toRestaurant) /\ restaurant.here
  BY DEF TypeInv, TypeOK, RateRestaurant, RatingInv
<1>n. PICK n \in Ratings : n = Head(toRestaurant)
  BY <1>t
<1>1. /\ restaurant' = [restaurant EXCEPT !.rating = n]
      /\ UNCHANGED <<menus, last, ratings, catalog, index, toCatalog, at, unsure, faults, requests>>
  BY <1>t, <1>n DEF RateRestaurant
<1>2. restaurant' \in Restaurants /\ restaurant'.here /\ restaurant'.rating = n
  BY <1>t, <1>1 DEF TypeOK, Restaurants, Ratings
<1>3. /\ toRestaurant' \in Seq(Ratings)
      /\ LastOf(toRestaurant) = IF toRestaurant' = <<>> THEN n ELSE LastOf(toRestaurant')
  BY <1>t, <1>n, LastOfTail
<1>4. TypeInv'
  BY <1>t, <1>1, <1>2, <1>3 DEF TypeInv, TypeOK
<1>5. Coming' = Coming /\ \A u \in Threads : Rating(u)' <=> Rating(u)
  BY <1>t, <1>1, <1>2, <1>3 DEF Coming, Rating, LastOf
<1> QED
  BY <1>t, <1>1, <1>2, <1>4, <1>5 DEF RatingInv

LEMMA RatingRestartKeeps ==
    ASSUME TypeInv, RatingInv, RatingRestart
    PROVE  TypeInv' /\ RatingInv'
<1>t. TypeOK
  BY DEF TypeInv
<1>1. /\ ratings' = 0 /\ unsure' = unsure \cup {"rating"} /\ Fault
      /\ UNCHANGED <<restaurant, menus, last, catalog, index, toCatalog, toRestaurant, requests>>
      /\ at' = [t \in Threads |-> IF t \in Unsaid("rating") THEN Idle ELSE at[t]]
  BY DEF RatingRestart, service, queues
<1>2. at' \in [Threads -> Works] /\ \A t \in Threads : at'[t] = Idle \/ at'[t] = at[t]
  BY <1>t, <1>1, IdleType DEF TypeOK
<1>3. ratings' \in Ratings /\ ratings' <= requests'
  BY <1>t, <1>1, BoundsAssumption DEF TypeOK, Ratings
<1>4. TypeInv'
  BY <1>t, <1>1, <1>2, <1>3, FaultType DEF TypeInv, TypeOK, Kinds
<1>5. Coming' = Coming /\ \A u \in Threads : Rating(u)' => Rating(u)
  BY <1>1, <1>2, IdleType DEF Coming, Rating, RatingSteps
<1> QED
  BY <1>1, <1>4, <1>5 DEF RatingInv

LEMMA CatalogRestartKeeps ==
    ASSUME TypeInv, RatingInv, CatalogRestart
    PROVE  TypeInv' /\ RatingInv'
<1>t. TypeOK
  BY DEF TypeInv
<1>1. /\ catalog' = NoEntry /\ unsure' = Kinds /\ Fault
      /\ UNCHANGED <<restaurant, menus, last, ratings, index, toCatalog, toRestaurant, at, requests>>
  BY DEF CatalogRestart, service, queues
<1>2. NoEntry \in Entries /\ NoEntry.rating = 0
  BY NamesAssumption, BoundsAssumption DEF NoEntry, Entries
<1>3. TypeInv'
  BY <1>t, <1>1, <1>2, FaultType DEF TypeInv, TypeOK
<1>4. Coming' = Coming /\ \A u \in Threads : Rating(u)' <=> Rating(u)
  BY <1>1 DEF Coming, Rating
<1> QED
  BY <1>1, <1>2, <1>3, <1>4 DEF RatingInv, Kinds

LEMMA NextRating == TypeInv /\ RatingInv /\ [Next]_vars => TypeInv' /\ RatingInv'
BY StepsAside, AsideRating, CreateRatingKeeps, RecomputeKeeps, PublishRatingKeeps, UpdateRatingsKeeps,
   RateRestaurantKeeps, RatingRestartKeeps, CatalogRestartKeeps

-----------------------------------------------------------------------------
(* IndexCatchesUp: what a queue will make of the catalog *)

\* No event of queue q has a type of T.
None(q, T) == \A i \in DOMAIN q : q[i].type \notin T

\* The last event of queue q that has a type of T is e.
Latest(q, T, e) ==
    \E i \in DOMAIN q : q[i] = e /\ e.type \in T /\ \A j \in DOMAIN q : j > i => q[j].type \notin T

LEMMA LatestAppend ==
    ASSUME NEW q \in Seq(Events), NEW e \in Events, NEW T
    PROVE  /\ e.type \in T => Latest(Append(q, e), T, e)
           /\ e.type \notin T => /\ None(q, T) => None(Append(q, e), T)
                                 /\ \A f \in Events : Latest(q, T, f) => Latest(Append(q, e), T, f)
           /\ ~None(q, T) => ~None(Append(q, e), T)
<1>a. PICK r \in Seq(Events) : r = Append(q, e)
  <2>1. Append(q, e) \in Seq(Events)
    OBVIOUS
  <2> QED
    BY <2>1, Zenon
<1>1. /\ Len(q) \in Nat /\ Len(r) = Len(q) + 1 /\ r[Len(r)] = e
      /\ DOMAIN q = 1 .. Len(q) /\ DOMAIN r = 1 .. Len(r)
      /\ \A i \in DOMAIN q : r[i] = q[i]
  BY <1>a
<1>2. ASSUME e.type \in T PROVE Latest(r, T, e)
  BY <1>1, <1>2 DEF Latest
<1>3. ASSUME e.type \notin T, None(q, T) PROVE None(r, T)
  BY <1>1, <1>3 DEF None
<1>4. ASSUME e.type \notin T, NEW f \in Events, Latest(q, T, f) PROVE Latest(r, T, f)
  BY <1>1, <1>4 DEF Latest
<1>5. ASSUME ~None(q, T) PROVE ~None(r, T)
  BY <1>1, <1>5 DEF None
<1> QED
  BY <1>a, <1>2, <1>3, <1>4, <1>5

LEMMA LatestTail ==
    ASSUME NEW q \in Seq(Events), q # <<>>, NEW T
    PROVE  /\ Head(q) \in Events /\ Tail(q) \in Seq(Events)
           /\ None(q, T) => None(Tail(q), T)
           /\ \A f \in Events : Latest(q, T, f) =>
                  Latest(Tail(q), T, f) \/ (Head(q) = f /\ f.type \in T /\ None(Tail(q), T))
           /\ ~None(q, T) => ~None(Tail(q), T) \/ Head(q).type \in T
<1>1. Len(q) \in Nat \ {0} /\ Head(q) = q[1] /\ Head(q) \in Events
  OBVIOUS
<1>2. PICK r \in Seq(Events) : r = Tail(q)
  <2>1. Tail(q) \in Seq(Events)
    BY HeadTailProperties
  <2> QED
    BY <2>1, Zenon
<1>3. /\ Len(r) = Len(q) - 1 /\ DOMAIN q = 1 .. Len(q) /\ DOMAIN r = 1 .. Len(r)
      /\ \A i \in DOMAIN r : r[i] = q[i + 1]
  BY <1>2, HeadTailProperties
<1>4. \A i \in DOMAIN q : i = 1 \/ (i - 1 \in DOMAIN r /\ q[i] = r[i - 1])
  BY <1>1, <1>3
<1>5. ASSUME None(q, T) PROVE None(r, T)
  BY <1>1, <1>3, <1>5 DEF None
<1>6. ASSUME NEW f \in Events, Latest(q, T, f)
      PROVE  Latest(r, T, f) \/ (Head(q) = f /\ f.type \in T /\ None(r, T))
  <2>1. PICK i \in DOMAIN q : q[i] = f /\ f.type \in T /\ \A j \in DOMAIN q : j > i => q[j].type \notin T
    BY <1>6 DEF Latest
  <2>2. CASE i = 1
    BY <1>1, <1>3, <2>1, <2>2 DEF None
  <2>3. CASE i - 1 \in DOMAIN r /\ q[i] = r[i - 1]
    BY <1>1, <1>3, <2>1, <2>3 DEF Latest
  <2> QED
    BY <1>4, <2>2, <2>3
<1>7. ASSUME ~None(q, T) PROVE ~None(r, T) \/ Head(q).type \in T
  BY <1>1, <1>4, <1>7 DEF None
<1> QED
  BY <1>1, <1>2, <1>5, <1>6, <1>7

-----------------------------------------------------------------------------
(* What the threads are about to tell *)

ProfileEvents == {"RestaurantRegistered", "RestaurantUpdated"}

\* A thread's work has the menu and the event that go with its step.
Shape(w) ==
    /\ w.step \in {"found", "written"} => \E m : w.menu = {m}
    /\ w.step \in {"closing", "updated"} => w.menu = {}
    /\ w.step = "closing" => w.news = {Event("RestaurantClosed", Empty, {})}
    /\ w.step = "publish" => \E e \in Events :
           w.news = {e} /\ IF w.menu = {} THEN e.type \in ProfileEvents ELSE e.type = "MenuUpdated"

ShapeInv == \A t \in Threads : Shape(at[t])

TellsProfile(t) == at[t].step \in {"closing", "updated", "publish"} /\ at[t].menu = {}

TellsMenu(t) == at[t].step \in {"written", "publish"} /\ at[t].menu # {}

LEMMA UnsaidOnes ==
    ASSUME ShapeInv
    PROVE  /\ Unsaid("profile") = {t \in Threads : TellsProfile(t)}
           /\ Unsaid("menu") = {t \in Threads : TellsMenu(t)}
BY DEF ShapeInv, Shape, Unsaid, TellsProfile, TellsMenu

\* What a thread does next, in full.
LEMMA GoesFully ==
    ASSUME TypeOK, NEW t \in Threads, NEW step, NEW menu, NEW news, Goes(t, step, menu, news)
    PROVE  /\ at'[t].step = step /\ at'[t].menu = menu /\ at'[t].news = news
           /\ \A u \in Threads : u # t => at'[u] = at[u]
BY DEF TypeOK, Goes

\* Thread t is the only one that moves.
Alone(t) == \A u \in Threads : u # t => at'[u] = at[u]

LEMMA AloneShape ==
    ASSUME ShapeInv, NEW t \in Threads, Alone(t), Shape(at'[t])
    PROVE  ShapeInv'
<1>1. \A u \in Threads : Shape(at'[u])
  BY DEF ShapeInv, Alone
<1> QED
  BY <1>1 DEF ShapeInv, Shape

LEMMA InitShape == Init => ShapeInv
BY IdleType DEF Init, ShapeInv, Shape

\* The requests, the steps that follow, and what they leave a thread with.
LEMMA RequestsShape ==
    ASSUME TypeOK, ShapeInv, NEW t \in Threads, Requests(t)
    PROVE  ShapeInv'
<1>1. ASSUME NEW n \in Names, NEW s \in RestaurantStatus, CreateRestaurant(t, n, s) PROVE ShapeInv'
  <2>1. Goes(t, "publish", {}, {Event("RestaurantRegistered", n, {})})
    BY <1>1 DEF CreateRestaurant, Begins
  <2>2. PICK e \in Events : e = Event("RestaurantRegistered", n, {})
    BY DEF Event, Events
  <2>3. Alone(t) /\ Shape(at'[t])
    BY <2>1, <2>2, GoesFully DEF Alone, Shape, ProfileEvents, Event
  <2> QED
    BY <2>3, AloneShape
<1>2. CASE UpdateRestaurant(t)
  <2>1. PICK step \in {"closing", "updated"}, news \in {{}, {Event("RestaurantClosed", Empty, {})}} :
            /\ Goes(t, step, {}, news)
            /\ step = "closing" => news = {Event("RestaurantClosed", Empty, {})}
    BY <1>2 DEF UpdateRestaurant, Begins
  <2>2. Alone(t) /\ Shape(at'[t])
    BY <2>1, GoesFully DEF Alone, Shape
  <2> QED
    BY <2>2, AloneShape
<1>3. ASSUME NEW m \in Menus, AddMenu(t, m) \/ FindMenu(t, m) PROVE ShapeInv'
  <2>1. PICK step \in {"found", "written"} : Goes(t, step, {m}, {})
    BY <1>3 DEF AddMenu, FindMenu, Begins
  <2>2. Alone(t) /\ Shape(at'[t])
    BY <2>1, GoesFully DEF Alone, Shape
  <2> QED
    BY <2>2, AloneShape
<1>4. CASE CreateRating(t)
  <2>1. Goes(t, "rated", {}, {})
    BY <1>4 DEF CreateRating, Begins
  <2>2. Alone(t) /\ Shape(at'[t])
    BY <2>1, GoesFully DEF Alone, Shape
  <2> QED
    BY <2>2, AloneShape
<1> QED
  BY <1>1, <1>2, <1>3, <1>4 DEF Requests

LEMMA BuildEventBuilds ==
    ASSUME TypeOK, ShapeInv, NEW t \in Threads, BuildEvent(t)
    PROVE  /\ Alone(t) /\ at'[t].step = "publish"
           /\ UNCHANGED <<restaurant, menus, last, ratings, catalog, index, toCatalog, toRestaurant,
                          unsure, faults, requests>>
           /\ \/ /\ TellsProfile(t) /\ at'[t].menu = {}
                 /\ \E e \in Events : /\ at'[t].news = {e} /\ e.type = "RestaurantUpdated"
                                      /\ e.name = restaurant.name
              \/ /\ TellsMenu(t) /\ at[t].step = "written"
                 /\ \E m \in at[t].menu :
                        /\ at'[t].menu = {m}
                        /\ \E e \in Events : /\ at'[t].news = {e} /\ e.type = "MenuUpdated"
                                             /\ e.items = menus[m].items
<1>1. UNCHANGED <<restaurant, menus, last, ratings, catalog, index, toCatalog, toRestaurant,
                  unsure, faults, requests>>
  BY DEF BuildEvent, service, queues
<1>2. CASE at[t].step = "updated" /\ Goes(t, "publish", {}, {Event("RestaurantUpdated", restaurant.name, {})})
  <2>1. PICK e \in Events : e = Event("RestaurantUpdated", restaurant.name, {})
    BY DEF Event, Events, TypeOK, Restaurants
  <2>2. TellsProfile(t)
    BY <1>2 DEF TellsProfile, ShapeInv, Shape
  <2>3. /\ at'[t].step = "publish" /\ at'[t].menu = {} /\ at'[t].news = {e}
        /\ \A u \in Threads : u # t => at'[u] = at[u]
    BY <1>2, <2>1, GoesFully, Zenon
  <2>4. e.type = "RestaurantUpdated" /\ e.name = restaurant.name
    BY <2>1 DEF Event
  <2> QED
    BY <1>1, <2>2, <2>3, <2>4 DEF Alone
<1>3. ASSUME at[t].step = "written", NEW m \in at[t].menu,
             Goes(t, "publish", {m}, {Event("MenuUpdated", Empty, menus[m].items)})
      PROVE  /\ Alone(t) /\ at'[t].step = "publish" /\ at'[t].menu = {m} /\ TellsMenu(t)
             /\ \E e \in Events : /\ at'[t].news = {e} /\ e.type = "MenuUpdated"
                                  /\ e.items = menus[m].items
  <2>1. m \in Menus
    BY DEF TypeOK, Works
  <2>2. PICK e \in Events : e = Event("MenuUpdated", Empty, menus[m].items)
    BY <2>1, NamesAssumption DEF Event, Events, TypeOK
  <2> QED
    BY <1>3, <2>2, GoesFully DEF Alone, Event, TellsMenu
<1> QED
  BY <1>1, <1>2, <1>3 DEF BuildEvent

LEMMA PublishEventTells ==
    ASSUME TypeOK, ShapeInv, NEW t \in Threads, PublishEvent(t)
    PROVE  /\ Alone(t) /\ UNCHANGED <<restaurant, menus, last, ratings, catalog, toCatalog, toRestaurant, requests>>
           /\ \/ /\ at[t].step = "closing" /\ TellsProfile(t)
                 /\ at'[t].step = "updated" /\ at'[t].menu = {}
              \/ at[t].step = "publish" /\ at'[t].step = "idle"
           /\ \/ unsure' = unsure \cup Doubts(IF at[t].menu # {} THEN "menu" ELSE "profile")
                 /\ UNCHANGED index
              \/ /\ unsure' = unsure
                 /\ \E e \in Events :
                        /\ at[t].news = {e} /\ index' = Append(index, e)
                        /\ IF at[t].step = "closing" THEN e.type = "RestaurantClosed"
                           ELSE IF at[t].menu = {} THEN e.type \in ProfileEvents
                           ELSE e.type = "MenuUpdated"
<1>1. UNCHANGED <<restaurant, menus, last, ratings, catalog, toCatalog, toRestaurant, requests>>
  BY DEF PublishEvent, service
<1>2. /\ Alone(t)
      /\ \/ at[t].step = "closing" /\ TellsProfile(t) /\ at'[t].step = "updated" /\ at'[t].menu = {}
         \/ at[t].step = "publish" /\ at'[t].step = "idle"
  BY GoesFully, EndsType, IdleType DEF PublishEvent, Alone, TellsProfile, ShapeInv, Shape
<1>3. PICK e \in Events :
          /\ at[t].news = {e}
          /\ IF at[t].step = "closing" THEN e.type = "RestaurantClosed"
             ELSE IF at[t].menu = {} THEN e.type \in ProfileEvents ELSE e.type = "MenuUpdated"
  <2>1. CASE at[t].step = "closing"
    <3>1. PICK e \in Events : e = Event("RestaurantClosed", Empty, {})
      BY NamesAssumption DEF Event, Events
    <3> QED
      BY <2>1, <3>1 DEF ShapeInv, Shape, Event
  <2>2. CASE at[t].step = "publish"
    BY <2>2 DEF ShapeInv, Shape
  <2> QED
    BY <2>1, <2>2 DEF PublishEvent
<1>4. \/ /\ unsure' = unsure \cup Doubts(IF at[t].menu # {} THEN "menu" ELSE "profile")
         /\ UNCHANGED index
      \/ unsure' = unsure /\ index' = Append(index, e)
  BY <1>3 DEF PublishEvent, Publishes
<1> QED
  BY <1>1, <1>2, <1>3, <1>4

LEMMA ContinuesShape ==
    ASSUME TypeOK, ShapeInv, NEW t \in Threads, Continues(t)
    PROVE  ShapeInv'
<1>1. CASE EditMenu(t)
  <2>1. PICK m : Goes(t, "written", {m}, {})
    BY <1>1 DEF EditMenu
  <2>2. Alone(t) /\ at'[t].step = "written" /\ at'[t].menu = {m}
    BY <2>1, GoesFully DEF Alone
  <2>3. Shape(at'[t])
    BY <2>2 DEF Shape
  <2> QED
    BY <2>2, <2>3, AloneShape
<1>2. CASE DeleteMenu(t)
  <2>1. PICK m : Goes(t, "publish", {m}, {Event("MenuUpdated", Empty, {})})
    BY <1>2 DEF DeleteMenu
  <2>2. PICK e \in Events : e = Event("MenuUpdated", Empty, {})
    BY NamesAssumption DEF Event, Events
  <2>3. Alone(t) /\ Shape(at'[t])
    BY <2>1, <2>2, GoesFully DEF Alone, Shape, Event
  <2> QED
    BY <2>3, AloneShape
<1>3. CASE RaisesNotFound(t)
  <2>1. Alone(t) /\ Shape(at'[t])
    BY <1>3, EndsType, IdleType DEF RaisesNotFound, Alone, Shape
  <2> QED
    BY <2>1, AloneShape
<1>4. CASE BuildEvent(t)
  <2>1. Alone(t) /\ Shape(at'[t])
    BY <1>4, BuildEventBuilds DEF Shape, ProfileEvents
  <2> QED
    BY <2>1, AloneShape
<1>5. CASE PublishEvent(t)
  <2>1. Alone(t) /\ Shape(at'[t])
    BY <1>5, PublishEventTells DEF Shape
  <2> QED
    BY <2>1, AloneShape
<1>6. CASE Recompute(t)
  <2>1. ratings \in Ratings
    BY DEF TypeOK
  <2>2. Alone(t) /\ at'[t].step \in {"idle", "summing", "announce"}
    BY <1>6, <2>1, CountsType, EndsType, IdleType DEF Recompute, Alone, Steps
  <2> QED
    BY <2>2, AloneShape DEF Shape
<1>7. CASE PublishRating(t)
  <2>1. Alone(t) /\ Shape(at'[t])
    BY <1>7, EndsType, IdleType DEF PublishRating, Alone, Shape
  <2> QED
    BY <2>1, AloneShape
<1> QED
  BY <1>1, <1>2, <1>3, <1>4, <1>5, <1>6, <1>7 DEF Continues

LEMMA NextShape == TypeOK /\ ShapeInv /\ [Next]_vars => ShapeInv'
<1> SUFFICES ASSUME TypeOK, ShapeInv, [Next]_vars PROVE ShapeInv'
  OBVIOUS
<1>1. CASE Consumes \/ RateRestaurant \/ CatalogRestart \/ UNCHANGED vars
  BY <1>1 DEF Consumes, UpdateIndex, UpdateRatings, RateRestaurant, CatalogRestart, vars, ShapeInv, Shape
<1>2. CASE RatingRestart
  <2>1. \A t \in Threads : at'[t] = Idle \/ at'[t] = at[t]
    BY <1>2 DEF RatingRestart, TypeOK
  <2>2. Shape(Idle)
    BY IdleType DEF Shape
  <2> QED
    BY <2>1, <2>2 DEF ShapeInv, Shape
<1> QED
  BY <1>1, <1>2, RequestsShape, ContinuesShape DEF Next, Faults

-----------------------------------------------------------------------------
(* A step that has nothing to do with the profile, or with the menus *)

ProfileAside ==
    /\ restaurant'.here = restaurant.here /\ restaurant'.name = restaurant.name
    /\ restaurant'.status = restaurant.status /\ restaurant'.untold = restaurant.untold
    /\ catalog'.here = catalog.here /\ catalog'.name = catalog.name
    /\ catalog'.is_open = catalog.is_open
    /\ index' = index \/ \E e \in Events : e.type = "MenuUpdated" /\ index' = Append(index, e)
    /\ ("profile" \in unsure => "profile" \in unsure') /\ ("status" \in unsure => "status" \in unsure')
    /\ \A t \in Threads : IF TellsProfile(t) THEN at'[t] = at[t] ELSE ~TellsProfile(t)'

MenuAside ==
    /\ UNCHANGED <<menus, last>> /\ catalog'.dishes = catalog.dishes
    /\ index' = index \/ \E e \in Events : e.type # "MenuUpdated" /\ index' = Append(index, e)
    /\ "menu" \in unsure => "menu" \in unsure'
    /\ \A t \in Threads : IF TellsMenu(t) THEN at'[t] = at[t] ELSE ~TellsMenu(t)'

\* A thread that says nothing about either, before and after.
Silent(w) == w.step \notin {"written", "closing", "updated", "publish"}

LEMMA SilentAside ==
    ASSUME NEW t \in Threads, Alone(t), Silent(at[t]), Silent(at'[t]),
           UNCHANGED <<restaurant, menus, last, catalog, index>>, unsure \subseteq unsure'
    PROVE  ProfileAside /\ MenuAside
BY DEF Alone, Silent, ProfileAside, MenuAside, TellsProfile, TellsMenu

\* A thread that speaks, or will, of the profile; of a menu.
LEMMA ProfileMenuAside ==
    ASSUME ShapeInv, NEW t \in Threads, Alone(t), ~TellsMenu(t), ~TellsMenu(t)',
           UNCHANGED <<menus, last, catalog>>, "menu" \in unsure => "menu" \in unsure',
           index' = index \/ \E e \in Events : e.type # "MenuUpdated" /\ index' = Append(index, e)
    PROVE  MenuAside
BY DEF Alone, MenuAside, TellsMenu

LEMMA MenuProfileAside ==
    ASSUME ShapeInv, NEW t \in Threads, Alone(t), ~TellsProfile(t), ~TellsProfile(t)',
           UNCHANGED <<restaurant, catalog>>,
           "profile" \in unsure => "profile" \in unsure', "status" \in unsure => "status" \in unsure',
           index' = index \/ \E e \in Events : e.type = "MenuUpdated" /\ index' = Append(index, e)
    PROVE  ProfileAside
BY DEF Alone, ProfileAside, TellsProfile

LEMMA WritesKeeps ==
    ASSUME NEW k \in Kinds, NEW sure, Writes(k, sure)
    PROVE  /\ k # "menu" => ("menu" \in unsure => "menu" \in unsure')
           /\ k \in {"menu", "rating"} => /\ "profile" \in unsure => "profile" \in unsure'
                                          /\ "status" \in unsure => "status" \in unsure'
           /\ k = "rating" => unsure \ {"rating"} \subseteq unsure'
BY DEF Writes, Doubts, Kinds

LEMMA FindMenuAsides ==
    ASSUME TypeOK, NEW t \in Threads, NEW m, FindMenu(t, m)
    PROVE  ProfileAside /\ MenuAside
<1>1. at[t] = Idle /\ Goes(t, "found", {m}, {})
  BY DEF FindMenu, Begins
<1>2. UNCHANGED <<restaurant, menus, last, catalog, index, unsure>>
  BY DEF FindMenu, service, queues
<1>3. Alone(t) /\ Silent(at[t]) /\ Silent(at'[t])
  BY <1>1, GoesFully, IdleType DEF Alone, Silent
<1> QED
  BY <1>2, <1>3, SilentAside

LEMMA RaisesNotFoundAsides ==
    ASSUME TypeOK, NEW t \in Threads, RaisesNotFound(t)
    PROVE  ProfileAside /\ MenuAside
<1>1. at[t].step = "found" /\ Ends(t)
  BY DEF RaisesNotFound
<1>2. UNCHANGED <<restaurant, menus, last, catalog, index, unsure>>
  BY DEF RaisesNotFound, service, queues
<1>3. Alone(t) /\ Silent(at[t]) /\ Silent(at'[t])
  BY <1>1, EndsType, IdleType DEF Alone, Silent
<1> QED
  BY <1>2, <1>3, SilentAside

LEMMA CreateRatingAsides ==
    ASSUME TypeOK, NEW t \in Threads, CreateRating(t)
    PROVE  ProfileAside /\ MenuAside
<1>1. at[t] = Idle /\ Goes(t, "rated", {}, {}) /\ Writes("rating", TRUE)
  BY DEF CreateRating, Begins
<1>2. UNCHANGED <<restaurant, menus, last, catalog, index>>
  BY DEF CreateRating, service, queues
<1>3. Alone(t) /\ Silent(at[t]) /\ Silent(at'[t])
  BY <1>1, GoesFully, IdleType DEF Alone, Silent
<1>4. unsure \ {"rating"} \subseteq unsure'
  BY <1>1, WritesKeeps DEF Kinds
<1> QED
  BY <1>2, <1>3, <1>4 DEF Alone, Silent, ProfileAside, MenuAside, TellsProfile, TellsMenu

LEMMA RecomputeAsides ==
    ASSUME TypeOK, NEW t \in Threads, Recompute(t)
    PROVE  ProfileAside /\ MenuAside
<1>1. UNCHANGED <<restaurant, menus, last, catalog, index, unsure>> /\ Silent(at[t])
  BY DEF Recompute, service, queues, Silent
<1>2. ratings \in Ratings
  BY DEF TypeOK
<1>3. Alone(t) /\ Silent(at'[t])
  BY <1>2, CountsType, EndsType, IdleType DEF Recompute, Alone, Silent, Steps
<1> QED
  BY <1>1, <1>3, SilentAside

LEMMA PublishRatingAsides ==
    ASSUME TypeOK, NEW t \in Threads, PublishRating(t)
    PROVE  ProfileAside /\ MenuAside
<1>1. UNCHANGED <<restaurant, menus, last, catalog, index>> /\ unsure \subseteq unsure' /\ Silent(at[t])
  BY PublishRatingChanges DEF service, Silent
<1>2. Alone(t) /\ Silent(at'[t])
  BY PublishRatingChanges, EndsType, IdleType DEF Alone, Silent
<1> QED
  BY <1>1, <1>2, SilentAside

LEMMA ConsumesAsides ==
    ASSUME TypeOK, UpdateRatings \/ RateRestaurant \/ UNCHANGED vars
    PROVE  ProfileAside /\ MenuAside
<1>1. UNCHANGED <<menus, last, index, at, unsure>>
  BY DEF UpdateRatings, RateRestaurant, vars, service
<1>2. /\ restaurant'.here = restaurant.here /\ restaurant'.name = restaurant.name
      /\ restaurant'.status = restaurant.status /\ restaurant'.untold = restaurant.untold
  BY DEF TypeOK, Restaurants, UpdateRatings, RateRestaurant, vars, service
<1>3. /\ catalog'.here = catalog.here /\ catalog'.name = catalog.name
      /\ catalog'.is_open = catalog.is_open /\ catalog'.dishes = catalog.dishes
  BY DEF TypeOK, Entries, UpdateRatings, RateRestaurant, vars, on_rating_created
<1> QED
  BY <1>1, <1>2, <1>3 DEF ProfileAside, MenuAside, TellsProfile, TellsMenu

LEMMA RatingRestartAsides ==
    ASSUME TypeOK, RatingRestart
    PROVE  ProfileAside /\ MenuAside
<1>1. /\ UNCHANGED <<restaurant, menus, last, catalog, index>> /\ unsure \subseteq unsure'
      /\ at' = [t \in Threads |-> IF t \in Unsaid("rating") THEN Idle ELSE at[t]]
  BY DEF RatingRestart, service, queues
<1>2. \A t \in Threads : at'[t] = at[t] \/ (Silent(at[t]) /\ Silent(at'[t]))
  BY <1>1, IdleType DEF Unsaid, Silent
<1> QED
  BY <1>1, <1>2 DEF ProfileAside, MenuAside, TellsProfile, TellsMenu, Silent

-----------------------------------------------------------------------------
(* What the steps about the profile and about the menus do *)

\* The restaurant is closed, and was not created so: somebody announces the closing.
ToldClosed == restaurant.status = "CLOSED" /\ ~restaurant.untold

LEMMA CreateRestaurantDoes ==
    ASSUME TypeOK, ShapeInv, NEW t \in Threads, NEW n \in Names, NEW s \in RestaurantStatus, CreateRestaurant(t, n, s)
    PROVE  /\ Alone(t) /\ MenuAside /\ Writes("profile", TRUE) /\ ~TellsProfile(t)
           /\ UNCHANGED <<catalog, index>>
           /\ ~restaurant.here /\ restaurant'.here /\ ~ToldClosed'
           /\ restaurant'.name = n
           /\ at'[t].step = "publish" /\ at'[t].menu = {}
           /\ \E e \in Events : /\ at'[t].news = {e} /\ e.name = n
                                /\ e.type = "RestaurantRegistered"
<1>1. PICK e \in Events : e = Event("RestaurantRegistered", n, {})
  BY DEF Event, Events
<1>2. e.name = n /\ e.type = "RestaurantRegistered"
  BY <1>1 DEF Event
<1>3. at[t] = Idle /\ Goes(t, "publish", {}, {e}) /\ Writes("profile", TRUE)
  BY <1>1 DEF CreateRestaurant, Begins
<1>4. /\ at'[t].step = "publish" /\ at'[t].menu = {} /\ at'[t].news = {e} /\ Alone(t)
  BY <1>3, GoesFully DEF Alone
<1>5. UNCHANGED <<menus, last, catalog, index>>
  BY DEF CreateRestaurant, queues
<1>6. ~TellsMenu(t) /\ ~TellsMenu(t)' /\ ~TellsProfile(t)
  BY <1>3, <1>4, IdleType DEF TellsMenu, TellsProfile
<1>7. MenuAside
  BY <1>3, <1>4, <1>5, <1>6, ProfileMenuAside, WritesKeeps DEF Kinds
<1>8. /\ ~restaurant.here /\ restaurant'.here /\ ~ToldClosed'
      /\ restaurant'.name = n
  BY DEF CreateRestaurant, TypeOK, Restaurants, ToldClosed
<1> QED
  BY <1>2, <1>3, <1>4, <1>5, <1>6, <1>7, <1>8

LEMMA UpdateRestaurantDoes ==
    ASSUME TypeOK, ShapeInv, NEW t \in Threads, UpdateRestaurant(t)
    PROVE  /\ Alone(t) /\ MenuAside /\ Writes("profile", TRUE) /\ ~TellsProfile(t)
           /\ UNCHANGED <<catalog, index>>
           /\ restaurant.here /\ restaurant'.here
           /\ at'[t].step \in {"closing", "updated"} /\ at'[t].menu = {}
           /\ at'[t].step # "closing" => (ToldClosed' => ToldClosed)
<1>1. PICK step \in {"closing", "updated"}, news \in {{}, {Event("RestaurantClosed", Empty, {})}} :
          /\ at[t] = Idle /\ Goes(t, step, {}, news) /\ Writes("profile", TRUE)
          /\ step # "closing" => (ToldClosed' => ToldClosed)
  BY DEF UpdateRestaurant, Begins, TypeOK, Restaurants, RestaurantStatus, ToldClosed
<1>2. at'[t].step = step /\ at'[t].menu = {} /\ Alone(t)
  BY <1>1, GoesFully DEF Alone
<1>3. UNCHANGED <<menus, last, catalog, index>>
  BY DEF UpdateRestaurant, queues
<1>4. ~TellsMenu(t) /\ ~TellsMenu(t)' /\ ~TellsProfile(t)
  BY <1>1, <1>2, IdleType DEF TellsMenu, TellsProfile
<1>5. MenuAside
  BY <1>1, <1>2, <1>3, <1>4, ProfileMenuAside, WritesKeeps DEF Kinds
<1>6. restaurant.here /\ restaurant'.here
  BY DEF UpdateRestaurant, TypeOK, Restaurants
<1> QED
  BY <1>1, <1>2, <1>3, <1>4, <1>5, <1>6

\* What a search is to find of menu m.
Served(m) == IF menus[m].state = "listed" THEN menus[m].items ELSE {}

\* The three writes of a menu.
LEMMA WritesMenuDoes ==
    ASSUME TypeOK, ShapeInv, NEW t \in Threads,
           (\E m \in Menus : AddMenu(t, m)) \/ EditMenu(t) \/ DeleteMenu(t)
    PROVE  /\ Alone(t) /\ ProfileAside /\ ~TellsMenu(t) /\ UNCHANGED <<catalog, index>>
           /\ \E m \in Menus, sure \in BOOLEAN :
                  /\ last' = {m} /\ at'[t].menu = {m} /\ Writes("menu", sure)
                  /\ \/ at'[t].step = "written" /\ (sure => menus'[m].state = "listed")
                     \/ /\ at'[t].step = "publish" /\ menus'[m].state = "deleted"
                        /\ \E e \in Events : /\ at'[t].news = {e} /\ e.type = "MenuUpdated"
                                             /\ e.items = {}
<1> SUFFICES /\ Alone(t) /\ ~TellsMenu(t) /\ ~TellsProfile(t) /\ UNCHANGED <<restaurant, catalog, index>>
             /\ \E m \in Menus, sure \in BOOLEAN :
                  /\ last' = {m} /\ at'[t].menu = {m} /\ Writes("menu", sure)
                  /\ \/ at'[t].step = "written" /\ (sure => menus'[m].state = "listed")
                     \/ /\ at'[t].step = "publish" /\ menus'[m].state = "deleted"
                        /\ \E e \in Events : /\ at'[t].news = {e} /\ e.type = "MenuUpdated"
                                             /\ e.items = {}
  <2>1. ~TellsProfile(t)'
    BY DEF TellsProfile
  <2>2. /\ "profile" \in unsure => "profile" \in unsure'
        /\ "status" \in unsure => "status" \in unsure'
    BY WritesKeeps DEF Kinds
  <2> QED
    BY <2>1, <2>2, MenuProfileAside
<1>1. ASSUME NEW m \in Menus, AddMenu(t, m)
      PROVE  /\ Alone(t) /\ ~TellsMenu(t) /\ ~TellsProfile(t) /\ UNCHANGED <<restaurant, catalog, index>>
             /\ last' = {m} /\ at'[t].menu = {m} /\ Writes("menu", TRUE)
             /\ at'[t].step = "written" /\ menus'[m].state = "listed"
  <2>1. at[t] = Idle /\ Goes(t, "written", {m}, {}) /\ WritesMenu(t, m, [state |-> "listed", items |-> {}], TRUE)
    BY <1>1 DEF AddMenu, Begins
  <2> QED
    BY <2>1, GoesFully, IdleType DEF Alone, TellsMenu, TellsProfile, WritesMenu, queues, TypeOK
<1>2. CASE EditMenu(t)
  <2>1. PICK m \in at[t].menu :
            /\ at[t].step = "found" /\ Goes(t, "written", {m}, {})
            /\ \E items \in Edits(menus[m].items) :
                   WritesMenu(t, m, [menus[m] EXCEPT !.items = items], menus[m].state = "listed")
    BY <1>2 DEF EditMenu
  <2>2. m \in Menus
    BY DEF TypeOK, Works
  <2>3. menus'[m].state = menus[m].state
    BY <2>1, <2>2 DEF WritesMenu, TypeOK
  <2>4. PICK sure \in BOOLEAN : sure <=> menus[m].state = "listed"
    OBVIOUS
  <2>5. last' = {m} /\ UNCHANGED <<restaurant, catalog, index>> /\ Writes("menu", sure)
    BY <2>1, <2>4 DEF WritesMenu, queues, Writes
  <2>6. Alone(t) /\ at'[t].step = "written" /\ at'[t].menu = {m} /\ ~TellsMenu(t) /\ ~TellsProfile(t)
    BY <2>1, GoesFully DEF Alone, TellsMenu, TellsProfile
  <2> QED
    BY <2>2, <2>3, <2>4, <2>5, <2>6
<1>3. CASE DeleteMenu(t)
  <2>1. PICK m \in at[t].menu :
            /\ at[t].step = "found" /\ Goes(t, "publish", {m}, {Event("MenuUpdated", Empty, {})})
            /\ WritesMenu(t, m, [menus[m] EXCEPT !.state = "deleted"], TRUE)
    BY <1>3 DEF DeleteMenu
  <2>2. m \in Menus
    BY DEF TypeOK, Works
  <2>3. menus'[m].state = "deleted"
    BY <2>1, <2>2 DEF WritesMenu, TypeOK
  <2>4. last' = {m} /\ UNCHANGED <<restaurant, catalog, index>> /\ Writes("menu", TRUE)
    BY <2>1 DEF WritesMenu, queues
  <2>5. PICK e \in Events : e = Event("MenuUpdated", Empty, {})
    BY NamesAssumption DEF Event, Events
  <2>6. e.type = "MenuUpdated" /\ e.items = {}
    BY <2>5 DEF Event
  <2>7. /\ Alone(t) /\ at'[t].step = "publish" /\ at'[t].menu = {m} /\ at'[t].news = {e}
        /\ ~TellsMenu(t) /\ ~TellsProfile(t)
    BY <2>1, <2>5, GoesFully DEF Alone, TellsMenu, TellsProfile
  <2> QED
    BY <2>2, <2>3, <2>4, <2>6, <2>7
<1> QED
  BY <1>1, <1>2, <1>3

\* The event of a thread that tells of the profile, or of a menu.
LEMMA BuildEventAsides ==
    ASSUME TypeOK, ShapeInv, NEW t \in Threads, BuildEvent(t)
    PROVE  /\ TellsProfile(t) => MenuAside
           /\ TellsMenu(t) => ProfileAside
<1>1. ASSUME TellsProfile(t) PROVE MenuAside
  BY <1>1, BuildEventBuilds, ProfileMenuAside DEF TellsMenu, TellsProfile
<1>2. ASSUME TellsMenu(t) PROVE ProfileAside
  BY <1>2, BuildEventBuilds, MenuProfileAside DEF TellsMenu, TellsProfile
<1> QED
  BY <1>1, <1>2

LEMMA PublishEventAsides ==
    ASSUME TypeOK, ShapeInv, NEW t \in Threads, PublishEvent(t)
    PROVE  /\ at[t].menu = {} => MenuAside /\ TellsProfile(t)
           /\ at[t].menu # {} => ProfileAside /\ TellsMenu(t)
<1>1. ASSUME at[t].menu = {} PROVE MenuAside /\ TellsProfile(t)
  <2>1. ~TellsMenu(t) /\ ~TellsMenu(t)' /\ TellsProfile(t)
    BY <1>1, PublishEventTells DEF TellsMenu, TellsProfile
  <2>2. "menu" \in unsure => "menu" \in unsure'
    BY PublishEventTells
  <2>3. index' = index \/ \E e \in Events : e.type # "MenuUpdated" /\ index' = Append(index, e)
    BY <1>1, PublishEventTells DEF ProfileEvents
  <2> QED
    BY <2>1, <2>2, <2>3, PublishEventTells, ProfileMenuAside
<1>2. ASSUME at[t].menu # {} PROVE ProfileAside /\ TellsMenu(t)
  <2>1. at[t].step = "publish" /\ at'[t].step = "idle"
    BY <1>2, PublishEventTells DEF TellsProfile
  <2>2. ~TellsProfile(t) /\ ~TellsProfile(t)' /\ TellsMenu(t)
    BY <1>2, <2>1 DEF TellsMenu, TellsProfile
  <2>3. /\ "profile" \in unsure => "profile" \in unsure'
        /\ "status" \in unsure => "status" \in unsure'
    BY PublishEventTells
  <2>4. index' = index \/ \E e \in Events : e.type = "MenuUpdated" /\ index' = Append(index, e)
    BY <1>2, <2>1, PublishEventTells
  <2> QED
    BY <2>2, <2>3, <2>4, PublishEventTells, MenuProfileAside
<1> QED
  BY <1>1, <1>2

-----------------------------------------------------------------------------
(* IndexCatchesUp: the names *)

\* The queue will make the catalog's name that of the restaurant.
NameComing ==
    \/ None(index, ProfileEvents) /\ catalog.name = restaurant.name
    \/ \E e \in Events : Latest(index, ProfileEvents, e) /\ e.name = restaurant.name

\* While the profile is sure, the one thread that has something to tell tells the
\* name as it is; and when nobody has, that name is on its way.
NameInv == "profile" \notin unsure =>
    /\ \A t, u \in Threads : TellsProfile(t) /\ TellsProfile(u) => t = u
    /\ \A t \in Threads : TellsProfile(t) /\ at[t].step = "publish" =>
           \A e \in at[t].news : e.name = restaurant.name
    /\ (\A t \in Threads : ~TellsProfile(t)) /\ restaurant.name # Empty => NameComing

LEMMA InitName == Init => NameInv
BY IdleType DEF Init, NameInv, TellsProfile

LEMMA AsideName ==
    ASSUME TypeOK, NameInv, ProfileAside
    PROVE  NameInv'
<1>1. NameComing => NameComing'
  <2>1. CASE index' = index
    BY <2>1 DEF NameComing, ProfileAside
  <2>2. ASSUME NEW e \in Events, e.type = "MenuUpdated", index' = Append(index, e)
        PROVE  NameComing => NameComing'
    <3>1. index \in Seq(Events) /\ e.type \notin ProfileEvents
      BY <2>2 DEF TypeOK, ProfileEvents
    <3> QED
      BY <2>2, <3>1, LatestAppend DEF NameComing, ProfileAside
  <2> QED
    BY <2>1, <2>2 DEF ProfileAside
<1>2. \A t \in Threads : (TellsProfile(t)' <=> TellsProfile(t)) /\ (TellsProfile(t) => at'[t] = at[t])
  BY DEF ProfileAside, TellsProfile
<1> QED
  BY <1>1, <1>2 DEF NameInv, ProfileAside

\* A write is sure if nobody else has something to tell.
LEMMA SureWrite ==
    ASSUME ShapeInv, Writes("profile", TRUE)
    PROVE  /\ "profile" \notin unsure' => \A t \in Threads : ~TellsProfile(t)
           /\ "status" \notin unsure' => "status" \notin unsure /\ \A t \in Threads : ~TellsProfile(t)
BY UnsaidOnes DEF Writes, Doubts

LEMMA WriteName ==
    ASSUME ShapeInv, NameInv, NEW t \in Threads, Alone(t), Writes("profile", TRUE), TellsProfile(t)',
           at'[t].step = "publish" => \A e \in at'[t].news : e.name = restaurant'.name
    PROVE  NameInv'
<1> SUFFICES ASSUME "profile" \notin unsure' PROVE NameInv'
  BY DEF NameInv
<1>1. \A u \in Threads : ~TellsProfile(u)
  BY SureWrite
<1>2. \A u \in Threads : TellsProfile(u)' => u = t
  BY <1>1 DEF Alone, TellsProfile
<1> QED
  BY <1>2 DEF NameInv

LEMMA BuildEventName ==
    ASSUME TypeOK, ShapeInv, NameInv, NEW t \in Threads, BuildEvent(t)
    PROVE  NameInv'
<1>1. CASE TellsMenu(t)
  BY <1>1, BuildEventAsides, AsideName
<1>2. CASE TellsProfile(t) /\ ~TellsMenu(t)
  <2>1. /\ Alone(t) /\ restaurant' = restaurant /\ unsure' = unsure
        /\ TellsProfile(t)' /\ \A e \in at'[t].news : e.name = restaurant.name
    BY <1>2, BuildEventBuilds DEF TellsProfile
  <2>2. \A u \in Threads : u # t => (TellsProfile(u)' <=> TellsProfile(u)) /\ at'[u] = at[u]
    BY <2>1 DEF Alone, TellsProfile
  <2> QED
    BY <1>2, <2>1, <2>2 DEF NameInv
<1> QED
  BY <1>1, <1>2, BuildEventBuilds

LEMMA PublishEventName ==
    ASSUME TypeOK, ShapeInv, NameInv, NEW t \in Threads, PublishEvent(t)
    PROVE  NameInv'
<1>1. CASE at[t].menu # {}
  BY <1>1, PublishEventAsides, AsideName
<1>2. CASE at[t].menu = {}
  <2> SUFFICES ASSUME "profile" \notin unsure' PROVE NameInv'
    BY DEF NameInv
  <2>1. PICK e \in Events :
            /\ unsure' = unsure /\ at[t].news = {e} /\ index' = Append(index, e)
            /\ IF at[t].step = "closing" THEN e.type = "RestaurantClosed" ELSE e.type \in ProfileEvents
    BY <1>2, PublishEventTells DEF Doubts
  <2>2. Alone(t) /\ TellsProfile(t) /\ UNCHANGED <<restaurant, catalog>>
    BY <1>2, PublishEventTells, PublishEventAsides
  <2>3. \A u \in Threads : ~TellsProfile(u) \/ u = t
    BY <2>1, <2>2 DEF NameInv
  <2>4. \A u \in Threads : TellsProfile(u)' => u = t
    BY <2>2, <2>3 DEF Alone, TellsProfile
  <2>5. CASE at[t].step = "closing"
    <3>1. at'[t].step = "updated" /\ at'[t].menu = {}
      BY <2>5, PublishEventTells
    <3>2. TellsProfile(t)'
      BY <3>1 DEF TellsProfile
    <3> QED
      BY <2>4, <3>1, <3>2 DEF NameInv
  <2>6. CASE at[t].step = "publish"
    <3>1. e.name = restaurant.name /\ e.type \in ProfileEvents /\ index \in Seq(Events)
      BY <2>1, <2>2, <2>6 DEF NameInv, TypeOK
    <3>2. ~TellsProfile(t)'
      BY <2>6, PublishEventTells DEF TellsProfile
    <3>3. NameComing'
      BY <2>1, <2>2, <3>1, LatestAppend DEF NameComing
    <3> QED
      BY <2>4, <3>2, <3>3 DEF NameInv
  <2> QED
    BY <2>5, <2>6, PublishEventTells
<1> QED
  BY <1>1, <1>2

\* What an event makes of the catalog.
LEMMA UpdateIndexDoes ==
    ASSUME TypeOK, UpdateIndex
    PROVE  \E e \in Events :
               /\ index # <<>> /\ index \in Seq(Events) /\ e = Head(index) /\ index' = Tail(index)
               /\ UNCHANGED <<restaurant, menus, last, at, unsure>>
               /\ e.type \in ProfileEvents =>
                      /\ catalog'.here
                      /\ e.name # Empty => catalog'.name = e.name
                      /\ catalog'.dishes = catalog.dishes
                      /\ e.type = "RestaurantUpdated" /\ catalog.here =>
                             catalog'.is_open = catalog.is_open /\ (e.name = Empty => catalog'.name = catalog.name)
               /\ e.type \notin ProfileEvents => catalog'.name = catalog.name
               /\ e.type = "RestaurantClosed" =>
                      /\ catalog'.here = catalog.here /\ catalog'.dishes = catalog.dishes
                      /\ catalog.here => ~catalog'.is_open
               /\ e.type = "MenuUpdated" =>
                      catalog'.here /\ catalog'.dishes = e.items /\ catalog'.is_open = catalog.is_open
               /\ catalog.here => catalog'.here
<1>1. index \in Seq(Events) /\ index # <<>> /\ catalog \in Entries
  BY DEF TypeOK, UpdateIndex
<1>2. PICK e \in Events : e = Head(index)
  BY <1>1, LatestTail
<1>3. index' = Tail(index) /\ UNCHANGED <<restaurant, menus, last, at, unsure>>
  BY DEF UpdateIndex, service
<1>4. catalog' = CASE e.type = "RestaurantRegistered" -> on_restaurant_registered(e)
                   [] e.type = "RestaurantUpdated" -> on_restaurant_updated(e)
                   [] e.type = "RestaurantClosed" -> on_restaurant_closed(e)
                   [] e.type = "MenuUpdated" -> on_menu_updated(e)
  BY <1>2 DEF UpdateIndex
<1>5. e.type \in {"RestaurantRegistered", "RestaurantUpdated", "RestaurantClosed", "MenuUpdated"}
  BY DEF Events
<1>6. ASSUME e.type = "RestaurantRegistered"
      PROVE  catalog'.here /\ catalog'.name = e.name /\ catalog'.dishes = catalog.dishes
  BY <1>1, <1>4, <1>6 DEF on_restaurant_registered, Entries
<1>7. ASSUME e.type = "RestaurantUpdated"
      PROVE  /\ catalog'.here /\ (e.name # Empty => catalog'.name = e.name) /\ catalog'.dishes = catalog.dishes
             /\ catalog.here => catalog'.is_open = catalog.is_open /\ (e.name = Empty => catalog'.name = catalog.name)
  BY <1>1, <1>4, <1>7 DEF on_restaurant_updated, on_restaurant_registered, Entries
<1>8. ASSUME e.type = "RestaurantClosed"
      PROVE  /\ catalog'.here = catalog.here /\ catalog'.dishes = catalog.dishes
             /\ catalog'.name = catalog.name /\ (catalog.here => ~catalog'.is_open)
  BY <1>1, <1>4, <1>8 DEF on_restaurant_closed, Entries
<1>9. ASSUME e.type = "MenuUpdated"
      PROVE  /\ catalog'.here /\ catalog'.dishes = e.items /\ catalog'.is_open = catalog.is_open
             /\ catalog'.name = catalog.name
  BY <1>1, <1>4, <1>9 DEF on_menu_updated, Entries
<1> QED
  BY <1>1, <1>2, <1>3, <1>5, <1>6, <1>7, <1>8, <1>9 DEF ProfileEvents

LEMMA UpdateIndexName ==
    ASSUME TypeOK, NameInv, UpdateIndex
    PROVE  NameInv'
<1>1. PICK e \in Events :
          /\ index # <<>> /\ index \in Seq(Events) /\ e = Head(index) /\ index' = Tail(index)
          /\ UNCHANGED <<restaurant, menus, last, at, unsure>>
          /\ e.type \in ProfileEvents => (e.name # Empty => catalog'.name = e.name)
          /\ e.type \notin ProfileEvents => catalog'.name = catalog.name
  BY UpdateIndexDoes
<1>2. NameComing /\ restaurant.name # Empty => NameComing'
  <2>1. CASE None(index, ProfileEvents) /\ catalog.name = restaurant.name
    <3>1. e.type \notin ProfileEvents
      BY <1>1, <2>1, SMT DEF None
    <3> QED
      BY <1>1, <2>1, <3>1, LatestTail DEF NameComing
  <2>2. ASSUME NEW f \in Events, Latest(index, ProfileEvents, f), f.name = restaurant.name,
               restaurant.name # Empty
        PROVE  NameComing'
    BY <1>1, <2>2, LatestTail DEF NameComing
  <2> QED
    BY <2>1, <2>2 DEF NameComing
<1>3. \A t \in Threads : TellsProfile(t)' <=> TellsProfile(t)
  BY <1>1 DEF TellsProfile
<1> QED
  BY <1>1, <1>2, <1>3 DEF NameInv

LEMMA NextName == TypeOK /\ ShapeInv /\ NameInv /\ [Next]_vars => NameInv'
<1> SUFFICES ASSUME TypeOK, ShapeInv, NameInv, [Next]_vars PROVE NameInv'
  OBVIOUS
<1>1. ASSUME NEW t \in Threads, Requests(t) PROVE NameInv'
  <2>1. ASSUME NEW n \in Names, NEW s \in RestaurantStatus, CreateRestaurant(t, n, s) PROVE NameInv'
    <3>1. PICK e \in Events : at'[t].news = {e} /\ e.name = restaurant'.name
      BY <2>1, CreateRestaurantDoes
    <3>2. Alone(t) /\ Writes("profile", TRUE) /\ TellsProfile(t)'
      BY <2>1, CreateRestaurantDoes DEF TellsProfile
    <3> QED
      BY <3>1, <3>2, WriteName
  <2>2. CASE UpdateRestaurant(t)
    <3>1. Alone(t) /\ Writes("profile", TRUE) /\ TellsProfile(t)' /\ at'[t].step # "publish"
      BY <2>2, UpdateRestaurantDoes DEF TellsProfile
    <3> QED
      BY <3>1, WriteName
  <2> QED
    BY <1>1, <2>1, <2>2, WritesMenuDoes, FindMenuAsides, CreateRatingAsides, AsideName DEF Requests
<1>2. ASSUME NEW t \in Threads, Continues(t) PROVE NameInv'
  BY <1>2, WritesMenuDoes, RaisesNotFoundAsides, RecomputeAsides, PublishRatingAsides, AsideName,
     BuildEventName, PublishEventName DEF Continues
<1>3. CASE CatalogRestart
  BY <1>3 DEF CatalogRestart, Kinds, NameInv
<1>4. CASE UpdateRatings \/ RateRestaurant \/ RatingRestart \/ UNCHANGED vars
  BY <1>4, ConsumesAsides, RatingRestartAsides, AsideName
<1> QED
  BY <1>1, <1>2, <1>3, <1>4, UpdateIndexName DEF Next, Consumes, Faults

-----------------------------------------------------------------------------
(* IndexCatchesUp: the dishes *)

MenuEvents == {"MenuUpdated"}

\* The queue will make the catalog's dishes those of menu m.
DishesComing(m) ==
    \/ None(index, MenuEvents) /\ catalog.dishes = Served(m)
    \/ \E e \in Events : Latest(index, MenuEvents, e) /\ e.items = Served(m)

\* The same for the menu that was written last.
DishesInv == "menu" \notin unsure =>
    /\ \A t, u \in Threads : TellsMenu(t) /\ TellsMenu(u) => t = u
    /\ \A t \in Threads : TellsMenu(t) => at[t].menu = last
    /\ \A t \in Threads, m \in last : TellsMenu(t) =>
           /\ at[t].step = "written" => menus[m].state = "listed"
           /\ at[t].step = "publish" => \A e \in at[t].news : e.items = Served(m)
    /\ (\A t \in Threads : ~TellsMenu(t)) => \A m \in last : DishesComing(m)

LEMMA InitDishes == Init => DishesInv
BY IdleType DEF Init, DishesInv, TellsMenu

LEMMA AsideDishes ==
    ASSUME TypeOK, DishesInv, MenuAside
    PROVE  DishesInv'
<1>1. ASSUME NEW m \in last, DishesComing(m) PROVE DishesComing(m)'
  <2>1. Served(m)' = Served(m) /\ catalog'.dishes = catalog.dishes
    BY DEF Served, MenuAside
  <2>2. CASE index' = index
    BY <1>1, <2>1, <2>2 DEF DishesComing
  <2>3. ASSUME NEW e \in Events, e.type # "MenuUpdated", index' = Append(index, e)
        PROVE  DishesComing(m)'
    <3>1. index \in Seq(Events) /\ e.type \notin MenuEvents
      BY <2>3 DEF TypeOK, MenuEvents
    <3> QED
      BY <1>1, <2>1, <2>3, <3>1, LatestAppend DEF DishesComing
  <2> QED
    BY <2>2, <2>3 DEF MenuAside
<1>2. \A t \in Threads : (TellsMenu(t)' <=> TellsMenu(t)) /\ (TellsMenu(t) => at'[t] = at[t])
  BY DEF MenuAside, TellsMenu
<1>3. \A m : Served(m)' = Served(m)
  BY DEF Served, MenuAside
<1>4. last' = last /\ menus' = menus /\ ("menu" \notin unsure' => "menu" \notin unsure)
  BY DEF MenuAside
<1> QED
  BY <1>1, <1>2, <1>3, <1>4 DEF DishesInv

LEMMA WriteDishes ==
    ASSUME TypeOK, ShapeInv, DishesInv, NEW t \in Threads,
           (\E m \in Menus : AddMenu(t, m)) \/ EditMenu(t) \/ DeleteMenu(t)
    PROVE  DishesInv'
<1> SUFFICES ASSUME "menu" \notin unsure' PROVE DishesInv'
  BY DEF DishesInv
<1>1. PICK m \in Menus, sure \in BOOLEAN :
          /\ last' = {m} /\ at'[t].menu = {m} /\ Writes("menu", sure)
          /\ \/ at'[t].step = "written" /\ (sure => menus'[m].state = "listed")
             \/ /\ at'[t].step = "publish" /\ menus'[m].state = "deleted"
                /\ \E e \in Events : /\ at'[t].news = {e} /\ e.type = "MenuUpdated" /\ e.items = {}
  BY WritesMenuDoes
<1>2. sure /\ \A u \in Threads : ~TellsMenu(u)
  BY <1>1, UnsaidOnes DEF Writes, Doubts
<1>3. TellsMenu(t)' /\ \A u \in Threads : TellsMenu(u)' => u = t
  BY <1>1, <1>2, WritesMenuDoes DEF Alone, TellsMenu
<1>4. /\ at'[t].step = "written" => menus'[m].state = "listed"
      /\ at'[t].step = "publish" => \A e \in at'[t].news : e.items = Served(m)'
  BY <1>1, <1>2 DEF Served
<1> QED
  BY <1>1, <1>3, <1>4 DEF DishesInv

LEMMA BuildEventDishes ==
    ASSUME TypeOK, ShapeInv, DishesInv, NEW t \in Threads, BuildEvent(t)
    PROVE  DishesInv'
<1>1. CASE TellsProfile(t)
  BY <1>1, BuildEventAsides, AsideDishes
<1>2. CASE TellsMenu(t) /\ ~TellsProfile(t)
  <2> SUFFICES ASSUME "menu" \notin unsure' PROVE DishesInv'
    BY DEF DishesInv
  <2>1. PICK m \in at[t].menu, e \in Events :
            /\ Alone(t) /\ UNCHANGED <<menus, last, unsure>> /\ at[t].step = "written"
            /\ at'[t].step = "publish" /\ at'[t].menu = {m} /\ at'[t].news = {e} /\ e.items = menus[m].items
    BY <1>2, BuildEventBuilds
  <2>2. at[t].menu = last /\ \A n \in last : menus[n].state = "listed"
    BY <1>2, <2>1 DEF DishesInv
  <2>3. \A u \in Threads : TellsMenu(u)' => u = t
    BY <1>2, <2>1 DEF DishesInv, Alone, TellsMenu
  <2>4. TellsMenu(t)' /\ at'[t].step = "publish"
    BY <2>1 DEF TellsMenu
  <2>5. last = {m}
    <3>1. at[t].menu = {m}
      BY <2>1 DEF ShapeInv, Shape
    <3> QED
      BY <2>2, <3>1
  <2>6. \A n \in last', f \in at'[t].news : f.items = Served(n)'
    BY <2>1, <2>2, <2>5 DEF Served
  <2> QED
    BY <2>1, <2>3, <2>4, <2>5, <2>6 DEF DishesInv
<1> QED
  BY <1>1, <1>2, BuildEventBuilds

LEMMA PublishEventDishes ==
    ASSUME TypeOK, ShapeInv, DishesInv, NEW t \in Threads, PublishEvent(t)
    PROVE  DishesInv'
<1>1. CASE at[t].menu = {}
  BY <1>1, PublishEventAsides, AsideDishes
<1>2. CASE at[t].menu # {}
  <2> SUFFICES ASSUME "menu" \notin unsure' PROVE DishesInv'
    BY DEF DishesInv
  <2>1. TellsMenu(t) /\ at[t].step = "publish" /\ ~TellsMenu(t)'
    BY <1>2, PublishEventAsides, PublishEventTells DEF TellsMenu, TellsProfile
  <2>2. PICK e \in Events :
            /\ unsure' = unsure /\ at[t].news = {e} /\ index' = Append(index, e)
            /\ e.type = "MenuUpdated"
    BY <1>2, <2>1, PublishEventTells DEF Doubts
  <2>3. Alone(t) /\ UNCHANGED <<menus, last, catalog>>
    BY PublishEventTells
  <2>4. \A u \in Threads : ~TellsMenu(u)'
    BY <2>1, <2>2, <2>3 DEF DishesInv, Alone, TellsMenu
  <2>5. \A m \in last : e.items = Served(m)
    BY <2>1, <2>2 DEF DishesInv
  <2>6. e.type \in MenuEvents /\ index \in Seq(Events)
    BY <2>2 DEF MenuEvents, TypeOK
  <2>7. \A m \in last' : DishesComing(m)'
    BY <2>2, <2>3, <2>5, <2>6, LatestAppend DEF DishesComing, Served
  <2> QED
    BY <2>4, <2>7 DEF DishesInv
<1> QED
  BY <1>1, <1>2

LEMMA UpdateIndexDishes ==
    ASSUME TypeOK, DishesInv, UpdateIndex
    PROVE  DishesInv'
<1>1. PICK e \in Events :
          /\ index # <<>> /\ index \in Seq(Events) /\ e = Head(index) /\ index' = Tail(index)
          /\ UNCHANGED <<restaurant, menus, last, at, unsure>>
          /\ e.type \in MenuEvents => catalog'.dishes = e.items
          /\ e.type \notin MenuEvents => catalog'.dishes = catalog.dishes
  <2>1. \A e \in Events :
            e.type \in ProfileEvents \/ e.type = "RestaurantClosed" \/ e.type = "MenuUpdated"
    BY DEF Events, ProfileEvents
  <2> QED
    BY <2>1, UpdateIndexDoes DEF MenuEvents
<1>2. ASSUME NEW m \in last, DishesComing(m) PROVE DishesComing(m)'
  <2>1. Served(m)' = Served(m)
    BY <1>1 DEF Served
  <2>2. CASE None(index, MenuEvents) /\ catalog.dishes = Served(m)
    <3>1. e.type \notin MenuEvents
      BY <1>1, <2>2, SMT DEF None
    <3> QED
      BY <1>1, <2>1, <2>2, <3>1, LatestTail DEF DishesComing
  <2>3. ASSUME NEW f \in Events, Latest(index, MenuEvents, f), f.items = Served(m)
        PROVE  DishesComing(m)'
    BY <1>1, <2>1, <2>3, LatestTail DEF DishesComing
  <2> QED
    BY <1>2, <2>2, <2>3 DEF DishesComing
<1>3. \A t \in Threads : TellsMenu(t)' <=> TellsMenu(t)
  BY <1>1 DEF TellsMenu
<1>4. \A m : Served(m)' = Served(m)
  BY <1>1 DEF Served
<1> QED
  BY <1>1, <1>2, <1>3, <1>4 DEF DishesInv

LEMMA NextDishes == TypeOK /\ ShapeInv /\ DishesInv /\ [Next]_vars => DishesInv'
<1> SUFFICES ASSUME TypeOK, ShapeInv, DishesInv, [Next]_vars PROVE DishesInv'
  OBVIOUS
<1>1. ASSUME NEW t \in Threads, Requests(t) PROVE DishesInv'
  BY <1>1, CreateRestaurantDoes, UpdateRestaurantDoes, WriteDishes, FindMenuAsides, CreateRatingAsides,
     AsideDishes DEF Requests
<1>2. ASSUME NEW t \in Threads, Continues(t) PROVE DishesInv'
  BY <1>2, WriteDishes, RaisesNotFoundAsides, RecomputeAsides, PublishRatingAsides, AsideDishes,
     BuildEventDishes, PublishEventDishes DEF Continues
<1>3. CASE CatalogRestart
  BY <1>3 DEF CatalogRestart, Kinds, DishesInv
<1>4. CASE UpdateRatings \/ RateRestaurant \/ RatingRestart \/ UNCHANGED vars
  BY <1>4, ConsumesAsides, RatingRestartAsides, AsideDishes
<1> QED
  BY <1>1, <1>2, <1>3, <1>4, UpdateIndexDishes DEF Next, Consumes, Faults

-----------------------------------------------------------------------------
(* IndexCatchesUp: the closing *)

Introducing == {"RestaurantRegistered"}

Deciding == {"RestaurantRegistered", "RestaurantClosed"}

\* The catalog knows the restaurant, or is going to.
Introduced == catalog.here \/ ~None(index, Introducing)

\* The queue will leave the catalog with a restaurant that is closed.
ClosingComing ==
    \/ None(index, Deciding) /\ catalog.here /\ ~catalog.is_open
    \/ Introduced /\ \E e \in Events : Latest(index, Deciding, e) /\ e.type = "RestaurantClosed"

\* Thread t is about to announce that the restaurant exists.
Registers(t) == at[t].step = "publish" /\ \E e \in at[t].news : e.type = "RestaurantRegistered"

\* While the status is sure, no two threads ever had something to tell of the
\* profile: the restaurant was announced before it could be closed, and is not again.
StatusInv == "status" \notin unsure =>
    /\ \A t, u \in Threads : TellsProfile(t) /\ TellsProfile(u) => t = u
    /\ ~restaurant.here => \A t \in Threads : ~TellsProfile(t)
    /\ ToldClosed => restaurant.here /\ \A t \in Threads : ~Registers(t)
    /\ restaurant.here /\ (\A t \in Threads : ~Registers(t)) => Introduced
    /\ ToldClosed /\ (\A t \in Threads : at[t].step # "closing") => ClosingComing

LEMMA InitStatus == Init => StatusInv
BY IdleType DEF Init, StatusInv, TellsProfile, ToldClosed

\* To register is to tell of the profile, and to close is.
LEMMA RegistersTells ==
    ASSUME ShapeInv, NEW t \in Threads
    PROVE  (Registers(t) => TellsProfile(t)) /\ (at[t].step = "closing" => TellsProfile(t))
BY DEF ShapeInv, Shape, Registers, TellsProfile

\* An event that does not decide, at the end of the queue.
LEMMA AppendComing ==
    ASSUME TypeOK, NEW e \in Events, index' = Append(index, e), catalog'.here = catalog.here,
           catalog'.is_open = catalog.is_open
    PROVE  /\ Introduced => Introduced'
           /\ e.type \notin Deciding => (ClosingComing => ClosingComing')
           /\ e.type = "RestaurantClosed" => (Introduced => ClosingComing')
           /\ e.type \in Introducing => Introduced'
<1>1. index \in Seq(Events)
  BY DEF TypeOK
<1>2. ASSUME Introduced PROVE Introduced'
  BY <1>1, <1>2, LatestAppend DEF Introduced
<1>3. ASSUME e.type \notin Deciding, ClosingComing PROVE ClosingComing'
  BY <1>1, <1>2, <1>3, LatestAppend DEF ClosingComing
<1>4. ASSUME e.type = "RestaurantClosed", Introduced PROVE ClosingComing'
  BY <1>1, <1>2, <1>4, LatestAppend DEF ClosingComing, Deciding
<1>5. ASSUME e.type \in Introducing PROVE Introduced'
  <2>1. Latest(index', Introducing, e)
    BY <1>1, <1>5, LatestAppend
  <2> QED
    BY <2>1 DEF Introduced, Latest, None
<1> QED
  BY <1>2, <1>3, <1>4, <1>5

LEMMA AsideStatus ==
    ASSUME TypeOK, ShapeInv, ShapeInv', StatusInv, ProfileAside
    PROVE  StatusInv'
<1>1. (Introduced => Introduced') /\ (ClosingComing => ClosingComing')
  <2>1. CASE index' = index
    BY <2>1 DEF ProfileAside, Introduced, ClosingComing
  <2>2. ASSUME NEW e \in Events, e.type = "MenuUpdated", index' = Append(index, e)
        PROVE  (Introduced => Introduced') /\ (ClosingComing => ClosingComing')
    BY <2>2, AppendComing DEF Deciding, ProfileAside
  <2> QED
    BY <2>1, <2>2 DEF ProfileAside
<1>2. \A t \in Threads : (TellsProfile(t)' <=> TellsProfile(t)) /\ (TellsProfile(t) => at'[t] = at[t])
  BY DEF ProfileAside, TellsProfile
<1>3. ASSUME NEW t \in Threads
      PROVE  (Registers(t)' <=> Registers(t)) /\ (at'[t].step = "closing" <=> at[t].step = "closing")
  <2>1. Registers(t)' \/ at'[t].step = "closing" => TellsProfile(t)'
    BY DEF ShapeInv, Shape, Registers, TellsProfile
  <2>2. Registers(t) \/ at[t].step = "closing" => TellsProfile(t)
    BY RegistersTells
  <2> QED
    BY <1>2, <2>1, <2>2 DEF Registers
<1> QED
  BY <1>1, <1>2, <1>3 DEF StatusInv, ProfileAside, ToldClosed

LEMMA CreateRestaurantStatus ==
    ASSUME TypeOK, ShapeInv, StatusInv, NEW t \in Threads, NEW n \in Names, NEW s \in RestaurantStatus, CreateRestaurant(t, n, s)
    PROVE  StatusInv'
<1> SUFFICES ASSUME "status" \notin unsure' PROVE StatusInv'
  BY DEF StatusInv
<1>1. /\ Alone(t) /\ "status" \notin unsure /\ \A u \in Threads : ~TellsProfile(u)
      /\ ~restaurant.here /\ restaurant'.here /\ ~ToldClosed'
  BY CreateRestaurantDoes, SureWrite
<1>2. Registers(t)'
  BY CreateRestaurantDoes DEF Registers
<1>3. \A u \in Threads : TellsProfile(u)' => u = t
  BY <1>1 DEF Alone, TellsProfile
<1> QED
  BY <1>1, <1>2, <1>3 DEF StatusInv

LEMMA UpdateRestaurantStatus ==
    ASSUME TypeOK, ShapeInv, StatusInv, NEW t \in Threads, UpdateRestaurant(t)
    PROVE  StatusInv'
<1> SUFFICES ASSUME "status" \notin unsure' PROVE StatusInv'
  BY DEF StatusInv
<1>1. /\ Alone(t) /\ "status" \notin unsure /\ \A u \in Threads : ~TellsProfile(u)
      /\ UNCHANGED <<catalog, index>> /\ restaurant.here /\ restaurant'.here
      /\ at'[t].step \in {"closing", "updated"}
      /\ at'[t].step # "closing" => (ToldClosed' => ToldClosed)
  BY UpdateRestaurantDoes, SureWrite
<1>2. \A u \in Threads : ~Registers(u) /\ at[u].step # "closing"
  BY <1>1, RegistersTells
<1>3. \A u \in Threads : ~Registers(u)'
  BY <1>1, <1>2 DEF Alone, Registers
<1>4. \A u \in Threads : TellsProfile(u)' => u = t
  BY <1>1 DEF Alone, TellsProfile
<1>5. Introduced' /\ (ClosingComing => ClosingComing')
  BY <1>1, <1>2 DEF StatusInv, Introduced, ClosingComing
<1> QED
  BY <1>1, <1>2, <1>3, <1>4, <1>5 DEF StatusInv

LEMMA BuildEventStatus ==
    ASSUME TypeOK, ShapeInv, ShapeInv', StatusInv, NEW t \in Threads, BuildEvent(t)
    PROVE  StatusInv'
<1>1. CASE TellsMenu(t)
  BY <1>1, BuildEventAsides, AsideStatus
<1>2. CASE ~TellsMenu(t)
  <2>1. /\ Alone(t) /\ UNCHANGED <<restaurant, catalog, index, unsure>> /\ TellsProfile(t)
        /\ at'[t].step = "publish" /\ \E e : at'[t].news = {e} /\ e.type = "RestaurantUpdated"
        /\ at'[t].menu = {}
    BY <1>2, BuildEventBuilds
  <2>2. ~Registers(t)' /\ ~Registers(t) /\ at[t].step = "updated"
    BY <1>2, <2>1 DEF Registers, BuildEvent, TellsProfile, ShapeInv, Shape
  <2>3. \A u \in Threads : Registers(u)' <=> Registers(u)
    BY <2>1, <2>2 DEF Alone, Registers
  <2>4. TellsProfile(t)' /\ \A u \in Threads : u # t => (TellsProfile(u)' <=> TellsProfile(u))
    BY <2>1 DEF Alone, TellsProfile
  <2>5. \A u \in Threads : at'[u].step = "closing" <=> at[u].step = "closing"
    BY <2>1, <2>2 DEF Alone
  <2>6. (Introduced' <=> Introduced) /\ (ClosingComing' <=> ClosingComing)
    BY <2>1 DEF Introduced, ClosingComing
  <2> QED
    BY <2>1, <2>3, <2>4, <2>5, <2>6 DEF StatusInv, ToldClosed
<1> QED
  BY <1>1, <1>2

LEMMA PublishEventStatus ==
    ASSUME TypeOK, ShapeInv, ShapeInv', StatusInv, NEW t \in Threads, PublishEvent(t)
    PROVE  StatusInv'
<1>1. CASE at[t].menu # {}
  BY <1>1, PublishEventAsides, AsideStatus
<1>2. CASE at[t].menu = {}
  <2> SUFFICES ASSUME "status" \notin unsure' PROVE StatusInv'
    BY DEF StatusInv
  <2>1. PICK e \in Events :
            /\ unsure' = unsure /\ at[t].news = {e} /\ index' = Append(index, e)
            /\ IF at[t].step = "closing" THEN e.type = "RestaurantClosed" ELSE e.type \in ProfileEvents
    BY <1>2, PublishEventTells DEF Doubts
  <2>2. Alone(t) /\ TellsProfile(t) /\ UNCHANGED <<restaurant, catalog>>
    BY <1>2, PublishEventTells, PublishEventAsides
  <2>3. restaurant.here /\ \A u \in Threads : ~TellsProfile(u) \/ u = t
    BY <2>1, <2>2 DEF StatusInv
  <2>4. \A u \in Threads : TellsProfile(u)' => u = t
    BY <2>2, <2>3 DEF Alone, TellsProfile
  <2>5. at'[t].step \in {"updated", "idle"} /\ \A u \in Threads : ~Registers(u)'
    <3>1. at'[t].step \in {"updated", "idle"}
      BY PublishEventTells
    <3>2. \A u \in Threads : Registers(u)' => TellsProfile(u)'
      BY DEF ShapeInv, Shape, Registers, TellsProfile
    <3> QED
      BY <2>4, <3>1, <3>2 DEF Registers
  <2>6. Introduced'
    <3>1. CASE Registers(t)
      <4>1. e.type \in Introducing
        BY <2>1, <3>1 DEF Registers, Introducing
      <4> QED
        BY <2>1, <2>2, <4>1, AppendComing
    <3>2. CASE ~Registers(t)
      <4>1. Introduced
        BY <2>1, <2>3, <3>2, RegistersTells DEF StatusInv
      <4> QED
        BY <2>1, <2>2, <4>1, AppendComing
    <3> QED
      BY <3>1, <3>2
  <2>7. ASSUME ToldClosed' PROVE ClosingComing'
    <3>1. ~Registers(t) /\ \A u \in Threads : ~Registers(u)
      BY <2>1, <2>2, <2>7 DEF StatusInv, ToldClosed
    <3>2. CASE at[t].step = "closing"
      BY <2>1, <2>2, <2>3, <3>1, <3>2, AppendComing DEF StatusInv
    <3>3. CASE at[t].step # "closing"
      <4>1. \A u \in Threads : at[u].step # "closing"
        BY <2>3, <3>3, RegistersTells
      <4>2. at[t].step = "publish" /\ e.type \notin Deciding
        BY <2>1, <3>1, <3>3, PublishEventTells DEF Registers, ProfileEvents, Deciding
      <4> QED
        BY <2>1, <2>2, <2>7, <4>1, <4>2, AppendComing DEF StatusInv, ToldClosed
    <3> QED
      BY <3>2, <3>3
  <2> QED
    BY <2>2, <2>3, <2>4, <2>5, <2>6, <2>7 DEF StatusInv
<1> QED
  BY <1>1, <1>2

LEMMA UpdateIndexStatus ==
    ASSUME TypeOK, StatusInv, UpdateIndex
    PROVE  StatusInv'
<1>1. PICK e \in Events :
          /\ index # <<>> /\ index \in Seq(Events) /\ e = Head(index) /\ index' = Tail(index)
          /\ UNCHANGED <<restaurant, menus, last, at, unsure>>
          /\ e.type \in ProfileEvents =>
                 /\ catalog'.here
                 /\ e.type = "RestaurantUpdated" /\ catalog.here => catalog'.is_open = catalog.is_open
          /\ e.type = "RestaurantClosed" => (catalog.here => ~catalog'.is_open)
          /\ e.type = "MenuUpdated" => catalog'.here /\ catalog'.is_open = catalog.is_open
          /\ catalog.here => catalog'.here
  BY UpdateIndexDoes, Zenon
<1>2. Introduced => Introduced'
  BY <1>1, LatestTail DEF Introduced, Introducing, ProfileEvents
<1>3. ASSUME ClosingComing PROVE ClosingComing'
  <2>1. CASE None(index, Deciding) /\ catalog.here /\ ~catalog.is_open
    <3>1. e.type \notin Deciding
      BY <1>1, <2>1, SMT DEF None
    <3>2. catalog'.here /\ ~catalog'.is_open
      BY <1>1, <2>1, <3>1 DEF Deciding, ProfileEvents, Events
    <3> QED
      BY <1>1, <2>1, <3>2, LatestTail DEF ClosingComing
  <2>2. ASSUME NEW f \in Events, Introduced, Latest(index, Deciding, f), f.type = "RestaurantClosed"
        PROVE  ClosingComing'
    <3>1. CASE Latest(index', Deciding, f)
      BY <1>2, <2>2, <3>1 DEF ClosingComing
    <3>2. CASE e = f /\ None(index', Deciding)
      <4>1. None(index', Introducing) /\ e.type \notin Introducing
        BY <2>2, <3>2 DEF None, Deciding, Introducing
      <4>2. catalog.here
        BY <1>1, <2>2, <4>1, LatestTail DEF Introduced
      <4> QED
        BY <1>1, <2>2, <3>2, <4>2 DEF ClosingComing
    <3> QED
      BY <1>1, <2>2, <3>1, <3>2, LatestTail
  <2> QED
    BY <1>3, <2>1, <2>2 DEF ClosingComing
<1>4. \A t \in Threads : (TellsProfile(t)' <=> TellsProfile(t)) /\ (Registers(t)' <=> Registers(t))
  BY <1>1 DEF TellsProfile, Registers
<1> QED
  BY <1>1, <1>2, <1>3, <1>4 DEF StatusInv, ToldClosed

LEMMA NextStatus == TypeOK /\ ShapeInv /\ StatusInv /\ [Next]_vars => StatusInv'
<1> SUFFICES ASSUME TypeOK, ShapeInv, StatusInv, [Next]_vars PROVE StatusInv'
  OBVIOUS
<1>s. ShapeInv'
  BY NextShape
<1>1. ASSUME NEW t \in Threads, Requests(t) PROVE StatusInv'
  BY <1>s, <1>1, CreateRestaurantStatus, UpdateRestaurantStatus, WritesMenuDoes, FindMenuAsides,
     CreateRatingAsides, AsideStatus DEF Requests
<1>2. ASSUME NEW t \in Threads, Continues(t) PROVE StatusInv'
  BY <1>s, <1>2, WritesMenuDoes, RaisesNotFoundAsides, RecomputeAsides, PublishRatingAsides,
     AsideStatus, BuildEventStatus, PublishEventStatus DEF Continues
<1>3. CASE CatalogRestart
  BY <1>3 DEF CatalogRestart, Kinds, StatusInv
<1>4. CASE UpdateRatings \/ RateRestaurant \/ RatingRestart \/ UNCHANGED vars
  BY <1>s, <1>4, ConsumesAsides, RatingRestartAsides, AsideStatus
<1> QED
  BY <1>1, <1>2, <1>3, <1>4, UpdateIndexStatus DEF Next, Consumes, Faults

\* IndexCatchesUp: when no request is under way and the queue of the index is empty,
\* the catalog has the name, the dishes and the closing that the last writes left, if
\* these overlapped no other and were announced, whatever happened before them.  A
\* restaurant created CLOSED is announced like any other, until it is set ACTIVE.
THEOREM IndexIsCaughtUp == Spec => []IndexCatchesUp
<1> DEFINE Inv == TypeOK /\ ShapeInv /\ NameInv /\ DishesInv /\ StatusInv
<1>1. Inv => IndexCatchesUp
  <2> SUFFICES ASSUME Inv, Quiet, index = <<>> PROVE ShowsName /\ ShowsDishes /\ ShowsClosed
    BY DEF IndexCatchesUp
  <2>1. \A t \in Threads : ~TellsProfile(t) /\ ~TellsMenu(t) /\ ~Registers(t) /\ at[t].step # "closing"
    BY IdleType DEF Quiet, TellsProfile, TellsMenu, Registers
  <2>2. \A T, e : ~Latest(index, T, e)
    BY DEF Latest
  <2>3. ShowsName
    BY <2>1, <2>2 DEF NameInv, NameComing, ShowsName
  <2>4. ShowsDishes
    BY <2>1, <2>2 DEF DishesInv, DishesComing, ShowsDishes, Served
  <2>5. ShowsClosed
    BY <2>1, <2>2 DEF StatusInv, ClosingComing, ShowsClosed, ToldClosed
  <2> QED
    BY <2>3, <2>4, <2>5
<1>2. Init => Inv
  BY InitType, InitShape, InitName, InitDishes, InitStatus DEF TypeInv
<1>3. TypeInv /\ RatingInv /\ Inv /\ [Next]_vars => Inv'
  BY NextRating, NextShape, NextName, NextDishes, NextStatus DEF TypeInv
<1> QED
  BY <1>1, <1>2, <1>3, InitType, InitRating, NextRating, PTL DEF Spec

-----------------------------------------------------------------------------
\* TypeOK: the state always has its type; the ratings never outnumber the requests.
THEOREM TypeCorrect == Spec => []TypeOK
<1>1. TypeInv => TypeOK
  BY DEF TypeInv
<1> QED
  BY <1>1, InitType, InitRating, NextRating, PTL DEF Spec

\* RatingsAgree: with both queues of rating.created empty, the catalog shows the
\* restaurant's own average or none, for any number of threads, losses and restarts.
THEOREM RatingsStayInAgreement == Spec => []RatingsAgree
<1>1. RatingInv => RatingsAgree
  BY DEF RatingInv, RatingsAgree, Coming
<1> QED
  BY <1>1, InitType, InitRating, NextRating, PTL DEF Spec

\* RatingCatchesUp: when all is quiet, and the last rating overlapped no other and
\* was announced, the restaurant's average is that of all ratings.
THEOREM RatingIsCaughtUp == Spec => []RatingCatchesUp
<1>1. RatingInv => RatingCatchesUp
  BY IdleType DEF RatingInv, RatingCatchesUp, Coming, Quiet, Rating, RatingSteps
<1> QED
  BY <1>1, InitType, InitRating, NextRating, PTL DEF Spec
=============================================================================
