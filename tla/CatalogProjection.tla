------------------------- MODULE CatalogProjection -------------------------
(***************************************************************************)
(* What restaurant-service and rating-service know of one restaurant, and  *)
(* the projection catalog-service keeps of it for searches.  The HTTP      *)
(* threads of restaurant-service change shared objects in memory, and      *)
(* publish afterwards what they then find there; nothing orders the        *)
(* changes and the events of two threads.  catalog-service has one         *)
(* consumer thread for its two queues.  Restaurants share no state.        *)
(***************************************************************************)
EXTENDS Naturals, Sequences

CONSTANTS Threads,   \* HTTP threads, of either service
          Names,     \* the empty name is one of them
          Empty,
          Menus,
          Dishes,    \* an item: its id, its name and its price
          MaxRequests,
          MaxFaults  \* bounds the restarts and the events that are not published

ASSUME NamesAssumption == Empty \in Names

ASSUME BoundsAssumption == MaxRequests \in Nat /\ MaxFaults \in Nat

VARIABLES restaurant,   \* the Restaurant: here, its name, status, rating
          menus,        \* per menu: whether it is in the restaurant's list, its items
          ratings,      \* how many ratings rating-service has of the restaurant
          catalog,      \* its CatalogEntry
          index,        \* queue catalog.update_index
          toCatalog,    \* queue catalog.update_ratings
          toRestaurant, \* queue restaurant.update_rating
          at,           \* per thread: where it is in its request
          last,         \* history: the menu that was written last
          unsure,       \* history: the kinds of data of which the last write
                        \* overlapped another, was not announced, or is lost
          requests, faults \* how many so far

vars == <<restaurant, menus, ratings, catalog, index, toCatalog, toRestaurant, at,
          last, unsure, requests, faults>>

service == <<restaurant, menus, last>>
queues == <<index, toCatalog, toRestaurant>>

-----------------------------------------------------------------------------
Kinds == {"profile", "status", "menu", "rating"}

\* What is unsure once a write of kind k is: a catalog that has missed that the
\* restaurant is closed is not told again.
Doubts(k) == IF k = "profile" THEN {"profile", "status"} ELSE {k}

RestaurantStatus == {"ACTIVE", "CLOSED"}

\* A summary of ratings is the number of ratings it is computed from: two
\* summaries of the same ratings are the same, and ratings are never deleted.
\* untold (history): it was created CLOSED and has not been set ACTIVE since.
Restaurants == [here : BOOLEAN, name : Names, status : RestaurantStatus, rating : 0 .. MaxRequests,
                untold : BOOLEAN]

Entries == [here : BOOLEAN, name : Names, is_open : BOOLEAN, dishes : SUBSET Dishes,
            rating : 0 .. MaxRequests]

NoEntry == [here |-> FALSE, name |-> Empty, is_open |-> TRUE, dishes |-> {}, rating |-> 0]

Events == [type : {"RestaurantRegistered", "RestaurantUpdated", "RestaurantClosed", "MenuUpdated"},
           name : Names, items : SUBSET Dishes]

Event(type, name, items) == [type |-> type, name |-> name, items |-> items]

Ratings == 0 .. MaxRequests

\* What a thread does next, for which menu, with which event or summary.  From
\* "found" on it has a Menu object, which it has not changed yet.
Steps == {"idle", "found", "written", "closing", "updated", "publish",
          "rated", "summing", "announce"}

Idle == [step |-> "idle", menu |-> {}, news |-> {}, count |-> 0]

Works == [step : Steps, menu : SUBSET Menus, news : SUBSET Events, count : Ratings]

Quiet == \A t \in Threads : at[t] = Idle

\* The threads that have changed data of kind k and not yet said so.
Unsaid(k) ==
    {t \in Threads :
        IF k = "rating" THEN at[t].step \in {"rated", "summing", "announce"}
        ELSE /\ at[t].step \in {"written", "closing", "updated", "publish"}
             /\ k = "menu" <=> at[t].menu # {}}

Goes(t, step, menu, news) ==
    at' = [at EXCEPT ![t] = [step |-> step, menu |-> menu, news |-> news, count |-> 0]]

Counts(t, step, n) == at' = [at EXCEPT ![t] = [@ EXCEPT !.step = step, !.count = n]]

\* A request, whose first step leaves t at a step.
Begins(t, step, menu, news) ==
    /\ at[t] = Idle /\ requests < MaxRequests
    /\ requests' = requests + 1
    /\ Goes(t, step, menu, news)

Ends(t) == at' = [at EXCEPT ![t] = Idle]

\* A write of kind k: does its event come after those of all writes before it?
Writes(k, sure) == unsure' = IF sure /\ Unsaid(k) = {} THEN unsure \ {k} ELSE unsure \cup Doubts(k)

\* _publish logs a failure and goes on: the event is lost.
Fault == faults < MaxFaults /\ faults' = faults + 1

Publishes(k, sent, unsent) ==
    \/ sent /\ UNCHANGED <<unsure, faults>>
    \/ unsent /\ Fault /\ unsure' = unsure \cup Doubts(k)

-----------------------------------------------------------------------------
(* restaurant-service *)

\* Of the profile, the name stands for what RestaurantUpdated carries.  The event
\* says nothing of the status, which is the caller's.
CreateRestaurant(t, n, s) ==
    /\ ~restaurant.here
    /\ restaurant' = [restaurant EXCEPT !.here = TRUE, !.name = n, !.status = s,
                                        !.untold = (s = "CLOSED")]
    /\ Begins(t, "publish", {}, {Event("RestaurantRegistered", n, {})})
    /\ Writes("profile", TRUE)
    /\ UNCHANGED <<menus, last, ratings, catalog, queues, faults>>

\* update_restaurant, of a name or of a status.
UpdateRestaurant(t) ==
    /\ restaurant.here
    /\ \/ \E n \in Names :
              restaurant' = [restaurant EXCEPT !.name = n] /\ Begins(t, "updated", {}, {})
       \/ \E s \in RestaurantStatus :
              /\ restaurant' = [restaurant EXCEPT !.status = s, !.untold = @ /\ s = "CLOSED"]
              /\ IF s = "CLOSED" /\ restaurant.status # "CLOSED"
                 THEN Begins(t, "closing", {}, {Event("RestaurantClosed", Empty, {})})
                 ELSE Begins(t, "updated", {}, {})
    /\ Writes("profile", TRUE)
    /\ UNCHANGED <<menus, last, ratings, catalog, queues, faults>>

WritesMenu(t, m, value, sure) ==
    /\ menus' = [menus EXCEPT ![m] = value]
    /\ last' = {m}
    /\ Writes("menu", sure)
    /\ UNCHANGED <<restaurant, ratings, catalog, queues, faults>>

AddMenu(t, m) ==
    /\ restaurant.here /\ menus[m].state = "new"
    /\ WritesMenu(t, m, [state |-> "listed", items |-> {}], TRUE)
    /\ Begins(t, "written", {m}, {})

\* get_menu
FindMenu(t, m) ==
    /\ menus[m].state = "listed"
    /\ Begins(t, "found", {m}, {})
    /\ UNCHANGED <<service, ratings, catalog, queues, unsure, faults>>

\* What one request makes of the items: update_menu, add_menu_item,
\* delete_menu_item, update_menu_item.
Edits(items) ==
    {items} \cup {items \cup {d} : d \in Dishes} \cup {items \ {d} : d \in Dishes}
    \cup {(items \ {d}) \cup {e} : d \in items, e \in Dishes \ items}

\* The menu may have left the list since it was found: nobody notices.
EditMenu(t) == \E m \in at[t].menu :
    /\ at[t].step = "found"
    /\ \E items \in Edits(menus[m].items) :
           WritesMenu(t, m, [menus[m] EXCEPT !.items = items], menus[m].state = "listed")
    /\ Goes(t, "written", {m}, {})
    /\ UNCHANGED requests

DeleteMenu(t) == \E m \in at[t].menu :
    /\ at[t].step = "found" /\ menus[m].state = "listed"
    /\ WritesMenu(t, m, [menus[m] EXCEPT !.state = "deleted"], TRUE)
    /\ Goes(t, "publish", {m}, {Event("MenuUpdated", Empty, {})})
    /\ UNCHANGED requests

\* No such item, or list.remove finds no such menu or item any more.
RaisesNotFound(t) ==
    /\ at[t].step = "found"
    /\ Ends(t)
    /\ UNCHANGED <<service, ratings, catalog, queues, unsure, faults, requests>>

\* Mutant: the event of a menu has no items.
BuildEvent_NoItems(t) ==
    /\ at[t].step \in {"updated", "written"}
    /\ Goes(t, "publish", at[t].menu,
            {IF at[t].step = "updated" THEN Event("RestaurantUpdated", restaurant.name, {})
             ELSE Event("MenuUpdated", Empty, {})})
    /\ UNCHANGED <<service, ratings, catalog, queues, unsure, faults, requests>>

\* The event is built from the object as it is by now.
BuildEvent(t) ==
    /\ \/ at[t].step = "updated"
          /\ Goes(t, "publish", {}, {Event("RestaurantUpdated", restaurant.name, {})})
       \/ at[t].step = "written"
          /\ \E m \in at[t].menu :
                 Goes(t, "publish", {m}, {Event("MenuUpdated", Empty, menus[m].items)})
    /\ UNCHANGED <<service, ratings, catalog, queues, unsure, faults, requests>>

\* RestaurantClosed is published in the middle of update_restaurant.
PublishEvent(t) ==
    /\ at[t].step \in {"closing", "publish"}
    /\ IF at[t].step = "closing" THEN Goes(t, "updated", {}, {}) ELSE Ends(t)
    /\ Publishes(IF at[t].menu # {} THEN "menu" ELSE "profile",
                 \E e \in at[t].news : index' = Append(index, e), UNCHANGED index)
    /\ UNCHANGED <<service, ratings, catalog, toCatalog, toRestaurant, requests>>

\* on_rating_created of restaurant-service; ratings of deliverers are not for it.
RateRestaurant ==
    /\ toRestaurant # <<>>
    /\ toRestaurant' = Tail(toRestaurant)
    /\ restaurant' = [restaurant EXCEPT !.rating = IF restaurant.here THEN Head(toRestaurant) ELSE @]
    /\ UNCHANGED <<menus, last, ratings, catalog, index, toCatalog, at, unsure, faults, requests>>

-----------------------------------------------------------------------------
(* rating-service *)

\* Mutant: a retried request saves its rating twice.
CreateRating_Twice(t) ==
    /\ restaurant.here
    /\ ratings' = ratings + 2
    /\ Begins(t, "rated", {}, {})
    /\ Writes("rating", TRUE)
    /\ UNCHANGED <<service, catalog, queues, faults>>

\* create_rating, up to its save; the id of a restaurant is known once it is here.
CreateRating(t) ==
    /\ restaurant.here
    /\ ratings' = ratings + 1
    /\ Begins(t, "rated", {}, {})
    /\ Writes("rating", TRUE)
    /\ UNCHANGED <<service, catalog, queues, faults>>

\* Mutant: the summary is of the ratings there were before.
Recompute_Before(t) ==
    /\ at[t].step = "rated"
    /\ Counts(t, "announce", ratings - 1)
    /\ UNCHANGED <<service, ratings, catalog, queues, unsure, faults, requests>>

\* find_by_target iterates over the dictionary, which raises if another thread
\* inserts into it meanwhile: the rating is saved and never announced.
Recompute(t) ==
    /\ \/ at[t].step = "rated" /\ Counts(t, "summing", ratings)
       \/ /\ at[t].step = "summing"
          /\ IF at[t].count = ratings THEN Counts(t, "announce", ratings) ELSE Ends(t)
    /\ UNCHANGED <<service, ratings, catalog, queues, unsure, faults, requests>>

\* Mutant: two publications, the second of which may fail.
PublishRating_Twice(t) ==
    /\ at[t].step = "announce"
    /\ Ends(t)
    /\ toCatalog' = Append(toCatalog, at[t].count)
    /\ Publishes("rating", toRestaurant' = Append(toRestaurant, at[t].count), UNCHANGED toRestaurant)
    /\ UNCHANGED <<service, ratings, catalog, index, requests>>

\* The exchange has two queues bound to rating.created.
PublishRating(t) ==
    /\ at[t].step = "announce"
    /\ Ends(t)
    /\ Publishes("rating",
                 /\ toCatalog' = Append(toCatalog, at[t].count)
                 /\ toRestaurant' = Append(toRestaurant, at[t].count),
                 UNCHANGED <<toCatalog, toRestaurant>>)
    /\ UNCHANGED <<service, ratings, catalog, index, requests>>

\* rating-service keeps its ratings in memory.
RatingRestart ==
    /\ Fault
    /\ ratings' = 0
    /\ at' = [t \in Threads |-> IF t \in Unsaid("rating") THEN Idle ELSE at[t]]
    /\ unsure' = unsure \cup {"rating"}
    /\ UNCHANGED <<service, catalog, queues, requests>>

-----------------------------------------------------------------------------
(* catalog-service *)

on_restaurant_registered(e) ==
    [catalog EXCEPT !.here = TRUE, !.name = e.name, !.is_open = TRUE]

on_restaurant_updated(e) ==
    IF ~catalog.here THEN on_restaurant_registered(e)
    ELSE [catalog EXCEPT !.name = IF e.name # Empty THEN e.name ELSE @]

on_restaurant_closed(e) == IF catalog.here THEN [catalog EXCEPT !.is_open = FALSE] ELSE catalog

\* Mutant: the dishes are added to those that are there.
on_menu_updated_Adds(e) == [catalog EXCEPT !.here = TRUE, !.dishes = @ \cup e.items]

\* The dishes of one menu replace those of all the others.
on_menu_updated(e) == [catalog EXCEPT !.here = TRUE, !.dishes = e.items]

on_rating_created(n) == IF catalog.here THEN [catalog EXCEPT !.rating = n] ELSE catalog

\* The message is acknowledged at once: a restart in between would lose the
\* entry too, and the message would be delivered to an empty catalog.
UpdateIndex ==
    /\ index # <<>>
    /\ index' = Tail(index)
    /\ LET e == Head(index) IN
       catalog' = CASE e.type = "RestaurantRegistered" -> on_restaurant_registered(e)
                    [] e.type = "RestaurantUpdated" -> on_restaurant_updated(e)
                    [] e.type = "RestaurantClosed" -> on_restaurant_closed(e)
                    [] e.type = "MenuUpdated" -> on_menu_updated(e)
    /\ UNCHANGED <<service, ratings, toCatalog, toRestaurant, at, unsure, faults, requests>>

UpdateRatings ==
    /\ toCatalog # <<>>
    /\ toCatalog' = Tail(toCatalog)
    /\ catalog' = on_rating_created(Head(toCatalog))
    /\ UNCHANGED <<service, ratings, index, toRestaurant, at, unsure, faults, requests>>

CatalogRestart ==
    /\ Fault
    /\ catalog' = NoEntry
    /\ unsure' = Kinds
    /\ UNCHANGED <<service, ratings, queues, at, requests>>

-----------------------------------------------------------------------------
Init ==
    /\ restaurant = [here |-> FALSE, name |-> Empty, status |-> "ACTIVE", rating |-> 0,
                      untold |-> FALSE]
    /\ menus = [m \in Menus |-> [state |-> "new", items |-> {}]]
    /\ ratings = 0
    /\ catalog = NoEntry
    /\ index = <<>> /\ toCatalog = <<>> /\ toRestaurant = <<>>
    /\ at = [t \in Threads |-> Idle]
    /\ last = {}
    /\ unsure = {}
    /\ requests = 0 /\ faults = 0

Requests(t) ==
    \/ \E n \in Names, s \in RestaurantStatus : CreateRestaurant(t, n, s)
    \/ UpdateRestaurant(t)
    \/ \E m \in Menus : AddMenu(t, m) \/ FindMenu(t, m)
    \/ CreateRating(t)

Continues(t) ==
    \/ EditMenu(t) \/ DeleteMenu(t) \/ RaisesNotFound(t)
    \/ BuildEvent(t) \/ PublishEvent(t)
    \/ Recompute(t) \/ PublishRating(t)

Consumes == UpdateIndex \/ UpdateRatings

Faults == RatingRestart \/ CatalogRestart

Next ==
    \/ \E t \in Threads : Requests(t) \/ Continues(t)
    \/ Consumes \/ RateRestaurant \/ Faults

\* The consumer threads are always waiting for messages, and the one of
\* catalog-service takes those of its two queues in turn.
Fairness == WF_vars(UpdateIndex) /\ WF_vars(UpdateRatings) /\ WF_vars(RateRestaurant)

Spec == Init /\ [][Next]_vars /\ Fairness

-----------------------------------------------------------------------------
(* Properties *)

TypeOK ==
    /\ restaurant \in Restaurants
    /\ menus \in [Menus -> [state : {"new", "listed", "deleted"}, items : SUBSET Dishes]]
    /\ ratings \in Ratings
    /\ catalog \in Entries
    /\ index \in Seq(Events)
    /\ toCatalog \in Seq(Ratings) /\ toRestaurant \in Seq(Ratings)
    /\ at \in [Threads -> Works]
    /\ last \subseteq Menus
    /\ unsure \subseteq Kinds
    /\ requests \in 0 .. MaxRequests /\ faults \in 0 .. MaxFaults

\* What the last write of a kind left is what a search finds, whatever writes
\* overlapped before it and whatever the catalog had missed.  An empty name, a
\* status that is not CLOSED, and a status at the creation are not carried over.
ShowsName == "profile" \notin unsure /\ restaurant.name # Empty => catalog.name = restaurant.name

ShowsDishes ==
    "menu" \notin unsure => \A m \in last :
        catalog.dishes = IF menus[m].state = "listed" THEN menus[m].items ELSE {}

ShowsClosed ==
    "status" \notin unsure /\ restaurant.status = "CLOSED" /\ ~restaurant.untold => ~catalog.is_open

IndexCatchesUp == Quiet /\ index = <<>> => ShowsName /\ ShowsDishes /\ ShowsClosed

\* Once every rating was announced, both services show the same average, unless
\* the catalog, when it was told, did not know the restaurant.
RatingsAgree ==
    toCatalog = <<>> /\ toRestaurant = <<>> => catalog.rating \in {0, restaurant.rating}

\* A rating that no other overlapped brings the restaurant's average up to date.
RatingCatchesUp ==
    Quiet /\ toRestaurant = <<>> /\ "rating" \notin unsure => restaurant.rating = ratings

\* Once nobody writes any more, the catalog shows what was written, for good.
EventuallyShown ==
    <>[]Quiet => <>[](ShowsName /\ ShowsDishes /\ ShowsClosed /\ catalog.rating \in {0, restaurant.rating})
=============================================================================
