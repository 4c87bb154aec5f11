---------------------------- MODULE FloorLoader ----------------------------
(***************************************************************************)
(* What a terminal shows of a restaurant: the active restaurant of its     *)
(* user (RestaurantContextStore), the loader of the floor                  *)
(* (RestaurantFloorLoader) and the poller that keeps floor and orders      *)
(* fresh (OrderSyncService).                                               *)
(*                                                                         *)
(* The floor of a restaurant is its version in the backend.  The loader    *)
(* wants one request at a time: who asks for the same restaurant meanwhile *)
(* joins it, who asks for a refresh also waits for it to end and then asks *)
(* again (a trailing request, in place of an answer that is old already),  *)
(* and a request for another restaurant or user cancels it.  Slots holds   *)
(* the requests that are alive, so that a second one can be told apart.    *)
(*                                                                         *)
(* Generations: a request is the latest of its loader exactly when the     *)
(* loader still has it as its inFlight, so no counter is kept.             *)
(***************************************************************************)
EXTENDS Integers, FiniteSets

CONSTANTS Restaurants, Users,
          Access,      \* the restaurants of each user
          Slots,       \* requests of the floor that are alive
          MaxChanges,  \* bound on the changes of each floor
          MaxFaults,   \* bound on failed requests
          MaxUsers,    \* bound on changes of user
          None

\* A request of the floor: restaurant, user, bearer token, preserveViewport,
\* trailingRequested, and the floor that the backend read for it.
Request == [rid : Restaurants, user : Users, token : Users,
            preserve : BOOLEAN, trailing : BOOLEAN, snap : Nat \cup {None}]

ASSUME FloorLoaderAssumption ==
    /\ Access \in [Users -> SUBSET Restaurants]
    /\ {MaxChanges, MaxFaults, MaxUsers} \subseteq Nat
    /\ None \notin Restaurants \cup Users \cup Slots \cup Request

VARIABLES version,   \* the floors in the backend
          user,      \* userId of the session
          context,   \* observed user, restaurants asked for, active restaurant
          loader,    \* observedUserId, restaurantId and inFlight
          request,   \* the requests that are alive
          waiters,   \* who waits to send a trailing request
          store,     \* floorLoadStatus and the floor shown
          sync,      \* the poller
          faults, logins

screen == <<loader, request, waiters, store, sync>>
bounds == <<faults, logins>>
vars == <<version, user, context, screen, bounds>>

Active == context.active
Flight == loader.inFlight

Nowhere == [rid |-> None, version |-> 0]

-----------------------------------------------------------------------------
(* The active restaurant                                                   *)

\* resetRestaurantContext.  asked: isLoading; for: the user of the request in
\* flight.
FreshContext(u) == [observed |-> u, asked |-> FALSE, for |-> None,
                    done |-> FALSE, failed |-> FALSE, active |-> None]

\* load: asks for the restaurants of the user, once, and again (force) when the
\* terminal shows that it failed.
ContextLoad ==
    LET seen == IF context.observed = user THEN context ELSE FreshContext(user)
    IN  /\ ~seen.asked /\ ~seen.done
        /\ context' = [seen EXCEPT !.asked = TRUE, !.for = user, !.failed = FALSE]
        /\ UNCHANGED <<version, user, screen, bounds>>

\* The restaurants arrive: a single one becomes active.  isCurrentLoad drops
\* those of another user.
ContextCurrent == context.for = user
ContextAnswer ==
    /\ context.for # None
    /\ context' =
         IF ContextCurrent
         THEN [context EXCEPT !.asked = FALSE, !.for = None, !.done = TRUE,
                 !.active = IF Cardinality(Access[context.for]) = 1
                            THEN CHOOSE r \in Access[context.for] : TRUE ELSE None]
         ELSE [context EXCEPT !.for = None]
    /\ UNCHANGED <<version, user, screen, bounds>>

\* The request fails, for the fourth time in a row.
ContextFails ==
    /\ context.for # None
    /\ faults < MaxFaults /\ faults' = faults + 1
    /\ context' = IF ContextCurrent
                  THEN [context EXCEPT !.asked = FALSE, !.for = None, !.failed = TRUE]
                  ELSE [context EXCEPT !.for = None]
    /\ UNCHANGED <<version, user, logins, screen>>

\* setActiveRestaurantId, from the list on the screen.
Select(r) ==
    /\ context.done /\ r \in Access[context.observed] \ {Active}
    /\ context' = [context EXCEPT !.active = r]
    /\ UNCHANGED <<version, user, screen, bounds>>

\* Another user signs in; the effects of the stores run later, before the next
\* sign-in is answered.
SignIn(u) ==
    /\ context.observed = user /\ loader.observed = user
    /\ u # user /\ logins < MaxUsers /\ logins' = logins + 1
    /\ user' = u
    /\ UNCHANGED <<version, context, faults, screen>>

ContextEffect ==
    /\ context.observed # user
    /\ context' = FreshContext(user)
    /\ UNCHANGED <<version, user, screen, bounds>>

-----------------------------------------------------------------------------
(* The loader                                                              *)

\* hydrateServiceFloor, beginFloorLoad, failFloorLoad, completeEmptyFloorLoad
Loading == [status |-> "loading", shown |-> Nowhere]
Loaded(r, n) == [status |-> "loaded", shown |-> [rid |-> r, version |-> n]]

\* Where the loader stands in the middle of a step: loader, requests, store,
\* trailing waiters and the state of the poller's subscription.
Here == [loader |-> loader, request |-> request, store |-> store,
         waiters |-> waiters, sub |-> sync.sub]

Become(s) == /\ loader' = s.loader /\ request' = s.request /\ store' = s.store
             /\ waiters' = s.waiters /\ sync' = [sync EXCEPT !.sub = s.sub]

\* The inFlight request is cancelled: it ends, and with it those who wait.
Survives(s) == [s EXCEPT !.loader.inFlight = None, !.waiters = {}, !.sub = "idle"]
Cancelled(s) ==
    IF s.loader.inFlight = None THEN s
    ELSE [s EXCEPT !.request[s.loader.inFlight] = None,
                   !.loader.inFlight = None, !.waiters = {}, !.sub = "idle"]

\* invalidateRequestCache
Invalidated(s) == [Cancelled(s) EXCEPT !.loader.restaurantId = None]

\* syncUserContext
Synced(s) == IF s.loader.observed = user THEN s
             ELSE [Invalidated(s) EXCEPT !.loader.observed = user]

\* request(): join the request for r or send one in its place, with the token
\* of the session.
Requested(s, r, preserve) ==
    IF s.loader.inFlight # None /\ s.request[s.loader.inFlight].rid = r THEN s
    ELSE LET t == Cancelled(s)
             i == CHOOSE i \in Slots : t.request[i] = None
         IN  [t EXCEPT !.loader.restaurantId = r, !.loader.inFlight = i,
                !.request[i] = [rid |-> r, user |-> s.loader.observed,
                                token |-> user, preserve |-> preserve,
                                trailing |-> FALSE, snap |-> None],
                !.store = IF preserve THEN @ ELSE Loading]

HasSlot == \E i \in Slots : request[i] = None \/ i = Flight

\* load(), from a page that opens, or forced by the retry button that the pages
\* show after an error.
Load ==
    /\ Active # None /\ HasSlot
    /\ LET s == Synced(Here)
       IN  /\ store.status = "error" \/ s.loader.restaurantId # Active
           /\ Become(Requested(s, Active, FALSE))
    /\ UNCHANGED <<version, user, context, bounds>>

\* refresh() by who: the poller, or someone who never looks back.
Refreshed(s, r, who) ==
    CASE r # Active -> s
      [] OTHER ->
         LET t == Synced(s)
             same == t.loader.restaurantId = r
         IN  CASE same /\ t.loader.inFlight # None ->
                    [t EXCEPT !.request[t.loader.inFlight].trailing = TRUE,
                              !.waiters = @ \cup {who},
                              !.sub = IF who = "sync" THEN "trailing" ELSE @]
               [] same /\ t.loader.inFlight = None /\ t.store.status = "error" -> t
               [] OTHER ->
                    [Requested(t, r, same) EXCEPT
                        !.sub = IF who = "sync" THEN "direct" ELSE @]

\* After a write of the terminal failed (order lines, the layout).
RefreshElsewhere ==
    /\ Active # None /\ HasSlot
    /\ faults < MaxFaults /\ faults' = faults + 1
    /\ Become(Refreshed(Here, Active, "other"))
    /\ UNCHANGED <<version, user, context, logins>>

\* The effect that notices another user: reset().
LoaderEffect ==
    /\ loader.observed # user
    /\ Become([Invalidated(Here) EXCEPT !.loader.observed = user,
                                        !.store = Loading])
    /\ UNCHANGED <<version, user, context, bounds>>

-----------------------------------------------------------------------------
(* Answers                                                                 *)

\* Whom the backend answers: the user of the token or, when that has expired,
\* the one of the session (authInterceptor sends the request again).
Callers(i) == {request[i].token, user}

\* The request reaches the backend, which knows the user of the token.
Read(i) ==
    /\ request[i] # None /\ request[i].snap = None
    /\ \E u \in Callers(i) :
          /\ request[i].rid \in Access[u]
          /\ request' = [request EXCEPT ![i].snap = version[request[i].rid],
                                        ![i].token = u]
    /\ UNCHANGED <<version, user, context, loader, waiters, store, sync, bounds>>

\* isCurrentRequest
NeverStale(i) == TRUE
Current(i) == /\ Flight = i
              /\ loader.restaurantId = request[i].rid
              /\ user = request[i].user
              /\ Active = request[i].rid

\* The request ends, and those who waited for it ask again.
Ended(s, i) == [s EXCEPT !.request[i] = None,
                         !.loader.inFlight = IF @ = i THEN None ELSE @,
                         !.sub = IF @ = "direct" THEN "idle" ELSE @]

AskAgain(s, i) ==
    LET r == request[i].rid
        t == [Ended(s, i) EXCEPT !.waiters = {}]
    IN  IF s.waiters = {} THEN t
        ELSE IF t.loader.restaurantId # r \/ t.store.status = "error"
        THEN [t EXCEPT !.sub = "idle"]
        ELSE [Requested(t, r, request[i].preserve) EXCEPT
                !.sub = IF "sync" \in s.waiters THEN "direct" ELSE @]

\* The floor arrives.  Who is subscribed learns of it: the poller then reads
\* the orders of the restaurant again.
Answer(i) ==
    /\ request[i] # None /\ request[i].snap # None
    /\ LET r == request[i].rid
           n == request[i].snap
           kept == Current(i) /\ ~request[i].trailing
           s == IF kept THEN [Here EXCEPT !.store = Loaded(r, n)] ELSE Here
           t == AskAgain(s, i)
       IN  /\ loader' = t.loader /\ request' = t.request
           /\ store' = t.store /\ waiters' = t.waiters
           /\ sync' = [sync EXCEPT !.sub = t.sub,
                         !.orders = IF kept /\ sync.sub = "direct" /\ r = Active
                                    THEN [rid |-> r, version |-> n] ELSE @]
    /\ UNCHANGED <<version, user, context, bounds>>

\* The request ends in an error.
Failed(i) ==
    AskAgain(IF Current(i) /\ ~request[i].trailing /\ ~request[i].preserve
             THEN [Here EXCEPT !.store.status = "error"] ELSE Here, i)

\* The user of the token may not see the restaurant.
Refused(i) ==
    /\ request[i] # None /\ request[i].snap = None
    /\ \E u \in Callers(i) : request[i].rid \notin Access[u]
    /\ Become(Failed(i))
    /\ UNCHANGED <<version, user, context, bounds>>

\* The connection fails, the answer is for another restaurant, or the restaurant
\* has no floor (404).
Fails(i) ==
    /\ request[i] # None
    /\ faults < MaxFaults /\ faults' = faults + 1
    /\ \/ Become(Failed(i))
       \/ /\ Current(i) /\ ~request[i].trailing
          /\ Become(AskAgain([Here EXCEPT !.store =
                                [status |-> "loaded", shown |-> Nowhere]], i))
    /\ UNCHANGED <<version, user, context, logins>>

-----------------------------------------------------------------------------
(* The poller                                                              *)

\* switchMap drops the subscription to the previous refresh.
Dropped(s) == [s EXCEPT !.waiters = @ \ {"sync"}, !.sub = "idle"]

\* The shell page, which provides the poller, is opened and closed.
Open ==
    /\ ~sync.on
    /\ sync' = [sync EXCEPT !.on = TRUE, !.rid = None]
    /\ UNCHANGED <<version, user, context, loader, request, waiters, store, bounds>>
Close ==
    /\ sync.on
    /\ waiters' = waiters \ {"sync"}
    /\ sync' = [sync EXCEPT !.on = FALSE, !.rid = None, !.sub = "idle",
                            !.first = FALSE, !.heard = FALSE]
    /\ UNCHANGED <<version, user, context, loader, request, store, bounds>>

\* toObservable(activeRestaurant) emits: another timer, starting at once.
SwitchOnce ==
    /\ sync.on /\ sync.rid = None /\ Active # None
    /\ waiters' = waiters \ {"sync"}
    /\ sync' = [sync EXCEPT !.rid = Active, !.sub = "idle", !.first = TRUE,
                            !.heard = FALSE]
    /\ UNCHANGED <<version, user, context, loader, request, store, bounds>>
Switch ==
    /\ sync.on /\ sync.rid # Active
    /\ waiters' = waiters \ {"sync"}
    /\ sync' = [sync EXCEPT !.rid = Active, !.sub = "idle",
                            !.first = Active # None, !.heard = FALSE]
    /\ UNCHANGED <<version, user, context, loader, request, store, bounds>>

Refresh(first, heard) ==
    /\ HasSlot
    /\ LET s == Refreshed(Dropped(Here), sync.rid, "sync")
       IN  /\ loader' = s.loader /\ request' = s.request /\ store' = s.store
           /\ waiters' = s.waiters
           /\ sync' = [sync EXCEPT !.sub = s.sub, !.first = first, !.heard = heard]
    /\ UNCHANGED <<version, user, context, bounds>>

\* timer(0, 30 s).  A request may take longer than that: the tick then waits for
\* it to end, and its answer is dropped.
FirstTick == sync.first /\ Refresh(FALSE, sync.heard)
Tick == sync.rid # None /\ ~sync.first /\ Refresh(FALSE, sync.heard)

\* An invalidation, 300 ms ago.
Invalidation == sync.heard /\ sync.rid # None /\ Refresh(sync.first, FALSE)

\* The floor changes in the backend, and the terminal may hear of it.
Change(r) ==
    /\ version[r] < MaxChanges
    /\ version' = [version EXCEPT ![r] = @ + 1]
    /\ \/ UNCHANGED sync
       \/ sync.on /\ sync.rid = r /\ sync' = [sync EXCEPT !.heard = TRUE]
    /\ UNCHANGED <<user, context, loader, request, waiters, store, bounds>>

-----------------------------------------------------------------------------
Init ==
    /\ version = [r \in Restaurants |-> 0]
    /\ user \in Users
    /\ context = FreshContext(user)
    /\ loader = [observed |-> user, restaurantId |-> None, inFlight |-> None]
    /\ request = [i \in Slots |-> None]
    /\ waiters = {}
    /\ store = Loading
    /\ sync = [on |-> FALSE, rid |-> None, sub |-> "idle", first |-> FALSE,
               heard |-> FALSE, orders |-> Nowhere]
    /\ faults = 0 /\ logins = 0

Next == \/ ContextLoad \/ ContextAnswer \/ ContextFails \/ ContextEffect
        \/ Load \/ LoaderEffect
        \/ \E r \in Restaurants : Select(r) \/ Change(r)
        \/ \E u \in Users : SignIn(u)
        \/ RefreshElsewhere
        \/ \E i \in Slots : Read(i) \/ Refused(i) \/ Answer(i) \/ Fails(i)
        \/ Open \/ Close \/ Switch \/ FirstTick \/ Tick \/ Invalidation

\* Effects run, timers fire and requests are answered.
Fairness == /\ WF_vars(ContextEffect) /\ WF_vars(LoaderEffect)
            /\ WF_vars(Switch) /\ WF_vars(FirstTick) /\ WF_vars(Tick)
            /\ WF_vars(Invalidation)
            /\ \A i \in Slots : WF_vars(Read(i) \/ Refused(i)) /\ WF_vars(Answer(i))

Spec == Init /\ [][Next]_vars /\ Fairness

-----------------------------------------------------------------------------
(* What must hold                                                          *)

Shown == [rid : Restaurants \cup {None}, version : Nat]

\* Types of the variables; the loader's request is one that is alive.
TypeOK ==
    /\ version \in [Restaurants -> Nat] /\ user \in Users
    /\ context \in [observed : Users, asked : BOOLEAN, for : Users \cup {None},
                    done : BOOLEAN, failed : BOOLEAN,
                    active : Restaurants \cup {None}]
    /\ loader \in [observed : Users, restaurantId : Restaurants \cup {None},
                   inFlight : Slots \cup {None}]
    /\ request \in [Slots -> Request \cup {None}]
    /\ Flight # None => request[Flight] # None
    /\ waiters \subseteq {"sync", "other"}
    /\ store \in [status : {"loading", "loaded", "error"}, shown : Shown]
    /\ sync \in [on : BOOLEAN, rid : Restaurants \cup {None},
                 sub : {"idle", "direct", "trailing"}, first : BOOLEAN,
                 heard : BOOLEAN, orders : Shown]

\* However loads, refreshes, changes of restaurant and of user interleave, at
\* most one request of the floor is alive, and it is the loader's.
OneRequest == \A i \in Slots : request[i] # None => i = Flight

\* The restaurant a terminal works in is one of its user, once the terminal
\* has noticed who that is.
OwnRestaurant ==
    context.observed = user => Active \in Access[user] \cup {None}

\* A floor appears only when it is the one of the active restaurant, and the
\* user may see it: an answer that comes after a change of restaurant or of
\* user is dropped.
RightFloor ==
    [][store'.shown \notin {store.shown, Nowhere}
         => store'.shown.rid = Active /\ Active \in Access[user]]_vars

\* Whoever waits for a trailing request waits for a request that is alive.
WaitersHaveRequest == waiters # {} => Flight # None

\* The loader, its requests, those who wait and the active restaurant agree in
\* every state, whatever is cancelled, dropped or superseded.
LoaderConsistent == TypeOK /\ OneRequest /\ OwnRestaurant /\ WaitersHaveRequest

\* A terminal that stays in a restaurant with the poller on, where requests are
\* in the end answered before the next tick, ends up showing its floor as the
\* backend has it, unless an error is on the screen, and its orders were read
\* again after that.
FloorSettles ==
    <>[][Tick => Flight = None]_vars =>
        \A r \in Restaurants :
            <>[](sync.on /\ Active = r /\ user = context.observed)
                => <>[](\/ store.status = "error"
                       \/ /\ store = Loaded(r, version[r])
                          /\ sync.orders = store.shown)
=============================================================================
