------------------------ MODULE FloorLoader_proofs ------------------------
(***************************************************************************)
(* Proofs about FloorLoader, for any restaurants, users and slots.  A step *)
(* of the loader goes through intermediate states (the records Here,       *)
(* Cancelled(s), Requested(s, r, p), ...): Sound says what holds of each   *)
(* of them, and the lemmas below follow one handler after the other.       *)
(***************************************************************************)
EXTENDS FloorLoader, FiniteSetTheorems, TLAPS

Loader == [observed : Users, restaurantId : Restaurants \cup {None},
           inFlight : Slots \cup {None}]
Store == [status : {"loading", "loaded", "error"}, shown : Shown]
Stage == [loader : Loader, request : [Slots -> Request \cup {None}],
          store : Store, waiters : SUBSET {"sync", "other"},
          sub : {"idle", "direct", "trailing"}]

\* A live request is the one of the user the loader knows.  Its token is of
\* that user or of the one of the session, and the user of its token may see
\* what it has read.
Granted(s, q) ==
    /\ q.user = s.loader.observed
    /\ q.token \in {s.loader.observed, user}
    /\ q.snap # None => q.rid \in Access[q.token]

\* What holds of the loader in every state, and in the middle of every step.
Sound(s) ==
    /\ s \in Stage
    /\ s.loader.inFlight # None => s.request[s.loader.inFlight] # None
    /\ \A i \in Slots : s.request[i] # None =>
                           i = s.loader.inFlight /\ Granted(s, s.request[i])
    /\ s.waiters # {} => s.loader.inFlight # None

\* A stage that leads to t without showing another floor.
Quiet(s, t) == Sound(t) /\ t.store.shown \in {s.store.shown, Nowhere}

\* The active restaurant is one of the user the context knows, and the
\* restaurants asked for are of that user.
Own == /\ context.for \in {None, context.observed}
       /\ Active \in Access[context.observed] \cup {None}

\* A timer that starts is one of a restaurant, and the poller is on.
Ticks == sync.first => sync.on /\ sync.rid # None

Context == [observed : Users, asked : BOOLEAN, for : Users \cup {None},
            done : BOOLEAN, failed : BOOLEAN, active : Restaurants \cup {None}]
Sync == [on : BOOLEAN, rid : Restaurants \cup {None},
         sub : {"idle", "direct", "trailing"}, first : BOOLEAN, heard : BOOLEAN,
         orders : Shown]

Inv == /\ version \in [Restaurants -> Nat] /\ user \in Users
       /\ context \in Context /\ sync \in Sync
       /\ Own /\ Sound(Here) /\ Ticks

-----------------------------------------------------------------------------
(* The handlers of the loader                                              *)

\* Nothing is alive once the loader's request is cancelled; the rest stays.
LEMMA CancelledSound ==
    ASSUME NEW s, Sound(s)
    PROVE  /\ Quiet(s, Cancelled(s))
           /\ Cancelled(s).loader = [s.loader EXCEPT !.inFlight = None]
           /\ Cancelled(s).store = s.store
           /\ \A i \in Slots : Cancelled(s).request[i] = None
           /\ Cancelled(s).waiters = {}
<1> DEFINE t == Cancelled(s)
           l == s.loader.inFlight
<1>1. s \in Stage /\ s.loader \in Loader /\ l \in Slots \cup {None}
      /\ s.request \in [Slots -> Request \cup {None}] /\ s.store \in Store
  BY DEF Sound, Stage, Loader
<1>2. CASE l = None
  <2>1. t = s
    BY <1>2 DEF Cancelled
  <2>2. s.loader = [s.loader EXCEPT !.inFlight = None]
    BY <1>1, <1>2 DEF Loader
  <2>3. \A i \in Slots : s.request[i] = None
    BY <1>2, FloorLoaderAssumption DEF Sound
  <2> QED
    BY <1>2, <2>1, <2>2, <2>3 DEF Quiet, Sound
<1>3. CASE l # None
  <2>1. t = [s EXCEPT !.request[l] = None, !.loader.inFlight = None,
                      !.waiters = {}, !.sub = "idle"]
    BY <1>3 DEF Cancelled
  <2>2. /\ t.request = [s.request EXCEPT ![l] = None]
        /\ t.loader = [s.loader EXCEPT !.inFlight = None]
        /\ t.waiters = {} /\ t.sub = "idle" /\ t.store = s.store
        /\ t \in Stage
    <3> HIDE DEF t
    <3>0. /\ [s.request EXCEPT ![l] = None] \in [Slots -> Request \cup {None}]
          /\ [s.loader EXCEPT !.inFlight = None] \in Loader
      BY <1>1, <1>3 DEF Loader
    <3> QED
      BY <2>1, <1>1, <3>0 DEF Stage
  <2> HIDE DEF t
  <2>3. \A i \in Slots : t.request[i] = None
    BY <2>2, <1>1, <1>3 DEF Sound
  <2>4. t.loader.inFlight = None
    BY <2>2, <1>1 DEF Loader
  <2> QED
    BY <2>2, <2>3, <2>4 DEF Quiet, Sound, t
<1> QED
  BY <1>2, <1>3

\* Forgetting the restaurant as well.
LEMMA InvalidatedSound ==
    ASSUME NEW s, Sound(s)
    PROVE  /\ Quiet(s, Invalidated(s))
           /\ Invalidated(s).store = s.store
           /\ Invalidated(s).loader.inFlight = None
           /\ \A i \in Slots : Invalidated(s).request[i] = None
           /\ Invalidated(s).waiters = {}
<1> DEFINE c == Cancelled(s)
           t == Invalidated(s)
<1> HIDE DEF c
<1>1. /\ Sound(c) /\ c.store = s.store /\ c.waiters = {}
      /\ c.loader = [s.loader EXCEPT !.inFlight = None]
      /\ \A i \in Slots : c.request[i] = None
  BY CancelledSound DEF c, Quiet
<1>2. c \in Stage /\ c.loader \in Loader /\ s.loader \in Loader
  BY <1>1 DEF Sound, Stage
<1>3. t = [c EXCEPT !.loader.restaurantId = None]
  BY DEF Invalidated, c
<1> HIDE DEF t
<1>4. /\ t.loader = [c.loader EXCEPT !.restaurantId = None]
      /\ t.request = c.request /\ t.store = c.store /\ t.waiters = c.waiters
      /\ t \in Stage
  <2>0. [c.loader EXCEPT !.restaurantId = None] \in Loader
    BY <1>2 DEF Loader
  <2> QED
    BY <1>2, <1>3, <2>0 DEF Stage
<1>5. t.loader.inFlight = None
  BY <1>1, <1>2, <1>4 DEF Loader
<1> QED
  BY <1>1, <1>4, <1>5 DEF Sound, Quiet, t

\* Adopting the user of the session, when nothing is alive.
LEMMA AdoptedSound ==
    ASSUME NEW s, Sound(s), s.loader.inFlight = None, user \in Users,
           \A i \in Slots : s.request[i] = None,
           NEW t, t = [s EXCEPT !.loader.observed = user]
    PROVE  /\ Sound(t) /\ t.store = s.store /\ t.loader.observed = user
           /\ t.loader.inFlight = None /\ t.waiters = s.waiters
           /\ \A i \in Slots : t.request[i] = None
<1>1. s \in Stage /\ s.loader \in Loader
  BY DEF Sound, Stage
<1>2. /\ t.loader = [s.loader EXCEPT !.observed = user]
      /\ t.request = s.request /\ t.store = s.store /\ t.waiters = s.waiters
      /\ t \in Stage
  <2>0. [s.loader EXCEPT !.observed = user] \in Loader
    BY <1>1 DEF Loader
  <2> QED
    BY <1>1, <2>0 DEF Stage
<1>3. t.loader.observed = user /\ t.loader.inFlight = None
  BY <1>1, <1>2 DEF Loader
<1> QED
  BY <1>2, <1>3 DEF Sound

LEMMA SyncedSound ==
    ASSUME NEW s, Sound(s), user \in Users
    PROVE  /\ Sound(Synced(s)) /\ Synced(s).store = s.store
           /\ Synced(s).loader.observed = user
<1>1. CASE s.loader.observed = user
  BY <1>1 DEF Synced
<1>2. CASE s.loader.observed # user
  <2>1. Synced(s) = [Invalidated(s) EXCEPT !.loader.observed = user]
    BY <1>2 DEF Synced
  <2> DEFINE t == Invalidated(s)
  <2>2. /\ Sound(t) /\ t.store = s.store /\ t.loader.inFlight = None
        /\ \A i \in Slots : t.request[i] = None
    BY InvalidatedSound DEF Quiet
  <2> HIDE DEF t
  <2>3. Synced(s) = [t EXCEPT !.loader.observed = user]
    BY <2>1 DEF t
  <2> QED
    BY <2>2, <2>3, AdoptedSound
<1> QED
  BY <1>1, <1>2

\* Joining a request or sending one: the loader ends up with one, and a floor
\* on the screen stays unless the page asked for another.
LEMMA RequestedSound ==
    ASSUME NEW s, Sound(s), user \in Users, NEW r \in Restaurants,
           NEW p \in BOOLEAN, NEW j \in Slots
    PROVE  /\ Quiet(s, Requested(s, r, p))
           /\ Requested(s, r, p).loader.inFlight # None
<1> DEFINE u == Requested(s, r, p)
<1>0. s \in Stage /\ s.loader \in Loader
  BY DEF Sound, Stage
<1>1. CASE s.loader.inFlight # None /\ s.request[s.loader.inFlight].rid = r
  BY <1>1 DEF Requested, Quiet
<1>2. CASE ~(s.loader.inFlight # None /\ s.request[s.loader.inFlight].rid = r)
  <2> DEFINE t == Cancelled(s)
             i == CHOOSE i \in Slots : t.request[i] = None
             q == [rid |-> r, user |-> s.loader.observed, token |-> user,
                   preserve |-> p, trailing |-> FALSE, snap |-> None]
  <2>1. /\ Sound(t) /\ t.loader = [s.loader EXCEPT !.inFlight = None]
        /\ t.store = s.store /\ \A k \in Slots : t.request[k] = None
    BY CancelledSound DEF Quiet
  <2>2. u = [t EXCEPT !.loader.restaurantId = r, !.loader.inFlight = i,
                      !.request[i] = q, !.store = IF p THEN @ ELSE Loading]
    BY <1>2 DEF Requested
  <2>3. i \in Slots
    BY <2>1
  <2> HIDE DEF t, i, u
  <2>4. /\ t \in Stage /\ t.loader \in Loader /\ t.store \in Store
        /\ t.request \in [Slots -> Request \cup {None}]
    BY <2>1 DEF Sound, Stage
  <2>5. q \in Request
    BY <1>0 DEF Request, Loader
  <2> HIDE DEF q
  <2>6. Loading \in Store /\ Loading.shown = Nowhere
    BY DEF Loading, Store, Nowhere, Shown
  <2>7. /\ u.request = [t.request EXCEPT ![i] = q]
        /\ u.store = IF p THEN t.store ELSE Loading
        /\ u.loader = [t.loader EXCEPT !.restaurantId = r, !.inFlight = i]
        /\ u.waiters = t.waiters /\ u \in Stage
    <3>1. [t.loader EXCEPT !.restaurantId = r, !.inFlight = i] \in Loader
      BY <2>3, <2>4 DEF Loader
    <3>2. [t.request EXCEPT ![i] = q] \in [Slots -> Request \cup {None}]
      BY <2>3, <2>4, <2>5
    <3> QED
      BY <2>2, <2>4, <2>6, <3>1, <3>2 DEF Stage
  <2>8. u.loader.inFlight = i /\ u.loader.observed = s.loader.observed
    BY <2>1, <2>4, <2>7, <1>0 DEF Loader
  <2>9. /\ u.request[i] = q
        /\ \A k \in Slots \ {i} : u.request[k] = None
    BY <2>1, <2>3, <2>4, <2>7
  <2>10. q # None
    BY <2>5, FloorLoaderAssumption
  <2>11. Granted(u, q)
    BY <2>8 DEF Granted, q
  <2>12. i # None
    BY <2>3, FloorLoaderAssumption
  <2>13. Sound(u)
    BY <2>3, <2>7, <2>8, <2>9, <2>10, <2>11, <2>12 DEF Sound
  <2>14. u.store.shown \in {s.store.shown, Nowhere}
    BY <2>1, <2>6, <2>7
  <2> QED
    BY <2>8, <2>12, <2>13, <2>14 DEF Quiet, u
<1> QED
  BY <1>1, <1>2

\* The state of the poller's subscription is of no account here.
LEMMA SubSound ==
    ASSUME NEW s, Sound(s), NEW x \in {"idle", "direct", "trailing"},
           NEW t, t = [s EXCEPT !.sub = x]
    PROVE  Quiet(s, t)
<1>1. s \in Stage
  BY DEF Sound
<1>2. /\ t \in Stage /\ t.loader = s.loader /\ t.request = s.request
      /\ t.store = s.store /\ t.waiters = s.waiters
  BY <1>1 DEF Stage
<1> QED
  BY <1>2 DEF Sound, Quiet, Granted

\* A refresh joins the request in flight, which becomes a trailing one, or
\* sends a request.
LEMMA RefreshedSound ==
    ASSUME NEW s, Sound(s), user \in Users, NEW r \in Restaurants \cup {None},
           r # None \/ Active # None,
           NEW who \in {"sync", "other"}, NEW j \in Slots
    PROVE  Quiet(s, Refreshed(s, r, who))
<1> DEFINE z == Refreshed(s, r, who)
           t == Synced(s)
           same == t.loader.restaurantId = r
           f == t.loader.inFlight
<1>1. CASE r # Active
  BY <1>1 DEF Refreshed, Quiet
<1>2. CASE r = Active
  <2>0. Sound(t) /\ t.store = s.store /\ t \in Stage /\ t.sub \in {"idle", "direct", "trailing"}
    BY SyncedSound DEF Sound, Stage
  <2>00. r \in Restaurants
    BY <1>2
  <2>1. CASE same /\ f # None
    <3> DEFINE sub == IF who = "sync" THEN "trailing" ELSE t.sub
    <3>1. z = [t EXCEPT !.request[f].trailing = TRUE,
                        !.waiters = @ \cup {who}, !.sub = sub]
      BY <1>2, <2>1 DEF Refreshed
    <3>2. /\ f \in Slots /\ t.request[f] \in Request /\ t.request[f] # None
          /\ t.request \in [Slots -> Request \cup {None}]
          /\ t.waiters \in SUBSET {"sync", "other"}
      BY <2>0, <2>1 DEF Sound, Stage, Loader
    <3> DEFINE q == [t.request[f] EXCEPT !.trailing = TRUE]
    <3>3. /\ q \in Request /\ q.user = t.request[f].user
          /\ q.token = t.request[f].token /\ q.snap = t.request[f].snap
          /\ q.rid = t.request[f].rid
      BY <3>2 DEF Request
    <3>4. sub \in {"idle", "direct", "trailing"}
      BY <2>0
    <3> HIDE DEF t, sub, q
    <3>5. z = [t EXCEPT !.request = [t.request EXCEPT ![f] = q],
                        !.waiters = t.waiters \cup {who}, !.sub = sub]
      BY <2>0, <3>1, <3>2 DEF q, Stage
    <3>6. [t.request EXCEPT ![f] = q] \in [Slots -> Request \cup {None}]
      BY <3>2, <3>3
    <3>7. t.waiters \cup {who} \in SUBSET {"sync", "other"}
      BY <3>2
    <3> HIDE DEF z
    <3>8. /\ z \in Stage /\ z.request = [t.request EXCEPT ![f] = q]
          /\ z.loader = t.loader /\ z.store = t.store
      BY <2>0, <3>4, <3>5, <3>6, <3>7 DEF Stage
    <3>9. q # None
      BY <3>3, FloorLoaderAssumption
    <3>10. /\ z.request[f] = q
           /\ \A i \in Slots \ {f} : z.request[i] = t.request[i]
      BY <3>2, <3>8
    <3>11. Granted(t, t.request[f])
      BY <2>0, <3>2 DEF Sound
    <3>12. Granted(z, q)
      BY <3>3, <3>8, <3>11 DEF Granted
    <3>13. \A i \in Slots : z.request[i] # None =>
               i = z.loader.inFlight /\ Granted(z, z.request[i])
      <4> SUFFICES ASSUME NEW i \in Slots, z.request[i] # None
                   PROVE  i = f /\ Granted(z, z.request[i])
        BY <3>8
      <4>1. i = f
        BY <2>0, <3>10 DEF Sound
      <4> QED
        BY <4>1, <3>10, <3>12
    <3> QED
      BY <2>0, <2>1, <3>8, <3>9, <3>10, <3>13 DEF Sound, Quiet, z
  <2>2. CASE same /\ f = None /\ t.store.status = "error"
    <3>1. z = t
      BY <1>2, <2>2 DEF Refreshed
    <3> QED
      BY <3>1, <2>0 DEF Quiet
  <2>3. CASE ~(same /\ f # None) /\ ~(same /\ f = None /\ t.store.status = "error")
    <3> DEFINE n == Requested(t, r, same)
               sub == IF who = "sync" THEN "direct" ELSE n.sub
    <3>1. z = [n EXCEPT !.sub = sub]
      BY <1>2, <2>3 DEF Refreshed
    <3>2. Quiet(t, n)
      BY <2>0, <2>00, RequestedSound
    <3>3. sub \in {"idle", "direct", "trailing"}
      BY <3>2 DEF Quiet, Sound, Stage
    <3> HIDE DEF t, n, sub
    <3>4. Quiet(n, z)
      BY <3>1, <3>2, <3>3, SubSound DEF Quiet
    <3> QED
      BY <2>0, <3>2, <3>4 DEF Quiet
  <2> QED
    BY <2>1, <2>2, <2>3
<1> QED
  BY <1>1, <1>2

\* switchMap drops the poller from those who wait.
LEMMA DroppedSound ==
    ASSUME NEW s, Sound(s)
    PROVE  Quiet(s, Dropped(s))
<1> DEFINE t == Dropped(s)
<1>1. s \in Stage /\ s.waiters \in SUBSET {"sync", "other"}
  BY DEF Sound, Stage
<1>2. /\ t \in Stage /\ t.loader = s.loader /\ t.request = s.request
      /\ t.store = s.store /\ t.waiters = s.waiters \ {"sync"}
  BY <1>1 DEF Stage, Dropped
<1> HIDE DEF t
<1>3. t.waiters # {} => s.waiters # {}
  BY <1>2
<1>4. Sound(t)
  BY <1>2, <1>3 DEF Sound, Granted
<1> QED
  BY <1>2, <1>4 DEF Quiet, t

\* A request ends: nothing is alive, and the trailing request that others wait
\* for is sent, unless the loader has moved on.
LEMMA AskAgainSound ==
    ASSUME NEW s, Sound(s), user \in Users, NEW i \in Slots,
           s.request = request, request[i] # None
    PROVE  Quiet(s, AskAgain(s, i))
<1> DEFINE e == Ended(s, i)
           t == [e EXCEPT !.waiters = {}]
           r == request[i].rid
           p == request[i].preserve
<1>1. /\ s \in Stage /\ s.loader \in Loader /\ s.loader.inFlight = i
      /\ s.request \in [Slots -> Request \cup {None}] /\ request[i] \in Request
      /\ s.sub \in {"idle", "direct", "trailing"}
  BY DEF Sound, Stage
<1>2. r \in Restaurants /\ p \in BOOLEAN
  BY <1>1 DEF Request
<1>3. /\ e.request = [s.request EXCEPT ![i] = None]
      /\ e.loader = [s.loader EXCEPT !.inFlight = None]
      /\ e.store = s.store /\ e.waiters = s.waiters /\ e \in Stage
  <2> DEFINE sub == IF s.sub = "direct" THEN "idle" ELSE s.sub
  <2>1. e = [s EXCEPT !.request[i] = None, !.loader.inFlight = IF @ = i THEN None ELSE @,
                      !.sub = IF @ = "direct" THEN "idle" ELSE @]
    BY DEF Ended
  <2>2. e = [s EXCEPT !.request = [s.request EXCEPT ![i] = None],
                      !.loader = [s.loader EXCEPT !.inFlight = None],
                      !.sub = sub]
    BY <1>1, <2>1 DEF Stage, Loader
  <2>3. /\ [s.request EXCEPT ![i] = None] \in [Slots -> Request \cup {None}]
        /\ [s.loader EXCEPT !.inFlight = None] \in Loader
        /\ sub \in {"idle", "direct", "trailing"}
    BY <1>1 DEF Loader
  <2> HIDE DEF e, sub
  <2> QED
    BY <1>1, <2>2, <2>3 DEF Stage
<1> HIDE DEF e
<1>4. /\ t.request = e.request /\ t.loader = e.loader /\ t.store = s.store
      /\ t.waiters = {} /\ t \in Stage
  BY <1>3 DEF Stage
<1>5. \A k \in Slots : t.request[k] = None
  BY <1>1, <1>3, <1>4 DEF Sound
<1>6. t.loader.inFlight = None
  BY <1>1, <1>3, <1>4 DEF Loader
<1>7. Quiet(s, t)
  BY <1>4, <1>5, <1>6 DEF Sound, Quiet
<1> HIDE DEF t
<1>8. CASE s.waiters = {}
  BY <1>7, <1>8 DEF AskAgain, t, e
<1>9. CASE s.waiters # {} /\ (t.loader.restaurantId # r \/ t.store.status = "error")
  <2>1. AskAgain(s, i) = [t EXCEPT !.sub = "idle"]
    BY <1>9 DEF AskAgain, t, e
  <2>2. Quiet(t, AskAgain(s, i))
    BY <2>1, <1>7, SubSound DEF Quiet
  <2> QED
    BY <2>2, <1>7 DEF Quiet
<1>10. CASE s.waiters # {} /\ ~(t.loader.restaurantId # r \/ t.store.status = "error")
  <2> DEFINE n == Requested(t, r, p)
             sub == IF "sync" \in s.waiters THEN "direct" ELSE n.sub
  <2>1. AskAgain(s, i) = [n EXCEPT !.sub = sub]
    BY <1>10 DEF AskAgain, t, e
  <2>2. Quiet(t, n)
    BY <1>2, <1>7, RequestedSound DEF Quiet
  <2>3. sub \in {"idle", "direct", "trailing"}
    BY <2>2 DEF Quiet, Sound, Stage
  <2> HIDE DEF n, sub
  <2>4. Quiet(n, AskAgain(s, i))
    BY <2>1, <2>2, <2>3, SubSound DEF Quiet
  <2> QED
    BY <1>7, <2>2, <2>4 DEF Quiet
<1> QED
  BY <1>8, <1>9, <1>10

\* Another store, with what is alive as it was.
LEMMA StoreSound ==
    ASSUME NEW s, Sound(s), NEW st \in Store,
           NEW t, t = [s EXCEPT !.store = st]
    PROVE  Sound(t) /\ t.store = st /\ t.request = s.request
<1>1. s \in Stage
  BY DEF Sound
<1>2. /\ t \in Stage /\ t.loader = s.loader /\ t.request = s.request
      /\ t.store = st /\ t.waiters = s.waiters
  BY <1>1 DEF Stage
<1> QED
  BY <1>2 DEF Sound, Granted

-----------------------------------------------------------------------------
(* The steps                                                               *)

\* The loader's part of TypeOK, OneRequest and WaitersHaveRequest are what
\* Sound(Here) says without the users.
LEMMA SoundHere ==
    ASSUME Sound(Here)
    PROVE  /\ loader \in Loader /\ request \in [Slots -> Request \cup {None}]
           /\ store \in Store /\ waiters \subseteq {"sync", "other"}
           /\ sync.sub \in {"idle", "direct", "trailing"}
           /\ Flight # None => request[Flight] # None
           /\ OneRequest /\ WaitersHaveRequest
<1>1. /\ Here.loader = loader /\ Here.request = request /\ Here.store = store
      /\ Here.waiters = waiters /\ Here.sub = sync.sub
  BY DEF Here
<1> QED
  BY <1>1 DEF Sound, Stage, OneRequest, WaitersHaveRequest, Flight

\* Inv contains what the run checks.
LEMMA InvConsistent == Inv => LoaderConsistent
<1>1. Own => OwnRestaurant
  BY DEF Own, OwnRestaurant
<1> QED
  BY <1>1, SoundHere DEF Inv, LoaderConsistent, TypeOK, Loader, Store, Context, Sync

\* A step that leaves the loader, its requests, its waiters and the store.
Apart == UNCHANGED <<loader, request, waiters, store>> /\ sync'.sub = sync.sub

\* A floor that appears is the one of the active restaurant.
Right == store'.shown \notin {store.shown, Nowhere}
            => store'.shown.rid = Active /\ Active \in Access[user]

LEMMA ApartKeeps ==
    ASSUME Sound(Here), Apart, user' = user
    PROVE  Sound(Here)' /\ Right
<1>1. Here' = Here
  BY DEF Here, Apart
<1> QED
  BY <1>1 DEF Sound, Granted, Apart, Right

\* A step that ends in the sound stage s.
LEMMA StageKeeps ==
    ASSUME Inv, NEW s, Sound(s), UNCHANGED <<version, user, context>>,
           loader' = s.loader, request' = s.request, store' = s.store,
           waiters' = s.waiters, sync' \in Sync, sync'.sub = s.sub, Ticks'
    PROVE  Inv'
<1>1. Here' = s
  BY DEF Here, Sound, Stage
<1>2. Sound(Here)'
  BY <1>1 DEF Sound, Granted
<1> QED
  BY <1>2 DEF Inv, Own, Active

\* A step of the loader that ends in the stage s.
LEMMA BecomeKeeps ==
    ASSUME Inv, NEW s, Quiet(Here, s), Become(s), UNCHANGED <<version, user, context>>
    PROVE  Inv' /\ Right
<1>0. s \in Stage /\ Sound(s)
  BY DEF Quiet, Sound
<1>1. sync \in Sync /\ s.sub \in {"idle", "direct", "trailing"}
  BY <1>0 DEF Stage, Inv
<1>2. sync' = [sync EXCEPT !.sub = s.sub]
  BY DEF Become
<1>3. /\ sync' \in Sync /\ sync'.sub = s.sub
      /\ UNCHANGED <<sync.first, sync.rid, sync.on>>
  BY <1>1, <1>2 DEF Sync
<1>4. Here' = s
  BY <1>0, <1>3 DEF Here, Become, Stage
<1>5. Sound(Here)'
  BY <1>0, <1>4 DEF Sound, Granted
<1>6. Own' /\ Ticks'
  BY <1>3 DEF Own, Ticks, Active, Inv
<1>7. Right
  BY <1>4 DEF Quiet, Right, Become, Here
<1> QED
  BY <1>3, <1>5, <1>6, <1>7 DEF Inv

\* A restaurant of a user who has exactly one.
LEMMA OnlyRestaurant ==
    ASSUME NEW u \in Users, Cardinality(Access[u]) = 1
    PROVE  (CHOOSE r \in Access[u] : TRUE) \in Access[u]
<1>1. Access[u] # {}
  BY FS_EmptySet
<1> QED
  BY <1>1

LEMMA ContextSteps ==
    ASSUME Inv, \/ ContextLoad \/ ContextAnswer \/ ContextFails \/ ContextEffect
                \/ \E r \in Restaurants : Select(r)
    PROVE  Inv' /\ Right
<1>1. context \in Context /\ user \in Users /\ Own
  BY DEF Inv
<1>2. UNCHANGED <<version, user, screen>>
  BY DEF ContextLoad, ContextAnswer, ContextFails, ContextEffect, Select, bounds
<1>3. FreshContext(user) \in Context
  BY <1>1 DEF FreshContext, Context
<1>4. context' \in Context /\ Own'
  <2>1. CASE ContextLoad
    <3> DEFINE seen == IF context.observed = user THEN context ELSE FreshContext(user)
    <3>1. seen \in Context /\ seen.observed = user
          /\ seen.active \in Access[user] \cup {None}
      BY <1>1, <1>3 DEF Own, Active, FreshContext, Context
    <3>2. context' = [seen EXCEPT !.asked = TRUE, !.for = user, !.failed = FALSE]
      BY <2>1 DEF ContextLoad
    <3> HIDE DEF seen
    <3>3. context' \in Context /\ context'.observed = user /\ context'.for = user
          /\ context'.active = seen.active
      BY <1>1, <3>1, <3>2 DEF Context
    <3> QED
      BY <3>1, <3>3 DEF Own, Active
  <2>2. CASE ContextAnswer
    <3>1. CASE ContextCurrent
      <4> DEFINE a == IF Cardinality(Access[context.for]) = 1
                      THEN CHOOSE r \in Access[context.for] : TRUE ELSE None
      <4>1. context' = [context EXCEPT !.asked = FALSE, !.for = None, !.done = TRUE,
                                       !.active = a]
        BY <2>2, <3>1 DEF ContextAnswer
      <4>2. context.for \in Users /\ context.for = context.observed
        BY <1>1, <2>2, FloorLoaderAssumption DEF ContextAnswer, Own, Context
      <4>3. a \in Access[context.observed] \cup {None}
        BY <4>2, OnlyRestaurant
      <4>4. a \in Restaurants \cup {None}
        BY <4>2, <4>3, FloorLoaderAssumption
      <4> HIDE DEF a
      <4>5. context' \in Context /\ context'.observed = context.observed
            /\ context'.for = None /\ context'.active = a
        BY <1>1, <4>1, <4>4 DEF Context
      <4> QED
        BY <4>3, <4>5 DEF Own, Active
    <3>2. CASE ~ContextCurrent
      <4>1. context' = [context EXCEPT !.for = None]
        BY <2>2, <3>2 DEF ContextAnswer
      <4> QED
        BY <1>1, <4>1 DEF Own, Active, Context
    <3> QED
      BY <3>1, <3>2
  <2>3. CASE ContextFails
    <3>1. \/ context' = [context EXCEPT !.asked = FALSE, !.for = None, !.failed = TRUE]
          \/ context' = [context EXCEPT !.for = None]
      BY <2>3 DEF ContextFails
    <3> QED
      BY <1>1, <3>1 DEF Own, Active, Context
  <2>4. CASE ContextEffect
    <3>1. context' = FreshContext(user)
      BY <2>4 DEF ContextEffect
    <3> QED
      BY <1>3, <3>1 DEF Own, Active, FreshContext
  <2>5. CASE \E r \in Restaurants : Select(r)
    <3>1. PICK r \in Restaurants : Select(r)
      BY <2>5
    <3>2. context' = [context EXCEPT !.active = r] /\ r \in Access[context.observed]
      BY <3>1 DEF Select
    <3> QED
      BY <1>1, <3>2 DEF Own, Active, Context
  <2> QED
    BY <2>1, <2>2, <2>3, <2>4, <2>5
<1>5. Sound(Here)' /\ Right
  BY <1>2, ApartKeeps DEF Apart, screen, Inv
<1>6. Ticks'
  BY <1>2 DEF Ticks, screen, Inv
<1> QED
  BY <1>2, <1>4, <1>5, <1>6 DEF screen, Inv

\* Another user signs in when the loader knows the present one: the token of a
\* live request is then of that user.
LEMMA SignInStep ==
    ASSUME Inv, NEW u \in Users, SignIn(u)
    PROVE  Inv' /\ Right
<1>1. Here' = Here /\ Here.loader = loader /\ loader.observed = user /\ user' = u
  BY DEF SignIn, Here, screen
<1>2. \A q : Granted(Here, q) => Granted(Here, q)'
  BY <1>1 DEF Granted
<1>3. Sound(Here)'
  BY <1>1, <1>2 DEF Sound, Inv
<1>4. UNCHANGED <<version, context, sync, store>> /\ user' \in Users
  BY DEF SignIn, screen
<1> QED
  BY <1>3, <1>4 DEF Inv, Own, Ticks, Active, Right

\* The poller is opened, closed, switched, or hears of a change.
LEMMA PollerSteps ==
    ASSUME Inv, Open \/ Close \/ Switch \/ \E r \in Restaurants : Change(r)
    PROVE  Inv' /\ Right
<1>0. sync \in Sync /\ context \in Context
  BY DEF Inv
<1>1. CASE Open
  <2>1. sync' = [sync EXCEPT !.on = TRUE, !.rid = None]
    BY <1>1 DEF Open
  <2>2. ~sync.on
    BY <1>1 DEF Open
  <2>3. /\ sync' \in Sync /\ sync'.sub = sync.sub /\ sync'.first = sync.first
        /\ sync'.rid = None
    BY <1>0, <2>1 DEF Sync
  <2>4. sync.first = FALSE
    BY <1>0, <2>2 DEF Inv, Ticks, Sync
  <2>5. Sound(Here)' /\ Right
    BY <1>1, <2>3, ApartKeeps DEF Open, Apart, Inv
  <2> QED
    BY <1>1, <2>3, <2>4, <2>5 DEF Open, Inv, Own, Ticks, Active
<1>2. CASE Close \/ Switch
  <2> DEFINE d == Dropped(Here)
  <2>1. /\ waiters' = waiters \ {"sync"}
        /\ UNCHANGED <<version, user, context, loader, request, store>>
    BY <1>2 DEF Close, Switch, bounds
  <2>2. sync' \in Sync /\ sync'.sub = "idle" /\  Ticks'
    <3>1. CASE Close
      <4>1. sync' = [sync EXCEPT !.on = FALSE, !.rid = None, !.sub = "idle",
                                 !.first = FALSE, !.heard = FALSE]
        BY <3>1 DEF Close
      <4> QED
        BY <1>0, <4>1 DEF Sync, Ticks
    <3>2. CASE Switch
      <4>1. sync' = [sync EXCEPT !.rid = Active, !.sub = "idle",
                                 !.first = Active # None, !.heard = FALSE]
        BY <3>2 DEF Switch
      <4>2. Active \in Restaurants \cup {None} /\ (Active # None) \in BOOLEAN
        BY <1>0 DEF Active, Context
      <4>3. sync'.rid = Active /\ sync'.first = (Active # None) /\ sync'.on
        BY <1>0, <3>2, <4>1 DEF Sync, Switch
      <4> QED
        BY <1>0, <4>1, <4>2, <4>3 DEF Sync, Ticks
    <3> QED
      BY <1>2, <3>1, <3>2
  <2>3. d = [Here EXCEPT !.waiters = waiters \ {"sync"}, !.sub = "idle"]
    BY DEF Dropped, Here
  <2>4. Here' = d
    BY <2>1, <2>2, <2>3 DEF Here
  <2>5. Sound(d)
    BY DroppedSound DEF Quiet, Inv
  <2>6. Sound(Here)'
    BY <2>1, <2>4, <2>5 DEF Sound, Granted
  <2> QED
    BY <2>1, <2>2, <2>6 DEF Inv, Own, Ticks, Active, Right
<1>3. CASE \E r \in Restaurants : Change(r)
  <2>1. PICK r \in Restaurants : Change(r)
    BY <1>3
  <2>2. version' \in [Restaurants -> Nat]
    BY <2>1 DEF Change, Inv
  <2>3. /\ sync' \in Sync /\ sync'.sub = sync.sub
        /\ UNCHANGED <<sync.first, sync.rid, sync.on>>
    BY <1>0, <2>1 DEF Change, Sync
  <2>4. Sound(Here)' /\ Right
    BY <2>1, <2>3, ApartKeeps DEF Change, Apart, Inv
  <2> QED
    BY <2>1, <2>2, <2>3, <2>4 DEF Change, Inv, Own, Ticks, Active
<1> QED
  BY <1>1, <1>2, <1>3

\* A page loads the floor, or a write that failed asks for it again.
LEMMA PageSteps ==
    ASSUME Inv, Load \/ RefreshElsewhere \/ LoaderEffect
    PROVE  Inv' /\ Right
<1>0. Sound(Here) /\ user \in Users /\ Active \in Restaurants \cup {None}
      /\ Here.store = store
  BY DEF Inv, Context, Active, Here
<1>1. CASE Load
  <2> DEFINE s == Synced(Here)
             n == Requested(s, Active, FALSE)
  <2>1. PICK i \in Slots : TRUE
    BY <1>1 DEF Load, HasSlot
  <2>2. Sound(s) /\ s.store = store
    BY <1>0, SyncedSound
  <2>3. Quiet(s, n)
    BY <1>0, <1>1, <2>1, <2>2, RequestedSound DEF Load
  <2>4. Become(n) /\ UNCHANGED <<version, user, context>>
    BY <1>1 DEF Load
  <2> HIDE DEF s, n
  <2>5. Quiet(Here, n)
    BY <1>0, <2>2, <2>3 DEF Quiet
  <2> QED
    BY <2>4, <2>5, BecomeKeeps
<1>2. CASE RefreshElsewhere
  <2> DEFINE n == Refreshed(Here, Active, "other")
  <2>1. PICK i \in Slots : TRUE
    BY <1>2 DEF RefreshElsewhere, HasSlot
  <2>2. Active # None /\ Become(n) /\ UNCHANGED <<version, user, context>>
    BY <1>2 DEF RefreshElsewhere
  <2>3. Quiet(Here, n)
    BY <1>0, <2>1, <2>2, RefreshedSound
  <2> QED
    BY <2>2, <2>3, BecomeKeeps
<1>3. CASE LoaderEffect
  <2> DEFINE s == Invalidated(Here)
             a == [s EXCEPT !.loader.observed = user]
             n == [s EXCEPT !.loader.observed = user, !.store = Loading]
  <2>1. /\ Sound(s) /\ s.loader.inFlight = None
        /\ \A i \in Slots : s.request[i] = None
    BY <1>0, InvalidatedSound DEF Quiet
  <2>2. Become(n) /\ UNCHANGED <<version, user, context>>
    BY <1>3 DEF LoaderEffect
  <2> HIDE DEF s
  <2>3. Sound(a)
    BY <1>0, <2>1, AdoptedSound
  <2>4. n = [a EXCEPT !.store = Loading]
    BY <2>1 DEF Sound, Stage
  <2>5. Loading \in Store /\ Loading.shown = Nowhere
    BY DEF Loading, Store, Nowhere, Shown
  <2> HIDE DEF a, n
  <2>6. Sound(n) /\ n.store = Loading
    BY <2>3, <2>4, <2>5, StoreSound
  <2>7. Quiet(Here, n)
    BY <2>5, <2>6 DEF Quiet
  <2> QED
    BY <2>2, <2>7, BecomeKeeps
<1> QED
  BY <1>1, <1>2, <1>3

\* The poller refreshes.
LEMMA RefreshSteps ==
    ASSUME Inv, FirstTick \/ Tick \/ Invalidation
    PROVE  Inv' /\ Right
<1>0. Sound(Here) /\ user \in Users /\ sync \in Sync /\ Here.store = store
  BY DEF Inv, Here
<1>1. PICK first \in BOOLEAN, heard \in BOOLEAN :
         Refresh(first, heard) /\ (first => sync.first)
  BY <1>0 DEF FirstTick, Tick, Invalidation, Sync
<1>2. sync.rid \in Restaurants
  BY <1>0 DEF FirstTick, Tick, Invalidation, Sync, Inv, Ticks
<1> DEFINE d == Dropped(Here)
           s == Refreshed(d, sync.rid, "sync")
<1>3. PICK i \in Slots : TRUE
  BY <1>1 DEF Refresh, HasSlot
<1>4. Quiet(Here, d)
  BY <1>0, DroppedSound
<1>5. Quiet(d, s)
  <2> HIDE DEF d
  <2> QED
    BY <1>0, <1>2, <1>3, <1>4, FloorLoaderAssumption, RefreshedSound DEF Quiet
<1>6. /\ loader' = s.loader /\ request' = s.request /\ store' = s.store
      /\ waiters' = s.waiters
      /\ sync' = [sync EXCEPT !.sub = s.sub, !.first = first, !.heard = heard]
      /\ UNCHANGED <<version, user, context>>
  BY <1>1 DEF Refresh
<1> HIDE DEF d, s
<1>7. Quiet(Here, s)
  BY <1>4, <1>5 DEF Quiet
<1>8. s.sub \in {"idle", "direct", "trailing"}
  BY <1>5 DEF Quiet, Sound, Stage
<1>9. sync' \in Sync /\ sync'.sub = s.sub /\ Ticks'
  <2>1. /\ sync' \in Sync /\ sync'.sub = s.sub /\ sync'.first = first
        /\ UNCHANGED <<sync.rid, sync.on>>
    BY <1>0, <1>6, <1>8 DEF Sync
  <2> QED
    BY <1>1, <2>1 DEF Ticks, Inv
<1>10. Right
  BY <1>6, <1>7, <1>0 DEF Quiet, Right
<1> QED
  BY <1>6, <1>7, <1>9, <1>10, StageKeeps DEF Quiet

\* The backend reads the floor for the user of the token.
LEMMA ReadStep ==
    ASSUME Inv, NEW i \in Slots, Read(i)
    PROVE  Inv' /\ Right
<1>1. /\ Sound(Here) /\ user \in Users /\ version \in [Restaurants -> Nat]
      /\ request \in [Slots -> Request \cup {None}] /\ request[i] \in Request
      /\ i = Flight /\ request[i].user = loader.observed
      /\ request[i].token \in {loader.observed, user}
  BY SoundHere DEF Inv, Read, Sound, Here, Granted, Flight, OneRequest
<1>2. PICK u \in Callers(i) :
         /\ request[i].rid \in Access[u]
         /\ request' = [request EXCEPT ![i].snap = version[request[i].rid],
                                       ![i].token = u]
  BY DEF Read
<1> DEFINE q == [request[i] EXCEPT !.snap = version[request[i].rid], !.token = u]
<1>3. version[request[i].rid] \in Nat /\ u \in Users
  BY <1>1, <1>2 DEF Request, Callers
<1>4. /\ q \in Request /\ q.user = request[i].user /\ q.token = u
      /\ q.rid = request[i].rid
  BY <1>1, <1>3 DEF Request
<1>5. request' = [request EXCEPT ![i] = q]
  BY <1>1, <1>2 DEF Request
<1> DEFINE s == [Here EXCEPT !.request = request']
<1> HIDE DEF q
<1>6. /\ request' \in [Slots -> Request \cup {None}] /\ request'[i] = q
      /\ \A k \in Slots \ {i} : request'[k] = request[k]
  BY <1>1, <1>4, <1>5
<1>7. /\ s \in Stage /\ s.request = request' /\ s.loader = loader
      /\ s.store = store /\ s.waiters = waiters /\ s.sub = sync.sub
  BY <1>1, <1>6 DEF Sound, Stage, Here
<1> HIDE DEF s
<1>8. q # None
  BY <1>4, FloorLoaderAssumption
<1>9. Granted(s, q)
  BY <1>1, <1>2, <1>4, <1>7 DEF Granted, Callers
<1>10. \A k \in Slots : s.request[k] # None =>
           k = s.loader.inFlight /\ Granted(s, s.request[k])
  <2> SUFFICES ASSUME NEW k \in Slots, s.request[k] # None
               PROVE  k = s.loader.inFlight /\ Granted(s, s.request[k])
    OBVIOUS
  <2>1. k = i
    BY <1>1, <1>6, <1>7, SoundHere DEF OneRequest
  <2> QED
    BY <2>1, <1>1, <1>6, <1>7, <1>9 DEF Flight
<1>11. Sound(s)
  BY <1>1, <1>6, <1>7, <1>8, <1>10, SoundHere DEF Sound, WaitersHaveRequest, Flight
<1>12. UNCHANGED <<version, user, context, loader, waiters, store, sync>>
  BY DEF Read
<1> QED
  BY <1>7, <1>11, <1>12, StageKeeps DEF Right, Inv, Ticks

\* A request that ends, after it changed the store to st, with no floor shown
\* or the one of the active restaurant.
LEMMA EndStage ==
    ASSUME Inv, NEW i \in Slots, request[i] # None, NEW st \in Store
    PROVE  LET s == AskAgain([Here EXCEPT !.store = st], i)
           IN  Sound(s) /\ s.store.shown \in {st.shown, Nowhere}
<1> DEFINE h == [Here EXCEPT !.store = st]
<1>1. Sound(Here) /\ user \in Users /\ Here.request = request
  BY DEF Inv, Here
<1>2. Sound(h) /\ h.store = st /\ h.request = request
  BY <1>1, StoreSound
<1> HIDE DEF h
<1>3. Quiet(h, AskAgain(h, i))
  BY <1>1, <1>2, AskAgainSound
<1> QED
  BY <1>2, <1>3 DEF Quiet, h

\* A request that ends in an error, or is refused, shows no other floor.
LEMMA FailureSteps ==
    ASSUME Inv, NEW i \in Slots, Refused(i) \/ Fails(i)
    PROVE  Inv' /\ Right
<1>0. /\ Sound(Here) /\ request[i] # None /\ store \in Store
      /\ Here \in Stage /\ Here.store = store
      /\ UNCHANGED <<version, user, context>>
  BY SoundHere DEF Inv, Sound, Refused, Fails, Here, bounds
<1>1. \E st \in Store : /\ st.shown \in {store.shown, Nowhere}
                        /\ Become(AskAgain([Here EXCEPT !.store = st], i))
  <2>1. CASE Become(Failed(i))
    <3>1. CASE Current(i) /\ ~request[i].trailing /\ ~request[i].preserve
      <4> DEFINE st == [store EXCEPT !.status = "error"]
      <4>1. st \in Store /\ st.shown = store.shown
        BY <1>0 DEF Store
      <4>2. [Here EXCEPT !.store.status = "error"] = [Here EXCEPT !.store = st]
        BY <1>0
      <4> QED
        BY <2>1, <3>1, <4>1, <4>2 DEF Failed
    <3>2. CASE ~(Current(i) /\ ~request[i].trailing /\ ~request[i].preserve)
      <4>1. Here = [Here EXCEPT !.store = store]
        BY <1>0 DEF Stage
      <4>2. Become(AskAgain(Here, i))
        BY <2>1, <3>2 DEF Failed
      <4> QED
        BY <1>0, <4>1, <4>2
    <3> QED
      BY <3>1, <3>2
  <2>2. CASE Become(AskAgain([Here EXCEPT !.store =
                                [status |-> "loaded", shown |-> Nowhere]], i))
    <3> DEFINE st == [status |-> "loaded", shown |-> Nowhere]
    <3>1. st \in Store /\ st.shown = Nowhere
      BY DEF Store, Shown, Nowhere
    <3> QED
      BY <2>2, <3>1
  <2> QED
    BY <2>1, <2>2 DEF Refused, Fails
<1>2. PICK st \in Store : /\ st.shown \in {store.shown, Nowhere}
                          /\ Become(AskAgain([Here EXCEPT !.store = st], i))
  BY <1>1
<1> DEFINE s == AskAgain([Here EXCEPT !.store = st], i)
<1>3. Sound(s) /\ s.store.shown \in {st.shown, Nowhere}
  BY <1>0, EndStage
<1> HIDE DEF s
<1>4. Quiet(Here, s)
  BY <1>0, <1>2, <1>3 DEF Quiet
<1> QED
  BY <1>0, <1>2, <1>4, BecomeKeeps DEF s

\* The floor arrives.  It is shown only when the request is current: its user
\* is that of the session and of its token, who may see the restaurant.
LEMMA AnswerStep ==
    ASSUME Inv, NEW i \in Slots, Answer(i)
    PROVE  Inv' /\ Right
<1> DEFINE r == request[i].rid
           n == request[i].snap
           kept == Current(i) /\ ~request[i].trailing
           st == IF kept THEN Loaded(r, n) ELSE store
           s == IF kept THEN [Here EXCEPT !.store = Loaded(r, n)] ELSE Here
           t == AskAgain(s, i)
           orders == IF kept /\ sync.sub = "direct" /\ r = Active
                     THEN [rid |-> r, version |-> n] ELSE sync.orders
<1>0. /\ Sound(Here) /\ Here \in Stage /\ Here.store = store /\ store \in Store
      /\ request \in [Slots -> Request \cup {None}]
      /\ sync \in Sync /\ sync.orders \in Shown
      /\ request[i] # None /\ n # None
      /\ UNCHANGED <<version, user, context>>
  BY SoundHere DEF Inv, Sound, Answer, Here, Sync
<1>1. request[i] \in Request /\ Granted(Here, request[i])
  BY <1>0 DEF Sound, Here
<1>2. r \in Restaurants /\ n \in Nat
  BY <1>0, <1>1 DEF Request
<1>3. [rid |-> r, version |-> n] \in Shown /\ Loaded(r, n) \in Store
      /\ Loaded(r, n).shown.rid = r
  BY <1>2 DEF Loaded, Store, Shown
<1>4. st \in Store /\ s = [Here EXCEPT !.store = st]
  <2>1. Here = [Here EXCEPT !.store = store]
    BY <1>0 DEF Stage
  <2> QED
    BY <1>0, <1>3, <2>1
<1>5. /\ loader' = t.loader /\ request' = t.request
      /\ store' = t.store /\ waiters' = t.waiters
      /\ sync' = [sync EXCEPT !.sub = t.sub, !.orders = orders]
  BY DEF Answer
<1>6. orders \in Shown
  BY <1>0, <1>3
<1>7. kept => r = Active /\ r \in Access[user]
  <2> SUFFICES ASSUME kept PROVE r = Active /\ r \in Access[user]
    OBVIOUS
  <2>1. request[i].user = user /\ r = Active
    BY DEF Current
  <2>2. request[i].token = user
    BY <1>1, <2>1 DEF Granted, Here
  <2> QED
    BY <1>0, <1>1, <2>1, <2>2 DEF Granted
<1>8. kept => st.shown.rid = r
  BY <1>3
<1>9. ~kept => st = store
  OBVIOUS
<1> HIDE DEF kept, st, orders, s
<1>10. Sound(t) /\ t.store.shown \in {st.shown, Nowhere}
  BY <1>0, <1>4, EndStage
<1> HIDE DEF t, r
<1>11. t.sub \in {"idle", "direct", "trailing"}
  BY <1>10 DEF Sound, Stage
<1>12. sync' \in Sync /\ sync'.sub = t.sub
       /\ UNCHANGED <<sync.first, sync.rid, sync.on>>
  BY <1>0, <1>5, <1>6, <1>11 DEF Sync
<1>13. Ticks'
  BY <1>12 DEF Ticks, Inv
<1>14. Right
  BY <1>5, <1>7, <1>8, <1>9, <1>10 DEF Right
<1> QED
  BY <1>0, <1>5, <1>10, <1>12, <1>13, <1>14, StageKeeps

-----------------------------------------------------------------------------
(* The theorems                                                            *)

\* A terminal starts with nothing alive and no restaurant.
LEMMA InvInit == Init => Inv
<1> SUFFICES ASSUME Init PROVE Inv
  OBVIOUS
<1>1. /\ user \in Users /\ version \in [Restaurants -> Nat]
      /\ context \in Context /\ sync \in Sync /\ Own /\ Ticks
  BY DEF Init, Context, FreshContext, Sync, Shown, Nowhere, Own, Active, Ticks
<1>2. Here \in Stage
  BY DEF Init, Here, Stage, Loader, Store, Loading, Shown, Nowhere
<1>3. Sound(Here)
  BY <1>2 DEF Init, Sound, Here
<1> QED
  BY <1>1, <1>3 DEF Inv

\* Every step keeps the invariant and shows no floor but the right one.
LEMMA InvNext == Inv /\ [Next]_vars => Inv' /\ Right
<1> SUFFICES ASSUME Inv, [Next]_vars PROVE Inv' /\ Right
  OBVIOUS
<1>1. CASE UNCHANGED vars
  <2>1. UNCHANGED <<version, user, context, loader, request, waiters, store, sync>>
    BY <1>1 DEF vars, screen
  <2>2. Sound(Here)' /\ Right
    BY <2>1, ApartKeeps DEF Apart, Inv
  <2> QED
    BY <2>1, <2>2 DEF Inv, Own, Ticks, Active
<1>2. CASE \/ ContextLoad \/ ContextAnswer \/ ContextFails \/ ContextEffect
           \/ \E r \in Restaurants : Select(r)
  BY <1>2, ContextSteps
<1>3. CASE \E u \in Users : SignIn(u)
  BY <1>3, SignInStep
<1>4. CASE Open \/ Close \/ Switch \/ \E r \in Restaurants : Change(r)
  BY <1>4, PollerSteps
<1>5. CASE Load \/ RefreshElsewhere \/ LoaderEffect
  BY <1>5, PageSteps
<1>6. CASE FirstTick \/ Tick \/ Invalidation
  BY <1>6, RefreshSteps
<1>7. CASE \E i \in Slots : Read(i)
  BY <1>7, ReadStep
<1>8. CASE \E i \in Slots : Refused(i) \/ Fails(i)
  BY <1>8, FailureSteps
<1>9. CASE \E i \in Slots : Answer(i)
  BY <1>9, AnswerStep
<1> QED
  BY <1>1, <1>2, <1>3, <1>4, <1>5, <1>6, <1>7, <1>8, <1>9 DEF Next

\* However loads, refreshes, trailing requests, changes of restaurant and of
\* user interleave: one request at most is alive and it is the loader's, whoever
\* waits waits for it, and the active restaurant is one of the user's.
THEOREM LoaderConsistentHolds == Spec => []LoaderConsistent
<1>1. Inv /\ [Next]_vars => Inv'
  BY InvNext
<1> QED
  BY InvInit, <1>1, InvConsistent, PTL DEF Spec

\* A floor appears on the screen only when it is the one of the active
\* restaurant and the user of the session may see it.
THEOREM RightFloorHolds == Spec => RightFloor
<1>1. Inv /\ [Next]_vars => Inv'
  BY InvNext
<1>2. Inv /\ [Next]_vars
        => [store'.shown \notin {store.shown, Nowhere}
              => store'.shown.rid = Active /\ Active \in Access[user]]_vars
  BY InvNext DEF Right
<1> QED
  BY InvInit, <1>1, <1>2, PTL DEF Spec, RightFloor

=============================================================================
