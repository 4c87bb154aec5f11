# MesaFlow POS in TLA+

A verification project for the MesaFlow point of sale: a NestJS backend on
PostgreSQL (`src/backend`), an Angular front end for the restaurant staff
(`src/frontend`) and an Android client for guests (`src/mobile`).  The modules
here model the parts where several requests, terminals or sockets meet, TLC
checks them on small instances and TLAPS proves what matters most for every
instance.

## 1. Inventory

| Component | State | Operations | What is hard | What makes it correct |
|---|---|---|---|---|
| Orders, lines, payments (`backend/src/restaurants`, order repository and use cases) | rows of `orders`, `order_lines`, `payments` | open, add / update / delete / cancel a line, send to the kitchen, kitchen moves, serve, charge, pay, free the table | every request is several SQL statements under READ COMMITTED; several terminals and the kitchen board write the same rows; errors and lost connections roll back half-way | one active order per table, totals that match the lines, no overpayment, lines frozen by the first payment, paid orders final |
| Reservations (same module) | rows of `reservations`, `reservation_tables` | create (availability, service window, deposit, insert), status changes | check then act without a constraint; a charge before the insert; times that wrap past midnight | no two overlapping bookings of a table, no deposit without a reservation, final statuses stay final |
| Time tracking (`backend/src/time-tracking`) | time entries and change requests | clock in, clock out, request a change, review it | checks outside the transaction that writes; an approval that writes values it read | one open entry per worker, a decision is made once, no clock-out is lost |
| Sessions (`backend/src/identity`, front-end interceptor) | one row per session with the hash of its refresh token | log in, refresh, log out, disable a user | read-modify-write of a whole row; parallel refreshes and lost answers of one client | a client that follows the protocol stays signed in |
| Realtime (`backend/src/realtime`, `frontend/.../core/realtime`) | sockets, their rooms, the room the client believes it joined | connect, authenticate, join, publish, disconnect, reconnect | asynchronous handlers on one socket, reconnections | a connected terminal hears of the changes of its restaurant, and only of its own |
| POS order writing (`frontend/.../state/order-write.service.ts`, `order-sync.service.ts`, stores) | optimistic lines, pending quantities, timers, requests in flight, waiters | tap a product, debounce, send, confirm, retry, refresh | answers out of order, taps while a request is in flight, errors, a change of table | the terminal converges to the server; whoever waits for idle is told |
| Floor loading (`frontend/.../restaurant-floor-loader.service.ts`) | request in flight, trailing flag | load, invalidate, switch restaurant | coalesced refreshes, results of an old context | the last invalidation is followed by a load of the current restaurant |
| Users, roles, menu administration, layout, service windows, customers, analytics | rows of one aggregate each | single-row create / update / delete | little: single statements, last write wins | - |
| Observability, audit, retention, health, demo data | append-only logs, fallback data | log, prune, probe | errors are swallowed on purpose | - |
| Mobile client (`src/mobile`) | cookie jar, stored session, cart | refresh after a 401, restart; fill the cart, submit it, pay, reserve | the process ends between a refresh and what it should have stored | a phone that restarts stays signed in |

How they interact: a controller runs one use case, records an audit event,
publishes `order:invalidated` to the room of the restaurant and answers; a
terminal that receives the event reloads the floor or the order.  No component
shares memory with another: the database rows are the only shared state of the
backend, and the front end only sees them through requests.

## 2. Plan

Written, in this order: `OrderLedger` (what the order service promises),
`OrderRequests` (how its requests keep it), `Reservations`, `TimeTracking`,
`Realtime` (client and gateway composed), `FloorLoader` (context, loader and
poller composed), `OrderWrite` and `TableService` (the two writers of the
terminal), `AuthSessions` (backend, browser tabs and phone composed), and the
proofs of all of them.

Left, in this order:

1. `TableService` over the statements of `OrderRequests` instead of requests
   served in one step.
2. The floor editor, whose new elements take position max + 1.
3. The cart of the phone, once it retries: today it is one call after another
   for one user.

## 3. Modules

### OrderLedger

The promise, without lines, statements or requests: one account per order with
its table, status, total and payments.  `Open`, `Reprice`, `Charge`, `Pay` and
`Free` are the operations a guest could observe.  What follows from them
(`PaidInFull`) the orders inherit as `AccountsBalance`.

### OrderRequests

State: `order`, `line` and `paid` are the committed rows; `req` holds the
requests in flight.  A request is the use case and the repository method it
calls; `req[r].pc` names the SQL statement it runs next, `req[r].write` its
uncommitted line rows, and the other fields what it remembers from earlier reads.

| Code | Actions |
|---|---|
| `OpenRestaurantOrderUseCase`, `open` | `OpenCheck`, `OpenCount`, `OpenInsert`, `OpenConflict` |
| `addLine` | `AddCheck`, `AddInsert`, `ReadLines`, `WriteTotals` |
| `updatePendingLine`, `deletePendingLine`, `cancelLine` | `EditCheck`, `EditPayments`, `EditWrite`, `ReadLines`, `WriteTotals` |
| `updateLineStatus` | `MoveCheck`, `MoveWrite` |
| send to kitchen, mark served (use case, then repository) | `SendCheck` / `ServeCheck`, `FindActive`, `SendWrite` / `ServeWrite` |
| `chargeServicePoint` | `ChargeCheck`, `ChargeFind`, `ChargeWrite` |
| `registerPayment` | `PayCheck`, `PayInsert`, `PayPrepare`, `PaySettle` |
| `clearActiveByTable` | `Free` |
| any error, rollback, time-out or lost connection | `Abort` |

PostgreSQL is modelled by what READ COMMITTED gives: `Seen` (committed rows
plus the transaction's own), `Locked` (row locks of uncommitted writes),
`HoldsOrder` (key-share locks of foreign keys), `Duplicate` (the partial unique
index `orders_one_active_per_table`).

Abstractions, and why they are harmless:

- A statement takes the locks it needs in one step.  The deadlocks this hides
  (freeing a table against a line edit) end in an aborted transaction, which is
  `Abort` here.
- The discount is zero: no code writes another value.  The tax is a second sum
  over the same lines and is left out.
- Catalog, modifiers, combos and notes determine only the subtotal of a line;
  `AddCheck` takes any subtotal from 0 (products may cost nothing) to `MaxCents`,
  an update any new one, or none.
- `findFirst` with relations is one read.  `updateLineStatus` is preceded by a
  read in the use case whose answer is checked again inside the transaction.
- All orders are of one restaurant and one day.
- The demo fallback, which answers without a database, is left out.

`OneTerminal` tells whether the requests of a table come from one terminal that
waits for each answer (the kitchen board excepted) or from any number of them.
One terminal per table is the smaller promise: the POS client queues the
mutations of lines of a table, and its direct synchronisation is one chain of
requests.  A terminal that uses both at once (simple products next to
configured ones), or that serves several ready lines of a table together
(`autoServeStaleKitchenLines`), already has two requests in flight, and so has
a table with two terminals: that is `OneTerminal = FALSE`.

With any number of requests the code does not keep what it checks: a request
that was past its check when the first payment, the paid status or the end of a
line was committed still writes.  `Editors`, `Payers` and `Workers` are the
requests past each of these checks, and `FrozenSettles`, `PaidSettles` and
`FinishedSettles` say what is left: nobody joins them afterwards, only they may
still write, and without them the order or the line stays as it is.

### Reservations

State: `reservation` holds the rows with their tables, `req` the requests in
flight, `unused` remembers that a deposit was charged for nothing and `known`
which reservations have held their tables since before a request came in.  No
request here runs in a transaction of several statements, so every step commits.

| Code | Actions |
|---|---|
| `CreateRestaurantReservationUseCase.execute` | `Create`, `CheckTable` (one per table), `CheckWindow`, `Charge` |
| `createReservation` | `FindTables`, `RejectTables`, `Insert` |
| `updateReservationStatus` | `MoveCheck`, `MoveWrite` |
| a check that fails, a declined deposit, an error of the database | `Abort` |

Time is a number of slots; `Day` of them are 24 hours.  Times of day (`toHHMM`)
are slots modulo `Day`, which keeps what the comparison of `HH:MM` strings
does.  One service window stands for several (`some` accepts if one does); no
window at all is the window `0 .. Day - 1`.  Capacity, names, the party size
and the amount of the deposit only decide whether a request is turned down.
The payment gateway is outside: it approves in `Charge` or declines in `Abort`.
`Failures` tells whether the database may fail after the deposit is charged.

### TimeTracking

State: `entry` and `change` are the rows, `call` the calls in flight.

| Code | Actions |
|---|---|
| `ClockInUseCase`, `createTimeEntry` | `ClockIn`, `Insert` (with the partial unique index) |
| `ClockOutUseCase`, `closeTimeEntry` | `ClockOut`, `Close` |
| `CreateTimeEntryChangeRequestUseCase`, `createTimeEntryChangeRequest` | `Ask`, `InsertChange` |
| `ReviewTimeEntryChangeRequestUseCase`, the review transaction | `Review`, `Decide`, `Correct` |
| an error, a rollback | `Abort` |

The first statement of an approval updates the change request and its `include`
reads the entry, so `Decide` keeps what it saw in the call; the row of the
change request is locked from `Decide` to `Correct`, the entry is not.

### Realtime

State: `session`, `active` belong to the user, `service` and `link` to the
terminal (`RealtimeService`, the Socket.IO client), `sent` is the wire, `conn`
and `joins` the gateway; `grant` and `usable` are what an administrator decides.

| Code | Actions |
|---|---|
| sign-in, sign-out, refresh, restaurant selector | `SignIn`, `SignOut`, `RefreshToken`, `Select` |
| the effect of `RealtimeService` | `Effect` (`Follow`, `Teardown`) |
| `handleConnection` | `Authenticate`, `Reject` |
| `expiryTimer`, `sessionCheckInterval`, `handleDisconnect` | `Expire`, `Revalidate`, `Closed` |
| `handleJoinRestaurant`, cut at its awaits | `JoinArrives`, `JoinAllowed`, `JoinRefused`, `JoinRoom`, `JoinRemembered` |
| Socket.IO (external) | `Connect`, `Ends`, `Break`, `Shut` |

The scopes of a token are restaurants and organizations (`Scopes`).  A restaurant
that is not named itself is looked up in the database, which may throw
(`LookupFails`); the join then ends as if it were refused.  `Reject` stands for
every way `handleConnection` closes a socket: a session that is not valid, a
token that has expired, a read that throws.  `MCRealtime` gives the scopes.  An
administrator only adds to them: a socket keeps the scopes of its handshake,
which section 5 notes.  A revalidation that throws inside `setInterval` is an
unhandled rejection, which ends the process unless a handler is installed; that
is not modelled.

A connection is used once: a new one is another member of `Conns`.  What reaches
a room is not in this module; a terminal that receives an event is
`FloorLoader`'s `Change` with the poller listening.

### FloorLoader

State: `context` (`RestaurantContextStore`), `loader`, `request`, `waiters`
(`RestaurantFloorLoader`), `store` (the floor shown), `sync`
(`OrderSyncService`), and in the backend a `version` of each floor.

| Code | Actions |
|---|---|
| `RestaurantContextStore.load`, its answers, `setActiveRestaurantId`, its effect | `ContextLoad`, `ContextAnswer`, `ContextFails`, `Select`, `ContextEffect` |
| `load`, `refresh`, `reset`, the effect of the loader | `Load`, `RefreshElsewhere`, `LoaderEffect` |
| the shared request, its trailing refresh | `Read`, `Answer`, `Refused`, `Fails` (`Requested`, `Cancelled`, `AskAgain`) |
| `OrderSyncService`: switchMap, 30 s timer, invalidations | `Open`, `Close`, `Switch`, `FirstTick`, `Tick`, `Invalidation` |

`Slots` are more than the one request the loader wants, so that a second live
request is a state the model can reach and `LoaderConsistent` can refuse.  A
request carries the token of the session that sent it; when that has expired,
`auth.interceptor.ts:30-42` sends it again with the token of the session of that
moment, so the backend answers either of the two (`Callers`).  `SignIn` waits
until the effects of the context and of the loader have seen the last user:
Angular runs them before the next sign-in can be answered.  Without that guard a
third user may get a floor the second one asked for.  A tick of the poller does
not wait for the request before: `switchMap` drops the answer of a request that
takes longer than 30 s.  An answer for another restaurant than the one asked for
is an error like any other (`Fails`).

### OrderWrite

State: `pending`, `timer`, `sync`, `retry`, `flush` are the maps of
`OrderWriteService` for one table; `view` is what the terminal shows, `server`
the order in the backend, `poll` and `recover` answers on their way, `here`
whether a restaurant is active, and `misfits` the products whose lines the
backend keeps at another course or price than the terminal knows.

| Code | Actions |
|---|---|
| `addProduct`, `increase...`, `decrease...`, `removeDirectProduct`, `queueDirectGroupSync` | `Tap` |
| the timer of 350 ms, `flushPendingDirectProducts$`, `startDirectSync` | `TimerFires`, `Flush` |
| `syncDirectProductDifferences`, `executeDirectSyncOperations` | `Read`, `Build`, `OpenOrder`, `Write` |
| `clearSatisfiedDirectSyncs`, `finishDirectSync`, `notifyDirectSyncIdle` | `Confirm` |
| `handleDirectSyncError` | `Fault`, `Write` of a line that is gone, `RecoverRead`, `RecoverAnswer` |
| `OrderSyncService`, `hydrateRemoteOrder` | `PollRead`, `PollAnswer` |
| the end of the session | `Leave` |
| another terminal (external) | `OtherTerminal` |

`matchesBackendDirectGroup` compares product, configuration, course and price:
a line of `misfits` is stored and belongs to no group, so its pending quantity is
never satisfied and each chain adds the product again.  `Flush` may come while
others wait, or a second time, and starts a chain whenever none is in flight
(`MaxLines` bounds what that can add, `MaxReads` the reads that overlapping
errors leave in flight).  After `Leave`, timers and chains go on without a
restaurant: `startDirectSync` and `handleDirectSyncError` return early.  A new
session on the same page, and a menu that is loaded again in the middle of a
chain, are not modelled.

One table is enough because the maps are keyed by table and no step reads two
keys.  Local lines only count through their sum per group (`Qty`, the number of
units of its lines).  The operations of a chain run in any order, which includes
the order of the code.  A request whose answer is lost has taken effect or not by
the time the error is handled.

### TableService

State: `row` and `order` in the backend; `view`, `queue`, `running`, `dirty`,
`read`, `selected` and `flow` on the terminal; `home`, `late`, `mixed` are
history.  A line is displayed as `local` until the backend has named it.

| Code | Actions |
|---|---|
| `addCustomizedProduct`, `addCombo`, `removeProduct`, `increaseConfiguredLine` ... | `Add`, `Remove`, `Update` |
| `enqueueLineMutation`, `drainLineMutations` | `Enqueue`, `Drain` (in `Answer`) |
| the requests of a mutation | `ServeAdd`, `ServeEdit`, `Answer`, `Lose` |
| reads of orders: selection, refresh of a queue, poll | `Select`, `Poll`, `Arrive`, `Drop` |
| `flushPendingOrderWrites$`, a `forkJoin` of two halves | `waits`, `DirectSynced` (the direct synchronisation), `NotifyIdle` (the queue) |
| `sendToKitchen`, `confirmChargeKitchenConfirm`, `chargeSelectedServicePoint` | `Press`, `ServeSend`, `AnswerSend`, `ServePayment`, `AnswerPayment`, `LoseFlow`, `AnswerFailure` |

Lines cost 1, an update has its requests and no effect, opening an order and
adding its first line is one step, payments by card are left out, polls come one
at a time, and charging without an order or an amount only empties the display.
Of the direct synchronisation only its half of the `forkJoin` is here: it may
have work when a button is pressed, and then tells the waiter, fails, or does
neither (`OrderWrite` shows when).  Ids of lines that are still local are sent to
the kitchen too, where they name nothing (`Sendable`).  Any number of reads up to
`MaxReads` of one kind may be in flight for a table.  Taking the last unit of a
configured line away deletes it also when it was sent (`decreaseConfiguredLine`),
removing it cancels it (`removeProduct`).

### AuthSessions

State: `session` is the row of `auth_sessions` with its token as a generation,
`enabled` and `admin` the user and the disabling in progress; `tab`, `browser`
and `phone` are the clients, `call` the refreshes and logouts in flight.

| Code | Actions |
|---|---|
| `AuthService.login` | `Login` |
| `AuthService.refresh`: find, check the user, rotate, save | `Read`, `CheckUser`, `Save`, `Revoke` |
| `AuthService.logout` behind `AuthGuard` | `Logout`, `LogoutSave`, `Out` |
| `auth.interceptor.ts` | `Unauthorized`, `Answer`, `Refused`, `AgainSucceeds`, `AgainFails` |
| `refreshIdentitySessionOnStartup` | `Open`, `OpenEmpty` |
| `TokenAuthenticator`, `AuthRepository`, `SessionCookieJar` (phone) | `PhoneUnauthorized`, `PhoneAgain`, `Restart` |
| `SetUserEnabledUseCase` | `Disable`, `DisableAll`, `Enable` |
| `AuthGuard`: what it read, then `disableAllForUser` | `GuardFinds`, `GuardDisables` |
| lost requests or answers, tabs closed | `Lose`, `Close` |

One session stands for all, since no step but the disabling of a user touches
two; requests of the user's other sessions still pass the guard, so `GuardFinds`
needs no tab of this one.  The guard acts on what it read: a user who is enabled
again in between loses the session (`"guard"` in `cause`).  The row's own expiry
is left out, and a lost request is handled as the client handles it: as a
failure.  Disabling one session by hand is one write, like the first statement
of `Disable`.  `cause` records events the code does not handle, so that each
property can say precisely when it holds.

Before some definitions stands a wrong form of them (`PersistedAsIs`, `NoIndex`,
`RetriesAlways`, `ForgetsWaiters`, ...).  No action uses it; it documents the
slip each property would reveal.

## 4. Runs

Ten runs pass.  Two are violations that the code commits and a document of the
repository rules out.  Ids are interchangeable and reduced by symmetry where no
liveness is checked and no `CHOOSE` picks one.

| Run | Instance | States | Shows |
|---|---|---|---|
| `OrderConcurrent` | 1 table, 2 orders, 1 line, 2 requests of any kind, up to 2 cents | 935,721 | index, foreign keys and locks keep the rows consistent in every interleaving of two requests; after a payment, the end of an order or of a line, only what was in flight still writes |
| `OrderSequential` | 2 tables, 2 orders, 2 lines, 1 request, up to 2 cents | 676,148 | totals and payments are right when requests do not overlap, with an error possible at every statement |
| `OrderOneTerminal` | 1 table, 2 orders, 2 lines, 2 requests, up to 1 cent | 338,297 | with one terminal per table and the kitchen board at work, the orders implement `OrderLedger` and are paid exactly when covered |
| `ReservationConcurrent` | 1 table, 2 reservations, 2 requests, 2 slots a day, starts 0-1, lengths 1-2, any statement may fail | 1,415,862 | a table that was taken before a request came in is refused, final statuses are only left by a change allowed before, a stored reservation has its deposit, only one that was confirmed is seated |
| `TimeTracking` | 2 users (one a manager), 1 restaurant, 2 times, 2 entries, 1 change request, 2 calls | 1,788,719 | one open entry always; an approval and its correction together or not at all; decisions and ends of shifts are only overwritten by calls that had read before |
| `Realtime` | 2 restaurants (one in an organization), 2 sessions, 2 connections, 2 selections | 580,572 | sockets are only in rooms they may be in; revoked ones are closed; a terminal follows its restaurant |
| `FloorLoader` | 2 restaurants, 2 users, 2 slots, 1 change, 1 fault, 1 change of user | 312,034 | one request at a time, only the right floor appears, and in the end the current one |
| `OrderWrite` | 1 product, 1 poll, 2 taps, 1 fault, 1 edit by another terminal, 2 reads after errors, 3 lines | 865,095 | taps that were confirmed are stored, waiters are told, the display settles |
| `TableService` | 2 tables, 2 lines, 2 taps, 1 move, 1 press, 1 fault, 2 reads of a kind | 1,294,025 | no queue gets stuck, no button for want of the queue, lines stray only in two named cases, the display settles |
| `AuthSessions` | 2 tabs and a phone, 2 calls, 2 tokens, 1 fault | 2,765,845 | no false alarm, no silent sign-out, disabled means out |
| `OrderOverpaid` | as `OrderConcurrent` | violation | `NoOverpayment`: two payments in flight are both recorded |
| `ReservationDoubleBooked` | as `ReservationConcurrent`, length 1, no failures | violation | `NoDoubleBooking`: two requests in flight are both inserted |

Why the bounds are enough.  A race of the backend is a check in one request and
a write of one other, so two requests or calls show it; two rows let one be
paid, closed or deleted while the other is made; two tables, restaurants or
users tell apart what depends on them.  Cents go up to `MaxCents` (1 or 2),
enough for a partial and an exact payment.  Two taps are one that is pending and
one that comes during its chain; one fault or edit is placed at every step. Two
generations of a refresh token are one to rotate away and one to replace it, and
every event of `cause` occurs with one fault.  Reservations are no longer than a
day, which is what the search for conflicts looks back; one that starts half a
day before the other overlaps it or ends with it, so both outcomes of the search
occur.  Three lines are the two an order starts with and one more; a second read
in flight is the first that a second answer can overtake.  No id is used up by
accident: a deleted row's id can be taken again once no request remembers it.

`CHECK_DEADLOCK FALSE` stands where the system may stop: every bound is used
up, every order paid, every connection closed.

Fairness.  The backend modules of orders, reservations and working time assume
none and check no liveness: any request may fail at any statement, the client
decides whether to try again, and nothing waits for another request except on a
row lock that its holder always releases.  On the client, weak fairness of

- `OrderWrite`: the timer, the steps of the chain, the read after an error, the
  polls (a timer fires, HTTP requests end in an answer or an error, the poll is
  an endless interval);
- `FloorLoader`: Angular effects, `switchMap`, ticks, invalidations, requests (that
  requests are in the end faster than the 30 s of the poller is not fairness but
  a premise of `FloorSettles`, which drops every answer otherwise);
- `Realtime`: effects, connecting (Socket.IO retries for ever), the handlers and
  timers of the gateway, and delivery on an open connection;
- `TableService`: requests are answered, in any order, and polls go on; nothing of
  the direct synchronisation, so `FlowsEnd` has it as a premise;
- `AuthSessions`: requests are served and answered, a tab that is open polls
  and so meets the guard and the 401, and the second statement of a disabling and
  of a guard runs.

Nobody has to tap, sign in, fail, break a connection or edit from elsewhere.
`DisabledIsOut` is conditional on the user staying disabled, `ViewSettles` on
the table keeping lines, `FloorSettles` and `Follows` on the restaurant staying
selected, `WaitersAreTold` on a session that goes on without another terminal
and with a menu that agrees with the backend's; each condition does happen under
the run's constants.

## 5. Where the code and its documents part

The first two are runs and findings (`OrderOverpaid`, `ReservationDoubleBooked`).
Each other line names the property, and the constants, with which TLC shows it in
seconds to a minute.  Most concern the part of a property that its exception
leaves out: the property says that nothing else goes wrong, the line what does.

| Where | Property and constants | What happens |
|---|---|---|
| orders | `NoOverpayment`, `OrderOverpaid` | two payments in flight each fit the balance and are both recorded |
| reservations | `NoDoubleBooking`, `ReservationDoubleBooked` | two requests find no conflict before either has inserted |
| orders | `SentLineNotEdited`, `OrderSequential` | a line already sent is still `pending` for update and delete |
| orders | `TicketsDiffer`, `OrderSequential` | freeing a table lowers the count the next ticket number comes from |
| orders | `FrozenSettles` without `Editors(o)` | the first payment commits between an edit's check for payments and its write |
| orders | `TotalsMatchLines`, `OrderSequential` with two requests | two edits read the lines without each other's row; the last writer's total misses one |
| orders | `FinishedSettles` without `Workers(l)` | a kitchen move writes over a line cancelled since it was read |
| orders | `PaidSettles` without `Payers(o)` | a charge writes over an order paid since it was found |
| reservations | `NoDoubleBooking`, one request, `MaxStart = 3`, `MaxLength = 4` | a reservation longer than a day is not found by the next one |
| reservations | `FinalSettles` without `Moves(b)` | a status change overwrites a cancellation written since it was checked |
| reservations | `EveryDepositUsed`, `ReservationConcurrent` | unknown table ids are rejected after the deposit is charged |
| reservations | `WithinServiceHours`, `ReservationConcurrent` | the end of a reservation past midnight is compared as a time of the morning |
| working time | `DecisionSettles` without `Reviews(k)` | two reviews of one request both find it pending, the second flips the decision |
| working time | `EndKept` without its last case | a clock-out between the two statements of an approval is overwritten, also with no end at all |
| realtime | `Follows` without `lost` | the terminal is deaf after a join that came before the authentication was done, overlapping joins, a reconnection (the client still believes it joined), a close by the server, a refused join |
| realtime | `RoomRemembered` without `"overlap"` | two joins in flight leave the socket in both rooms; `backend/docs/realtime.md:45` promises that the previous room is left first |
| realtime | `conn[c].state = "closed" => ~conn[c].interval` | a socket that disconnects during its authentication leaves its timers behind |
| order writing | `ViewSettles` without the condition on lines | a removed product reappears: the stale answer of a poll is followed by no other one, since only tables that show lines are read again (`order-sync.service.ts:44`), although the epoch is there to prevent exactly that (`order-write.service.ts:149-155`); the epoch does not cover an answer read after the tap and before the write |
| order writing | `WaitersAreTold` with edits | another terminal changes the line between a write and the final read: nothing is scheduled and nobody is told |
| order writing | `WaitersAreTold` with `misfits` | the backend keeps a product at another course or price (the terminal's menu is older): its pending quantity is never satisfied, so nobody is told, and every further chain adds it again |
| order writing | `WaitersAreTold` without `here` | the session ends with quantities pending: no chain starts any more and nobody is told |
| order writing | `PendingShown` with `pending[g]` alone | the read after an error, at a table without an order, takes the pending products off the screen |
| tables | `FlowsEnd` without its premise | in these cases the direct half of a flush never answers, and the button that waits for it stays disabled until the page is left |
| tables | `\A l \in Lines : row[l].table \in {Nothing, home[l]}` | an add that waited in its queue goes to the order of the table selected when it runs |
| tables | `flow["charge"]` stays with its table | a charge that had to send to the kitchen first charges the table selected afterwards |
| sessions | `FalseAlarm` without `"restart"` | the phone restarts with the cookie of the login although `SessionCookieJar.kt:10-12` says it survives restarts; the refresh is taken for reuse and the session revoked |
| sessions | `FalseAlarm` without `"together"` | two tabs, or the startup and the interceptor, refresh with one cookie: revoked |
| sessions | `FalseAlarm` without `"lost"` | the answer of a refresh is lost: revoked at the next one |
| sessions | `StaysDisabled` without `"together"` | a refresh that read the row before it was disabled saves it enabled |
| sessions | `SignedOutForAReason` without `"guard"` | the guard disables the sessions of a user whom it read as disabled and who has been enabled since |
| sessions | `SignedOutForAReason` without `cause` | any error of the retried request signs the user out (`auth.interceptor.ts:42-47`) |
| sessions | `OneRefreshPerTab` without `"retry"`, 4 calls | that error also releases the flag of another refresh in progress |

Also seen while modelling, with no property: a correction of an open entry that
asks for no end makes it `corrected` without one; a manager may review a
request of their own; nothing compares clock-out with clock-in; the scopes of a
socket are those of its handshake; a poller that leaves takes the answer of the
trailing request it shared with it; invalidations that come faster than answers
are put off for ever.

## 6. Proofs

Eight modules `*_proofs` hold theorems for every value of the constants.  No
theorem restricts how many requests, calls or terminals are at work at a time:
each holds of every interleaving the module allows.  Where the code does not keep
a rule under interleaving, the property itself says who may still break it.

| Condition within the property | Theorems |
|---|---|
| none | types, `OneActiveHolds`, `NoOrphansHolds`, `PaidOrderKeptHolds`, `SeatedWasConfirmedHolds`, `OneOpenEntryHolds`, `ApprovedIsAppliedHolds`, `OwnRoomsHolds`, `LoaderConsistentHolds`, `RightFloorHolds`, `SyncConsistentHolds`, `SessionConsistentHolds` |
| only what was in flight before may still write | `FrozenSettlesHolds`, `PaidSettlesHolds`, `FinishedSettlesHolds`, `FinalSettlesHolds`, `DecisionSettlesHolds`, `EndKeptHolds` |
| what was there before the request came in, up to a day | `TakenIsRefusedHolds` |
| an event that the history names | `RoomsConsistentHolds` (overlapping joins), `QueueConsistentHolds` (`late`, `mixed`), `FalseAlarmHolds`, `StaysDisabledHolds`, `SignedOutForAReasonHolds` (`cause`), `FlushedIsStoredHolds` (another terminal has written) |

They assume the named assumptions of the modules (`OrdersAssumption`,
`ReservationsAssumption`, `TimeTrackingAssumption`, `RealtimeAssumption`,
`AuthSessionsAssumption`, `FloorLoaderAssumption`, `OrderWriteAssumption`,
`TableServiceAssumption`), all evaluated by the runs.

### Orders

`OrderRequests_proofs` proves `TypeCorrect`, `OneActiveHolds`, `NoOrphansHolds`
and `PaidOrderKeptHolds`, the properties of `OrderConcurrent`.  None of them is
inductive alone.  The invariant `Inv` adds:

- `RequestShape`: what a request remembers at each statement (a request about
  to write totals has an order and holds exactly the rows it wrote, a request
  that inserts has a table, ...);
- `LocksHeld`: no two requests hold an uncommitted version of the same row, and
  a row held is a row of the request's own order that no one else deleted,
  because `EditWrite`, `MoveWrite`, `PayPrepare` and `Free` respect `Locked` and
  `HoldsOrder`;
- `RowsBelong`: every line and payment has an existing order, and the line
  about to be committed belongs to the order the request holds.

`FrozenSettlesHolds`, `PaidSettlesHolds` and `FinishedSettlesHolds` follow from
`Inv` step by step, by one argument.  `Onward` says what the one request that a
step moves (`OneRequestMoves`) may do: pass its first check (`Started`), go on to
its next statement (`Continued`), or end.  So a request gets into `Editors`,
`Payers` or `Workers` only by the step that makes the check, whose guard is false
once the payment, the status or the end of the line is committed (`NewEditor`,
`NewPayer`, `NewWorker`); and whatever changes the order or the line is written by
a request of the set, because `LocksHeld` ties a row about to be written to the
request that locked it (`FrozenLine`, `FrozenTotal`, `StagedStill`).  One fact is
inductive of its own, `Prepared`: a payment that closes an order reprices no line
and takes on none that is finished.

### Reservations

`Reservations_proofs` proves `ReservationTypeCorrect` and
`SeatedWasConfirmedHolds` for any number of requests from `Inv`, which adds to
the types what a request knows at each statement: a request that is about to
seat a reservation has seen it confirmed, and no request puts one back to
pending.

`TakenIsRefusedHolds` adds that what is `known` to a request still holds its
tables and that no reservation of `known` overlaps the tables already checked
off: `Insert` adds only reservations that no request in flight knew, `MoveWrite`
takes out of `known` what it releases, and rows never change their tables or
times.  `FinalSettlesHolds` needs only that a request about to move a reservation
has one that exists, and that `canTransitionReservationStatus` lets nothing out
of a final status.

### Time tracking

`TimeTracking_proofs` proves, for any users, entries and calls,
`TimeTrackingTypeCorrect` and `OneOpenEntryHolds` from `Inv`: the types, one
open entry, and that the rows a call in flight has seen are still there (no row
is ever deleted, and an entry keeps its worker and restaurant).
`DecisionSettlesHolds` and `ApprovedIsAppliedHolds` are step properties from
`Inv`: a review joins `Reviews` only at a pending request, and the two writes of
an approval commit together.  `EndKeptHolds` compares what an approval read with
the entry when it writes: as long as they agree, the end it writes is the one it
found or the one that was asked for.

### Realtime

`Realtime_proofs` proves `RoomsConsistentHolds`, for any number of connections,
restaurants and selections, and with it `OwnRoomsHolds`, that tenants do not
leak.  `Inv` adds to the types: `Linked` (what connection the client's socket
has), `Fits` (each join in flight or on the wire stems from a selection, so the
number `Free` chooses exists), and `Sound` (a join past its check is in scope, a
connection with rooms is authenticated, and, without overlap, the rooms of a
connection are those its one join accounts for).

### Floor loading

A handler of the loader is a chain of small ones (`Synced`, `Cancelled`,
`Requested`, `Ended`, `AskAgain`) over the loader, its requests, the store and
the waiters.  `FloorLoader_proofs` states once what every stage of such a chain
keeps (`Sound`: the one live request is the loader's, whoever waits has one, and
a request already answered was granted to its own user or was answered for the
session that replaced it) and what a stage that puts no floor on the screen is
(`Quiet`), and proves it for each small handler; the actions then follow by
composition.  `Own` says that the active restaurant is one of the user's.

`RightFloorHolds` is about users, not only restaurants: an answer that is kept
was read with a token its restaurant was granted to, and `isCurrentRequest` asks
that the request's user is still the session's.  Since a token sent again is that
of the session of that moment, the argument needs that the loader has noticed a
user before the next one signs in, which is the guard of `SignIn`.

### Order writing

`OrderWrite_proofs` proves `SyncConsistentHolds` from `Inv`: types, `Sane` (an
order that is not open has no lines, also in the answers on their way), no timer
beside a chain, work for whoever waits, pending products on the screen.
`FlushedIsStoredHolds` adds `Wanted`, which holds while no other terminal has
written: what was tapped is pending or in the backend, the read a chain works
from is the order as it is, and each operation still to come is for a pending
product and a line that exists.  `Qty` is the number of units of a product's
lines, a cardinality like `TotalOf`.

### Tables

`TableService_proofs` proves `QueueConsistentHolds` from `Inv`, which TLC checked
on the instance of the run before it was proved.  `NothingStranded` is
nearly inductive: `WaitFrame` says once what a step has to leave alone for a
waiter not to be forgotten, and `NotifyWait` that a drain that empties a queue
leaves nobody behind.  `StraysLate` is about an order number that travels: an add
copies it from what is displayed, a read or the answer of a cancellation puts it
there, a payment reads it again.  `Inv` follows it:

- `RowsPlaced`: a line the backend knows was tapped before;
- `QueueShape`: a line waits for one add, at the table it was tapped at, and is
  `late`; other mutations are asked at the table of the line's order;
- `RunningShape`: a request in flight is for its own table, or its line is `late`,
  or its table is `mixed`, and so is the order a cancellation answers with;
- `ReadShape`, `ViewShape`, `FlowShape`: whatever table `t` shows, is about to
  show or pays for is of its own order unless `t` is `mixed` (`Shows`, `Own`).

Two facts carry the steps: rows stay with the order they were added to and
`mixed` only grows (`Grown`), so each part of `Inv` has a frame lemma that the
steps which leave its variables alone cite; and the steps on the queue share
`EnqueueJobs` and `AdvanceJobs`, the only places where a job moves.  `mixed` is
not a convenience: without it the invariant is false, since the answer of a
cancellation is displayed at the table selected when it comes.

### Sessions

`AuthSessions_proofs` proves `SessionConsistentHolds`, `FalseAlarmHolds` and
`StaysDisabledHolds` for any number of tabs, calls, tokens and faults.  `Inv`
adds `Good` and `Shared`: a call in flight belongs to the client that has the
session; as long as nothing overlapped (`Quiet`) there is one call in flight and
the copy it read is the row; as long as nothing got lost either (`Faithful`) the
tokens of cookies and calls are the row's, or an answer that carries it is on
its way.  `SignedOutForAReasonHolds` adds `Blameless`: while nobody ended the
session and nothing of `cause` happened, the user and the row are enabled, every
tab with an access token has a cookie to refresh it with, the phone too, and no
call carries a refusal, a revocation or the answer of a logout; so no step can
take a token away.
A guard that acts late takes the row from a user who is enabled
or from under a call; `GuardDisablesStep` shows that `cause` says so.

### With TLC alone

The money of an order (`TotalsMatchLines`, `NoOverpayment`, `NeverOvercharged`,
`AccountsBalance`, `LedgerImplemented`): the code does not keep any of it when two
edits or two payments of one order meet, so a theorem would have to assume that
they do not, which nothing in the code ensures; the runs show it with one request,
or one terminal, at a table.

Liveness (`WaitersAreTold`, the two `ViewSettles`, `FloorSettles`,
`RevokedLeaves`, `Follows`, `DisabledIsOut`, `FlowsEnd`): fairness and `ENABLED`
are beyond the provers used.

## 7. Not modelled

Section 1 lists every component; `PROJECT.json` gives the reason for each one
left out.  Most of the source is presentation (templates, components,
translations, Compose screens), administration of single rows (menu, users,
layout, customers, service windows), read-only reports, logging, generated or
demo data: no two of its steps interleave on a state that a property could be
about, and a model of it would restate its assignments.  Two fetches with a race
of their own are left out because it is the same one twice: the menu of the
service page (`restaurant-pos-service-page.ts:249-265`) and the entries of the
time page (`restaurant-pos-time-page.ts:338-373`) are shown in the order their
answers arrive, whichever restaurant is active by then.
