----------------------------- MODULE OrderWrite -----------------------------
(***************************************************************************)
(* How a terminal brings the taps on simple products to the backend: the   *)
(* direct synchronisation of OrderWriteService, for one table.             *)
(*                                                                         *)
(* A tap changes the quantity shown at once, notes the quantity wanted and *)
(* arms a timer.  When the timer fires, or something flushes, one chain of *)
(* requests starts: read the order, write the differences, read the order  *)
(* again.  Meanwhile OrderSyncService polls the order, and its answers are *)
(* shown when no tap came after their launch (the epoch of the table).     *)
(*                                                                         *)
(* The order of the backend is the sequence of its lines, oldest first; a  *)
(* line with quantity 0 is gone (deleted or no longer pending).  The local *)
(* lines of a group only count through their sum.  The backend may keep    *)
(* the lines of a group at another course or price than the terminal knows *)
(* (its menu is older): such a line belongs to no group.  A request has    *)
(* either taken effect or not by the time its answer is lost.              *)
(***************************************************************************)
EXTENDS Integers, Sequences, FiniteSets, Functions

CONSTANTS Groups,     \* directGroupKey: product, configuration, course, price
          Polls,      \* slots for polled orders in flight
          MaxTaps,    \* bound on taps
          MaxFaults,  \* bound on failed requests
          MaxEdits,   \* bound on edits of the table by other terminals
          MaxLines,   \* bound on the lines of the order when something flushes
          MaxReads,   \* bound on the reads after errors in flight
          Nothing,    \* no answer in this slot
          Asked       \* a read that has not reached the backend

ASSUME OrderWriteAssumption ==
    /\ {MaxTaps, MaxFaults, MaxEdits, MaxLines, MaxReads} \subseteq Nat
    /\ Nothing \notin Groups /\ Nothing # Asked

VARIABLES server,   \* the order in the backend
          view,     \* quantity the terminal shows for each group
          pending,  \* pendingDirectQuantities: group -> desired quantity
          timer,    \* directSyncTimers: "none", "armed", or "dead" (cleared
                    \* but still in the map)
          sync,     \* the chain of requests, directSyncInFlight
          retry,    \* directSyncRetryRequested
          flush,    \* who waits for idle: "none", "waiting", "done", "failed"
          poll,     \* answers of polled orders on their way
          recover,  \* the reads after errors: Nothing, Asked or their answer
          here,     \* the restaurant of the table is the active one
          misfits,  \* groups of which the backend keeps lines otherwise
          want,     \* history: quantity last tapped (before: the order's)
          taps, faults, edits

vars == <<server, view, pending, timer, sync, retry, flush, poll, recover,
          here, misfits, want, taps, faults, edits>>

\* matchesBackendDirectGroup
Rows(o, g) == {i \in DOMAIN o.rows : o.rows[i].group = g /\ o.rows[i].qty > 0}
\* The quantity of a group, counted unit by unit.
Units(o, g) == UNION {{i} \X (1 .. o.rows[i].qty) : i \in Rows(o, g)}
Qty(o, g) == Cardinality(Units(o, g))
HasLines(o) == \E i \in DOMAIN o.rows : o.rows[i].qty > 0

NoOrder == [open |-> FALSE, rows |-> <<>>]
NoSync == [pc |-> "idle", snap |-> Nothing, ops |-> {}, fresh |-> TRUE]
InFlight == sync.pc # "idle"
Empty == [g \in {} |-> 0]

-----------------------------------------------------------------------------
(* Waiters                                                                 *)

\* hasDirectSyncWork, after the step.
HasWork == \/ pending' # Empty \/ sync'.pc # "idle"
           \/ timer' # "none" \/ retry'

\* notifyDirectSyncIdle
NotifyIdle == flush' = IF ~HasWork /\ flush = "waiting" THEN "done" ELSE flush

\* startDirectSync, with nothing in flight and the timer t in the map.
Startable == here /\ pending' # Empty
StartsOverTimer(t) ==
    /\ sync' = [NoSync EXCEPT !.pc = IF Startable THEN "asked" ELSE @]
    /\ timer' = t
StartDirectSync(t) ==
    /\ sync' = [NoSync EXCEPT !.pc = IF Startable THEN "asked" ELSE @]
    /\ timer' = IF Startable THEN "none" ELSE t

\* flushPendingDirectProducts$: start at once and wait, unless there is nothing
\* to wait for.  All who wait for the table are told together.
Flush ==
    /\ here /\ Len(server.rows) < MaxLines
    /\ UNCHANGED <<server, view, pending, retry, poll, recover, here, misfits,
                   want, taps, faults, edits>>
    /\ IF InFlight THEN UNCHANGED <<sync, timer>> ELSE StartDirectSync(timer)
    /\ flush' = IF HasWork THEN "waiting" ELSE "done"

-----------------------------------------------------------------------------
(* Taps                                                                    *)

\* queueDirectGroupSync after the local quantity of g became n, which also
\* makes every answer asked for before the tap an old one (the epoch).
Queue(g, n) ==
    /\ view' = [view EXCEPT ![g] = n]
    /\ want' = [want EXCEPT ![g] = n]
    /\ pending' = [h \in {g} \cup DOMAIN pending |->
                     IF h = g THEN n ELSE pending[h]]
    /\ poll' = [p \in Polls |-> IF poll[p] = Nothing THEN Nothing
                                ELSE [snap |-> NoOrder, fresh |-> FALSE]]
    /\ sync' = [sync EXCEPT !.fresh = sync.pc \notin {"asked_again", "read_again"}]
    /\ IF InFlight
       THEN /\ retry' = TRUE
            /\ timer' = IF timer = "armed" THEN "dead" ELSE timer
       ELSE /\ timer' = "armed" /\ UNCHANGED retry
    /\ UNCHANGED <<server, flush, recover, here, misfits, faults, edits>>

\* addProduct and increaseDirectProductQuantity, decreaseDirectProductQuantity,
\* removeDirectProduct.
Tap(g) ==
    /\ taps < MaxTaps /\ taps' = taps + 1 /\ here
    /\ \/ Queue(g, view[g] + 1)
       \/ view[g] > 0 /\ Queue(g, view[g] - 1)
       \/ view[g] > 1 /\ Queue(g, 0)

\* The timer of 350 ms.
TimerFires ==
    /\ timer = "armed"
    /\ UNCHANGED <<server, view, pending, retry, poll, recover, here, misfits,
                   want, taps, faults, edits>>
    /\ StartDirectSync("none")
    /\ NotifyIdle

-----------------------------------------------------------------------------
(* Answers                                                                 *)

\* overlayPendingDirectQuantities, and the empty order that stands for none.
Overlay(o) ==
    [g \in Groups |->
        IF o.open /\ g \in DOMAIN pending
        THEN IF view[g] > 0 THEN pending[g] ELSE 0
        ELSE Qty(o, g)]

\* hydrateRemoteOrder: an answer asked for before the last tap is dropped.
Hydrate(o, fresh) == view' = IF fresh THEN Overlay(o) ELSE view

\* clearSatisfiedDirectSyncs
ClearsAll(o) == Empty
Unsatisfied(o) ==
    Restrict(pending, {g \in DOMAIN pending : Qty(o, g) # pending[g]})

\* finishDirectSync
Finish ==
    /\ retry' = FALSE
    /\ IF retry THEN StartDirectSync(timer)
       ELSE sync' = NoSync /\ UNCHANGED timer
    /\ NotifyIdle

\* handleDirectSyncError: waiters fail, the order is read again without an
\* epoch unless the restaurant was left, and nothing else is scheduled.
ReadAgain ==
    IF here
    THEN \E r \in DOMAIN recover :
            /\ recover[r] = Nothing /\ \A q \in 1 .. (r - 1) : recover[q] # Nothing
            /\ recover' = [recover EXCEPT ![r] = Asked]
    ELSE UNCHANGED recover
ForgetsWaiters == sync' = NoSync /\ ReadAgain /\ UNCHANGED flush
HandleError ==
    /\ sync' = NoSync
    /\ ReadAgain
    /\ flush' = IF flush = "waiting" THEN "failed" ELSE flush

-----------------------------------------------------------------------------
(* The chain of requests                                                   *)

\* buildDirectSyncOperations for one group.
GroupOps(o, g, n) ==
    LET rows == Rows(o, g)
        primary == CHOOSE i \in rows : \A j \in rows : i <= j
        removals == {[type |-> "delete", row |-> i, group |-> g, qty |-> 0] :
                       i \in IF n = 0 THEN rows ELSE rows \ {primary}}
    IN  CASE rows = {} /\ n = 0 -> {}
          [] rows = {} /\ n > 0 ->
               {[type |-> "add", row |-> 0, group |-> g, qty |-> n]}
          [] rows # {} /\ n > 0
             /\ (Cardinality(rows) > 1 \/ o.rows[primary].qty # n) ->
               removals \cup {[type |-> "update", row |-> primary,
                               group |-> g, qty |-> n]}
          [] OTHER -> removals

Ops(o) == UNION {GroupOps(o, g, pending[g]) : g \in DOMAIN pending}

\* executeDirectSyncOperations goes on with ops, then to the final read.
GoOn(s, ops) ==
    sync' = IF ops = {} THEN [s EXCEPT !.pc = "asked_again", !.ops = {},
                                       !.snap = Nothing, !.fresh = TRUE]
            ELSE [s EXCEPT !.pc = "writing", !.ops = ops, !.snap = Nothing]

Unchanging == UNCHANGED <<here, misfits, want, taps, edits, poll>>

Read ==
    /\ sync.pc \in {"asked", "asked_again"}
    /\ sync' = [sync EXCEPT !.pc = IF sync.pc = "asked" THEN "read"
                                   ELSE "read_again",
                            !.snap = server]
    /\ UNCHANGED <<server, view, pending, timer, retry, flush, recover, faults>>
    /\ Unchanging

\* syncDirectProductDifferences: the pending quantities of this moment.
Build ==
    /\ sync.pc = "read"
    /\ GoOn(sync, Ops(sync.snap))
    /\ UNCHANGED <<server, view, pending, timer, retry, flush, recover, faults>>
    /\ Unchanging

\* ensureOrderId: open the order (or get the one open already) before adding.
OpenOrder ==
    /\ sync.pc = "writing" /\ ~server.open
    /\ server' = [server EXCEPT !.open = TRUE]
    /\ UNCHANGED <<view, pending, timer, sync, retry, flush, recover, faults>>
    /\ Unchanging

\* The effect of an operation on the order of the backend.
Applied(op) ==
    IF op.type = "add"
    THEN [server EXCEPT !.rows =
            Append(@, [group |-> IF op.group \in misfits THEN Nothing ELSE op.group,
                       qty |-> op.qty])]
    ELSE [server EXCEPT !.rows[op.row].qty = op.qty]

\* Another terminal removed the line or sent it to the kitchen.
Gone(op) == op.type # "add" /\ server.rows[op.row].qty = 0

Write(op) ==
    /\ sync.pc = "writing" /\ server.open /\ op \in sync.ops
    /\ IF Gone(op)
       THEN HandleError /\ UNCHANGED server
       ELSE /\ server' = Applied(op)
            /\ GoOn(sync, sync.ops \ {op})
            /\ UNCHANGED <<recover, flush>>
    /\ UNCHANGED <<view, pending, timer, retry, faults>>
    /\ Unchanging

Confirm ==
    /\ sync.pc = "read_again"
    /\ Hydrate(sync.snap, sync.fresh)
    /\ pending' = Unsatisfied(sync.snap)
    /\ UNCHANGED <<server, recover, faults>> /\ Unchanging
    /\ Finish

\* A request of the chain fails, a write with or without its effect.
Fault ==
    /\ faults < MaxFaults /\ faults' = faults + 1
    /\ \/ sync.pc \in {"asked", "asked_again"} /\ UNCHANGED server
       \/ sync.pc = "writing" /\ UNCHANGED server
       \/ \E op \in sync.ops : /\ server.open /\ ~Gone(op)
                               /\ server' = Applied(op)
    /\ HandleError
    /\ UNCHANGED <<view, pending, timer, retry>>
    /\ Unchanging

-----------------------------------------------------------------------------
(* Answers outside of the chain                                            *)

\* A read of handleDirectSyncError reaches the backend, then the terminal.
RecoverRead(r) ==
    /\ recover[r] = Asked /\ recover' = [recover EXCEPT ![r] = server]
    /\ UNCHANGED <<server, view, pending, timer, sync, retry, flush, faults>>
    /\ Unchanging

RecoverAnswer(r) ==
    /\ recover[r] \notin {Nothing, Asked}
    /\ recover' = [recover EXCEPT ![r] = Nothing]
    /\ view' = IF here THEN Overlay(recover[r]) ELSE view
    /\ UNCHANGED <<server, pending, timer, sync, retry, flush, faults>>
    /\ Unchanging

\* OrderSyncService reads the orders of the tables that have lines.
PollShown(p) ==
    /\ here /\ poll[p] = Nothing /\ \E g \in Groups : view[g] > 0
    /\ poll' = [poll EXCEPT ![p] = [snap |-> server, fresh |-> TRUE]]
    /\ UNCHANGED <<server, view, pending, timer, sync, retry, flush, recover,
                   here, misfits, want, taps, faults, edits>>
PollRead(p) ==
    /\ here /\ poll[p] = Nothing /\ HasLines(server)
    /\ poll' = [poll EXCEPT ![p] = [snap |-> server, fresh |-> TRUE]]
    /\ UNCHANGED <<server, view, pending, timer, sync, retry, flush, recover,
                   here, misfits, want, taps, faults, edits>>

PollAnswer(p) ==
    /\ poll[p] # Nothing
    /\ poll' = [poll EXCEPT ![p] = Nothing]
    /\ Hydrate(poll[p].snap, poll[p].fresh)
    /\ UNCHANGED <<server, pending, timer, sync, retry, flush, recover, here,
                   misfits, want, taps, faults, edits>>

\* The session ends: no restaurant is active, the orders displayed are cleared
\* and polling stops, but timers and requests go on.
Leave ==
    /\ here /\ here' = FALSE
    /\ view' = [g \in Groups |-> 0] /\ poll' = [p \in Polls |-> Nothing]
    /\ UNCHANGED <<server, pending, timer, sync, retry, flush, recover, misfits,
                   want, taps, faults, edits>>

\* Another terminal adds a line, changes one, or takes it away.
OtherTerminal ==
    /\ edits < MaxEdits /\ edits' = edits + 1 /\ server.open
    /\ \/ \E g \in Groups : server' = Applied([type |-> "add", row |-> 0,
                                               group |-> g, qty |-> 1])
       \/ \E i \in DOMAIN server.rows, n \in 0 .. 2 :
            /\ server.rows[i].qty \notin {0, n}
            /\ server' = [server EXCEPT !.rows[i].qty = n]
    /\ UNCHANGED <<view, pending, timer, sync, retry, flush, poll, recover,
                   here, misfits, want, taps, faults>>

-----------------------------------------------------------------------------
\* A table without an order, or with one of no, one or two lines (two lines of
\* a group: the backend does not merge them).
Row(g, n) == [group |-> g, qty |-> n]
Order == {NoOrder} \cup
         {[open |-> TRUE, rows |-> rows] :
             rows \in {<<>>} \cup {<<Row(g, 1)>> : g \in Groups}
                             \cup {<<Row(g, 1), Row(g, 1)>> : g \in Groups}}

Init == /\ server \in Order
        /\ view = [g \in Groups |-> Qty(server, g)]
        /\ want = view
        /\ pending = Empty
        /\ timer = "none" /\ sync = NoSync /\ retry = FALSE /\ flush = "none"
        /\ poll = [p \in Polls |-> Nothing] /\ recover = [r \in 1 .. MaxReads |-> Nothing]
        /\ here = TRUE /\ misfits \in SUBSET Groups
        /\ taps = 0 /\ faults = 0 /\ edits = 0

Chain == Read \/ Build \/ OpenOrder \/ (\E op \in sync.ops : Write(op)) \/ Confirm

Next == \/ \E g \in Groups : Tap(g)
        \/ Flush \/ TimerFires \/ Chain \/ Fault
        \/ \E r \in DOMAIN recover : RecoverRead(r) \/ RecoverAnswer(r)
        \/ \E p \in Polls : PollRead(p) \/ PollAnswer(p)
        \/ Leave \/ OtherTerminal

\* Timers fire, polling goes on and requests are answered.  Nobody has to tap,
\* flush, leave, fail or edit.
Fairness == /\ WF_vars(TimerFires) /\ WF_vars(Chain)
            /\ WF_vars(\E r \in DOMAIN recover : RecoverRead(r) \/ RecoverAnswer(r))
            /\ \A p \in Polls : WF_vars(PollRead(p)) /\ WF_vars(PollAnswer(p))

Spec == Init /\ [][Next]_vars /\ Fairness

-----------------------------------------------------------------------------
(* What must hold                                                          *)

Operation == [type : {"add", "update", "delete"}, row : Nat, group : Groups, qty : Nat]

\* Types of the variables.
TypeOK ==
    /\ server.open \in BOOLEAN
    /\ server.rows \in Seq([group : Groups \cup {Nothing}, qty : Nat])
    /\ view \in [Groups -> Nat] /\ want \in [Groups -> Nat]
    /\ DOMAIN pending \subseteq Groups /\ \A g \in DOMAIN pending : pending[g] \in Nat
    /\ timer \in {"none", "armed", "dead"}
    /\ sync.pc \in {"idle", "asked", "read", "writing", "asked_again", "read_again"}
    /\ sync.ops \subseteq Operation /\ sync.fresh \in BOOLEAN
    /\ retry \in BOOLEAN /\ flush \in {"none", "waiting", "done", "failed"}

\* While a chain is in flight no timer is in the map, so a timer that was
\* cleared can never keep the table from being idle (queueDirectGroupSync
\* clears timers without taking them out of the map).
NoTimerInFlight == InFlight => timer = "none"

\* Nobody waits for a table without work: nothing would ever tell them.
WaitersHaveWork ==
    flush = "waiting" => pending # Empty \/ InFlight \/ timer # "none" \/ retry

\* A product whose taps are pending shows the quantity tapped, whatever
\* answers come in, unless an answer without any order took the lines away.
PendingShown == \A g \in DOMAIN pending : view[g] \in {pending[g], 0}

\* What the maps of OrderWriteService, the requests and the display have to do
\* with each other in every state, however taps, flushes, answers, errors and
\* other terminals interleave.
SyncConsistent == TypeOK /\ NoTimerInFlight /\ WaitersHaveWork /\ PendingShown

\* Whoever is told that the taps are written finds them in the backend, as
\* long as no other terminal writes to the table.
FlushedIsStored ==
    [][flush # "done" /\ flush' = "done" /\ edits = 0
         => \A g \in Groups : Qty(server, g) = want[g]]_vars

\* With no other terminal at the table, in a session that goes on and at the
\* course and price the terminal shows, whoever waits is told, of success or of
\* an error.
WaitersAreTold ==
    [](edits = 0 /\ here /\ misfits = {}) => (flush = "waiting" ~> flush # "waiting")

\* A table that keeps lines ends up shown as the backend has it, pending
\* products aside: polling undoes what a late answer did.
ViewSettles ==
    <>[](here /\ HasLines(server)) =>
        <>[](\A g \in Groups \ DOMAIN pending : view[g] = Qty(server, g))
=============================================================================
