---------------------------- MODULE TableService ----------------------------
(***************************************************************************)
(* The service page of one terminal over several tables: the queue of      *)
(* line mutations of each table (OrderWriteService), and sending to the    *)
(* kitchen and charging, which flush that queue first.                     *)
(*                                                                         *)
(* A tap shows its result at once and queues a request.  The requests of a *)
(* table run one after another; when the queue is empty the order is read  *)
(* once.  What is displayed is replaced by the answers of reads, unless a  *)
(* tap on that table came after their launch (the epoch).  The operator    *)
(* may select another table at any time, also between the steps of a       *)
(* request that was started for this one.                                  *)
(*                                                                         *)
(* A line stands for itself before and after the backend knows it and      *)
(* costs 1.  Its configuration, quantity and note are left out, so an      *)
(* update only has its requests.  A read has reached the backend when it   *)
(* is launched.                                                            *)
(***************************************************************************)
EXTENDS Integers, Sequences, FiniteSets, Functions

CONSTANTS Tables, Lines,
          MaxTaps,    \* bound on taps on lines
          MaxMoves,   \* bound on selections of another table
          MaxPresses, \* bound on sends to the kitchen and charges
          MaxFaults,  \* bound on failed requests
          MaxReads,   \* bound on the reads of one kind and table in flight
          Nothing

\* An order is known by its table and its number there; 0 asks for a new one.
OrderId == {Nothing} \cup (Tables \X Nat)

Displayed == [id : OrderId,
              lines : UNION {[S -> {"local", "pending", "sent", "paid"}] : S \in SUBSET Lines}]

Mutation == [kind : {"add", "delete", "cancel", "update"}, line : Lines]

\* A mutation in flight: the order an add goes to, the answer of a cancellation.
Request == [kind : {"add", "delete", "cancel", "update"}, line : Lines,
            st : {"asked", "answered"}, to : OrderId,
            snap : {Nothing} \cup Displayed]

Answering == [table : Tables, snap : Displayed, fresh : BOOLEAN]

ASSUME TableServiceAssumption ==
    /\ {MaxTaps, MaxMoves, MaxPresses, MaxFaults} \subseteq Nat
    /\ MaxReads \in Nat \ {0}
    /\ Tables # {} /\ IsFiniteSet(Lines)
    /\ Nothing \notin Tables \cup Request \cup Answering

VARIABLES row,       \* the lines in the backend
          order,     \* the active order of each table: its number, whether it
                     \* is open and what was paid of it
          selected,  \* selectedTableId
          view,      \* ordersByTable: the order displayed for each table
          queue,     \* lineMutationQueues
          running,   \* lineMutationInFlight: the request of each table
          dirty,     \* lineMutationRefreshNeeded
          read,      \* answers of reads on their way
          flow,      \* sendToKitchen and confirmChargeKitchenConfirm
          home,      \* history: the table each line was tapped at
          late,      \* history: lines whose request had to wait in the queue
          mixed,     \* history: tables that displayed the order of another one
          taps, moves, presses, faults

backend == <<row, order>>
history == <<home, late, mixed>>
bounds == <<taps, moves, presses, faults>>
vars == <<row, order, selected, view, queue, running, dirty, read, flow, home,
          late, mixed, taps, moves, presses, faults>>

-----------------------------------------------------------------------------
(* The backend                                                             *)

Active(t) == {l \in Lines : row[l].table = t /\ row[l].st \in {"pending", "sent"}}
EmptyOrder == [id |-> Nothing, lines |-> <<>>]

\* What a read of the order of a table answers; no active order is shown as an
\* empty one.
Snap(t) == IF order[t].open
           THEN [id |-> <<t, order[t].n>>, lines |-> [l \in Active(t) |-> row[l].st]]
           ELSE EmptyOrder

Current(id) == order[id[1]].open /\ order[id[1]].n = id[2]
Editable(id) == Current(id) /\ order[id[1]].got = 0

-----------------------------------------------------------------------------
(* The queue of line mutations                                             *)

\* The lines displayed as pending, and those of them displayed with the id the
\* backend gave them: a local id of pendingKitchenLineIds names none of its lines.
PendingShown(v) == {l \in DOMAIN v.lines : v.lines[l] \in {"local", "pending"}}
Sendable(v) == {l \in DOMAIN v.lines : v.lines[l] = "pending"}

\* hasLineMutationWork
HasWork(t) == running[t] # Nothing \/ queue[t] # <<>>

\* A queued mutation runs.  An add goes to the order displayed for the table
\* selected at this moment, or else to the order it opens at its own table.
TargetAnywhere(t, v) == IF \E u \in Tables : v[u].id # Nothing
                        THEN v[CHOOSE u \in Tables : v[u].id # Nothing].id ELSE <<t, 0>>
Target(t, v) == IF v[selected].id # Nothing THEN v[selected].id ELSE <<t, 0>>
Started(t, job, v) == [kind |-> job.kind, line |-> job.line, st |-> "asked",
                       to |-> IF job.kind = "add" THEN Target(t, v) ELSE Nothing,
                       snap |-> Nothing]

\* A local mutation makes every answer already asked for an old one, of which
\* nothing will be displayed.
Outdated(t) == [r \in DOMAIN read |-> IF r[2] = t /\ read[r] # Nothing
                                      THEN [read[r] EXCEPT !.fresh = FALSE, !.snap = EmptyOrder] ELSE read[r]]

\* enqueueLineMutation, after noteLocalOrderMutation.
Enqueue(job) ==
    LET t == selected IN
    /\ read' = Outdated(t)
    /\ IF running[t] = Nothing
       THEN /\ running' = [running EXCEPT ![t] = Started(t, job, view')]
            /\ UNCHANGED <<queue, late>>
       ELSE /\ queue' = [queue EXCEPT ![t] = Append(@, job)]
            /\ late' = IF job.kind = "add" THEN late \cup {job.line} ELSE late
            /\ UNCHANGED running

\* A line shown before the backend knows it.
Tapped(lines, l) == [x \in DOMAIN lines \cup {l} |-> IF x = l THEN "local" ELSE lines[x]]

\* addCustomizedProduct, addCombo
Add(l) ==
    /\ taps < MaxTaps /\ taps' = taps + 1
    /\ home[l] = Nothing /\ home' = [home EXCEPT ![l] = selected]
    /\ view' = [view EXCEPT ![selected].lines = Tapped(@, l)]
    /\ Enqueue([kind |-> "add", line |-> l])
    /\ UNCHANGED <<backend, selected, dirty, flow, mixed, moves, presses,
                   faults>>

\* removeProduct, or decreaseConfiguredLine of the last one: a line the backend
\* does not know is only taken off the screen; one already sent to the kitchen
\* is cancelled by the former and deleted all the same by the latter.
Remove(l) ==
    /\ taps < MaxTaps /\ taps' = taps + 1
    /\ l \in DOMAIN view[selected].lines /\ view[selected].lines[l] # "paid"
    /\ view' = [view EXCEPT ![selected].lines = Restrict(@, DOMAIN @ \ {l})]
    /\ IF view[selected].lines[l] = "local"
       THEN read' = Outdated(selected) /\ UNCHANGED <<queue, running, late>>
       ELSE \E kind \in {"delete", "cancel"} :
               /\ kind = "cancel" => view[selected].lines[l] = "sent"
               /\ Enqueue([kind |-> kind, line |-> l])
    /\ UNCHANGED <<backend, selected, dirty, flow, home, mixed, moves,
                   presses, faults>>

\* increaseConfiguredLine, decreaseConfiguredLine, updateProductNote
Update(l) ==
    /\ taps < MaxTaps /\ taps' = taps + 1
    /\ l \in DOMAIN view[selected].lines
    /\ view[selected].lines[l] \in {"pending", "sent"}
    /\ UNCHANGED view /\ Enqueue([kind |-> "update", line |-> l])
    /\ UNCHANGED <<backend, selected, dirty, flow, home, mixed, moves,
                   presses, faults>>

\* What is left of a request once its answer is on its way: success and failure
\* are handled alike, but for the order that comes with a cancellation.
Replied(job, snap) == [job EXCEPT !.st = "answered", !.to = Nothing, !.snap = snap]

\* The backend adds the line of the request of table t, to a new order if asked
\* to and none is open.
ServeAdd(t) ==
    LET job == running[t]  u == job.to[1]
        ok == IF job.to[2] = 0 THEN order[u].open => order[u].got = 0 ELSE Editable(job.to)
    IN
    /\ job # Nothing /\ job.st = "asked" /\ job.kind = "add"
    /\ order' = IF job.to[2] = 0 /\ ~order[u].open
                THEN [order EXCEPT ![u] = [n |-> @.n + 1, open |-> TRUE, got |-> 0]]
                ELSE order
    /\ row' = IF ok THEN [row EXCEPT ![job.line] = [st |-> "pending", table |-> u]] ELSE row
    /\ running' = [running EXCEPT ![t] = Replied(@, Nothing)]
    /\ UNCHANGED <<selected, view, queue, dirty, read, flow, history, bounds>>

\* It deletes, cancels or updates a line of an order without payments, unless
\* the kitchen is too far with it; the answer of a cancellation is the order.
ServeEdit(t) ==
    LET job == running[t]  l == job.line  u == row[l].table IN
    /\ job # Nothing /\ job.st = "asked" /\ job.kind # "add"
    /\ \E ok \in BOOLEAN :
         /\ ok => l \in Active(u) /\ order[u].got = 0
         /\ ~ok => l \notin Active(u) \/ order[u].got > 0 \/ row[l].st = "sent"
         /\ row' = IF ok /\ job.kind # "update" THEN [row EXCEPT ![l].st = "gone"] ELSE row
         /\ LET o == [Snap(u) EXCEPT !.lines = Restrict(@, DOMAIN @ \ {l})] IN
            running' = [running EXCEPT ![t] =
                          Replied(@, IF ok /\ job.kind = "cancel" THEN o ELSE Nothing)]
    /\ UNCHANGED <<order, selected, view, queue, dirty, read, flow, history, bounds>>

\* The request or its answer is lost.
Lose(t) ==
    /\ faults < MaxFaults /\ faults' = faults + 1
    /\ running[t] # Nothing /\ (running[t].st = "asked" \/ running[t].snap # Nothing)
    /\ running' = [running EXCEPT ![t] = Replied(@, Nothing)]
    /\ UNCHANGED <<backend, selected, view, queue, dirty, read, flow, history,
                   taps, moves, presses>>

\* One half of what a sending waits for is done.  After the other one it goes
\* on with the lines now displayed for the selected table.
Flushed(f, half, v) ==
    IF f.waits = {half}
    THEN [f EXCEPT !.waits = {}, !.pc = "sending", !.lines = Sendable(v[selected])]
    ELSE [f EXCEPT !.waits = @ \ {half}]

\* notifyLineMutationsIdle
NotifyIdle(t) ==
    flow' = [k \in DOMAIN flow |->
               IF /\ "lines" \in flow[k].waits /\ flow[k].table = t
                  /\ running'[t] = Nothing /\ queue'[t] = <<>>
               THEN Flushed(flow[k], "lines", view') ELSE flow[k]]

\* A read of the order of table t is launched.
Reading(t) == [table |-> t, snap |-> Snap(t), fresh |-> TRUE]
Launch(kind, t, reads) ==
    \E i \in 1 .. MaxReads :
       /\ reads[<<kind, t, i>>] = Nothing
       /\ \A j \in 1 .. (i - 1) : reads[<<kind, t, j>>] # Nothing
       /\ read' = [reads EXCEPT ![<<kind, t, i>>] = Reading(t)]

\* drainLineMutations: the next mutation, or the refresh, or the waiters.
DrainQuietly(t, mustRead, reads) ==
    /\ UNCHANGED flow
    /\ IF queue[t] # <<>>
       THEN /\ running' = [running EXCEPT ![t] = Started(t, Head(queue[t]), view')]
            /\ queue' = [queue EXCEPT ![t] = Tail(@)]
            /\ dirty' = [dirty EXCEPT ![t] = mustRead] /\ read' = reads
       ELSE /\ running' = [running EXCEPT ![t] = Nothing]
            /\ UNCHANGED queue /\ dirty' = [dirty EXCEPT ![t] = FALSE]
            /\ IF mustRead THEN Launch("drain", t, reads) ELSE read' = reads
Drain(t, mustRead, reads) ==
    IF queue[t] # <<>>
    THEN /\ running' = [running EXCEPT ![t] = Started(t, Head(queue[t]), view')]
         /\ queue' = [queue EXCEPT ![t] = Tail(@)]
         /\ dirty' = [dirty EXCEPT ![t] = mustRead]
         /\ read' = reads /\ UNCHANGED flow
    ELSE /\ running' = [running EXCEPT ![t] = Nothing]
         /\ UNCHANGED queue /\ dirty' = [dirty EXCEPT ![t] = FALSE]
         /\ IF mustRead
            THEN Launch("drain", t, reads) /\ UNCHANGED flow
            ELSE read' = reads /\ NotifyIdle(t)

\* The answer of a mutation.  That of a cancellation is displayed at once, for
\* the table that is selected when it comes.
Answer(t) ==
    LET job == running[t] IN
    /\ job # Nothing /\ job.st = "answered"
    /\ IF job.snap # Nothing
       THEN /\ view' = [view EXCEPT ![selected] = job.snap]
            /\ mixed' = IF selected = t THEN mixed ELSE mixed \cup {selected}
            /\ Drain(t, dirty[t], Outdated(t))
       ELSE UNCHANGED <<view, mixed>> /\ Drain(t, TRUE, read)
    /\ UNCHANGED <<backend, selected, home, late, bounds>>

-----------------------------------------------------------------------------
(* Reads                                                                   *)

\* The effect of selectedTableId: reloadServicePointAndOrder.
Select(t) ==
    /\ moves < MaxMoves /\ moves' = moves + 1
    /\ t # selected /\ selected' = t
    /\ Launch("reload", t, read)
    /\ UNCHANGED <<backend, view, queue, running, dirty, flow, history, taps,
                   presses, faults>>

\* OrderSyncService reads the orders of the tables that have lines (bound: once
\* no other answer of a read is on its way).
PollDisplayed == {t \in Tables : view[t].lines # <<>>}
PollTables == {t \in Tables : Active(t) # {}}
Poll ==
    /\ PollTables # {} /\ \A r \in DOMAIN read : read[r] = Nothing
    /\ read' = [r \in DOMAIN read |-> IF r[1] = "poll" /\ r[2] \in PollTables /\ r[3] = 1
                                      THEN Reading(r[2]) ELSE read[r]]
    /\ UNCHANGED <<backend, selected, view, queue, running, dirty, flow, history, bounds>>

\* hydrateRemoteOrder; the refresh of a queue tells its waiters.
Arrive(r) ==
    /\ read[r] # Nothing
    /\ read' = [read EXCEPT ![r] = Nothing]
    /\ view' = IF read[r].fresh THEN [view EXCEPT ![r[2]] = read[r].snap] ELSE view
    /\ UNCHANGED <<queue, running>>
    /\ IF r[1] = "drain" THEN NotifyIdle(r[2]) ELSE UNCHANGED flow
    /\ UNCHANGED <<backend, selected, dirty, history, bounds>>

\* The refresh of a queue fails, and its waiters are told all the same.  Any
\* other read that fails leaves no trace.
Drop(r) ==
    /\ faults < MaxFaults /\ faults' = faults + 1
    /\ r[1] = "drain" /\ read[r] # Nothing
    /\ read' = [read EXCEPT ![r] = Nothing]
    /\ UNCHANGED <<view, queue, running>>
    /\ NotifyIdle(r[2])
    /\ UNCHANGED <<backend, selected, dirty, history, taps, moves, presses>>

-----------------------------------------------------------------------------
(* Sending to the kitchen and charging                                     *)

Kinds == {"send", "charge"}
NoFlow == [pc |-> "idle", waits |-> {}, table |-> Nothing, lines |-> {}, id |-> Nothing,
           snap |-> Nothing]

\* What is left of a flow once the backend answered or a request was lost.
Done(f, pc) == [NoFlow EXCEPT !.pc = pc, !.table = f.table]

\* chargeSelectedServicePoint: the table and the order are those selected now.
Paying(v) ==
    [pc |-> "paying", waits |-> {}, table |-> selected, id |-> v[selected].id, snap |-> Nothing,
     lines |-> {l \in DOMAIN v[selected].lines : v[selected].lines[l] # "paid"}]

\* flushPendingOrderWrites$ waits for the direct sync of the table, if that has
\* work (syncing), and for its queue, and only then reads the lines to send.
Unflushed(syncing) == {half \in {"direct", "lines"} :
                         IF half = "direct" THEN syncing ELSE HasWork(selected)}
FlushThenSend(syncing) ==
    LET f == [NoFlow EXCEPT !.table = selected, !.waits = Unflushed(syncing)] IN
    IF f.waits = {} THEN [f EXCEPT !.pc = "sending", !.lines = Sendable(view[selected])]
                    ELSE [f EXCEPT !.pc = "flushing"]

\* sendToKitchen; chargeTable with confirmChargeKitchenConfirm.
Press(k) ==
    /\ presses < MaxPresses /\ presses' = presses + 1
    /\ flow[k].pc = "idle" /\ DOMAIN view[selected].lines # {}
    /\ IF PendingShown(view[selected]) # {}
       THEN \E syncing \in BOOLEAN : flow' = [flow EXCEPT ![k] = FlushThenSend(syncing)]
       ELSE k = "charge" /\ flow' = [flow EXCEPT ![k] = Paying(view)]
    /\ UNCHANGED <<backend, selected, view, queue, running, dirty, read, history,
                   taps, moves, faults>>

\* The direct sync tells its waiters (see OrderWrite, where it may never do so).
DirectSynced(k) ==
    /\ "direct" \in flow[k].waits
    /\ flow' = [flow EXCEPT ![k] = Flushed(@, "direct", view)]
    /\ UNCHANGED <<backend, selected, view, queue, running, dirty, read, history, bounds>>

\* SendRestaurantServicePointOrderToKitchenUseCase and sendPendingLinesToKitchen
ServeSend(k) ==
    LET t == flow[k].table  named == flow[k].lines \cap Active(t) IN
    /\ flow[k].pc = "sending"
    /\ row' = [l \in Lines |-> IF l \in named THEN [row[l] EXCEPT !.st = "sent"] ELSE row[l]]
    /\ flow' = [flow EXCEPT ![k] = Done(@, IF named # {} THEN "sent" ELSE "failed")]
    /\ UNCHANGED <<order, selected, view, queue, running, dirty, read, history, bounds>>

\* A flush, a send or a payment fails, or its answer is lost.
LoseFlow(k) ==
    /\ faults < MaxFaults /\ faults' = faults + 1
    /\ flow[k].pc \notin {"idle", "failed"}
    /\ flow' = [flow EXCEPT ![k] = Done(@, "failed")]
    /\ UNCHANGED <<backend, selected, view, queue, running, dirty, read, history,
                   taps, moves, presses>>

Reload(t) == Launch("reload", t, read)

AnswerSend(k) ==
    /\ flow[k].pc = "sent" /\ Reload(flow[k].table)
    /\ flow' = [flow EXCEPT ![k] = IF k = "send" THEN NoFlow ELSE Paying(view)]
    /\ UNCHANGED <<backend, selected, view, queue, running, dirty, history, bounds>>

AnswerFailure(k) ==
    /\ flow[k].pc = "failed" /\ Reload(flow[k].table)
    /\ flow' = [flow EXCEPT ![k] = NoFlow]
    /\ UNCHANGED <<backend, selected, view, queue, running, dirty, history, bounds>>

\* The backend charges the table and registers the payment of what was
\* displayed; without an order or an amount it only charges.
Amount(k) == Cardinality(flow[k].lines)
Payment(k) ==
    LET u == flow[k].id[1] IN
    /\ order[flow[k].table].open /\ Current(flow[k].id)
    /\ Amount(k) <= Cardinality(Active(u)) - order[u].got

ServePayment(k) ==
    LET id == flow[k].id  u == id[1]
        whole == Cardinality(Active(u)) - order[u].got <= Amount(k) IN
    /\ flow[k].pc = "paying"
    /\ IF id = Nothing \/ flow[k].lines = {}
       THEN /\ flow' = [flow EXCEPT ![k] = Done(@, IF order[@.table].open THEN "charged"
                                                   ELSE "failed")]
            /\ UNCHANGED <<row, order>>
       ELSE IF ~Payment(k)
       THEN flow' = [flow EXCEPT ![k] = Done(@, "failed")] /\ UNCHANGED <<row, order>>
       ELSE /\ row' = [l \in Lines |-> IF whole /\ l \in Active(u)
                                       THEN [row[l] EXCEPT !.st = "paid"] ELSE row[l]]
            /\ order' = [order EXCEPT ![u] = [n |-> @.n, open |-> ~whole,
                                              got |-> IF whole THEN 0 ELSE @.got + Amount(k)]]
            /\ flow' = [flow EXCEPT ![k] =
                   [Done(@, "paid") EXCEPT !.snap = [id |-> id, lines |-> [l \in Active(u) |-> "paid"]]]]
    /\ UNCHANGED <<selected, view, queue, running, dirty, read, history, bounds>>

\* The order paid is displayed at the table charged and the order displayed at
\* the table selected is marked as paid (or emptied, without a payment).
AnswerPayment(k) ==
    LET v == [view EXCEPT ![flow[k].table] = flow[k].snap] IN
    /\ flow[k].pc \in {"paid", "charged"}
    /\ view' = IF flow[k].pc = "charged" THEN [view EXCEPT ![selected] = EmptyOrder]
               ELSE [v EXCEPT ![selected].lines = [l \in DOMAIN @ |-> "paid"]]
    /\ flow' = [flow EXCEPT ![k] = NoFlow]
    /\ UNCHANGED <<backend, selected, queue, running, dirty, read, history, bounds>>

-----------------------------------------------------------------------------
\* No orders, or one order with a line that has been sent to the kitchen or, at
\* the table selected, is pending.
Place(S, t, s) == [l \in Lines |-> IF l \in S THEN [st |-> s, table |-> t]
                                   ELSE [st |-> "free", table |-> Nothing]]

Init == /\ selected = CHOOSE t \in Tables : TRUE
        /\ LET S == {CHOOSE l \in Lines : TRUE} IN
           row \in {Place({}, selected, "free"), Place(S, selected, "pending")}
                   \cup {Place(S, t, "sent") : t \in Tables}
        /\ home = [l \in Lines |-> row[l].table]
        /\ order = [t \in Tables |-> [n |-> Cardinality(Active(t)), got |-> 0,
                                      open |-> Active(t) # {}]]
        /\ view = [t \in Tables |-> Snap(t)]
        /\ queue = [t \in Tables |-> <<>>] /\ running = [t \in Tables |-> Nothing]
        /\ dirty = [t \in Tables |-> FALSE] /\ late = {} /\ mixed = {}
        /\ read = [r \in {"drain", "reload", "poll"} \X Tables \X (1 .. MaxReads) |-> Nothing]
        /\ flow = [k \in Kinds |-> NoFlow]
        /\ taps = 0 /\ moves = 0 /\ presses = 0 /\ faults = 0

Queue(t) == ServeAdd(t) \/ ServeEdit(t) \/ Answer(t)
Flow(k) == ServeSend(k) \/ AnswerSend(k) \/ AnswerFailure(k) \/ ServePayment(k) \/ AnswerPayment(k)

Next == \/ \E l \in Lines : Add(l) \/ Remove(l) \/ Update(l)
        \/ \E t \in Tables : Select(t) \/ Queue(t) \/ Lose(t)
        \/ Poll
        \/ \E r \in DOMAIN read : Arrive(r) \/ Drop(r)
        \/ \E k \in Kinds : Press(k) \/ DirectSynced(k) \/ Flow(k) \/ LoseFlow(k)

\* Requests are answered and polling goes on; no order among them is assumed,
\* and nothing of the direct sync.
Fairness == /\ WF_vars(\E t \in Tables : Queue(t))
            /\ WF_vars(Poll)
            /\ WF_vars(\E r \in DOMAIN read : Arrive(r))
            /\ WF_vars(\E k \in Kinds : Flow(k))

Spec == Init /\ [][Next]_vars /\ Fairness

-----------------------------------------------------------------------------
(* What must hold                                                          *)

\* A line of the backend; gone once it was deleted or cancelled.
Row == [st : {"free", "pending", "sent", "gone", "paid"}, table : Tables \cup {Nothing}]

\* A sending or charging in progress.
FlowState == [pc : {"idle", "flushing", "sending", "sent", "paying", "paid", "charged",
                    "failed"},
              waits : SUBSET {"direct", "lines"}, table : Tables \cup {Nothing}, lines : SUBSET Lines, id : OrderId,
              snap : {Nothing} \cup Displayed]

\* Types of the variables.
TypeOK ==
    /\ row \in [Lines -> Row]
    /\ order \in [Tables -> [n : Nat, open : BOOLEAN, got : Nat]]
    /\ selected \in Tables /\ view \in [Tables -> Displayed]
    /\ queue \in [Tables -> Seq(Mutation)]
    /\ running \in [Tables -> {Nothing} \cup Request] /\ dirty \in [Tables -> BOOLEAN]
    /\ read \in [{"drain", "reload", "poll"} \X Tables \X (1 .. MaxReads)
                   -> {Nothing} \cup Answering]
    /\ flow \in [Kinds -> FlowState]
    /\ home \in [Lines -> Tables \cup {Nothing}] /\ late \subseteq Lines /\ mixed \subseteq Tables

\* Whoever waits for the queue of a table has something to wait for, and a
\* queue that is not empty has a request in flight whose answer goes on with it.
NothingStranded ==
    /\ \A t \in Tables : queue[t] # <<>> => running[t] # Nothing
    /\ \A k \in Kinds : "lines" \in flow[k].waits =>
          \/ HasWork(flow[k].table)
          \/ \E i \in 1 .. MaxReads : read[<<"drain", flow[k].table, i>>] # Nothing
    /\ \A k \in Kinds : flow[k].pc = "flushing" <=> flow[k].waits # {}

\* A line ends up in the order of another table than the one it was tapped at
\* only if its request had to wait in the queue, or its table displayed the
\* order of another one after the answer of a cancellation.
StraysLate == \A l \in Lines : row[l].table \notin {Nothing, home[l]}
                              => l \in late \/ home[l] \in mixed

\* Queues, waiters and what the backend stored agree in every state, whichever
\* table is selected meanwhile.
QueueConsistent == TypeOK /\ NothingStranded /\ StraysLate

\* Sending and charging come to an end, so their buttons work again, as long as
\* the direct sync tells those who wait for it: whoever waits for the queue of a
\* table is told, also after errors and whatever else is read meanwhile.
FlowsEnd == []<>(\A k \in Kinds : "direct" \notin flow[k].waits)
               => []<>(\A k \in Kinds : flow[k].pc = "idle")

\* The tables that have lines end up displayed as the backend has them,
\* whatever answers were late or displayed for another table.
ViewSettles == <>[](\A t \in Tables : Active(t) = {} \/ view[t] = Snap(t))
=============================================================================
