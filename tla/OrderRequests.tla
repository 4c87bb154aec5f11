--------------------------- MODULE OrderRequests ---------------------------
(***************************************************************************)
(* Orders, order lines and payments of a restaurant in PostgreSQL, and the *)
(* HTTP requests that read and write them (the order use cases and their   *)
(* Prisma repository).                                                     *)
(*                                                                         *)
(* A step is one SQL statement of one request.  The transactions run at    *)
(* the default isolation, READ COMMITTED: a statement sees what the others *)
(* have committed plus the request's own uncommitted rows (req[r].write),  *)
(* a written row stays locked until the request commits, and a foreign key *)
(* keeps the order of an uncommitted line or payment from being deleted.   *)
(* The last statement of a transaction and its COMMIT are one step: no     *)
(* other transaction can see anything between the two.                     *)
(*                                                                         *)
(* A request whose first read turns it down changes nothing and is not a   *)
(* step.  One turned down later ends in Abort, which also stands for a     *)
(* lost connection or a transaction past its time limit.                   *)
(*                                                                         *)
(* Right before some definitions stands a wrong form of them, a plausible  *)
(* slip of the code (PersistedAsIs, HoldsNothing, NoIndex, ...).  No       *)
(* action uses it: put in place of the right form, it must break one of    *)
(* the properties at the end, which shows the property is not vacuous.     *)
(***************************************************************************)
EXTENDS Integers, FiniteSets

CONSTANTS Tables,      \* service points of the restaurant
          Orders,      \* ids an order row can take
          Lines,       \* ids an order line row can take
          Requests,    \* slots for requests in flight
          MaxCents,    \* the dearest subtotal of a line
          OneTerminal, \* TRUE: the requests of a table, those of the kitchen
                       \* board aside, come from one terminal that waits for
                       \* each answer
          NoRow        \* "no such row"

ASSUME OrdersAssumption ==
    /\ IsFiniteSet(Lines) /\ IsFiniteSet(Orders)
    /\ MaxCents \in Nat \ {0}
    /\ OneTerminal \in BOOLEAN
    /\ NoRow \notin Orders \cup Lines \cup Tables

VARIABLES order,   \* rows of orders
          line,    \* rows of order_lines
          paid,    \* sum of the completed payments of each order
          req      \* requests in flight

vars == <<order, line, paid, req>>

-----------------------------------------------------------------------------
(* Rows                                                                    *)

ActiveStatus == {"open", "pending_payment"}

OrderRow == [status: ActiveStatus \cup {"absent", "paid"},
             table: Tables \cup {NoRow},
             number: Nat,        \* dailyNumber, the ticket number
             total: Nat,         \* totalCents
             closed: BOOLEAN]    \* closedAt is set

LineStatus == {"pending", "preparing", "ready", "served", "cancelled"}

LineRow == [status: LineStatus \cup {"absent"},
            order: Orders \cup {NoRow},
            sent: BOOLEAN,             \* sentToKitchenAt is set
            subtotal: 0 .. MaxCents]   \* unit price times quantity

AbsentOrder == [status |-> "absent", table |-> NoRow, number |-> 0,
                total |-> 0, closed |-> FALSE]

AbsentLine == [status |-> "absent", order |-> NoRow, sent |-> FALSE,
               subtotal |-> 0]

OrderExists(o) == order[o].status # "absent"
LineExists(l) == line[l].status # "absent"
AnyStatus(o) == OrderExists(o)
Active(o) == order[o].status \in ActiveStatus
ActiveOf(t) == {o \in Orders : Active(o) /\ order[o].table = t}

\* calculateOrderTotals: what the lines of o that are not cancelled cost,
\* counted cent by cent.  No code writes a discount other than zero.
TotalOf(o, rows) ==
    Cardinality({cent \in Lines \X (1 .. MaxCents) :
                   /\ rows[cent[1]].order = o
                   /\ rows[cent[1]].status # "cancelled"
                   /\ cent[2] <= rows[cent[1]].subtotal})

\* The view status of a line: persisted as pending, shown as sent_to_kitchen.
Unsent(row) == row.status = "pending" /\ ~row.sent
Queued(row) == row.status = "pending" /\ row.sent

-----------------------------------------------------------------------------
(* Requests                                                                *)

KitchenMove == {"sent_to_kitchen", "preparing", "ready", "served"}

Operation == {"none", "open", "add", "update", "delete", "cancel", "send",
              "serve", "charge", "pay"} \cup KitchenMove

Idle == [op |-> "none", pc |-> "idle", table |-> NoRow, order |-> NoRow,
         line |-> NoRow, ids |-> {}, amount |-> 0, saved |-> 0,
         write |-> [l \in {} |-> AbsentLine]]

Busy(r) == req[r].pc # "idle"

\* The line rows as the statements of request r see them.
Seen(r) == [l \in Lines |-> IF l \in DOMAIN req[r].write
                            THEN req[r].write[l] ELSE line[l]]

\* Another transaction holds the row lock of line l.
Locked(r, l) == \E q \in Requests \ {r} : l \in DOMAIN req[q].write

\* r has an uncommitted line or payment that references its order.
HoldsNothing(r) == FALSE
HoldsOrder(r) == \/ req[r].op = "add" /\ DOMAIN req[r].write # {}
                 \/ req[r].pc \in {"pay_prepare", "pay_settle"}

\* The partial unique index would reject o as an active order of its table.
NoIndex(o) == FALSE
Duplicate(o) == \E p \in Orders \ {o} : Active(p) /\ order[p].table = order[o].table

\* An id that no row has and no request remembers.
FreshOrder(o) == ~OrderExists(o) /\ \A q \in Requests : req[q].order # o
FreshLine(l) == /\ ~LineExists(l)
                /\ \A q \in Requests : /\ req[q].line # l
                                       /\ l \notin req[q].ids
                                       /\ l \notin DOMAIN req[q].write

\* A request about table t may start in slot r.
MayStart(r, t) ==
    /\ ~Busy(r)
    /\ OneTerminal => \A q \in Requests :
                         req[q].table = t => req[q].op \in KitchenMove

Start(r, fields) == req' = [req EXCEPT ![r] = fields]
Goto(r, pc) == req' = [req EXCEPT ![r].pc = pc]
GotoSaving(r, pc, n) == req' = [req EXCEPT ![r].pc = pc, ![r].saved = n]
Stage(r, pc, rows) == req' = [req EXCEPT ![r].pc = pc, ![r].write = rows]
Finish(r) == req' = [req EXCEPT ![r] = Idle]

Init == /\ order = [o \in Orders |-> AbsentOrder]
        /\ line = [l \in Lines |-> AbsentLine]
        /\ paid = [o \in Orders |-> 0]
        /\ req = [r \in Requests |-> Idle]

-----------------------------------------------------------------------------
(* Opening an order                                                        *)

\* findActiveByTable finds none: go on to create one.
OpenCheck(r, t) ==
    /\ MayStart(r, t) /\ ActiveOf(t) = {}
    /\ Start(r, [Idle EXCEPT !.op = "open", !.pc = "open_count", !.table = t])
    /\ UNCHANGED <<order, line, paid>>

\* The ticket number: one more than today's orders of the restaurant.
OpenCount(r) ==
    /\ req[r].pc = "open_count"
    /\ GotoSaving(r, "open_insert",
                  Cardinality({o \in Orders : OrderExists(o)}) + 1)
    /\ UNCHANGED <<order, line, paid>>

OpenInsert(r) ==
    /\ req[r].pc = "open_insert" /\ ActiveOf(req[r].table) = {}
    /\ \E o \in Orders :
         /\ FreshOrder(o)
         /\ order' = [order EXCEPT ![o] =
              [status |-> "open", table |-> req[r].table,
               number |-> req[r].saved, total |-> 0, closed |-> FALSE]]
    /\ Finish(r)
    /\ UNCHANGED <<line, paid>>

\* P2002: the request answers with the order that won, or with the error when
\* that one is gone already.
OpenConflict(r) ==
    /\ req[r].pc = "open_insert" /\ ActiveOf(req[r].table) # {}
    /\ Finish(r)
    /\ UNCHANGED <<order, line, paid>>

-----------------------------------------------------------------------------
(* Adding, updating, deleting and cancelling a line                        *)

\* addLine reads the order with its completed payments.
AddAnyTime(r, o, cents) ==
    /\ OrderExists(o)
    /\ MayStart(r, order[o].table)
    /\ Start(r, [Idle EXCEPT !.op = "add", !.pc = "add_insert", !.order = o,
                             !.table = order[o].table, !.amount = cents])
    /\ UNCHANGED <<order, line, paid>>

AddCheck(r, o, cents) ==
    /\ OrderExists(o) /\ paid[o] = 0
    /\ MayStart(r, order[o].table)
    /\ Start(r, [Idle EXCEPT !.op = "add", !.pc = "add_insert", !.order = o,
                             !.table = order[o].table, !.amount = cents])
    /\ UNCHANGED <<order, line, paid>>

AddInsert(r) ==
    /\ req[r].pc = "add_insert" /\ OrderExists(req[r].order)
    /\ \E l \in Lines :
         /\ FreshLine(l)
         /\ Stage(r, "read_lines",
                  [k \in {l} |-> [status |-> "pending", order |-> req[r].order,
                                  sent |-> FALSE, subtotal |-> req[r].amount]])
    /\ UNCHANGED <<order, line, paid>>

\* Which lines updatePendingLine, deletePendingLine and cancelLine accept.
CancelServed(op, row) ==
    IF op = "cancel" THEN row.status \in {"preparing", "ready", "served"} \/ Queued(row)
                     ELSE row.status = "pending"
EditAllows(op, row) ==
    IF op = "cancel" THEN row.status \in {"preparing", "ready"} \/ Queued(row)
                     ELSE row.status = "pending"

\* What they make of the row.  An update may leave the quantity alone (cents 0)
\* and change only the kitchen note; what costs nothing costs nothing however
\* many are ordered.
Edited(op, row, cents) ==
    CASE op = "update" -> [row EXCEPT !.subtotal = IF 0 \in {cents, @} THEN @ ELSE cents]
      [] op = "delete" -> AbsentLine
      [] op = "cancel" -> [row EXCEPT !.status = "cancelled"]

EditCheck(r, l, op, cents) ==
    /\ LineExists(l) /\ EditAllows(op, line[l])
    /\ MayStart(r, order[line[l].order].table)
    /\ Start(r, [Idle EXCEPT !.op = op, !.pc = "edit_payments", !.line = l,
                             !.order = line[l].order, !.amount = cents,
                             !.table = order[line[l].order].table])
    /\ UNCHANGED <<order, line, paid>>

\* No completed payment may exist.
EditUnchecked(r) ==
    /\ req[r].pc = "edit_payments"
    /\ Goto(r, "edit_write")
    /\ UNCHANGED <<order, line, paid>>

EditPayments(r) ==
    /\ req[r].pc = "edit_payments" /\ paid[req[r].order] = 0
    /\ Goto(r, "edit_write")
    /\ UNCHANGED <<order, line, paid>>

\* The row is written by its id, whatever its status is by now.
EditWrite(r) ==
    /\ req[r].pc = "edit_write"
    /\ LineExists(req[r].line) /\ ~Locked(r, req[r].line)
    /\ Stage(r, "read_lines",
             [k \in {req[r].line} |-> Edited(req[r].op, line[k], req[r].amount)])
    /\ UNCHANGED <<order, line, paid>>

\* The lines of the order are read back, the request's own row included, for
\* the new totals.
ReadCommitted(r) ==
    /\ req[r].pc = "read_lines"
    /\ GotoSaving(r, "write_totals", TotalOf(req[r].order, line))
    /\ UNCHANGED <<order, line, paid>>

ReadLines(r) ==
    /\ req[r].pc = "read_lines"
    /\ GotoSaving(r, "write_totals", TotalOf(req[r].order, Seen(r)))
    /\ UNCHANGED <<order, line, paid>>

WriteTotals(r) ==
    /\ req[r].pc = "write_totals"
    /\ order' = [order EXCEPT ![req[r].order].total = req[r].saved]
    /\ line' = Seen(r)
    /\ Finish(r)
    /\ UNCHANGED paid

-----------------------------------------------------------------------------
(* The kitchen board: updateLineStatus                                     *)

MoveAllowed(move, row) ==
    CASE move = "sent_to_kitchen" -> row.status = "preparing"
      [] move = "preparing" -> row.status = "pending"
      [] move = "ready" -> row.status = "preparing"
      [] move = "served" -> row.status \in {"preparing", "ready"} \/ Queued(row)

\* What the column stores for it: sent_to_kitchen is pending with the mark of
\* the dispatch.
PersistedAsIs(move) == move
Persisted(move) == IF move = "sent_to_kitchen" THEN "pending" ELSE move

MoveCheck(r, l, move) ==
    /\ LineExists(l) /\ MoveAllowed(move, line[l]) /\ ~Busy(r)
    /\ Start(r, [Idle EXCEPT !.op = move, !.pc = "move_write", !.line = l,
                             !.order = line[l].order,
                             !.table = order[line[l].order].table])
    /\ UNCHANGED <<order, line, paid>>

MoveWrite(r) ==
    /\ req[r].pc = "move_write"
    /\ LineExists(req[r].line) /\ ~Locked(r, req[r].line)
    /\ line' = [line EXCEPT ![req[r].line].status = Persisted(req[r].op)]
    /\ Finish(r)
    /\ UNCHANGED <<order, paid>>

-----------------------------------------------------------------------------
(* Sending the unsent lines of a table to the kitchen, marking its lines   *)
(* served.  ids are the line ids of the request body; without any, a send  *)
(* takes every unsent line and a serve takes what the kitchen has.         *)

SendCheck(r, t, ids) ==
    /\ MayStart(r, t)
    /\ \E o \in ActiveOf(t), l \in Lines :
         line[l].order = o /\ Unsent(line[l]) /\ (ids = {} \/ l \in ids)
    /\ Start(r, [Idle EXCEPT !.op = "send", !.pc = "find_active", !.table = t,
                             !.ids = ids])
    /\ UNCHANGED <<order, line, paid>>

ServeCheck(r, t, ids) ==
    /\ MayStart(r, t)
    /\ \E o \in ActiveOf(t) :
         LET live == {l \in Lines : line[l].order = o
                                    /\ line[l].status \notin {"served", "cancelled"}}
         IN  /\ live # {} /\ (ids # {} => ids \cap live # {})
             /\ Start(r, [Idle EXCEPT !.op = "serve", !.pc = "find_active",
                                      !.table = t, !.ids = ids \cap live])
    /\ UNCHANGED <<order, line, paid>>

\* The repository looks the active order of the table up again.
FindActive(r) ==
    /\ req[r].pc = "find_active"
    /\ \E o \in ActiveOf(req[r].table) :
         req' = [req EXCEPT ![r].pc = "write_many", ![r].order = o]
    /\ UNCHANGED <<order, line, paid>>

SentBy(r) ==
    {l \in Lines : /\ line[l].order = req[r].order /\ Unsent(line[l])
                   /\ req[r].ids = {} \/ l \in req[r].ids}

ServedBy(r) ==
    {l \in Lines :
       /\ line[l].order = req[r].order
       /\ IF req[r].ids = {}
          THEN line[l].status \in {"preparing", "ready"} \/ Queued(line[l])
          ELSE l \in req[r].ids /\ line[l].status \in {"pending", "preparing", "ready"}}

SendWrite(r) ==
    /\ req[r].pc = "write_many" /\ req[r].op = "send"
    /\ \A l \in SentBy(r) : ~Locked(r, l)
    /\ line' = [l \in Lines |-> IF l \in SentBy(r)
                                THEN [line[l] EXCEPT !.sent = TRUE] ELSE line[l]]
    /\ Finish(r)
    /\ UNCHANGED <<order, paid>>

ServeWrite(r) ==
    /\ req[r].pc = "write_many" /\ req[r].op = "serve"
    /\ \A l \in ServedBy(r) : ~Locked(r, l)
    /\ line' = [l \in Lines |-> IF l \in ServedBy(r)
                                THEN [line[l] EXCEPT !.status = "served"] ELSE line[l]]
    /\ Finish(r)
    /\ UNCHANGED <<order, paid>>

-----------------------------------------------------------------------------
(* Asking for the bill, paying, freeing the table                          *)

\* The service point has something to charge.
ChargeCheck(r, t) ==
    /\ MayStart(r, t)
    /\ \E o \in ActiveOf(t) : order[o].total > 0
    /\ Start(r, [Idle EXCEPT !.op = "charge", !.pc = "charge_find", !.table = t])
    /\ UNCHANGED <<order, line, paid>>

\* chargeServicePoint looks for an open order (there may be none by now).
ChargeFind(r) ==
    /\ req[r].pc = "charge_find"
    /\ \E o \in ActiveOf(req[r].table) :
         /\ order[o].status = "open"
         /\ req' = [req EXCEPT ![r].pc = "charge_write", ![r].order = o]
    /\ UNCHANGED <<order, line, paid>>

\* The order is updated by its id, whatever its status is by now.
ChargeWrite(r) ==
    /\ req[r].pc = "charge_write"
    /\ OrderExists(req[r].order) /\ ~Duplicate(req[r].order)
    /\ order' = [order EXCEPT ![req[r].order].status = "pending_payment"]
    /\ Finish(r)
    /\ UNCHANGED <<line, paid>>

\* What is left to pay, never negative.
WholeTotal(o) == order[o].total
Balance(o) == IF order[o].total > paid[o] THEN order[o].total - paid[o] ELSE 0

\* registerPayment reads the order with its completed payments; saved is the
\* balance it leaves.
PayCheck(r, o, cents) ==
    /\ Active(o) /\ cents > 0 /\ cents <= Balance(o)
    /\ MayStart(r, order[o].table)
    /\ Start(r, [Idle EXCEPT !.op = "pay", !.pc = "pay_insert", !.order = o,
                             !.table = order[o].table, !.amount = cents,
                             !.saved = Balance(o) - cents])
    /\ UNCHANGED <<order, line, paid>>

\* The payment row, uncommitted: amount, until PaySettle adds it to paid.
PayInsert(r) ==
    /\ req[r].pc = "pay_insert" /\ OrderExists(req[r].order)
    /\ Goto(r, IF req[r].saved = 0 THEN "pay_prepare" ELSE "pay_settle")
    /\ UNCHANGED <<order, line, paid>>

\* The last payment starts the preparation of every pending line.
PayPrepare(r) ==
    LET pending == {l \in Lines : line[l].order = req[r].order
                                  /\ line[l].status = "pending"}
    IN  /\ req[r].pc = "pay_prepare"
        /\ \A l \in pending : ~Locked(r, l)
        /\ Stage(r, "pay_settle",
                 [l \in pending |-> [line[l] EXCEPT !.status = "preparing"]])
        /\ UNCHANGED <<order, line, paid>>

PaySettle(r) ==
    LET o == req[r].order IN
    /\ req[r].pc = "pay_settle"
    /\ req[r].saved > 0 => ~Duplicate(o)
    /\ order' = [order EXCEPT
         ![o].status = IF req[r].saved = 0 THEN "paid" ELSE "pending_payment",
         ![o].closed = (req[r].saved = 0)]
    /\ paid' = [paid EXCEPT ![o] = @ + req[r].amount]
    /\ line' = Seen(r)
    /\ Finish(r)

\* clearActiveByTable deletes the active order; its lines and payments go with
\* it.  The delete waits for whoever holds the order or one of its lines.
FreeEveryOrder(r, t) ==
    /\ MayStart(r, t)
    /\ \E o \in Orders :
         /\ OrderExists(o) /\ order[o].table = t
         /\ order' = [order EXCEPT ![o] = AbsentOrder]
         /\ paid' = [paid EXCEPT ![o] = 0]
         /\ line' = [l \in Lines |-> IF line[l].order = o THEN AbsentLine
                                                          ELSE line[l]]
    /\ UNCHANGED req

Free(r, t) ==
    /\ MayStart(r, t)
    /\ \E o \in ActiveOf(t) :
         /\ \A q \in Requests : HoldsOrder(q) => req[q].order # o
         /\ \A l \in Lines : line[l].order = o => ~Locked(r, l)
         /\ order' = [order EXCEPT ![o] = AbsentOrder]
         /\ paid' = [paid EXCEPT ![o] = 0]
         /\ line' = [l \in Lines |-> IF line[l].order = o THEN AbsentLine
                                                          ELSE line[l]]
    /\ UNCHANGED req

\* The request ends in an error, or with nothing left to do: what it had not
\* committed is rolled back.
Abort(r) ==
    /\ Busy(r)
    /\ Finish(r)
    /\ UNCHANGED <<order, line, paid>>

-----------------------------------------------------------------------------

Opening(r) == \/ \E t \in Tables : OpenCheck(r, t)
              \/ OpenCount(r) \/ OpenInsert(r) \/ OpenConflict(r)

Editing(r) ==
    \/ \E o \in Orders, cents \in 0 .. MaxCents : AddCheck(r, o, cents)
    \/ \E l \in Lines, cents \in 0 .. MaxCents : EditCheck(r, l, "update", cents)
    \/ \E l \in Lines, op \in {"delete", "cancel"} : EditCheck(r, l, op, 0)
    \/ AddInsert(r) \/ EditPayments(r) \/ EditWrite(r)
    \/ ReadLines(r) \/ WriteTotals(r)

Serving(r) ==
    \/ \E l \in Lines, move \in KitchenMove : MoveCheck(r, l, move)
    \/ \E t \in Tables, ids \in SUBSET Lines : SendCheck(r, t, ids) \/ ServeCheck(r, t, ids)
    \/ MoveWrite(r) \/ FindActive(r) \/ SendWrite(r) \/ ServeWrite(r)

Paying(r) ==
    \/ \E t \in Tables : ChargeCheck(r, t) \/ Free(r, t)
    \/ \E o \in Orders, cents \in 1 .. (MaxCents * Cardinality(Lines)) : PayCheck(r, o, cents)
    \/ ChargeFind(r) \/ ChargeWrite(r)
    \/ PayInsert(r) \/ PayPrepare(r) \/ PaySettle(r)

Next == \E r \in Requests : Opening(r) \/ Editing(r) \/ Serving(r)
                            \/ Paying(r) \/ Abort(r)

Spec == Init /\ [][Next]_vars

-----------------------------------------------------------------------------
(* Correctness                                                             *)

Statement == {"idle", "open_count", "open_insert", "add_insert",
              "edit_payments", "edit_write", "read_lines", "write_totals",
              "move_write", "find_active", "write_many", "charge_find",
              "charge_write", "pay_insert", "pay_prepare", "pay_settle"}

RequestState ==
    [op: Operation, pc: Statement, table: Tables \cup {NoRow},
     order: Orders \cup {NoRow}, line: Lines \cup {NoRow},
     ids: SUBSET Lines, amount: Nat, saved: Nat,
     write: UNION {[S -> LineRow] : S \in SUBSET Lines}]

(* Every row and every request in flight is of its type. *)
TypeOK == /\ order \in [Orders -> OrderRow]
          /\ line \in [Lines -> LineRow]
          /\ paid \in [Orders -> Nat]
          /\ req \in [Requests -> RequestState]

(* However requests interleave, a table never has two active orders, not   *)
(* even when an order that was paid meanwhile is charged again (the index  *)
(* is the source of truth, not findActiveByTable).                         *)
OneActiveOrderPerTable ==
    \A o, p \in Orders :
        Active(o) /\ Active(p) /\ order[o].table = order[p].table => o = p

(* No line or payment outlives its order, not even one inserted by a       *)
(* request that read the order before the table was freed; and the order a *)
(* transaction is about to update is still there.                          *)
NoOrphans ==
    /\ \A l \in Lines : LineExists(l) => OrderExists(line[l].order)
    /\ \A o \in Orders : paid[o] > 0 => OrderExists(o)
    /\ \A r \in Requests :
          req[r].pc \in {"read_lines", "write_totals", "pay_prepare", "pay_settle"}
             => OrderExists(req[r].order)

(* Freeing a table never deletes an order whose last payment was committed *)
(* first: what was paid in full stays on record, whatever races with it.   *)
PaidOrderKept ==
    [][\A o \in Orders :
         order[o].status = "paid" => OrderExists(o)' /\ paid'[o] >= paid[o]]_vars

(* totalCents is what the lines that are not cancelled cost. *)
TotalsMatchLines ==
    \A o \in Orders : order[o].total = TotalOf(o, line)

(* A guest is never asked for more than the lines on the ticket cost, even *)
(* while the kitchen moves the lines the terminal is editing.              *)
NeverOvercharged ==
    \A o \in Orders : order[o].total <= TotalOf(o, line)

(* Payments never add up to more than the order costs. *)
NoOverpayment == \A o \in Orders : paid[o] <= order[o].total

\* The requests that are past their check that nothing was paid on order o,
\* those that are past their check that o is to be paid, and those that have
\* found line l fit for what they do to it.
Editors(o) == {r \in Requests : req[r].order = o
                 /\ req[r].pc \in {"add_insert", "edit_write", "read_lines", "write_totals"}}
Payers(o) == {r \in Requests : req[r].order = o
                /\ req[r].pc \in {"charge_write", "pay_insert", "pay_prepare", "pay_settle"}}
Workers(l) == {r \in Requests : req[r].line = l \/ l \in DOMAIN req[r].write}

(* The first completed payment freezes the order as soon as the edits that *)
(* it overtook have answered: no further one gets past its check, and only *)
(* they add, reprice, delete or cancel a line or move the total.           *)
FrozenSettles ==
    [][\A o \in Orders : paid[o] > 0 /\ OrderExists(o)' =>
          /\ Editors(o)' \subseteq Editors(o)
          /\ Editors(o) = {} => order'[o].total = order[o].total
          /\ \A l \in Lines :
                \/ \E r \in Editors(o) : l \in DOMAIN req[r].write
                \/ /\ line[l].order = o <=> line'[l].order = o
                   /\ line[l].order = o => /\ line'[l].subtotal = line[l].subtotal
                                           /\ line'[l].status = "cancelled"
                                                 => line[l].status = "cancelled"]_vars

(* An order that is paid takes no further payment or bill request; it is   *)
(* reopened, or paid again, only by those that it overtook.                *)
PaidSettles ==
    [][\A o \in Orders : order[o].status = "paid" =>
          /\ Payers(o)' \subseteq Payers(o)
          /\ Payers(o) = {} => order'[o].status = "paid" /\ paid'[o] = paid[o]]_vars

(* No request sets out to change a line that is served or cancelled, so it *)
(* stays as it is once those that found it in another status have answered *)
(* - the payment of its order and a send or serve of its table included.   *)
FinishedSettles ==
    [][\A l \in Lines :
         line[l].status \in {"served", "cancelled"} =>
            /\ Workers(l)' \subseteq Workers(l)
            /\ Workers(l) = {} /\ LineExists(l)' => line'[l] = line[l]]_vars

(* A line that was sent to the kitchen is no longer edited or deleted; it  *)
(* can only be cancelled (or go with its order).                           *)
SentLineNotEdited ==
    [][\A l \in Lines, o \in Orders :
         line[l].sent /\ line[l].order = o /\ OrderExists(o)'
            => LineExists(l)' /\ line'[l].subtotal = line[l].subtotal]_vars

(* Two orders of the day have different ticket numbers, as long as no two  *)
(* of them are opened at the same time.                                    *)
TicketsDiffer ==
    \A o, p \in Orders :
        OrderExists(o) /\ OrderExists(p) /\ o # p => order[o].number # order[p].number

\* The account of an order in the abstract specification.
AccountOf(o) == [table |-> order[o].table, status |-> order[o].status,
                 total |-> order[o].total, paid |-> paid[o]]

Accounts == [o \in Orders |-> AccountOf(o)]

Ledger == INSTANCE OrderLedger
          WITH ledger <- Accounts, Totals <- 0 .. (MaxCents * Cardinality(Lines))

(* With one terminal per table, whatever the other tables and the kitchen  *)
(* do, the orders and payments are a ledger: repriced only while unpaid,   *)
(* never overpaid, closed once and for all by the payment that covers them.*)
LedgerImplemented == Ledger!Spec

(* An order is paid exactly when its payments add up to a positive total;  *)
(* before that they fall short of it: nobody pays too much, and nobody     *)
(* leaves with an open order that is covered.                              *)
AccountsBalance == Ledger!PaidInFull
=============================================================================
