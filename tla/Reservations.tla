---------------------------- MODULE Reservations ----------------------------
(***************************************************************************)
(* Table reservations of a restaurant: the requests that create one and    *)
(* those that move it to another status, as sequences of reads and writes  *)
(* of the database and of calls of the payment gateway.  None of them runs *)
(* in a transaction of several statements, so every step commits.          *)
(*                                                                         *)
(* Time is counted in slots of a day (Day of them, 24 hours), as many as   *)
(* the bounds need.  A request that its own data turns down (no name, too  *)
(* large a party, a start in the past) changes nothing and is not a step.  *)
(*                                                                         *)
(* ConflictsStarting, ChargeUnpaid, MayMoveEarly and MoveUnchecked are     *)
(* wrong forms of the definitions below them, which no action uses: each   *)
(* of them would break a property at the end.                              *)
(***************************************************************************)
EXTENDS Integers

CONSTANTS Tables, Reservations, Requests,
          Day,             \* slots of a day
          MaxStart,        \* the last slot a reservation can start at
          MaxLength,       \* the longest reservation, in slots
          Opens, Closes,   \* the service window, in slots of a day
          Failures,        \* TRUE: the database may fail after the deposit
          NoRow            \* "no such row"

ASSUME ReservationsAssumption ==
    /\ Day \in Nat \ {0} /\ MaxStart \in Nat /\ MaxLength \in Nat \ {0}
    /\ Opens \in 0 .. (Day - 1) /\ Closes \in Opens .. (Day - 1)
    /\ Failures \in BOOLEAN
    /\ NoRow \notin Reservations

VARIABLES reservation,   \* rows of reservations and reservation_tables
          unused,        \* a deposit was charged and no reservation came of it
          req,           \* requests in flight
          known          \* history: the reservations that have held their
                         \* tables since before each request came in

vars == <<reservation, unused, req, known>>

-----------------------------------------------------------------------------

Status == {"pending", "confirmed", "seated", "cancelled", "no_show"}

Slot == 0 .. MaxStart
Length == 1 .. MaxLength

Row == [status: Status \cup {"absent"}, tables: SUBSET Tables,
        start: Slot, length: Length,
        paid: BOOLEAN]   \* the gateway took its deposit

Absent == [status |-> "absent", tables |-> {}, start |-> 0, length |-> 1,
           paid |-> FALSE]

Exists(b) == reservation[b].status # "absent"

\* Its tables are taken.
Holding == {"pending", "confirmed", "seated"}
Holds(b) == reservation[b].status \in Holding

\* A creating request remembers the row it will insert and the tables it has
\* still to check, a moving one which reservation goes to which status.
Idle == [pc |-> "idle", row |-> Absent, left |-> {}, valid |-> TRUE,
         target |-> NoRow, to |-> "pending"]

Finish(r) == /\ req' = [req EXCEPT ![r] = Idle]
             /\ known' = [known EXCEPT ![r] = {}]

Overlap(x, y) ==
    x.start < y.start + y.length /\ y.start < x.start + x.length

Init == /\ reservation = [b \in Reservations |-> Absent]
        /\ unused = FALSE
        /\ req = [r \in Requests |-> Idle]
        /\ known = [r \in Requests |-> {}]

-----------------------------------------------------------------------------
(* Creating a reservation                                                  *)

\* valid: the table ids of the body are tables of the restaurant, each once.
Create(r, tables, start, length, valid) ==
    /\ req[r].pc = "idle"
    /\ req' = [req EXCEPT ![r] =
         [Idle EXCEPT !.pc = "conflicts", !.left = tables, !.valid = valid,
                      !.row = [status |-> "pending", tables |-> tables,
                               start |-> start, length |-> length,
                               paid |-> FALSE]]]
    /\ known' = [known EXCEPT ![r] = {b \in Reservations : Holds(b)}]
    /\ UNCHANGED <<reservation, unused>>

\* findConflictingReservations: only what starts within a day before counts.
ConflictsStarting(t, row) ==
    {b \in Reservations :
       /\ reservation[b].status \notin {"absent", "cancelled", "no_show"}
       /\ t \in reservation[b].tables
       /\ reservation[b].start >= row.start
       /\ Overlap(reservation[b], row)}
Conflicts(t, row) ==
    {b \in Reservations :
       /\ reservation[b].status \notin {"absent", "cancelled", "no_show"}
       /\ t \in reservation[b].tables
       /\ reservation[b].start >= row.start - Day
       /\ Overlap(reservation[b], row)}

CheckTable(r) ==
    /\ req[r].pc = "conflicts"
    /\ \E t \in req[r].left :
         /\ Conflicts(t, req[r].row) = {}
         /\ req' = [req EXCEPT ![r].left = @ \ {t}]
    /\ UNCHANGED <<reservation, unused, known>>

\* Start and end fit the service window as times of day (HH:MM), the end of a
\* reservation that goes past midnight being a time of the next morning.
FitsWindow(row) ==
    /\ row.start % Day >= Opens
    /\ (row.start + row.length) % Day <= Closes

CheckWindow(r) ==
    /\ req[r].pc = "conflicts" /\ req[r].left = {}
    /\ FitsWindow(req[r].row)
    /\ req' = [req EXCEPT ![r].pc = "charge"]
    /\ UNCHANGED <<reservation, unused, known>>

\* The gateway approves the deposit, or the request ends in Abort.
ChargeUnpaid(r) ==
    /\ req[r].pc = "charge"
    /\ req' = [req EXCEPT ![r].pc = "tables"]
    /\ UNCHANGED <<reservation, unused, known>>
Charge(r) ==
    /\ req[r].pc = "charge"
    /\ req' = [req EXCEPT ![r].pc = "tables", ![r].row.paid = TRUE]
    /\ UNCHANGED <<reservation, unused, known>>

\* createReservation looks the tables up again: all of them, or none.
FindTables(r) ==
    /\ req[r].pc = "tables" /\ req[r].valid
    /\ req' = [req EXCEPT ![r].pc = "insert"]
    /\ UNCHANGED <<reservation, unused, known>>

RejectTables(r) ==
    /\ req[r].pc = "tables" /\ ~req[r].valid
    /\ unused' = (unused \/ req[r].row.paid)
    /\ Finish(r)
    /\ UNCHANGED reservation

Insert(r) ==
    /\ req[r].pc = "insert"
    /\ \E b \in Reservations :
         /\ ~Exists(b)
         /\ reservation' = [reservation EXCEPT ![b] = req[r].row]
    /\ Finish(r)
    /\ UNCHANGED unused

-----------------------------------------------------------------------------
(* Moving a reservation to another status                                  *)

\* canTransitionReservationStatus
MayMoveEarly(from, to) ==
    \/ from = to
    \/ from = "pending" /\ to \in {"confirmed", "seated", "cancelled"}
    \/ from = "confirmed" /\ to \in {"seated", "no_show", "cancelled"}
MayMove(from, to) ==
    \/ from = to
    \/ from = "pending" /\ to \in {"confirmed", "cancelled"}
    \/ from = "confirmed" /\ to \in {"seated", "no_show", "cancelled"}

MoveUnchecked(r, b, to) ==
    /\ req[r].pc = "idle" /\ Exists(b)
    /\ req' = [req EXCEPT ![r] =
         [Idle EXCEPT !.pc = "move", !.target = b, !.to = to]]
    /\ UNCHANGED <<reservation, unused, known>>
MoveCheck(r, b, to) ==
    /\ req[r].pc = "idle" /\ Exists(b)
    /\ MayMove(reservation[b].status, to)
    /\ req' = [req EXCEPT ![r] =
         [Idle EXCEPT !.pc = "move", !.target = b, !.to = to]]
    /\ UNCHANGED <<reservation, unused, known>>

\* The row is written by its id, whatever its status is by now.
MoveWrite(r) ==
    /\ req[r].pc = "move"
    /\ reservation' = [reservation EXCEPT ![req[r].target].status = req[r].to]
    /\ req' = [req EXCEPT ![r] = Idle]
    /\ known' = IF req[r].to \in Holding THEN known
                ELSE [q \in Requests |-> known[q] \ {req[r].target}]
    /\ UNCHANGED unused

\* The request ends without having changed anything: a table is taken or too
\* small, the hours do not fit, the deposit is declined, the database fails.
Abort(r) ==
    /\ req[r].pc # "idle"
    /\ req[r].pc \in {"tables", "insert"} => Failures
    /\ unused' = (unused \/ req[r].row.paid)
    /\ Finish(r)
    /\ UNCHANGED reservation

-----------------------------------------------------------------------------

Creating(r) ==
    \/ \E tables \in SUBSET Tables, start \in Slot, length \in Length,
          valid \in BOOLEAN : Create(r, tables, start, length, valid)
    \/ CheckTable(r) \/ CheckWindow(r) \/ Charge(r)
    \/ FindTables(r) \/ RejectTables(r) \/ Insert(r)

Moving(r) ==
    \/ \E b \in Reservations, to \in Status \ {"pending"} : MoveCheck(r, b, to)
    \/ MoveWrite(r)

Next == \E r \in Requests : Creating(r) \/ Moving(r) \/ Abort(r)

Spec == Init /\ [][Next]_vars

-----------------------------------------------------------------------------
(* Correctness                                                             *)

Request == [pc: {"idle", "conflicts", "charge", "tables", "insert", "move"},
            row: Row, left: SUBSET Tables, valid: BOOLEAN,
            target: Reservations \cup {NoRow}, to: Status]

(* Rows and requests in flight are of their types; a stored reservation had *)
(* its deposit charged, whatever failed or overlapped on the way.           *)
TypeOK == /\ reservation \in [Reservations -> Row]
          /\ unused \in BOOLEAN
          /\ req \in [Requests -> Request]
          /\ known \in [Requests -> SUBSET Reservations]
          /\ \A b \in Reservations : Exists(b) => reservation[b].paid

(* No table is promised to two parties at the same time: a creating request *)
(* looks for overlapping reservations of each of its tables.                *)
NoDoubleBooking ==
    \A b, c \in Reservations :
        /\ b # c
        /\ Holds(b) /\ Holds(c)
        /\ reservation[b].tables \cap reservation[c].tables # {}
        => ~Overlap(reservation[b], reservation[c])

(* However requests interleave, nobody is charged, let alone booked in, for *)
(* a table that was taken all along: a request that is past its checks      *)
(* overlaps no reservation that has held one of its tables since before it  *)
(* came in and lasts no longer than the day the search looks back.          *)
TakenIsRefused ==
    \A r \in Requests : req[r].pc \in {"charge", "tables", "insert"} =>
       \A b \in known[r] :
          /\ reservation[b].length <= Day
          /\ reservation[b].tables \cap req[r].row.tables # {}
          => ~Overlap(reservation[b], req[r].row)

\* The status changes of b that have been allowed and not written yet.
Moves(b) == {r \in Requests : req[r].pc = "move" /\ req[r].target = b}

(* A reservation that is seated, cancelled or a no-show is only moved by a  *)
(* change that was allowed before it became so: no other one is, and        *)
(* without any it stays what it is.                                         *)
FinalSettles ==
    [][\A b \in Reservations :
         reservation[b].status \in {"seated", "cancelled", "no_show"} =>
            /\ \A r \in Moves(b)' : r \in Moves(b) \/ req'[r].to = reservation[b].status
            /\ (\A r \in Moves(b) : req[r].to = reservation[b].status)
                  => reservation'[b].status = reservation[b].status]_vars

(* However requests interleave, only a reservation that was confirmed at   *)
(* some time is seated or counted as a no-show.                            *)
SeatedWasConfirmed ==
    [][\A b \in Reservations :
         reservation[b].status \in {"absent", "pending"}
            => reservation'[b].status \notin {"seated", "no_show"}]_vars

(* The deposit is charged after every check: whoever paid has the          *)
(* reservation or will have it with the next statement.                    *)
EveryDepositUsed == ~unused

(* A reservation lies within the service window of one day, as the creating *)
(* request checks before it charges the deposit.                            *)
WithinServiceHours ==
    \A b \in Reservations : Exists(b) =>
        /\ reservation[b].start % Day >= Opens
        /\ (reservation[b].start % Day) + reservation[b].length <= Closes
=============================================================================
