------------------------ MODULE Reservations_proofs ------------------------
(***************************************************************************)
(* What holds of reservations for every number of tables, reservations and *)
(* concurrent requests, however they interleave: types and deposits, that  *)
(* only confirmed ones are seated, that a table taken all along is not     *)
(* booked again, and that a final status is only left by an earlier change.*)
(***************************************************************************)
EXTENDS Reservations, TLAPS

\* What a request knows between its statements.  A moving one has seen its
\* reservation confirmed if it makes it seated or a no-show.
RequestShape(r) ==
    /\ req[r].pc \in {"conflicts", "charge", "tables", "insert"} =>
          req[r].row.status = "pending"
    /\ req[r].pc \in {"tables", "insert"} => req[r].row.paid
    /\ req[r].pc = "move" =>
          /\ req[r].target \in Reservations
          /\ Exists(req[r].target)
          /\ req[r].to # "pending"
          /\ req[r].to \in {"seated", "no_show"} =>
                reservation[req[r].target].status # "pending"

Inv == TypeOK /\ \A r \in Requests : RequestShape(r)

LEMMA IdleType == Idle \in Request /\ Absent \in Row
  BY ReservationsAssumption DEF Idle, Absent, Request, Row, Status, Slot, Length

LEMMA InitInv == Init => Inv
<1> SUFFICES ASSUME Init PROVE Inv
  OBVIOUS
<1>1. TypeOK
  BY IdleType DEF Init, TypeOK, Exists, Absent
<1>2. \A r \in Requests : req[r].pc = "idle"
  BY DEF Init, Idle
<1>3. QED
  BY <1>1, <1>2 DEF Inv, RequestShape

\* A request that ends leaves the others, and the stored rows, as they are.
LEMMA FinishInv ==
  ASSUME Inv, NEW r \in Requests, Finish(r), UNCHANGED reservation,
         unused' \in BOOLEAN
  PROVE  Inv'
<1>1. TypeOK'
  BY IdleType DEF Inv, TypeOK, Finish, Exists
<1>2. ASSUME NEW q \in Requests PROVE RequestShape(q)'
  <2>1. req'[q] = IF q = r THEN Idle ELSE req[q]
    BY DEF Finish, Inv, TypeOK
  <2>2. QED
    BY <2>1 DEF Inv, RequestShape, Exists, Idle
<1>3. QED
  BY <1>1, <1>2 DEF Inv

\* A request that goes on without touching the rows keeps the invariant if
\* its own shape is right.
LEMMA ReadInv ==
  ASSUME Inv, NEW r \in Requests, NEW q \in Request,
         req' = [req EXCEPT ![r] = q], UNCHANGED <<reservation, unused>>,
         known' \in [Requests -> SUBSET Reservations],
         RequestShape(r)'
  PROVE  Inv'
<1>1. TypeOK'
  BY DEF Inv, TypeOK, Exists
<1>2. ASSUME NEW p \in Requests \ {r} PROVE RequestShape(p)'
  <2>1. req'[p] = req[p]
    BY DEF Inv, TypeOK
  <2>2. QED
    BY <2>1 DEF Inv, RequestShape, Exists
<1>3. QED
  BY <1>1, <1>2 DEF Inv

LEMMA CreateInv ==
  ASSUME Inv, NEW r \in Requests, NEW tables \in SUBSET Tables,
         NEW start \in Slot, NEW length \in Length, NEW valid \in BOOLEAN,
         Create(r, tables, start, length, valid)
  PROVE  Inv'
<1> DEFINE row == [status |-> "pending", tables |-> tables, start |-> start,
                   length |-> length, paid |-> FALSE]
           q == [Idle EXCEPT !.pc = "conflicts", !.left = tables,
                             !.valid = valid, !.row = row]
<1>1. row \in Row /\ row.status = "pending"
  BY DEF Row, Status
<1>2. q \in Request /\ q.pc = "conflicts" /\ q.row = row
  <2> HIDE DEF row
  <2>1. QED
    BY <1>1, IdleType DEF Request
<1>3. /\ req' = [req EXCEPT ![r] = q] /\ UNCHANGED <<reservation, unused>>
      /\ known' \in [Requests -> SUBSET Reservations]
  BY DEF Create, Inv, TypeOK
<1>4. RequestShape(r)'
  <2>1. req'[r] = q
    BY <1>3 DEF Inv, TypeOK
  <2>2. QED
    BY <1>1, <1>2, <2>1 DEF RequestShape
<1>5. QED
  BY <1>2, <1>3, <1>4, ReadInv

\* The steps of a creating request between its first and its last statement.
LEMMA CheckInv ==
  ASSUME Inv, NEW r \in Requests,
         CheckTable(r) \/ CheckWindow(r) \/ Charge(r) \/ FindTables(r)
  PROVE  Inv'
<1>1. req[r] \in Request /\ RequestShape(r)
  BY DEF Inv, TypeOK
<1>2. /\ UNCHANGED <<reservation, unused>>
      /\ known' \in [Requests -> SUBSET Reservations]
  BY DEF CheckTable, CheckWindow, Charge, FindTables, Inv, TypeOK
<1>3. CASE CheckTable(r)
  <2>1. PICK t \in req[r].left : req' = [req EXCEPT ![r].left = @ \ {t}]
    BY <1>3 DEF CheckTable
  <2> DEFINE q == [req[r] EXCEPT !.left = @ \ {t}]
  <2>2. q \in Request
    BY <1>1 DEF Request
  <2>3. req' = [req EXCEPT ![r] = q] /\ req'[r] = q
    BY <2>1 DEF Inv, TypeOK
  <2>4. q.pc = "conflicts" /\ q.row = req[r].row
    BY <1>1, <1>3 DEF Request, CheckTable
  <2>5. RequestShape(r)'
    BY <1>1, <1>3, <2>3, <2>4 DEF RequestShape, CheckTable
  <2>6. QED
    BY <1>2, <2>2, <2>3, <2>5, ReadInv
<1>4. CASE CheckWindow(r) \/ FindTables(r)
  <2> DEFINE to == IF req[r].pc = "conflicts" THEN "charge" ELSE "insert"
             q == [req[r] EXCEPT !.pc = to]
  <2>1. q \in Request
    BY <1>1 DEF Request
  <2>2. req' = [req EXCEPT ![r] = q] /\ req'[r] = q
    BY <1>4 DEF CheckWindow, FindTables, Inv, TypeOK
  <2>3. q.pc = to /\ q.row = req[r].row
    BY <1>1 DEF Request
  <2>4. RequestShape(r)'
    BY <1>1, <1>4, <2>2, <2>3 DEF RequestShape, CheckWindow, FindTables
  <2>5. QED
    BY <1>2, <2>1, <2>2, <2>4, ReadInv
<1>5. CASE Charge(r)
  <2> DEFINE row == [req[r].row EXCEPT !.paid = TRUE]
             q == [req[r] EXCEPT !.pc = "tables", !.row = row]
  <2>1. q \in Request
    BY <1>1 DEF Request, Row
  <2>2. req' = [req EXCEPT ![r] = q] /\ req'[r] = q
    BY <1>5 DEF Charge, Inv, TypeOK
  <2>3. q.pc = "tables" /\ q.row.paid /\ q.row.status = req[r].row.status
    BY <1>1 DEF Request, Row
  <2>4. RequestShape(r)'
    BY <1>1, <1>5, <2>2, <2>3 DEF RequestShape, Charge
  <2>5. QED
    BY <1>2, <2>1, <2>2, <2>4, ReadInv
<1>6. QED
  BY <1>3, <1>4, <1>5

LEMMA InsertInv ==
  ASSUME Inv, NEW r \in Requests, Insert(r)
  PROVE  Inv'
<1>1. PICK b \in Reservations :
         ~Exists(b) /\ reservation' = [reservation EXCEPT ![b] = req[r].row]
  BY DEF Insert
<1>2. req[r].row \in Row /\ req[r].row.status = "pending" /\ req[r].row.paid
  BY DEF Insert, Inv, TypeOK, Request, RequestShape
<1>3. \A c \in Reservations :
         reservation'[c] = IF c = b THEN req[r].row ELSE reservation[c]
  BY <1>1 DEF Inv, TypeOK
<1>4. TypeOK'
  BY <1>1, <1>2, <1>3, IdleType DEF Insert, Finish, Inv, TypeOK, Exists
<1>5. ASSUME NEW q \in Requests PROVE RequestShape(q)'
  <2>1. req'[q] = IF q = r THEN Idle ELSE req[q]
    BY DEF Insert, Finish, Inv, TypeOK
  <2>2. RequestShape(q)
    BY DEF Inv
  <2>3. QED
    BY <1>1, <1>2, <1>3, <2>1, <2>2 DEF RequestShape, Exists, Idle
<1>6. QED
  BY <1>4, <1>5 DEF Inv

LEMMA MoveCheckInv ==
  ASSUME Inv, NEW r \in Requests, NEW b \in Reservations,
         NEW to \in Status \ {"pending"}, MoveCheck(r, b, to)
  PROVE  Inv'
<1> DEFINE q == [Idle EXCEPT !.pc = "move", !.target = b, !.to = to]
<1>1. q \in Request /\ q.pc = "move" /\ q.target = b /\ q.to = to
  BY IdleType DEF Request
<1>2. /\ req' = [req EXCEPT ![r] = q] /\ req'[r] = q
      /\ UNCHANGED <<reservation, unused>>
      /\ known' \in [Requests -> SUBSET Reservations]
  BY DEF MoveCheck, Inv, TypeOK
<1>3. RequestShape(r)'
  <2> HIDE DEF q
  <2>1. QED
    BY <1>1, <1>2 DEF RequestShape, MoveCheck, MayMove, Exists
<1>4. QED
  BY <1>1, <1>2, <1>3, ReadInv

LEMMA MoveWriteInv ==
  ASSUME Inv, NEW r \in Requests, MoveWrite(r)
  PROVE  Inv'
<1> DEFINE b == req[r].target
<1>1. /\ b \in Reservations /\ Exists(b) /\ reservation[b] \in Row
      /\ req[r].to \in Status \ {"pending"}
  BY DEF MoveWrite, Inv, TypeOK, Request, RequestShape
<1>2. \A c \in Reservations :
         reservation'[c] = IF c = b THEN [reservation[c] EXCEPT !.status = req[r].to]
                           ELSE reservation[c]
  BY <1>1 DEF MoveWrite, Inv, TypeOK
<1>3. /\ reservation'[b] \in Row /\ reservation'[b].status = req[r].to
      /\ reservation'[b].paid = reservation[b].paid
  BY <1>1, <1>2 DEF Row
<1>4. TypeOK'
  <2>1. reservation' \in [Reservations -> Row]
    BY <1>1, <1>3 DEF MoveWrite, Inv, TypeOK
  <2>2. \A c \in Reservations : Exists(c)' => reservation'[c].paid
    BY <1>1, <1>2, <1>3 DEF Inv, TypeOK, Exists
  <2>3. /\ req' \in [Requests -> Request] /\ unused' \in BOOLEAN
        /\ known' \in [Requests -> SUBSET Reservations]
    BY IdleType DEF MoveWrite, Inv, TypeOK
  <2>4. QED
    BY <2>1, <2>2, <2>3 DEF TypeOK
<1>5. ASSUME NEW q \in Requests PROVE RequestShape(q)'
  <2>1. req'[q] = IF q = r THEN Idle ELSE req[q]
    BY DEF MoveWrite, Inv, TypeOK
  <2>2. RequestShape(q)
    BY DEF Inv
  <2>3. \A c \in Reservations : c # b => reservation'[c] = reservation[c]
    BY <1>2
  <2>4. reservation'[b].status \notin {"absent", "pending"}
    BY <1>1, <1>3 DEF Status
  <2>5. QED
    BY <2>1, <2>2, <2>3, <2>4 DEF RequestShape, Exists, Idle
<1>6. QED
  BY <1>4, <1>5 DEF Inv

LEMMA StepInv == Inv /\ [Next]_vars => Inv'
<1> SUFFICES ASSUME Inv, [Next]_vars PROVE Inv'
  OBVIOUS
<1>1. CASE UNCHANGED vars
  BY <1>1 DEF vars, Inv, TypeOK, RequestShape, Exists
<1>2. ASSUME NEW r \in Requests, RejectTables(r) \/ Abort(r) PROVE Inv'
  <2>1. Finish(r) /\ UNCHANGED reservation /\ unused' \in BOOLEAN
    BY <1>2 DEF RejectTables, Abort, Inv, TypeOK, Request, Row
  <2>2. QED
    BY <2>1, FinishInv
<1>3. ASSUME NEW r \in Requests, Creating(r) PROVE Inv'
  BY <1>2, <1>3, CreateInv, CheckInv, InsertInv DEF Creating
<1>4. ASSUME NEW r \in Requests, Moving(r) PROVE Inv'
  BY <1>4, MoveCheckInv, MoveWriteInv DEF Moving
<1>5. QED
  BY <1>1, <1>2, <1>3, <1>4 DEF Next

-----------------------------------------------------------------------------
(* In every reachable state a request in flight has the shape its next     *)
(* statement relies on.                                                    *)
THEOREM ReservationInvariant == Spec => []Inv
  BY InitInv, StepInv, PTL DEF Spec

(* Rows and requests keep their types, and no reservation is stored        *)
(* without its deposit.                                                    *)
THEOREM ReservationTypeCorrect == Spec => []TypeOK
<1>1. Inv => TypeOK
  BY DEF Inv
<1>2. QED
  BY <1>1, ReservationInvariant, PTL

(* No interleaving of any number of requests seats a reservation, or makes *)
(* it a no-show, that was never confirmed.                                 *)
THEOREM SeatedWasConfirmedHolds == Spec => SeatedWasConfirmed
<1> DEFINE Kept == \A b \in Reservations :
             reservation[b].status \in {"absent", "pending"}
                => reservation'[b].status \notin {"seated", "no_show"}
<1>1. Inv /\ [Next]_vars => [Kept]_vars
  <2> SUFFICES ASSUME Inv, Next PROVE Kept
    OBVIOUS
  <2>1. ASSUME UNCHANGED reservation PROVE Kept
    BY <2>1
  <2>2. ASSUME NEW r \in Requests, Insert(r) PROVE Kept
    <3>1. req[r].row.status = "pending"
      BY <2>2 DEF Insert, Inv, RequestShape
    <3>2. QED
      BY <2>2, <3>1 DEF Insert, Inv, TypeOK
  <2>3. ASSUME NEW r \in Requests, MoveWrite(r) PROVE Kept
    <3>1. RequestShape(r) /\ req[r].pc = "move"
      BY <2>3 DEF MoveWrite, Inv
    <3>2. \A b \in Reservations :
             reservation'[b] = IF b = req[r].target
                               THEN [reservation[b] EXCEPT !.status = req[r].to]
                               ELSE reservation[b]
      BY <2>3 DEF MoveWrite, Inv, TypeOK
    <3>3. reservation'[req[r].target].status = req[r].to
      BY <3>1, <3>2 DEF RequestShape, Inv, TypeOK, Row
    <3>4. QED
      BY <3>1, <3>2, <3>3 DEF RequestShape, Exists
  <2>4. QED
    BY <2>1, <2>2, <2>3
    DEF Next, Creating, Moving, Create, CheckTable, CheckWindow, Charge,
        FindTables, RejectTables, MoveCheck, Abort
<1>2. QED
  BY <1>1, ReservationInvariant, PTL DEF Spec, SeatedWasConfirmed

-----------------------------------------------------------------------------
(* Tables that were taken all along                                        *)

Creates(r) == req[r].pc \in {"conflicts", "charge", "tables", "insert"}

\* What a creating request has found out about the reservations that were there
\* before it: they still hold their tables, and none of those it has checked
\* off is theirs when they overlap.
Checked(r) ==
    /\ req[r].pc \in {"charge", "tables", "insert"} => req[r].left = {}
    /\ Creates(r) => \A b \in known[r] :
          /\ Holds(b)
          /\ reservation[b].length <= Day =>
                \A t \in (reservation[b].tables \cap req[r].row.tables) \ req[r].left :
                   ~Overlap(reservation[b], req[r].row)

AllChecked == \A r \in Requests : Checked(r)

\* A reservation no longer than a day that overlaps is found by the search.
LEMMA NoConflictNoOverlap ==
  ASSUME Inv, NEW row \in Row, NEW t, Conflicts(t, row) = {},
         NEW b \in Reservations, Holds(b), t \in reservation[b].tables,
         reservation[b].length <= Day
  PROVE  ~Overlap(reservation[b], row)
<1>1. reservation[b] \in Row
  BY DEF Inv, TypeOK
<1>2. ~(reservation[b].start >= row.start - Day /\ Overlap(reservation[b], row))
  BY DEF Conflicts, Holds, Holding
<1>3. /\ reservation[b].start \in Nat /\ reservation[b].length \in Nat
      /\ row.start \in Nat
  BY <1>1, ReservationsAssumption DEF Row, Slot, Length
<1>4. QED
  BY <1>2, <1>3, ReservationsAssumption DEF Overlap

\* A request that is not creating a reservation has nothing to have checked.
LEMMA NothingToCheck ==
  ASSUME NEW r \in Requests, req[r].pc \in {"idle", "move"}
  PROVE  Checked(r)
  BY DEF Checked, Creates

\* The rows keep their tables and times, and what leaves the books is forgotten:
\* the other requests still know what they found out.
LEMMA OthersChecked ==
  ASSUME Inv, AllChecked, NEW r \in Requests, NEW q \in Requests \ {r},
         req'[q] = req[q], known'[q] \subseteq known[q],
         \A b \in known'[q] :
            /\ Holds(b)'
            /\ reservation'[b].tables = reservation[b].tables
            /\ reservation'[b].start = reservation[b].start
            /\ reservation'[b].length = reservation[b].length
  PROVE  Checked(q)'
<1>1. Checked(q)
  BY DEF AllChecked
<1>2. QED
  BY <1>1 DEF Checked, Creates, Overlap

LEMMA CheckedStep == Inv /\ AllChecked /\ [Next]_vars => AllChecked'
<1> SUFFICES ASSUME Inv, AllChecked, [Next]_vars PROVE AllChecked'
  OBVIOUS
<1>1. CASE UNCHANGED vars
  BY <1>1 DEF vars, AllChecked, Checked, Creates, Holds
\* One request goes on and no row changes: the others are as they were.
<1>2. ASSUME NEW r \in Requests, NEW x, NEW k, req' = [req EXCEPT ![r] = x],
             known' = [known EXCEPT ![r] = k], UNCHANGED reservation, Checked(r)'
      PROVE  AllChecked'
  <2>1. ASSUME NEW q \in Requests \ {r} PROVE Checked(q)'
    <3>1. req'[q] = req[q] /\ known'[q] = known[q] /\ Checked(q)
      BY <1>2 DEF Inv, TypeOK, AllChecked
    <3>2. QED
      BY <1>2, <3>1 DEF Checked, Creates, Holds
  <2>2. QED
    BY <1>2, <2>1 DEF AllChecked
<1>3. ASSUME NEW r \in Requests, Finish(r) PROVE req'[r].pc = "idle" /\ Checked(r)'
  <2>1. req'[r].pc = "idle"
    BY <1>3 DEF Finish, Inv, TypeOK, Idle
  <2>2. QED
    BY <2>1 DEF Checked, Creates
<1>4. ASSUME NEW r \in Requests, RejectTables(r) \/ Abort(r) PROVE AllChecked'
  BY <1>2, <1>3, <1>4 DEF RejectTables, Abort, Finish
<1>5. ASSUME NEW r \in Requests, NEW tables \in SUBSET Tables,
             NEW start \in Slot, NEW length \in Length, NEW valid \in BOOLEAN,
             Create(r, tables, start, length, valid)
      PROVE  AllChecked'
  <2> DEFINE row == [status |-> "pending", tables |-> tables, start |-> start,
                     length |-> length, paid |-> FALSE]
             x == [Idle EXCEPT !.pc = "conflicts", !.left = tables,
                               !.valid = valid, !.row = row]
             k == {b \in Reservations : Holds(b)}
  <2>1. x.pc = "conflicts" /\ x.row.tables = x.left
    BY IdleType DEF Request
  <2>2. /\ req'[r] = x /\ req' = [req EXCEPT ![r] = x] /\ UNCHANGED reservation
        /\ known'[r] = k /\ known' = [known EXCEPT ![r] = k]
    BY <1>5 DEF Create, Inv, TypeOK
  <2>3. \A b \in k : Holds(b)'
    BY <2>2 DEF Holds
  <2>4. Checked(r)'
    <3> HIDE DEF x, k
    <3>1. QED
      BY <2>1, <2>2, <2>3 DEF Checked
  <2>5. QED
    <3> HIDE DEF x, k
    <3>1. QED
      BY <1>2, <2>2, <2>4
<1>6. ASSUME NEW r \in Requests, CheckTable(r) PROVE AllChecked'
  <2>1. PICK t \in req[r].left :
          /\ Conflicts(t, req[r].row) = {}
          /\ req' = [req EXCEPT ![r].left = @ \ {t}]
    BY <1>6 DEF CheckTable
  <2>2. /\ req[r] \in Request /\ req[r].row \in Row /\ Checked(r)
        /\ req[r].pc = "conflicts" /\ UNCHANGED <<reservation, known>>
        /\ known[r] \subseteq Reservations
    BY <1>6 DEF CheckTable, Inv, TypeOK, Request, AllChecked
  <2>3. /\ req'[r].pc = "conflicts" /\ req'[r].row = req[r].row
        /\ req'[r].left = req[r].left \ {t}
    BY <2>1, <2>2 DEF Inv, TypeOK, Request
  <2>4. ASSUME NEW b \in known[r], reservation[b].length <= Day,
               NEW u \in (reservation[b].tables \cap req[r].row.tables)
                          \ (req[r].left \ {t})
        PROVE  ~Overlap(reservation[b], req[r].row)
    <3>1. b \in Reservations /\ Holds(b)
      BY <2>2, <2>4 DEF Checked, Creates
    <3>2. CASE u = t
      BY <2>1, <2>2, <2>4, <3>1, <3>2, NoConflictNoOverlap
    <3>3. CASE u \notin req[r].left
      BY <2>2, <2>4, <3>3 DEF Checked, Creates
    <3>4. QED
      BY <3>2, <3>3
  <2>5. \A b \in known[r] : Holds(b)'
    BY <2>2 DEF Checked, Creates, Holds
  <2>6. Checked(r)'
    BY <2>2, <2>3, <2>4, <2>5 DEF Checked, Overlap
  <2>7. known' = [known EXCEPT ![r] = known[r]]
    BY <2>2 DEF Inv, TypeOK
  <2>8. QED
    BY <1>2, <2>1, <2>2, <2>6, <2>7
<1>7. ASSUME NEW r \in Requests, CheckWindow(r) \/ Charge(r) \/ FindTables(r)
      PROVE  AllChecked'
  <2>1. req[r] \in Request /\ req[r].row \in Row /\ Checked(r)
    BY DEF Inv, TypeOK, Request, AllChecked
  <2>2. /\ req'[r].pc \in {"charge", "tables", "insert"}
        /\ req'[r].left = {} /\ req[r].left = {}
        /\ req'[r].row.tables = req[r].row.tables
        /\ req'[r].row.start = req[r].row.start
        /\ req'[r].row.length = req[r].row.length
        /\ req[r].pc \in {"conflicts", "charge", "tables"}
        /\ UNCHANGED <<reservation, known>>
    <3>1. CASE CheckWindow(r) \/ FindTables(r)
      BY <2>1, <3>1 DEF CheckWindow, FindTables, Checked, Inv, TypeOK, Request
    <3>2. CASE Charge(r)
      <4>1. req'[r] = [req[r] EXCEPT !.pc = "tables",
                                     !.row = [req[r].row EXCEPT !.paid = TRUE]]
        BY <3>2 DEF Charge, Inv, TypeOK
      <4>2. req[r].pc = "charge" /\ UNCHANGED <<reservation, known>>
        BY <3>2 DEF Charge
      <4>3. QED
        BY <2>1, <4>1, <4>2 DEF Checked, Request, Row
    <3>3. QED
      BY <1>7, <3>1, <3>2
  <2>3. Checked(r)'
    BY <2>1, <2>2 DEF Checked, Creates, Holds, Overlap
  <2>4. known' = [known EXCEPT ![r] = known[r]]
    BY <2>2 DEF Inv, TypeOK
  <2>5. QED
    <3>1. PICK x : req' = [req EXCEPT ![r] = x]
      <4>1. CASE CheckWindow(r)
        <5>1. req' = [req EXCEPT ![r] = [req[r] EXCEPT !.pc = "charge"]]
          BY <4>1 DEF CheckWindow
        <5>2. QED
          BY <5>1
      <4>2. CASE Charge(r)
        <5>1. req' = [req EXCEPT ![r] = [[req[r] EXCEPT !.pc = "tables"]
                                           EXCEPT !.row.paid = TRUE]]
          BY <4>2 DEF Charge
        <5>2. QED
          BY <5>1
      <4>3. CASE FindTables(r)
        <5>1. req' = [req EXCEPT ![r] = [req[r] EXCEPT !.pc = "insert"]]
          BY <4>3 DEF FindTables
        <5>2. QED
          BY <5>1
      <4>4. QED
        BY <1>7, <4>1, <4>2, <4>3
    <3>2. QED
      BY <1>2, <2>2, <2>3, <2>4, <3>1
<1>8. ASSUME NEW r \in Requests, Insert(r) PROVE AllChecked'
  <2>1. PICK b \in Reservations :
           ~Exists(b) /\ reservation' = [reservation EXCEPT ![b] = req[r].row]
    BY <1>8 DEF Insert
  <2>2. Finish(r)
    BY <1>8 DEF Insert
  <2>3. ASSUME NEW q \in Requests \ {r} PROVE Checked(q)'
    <3>1. /\ req'[q] = req[q] /\ known'[q] = known[q] /\ Checked(q)
          /\ known[q] \subseteq Reservations
      BY <2>2 DEF Finish, Inv, TypeOK, AllChecked
    <3>2. CASE ~Creates(q)
      BY <3>1, <3>2 DEF Checked, Creates
    <3>3. CASE Creates(q)
      <4>1. \A c \in known[q] : Holds(c) /\ c # b
        BY <2>1, <3>1, <3>3 DEF Checked, Holds, Holding, Exists
      <4>2. \A c \in known[q] : reservation'[c] = reservation[c]
        BY <2>1, <3>1, <4>1 DEF Inv, TypeOK
      <4>3. QED
        BY <3>1, <4>1, <4>2, OthersChecked DEF Holds
    <3>4. QED
      BY <3>2, <3>3
  <2>4. QED
    BY <1>3, <2>2, <2>3 DEF AllChecked
<1>9. ASSUME NEW r \in Requests, NEW b \in Reservations, NEW to \in Status,
             MoveCheck(r, b, to)
      PROVE  AllChecked'
  <2> DEFINE x == [Idle EXCEPT !.pc = "move", !.target = b, !.to = to]
  <2>1. x.pc = "move"
    BY IdleType DEF Request
  <2>2. /\ req'[r] = x /\ req' = [req EXCEPT ![r] = x] /\ UNCHANGED reservation
        /\ known' = [known EXCEPT ![r] = known[r]]
    BY <1>9 DEF MoveCheck, Inv, TypeOK
  <2>3. Checked(r)'
    <3> HIDE DEF x
    <3>1. QED
      BY <2>1, <2>2 DEF Checked, Creates
  <2>4. QED
    <3> HIDE DEF x
    <3>1. QED
      BY <1>2, <2>2, <2>3
<1>10. ASSUME NEW r \in Requests, MoveWrite(r) PROVE AllChecked'
  <2> DEFINE b == req[r].target
  <2>1. b \in Reservations /\ req' = [req EXCEPT ![r] = Idle]
    BY <1>10 DEF MoveWrite, Inv, RequestShape
  <2>2. \A c \in Reservations : reservation[c] \in Row /\ reservation'[c] =
           IF c = b THEN [reservation[c] EXCEPT !.status = req[r].to]
           ELSE reservation[c]
    BY <1>10, <2>1 DEF MoveWrite, Inv, TypeOK
  <2>3. \A c \in Reservations :
           /\ reservation'[c].tables = reservation[c].tables
           /\ reservation'[c].start = reservation[c].start
           /\ reservation'[c].length = reservation[c].length
    BY <2>2 DEF Row
  <2>4. ASSUME NEW q \in Requests \ {r} PROVE Checked(q)'
    <3>1. /\ req'[q] = req[q] /\ known'[q] \subseteq known[q] /\ Checked(q)
          /\ known[q] \subseteq Reservations
      BY <1>10, <2>1 DEF MoveWrite, Inv, TypeOK, AllChecked
    <3>2. CASE ~Creates(q)
      BY <3>1, <3>2 DEF Checked, Creates
    <3>3. CASE Creates(q)
      <4>1. ASSUME NEW c \in known'[q] PROVE Holds(c)'
        <5>1. Holds(c) /\ c \in Reservations
          BY <3>1, <3>3 DEF Checked
        <5>2. CASE c # b
          BY <2>2, <5>1, <5>2 DEF Holds
        <5>3. CASE c = b
          <6>1. req[r].to \in Holding
            BY <1>10, <5>3 DEF MoveWrite
          <6>2. reservation'[c].status = req[r].to
            BY <2>2, <5>1, <5>3 DEF Row
          <6>3. QED
            BY <6>1, <6>2 DEF Holds
        <5>4. QED
          BY <5>2, <5>3
      <4>2. QED
        BY <2>3, <3>1, <4>1, OthersChecked
    <3>4. QED
      BY <3>2, <3>3
  <2>5. Checked(r)'
    <3>1. req'[r].pc = "idle"
      BY <2>1 DEF Inv, TypeOK, Idle
    <3>2. QED
      BY <3>1 DEF Checked, Creates
  <2>6. QED
    BY <2>4, <2>5 DEF AllChecked
<1>11. QED
  BY <1>1, <1>4, <1>5, <1>6, <1>7, <1>8, <1>9, <1>10 DEF Next, Creating, Moving

(* However requests interleave, one that is past its checks overlaps no    *)
(* reservation of a day at most that has held one of its tables since      *)
(* before it came in: whoever is charged was not too late.                 *)
THEOREM TakenIsRefusedHolds == Spec => []TakenIsRefused
<1>1. Init => AllChecked
  BY DEF Init, Idle, AllChecked, Checked, Creates
<1>2. Inv /\ AllChecked => TakenIsRefused
  <2> SUFFICES ASSUME Inv, AllChecked, NEW r \in Requests,
                      req[r].pc \in {"charge", "tables", "insert"}, NEW b \in known[r],
                      reservation[b].length <= Day,
                      reservation[b].tables \cap req[r].row.tables # {}
               PROVE  ~Overlap(reservation[b], req[r].row)
    BY DEF TakenIsRefused
  <2>1. Checked(r)
    BY DEF AllChecked
  <2>2. QED
    BY <2>1 DEF Checked, Creates
<1>3. QED
  BY <1>1, <1>2, CheckedStep, ReservationInvariant, PTL DEF Spec

-----------------------------------------------------------------------------
(* Final statuses                                                          *)

\* No step but the write of a change moves a reservation that exists, and no
\* change of a final one is let in, except to what it is.
LEMMA FinalStep ==
  ASSUME Inv, Next, NEW b \in Reservations,
         reservation[b].status \in {"seated", "cancelled", "no_show"}
  PROVE  /\ \A r \in Moves(b)' : r \in Moves(b) \/ req'[r].to = reservation[b].status
         /\ (\A r \in Moves(b) : req[r].to = reservation[b].status)
               => reservation'[b].status = reservation[b].status
\* One request goes on, none of its own about b.
<1>1. ASSUME NEW r \in Requests, NEW x, req' = [req EXCEPT ![r] = x],
             x.pc = "move" /\ x.target = b => x.to = reservation[b].status
      PROVE  \A q \in Moves(b)' : q \in Moves(b) \/ req'[q].to = reservation[b].status
  <2>1. \A q \in Requests : req'[q] = IF q = r THEN x ELSE req[q]
    BY <1>1 DEF Inv, TypeOK
  <2>2. QED
    BY <1>1, <2>1 DEF Moves
<1>2. ASSUME NEW r \in Requests, Creating(r) \/ Abort(r)
      PROVE  /\ \A q \in Moves(b)' : q \in Moves(b) \/ req'[q].to = reservation[b].status
             /\ reservation'[b] = reservation[b]
  <2>1. PICK x : req' = [req EXCEPT ![r] = x] /\ x.pc # "move"
    <3>1. CASE RejectTables(r) \/ Insert(r) \/ Abort(r)
      <4>1. req' = [req EXCEPT ![r] = Idle] /\ Idle.pc = "idle"
        BY <3>1 DEF RejectTables, Insert, Abort, Finish, Idle
      <4>2. QED
        BY <4>1
    <3>2. CASE CheckTable(r) \/ CheckWindow(r) \/ Charge(r) \/ FindTables(r)
      BY <3>2 DEF CheckTable, CheckWindow, Charge, FindTables, Inv, TypeOK, Request
    <3>3. ASSUME NEW tables \in SUBSET Tables, NEW start \in Slot, NEW length \in Length,
                 NEW valid \in BOOLEAN, Create(r, tables, start, length, valid)
          PROVE  \E x : req' = [req EXCEPT ![r] = x] /\ x.pc # "move"
      <4> DEFINE x == [Idle EXCEPT !.pc = "conflicts", !.left = tables, !.valid = valid,
                                   !.row = [status |-> "pending", tables |-> tables,
                                            start |-> start, length |-> length,
                                            paid |-> FALSE]]
      <4>1. x.pc = "conflicts"
        BY IdleType DEF Request
      <4>2. req' = [req EXCEPT ![r] = x]
        BY <3>3 DEF Create
      <4> HIDE DEF x
      <4>3. QED
        BY <4>1, <4>2
    <3>4. QED
      BY <1>2, <3>1, <3>2, <3>3 DEF Creating
  <2>2. reservation'[b] = reservation[b]
    <3>1. CASE Insert(r)
      BY <3>1 DEF Insert, Exists, Inv, TypeOK
    <3>2. CASE ~Insert(r)
      BY <1>2, <3>2 DEF Creating, Create, CheckTable, CheckWindow, Charge, FindTables,
                        RejectTables, Abort
    <3>3. QED
      BY <3>1, <3>2
  <2>3. QED
    BY <1>1, <2>1, <2>2
<1>3. ASSUME NEW r \in Requests, NEW c \in Reservations, NEW to \in Status, MoveCheck(r, c, to)
      PROVE  /\ \A q \in Moves(b)' : q \in Moves(b) \/ req'[q].to = reservation[b].status
             /\ reservation'[b] = reservation[b]
  <2> DEFINE x == [Idle EXCEPT !.pc = "move", !.target = c, !.to = to]
  <2>1. x.target = c /\ x.to = to
    BY IdleType DEF Request
  <2>2. c = b => to = reservation[b].status
    BY <1>3 DEF MoveCheck, MayMove
  <2>3. req' = [req EXCEPT ![r] = x] /\ UNCHANGED reservation
    BY <1>3 DEF MoveCheck
  <2> HIDE DEF x
  <2>4. QED
    BY <1>1, <2>1, <2>2, <2>3
<1>4. ASSUME NEW r \in Requests, MoveWrite(r)
      PROVE  /\ \A q \in Moves(b)' : q \in Moves(b) \/ req'[q].to = reservation[b].status
             /\ (\A q \in Moves(b) : req[q].to = reservation[b].status)
                   => reservation'[b].status = reservation[b].status
  <2>1. req' = [req EXCEPT ![r] = Idle] /\ Idle.pc = "idle"
    BY <1>4 DEF MoveWrite, Idle
  <2>2. \A q \in Moves(b)' : q \in Moves(b) \/ req'[q].to = reservation[b].status
    BY <1>1, <2>1
  <2>3. CASE req[r].target # b
    BY <1>4, <2>2, <2>3 DEF MoveWrite, Inv, TypeOK
  <2>4. CASE req[r].target = b
    <3>1. r \in Moves(b)
      BY <1>4, <2>4 DEF MoveWrite, Moves
    <3>2. reservation'[b].status = req[r].to
      BY <1>4, <2>4 DEF MoveWrite, Inv, TypeOK, Row
    <3>3. QED
      BY <2>2, <3>1, <3>2
  <2>5. QED
    BY <2>3, <2>4
<1>5. QED
  BY <1>2, <1>3, <1>4 DEF Next, Moving

(* However requests interleave, a seated, cancelled or no-show reservation *)
(* is only moved by a change that was allowed before it became so.         *)
THEOREM FinalSettlesHolds == Spec => FinalSettles
<1>1. Inv /\ [Next]_vars =>
        [\A b \in Reservations :
           reservation[b].status \in {"seated", "cancelled", "no_show"} =>
              /\ \A r \in Moves(b)' : r \in Moves(b) \/ req'[r].to = reservation[b].status
              /\ (\A r \in Moves(b) : req[r].to = reservation[b].status)
                    => reservation'[b].status = reservation[b].status]_vars
  BY FinalStep
<1>2. QED
  BY <1>1, ReservationInvariant, PTL DEF Spec, FinalSettles
=============================================================================
