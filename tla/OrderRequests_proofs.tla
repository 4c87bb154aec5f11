------------------------ MODULE OrderRequests_proofs ------------------------
(***************************************************************************)
(* What holds of the order service for every number of tables, orders,     *)
(* lines and concurrent requests.                                          *)
(*                                                                         *)
(* The inductive invariant says, besides the types, what a request at each *)
(* statement knows (RequestShape), that a row lock has one holder and what *)
(* it holds is still there (LocksHeld), and that a row belongs to an       *)
(* order that exists (RowsBelong).                                         *)
(*                                                                         *)
(* The second half is about what is settled: an order with a payment, a    *)
(* paid order, a finished line.  Onward says what a request knows after    *)
(* each of its steps, and so which requests can get past which check;      *)
(* Prepared, that a closing payment reprices no line it starts preparing.  *)
(***************************************************************************)
EXTENDS OrderRequests, FiniteSetTheorems, TLAPS

\* The request r has uncommitted line rows only between the statement that
\* writes them and the last one of its transaction.
RequestShape(r) ==
    /\ req[r].pc = "idle" <=> req[r] = Idle
    /\ req[r].pc \in {"open_count", "open_insert"} => req[r].table \in Tables
    /\ req[r].pc = "add_insert" =>
          req[r].op = "add" /\ req[r].order \in Orders /\ req[r].amount \in 0 .. MaxCents
    /\ req[r].pc \in {"edit_payments", "edit_write"} =>
          /\ req[r].op \in {"update", "delete", "cancel"} /\ req[r].line \in Lines
          /\ req[r].order \in Orders /\ req[r].amount \in 0 .. MaxCents
          /\ LineExists(req[r].line) => line[req[r].line].order = req[r].order
    /\ req[r].pc \in {"read_lines", "write_totals"} =>
          /\ req[r].op \in {"add", "update", "delete", "cancel"}
          /\ DOMAIN req[r].write # {}
    /\ req[r].pc = "move_write" => req[r].op \in KitchenMove /\ req[r].line \in Lines
    /\ req[r].pc \in {"charge_write", "pay_insert", "pay_prepare", "pay_settle"} =>
          req[r].order \in Orders
    /\ req[r].pc \in {"pay_insert", "pay_prepare", "pay_settle"} => req[r].op = "pay"
    /\ req[r].pc \notin {"read_lines", "write_totals", "pay_settle"} =>
          DOMAIN req[r].write = {}

Holding == {"read_lines", "write_totals", "pay_prepare", "pay_settle"}

\* An uncommitted row belongs to the order of its request.
LocksHeld(r) ==
    /\ \A q \in Requests \ {r} : DOMAIN req[q].write \cap DOMAIN req[r].write = {}
    /\ \A l \in DOMAIN req[r].write :
          /\ req[r].order \in Orders
          /\ req[r].write[l].order \in {req[r].order, NoRow}
          /\ req[r].write[l].order = NoRow <=> req[r].write[l].status = "absent"
          /\ IF req[r].op = "add"
             THEN ~LineExists(l) /\ \A q \in Requests : req[q].line # l
             ELSE LineExists(l) /\ line[l].order = req[r].order
    /\ req[r].pc \in Holding => /\ req[r].order \in Orders
                                /\ OrderExists(req[r].order)

RowsBelong ==
    /\ \A l \in Lines : IF LineExists(l)
                        THEN line[l].order \in Orders /\ OrderExists(line[l].order)
                        ELSE line[l].order = NoRow
    /\ \A o \in Orders : /\ paid[o] > 0 => OrderExists(o)
                         /\ OrderExists(o) => order[o].table \in Tables

Inv == /\ TypeOK
       /\ \A r \in Requests : RequestShape(r) /\ LocksHeld(r)
       /\ RowsBelong

-----------------------------------------------------------------------------
(* Types                                                                   *)

\* What a row adds to the total of o.
Counts(o, row) == row.order = o /\ row.status # "cancelled"

\* The cents that TotalOf counts.
CentsOf(o, rows) ==
    {cent \in Lines \X (1 .. MaxCents) : Counts(o, rows[cent[1]])
                                        /\ cent[2] <= rows[cent[1]].subtotal}

(* The total of an order is a number of cents, and so no more than what    *)
(* all the lines can cost: no induction over the lines is needed.          *)
LEMMA CountedCents ==
    ASSUME NEW o, NEW rows
    PROVE  /\ IsFiniteSet(CentsOf(o, rows))
           /\ TotalOf(o, rows) = Cardinality(CentsOf(o, rows))
           /\ TotalOf(o, rows) \in Nat
           /\ TotalOf(o, rows) <= MaxCents * Cardinality(Lines)
<1> DEFINE Units == Lines \X (1 .. MaxCents)
           Counted == CentsOf(o, rows)
<1>1. IsFiniteSet(1 .. MaxCents) /\ Cardinality(1 .. MaxCents) = MaxCents
  BY OrdersAssumption, FS_Interval
<1>2. IsFiniteSet(Units) /\ Cardinality(Units) = Cardinality(Lines) * MaxCents
  BY <1>1, OrdersAssumption, FS_Product
<1>3. IsFiniteSet(Counted) /\ Cardinality(Counted) <= Cardinality(Units)
  <2>1. Counted \subseteq Units
    BY DEF CentsOf
  <2>2. QED
    BY <1>2, <2>1, FS_Subset
<1>4. Cardinality(Lines) * MaxCents = MaxCents * Cardinality(Lines)
  BY OrdersAssumption, FS_CardinalityType
<1>5. Cardinality(Counted) \in Nat
  BY <1>3, FS_CardinalityType
<1>6. TotalOf(o, rows) = Cardinality(Counted)
  <2>1. Counted = {cent \in Units : /\ rows[cent[1]].order = o
                                    /\ rows[cent[1]].status # "cancelled"
                                    /\ cent[2] <= rows[cent[1]].subtotal}
    BY DEF CentsOf, Counts
  <2>2. QED
    BY <2>1 DEF TotalOf
<1>7. QED
  BY <1>2, <1>3, <1>4, <1>5, <1>6

LEMMA TotalIsNat ==
    ASSUME NEW o, NEW rows
    PROVE  TotalOf(o, rows) \in Nat
  BY CountedCents

LEMMA IdleType == Idle \in RequestState
<1>1. [l \in {} |-> AbsentLine] \in UNION {[S -> LineRow] : S \in SUBSET Lines}
  OBVIOUS
<1>2. QED
  BY <1>1 DEF Idle, RequestState, Operation, Statement

LEMMA SeenType ==
    ASSUME TypeOK, NEW r \in Requests
    PROVE  Seen(r) \in [Lines -> LineRow]
<1>1. req[r].write \in UNION {[S -> LineRow] : S \in SUBSET Lines}
  BY DEF TypeOK, RequestState
<1>2. PICK S \in SUBSET Lines : req[r].write \in [S -> LineRow]
  BY <1>1
<1>3. QED
  BY <1>2 DEF TypeOK, Seen

LEMMA WrittenAreLines ==
    ASSUME TypeOK, NEW r \in Requests
    PROVE  DOMAIN req[r].write \subseteq Lines
  BY DEF TypeOK, RequestState

LEMMA TableOfOrder ==
    ASSUME TypeOK, NEW o \in Orders
    PROVE  order[o].table \in Tables \cup {NoRow}
  BY DEF TypeOK, OrderRow

LEMMA BalanceIsNat ==
    ASSUME TypeOK, NEW o \in Orders
    PROVE  Balance(o) \in Nat
<1>1. order[o].total \in Nat /\ paid[o] \in Nat
  BY DEF TypeOK, OrderRow
<1>2. QED
  BY <1>1 DEF Balance

-----------------------------------------------------------------------------
(* Two kinds of steps                                                      *)

(* A statement that changes only what its request knows or has staged.     *)
LEMMA LocalStep ==
    ASSUME Inv, NEW r \in Requests, NEW next \in RequestState,
           req' = [req EXCEPT ![r] = next], UNCHANGED <<order, line, paid>>,
           RequestShape(r)', LocksHeld(r)',
           next.line \in {req[r].line, NoRow} \/ LineExists(next.line)
    PROVE  Inv'
<1>1. TypeOK'
  BY DEF Inv, TypeOK
<1>2. RowsBelong'
  BY DEF Inv, RowsBelong, LineExists, OrderExists, Active
<1>3. req'[r] = next /\ \A q \in Requests \ {r} : req'[q] = req[q]
  BY DEF Inv, TypeOK
<1>4. ASSUME NEW q \in Requests \ {r} PROVE RequestShape(q)'
  BY <1>3, <1>4 DEF Inv, RequestShape, LineExists
<1>5. ASSUME NEW q \in Requests \ {r} PROVE LocksHeld(q)'
  <2>1. LocksHeld(q) /\ req'[q] = req[q]
    BY <1>3 DEF Inv
  <2>2. \A p \in Requests \ {q} :
           DOMAIN req'[p].write \cap DOMAIN req'[q].write = {}
    <3>1. DOMAIN req'[q].write \cap DOMAIN req'[r].write = {}
      BY DEF LocksHeld
    <3>2. QED
      BY <1>3, <2>1, <3>1 DEF LocksHeld
  <2>3. ASSUME NEW l \in DOMAIN req[q].write, req[q].op = "add"
        PROVE  next.line # l
    <3>1. ~LineExists(l) /\ req[r].line # l
      BY <2>1, <2>3 DEF LocksHeld
    <3>2. l # NoRow
      BY WrittenAreLines, OrdersAssumption DEF Inv
    <3>3. QED
      BY <3>1, <3>2
  <2>4. QED
    BY <1>3, <2>1, <2>2, <2>3 DEF LocksHeld, LineExists, OrderExists
<1>6. QED
  BY <1>1, <1>2, <1>4, <1>5 DEF Inv

(* The last statement of a request: its rows, if any, are committed.       *)
LEMMA LastStep ==
    ASSUME Inv, NEW r \in Requests, req' = [req EXCEPT ![r] = Idle],
           order' \in [Orders -> OrderRow], line' \in [Lines -> LineRow],
           paid' \in [Orders -> Nat], RowsBelong',
           \A o \in Orders : OrderExists(o) => OrderExists(o)',
           \A l \in Lines :
              \/ line'[l].order = line[l].order /\ LineExists(l)' = LineExists(l)
              \/ l \in DOMAIN req[r].write /\ line'[l] = req[r].write[l]
    PROVE  Inv'
<1>1. TypeOK'
  BY IdleType DEF Inv, TypeOK
<1>2. req'[r] = Idle /\ \A q \in Requests \ {r} : req'[q] = req[q]
  BY DEF Inv, TypeOK
<1>3. DOMAIN Idle.write = {}
  BY DEF Idle
<1>4. RequestShape(r)' /\ LocksHeld(r)'
  BY <1>2, <1>3 DEF RequestShape, LocksHeld, Idle, Holding
<1>5. ASSUME NEW q \in Requests \ {r} PROVE RequestShape(q)'
  <2>1. RequestShape(q) /\ req'[q] = req[q]
    BY <1>2 DEF Inv
  <2>2. ASSUME NEW l \in Lines, req[q].line = l, LineExists(l)'
        PROVE  LineExists(l) /\ line'[l].order = line[l].order
    <3>1. CASE line'[l].order = line[l].order /\ LineExists(l)' = LineExists(l)
      BY <2>2, <3>1
    <3>2. CASE l \in DOMAIN req[r].write /\ line'[l] = req[r].write[l]
      BY <2>2, <3>2 DEF Inv, LocksHeld, LineExists
    <3>3. QED
      BY <3>1, <3>2
  <2>3. QED
    BY <2>1, <2>2 DEF RequestShape
<1>6. ASSUME NEW q \in Requests \ {r} PROVE LocksHeld(q)'
  <2>1. LocksHeld(q) /\ req'[q] = req[q]
    BY <1>2 DEF Inv
  <2>2. \A p \in Requests \ {q} :
           DOMAIN req'[p].write \cap DOMAIN req'[q].write = {}
    BY <1>2, <1>3, <2>1 DEF LocksHeld
  <2>3. ASSUME NEW l \in DOMAIN req[q].write
        PROVE  line'[l].order = line[l].order /\ LineExists(l)' = LineExists(l)
    <3>1. l \in Lines /\ l \notin DOMAIN req[r].write
      BY <2>1, WrittenAreLines DEF Inv, LocksHeld
    <3>2. QED
      BY <3>1
  <2>4. ASSUME NEW l \in DOMAIN req[q].write, req[q].op = "add", NEW p \in Requests
        PROVE  req'[p].line # l
    <3>1. l # NoRow
      BY WrittenAreLines, OrdersAssumption DEF Inv
    <3>2. QED
      BY <1>2, <2>1, <2>4, <3>1 DEF LocksHeld, Idle
  <2>5. QED
    BY <2>1, <2>2, <2>3, <2>4 DEF LocksHeld
<1>7. QED
  BY <1>1, <1>4, <1>5, <1>6 DEF Inv

(* A statement after which its request has staged no row.                  *)
LEMMA LooseStep ==
    ASSUME Inv, NEW r \in Requests, NEW next \in RequestState,
           req' = [req EXCEPT ![r] = next], UNCHANGED <<order, line, paid>>,
           DOMAIN next.write = {}, RequestShape(r)',
           next.pc \in Holding => next.order \in Orders /\ OrderExists(next.order),
           next.line \in {req[r].line, NoRow} \/ LineExists(next.line)
    PROVE  Inv'
<1>1. req'[r] = next
  BY DEF Inv, TypeOK
<1>2. LocksHeld(r)'
  BY <1>1 DEF LocksHeld, OrderExists
<1>3. QED
  BY <1>2, LocalStep

-----------------------------------------------------------------------------
(* The first statement of each request                                     *)

LEMMA FirstStep ==
    ASSUME Inv, NEW r \in Requests, NEW next \in RequestState,
           Start(r, next), UNCHANGED <<order, line, paid>>,
           next.write = Idle.write, next.pc \notin Holding \cup {"idle"},
           \/ next.pc = "open_count" /\ next.table \in Tables
           \/ next.pc \in {"find_active", "charge_find"}
           \/ RequestShape(r)',
           next.line = NoRow \/ LineExists(next.line)
    PROVE  Inv'
<1>1. req'[r] = next
  BY DEF Inv, TypeOK, Start
<1>2. DOMAIN next.write = {}
  BY DEF Idle
<1>3. RequestShape(r)'
  BY <1>1, <1>2 DEF RequestShape, Idle
<1>4. QED
  BY <1>2, <1>3, LooseStep DEF Start

LEMMA FirstSteps ==
    ASSUME Inv, NEW r \in Requests,
           \/ \E t \in Tables : OpenCheck(r, t) \/ ChargeCheck(r, t)
           \/ \E t \in Tables, ids \in SUBSET Lines :
                 SendCheck(r, t, ids) \/ ServeCheck(r, t, ids)
           \/ \E o \in Orders, cents \in 0 .. MaxCents : AddCheck(r, o, cents)
           \/ \E l \in Lines, op \in {"update", "delete", "cancel"},
                 cents \in 0 .. MaxCents : EditCheck(r, l, op, cents)
           \/ \E l \in Lines, move \in KitchenMove : MoveCheck(r, l, move)
           \/ \E o \in Orders, cents \in Nat : PayCheck(r, o, cents)
    PROVE  Inv'
<1>1. CASE \E t \in Tables : OpenCheck(r, t)
  <2>1. PICK t \in Tables : OpenCheck(r, t)
    BY <1>1
  <2> DEFINE next == [Idle EXCEPT !.op = "open", !.pc = "open_count", !.table = t]
  <2>2. next \in RequestState
    BY IdleType DEF RequestState, Operation, Statement
  <2>3. /\ next.pc = "open_count" /\ next.table = t /\ next.line = NoRow
        /\ next.write = Idle.write
    BY DEF Idle
  <2>4. QED
    BY <2>1, <2>2, <2>3, FirstStep DEF OpenCheck, Holding
<1>2. CASE \E t \in Tables : ChargeCheck(r, t)
  <2>1. PICK t \in Tables : ChargeCheck(r, t)
    BY <1>2
  <2> DEFINE next == [Idle EXCEPT !.op = "charge", !.pc = "charge_find", !.table = t]
  <2>2. next \in RequestState
    BY IdleType DEF RequestState, Operation, Statement
  <2>3. QED
    BY <2>1, <2>2, FirstStep DEF ChargeCheck, Idle, Holding
<1>3. CASE \E t \in Tables, ids \in SUBSET Lines : SendCheck(r, t, ids)
  <2>1. PICK t \in Tables, ids \in SUBSET Lines : SendCheck(r, t, ids)
    BY <1>3
  <2> DEFINE next == [Idle EXCEPT !.op = "send", !.pc = "find_active",
                                  !.table = t, !.ids = ids]
  <2>2. next \in RequestState
    BY IdleType DEF RequestState, Operation, Statement
  <2>3. QED
    BY <2>1, <2>2, FirstStep DEF SendCheck, Idle, Holding
<1>4. CASE \E t \in Tables, ids \in SUBSET Lines : ServeCheck(r, t, ids)
  <2>1. PICK t \in Tables, ids \in SUBSET Lines : ServeCheck(r, t, ids)
    BY <1>4
  <2>2. PICK live \in SUBSET Lines :
          Start(r, [Idle EXCEPT !.op = "serve", !.pc = "find_active",
                                !.table = t, !.ids = ids \cap live])
    BY <2>1 DEF ServeCheck
  <2> DEFINE next == [Idle EXCEPT !.op = "serve", !.pc = "find_active",
                                  !.table = t, !.ids = ids \cap live]
  <2>3. next \in RequestState
    BY IdleType DEF RequestState, Operation, Statement
  <2>4. QED
    BY <2>1, <2>2, <2>3, FirstStep DEF ServeCheck, Idle, Holding
<1>5. CASE \E o \in Orders, cents \in 0 .. MaxCents : AddCheck(r, o, cents)
  <2>1. PICK o \in Orders, cents \in 0 .. MaxCents : AddCheck(r, o, cents)
    BY <1>5
  <2> DEFINE next == [Idle EXCEPT !.op = "add", !.pc = "add_insert", !.order = o,
                                  !.table = order[o].table, !.amount = cents]
  <2>2. cents \in Nat
    BY OrdersAssumption
  <2>3. next \in RequestState
    BY <2>2, IdleType, TableOfOrder DEF RequestState, Operation, Statement, Inv
  <2>4. /\ next.pc = "add_insert" /\ next.op = "add" /\ next.order = o
        /\ next.amount = cents /\ next.line = NoRow /\ next.write = Idle.write
    BY DEF Idle
  <2>5. req'[r] = next /\ DOMAIN next.write = {} /\ Idle.pc = "idle"
    BY <2>1 DEF AddCheck, Start, Inv, TypeOK, Idle
  <2> HIDE DEF next
  <2>6. RequestShape(r)'
    BY <2>4, <2>5 DEF RequestShape
  <2> USE DEF next
  <2>7. QED
    BY <2>1, <2>3, <2>4, <2>6, FirstStep DEF AddCheck, Holding
<1>6. CASE \E l \in Lines, op \in {"update", "delete", "cancel"},
              cents \in 0 .. MaxCents : EditCheck(r, l, op, cents)
  <2>1. PICK l \in Lines, op \in {"update", "delete", "cancel"},
             cents \in 0 .. MaxCents : EditCheck(r, l, op, cents)
    BY <1>6
  <2> DEFINE next == [Idle EXCEPT !.op = op, !.pc = "edit_payments", !.line = l,
                                  !.order = line[l].order, !.amount = cents,
                                  !.table = order[line[l].order].table]
  <2>2. LineExists(l) /\ line[l].order \in Orders /\ cents \in Nat
    <3>1. cents \in Nat
      BY OrdersAssumption
    <3>2. QED
      BY <2>1, <3>1 DEF EditCheck, Inv, RowsBelong
  <2>3. next \in RequestState
    BY <2>2, IdleType, TableOfOrder DEF RequestState, Operation, Statement, Inv
  <2>4. /\ next.pc = "edit_payments" /\ next.op = op /\ next.order = line[l].order
        /\ next.amount = cents /\ next.line = l /\ next.write = Idle.write
    BY DEF Idle
  <2>5. /\ req'[r] = next /\ DOMAIN next.write = {} /\ Idle.pc = "idle"
        /\ UNCHANGED line
    BY <2>1 DEF EditCheck, Start, Inv, TypeOK, Idle
  <2> HIDE DEF next
  <2>6. RequestShape(r)'
    BY <2>2, <2>4, <2>5 DEF RequestShape, LineExists
  <2> USE DEF next
  <2>7. QED
    BY <2>1, <2>2, <2>3, <2>4, <2>6, FirstStep DEF EditCheck, Holding
<1>7. CASE \E l \in Lines, move \in KitchenMove : MoveCheck(r, l, move)
  <2>1. PICK l \in Lines, move \in KitchenMove : MoveCheck(r, l, move)
    BY <1>7
  <2> DEFINE next == [Idle EXCEPT !.op = move, !.pc = "move_write", !.line = l,
                                  !.order = line[l].order,
                                  !.table = order[line[l].order].table]
  <2>2. LineExists(l) /\ line[l].order \in Orders
    BY <2>1 DEF MoveCheck, Inv, RowsBelong
  <2>3. next \in RequestState
    BY <2>2, IdleType, TableOfOrder DEF RequestState, Operation, Statement, Inv
  <2>4. /\ next.pc = "move_write" /\ next.op = move
        /\ next.line = l /\ next.write = Idle.write
    BY DEF Idle
  <2>5. req'[r] = next /\ DOMAIN next.write = {} /\ Idle.pc = "idle"
    BY <2>1 DEF MoveCheck, Start, Inv, TypeOK, Idle
  <2> HIDE DEF next
  <2>6. RequestShape(r)'
    BY <2>4, <2>5 DEF RequestShape
  <2> USE DEF next
  <2>7. QED
    BY <2>1, <2>2, <2>3, <2>4, <2>6, FirstStep DEF MoveCheck, Holding
<1>8. CASE \E o \in Orders, cents \in Nat : PayCheck(r, o, cents)
  <2>1. PICK o \in Orders, cents \in Nat : PayCheck(r, o, cents)
    BY <1>8
  <2> DEFINE next == [Idle EXCEPT !.op = "pay", !.pc = "pay_insert", !.order = o,
                                  !.table = order[o].table, !.amount = cents,
                                  !.saved = Balance(o) - cents]
  <2>2. Balance(o) - cents \in Nat
    <3>1. cents <= Balance(o)
      BY <2>1 DEF PayCheck
    <3>2. Balance(o) \in Nat
      BY BalanceIsNat DEF Inv
    <3>3. QED
      BY <3>1, <3>2
  <2>3. next \in RequestState
    BY <2>2, IdleType, TableOfOrder DEF RequestState, Operation, Statement, Inv
  <2>4. /\ next.pc = "pay_insert" /\ next.order = o /\ next.op = "pay"
        /\ next.line = NoRow /\ next.write = Idle.write
    BY DEF Idle
  <2>5. req'[r] = next /\ DOMAIN next.write = {} /\ Idle.pc = "idle"
    BY <2>1 DEF PayCheck, Start, Inv, TypeOK, Idle
  <2> HIDE DEF next
  <2>6. RequestShape(r)'
    BY <2>4, <2>5 DEF RequestShape
  <2> USE DEF next
  <2>7. QED
    BY <2>1, <2>3, <2>4, <2>6, FirstStep DEF PayCheck, Holding
<1>9. QED
  BY <1>1, <1>2, <1>3, <1>4, <1>5, <1>6, <1>7, <1>8

-----------------------------------------------------------------------------
(* The statements in the middle of a request                               *)

(* Those that stage nothing and go on to the next statement, knowing more. *)
LEMMA MiddleReads ==
    ASSUME Inv, NEW r \in Requests,
           \/ OpenCount(r) \/ EditPayments(r) \/ FindActive(r)
           \/ ChargeFind(r) \/ PayInsert(r)
    PROVE  Inv'
<1>1. /\ req[r] \in RequestState /\ RequestShape(r) /\ Idle.pc = "idle"
      /\ req \in [Requests -> RequestState]
  BY DEF Inv, TypeOK, Idle
<1>2. CASE OpenCount(r)
  <2> DEFINE n == Cardinality({o \in Orders : OrderExists(o)}) + 1
             next == [req[r] EXCEPT !.pc = "open_insert", !.saved = n]
  <2>1. n \in Nat
    BY OrdersAssumption, FS_Subset, FS_CardinalityType
  <2>2. next \in RequestState
    BY <1>1, <2>1 DEF RequestState, Statement
  <2>3. /\ req[r].pc = "open_count" /\ UNCHANGED <<order, line, paid>>
        /\ req' = [req EXCEPT ![r] = next]
    BY <1>2 DEF OpenCount, GotoSaving
  <2>4. /\ next.pc = "open_insert" /\ next.table = req[r].table
        /\ next.line = req[r].line /\ next.write = req[r].write
    BY <1>1 DEF RequestState
  <2> HIDE DEF next
  <2>5. req'[r] = next /\ DOMAIN next.write = {}
    BY <1>1, <2>3, <2>4 DEF RequestShape
  <2>6. RequestShape(r)'
    BY <1>1, <2>3, <2>4, <2>5 DEF RequestShape
  <2>7. QED
    BY <2>2, <2>3, <2>4, <2>5, <2>6, LooseStep DEF Holding
<1>3. CASE EditPayments(r)
  <2> DEFINE next == [req[r] EXCEPT !.pc = "edit_write"]
  <2>1. next \in RequestState
    BY <1>1 DEF RequestState, Statement
  <2>2. /\ req[r].pc = "edit_payments" /\ UNCHANGED <<order, line, paid>>
        /\ req' = [req EXCEPT ![r] = next]
    BY <1>3 DEF EditPayments, Goto
  <2>3. /\ next.pc = "edit_write" /\ next.op = req[r].op /\ next.line = req[r].line
        /\ next.order = req[r].order /\ next.amount = req[r].amount
        /\ next.write = req[r].write
    BY <1>1 DEF RequestState
  <2> HIDE DEF next
  <2>4. req'[r] = next /\ DOMAIN next.write = {}
    BY <1>1, <2>2, <2>3 DEF RequestShape
  <2>5. RequestShape(r)'
    BY <1>1, <2>2, <2>3, <2>4 DEF RequestShape, LineExists
  <2>6. QED
    BY <2>1, <2>2, <2>3, <2>4, <2>5, LooseStep DEF Holding
<1>4. CASE FindActive(r)
  <2>1. PICK o \in Orders : req' = [req EXCEPT ![r].pc = "write_many", ![r].order = o]
    BY <1>4 DEF FindActive, ActiveOf
  <2> DEFINE next == [req[r] EXCEPT !.pc = "write_many", !.order = o]
  <2>2. next \in RequestState
    BY <1>1 DEF RequestState, Statement
  <2>3. /\ req[r].pc = "find_active" /\ UNCHANGED <<order, line, paid>>
        /\ req' = [req EXCEPT ![r] = next]
    BY <1>4, <2>1 DEF FindActive
  <2>4. /\ next.pc = "write_many" /\ next.line = req[r].line
        /\ next.write = req[r].write
    BY <1>1 DEF RequestState
  <2> HIDE DEF next
  <2>5. req'[r] = next /\ DOMAIN next.write = {}
    BY <1>1, <2>3, <2>4 DEF RequestShape
  <2>6. RequestShape(r)'
    BY <1>1, <2>3, <2>4, <2>5 DEF RequestShape
  <2>7. QED
    BY <2>2, <2>3, <2>4, <2>5, <2>6, LooseStep DEF Holding
<1>5. CASE ChargeFind(r)
  <2>1. PICK o \in Orders : req' = [req EXCEPT ![r].pc = "charge_write", ![r].order = o]
    BY <1>5 DEF ChargeFind, ActiveOf
  <2> DEFINE next == [req[r] EXCEPT !.pc = "charge_write", !.order = o]
  <2>2. next \in RequestState
    BY <1>1 DEF RequestState, Statement
  <2>3. /\ req[r].pc = "charge_find" /\ UNCHANGED <<order, line, paid>>
        /\ req' = [req EXCEPT ![r] = next]
    BY <1>5, <2>1 DEF ChargeFind
  <2>4. /\ next.pc = "charge_write" /\ next.line = req[r].line
        /\ next.order = o /\ next.write = req[r].write
    BY <1>1 DEF RequestState
  <2> HIDE DEF next
  <2>5. req'[r] = next /\ DOMAIN next.write = {}
    BY <1>1, <2>3, <2>4 DEF RequestShape
  <2>6. RequestShape(r)'
    BY <1>1, <2>3, <2>4, <2>5 DEF RequestShape
  <2>7. QED
    BY <2>2, <2>3, <2>4, <2>5, <2>6, LooseStep DEF Holding
<1>6. CASE PayInsert(r)
  <2> DEFINE pc == IF req[r].saved = 0 THEN "pay_prepare" ELSE "pay_settle"
             next == [req[r] EXCEPT !.pc = pc]
  <2>1. next \in RequestState
    BY <1>1 DEF RequestState, Statement
  <2>2. /\ req[r].pc = "pay_insert" /\ UNCHANGED <<order, line, paid>>
        /\ req' = [req EXCEPT ![r] = next] /\ OrderExists(req[r].order)
    BY <1>6 DEF PayInsert, Goto
  <2>3. /\ next.pc \in {"pay_prepare", "pay_settle"} /\ next.op = req[r].op
        /\ next.order = req[r].order /\ next.line = req[r].line
        /\ next.write = req[r].write
    BY <1>1 DEF RequestState
  <2> HIDE DEF next
  <2>4. req'[r] = next /\ DOMAIN next.write = {} /\ next.order \in Orders
    BY <1>1, <2>2, <2>3 DEF RequestShape
  <2>5. RequestShape(r)'
    BY <1>1, <2>2, <2>3, <2>4 DEF RequestShape
  <2>6. QED
    BY <2>1, <2>2, <2>3, <2>4, <2>5, LooseStep
<1>7. QED
  BY <1>2, <1>3, <1>4, <1>5, <1>6

(* The row an edit leaves is a row, of the same order unless deleted.      *)
LEMMA EditedRow ==
    ASSUME NEW row \in LineRow, row.status # "absent",
           NEW op \in {"update", "delete", "cancel"}, NEW cents \in 0 .. MaxCents,
           NEW new, new = Edited(op, row, cents)
    PROVE  /\ new \in LineRow
           /\ IF new.status = "absent" THEN new.order = NoRow ELSE new.order = row.order
<1>1. CASE op = "update"
  <2>1. new = [row EXCEPT !.subtotal = IF 0 \in {cents, row.subtotal}
                                           THEN row.subtotal ELSE cents]
    BY <1>1 DEF Edited
  <2>2. QED
    BY <2>1 DEF LineRow, LineStatus
<1>2. CASE op = "delete"
  <2>1. new = AbsentLine
    BY <1>2 DEF Edited
  <2>2. QED
    BY <2>1, OrdersAssumption DEF AbsentLine, LineRow
<1>3. CASE op = "cancel"
  <2>1. new = [row EXCEPT !.status = "cancelled"]
    BY <1>3 DEF Edited
  <2>2. QED
    BY <2>1 DEF LineRow, LineStatus
<1>4. QED
  BY <1>1, <1>2, <1>3

(* Those that stage rows: the rows become locked by their request.         *)
LEMMA StagingStep ==
    ASSUME Inv, NEW r \in Requests, NEW S \in SUBSET Lines,
           NEW rows \in [S -> LineRow], NEW pc \in Statement,
           Stage(r, pc, rows), UNCHANGED <<order, line, paid>>,
           \A q \in Requests \ {r} : DOMAIN req[q].write \cap S = {},
           req[r].order \in Orders, OrderExists(req[r].order),
           pc \in {"read_lines", "pay_settle"},
           pc = "read_lines" => S # {} /\ req[r].op \in {"add", "update", "delete", "cancel"},
           pc = "pay_settle" => req[r].op = "pay",
           \A l \in S :
              /\ IF rows[l].status = "absent" THEN rows[l].order = NoRow
                                             ELSE rows[l].order = req[r].order
              /\ IF req[r].op = "add"
                 THEN ~LineExists(l) /\ \A q \in Requests : req[q].line # l
                 ELSE LineExists(l) /\ line[l].order = req[r].order
    PROVE  Inv'
<1> DEFINE next == [req[r] EXCEPT !.pc = pc, !.write = rows]
<1>1. /\ req[r] \in RequestState /\ req \in [Requests -> RequestState]
      /\ Idle.pc = "idle"
  BY DEF Inv, TypeOK, Idle
<1>2. next \in RequestState
  <2>1. rows \in UNION {[T -> LineRow] : T \in SUBSET Lines}
    OBVIOUS
  <2>2. QED
    BY <1>1, <2>1 DEF RequestState
<1>3. /\ next.pc = pc /\ next.op = req[r].op /\ next.order = req[r].order
      /\ next.line = req[r].line /\ next.write = rows
  BY <1>1 DEF RequestState
<1>4. req' = [req EXCEPT ![r] = next]
  BY DEF Stage
<1> HIDE DEF next
<1>5. req'[r] = next /\ \A q \in Requests \ {r} : req'[q] = req[q]
  BY <1>1, <1>4
<1>6. DOMAIN req'[r].write = S
  BY <1>3, <1>5
<1>7. RequestShape(r)'
  BY <1>1, <1>3, <1>5, <1>6 DEF RequestShape
<1>8. LocksHeld(r)'
  <2>1. \A q \in Requests \ {r} : DOMAIN req'[q].write \cap S = {}
    BY <1>5
  <2>2. ASSUME NEW l \in S, req[r].op = "add", NEW q \in Requests
        PROVE  req'[q].line # l
    BY <1>3, <1>5, <2>2
  <2>3. \A l \in S :
           /\ rows[l].order \in {req[r].order, NoRow}
           /\ rows[l].order = NoRow <=> rows[l].status = "absent"
    BY OrdersAssumption
  <2>4. QED
    BY <1>3, <1>5, <1>6, <2>1, <2>2, <2>3 DEF LocksHeld, LineExists, OrderExists
<1>9. QED
  BY <1>2, <1>3, <1>4, <1>7, <1>8, LocalStep

LEMMA StagingSteps ==
    ASSUME Inv, NEW r \in Requests, AddInsert(r) \/ EditWrite(r) \/ PayPrepare(r)
    PROVE  Inv'
<1>1. RequestShape(r) /\ LocksHeld(r) /\ line \in [Lines -> LineRow]
  BY DEF Inv, TypeOK
<1>2. CASE AddInsert(r)
  <2>1. PICK l \in Lines :
          /\ FreshLine(l)
          /\ Stage(r, "read_lines",
                   [k \in {l} |-> [status |-> "pending", order |-> req[r].order,
                                   sent |-> FALSE, subtotal |-> req[r].amount]])
    BY <1>2 DEF AddInsert
  <2> DEFINE rows == [k \in {l} |-> [status |-> "pending", order |-> req[r].order,
                                     sent |-> FALSE, subtotal |-> req[r].amount]]
  <2>2. /\ req[r].op = "add" /\ req[r].order \in Orders /\ OrderExists(req[r].order)
        /\ req[r].amount \in 0 .. MaxCents /\ UNCHANGED <<order, line, paid>>
    BY <1>1, <1>2 DEF AddInsert, RequestShape
  <2>3. rows \in [{l} -> LineRow] /\ {l} \in SUBSET Lines
    BY <2>2 DEF LineRow, LineStatus
  <2>4. ~LineExists(l) /\ \A q \in Requests : req[q].line # l /\ l \notin DOMAIN req[q].write
    BY <2>1 DEF FreshLine
  <2>5. \A q \in Requests \ {r} : DOMAIN req[q].write \cap {l} = {}
    BY <2>4
  <2>6. /\ rows[l].status # "absent" /\ rows[l].order = req[r].order
        /\ Stage(r, "read_lines", rows)
    BY <2>1
  <2> HIDE DEF rows
  <2>7. \A k \in {l} :
           /\ IF rows[k].status = "absent" THEN rows[k].order = NoRow
                                           ELSE rows[k].order = req[r].order
           /\ IF req[r].op = "add"
              THEN ~LineExists(k) /\ \A q \in Requests : req[q].line # k
              ELSE LineExists(k) /\ line[k].order = req[r].order
    BY <2>2, <2>4, <2>6
  <2>8. "read_lines" \in Statement /\ {l} # {}
    BY DEF Statement
  <2>9. QED
    BY <2>2, <2>3, <2>5, <2>6, <2>7, <2>8, StagingStep
<1>3. CASE EditWrite(r)
  <2> DEFINE l == req[r].line
             rows == [k \in {l} |-> Edited(req[r].op, line[k], req[r].amount)]
  <2>1. /\ req[r].op \in {"update", "delete", "cancel"} /\ l \in Lines
        /\ req[r].order \in Orders /\ req[r].amount \in 0 .. MaxCents
        /\ LineExists(l) /\ line[l].order = req[r].order /\ ~Locked(r, l)
        /\ UNCHANGED <<order, line, paid>> /\ Stage(r, "read_lines", rows)
    BY <1>1, <1>3 DEF EditWrite, RequestShape
  <2>2. OrderExists(req[r].order)
    BY <2>1 DEF Inv, RowsBelong
  <2>3. \A q \in Requests \ {r} : DOMAIN req[q].write \cap {l} = {}
    BY <2>1 DEF Locked
  <2>4. /\ rows[l] \in LineRow
        /\ IF rows[l].status = "absent" THEN rows[l].order = NoRow
                                        ELSE rows[l].order = req[r].order
    BY <1>1, <2>1, EditedRow DEF LineExists
  <2>5. rows \in [{l} -> LineRow] /\ {l} \in SUBSET Lines
    BY <2>1, <2>4
  <2>6. req[r].op # "add"
    BY <2>1
  <2> HIDE DEF rows, l
  <2>7. QED
    BY <2>1, <2>2, <2>3, <2>4, <2>5, <2>6, StagingStep DEF Statement
<1>4. CASE PayPrepare(r)
  <2> DEFINE pending == {l \in Lines : line[l].order = req[r].order
                                       /\ line[l].status = "pending"}
             rows == [l \in pending |-> [line[l] EXCEPT !.status = "preparing"]]
  <2>1. /\ req[r].pc = "pay_prepare" /\ \A l \in pending : ~Locked(r, l)
        /\ UNCHANGED <<order, line, paid>> /\ Stage(r, "pay_settle", rows)
    BY <1>4 DEF PayPrepare
  <2>2. req[r].op = "pay" /\ req[r].order \in Orders /\ OrderExists(req[r].order)
    BY <1>1, <2>1 DEF RequestShape, LocksHeld, Holding
  <2>3. \A q \in Requests \ {r} : DOMAIN req[q].write \cap pending = {}
    BY <2>1 DEF Locked
  <2>4. rows \in [pending -> LineRow]
    BY <1>1 DEF LineRow, LineStatus
  <2>5. \A l \in pending :
           /\ rows[l].status # "absent" /\ rows[l].order = req[r].order
           /\ LineExists(l) /\ line[l].order = req[r].order
    BY <1>1 DEF LineRow, LineExists
  <2>6. pending \in SUBSET Lines
    OBVIOUS
  <2> HIDE DEF rows, pending
  <2>7. QED
    BY <2>1, <2>2, <2>3, <2>4, <2>5, <2>6, StagingStep DEF Statement
<1>5. QED
  BY <1>2, <1>3, <1>4

(* Reading the rows back for the new total.                                *)
LEMMA ReadLinesStep ==
    ASSUME Inv, NEW r \in Requests, ReadLines(r)
    PROVE  Inv'
<1> DEFINE n == TotalOf(req[r].order, Seen(r))
           next == [req[r] EXCEPT !.pc = "write_totals", !.saved = n]
<1>1. /\ req[r] \in RequestState /\ req \in [Requests -> RequestState]
      /\ RequestShape(r) /\ LocksHeld(r) /\ Idle.pc = "idle"
  BY DEF Inv, TypeOK, Idle
<1>2. next \in RequestState
  <2>1. n \in Nat
    BY TotalIsNat
  <2>2. QED
    BY <1>1, <2>1 DEF RequestState, Statement
<1>3. /\ req[r].pc = "read_lines" /\ UNCHANGED <<order, line, paid>>
      /\ req' = [req EXCEPT ![r] = next]
  BY DEF ReadLines, GotoSaving
<1>4. /\ next.pc = "write_totals" /\ next.op = req[r].op /\ next.order = req[r].order
      /\ next.line = req[r].line /\ next.write = req[r].write
  BY <1>1 DEF RequestState
<1> HIDE DEF next
<1>5. req'[r] = next /\ \A q \in Requests \ {r} : req'[q] = req[q]
  BY <1>1, <1>3
<1>6. RequestShape(r)'
  BY <1>1, <1>3, <1>4, <1>5 DEF RequestShape
<1>7. LocksHeld(r)'
  <2>1. \A q \in Requests : req'[q].line = req[q].line
    BY <1>4, <1>5
  <2>2. QED
    BY <1>1, <1>3, <1>4, <1>5, <2>1 DEF LocksHeld, LineExists, OrderExists, Holding
<1>8. QED
  BY <1>2, <1>3, <1>4, <1>6, <1>7, LocalStep

-----------------------------------------------------------------------------
(* The last statement of each request                                      *)

(* A transaction that commits its rows (there may be none).                *)
LEMMA CommitStep ==
    ASSUME Inv, NEW r \in Requests, req' = [req EXCEPT ![r] = Idle],
           line' = Seen(r) \/ line' = line,
           order' \in [Orders -> OrderRow], paid' \in [Orders -> Nat],
           \A o \in Orders : /\ OrderExists(o) => OrderExists(o)'
                             /\ paid'[o] > 0 => OrderExists(o)'
                             /\ OrderExists(o)' => order'[o].table \in Tables
    PROVE  Inv'
<1>1. line' \in [Lines -> LineRow]
  BY SeenType DEF Inv, TypeOK
<1>2. ASSUME NEW l \in Lines
      PROVE  line'[l] = line[l] \/ (l \in DOMAIN req[r].write /\ line'[l] = req[r].write[l])
  BY DEF Seen
<1>3. RowsBelong'
  <2>1. ASSUME NEW l \in Lines
        PROVE  (IF LineExists(l) THEN line[l].order \in Orders /\ OrderExists(line[l].order)
                                 ELSE line[l].order = NoRow)'
    <3>1. CASE line'[l] = line[l]
      <4>1. IF LineExists(l) THEN line[l].order \in Orders /\ OrderExists(line[l].order)
                             ELSE line[l].order = NoRow
        BY DEF Inv, RowsBelong
      <4>2. LineExists(l)' = LineExists(l)
        BY <3>1 DEF LineExists
      <4>3. QED
        BY <3>1, <4>1, <4>2 DEF OrderExists
    <3>2. CASE l \in DOMAIN req[r].write /\ line'[l] = req[r].write[l]
      <4>1. /\ req[r].order \in Orders
            /\ req[r].write[l].order \in {req[r].order, NoRow}
            /\ req[r].write[l].order = NoRow <=> req[r].write[l].status = "absent"
            /\ req[r].pc \in Holding => OrderExists(req[r].order)
        BY <3>2 DEF Inv, LocksHeld
      <4>2. req[r].pc \in Holding
        BY <3>2 DEF Inv, RequestShape, Holding
      <4>3. QED
        BY <3>2, <4>1, <4>2, OrdersAssumption DEF LineExists, OrderExists
    <3>3. QED
      BY <1>2, <3>1, <3>2
  <2>2. QED
    BY <2>1 DEF RowsBelong
<1>4. ASSUME NEW l \in Lines
      PROVE  \/ line'[l].order = line[l].order /\ LineExists(l)' = LineExists(l)
             \/ l \in DOMAIN req[r].write /\ line'[l] = req[r].write[l]
  BY <1>2 DEF LineExists
<1>5. QED
  BY <1>1, <1>3, <1>4, LastStep

(* A statement that moves lines of the kitchen without locking others.     *)
LEMMA KitchenStep ==
    ASSUME Inv, NEW r \in Requests, req' = [req EXCEPT ![r] = Idle],
           UNCHANGED <<order, paid>>, line' \in [Lines -> LineRow],
           \A l \in Lines : /\ line'[l].order = line[l].order
                            /\ line'[l].status = "absent" <=> line[l].status = "absent"
    PROVE  Inv'
<1>1. \A l \in Lines : LineExists(l)' = LineExists(l)
  BY DEF LineExists
<1>2. RowsBelong'
  BY <1>1 DEF Inv, RowsBelong, OrderExists, Active
<1>3. \A o \in Orders : OrderExists(o) => OrderExists(o)'
  BY DEF OrderExists
<1>4. QED
  BY <1>1, <1>2, <1>3, LastStep DEF Inv, TypeOK

LEMMA KitchenSteps ==
    ASSUME Inv, NEW r \in Requests, MoveWrite(r) \/ SendWrite(r) \/ ServeWrite(r)
    PROVE  Inv'
<1>1. line \in [Lines -> LineRow] /\ RequestShape(r)
  BY DEF Inv, TypeOK
<1>2. CASE MoveWrite(r)
  <2> DEFINE status == Persisted(req[r].op)
             l == req[r].line
  <2>1. status \in LineStatus /\ status # "absent" /\ l \in Lines
    BY <1>1, <1>2 DEF MoveWrite, RequestShape, KitchenMove, LineStatus, Persisted
  <2>2. line' = [line EXCEPT ![l] = [line[l] EXCEPT !.status = status]] /\ LineExists(l)
    BY <1>2 DEF MoveWrite
  <2> HIDE DEF status, l
  <2>3. /\ line' \in [Lines -> LineRow]
        /\ \A k \in Lines : /\ line'[k].order = line[k].order
                            /\ line'[k].status = "absent" <=> line[k].status = "absent"
    BY <1>1, <2>1, <2>2 DEF LineRow, LineExists
  <2>4. QED
    BY <1>2, <2>3, KitchenStep DEF MoveWrite, Finish
<1>3. CASE SendWrite(r)
  <2>1. /\ line' \in [Lines -> LineRow]
        /\ \A k \in Lines : /\ line'[k].order = line[k].order
                            /\ line'[k].status = "absent" <=> line[k].status = "absent"
    BY <1>1, <1>3 DEF SendWrite, LineRow
  <2>2. QED
    BY <1>3, <2>1, KitchenStep DEF SendWrite, Finish
<1>4. CASE ServeWrite(r)
  <2>1. \A l \in ServedBy(r) : l \in Lines /\ line[l].status # "absent"
    BY DEF ServedBy, Queued
  <2>2. /\ line' \in [Lines -> LineRow]
        /\ \A k \in Lines : /\ line'[k].order = line[k].order
                            /\ line'[k].status = "absent" <=> line[k].status = "absent"
    BY <1>1, <1>4, <2>1 DEF ServeWrite, LineRow, LineStatus
  <2>3. QED
    BY <1>4, <2>2, KitchenStep DEF ServeWrite, Finish
<1>5. QED
  BY <1>2, <1>3, <1>4

LEMMA LastSteps ==
    ASSUME Inv, NEW r \in Requests,
           \/ OpenInsert(r) \/ OpenConflict(r) \/ WriteTotals(r)
           \/ ChargeWrite(r) \/ PaySettle(r) \/ Abort(r)
    PROVE  Inv'
<1>1. /\ order \in [Orders -> OrderRow] /\ paid \in [Orders -> Nat]
      /\ req[r] \in RequestState /\ RequestShape(r) /\ LocksHeld(r)
  BY DEF Inv, TypeOK
<1>2. \A o \in Orders : /\ paid[o] > 0 => OrderExists(o)
                        /\ OrderExists(o) => order[o].table \in Tables
  BY DEF Inv, RowsBelong
<1>3. CASE OpenInsert(r)
  <2>1. PICK o \in Orders :
          /\ FreshOrder(o)
          /\ order' = [order EXCEPT ![o] =
               [status |-> "open", table |-> req[r].table,
                number |-> req[r].saved, total |-> 0, closed |-> FALSE]]
    BY <1>3 DEF OpenInsert
  <2>2. req[r].table \in Tables /\ req[r].saved \in Nat
    BY <1>1, <1>3 DEF OpenInsert, RequestShape, RequestState
  <2>3. order' \in [Orders -> OrderRow]
    BY <1>1, <2>1, <2>2 DEF OrderRow, ActiveStatus
  <2>4. \A p \in Orders : /\ OrderExists(p) => OrderExists(p)'
                          /\ OrderExists(p)' => order'[p].table \in Tables
    BY <1>1, <1>2, <2>1, <2>2 DEF OrderExists, Active
  <2>5. QED
    BY <1>1, <1>2, <1>3, <2>3, <2>4, CommitStep DEF OpenInsert, Finish
<1>4. CASE OpenConflict(r) \/ Abort(r)
  <2>1. req' = [req EXCEPT ![r] = Idle] /\ UNCHANGED <<order, line, paid>>
    BY <1>4 DEF OpenConflict, Abort, Finish
  <2>2. QED
    BY <1>1, <1>2, <2>1, CommitStep DEF OrderExists, Active
<1>5. CASE WriteTotals(r)
  <2>1. /\ req[r].saved \in Nat /\ line' = Seen(r) /\ UNCHANGED paid
        /\ order' = [order EXCEPT ![req[r].order] =
                       [order[req[r].order] EXCEPT !.total = req[r].saved]]
        /\ req' = [req EXCEPT ![r] = Idle]
    BY <1>1, <1>5 DEF WriteTotals, Finish, RequestState
  <2>2. order' \in [Orders -> OrderRow]
    BY <1>1, <2>1 DEF OrderRow
  <2>3. \A p \in Orders : /\ order'[p].status = order[p].status
                          /\ order'[p].table = order[p].table
    BY <1>1, <2>1 DEF OrderRow
  <2>4. QED
    BY <1>2, <1>1, <2>1, <2>2, <2>3, CommitStep DEF OrderExists, Active
<1>6. CASE ChargeWrite(r)
  <2>1. req[r].order \in Orders /\ OrderExists(req[r].order)
    BY <1>1, <1>6 DEF ChargeWrite, RequestShape
  <2>2. order' = [order EXCEPT ![req[r].order] =
                     [order[req[r].order] EXCEPT !.status = "pending_payment"]]
    BY <1>6 DEF ChargeWrite
  <2>3. order' \in [Orders -> OrderRow]
    BY <1>1, <2>2 DEF OrderRow, ActiveStatus
  <2>4. ASSUME NEW o \in Orders
        PROVE  OrderExists(o)' = OrderExists(o) /\ order'[o].table = order[o].table
    BY <1>1, <2>1, <2>2 DEF OrderExists, OrderRow
  <2>5. QED
    BY <1>1, <1>2, <1>6, <2>3, <2>4, CommitStep DEF ChargeWrite, Finish
<1>7. CASE PaySettle(r)
  <2> DEFINE o == req[r].order
             status == IF req[r].saved = 0 THEN "paid" ELSE "pending_payment"
             closed == (req[r].saved = 0)
             row == [order[o] EXCEPT !.status = status, !.closed = closed]
  <2>1. o \in Orders /\ OrderExists(o)
    BY <1>1, <1>7 DEF PaySettle, RequestShape, LocksHeld, Holding
  <2>2. /\ order' = [order EXCEPT ![o] = row]
        /\ paid' = [paid EXCEPT ![o] = paid[o] + req[r].amount]
        /\ line' = Seen(r) /\ req' = [req EXCEPT ![r] = Idle]
    BY <1>7 DEF PaySettle, Finish
  <2>3. row \in OrderRow /\ row.status # "absent" /\ row.table = order[o].table
    <3>1. closed \in BOOLEAN /\ status \in {"paid", "pending_payment"}
      OBVIOUS
    <3> HIDE DEF closed, status
    <3>2. QED
      BY <1>1, <2>1, <3>1 DEF OrderRow, ActiveStatus
  <2>4. req[r].amount \in Nat /\ paid[o] \in Nat
    BY <1>1, <2>1 DEF RequestState
  <2> HIDE DEF row, status, o
  <2>5. order' \in [Orders -> OrderRow] /\ paid' \in [Orders -> Nat]
    BY <1>1, <2>1, <2>2, <2>3, <2>4
  <2>6. ASSUME NEW p \in Orders
        PROVE  /\ OrderExists(p) => OrderExists(p)'
               /\ paid'[p] > 0 => OrderExists(p)'
               /\ OrderExists(p)' => order'[p].table \in Tables
    <3>1. CASE p = o
      BY <1>1, <1>2, <2>1, <2>2, <2>3, <3>1 DEF OrderExists
    <3>2. CASE p # o
      BY <1>1, <1>2, <2>1, <2>2, <3>2 DEF OrderExists
    <3>3. QED
      BY <3>1, <3>2
  <2>7. QED
    BY <2>2, <2>5, <2>6, CommitStep
<1>8. QED
  BY <1>3, <1>4, <1>5, <1>6, <1>7

(* Freeing a table takes no row away from a transaction in flight.         *)
LEMMA FreeStep ==
    ASSUME Inv, NEW r \in Requests, NEW t \in Tables, Free(r, t)
    PROVE  Inv'
<1>1. PICK o \in ActiveOf(t) :
        /\ \A q \in Requests : HoldsOrder(q) => req[q].order # o
        /\ \A l \in Lines : line[l].order = o => ~Locked(r, l)
        /\ order' = [order EXCEPT ![o] = AbsentOrder]
        /\ paid' = [paid EXCEPT ![o] = 0]
        /\ line' = [l \in Lines |-> IF line[l].order = o THEN AbsentLine ELSE line[l]]
  BY DEF Free
<1>2. /\ o \in Orders /\ UNCHANGED req
      /\ order \in [Orders -> OrderRow] /\ paid \in [Orders -> Nat]
      /\ line \in [Lines -> LineRow]
  BY DEF Inv, TypeOK, ActiveOf, Free
<1>3. req[r] = Idle /\ DOMAIN Idle.write = {}
  <2>1. req[r].pc = "idle"
    BY DEF Free, MayStart, Busy
  <2>2. QED
    BY <2>1 DEF Inv, RequestShape, Idle
<1>4. TypeOK'
  <2>1. AbsentOrder \in OrderRow /\ AbsentLine \in LineRow
    BY OrdersAssumption DEF AbsentOrder, OrderRow, AbsentLine, LineRow
  <2>2. /\ order' \in [Orders -> OrderRow] /\ paid' \in [Orders -> Nat]
        /\ line' \in [Lines -> LineRow]
    BY <1>1, <1>2, <2>1
  <2>3. QED
    BY <1>2, <2>2 DEF Inv, TypeOK
<1>5. ASSUME NEW p \in Orders \ {o}
      PROVE  order'[p] = order[p] /\ paid'[p] = paid[p]
  BY <1>1, <1>2
<1>6. ASSUME NEW l \in Lines
      PROVE  IF line[l].order = o THEN line'[l] = AbsentLine ELSE line'[l] = line[l]
  BY <1>1
<1>7. RowsBelong'
  <2>1. ASSUME NEW l \in Lines
        PROVE  (IF LineExists(l) THEN line[l].order \in Orders /\ OrderExists(line[l].order)
                                 ELSE line[l].order = NoRow)'
    <3>1. CASE line[l].order = o
      BY <1>6, <3>1 DEF AbsentLine, LineExists
    <3>2. CASE line[l].order # o
      <4>1. line'[l] = line[l]
        BY <1>6, <3>2
      <4>2. IF LineExists(l) THEN line[l].order \in Orders /\ OrderExists(line[l].order)
                             ELSE line[l].order = NoRow
        BY DEF Inv, RowsBelong
      <4>3. QED
        BY <1>5, <3>2, <4>1, <4>2 DEF LineExists, OrderExists
    <3>3. QED
      BY <3>1, <3>2
  <2>2. ASSUME NEW p \in Orders
        PROVE  (/\ paid[p] > 0 => OrderExists(p)
                /\ OrderExists(p) => order[p].table \in Tables)'
    <3>1. CASE p = o
      BY <1>1, <1>2, <3>1 DEF AbsentOrder, OrderExists
    <3>2. CASE p # o
      BY <1>5, <3>2 DEF Inv, RowsBelong, OrderExists
    <3>3. QED
      BY <3>1, <3>2
  <2>3. QED
    BY <2>1, <2>2 DEF RowsBelong
<1>8. ASSUME NEW q \in Requests PROVE RequestShape(q)'
  <2>1. ASSUME NEW l \in Lines, LineExists(l)'
        PROVE  LineExists(l) /\ line'[l] = line[l]
    BY <1>6, <2>1 DEF LineExists, AbsentLine
  <2>2. RequestShape(q) /\ req'[q] = req[q]
    BY <1>2 DEF Inv
  <2>3. QED
    BY <2>1, <2>2 DEF RequestShape
<1>9. ASSUME NEW q \in Requests PROVE LocksHeld(q)'
  <2>1. LocksHeld(q) /\ RequestShape(q) /\ \A p \in Requests : req'[p] = req[p]
    BY <1>2 DEF Inv
  <2>2. DOMAIN req[q].write \subseteq Lines
    BY WrittenAreLines DEF Inv
  <2>3. ASSUME NEW l \in DOMAIN req[q].write
        PROVE  line'[l] = line[l]
    <3>1. q # r /\ l \in Lines
      BY <1>3, <2>2
    <3>2. line[l].order # o
      BY <1>1, <3>1 DEF Locked
    <3>3. QED
      BY <1>6, <3>1, <3>2
  <2>4. ASSUME req[q].pc \in Holding
        PROVE  req[q].order # o
    <3>1. CASE HoldsOrder(q)
      BY <1>1, <3>1
    <3>2. CASE ~HoldsOrder(q)
      <4>1. PICK l \in DOMAIN req[q].write : TRUE
        BY <2>1, <2>4, <3>2 DEF RequestShape, Holding, HoldsOrder
      <4>2. req[q].op # "add"
        BY <3>2, <4>1 DEF HoldsOrder
      <4>3. line[l].order = req[q].order
        BY <2>1, <4>1, <4>2 DEF LocksHeld
      <4>4. q # r /\ l \in Lines
        BY <1>3, <2>2, <4>1
      <4>5. QED
        BY <1>1, <4>1, <4>3, <4>4 DEF Locked
    <3>3. QED
      BY <3>1, <3>2
  <2>5. req[q].pc \in Holding => OrderExists(req[q].order)'
    BY <1>2, <1>5, <2>1, <2>4 DEF LocksHeld, OrderExists
  <2>6. QED
    BY <2>1, <2>3, <2>5 DEF LocksHeld, LineExists
<1>10. QED
  BY <1>4, <1>7, <1>8, <1>9 DEF Inv

-----------------------------------------------------------------------------
(* The theorems                                                            *)

LEMMA InitInv == Init => Inv
<1> SUFFICES ASSUME Init PROVE Inv
  OBVIOUS
<1>1. TypeOK
  <2>1. AbsentOrder \in OrderRow /\ AbsentLine \in LineRow
    BY OrdersAssumption DEF AbsentOrder, OrderRow, AbsentLine, LineRow
  <2>2. QED
    BY <2>1, IdleType DEF Init, TypeOK
<1>2. ASSUME NEW r \in Requests PROVE RequestShape(r) /\ LocksHeld(r)
  BY DEF Init, Idle, RequestShape, LocksHeld, Holding
<1>3. RowsBelong
  BY DEF Init, RowsBelong, LineExists, OrderExists, AbsentLine, AbsentOrder
<1>4. QED
  BY <1>1, <1>2, <1>3 DEF Inv

LEMMA NextInv == Inv /\ [Next]_vars => Inv'
<1> SUFFICES ASSUME Inv, [Next]_vars PROVE Inv'
  OBVIOUS
<1>1. CASE UNCHANGED vars
  BY <1>1 DEF vars, Inv, TypeOK, RequestShape, LocksHeld, RowsBelong, LineExists,
              OrderExists, Holding
<1>2. ASSUME NEW r \in Requests, Opening(r) PROVE Inv'
  BY <1>2, FirstSteps, MiddleReads, LastSteps DEF Opening
<1>3. ASSUME NEW r \in Requests, Editing(r) PROVE Inv'
  <2>1. 0 \in 0 .. MaxCents
    BY OrdersAssumption
  <2>2. QED
    BY <1>3, <2>1, FirstSteps, MiddleReads, StagingSteps, ReadLinesStep, LastSteps
       DEF Editing
<1>4. ASSUME NEW r \in Requests, Serving(r) PROVE Inv'
  BY <1>4, FirstSteps, MiddleReads, KitchenSteps DEF Serving
<1>5. ASSUME NEW r \in Requests, Paying(r) PROVE Inv'
  <2>1. \A cents \in 1 .. (MaxCents * Cardinality(Lines)) : cents \in Nat
    BY OrdersAssumption, FS_CardinalityType
  <2>2. QED
    BY <1>5, <2>1, FirstSteps, MiddleReads, StagingSteps, FreeStep, LastSteps DEF Paying
<1>6. ASSUME NEW r \in Requests, Abort(r) PROVE Inv'
  BY <1>6, LastSteps
<1>7. QED
  BY <1>1, <1>2, <1>3, <1>4, <1>5, <1>6 DEF Next

(* Rows and requests stay of their types, and the inductive invariant      *)
(* holds, for any number of tables, orders, lines and requests.            *)
THEOREM Invariant == Spec => []Inv
  BY InitInv, NextInv, PTL DEF Spec

THEOREM TypeCorrect == Spec => []TypeOK
<1>1. Inv => TypeOK
  BY DEF Inv
<1>2. QED
  BY <1>1, Invariant, PTL

(* No line, payment or running transaction is ever left without its order. *)
THEOREM NoOrphansHolds == Spec => []NoOrphans
<1>1. Inv => NoOrphans
  BY DEF Inv, RowsBelong, LocksHeld, Holding, NoOrphans
<1>2. QED
  BY <1>1, Invariant, PTL

-----------------------------------------------------------------------------
(* The steps that write an order or a line                                 *)

Step(r) == Opening(r) \/ Editing(r) \/ Serving(r) \/ Paying(r) \/ Abort(r)

(* Every other step of a request leaves the orders and the payments alone, *)
(* or the lines.                                                           *)
LEMMA Writers ==
    ASSUME NEW r, Step(r)
    PROVE  /\ \/ UNCHANGED <<order, paid>>
              \/ OpenInsert(r) \/ WriteTotals(r) \/ ChargeWrite(r) \/ PaySettle(r)
              \/ \E t \in Tables : Free(r, t)
           /\ \/ UNCHANGED line
              \/ MoveWrite(r) \/ SendWrite(r) \/ ServeWrite(r)
              \/ WriteTotals(r) \/ PaySettle(r)
              \/ \E t \in Tables : Free(r, t)
<1>1. CASE Opening(r)
  BY <1>1 DEF Opening, OpenCheck, OpenCount, OpenInsert, OpenConflict
<1>2. CASE Editing(r)
  BY <1>2 DEF Editing, AddCheck, EditCheck, AddInsert, EditPayments, EditWrite, ReadLines
<1>3. CASE Serving(r)
  BY <1>3 DEF Serving, MoveCheck, SendCheck, ServeCheck, MoveWrite, FindActive,
              SendWrite, ServeWrite
<1>4. CASE Paying(r)
  BY <1>4 DEF Paying, ChargeCheck, PayCheck, ChargeFind, ChargeWrite, PayInsert, PayPrepare
<1>5. CASE Abort(r)
  BY <1>5 DEF Abort
<1>6. QED
  BY <1>1, <1>2, <1>3, <1>4, <1>5 DEF Step

LEMMA OrderWriters ==
    ASSUME [Next]_vars
    PROVE  \/ UNCHANGED <<order, paid>>
           \/ \E r \in Requests :
                 \/ OpenInsert(r) \/ WriteTotals(r) \/ ChargeWrite(r) \/ PaySettle(r)
                 \/ \E t \in Tables : Free(r, t)
<1>1. CASE UNCHANGED vars
  BY <1>1 DEF vars
<1>2. QED
  BY <1>1, Writers DEF Next, Step

(* What each of them makes of the status and the table of the orders.      *)
LEMMA StatusAfter ==
    ASSUME Inv, [Next]_vars
    PROVE  \/ \A p \in Orders : /\ order'[p].status = order[p].status
                                /\ order'[p].table = order[p].table
                                /\ paid'[p] >= paid[p]
           \/ \E o \in Orders :
                /\ \A p \in Orders \ {o} : order'[p] = order[p] /\ paid'[p] = paid[p]
                /\ \/ /\ order[o].status = "absent"
                      /\ ActiveOf(order'[o].table) = {}
                   \/ /\ order'[o].status \in {"paid", "pending_payment"}
                      /\ order'[o].status = "pending_payment" => ~Duplicate(o)
                      /\ order'[o].table = order[o].table /\ paid'[o] >= paid[o]
                   \/ order'[o].status = "absent" /\ Active(o)
<1> USE DEF Inv
<1>0. order \in [Orders -> OrderRow] /\ paid \in [Orders -> Nat]
  BY DEF TypeOK
<1>1. CASE UNCHANGED <<order, paid>>
  BY <1>0, <1>1
<1>2. ASSUME NEW r \in Requests, OpenInsert(r)
      PROVE  \E o \in Orders :
               /\ \A p \in Orders \ {o} : order'[p] = order[p] /\ paid'[p] = paid[p]
               /\ order[o].status = "absent" /\ ActiveOf(order'[o].table) = {}
  BY <1>0, <1>2 DEF OpenInsert, FreshOrder, OrderExists
<1>3. ASSUME NEW r \in Requests, WriteTotals(r)
      PROVE  \A p \in Orders : /\ order'[p].status = order[p].status
                               /\ order'[p].table = order[p].table
                               /\ paid'[p] >= paid[p]
  <2>1. /\ order' = [order EXCEPT ![req[r].order] =
                       [order[req[r].order] EXCEPT !.total = req[r].saved]]
        /\ UNCHANGED paid
    BY <1>3 DEF WriteTotals
  <2>2. QED
    BY <1>0, <2>1 DEF OrderRow
<1>4. ASSUME NEW r \in Requests, ChargeWrite(r)
      PROVE  \E o \in Orders :
               /\ \A p \in Orders \ {o} : order'[p] = order[p] /\ paid'[p] = paid[p]
               /\ order'[o].status = "pending_payment" /\ ~Duplicate(o)
               /\ order'[o].table = order[o].table /\ paid'[o] >= paid[o]
  <2>1. req[r].order \in Orders
    BY <1>4 DEF ChargeWrite, RequestShape
  <2>2. /\ order' = [order EXCEPT ![req[r].order] =
                       [order[req[r].order] EXCEPT !.status = "pending_payment"]]
        /\ ~Duplicate(req[r].order) /\ UNCHANGED paid
    BY <1>4 DEF ChargeWrite
  <2>3. QED
    BY <1>0, <2>1, <2>2 DEF OrderRow
<1>5. ASSUME NEW r \in Requests, PaySettle(r)
      PROVE  \E o \in Orders :
               /\ \A p \in Orders \ {o} : order'[p] = order[p] /\ paid'[p] = paid[p]
               /\ order'[o].status \in {"paid", "pending_payment"}
               /\ order'[o].status = "pending_payment" => ~Duplicate(o)
               /\ order'[o].table = order[o].table /\ paid'[o] >= paid[o]
  <2> DEFINE o == req[r].order
             status == IF req[r].saved = 0 THEN "paid" ELSE "pending_payment"
             closed == (req[r].saved = 0)
  <2>1. o \in Orders /\ req[r].amount \in Nat /\ req[r].saved \in Nat
    BY <1>5 DEF PaySettle, RequestShape, TypeOK, RequestState
  <2>2. /\ order' = [order EXCEPT ![o] = [order[o] EXCEPT !.status = status,
                                                          !.closed = closed]]
        /\ paid' = [paid EXCEPT ![o] = paid[o] + req[r].amount]
        /\ req[r].saved > 0 => ~Duplicate(o)
    BY <1>5 DEF PaySettle
  <2>3. /\ status \in {"paid", "pending_payment"}
        /\ status = "pending_payment" => ~Duplicate(o)
    BY <2>1, <2>2
  <2> HIDE DEF status, closed, o
  <2>4. /\ order'[o].status = status /\ order'[o].table = order[o].table
        /\ paid'[o] >= paid[o]
        /\ \A p \in Orders \ {o} : order'[p] = order[p] /\ paid'[p] = paid[p]
    BY <1>0, <2>1, <2>2 DEF OrderRow
  <2>5. QED
    BY <2>1, <2>3, <2>4
<1>6. ASSUME NEW r \in Requests, NEW t \in Tables, Free(r, t)
      PROVE  \E o \in Orders :
               /\ \A p \in Orders \ {o} : order'[p] = order[p] /\ paid'[p] = paid[p]
               /\ order'[o].status = "absent" /\ Active(o)
  BY <1>0, <1>6 DEF Free, ActiveOf, AbsentOrder
<1>7. QED
  BY <1>1, <1>2, <1>3, <1>4, <1>5, <1>6, OrderWriters

(* No interleaving gives a table two active orders: an insert finds none,  *)
(* and every update that may make an order active again respects the index.*)
THEOREM OneActiveHolds == Spec => []OneActiveOrderPerTable
<1>1. Init => OneActiveOrderPerTable
  BY DEF Init, OneActiveOrderPerTable, Active, ActiveStatus, AbsentOrder
<1>2. ASSUME Inv, OneActiveOrderPerTable, [Next]_vars PROVE OneActiveOrderPerTable'
  <2>1. CASE \A p \in Orders : /\ order'[p].status = order[p].status
                               /\ order'[p].table = order[p].table
    BY <1>2, <2>1 DEF OneActiveOrderPerTable, Active
  <2>2. ASSUME NEW o \in Orders,
               \A p \in Orders \ {o} : order'[p] = order[p],
               order[o].status = "absent", ActiveOf(order'[o].table) = {}
        PROVE  OneActiveOrderPerTable'
    BY <1>2, <2>2 DEF OneActiveOrderPerTable, Active, ActiveOf
  <2>3. ASSUME NEW o \in Orders,
               \A p \in Orders \ {o} : order'[p] = order[p],
               Active(o)' => ~Duplicate(o) /\ order'[o].table = order[o].table
        PROVE  OneActiveOrderPerTable'
    BY <1>2, <2>3 DEF OneActiveOrderPerTable, Active, Duplicate
  <2>4. QED
    BY <1>2, <2>1, <2>2, <2>3, StatusAfter DEF Active, ActiveStatus
<1>3. QED
  BY <1>1, <1>2, Invariant, PTL DEF Spec

(* Nothing deletes an order that was paid in full or what was paid on it.  *)
THEOREM PaidOrderKeptHolds == Spec => PaidOrderKept
<1>1. ASSUME Inv, [Next]_vars
      PROVE  [\A o \in Orders : order[o].status = "paid"
                 => OrderExists(o)' /\ paid'[o] >= paid[o]]_vars
  <2>1. ASSUME NEW p \in Orders, order[p].status = "paid"
        PROVE  OrderExists(p)' /\ paid'[p] >= paid[p]
    <3>1. paid[p] \in Nat
      BY <1>1 DEF Inv, TypeOK
    <3>2. CASE order'[p].status = order[p].status /\ paid'[p] >= paid[p]
      BY <2>1, <3>2 DEF OrderExists
    <3>3. CASE order'[p] = order[p] /\ paid'[p] = paid[p]
      BY <2>1, <3>1, <3>3 DEF OrderExists
    <3>4. CASE order'[p].status \in {"paid", "pending_payment"} /\ paid'[p] >= paid[p]
      BY <3>4 DEF OrderExists
    <3>5. ~Active(p) /\ order[p].status # "absent"
      BY <2>1 DEF Active, ActiveStatus
    <3>6. QED
      BY <1>1, <3>2, <3>3, <3>4, <3>5, StatusAfter
  <2>2. QED
    BY <2>1
<1>2. QED
  BY <1>1, Invariant, PTL DEF Spec, PaidOrderKept

-----------------------------------------------------------------------------
(* What a step of one request changes                                      *)

(* A line another transaction has locked does not change.                  *)
LEMMA StagedStill ==
    ASSUME Inv, NEW r \in Requests, Step(r),
           NEW q \in Requests, q # r, NEW l \in DOMAIN req[q].write
    PROVE  line'[l] = line[l]
<1>1. l \in Lines /\ Locked(r, l) /\ l \notin DOMAIN req[r].write
      /\ line \in [Lines -> LineRow]
  BY WrittenAreLines DEF Inv, LocksHeld, Locked, TypeOK
<1>2. CASE MoveWrite(r)
  BY <1>1, <1>2 DEF MoveWrite
<1>3. CASE SendWrite(r)
  BY <1>1, <1>3 DEF SendWrite
<1>4. CASE ServeWrite(r)
  BY <1>1, <1>4 DEF ServeWrite
<1>5. CASE WriteTotals(r) \/ PaySettle(r)
  BY <1>1, <1>5 DEF WriteTotals, PaySettle, Seen
<1>6. ASSUME NEW t \in Tables, Free(r, t) PROVE line'[l] = line[l]
  BY <1>1, <1>6 DEF Free
<1>7. QED
  BY <1>2, <1>3, <1>4, <1>5, <1>6, Writers

(* A step changes no other request.                                        *)
LEMMA OneRequestMoves ==
    ASSUME Inv, NEW r \in Requests, Step(r), NEW q \in Requests, q # r
    PROVE  req'[q] = req[q]
<1>0. req \in [Requests -> RequestState]
  BY DEF Inv, TypeOK
<1>1. CASE Opening(r)
  BY <1>0, <1>1 DEF Opening, OpenCheck, OpenCount, OpenInsert, OpenConflict, Start,
                    GotoSaving, Finish
<1>2. CASE Editing(r)
  <2>1. \E next : req' = [req EXCEPT ![r] = next]
    BY <1>2 DEF Editing, AddCheck, EditCheck, AddInsert, EditPayments, EditWrite,
                ReadLines, WriteTotals, Start, Goto, GotoSaving, Stage, Finish
  <2>2. QED
    BY <1>0, <2>1
<1>3. CASE Serving(r)
  <2>1. \E next : req' = [req EXCEPT ![r] = next]
    BY <1>3 DEF Serving, MoveCheck, SendCheck, ServeCheck, MoveWrite, FindActive,
                SendWrite, ServeWrite, Start, Finish
  <2>2. QED
    BY <1>0, <2>1
<1>4. CASE Paying(r)
  <2>1. UNCHANGED req \/ \E next : req' = [req EXCEPT ![r] = next]
    BY <1>4 DEF Paying, ChargeCheck, Free, PayCheck, ChargeFind, ChargeWrite, PayInsert,
                PayPrepare, PaySettle, Start, Goto, Stage, Finish
  <2>2. QED
    BY <1>0, <2>1
<1>5. CASE Abort(r)
  BY <1>0, <1>5 DEF Abort, Finish
<1>6. QED
  BY <1>1, <1>2, <1>3, <1>4, <1>5 DEF Step

LEMMA StepInv ==
    ASSUME Inv, NEW r \in Requests, Step(r)
    PROVE  Inv'
<1>1. Next
  BY DEF Next, Step
<1>2. QED
  BY <1>1, NextInv

\* The request has passed its first check.
Started(r) ==
    /\ req'[r].write = Idle.write
    /\ \/ /\ req'[r].pc \in {"open_count", "find_active", "charge_find"}
          /\ req'[r].line = NoRow
       \/ /\ req'[r].pc = "add_insert" /\ req'[r].line = NoRow
          /\ paid[req'[r].order] = 0
       \/ /\ req'[r].pc = "pay_insert" /\ req'[r].line = NoRow
          /\ Active(req'[r].order)
       \/ /\ req'[r].pc \in {"edit_payments", "move_write"}
          /\ line[req'[r].line].status \notin {"served", "cancelled"}

\* The request has gone on to its next statement.
Continued(r) ==
    /\ req'[r].line = req[r].line
    /\ \/ req'[r].pc \in {"open_insert", "write_many"} /\ req'[r].write = req[r].write
       \/ /\ req'[r].pc = "edit_write" /\ req'[r].write = req[r].write
          /\ paid[req'[r].order] = 0
       \/ /\ req'[r].pc = "charge_write" /\ req'[r].write = req[r].write
          /\ Active(req'[r].order)
       \/ /\ req[r].pc = "pay_insert" /\ req'[r].order = req[r].order
          /\ req'[r].pc \in {"pay_prepare", "pay_settle"} /\ req'[r].write = req[r].write
       \/ /\ req[r].pc = "add_insert" /\ req'[r].order = req[r].order
          /\ req'[r].pc = "read_lines" /\ \A l \in DOMAIN req'[r].write : ~LineExists(l)
       \/ /\ req[r].pc = "edit_write" /\ req'[r].order = req[r].order
          /\ req'[r].pc = "read_lines" /\ DOMAIN req'[r].write = {req[r].line}
       \/ /\ req[r].pc = "read_lines" /\ req'[r].order = req[r].order
          /\ req'[r].pc = "write_totals" /\ req'[r].write = req[r].write
       \/ /\ req[r].pc = "pay_prepare" /\ req'[r].order = req[r].order
          /\ req'[r].pc = "pay_settle"
          /\ \A l \in DOMAIN req'[r].write :
                /\ line[l].status = "pending" /\ req'[r].write[l].status = "preparing"
                /\ req'[r].write[l].order = line[l].order
                /\ req'[r].write[l].subtotal = line[l].subtotal

(* The first statement of a request. *)
LEMMA StartsOnward ==
    ASSUME Inv, NEW r \in Requests,
           \/ \E t \in Tables : OpenCheck(r, t) \/ ChargeCheck(r, t)
           \/ \E t \in Tables, ids \in SUBSET Lines :
                 SendCheck(r, t, ids) \/ ServeCheck(r, t, ids)
           \/ \E o \in Orders, cents \in Int : AddCheck(r, o, cents) \/ PayCheck(r, o, cents)
           \/ \E l \in Lines, op \in {"update", "delete", "cancel"}, cents \in Int :
                 EditCheck(r, l, op, cents)
           \/ \E l \in Lines, move \in KitchenMove : MoveCheck(r, l, move)
    PROVE  Started(r) /\ UNCHANGED <<order, line, paid>>
<1>1. Idle \in RequestState /\ req \in [Requests -> RequestState]
  BY IdleType DEF Inv, TypeOK
<1>2. ASSUME NEW t \in Tables, OpenCheck(r, t)
      PROVE  Started(r) /\ UNCHANGED <<order, line, paid>>
  <2>1. /\ req'[r] = [Idle EXCEPT !.op = "open", !.pc = "open_count", !.table = t]
        /\ UNCHANGED <<order, line, paid>>
    BY <1>1, <1>2 DEF OpenCheck, Start
  <2>2. QED
    BY <2>1 DEF Started, Idle
<1>3. ASSUME NEW t \in Tables, ChargeCheck(r, t)
      PROVE  Started(r) /\ UNCHANGED <<order, line, paid>>
  <2>1. /\ req'[r] = [Idle EXCEPT !.op = "charge", !.pc = "charge_find", !.table = t]
        /\ UNCHANGED <<order, line, paid>>
    BY <1>1, <1>3 DEF ChargeCheck, Start
  <2>2. QED
    BY <2>1 DEF Started, Idle
<1>4. ASSUME NEW t \in Tables, NEW ids \in SUBSET Lines,
             SendCheck(r, t, ids) \/ ServeCheck(r, t, ids)
      PROVE  Started(r) /\ UNCHANGED <<order, line, paid>>
  <2>1. PICK op, some :
          req' = [req EXCEPT ![r] = [Idle EXCEPT !.op = op, !.pc = "find_active",
                                                 !.table = t, !.ids = some]]
    BY <1>4 DEF SendCheck, ServeCheck, Start
  <2>2. req'[r] = [Idle EXCEPT !.op = op, !.pc = "find_active", !.table = t, !.ids = some]
    BY <1>1, <2>1
  <2>3. UNCHANGED <<order, line, paid>>
    BY <1>4 DEF SendCheck, ServeCheck
  <2>4. QED
    BY <2>2, <2>3 DEF Started, Idle
<1>5. ASSUME NEW o \in Orders, NEW cents \in Int, AddCheck(r, o, cents)
      PROVE  Started(r) /\ UNCHANGED <<order, line, paid>>
  <2>1. /\ req'[r] = [Idle EXCEPT !.op = "add", !.pc = "add_insert", !.order = o,
                                  !.table = order[o].table, !.amount = cents]
        /\ paid[o] = 0 /\ UNCHANGED <<order, line, paid>>
    BY <1>1, <1>5 DEF AddCheck, Start
  <2>2. QED
    BY <2>1 DEF Started, Idle
<1>6. ASSUME NEW o \in Orders, NEW cents \in Int, PayCheck(r, o, cents)
      PROVE  Started(r) /\ UNCHANGED <<order, line, paid>>
  <2>1. /\ req'[r] = [Idle EXCEPT !.op = "pay", !.pc = "pay_insert", !.order = o,
                                  !.table = order[o].table, !.amount = cents,
                                  !.saved = Balance(o) - cents]
        /\ Active(o) /\ UNCHANGED <<order, line, paid>>
    BY <1>1, <1>6 DEF PayCheck, Start
  <2>2. QED
    BY <2>1 DEF Started, Idle
<1>7. ASSUME NEW l \in Lines, NEW op \in {"update", "delete", "cancel"}, NEW cents \in Int,
             EditCheck(r, l, op, cents)
      PROVE  Started(r) /\ UNCHANGED <<order, line, paid>>
  <2>1. /\ req'[r] = [Idle EXCEPT !.op = op, !.pc = "edit_payments", !.line = l,
                                  !.order = line[l].order, !.amount = cents,
                                  !.table = order[line[l].order].table]
        /\ EditAllows(op, line[l]) /\ UNCHANGED <<order, line, paid>>
    BY <1>1, <1>7 DEF EditCheck, Start
  <2>2. line[l].status \notin {"served", "cancelled"}
    BY <2>1 DEF EditAllows, Queued
  <2>3. QED
    BY <2>1, <2>2 DEF Started, Idle
<1>8. ASSUME NEW l \in Lines, NEW move \in KitchenMove, MoveCheck(r, l, move)
      PROVE  Started(r) /\ UNCHANGED <<order, line, paid>>
  <2>1. /\ req'[r] = [Idle EXCEPT !.op = move, !.pc = "move_write", !.line = l,
                                  !.order = line[l].order,
                                  !.table = order[line[l].order].table]
        /\ MoveAllowed(move, line[l]) /\ UNCHANGED <<order, line, paid>>
    BY <1>1, <1>8 DEF MoveCheck, Start
  <2>2. line[l].status \notin {"served", "cancelled"}
    BY <2>1 DEF MoveAllowed, KitchenMove, Queued
  <2>3. QED
    BY <2>1, <2>2 DEF Started, Idle
<1>9. QED
  BY <1>2, <1>3, <1>4, <1>5, <1>6, <1>7, <1>8

(* The statements in the middle of a request. *)
LEMMA GoesOnward ==
    ASSUME Inv, NEW r \in Requests,
           \/ OpenCount(r) \/ EditPayments(r) \/ FindActive(r) \/ ChargeFind(r)
           \/ PayInsert(r) \/ AddInsert(r) \/ EditWrite(r) \/ ReadLines(r) \/ PayPrepare(r)
    PROVE  Continued(r) /\ UNCHANGED <<order, line, paid>>
<1>1. /\ req[r] \in RequestState /\ req \in [Requests -> RequestState]
      /\ UNCHANGED <<order, line, paid>> /\ line \in [Lines -> LineRow]
  BY DEF Inv, TypeOK, OpenCount, EditPayments, FindActive, ChargeFind,
         PayInsert, AddInsert, EditWrite, ReadLines, PayPrepare
<1>2. CASE OpenCount(r)
  <2>1. /\ req'[r].line = req[r].line /\ req'[r].pc = "open_insert"
        /\ req'[r].write = req[r].write
    BY <1>1, <1>2 DEF OpenCount, GotoSaving, RequestState
  <2>2. QED
    BY <1>1, <2>1 DEF Continued
<1>3. CASE EditPayments(r)
  <2>1. /\ req'[r].line = req[r].line /\ req'[r].pc = "edit_write"
        /\ req'[r].write = req[r].write /\ paid[req'[r].order] = 0
    BY <1>1, <1>3 DEF EditPayments, Goto, RequestState
  <2>2. QED
    BY <1>1, <2>1 DEF Continued
<1>4. CASE FindActive(r) \/ ChargeFind(r)
  <2>1. PICK o \in ActiveOf(req[r].table), pc \in {"write_many", "charge_write"} :
          req' = [req EXCEPT ![r].pc = pc, ![r].order = o]
    BY <1>4 DEF FindActive, ChargeFind
  <2>2. req'[r] = [[req[r] EXCEPT !.pc = pc] EXCEPT !.order = o]
    BY <1>1, <2>1
  <2>3. /\ req'[r].line = req[r].line /\ req'[r].pc = pc
        /\ req'[r].write = req[r].write /\ req'[r].order = o
    BY <1>1, <2>2 DEF RequestState
  <2>4. QED
    BY <1>1, <2>3 DEF Continued, ActiveOf
<1>5. CASE PayInsert(r)
  <2>1. /\ req'[r].line = req[r].line /\ req'[r].pc \in {"pay_prepare", "pay_settle"}
        /\ req'[r].write = req[r].write /\ req'[r].order = req[r].order
        /\ req[r].pc = "pay_insert"
    BY <1>1, <1>5 DEF PayInsert, Goto, RequestState
  <2>2. QED
    BY <1>1, <2>1 DEF Continued
<1>6. CASE AddInsert(r)
  <2>1. PICK l \in Lines :
          /\ FreshLine(l)
          /\ Stage(r, "read_lines",
                   [k \in {l} |-> [status |-> "pending", order |-> req[r].order,
                                   sent |-> FALSE, subtotal |-> req[r].amount]])
    BY <1>6 DEF AddInsert
  <2> DEFINE rows == [k \in {l} |-> [status |-> "pending", order |-> req[r].order,
                                     sent |-> FALSE, subtotal |-> req[r].amount]]
  <2>2. DOMAIN rows = {l} /\ ~LineExists(l) /\ req[r].pc = "add_insert"
    BY <1>6, <2>1 DEF FreshLine, AddInsert
  <2>3. Stage(r, "read_lines", rows)
    BY <2>1
  <2> HIDE DEF rows
  <2>4. /\ req'[r].line = req[r].line /\ req'[r].pc = "read_lines"
        /\ req'[r].write = rows /\ req'[r].order = req[r].order
    BY <1>1, <2>3 DEF Stage, RequestState
  <2>5. QED
    BY <1>1, <2>2, <2>4 DEF Continued
<1>7. CASE EditWrite(r)
  <2> DEFINE rows == [k \in {req[r].line} |-> Edited(req[r].op, line[k], req[r].amount)]
  <2>1. DOMAIN rows = {req[r].line} /\ Stage(r, "read_lines", rows) /\ req[r].pc = "edit_write"
    BY <1>7 DEF EditWrite
  <2> HIDE DEF rows
  <2>2. /\ req'[r].line = req[r].line /\ req'[r].pc = "read_lines"
        /\ req'[r].write = rows /\ req'[r].order = req[r].order
    BY <1>1, <2>1 DEF Stage, RequestState
  <2>3. QED
    BY <1>1, <2>1, <2>2 DEF Continued
<1>8. CASE ReadLines(r)
  <2>1. /\ req'[r].line = req[r].line /\ req'[r].pc = "write_totals"
        /\ req'[r].write = req[r].write /\ req'[r].order = req[r].order
        /\ req[r].pc = "read_lines"
    BY <1>1, <1>8 DEF ReadLines, GotoSaving, RequestState
  <2>2. QED
    BY <1>1, <2>1 DEF Continued
<1>9. CASE PayPrepare(r)
  <2> DEFINE pending == {l \in Lines : line[l].order = req[r].order
                                       /\ line[l].status = "pending"}
             rows == [l \in pending |-> [line[l] EXCEPT !.status = "preparing"]]
  <2>1. Stage(r, "pay_settle", rows) /\ req[r].pc = "pay_prepare"
    BY <1>9 DEF PayPrepare
  <2>2. /\ DOMAIN rows = pending
        /\ \A l \in pending : /\ line[l].status = "pending" /\ rows[l].status = "preparing"
                              /\ rows[l].order = line[l].order
                              /\ rows[l].subtotal = line[l].subtotal
    BY <1>1 DEF LineRow
  <2> HIDE DEF rows, pending
  <2>3. /\ req'[r].line = req[r].line /\ req'[r].pc = "pay_settle"
        /\ req'[r].write = rows /\ req'[r].order = req[r].order
    BY <1>1, <2>1 DEF Stage, RequestState
  <2>4. QED
    BY <1>1, <2>1, <2>2, <2>3 DEF Continued
<1>10. QED
  BY <1>2, <1>3, <1>4, <1>5, <1>6, <1>7, <1>8, <1>9

(* A step ends its request, leaves it alone, starts it or takes it on.     *)
LEMMA Onward ==
    ASSUME Inv, NEW r \in Requests, Step(r)
    PROVE  \/ req'[r] = Idle
           \/ req'[r] = req[r]
           \/ UNCHANGED <<order, line, paid>> /\ (Started(r) \/ Continued(r))
<1>1. req \in [Requests -> RequestState]
  BY DEF Inv, TypeOK
<1>2. CASE Opening(r)
  <2>1. CASE OpenInsert(r) \/ OpenConflict(r)
    BY <1>1, <2>1 DEF OpenInsert, OpenConflict, Finish
  <2>2. QED
    BY <1>2, <2>1, StartsOnward, GoesOnward DEF Opening
<1>3. CASE Editing(r)
  <2>1. CASE WriteTotals(r)
    BY <1>1, <2>1 DEF WriteTotals, Finish
  <2>2. QED
    BY <1>3, <2>1, StartsOnward, GoesOnward DEF Editing
<1>4. CASE Serving(r)
  <2>1. CASE MoveWrite(r) \/ SendWrite(r) \/ ServeWrite(r)
    BY <1>1, <2>1 DEF MoveWrite, SendWrite, ServeWrite, Finish
  <2>2. QED
    BY <1>4, <2>1, StartsOnward, GoesOnward DEF Serving
<1>5. CASE Paying(r)
  <2>1. CASE ChargeWrite(r) \/ PaySettle(r)
    BY <1>1, <2>1 DEF ChargeWrite, PaySettle, Finish
  <2>2. CASE \E t \in Tables : Free(r, t)
    BY <2>2 DEF Free
  <2>3. QED
    BY <1>5, <2>1, <2>2, StartsOnward, GoesOnward DEF Paying
<1>6. CASE Abort(r)
  BY <1>1, <1>6 DEF Abort, Finish
<1>7. QED
  BY <1>2, <1>3, <1>4, <1>5, <1>6 DEF Step

-----------------------------------------------------------------------------
(* What is settled                                                         *)

\* A closing payment reprices no line, and takes on none that is finished.
Prepared(r) ==
    req[r].pc = "pay_settle" =>
       \A l \in DOMAIN req[r].write :
          /\ line[l].status = "pending" /\ req[r].write[l].status = "preparing"
          /\ req[r].write[l].order = line[l].order
          /\ req[r].write[l].subtotal = line[l].subtotal

AllPrepared == \A r \in Requests : Prepared(r)

LEMMA PreparedNext == Inv /\ AllPrepared /\ [Next]_vars => AllPrepared'
<1> SUFFICES ASSUME Inv, AllPrepared, [Next]_vars PROVE AllPrepared'
  OBVIOUS
<1>1. CASE UNCHANGED vars
  BY <1>1 DEF vars, AllPrepared, Prepared
<1>2. ASSUME NEW r \in Requests, Step(r), NEW q \in Requests PROVE Prepared(q)'
  <2>1. CASE q # r
    <3>1. req'[q] = req[q] /\ Prepared(q)
      BY <1>2, <2>1, OneRequestMoves DEF AllPrepared
    <3>2. \A l \in DOMAIN req[q].write : line'[l] = line[l]
      BY <1>2, <2>1, StagedStill
    <3>3. QED
      BY <3>1, <3>2 DEF Prepared
  <2>2. CASE q = r
    <3>1. CASE req'[r] = Idle
      BY <2>2, <3>1 DEF Prepared, Idle
    <3>2. CASE req'[r] = req[r]
      <4>1. ASSUME req[r].pc = "pay_settle" PROVE UNCHANGED line
        <5>1. req'[r].pc # "idle"
          BY <3>2, <4>1
        <5>2. req \in [Requests -> RequestState] /\ Idle.pc = "idle"
          BY DEF Inv, TypeOK, Idle
        <5>3. ~(MoveWrite(r) \/ SendWrite(r) \/ ServeWrite(r) \/ WriteTotals(r) \/ PaySettle(r))
          BY <5>1, <5>2 DEF MoveWrite, SendWrite, ServeWrite, WriteTotals, PaySettle, Finish
        <5>4. ~\E t \in Tables : Free(r, t)
          BY <4>1 DEF Free, MayStart, Busy
        <5>5. QED
          BY <1>2, <5>3, <5>4, Writers
      <4>2. QED
        BY <1>2, <2>2, <3>2, <4>1 DEF Prepared, AllPrepared
    <3>3. CASE UNCHANGED <<order, line, paid>> /\ Started(r)
      BY <2>2, <3>3 DEF Started, Prepared
    <3>4. CASE UNCHANGED <<order, line, paid>> /\ Continued(r)
      <4>1. req[r].pc = "pay_insert" => DOMAIN req[r].write = {}
        BY <1>2 DEF Inv, RequestShape
      <4>2. QED
        BY <2>2, <3>4, <4>1 DEF Continued, Prepared
    <3>5. QED
      BY <1>2, <3>1, <3>2, <3>3, <3>4, Onward
  <2>3. QED
    BY <2>1, <2>2
<1>3. QED
  BY <1>1, <1>2 DEF AllPrepared, Next, Step

LEMMA PreparedHolds == Spec => []AllPrepared
<1>1. Init => AllPrepared
  BY DEF Init, Idle, AllPrepared, Prepared
<1>2. QED
  BY <1>1, PreparedNext, Invariant, PTL DEF Spec

(* A line of an order with a payment is changed by an edit that was past   *)
(* its check only, until the order is freed.                               *)
LEMMA FrozenLine ==
    ASSUME Inv, AllPrepared, NEW r \in Requests, Step(r),
           NEW l \in Lines, NEW o \in Orders, paid[o] > 0, OrderExists(o)'
    PROVE  \/ \E q \in Editors(o) : l \in DOMAIN req[q].write
           \/ /\ line[l].order = o <=> line'[l].order = o
              /\ line[l].order = o => /\ line'[l].subtotal = line[l].subtotal
                                      /\ line'[l].status = "cancelled"
                                            => line[l].status = "cancelled"
<1>0. line \in [Lines -> LineRow] /\ RequestShape(r) /\ LocksHeld(r) /\ Prepared(r)
  BY DEF Inv, TypeOK, AllPrepared
<1>1. CASE UNCHANGED line
  BY <1>1
<1>2. CASE MoveWrite(r)
  <2>1. /\ line' = [line EXCEPT ![req[r].line] =
                      [line[req[r].line] EXCEPT !.status = Persisted(req[r].op)]]
        /\ req[r].op \in KitchenMove
    BY <1>0, <1>2 DEF MoveWrite, RequestShape
  <2>2. Persisted(req[r].op) # "cancelled"
    BY <2>1 DEF Persisted, KitchenMove
  <2>3. QED
    BY <1>0, <2>1, <2>2 DEF LineRow
<1>3. CASE SendWrite(r)
  BY <1>0, <1>3 DEF SendWrite, LineRow
<1>4. CASE ServeWrite(r)
  BY <1>0, <1>4 DEF ServeWrite, LineRow
<1>5. CASE WriteTotals(r)
  <2>1. CASE l \in DOMAIN req[r].write /\ req[r].order = o
    BY <1>5, <2>1 DEF WriteTotals, Editors
  <2>2. CASE l \in DOMAIN req[r].write /\ req[r].order # o
    <3>1. line'[l].order \in {req[r].order, NoRow} /\ line[l].order \in {req[r].order, NoRow}
      BY <1>0, <1>5, <2>2 DEF WriteTotals, Seen, LocksHeld, Inv, RowsBelong
    <3>2. QED
      BY <2>2, <3>1, OrdersAssumption
  <2>3. CASE l \notin DOMAIN req[r].write
    BY <1>5, <2>3 DEF WriteTotals, Seen
  <2>4. QED
    BY <2>1, <2>2, <2>3
<1>6. CASE PaySettle(r)
  BY <1>0, <1>6 DEF PaySettle, Seen, Prepared
<1>7. ASSUME NEW t \in Tables, Free(r, t)
      PROVE  line'[l] = line[l] \/ (line[l].order # o /\ line'[l].order # o)
  <2>1. PICK p \in Orders :
          /\ order' = [order EXCEPT ![p] = AbsentOrder]
          /\ line' = [k \in Lines |-> IF line[k].order = p THEN AbsentLine ELSE line[k]]
    BY <1>7 DEF Free, ActiveOf
  <2>2. p # o
    BY <2>1 DEF OrderExists, AbsentOrder, Inv, TypeOK
  <2>3. AbsentLine.order # o
    BY OrdersAssumption DEF AbsentLine
  <2>4. QED
    BY <1>0, <2>1, <2>2, <2>3
<1>8. QED
  BY <1>1, <1>2, <1>3, <1>4, <1>5, <1>6, <1>7, Writers

(* No order with a payment costs anything else than before but for an edit *)
(* that was past its check.                                                *)
LEMMA FrozenTotal ==
    ASSUME Inv, NEW r \in Requests, Step(r),
           NEW o \in Orders, paid[o] > 0, OrderExists(o)', Editors(o) = {}
    PROVE  order'[o].total = order[o].total
<1>0. order \in [Orders -> OrderRow] /\ OrderExists(o)
  BY DEF Inv, TypeOK, RowsBelong
<1>1. CASE OpenInsert(r)
  BY <1>0, <1>1 DEF OpenInsert, FreshOrder
<1>2. CASE WriteTotals(r)
  <2>1. req[r].order # o
    BY <1>2 DEF WriteTotals, Editors
  <2>2. QED
    BY <1>0, <1>2, <2>1 DEF WriteTotals
<1>3. CASE ChargeWrite(r)
  BY <1>0, <1>3 DEF ChargeWrite, OrderRow
<1>4. CASE PaySettle(r)
  <2> DEFINE p == req[r].order
             status == IF req[r].saved = 0 THEN "paid" ELSE "pending_payment"
             closed == (req[r].saved = 0)
  <2>1. order' = [order EXCEPT ![p] = [[order[p] EXCEPT !.status = status]
                                                 EXCEPT !.closed = closed]]
    BY <1>4 DEF PaySettle
  <2> HIDE DEF status, closed
  <2>2. QED
    BY <1>0, <2>1 DEF OrderRow
<1>5. ASSUME NEW t \in Tables, Free(r, t) PROVE order'[o] = order[o]
  <2>1. PICK p \in Orders : order' = [order EXCEPT ![p] = AbsentOrder]
    BY <1>5 DEF Free, ActiveOf
  <2>2. QED
    BY <1>0, <2>1 DEF OrderExists, AbsentOrder
<1>6. QED
  BY <1>1, <1>2, <1>3, <1>4, <1>5, Writers

(* A request that gets past its check about an order is started or taken   *)
(* on by this step.                                                        *)
LEMMA NewEditor ==
    ASSUME Inv, NEW r \in Requests, Step(r), NEW o \in Orders, paid[o] > 0
    PROVE  Editors(o)' \subseteq Editors(o)
<1> SUFFICES ASSUME NEW q \in Editors(o)' PROVE q \in Editors(o)
  OBVIOUS
<1>0. q \in Requests /\ req'[q].order = o
      /\ req'[q].pc \in {"add_insert", "edit_write", "read_lines", "write_totals"}
  BY DEF Editors
<1>1. CASE q # r
  BY <1>0, <1>1, OneRequestMoves DEF Editors
<1>2. CASE q = r
  <2>1. CASE req'[r] = Idle \/ req'[r] = req[r]
    BY <1>0, <1>2, <2>1 DEF Editors, Idle
  <2>2. CASE Started(r)
    BY <1>0, <1>2, <2>2 DEF Started
  <2>3. CASE Continued(r)
    BY <1>0, <1>2, <2>3 DEF Continued, Editors
  <2>4. QED
    BY <2>1, <2>2, <2>3, Onward
<1>3. QED
  BY <1>1, <1>2

(* However requests interleave, an order with a payment is only edited by  *)
(* those that were past their check when it was committed.                 *)
THEOREM FrozenSettlesHolds == Spec => FrozenSettles
<1>1. ASSUME Inv, AllPrepared, [Next]_vars
      PROVE  [\A o \in Orders : paid[o] > 0 /\ OrderExists(o)' =>
                /\ Editors(o)' \subseteq Editors(o)
                /\ Editors(o) = {} => order'[o].total = order[o].total
                /\ \A l \in Lines :
                      \/ \E r \in Editors(o) : l \in DOMAIN req[r].write
                      \/ /\ line[l].order = o <=> line'[l].order = o
                         /\ line[l].order = o => /\ line'[l].subtotal = line[l].subtotal
                                                 /\ line'[l].status = "cancelled"
                                                      => line[l].status = "cancelled"]_vars
  <2>1. CASE UNCHANGED vars
    BY <2>1
  <2>2. CASE \E r \in Requests : Step(r)
    BY <1>1, <2>2, NewEditor, FrozenTotal, FrozenLine
  <2>3. QED
    BY <1>1, <2>1, <2>2 DEF Next, Step
<1>2. QED
  BY <1>1, Invariant, PreparedHolds, PTL DEF Spec, FrozenSettles

(* Neither does a request about its payment get past its check.            *)
LEMMA NewPayer ==
    ASSUME Inv, NEW r \in Requests, Step(r), NEW o \in Orders, order[o].status = "paid"
    PROVE  Payers(o)' \subseteq Payers(o)
<1> SUFFICES ASSUME NEW q \in Payers(o)' PROVE q \in Payers(o)
  OBVIOUS
<1>0. q \in Requests /\ req'[q].order = o /\ ~Active(o)
      /\ req'[q].pc \in {"charge_write", "pay_insert", "pay_prepare", "pay_settle"}
  BY DEF Payers, Active, ActiveStatus
<1>1. CASE q # r
  BY <1>0, <1>1, OneRequestMoves DEF Payers
<1>2. CASE q = r
  <2>1. CASE req'[r] = Idle \/ req'[r] = req[r]
    BY <1>0, <1>2, <2>1 DEF Payers, Idle
  <2>2. CASE Started(r)
    BY <1>0, <1>2, <2>2 DEF Started
  <2>3. CASE Continued(r)
    BY <1>0, <1>2, <2>3 DEF Continued, Payers
  <2>4. QED
    BY <2>1, <2>2, <2>3, Onward
<1>3. QED
  BY <1>1, <1>2

(* However requests interleave, an order that is paid is only reopened or  *)
(* paid again by those that were past their check before it was.           *)
THEOREM PaidSettlesHolds == Spec => PaidSettles
<1>1. ASSUME Inv, NEW r \in Requests, Step(r), NEW o \in Orders,
             order[o].status = "paid", Payers(o) = {}
      PROVE  order'[o].status = "paid" /\ paid'[o] = paid[o]
  <2>0. /\ order \in [Orders -> OrderRow] /\ paid \in [Orders -> Nat]
        /\ ~Active(o) /\ OrderExists(o)
    BY <1>1 DEF Inv, TypeOK, Active, ActiveStatus, OrderExists
  <2>1. CASE UNCHANGED <<order, paid>>
    BY <1>1, <2>1
  <2>2. CASE OpenInsert(r)
    BY <1>1, <2>0, <2>2 DEF OpenInsert, FreshOrder
  <2>3. CASE WriteTotals(r)
    <3>1. UNCHANGED paid /\ order'[o].status = order[o].status
      BY <2>0, <2>3 DEF WriteTotals, OrderRow
    <3>2. QED
      BY <1>1, <3>1
  <2>4. CASE ChargeWrite(r) \/ PaySettle(r)
    <3>1. req[r].order # o
      BY <1>1, <2>4 DEF ChargeWrite, PaySettle, Payers
    <3>2. QED
      BY <1>1, <2>0, <2>4, <3>1 DEF ChargeWrite, PaySettle
  <2>5. ASSUME NEW t \in Tables, Free(r, t)
        PROVE  order'[o] = order[o] /\ paid'[o] = paid[o]
    BY <2>0, <2>5 DEF Free, ActiveOf
  <2>6. QED
    BY <1>1, <2>1, <2>2, <2>3, <2>4, <2>5, Writers
<1>2. ASSUME Inv, [Next]_vars
      PROVE  [\A o \in Orders : order[o].status = "paid" =>
                /\ Payers(o)' \subseteq Payers(o)
                /\ Payers(o) = {} => order'[o].status = "paid" /\ paid'[o] = paid[o]]_vars
  <2>1. CASE UNCHANGED vars
    BY <2>1
  <2>2. CASE \E r \in Requests : Step(r)
    BY <1>1, <1>2, <2>2, NewPayer
  <2>3. QED
    BY <1>2, <2>1, <2>2 DEF Next, Step
<1>3. QED
  BY <1>2, Invariant, PTL DEF Spec, PaidSettles

(* Nor does one about a line that is served or cancelled.                  *)
LEMMA NewWorker ==
    ASSUME Inv, NEW r \in Requests, Step(r), NEW l \in Lines,
           line[l].status \in {"served", "cancelled"}
    PROVE  Workers(l)' \subseteq Workers(l)
<1> SUFFICES ASSUME NEW q \in Workers(l)' PROVE q \in Workers(l)
  OBVIOUS
<1>0. q \in Requests /\ (req'[q].line = l \/ l \in DOMAIN req'[q].write) /\ l # NoRow
  BY OrdersAssumption DEF Workers
<1>1. CASE q # r
  BY <1>0, <1>1, OneRequestMoves DEF Workers
<1>2. CASE q = r
  <2>0. DOMAIN Idle.write = {} /\ Idle.line = NoRow
    BY DEF Idle
  <2>1. CASE req'[r] = Idle \/ req'[r] = req[r]
    BY <1>0, <1>2, <2>0, <2>1 DEF Workers
  <2>2. CASE Started(r)
    BY <1>0, <1>2, <2>0, <2>2 DEF Started
  <2>3. CASE Continued(r)
    BY <1>0, <1>2, <2>3 DEF Continued, Workers, LineExists
  <2>4. QED
    BY <2>1, <2>2, <2>3, Onward
<1>3. QED
  BY <1>1, <1>2

(* However requests interleave, a served or cancelled line is only changed *)
(* by those that found it in another status.                               *)
THEOREM FinishedSettlesHolds == Spec => FinishedSettles
<1>1. ASSUME Inv, NEW r \in Requests, Step(r), NEW l \in Lines,
             line[l].status \in {"served", "cancelled"}, Workers(l) = {}, LineExists(l)'
      PROVE  line'[l] = line[l]
  <2>0. line \in [Lines -> LineRow] /\ r \notin Workers(l)
    BY <1>1 DEF Inv, TypeOK
  <2>1. CASE MoveWrite(r)
    BY <2>0, <2>1 DEF MoveWrite, Workers
  <2>2. CASE SendWrite(r)
    BY <1>1, <2>0, <2>2 DEF SendWrite, SentBy, Unsent
  <2>3. CASE ServeWrite(r)
    BY <1>1, <2>0, <2>3 DEF ServeWrite, ServedBy, Queued
  <2>4. CASE WriteTotals(r) \/ PaySettle(r)
    BY <2>0, <2>4 DEF WriteTotals, PaySettle, Seen, Workers
  <2>5. ASSUME NEW t \in Tables, Free(r, t) PROVE line'[l] = line[l]
    BY <1>1, <2>0, <2>5 DEF Free, LineExists, AbsentLine
  <2>6. QED
    BY <2>1, <2>2, <2>3, <2>4, <2>5, Writers, <1>1
<1>2. ASSUME Inv, [Next]_vars
      PROVE  [\A l \in Lines : line[l].status \in {"served", "cancelled"} =>
                /\ Workers(l)' \subseteq Workers(l)
                /\ Workers(l) = {} /\ LineExists(l)' => line'[l] = line[l]]_vars
  <2>1. CASE UNCHANGED vars
    BY <2>1
  <2>2. CASE \E r \in Requests : Step(r)
    BY <1>1, <1>2, <2>2, NewWorker
  <2>3. QED
    BY <1>2, <2>1, <2>2 DEF Next, Step
<1>3. QED
  BY <1>2, Invariant, PTL DEF Spec, FinishedSettles
=============================================================================
