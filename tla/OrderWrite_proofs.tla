------------------------- MODULE OrderWrite_proofs -------------------------
(***************************************************************************)
(* Proofs about OrderWrite, for any groups, polls and bounds.  Inv adds to *)
(* what the run checks the types of the answers on their way and, while no *)
(* other terminal writes to the table, where each quantity wanted is: it   *)
(* is pending, or the backend has it.                                      *)
(***************************************************************************)
EXTENDS OrderWrite, FiniteSetTheorems, WellFoundedInduction, TLAPS

Line == [group : Groups \cup {Nothing}, qty : Nat]
Orders == [open : BOOLEAN, rows : Seq(Line)]

\* An order; one that is not open has no lines.
Sane(o) == o \in Orders /\ (~o.open => o.rows = <<>>)

Syncs == [pc : {"idle", "asked", "read", "writing", "asked_again", "read_again"},
          snap : Orders \cup {Nothing}, ops : SUBSET Operation, fresh : BOOLEAN]
\* A change of the order, by this terminal or another one.
Changes == [type : {"add", "update", "delete"}, row : Nat,
            group : Groups \cup {Nothing}, qty : Nat]
Pendings == UNION {[S -> Nat] : S \in SUBSET Groups}

\* The answers on their way are orders.
Answers ==
    /\ sync.pc \in {"read", "read_again"} => Sane(sync.snap)
    /\ DOMAIN poll = Polls
    /\ \A p \in Polls : poll[p] # Nothing =>
           poll[p] \in [snap : Orders, fresh : BOOLEAN] /\ Sane(poll[p].snap)
    /\ DOMAIN recover = 1 .. MaxReads
    /\ \A r \in DOMAIN recover : recover[r] \notin {Nothing, Asked} => Sane(recover[r])

\* An operation is for a product whose taps are pending, and for a line of it.
Aimed(op) == /\ op.group \in DOMAIN pending
             /\ op.type # "add" => /\ op.row \in DOMAIN server.rows
                                   /\ server.rows[op.row].group = op.group

\* Where the quantity wanted is, while no other terminal writes to the table.
Wanted ==
    /\ \A g \in Groups :
          want[g] = IF g \in DOMAIN pending THEN pending[g] ELSE Qty(server, g)
    /\ sync.pc \in {"read", "read_again"} => sync.snap = server
    /\ \A op \in sync.ops : Aimed(op)

Types == /\ view \in [Groups -> Nat] /\ want \in [Groups -> Nat]
         /\ pending \in Pendings /\ sync \in Syncs
         /\ timer \in {"none", "armed", "dead"} /\ retry \in BOOLEAN
         /\ flush \in {"none", "waiting", "done", "failed"}

Inv == /\ Types /\ Sane(server) /\ Answers
       /\ NoTimerInFlight /\ WaitersHaveWork /\ PendingShown
       /\ edits \in Nat /\ (edits = 0 => Wanted)

\* Who is told that the taps are written finds them in the backend.
Told == flush # "done" /\ flush' = "done" /\ edits = 0
            => \A g \in Groups : Qty(server, g) = want[g]

-----------------------------------------------------------------------------
(* Quantities                                                              *)

LEMMA LineOf ==
    ASSUME NEW o \in Orders, NEW i \in DOMAIN o.rows
    PROVE  o.rows[i] \in Line /\ i \in Nat \ {0}
  BY DEF Orders

\* The units of a group are finitely many.
LEMMA QtyType ==
    ASSUME NEW o \in Orders, NEW g
    PROVE  Qty(o, g) \in Nat
<1> DEFINE part == [i \in Rows(o, g) |-> {i} \X (1 .. o.rows[i].qty)]
           parts == {{i} \X (1 .. o.rows[i].qty) : i \in Rows(o, g)}
<1>1. IsFiniteSet(DOMAIN o.rows)
  <2>1. DOMAIN o.rows = 1 .. Len(o.rows) /\ Len(o.rows) \in Nat
    BY DEF Orders
  <2> QED
    BY <2>1, FS_Interval
<1>2. IsFiniteSet(Rows(o, g))
  BY <1>1, FS_Subset DEF Rows
<1>3. part \in Surjection(Rows(o, g), parts)
  BY DEF Surjection
<1>4. IsFiniteSet(parts)
  <2> HIDE DEF part, parts
  <2> QED
    BY <1>2, <1>3, FS_Surjection
<1>5. \A p \in parts : IsFiniteSet(p)
  <2> SUFFICES ASSUME NEW i \in Rows(o, g)
               PROVE  IsFiniteSet({i} \X (1 .. o.rows[i].qty))
    OBVIOUS
  <2>1. o.rows[i].qty \in Nat
    BY LineOf DEF Rows, Line
  <2>2. IsFiniteSet({i})
    BY FS_Singleton
  <2>3. IsFiniteSet(1 .. o.rows[i].qty)
    BY <2>1, FS_Interval
  <2> QED
    BY <2>2, <2>3, FS_Product
<1>6. IsFiniteSet(Units(o, g))
  <2>1. Units(o, g) = UNION parts
    BY DEF Units
  <2> HIDE DEF parts
  <2> QED
    BY <1>4, <1>5, <2>1, FS_UNION
<1> QED
  BY <1>6, FS_CardinalityType DEF Qty

\* An order without lines has nothing of any group.
LEMMA QtyOfNothing ==
    ASSUME NEW o, o.rows = <<>>, NEW g
    PROVE  Qty(o, g) = 0
<1>1. Rows(o, g) = {}
  BY DEF Rows
<1>2. Units(o, g) = {}
  BY <1>1 DEF Units
<1> QED
  BY <1>2, FS_EmptySet DEF Qty

\* The quantity of a group depends on the lines alone.
LEMMA QtySame ==
    ASSUME NEW o, NEW q, NEW g, Rows(o, g) = Rows(q, g),
           \A i \in Rows(o, g) : o.rows[i].qty = q.rows[i].qty
    PROVE  Qty(o, g) = Qty(q, g)
<1>1. Units(o, g) = Units(q, g)
  BY DEF Units
<1> QED
  BY <1>1 DEF Qty

\* A nonempty set of positions has a first one.
LEMMA First ==
    ASSUME NEW S, S \subseteq Nat, S # {}
    PROVE  \E i \in S : \A j \in S : i <= j
<1>1. PICK i \in S : \A j \in S : ~ (<<j, i>> \in OpToRel(<, Nat))
  BY NatLessThanWellFounded, WFMin
<1>2. \A j \in S : ~ (j < i)
  BY <1>1 DEF OpToRel
<1> QED
  BY <1>2

-----------------------------------------------------------------------------
(* The operators of the chain                                              *)

\* An operation as the backend applies it, and the quantities it leaves alone.
LEMMA AppliedSane ==
    ASSUME Sane(server), server.open, NEW op \in Changes
    PROVE  /\ Sane(Applied(op)) /\ Applied(op).open
           /\ \A i \in DOMAIN server.rows :
                 i \in DOMAIN Applied(op).rows
                 /\ Applied(op).rows[i].group = server.rows[i].group
           /\ \A g \in Groups :
                     /\ g # op.group
                     /\ op.type # "add" => op.row \in DOMAIN server.rows
                                           /\ server.rows[op.row].group = op.group
                     => Qty(Applied(op), g) = Qty(server, g)
<1>0. server.rows \in Seq(Line) /\ server \in Orders
  BY DEF Sane, Orders
<1>00. op.group \in Groups \cup {Nothing} /\ op.qty \in Nat /\ op.row \in Nat
  BY DEF Changes
<1>1. CASE op.type = "add"
  <2> DEFINE k == IF op.group \in misfits THEN Nothing ELSE op.group
             l == [group |-> k, qty |-> op.qty]
             rows == Append(server.rows, l)
             o == Applied(op)
  <2>1. o = [server EXCEPT !.rows = rows]
    BY <1>1, <1>0 DEF Applied, Orders
  <2>2. l \in Line
    BY <1>00 DEF Line
  <2>3. /\ rows \in Seq(Line) /\ DOMAIN rows = DOMAIN server.rows \cup {Len(server.rows) + 1}
        /\ rows[Len(server.rows) + 1] = l
        /\ \A i \in DOMAIN server.rows : rows[i] = server.rows[i]
        /\ Len(server.rows) + 1 \notin DOMAIN server.rows
    <3> HIDE DEF l
    <3> QED
      BY <1>0, <2>2
  <2> HIDE DEF rows, o
  <2>4. o \in Orders /\ o.rows = rows /\ o.open
    BY <1>0, <2>1, <2>3 DEF Orders
  <2>5. Sane(o)
    BY <2>4 DEF Sane
  <2>6. ASSUME NEW g \in Groups, g # op.group
        PROVE  Qty(o, g) = Qty(server, g)
    <3>0. l.group # g
      BY <2>6, OrderWriteAssumption
    <3>1. Rows(o, g) = Rows(server, g)
      <4> HIDE DEF l
      <4> QED
        BY <2>3, <2>4, <3>0 DEF Rows
    <3>2. \A i \in Rows(o, g) : o.rows[i].qty = server.rows[i].qty
      BY <2>3, <2>4, <3>1 DEF Rows
    <3> QED
      BY <3>1, <3>2, QtySame
  <2> QED
    BY <2>3, <2>4, <2>5, <2>6 DEF o
<1>2. CASE op.type # "add"
  <2> DEFINE k == op.row
             l == [server.rows[k] EXCEPT !.qty = op.qty]
             rows == [server.rows EXCEPT ![k].qty = op.qty]
             o == Applied(op)
  <2>1. o = [server EXCEPT !.rows = rows]
    BY <1>2, <1>0 DEF Applied, Orders
  <2>2. /\ rows = [server.rows EXCEPT ![k] = l]
        /\ k \in DOMAIN server.rows => l \in Line /\ l.group = server.rows[k].group
    BY <1>0, <1>00, LineOf DEF Line
  <2>3. /\ rows \in Seq(Line) /\ DOMAIN rows = DOMAIN server.rows
        /\ k \in DOMAIN server.rows => rows[k] = l
        /\ \A i \in DOMAIN server.rows \ {k} : rows[i] = server.rows[i]
    <3> HIDE DEF l, rows
    <3> DEFINE L == Len(server.rows)
    <3>1. server.rows \in [1 .. L -> Line] /\ L \in Nat
      BY <1>0
    <3>2. rows \in [1 .. L -> Line]
      BY <2>2, <3>1
    <3>3. rows \in Seq(Line)
      <4> HIDE DEF L
      <4> QED
        BY <3>1, <3>2
    <3> QED
      BY <2>2, <3>1, <3>2, <3>3
  <2> HIDE DEF rows, o
  <2>4. o \in Orders /\ o.rows = rows /\ o.open
    BY <1>0, <2>1, <2>3 DEF Orders
  <2>5. Sane(o)
    BY <2>4 DEF Sane
  <2>6. ASSUME NEW g \in Groups, g # op.group, k \in DOMAIN server.rows,
               server.rows[k].group = op.group
        PROVE  Qty(o, g) = Qty(server, g)
    <3>1. Rows(o, g) = Rows(server, g)
      BY <2>2, <2>3, <2>4, <2>6 DEF Rows
    <3>2. \A i \in Rows(o, g) : o.rows[i].qty = server.rows[i].qty
      BY <2>3, <2>4, <2>6, <3>1 DEF Rows
    <3> QED
      BY <3>1, <3>2, QtySame
  <2>7. \A i \in DOMAIN server.rows : rows[i].group = server.rows[i].group
    BY <2>2, <2>3
  <2> HIDE DEF l
  <2> QED
    BY <1>2, <2>3, <2>4, <2>5, <2>6, <2>7 DEF o
<1> QED
  BY <1>1, <1>2

\* What the chain is going to write: for each group with pending taps, and for
\* lines of that group in the order that was read.
LEMMA OpsType ==
    ASSUME NEW o \in Orders, pending \in Pendings, NEW op \in Ops(o)
    PROVE  /\ op \in Operation /\ op.group \in DOMAIN pending
           /\ op.type # "add" => op.row \in DOMAIN o.rows
                                 /\ o.rows[op.row].group = op.group
<1>1. PICK g \in DOMAIN pending : op \in GroupOps(o, g, pending[g])
  BY DEF Ops
<1>2. g \in Groups /\ pending[g] \in Nat
  BY DEF Pendings
<1> DEFINE n == pending[g]
           rows == Rows(o, g)
           primary == CHOOSE i \in rows : \A j \in rows : i <= j
           removals == {[type |-> "delete", row |-> i, group |-> g, qty |-> 0] :
                          i \in IF n = 0 THEN rows ELSE rows \ {primary}}
<1>3. \A i \in rows : i \in DOMAIN o.rows /\ i \in Nat /\ o.rows[i].group = g
  BY LineOf DEF Rows
<1>4. rows # {} => primary \in rows
  <2> HIDE DEF rows
  <2> SUFFICES ASSUME rows # {} PROVE primary \in rows
    OBVIOUS
  <2>1. \E i \in rows : \A j \in rows : i <= j
    BY <1>3, First
  <2> QED
    BY <2>1
<1>5. \/ op = [type |-> "add", row |-> 0, group |-> g, qty |-> n]
      \/ \E i \in rows : op = [type |-> "delete", row |-> i, group |-> g, qty |-> 0]
      \/ rows # {} /\ op = [type |-> "update", row |-> primary, group |-> g, qty |-> n]
  BY <1>1 DEF GroupOps
<1> HIDE DEF rows, primary, n
<1>6. n \in Nat
  BY <1>2 DEF n
<1> QED
  BY <1>1, <1>2, <1>3, <1>4, <1>5, <1>6 DEF Operation

-----------------------------------------------------------------------------
(* Parts of steps                                                          *)

\* An order on the screen keeps the taps that are pending.
LEMMA OverlayKeeps ==
    ASSUME NEW o, Sane(o), view \in [Groups -> Nat], pending \in Pendings
    PROVE  /\ Overlay(o) \in [Groups -> Nat]
           /\ \A g \in DOMAIN pending : Overlay(o)[g] \in {pending[g], 0}
<1>1. /\ \A g \in DOMAIN pending : g \in Groups /\ pending[g] \in Nat
      /\ \A g \in Groups : Qty(o, g) \in Nat
  BY QtyType DEF Pendings, Sane
<1>2. Overlay(o) \in [Groups -> Nat]
  BY <1>1 DEF Overlay
<1>3. ASSUME NEW g \in DOMAIN pending
      PROVE  Overlay(o)[g] \in {pending[g], 0}
  <2>1. CASE o.open
    BY <1>1, <2>1 DEF Overlay
  <2>2. CASE ~o.open
    <3>1. Qty(o, g) = 0
      BY <2>2, QtyOfNothing DEF Sane
    <3> QED
      BY <1>1, <2>2, <3>1 DEF Overlay
  <2> QED
    BY <2>1, <2>2
<1> QED
  BY <1>2, <1>3

LEMMA HydrateKeeps ==
    ASSUME Inv, NEW o, Sane(o), NEW fresh, Hydrate(o, fresh)
    PROVE  /\ view' \in [Groups -> Nat]
           /\ \A g \in DOMAIN pending : view'[g] \in {pending[g], 0}
  BY OverlayKeeps DEF Inv, Types, Hydrate, PendingShown

\* A chain starts when something is pending, and takes the timer with it.
LEMMA Starts ==
    ASSUME NEW t \in {"none", "armed", "dead"}, StartDirectSync(t)
    PROVE  /\ sync' \in Syncs /\ sync'.ops = {} /\ sync'.pc \in {"idle", "asked"}
           /\ timer' \in {"none", "armed", "dead"}
           /\ NoTimerInFlight'
<1>0. NoSync \in Syncs
  BY DEF NoSync, Syncs
<1> DEFINE pc == IF Startable THEN "asked" ELSE "idle"
<1>1. sync' = [NoSync EXCEPT !.pc = pc]
  BY DEF StartDirectSync, NoSync
<1>2. sync' \in Syncs /\ sync'.ops = {} /\ sync'.pc = pc
  BY <1>0, <1>1 DEF Syncs, NoSync
<1> QED
  BY <1>2 DEF StartDirectSync, NoTimerInFlight, InFlight

\* Whoever waits is told when no work is left.
LEMMA Notifies ==
    ASSUME NotifyIdle, flush \in {"none", "waiting", "done", "failed"}
    PROVE  /\ flush' \in {"none", "waiting", "done", "failed"}
           /\ WaitersHaveWork'
           /\ flush # "done" /\ flush' = "done" => pending' = Empty
  BY DEF NotifyIdle, HasWork, WaitersHaveWork, InFlight

\* An error ends the chain and tells whoever waits.
LEMMA ErrorKeeps ==
    ASSUME HandleError, Inv
    PROVE  /\ sync' = NoSync /\ sync' \in Syncs /\ sync'.ops = {}
           /\ sync'.pc = "idle"
           /\ NoTimerInFlight' /\ WaitersHaveWork'
           /\ flush' \in {"none", "waiting", "done", "failed"}
           /\ ~(flush # "done" /\ flush' = "done")
           /\ poll' = poll => Answers'
<1>1. /\ sync' = NoSync /\ sync' \in Syncs /\ sync'.ops = {}
      /\ sync'.pc = "idle"
      /\ NoTimerInFlight' /\ WaitersHaveWork'
      /\ flush' \in {"none", "waiting", "done", "failed"}
      /\ ~(flush # "done" /\ flush' = "done")
  BY DEF HandleError, NoSync, Syncs, NoTimerInFlight, InFlight, WaitersHaveWork,
         Inv, Types
<1>2. /\ DOMAIN recover' = 1 .. MaxReads
      /\ \A r \in DOMAIN recover' :
            recover'[r] \notin {Nothing, Asked} => Sane(recover'[r])
  <2>1. recover' = recover \/ \E r \in DOMAIN recover :
            recover' = [recover EXCEPT ![r] = Asked]
    BY DEF HandleError, ReadAgain
  <2>2. Answers
    BY DEF Inv
  <2> QED
    BY <2>1, <2>2 DEF Answers
<1>3. ASSUME poll' = poll PROVE Answers'
  <2>1. \A o : Sane(o)' = Sane(o)
    BY DEF Sane
  <2> QED
    BY <1>1, <1>2, <1>3 DEF Answers, Inv
<1> QED
  BY <1>1, <1>2, <1>3

-----------------------------------------------------------------------------
(* The steps                                                               *)

\* The answers on their way outside of the chain stay.
LEMMA SameAnswers ==
    ASSUME Answers, UNCHANGED <<poll, recover>>,
           sync'.pc \in {"read", "read_again"} => Sane(sync'.snap)
    PROVE  Answers'
  BY DEF Answers

\* A tap: the quantity wanted is the one shown, and it is pending.
LEMMA TapStep ==
    ASSUME Inv, NEW g \in Groups, NEW n \in Nat, Queue(g, n)
    PROVE  Inv' /\ Told
<1>0. Types /\ Answers /\ pending \in Pendings /\ sync \in Syncs
  BY DEF Inv, Types
<1>1. /\ view' = [view EXCEPT ![g] = n] /\ want' = [want EXCEPT ![g] = n]
      /\ pending' = [h \in {g} \cup DOMAIN pending |-> IF h = g THEN n ELSE pending[h]]
      /\ UNCHANGED <<server, flush, recover, edits>>
  BY DEF Queue
<1>2. view' \in [Groups -> Nat] /\ want' \in [Groups -> Nat] /\ pending' \in Pendings
  <2>1. \A h \in DOMAIN pending : h \in Groups /\ pending[h] \in Nat
    BY <1>0 DEF Pendings
  <2> DEFINE S == {g} \cup DOMAIN pending
  <2>2. S \in SUBSET Groups /\ pending' \in [S -> Nat]
    BY <1>1, <2>1
  <2>3. pending' \in Pendings
    BY <2>2 DEF Pendings
  <2> QED
    BY <1>0, <1>1, <2>3 DEF Types
<1>3. /\ sync' \in Syncs /\ sync'.pc = sync.pc /\ sync'.snap = sync.snap
      /\ sync'.ops = sync.ops
  <2>1. sync' = [sync EXCEPT !.fresh = sync.pc \notin {"asked_again", "read_again"}]
    BY DEF Queue
  <2> QED
    BY <1>0, <2>1 DEF Syncs
<1>4. /\ timer' \in {"none", "armed", "dead"} /\ retry' \in BOOLEAN
      /\ NoTimerInFlight'
  <2>1. CASE InFlight
    <3>1. timer = "none"
      BY <2>1 DEF Inv, NoTimerInFlight
    <3> QED
      BY <2>1, <3>1 DEF Queue, NoTimerInFlight
  <2>2. CASE ~InFlight
    BY <2>2, <1>0, <1>3 DEF Queue, NoTimerInFlight, InFlight, Types
  <2> QED
    BY <2>1, <2>2
<1>5. Answers'
  <2>0. NoOrder \in Orders /\ Sane(NoOrder)
    BY DEF NoOrder, Orders, Sane
  <2>1. \A p \in Polls : poll'[p] # Nothing =>
            poll'[p] = [snap |-> NoOrder, fresh |-> FALSE]
    BY DEF Queue
  <2>2. \A p \in Polls : poll'[p] # Nothing =>
            poll'[p] \in [snap : Orders, fresh : BOOLEAN] /\ Sane(poll'[p].snap)
    <3> HIDE DEF NoOrder
    <3>1. [snap |-> NoOrder, fresh |-> FALSE] \in [snap : Orders, fresh : BOOLEAN]
      BY <2>0
    <3>2. [snap |-> NoOrder, fresh |-> FALSE].snap = NoOrder
      OBVIOUS
    <3> QED
      BY <2>0, <2>1, <3>1, <3>2
  <2>3. DOMAIN poll' = Polls
    BY DEF Queue
  <2> QED
    BY <1>0, <1>1, <1>3, <2>2, <2>3 DEF Answers
<1>6. WaitersHaveWork'
  BY <1>1 DEF WaitersHaveWork, Empty
<1>7. PendingShown'
  BY <1>1, <1>2, <1>0 DEF PendingShown, Inv, Types, Pendings
<1>8. ASSUME edits = 0 PROVE Wanted'
  <2>1. Wanted
    BY <1>8 DEF Inv
  <2>2. \A h \in Groups : Qty(server, h)' = Qty(server, h)
    BY <1>1 DEF Qty, Units, Rows
  <2>3. \A h \in Groups :
           want'[h] = IF h \in DOMAIN pending' THEN pending'[h] ELSE Qty(server, h)
    BY <2>1, <1>0, <1>1 DEF Wanted, Types
  <2>4. \A op \in sync'.ops : Aimed(op)'
    BY <2>1, <1>1, <1>3 DEF Wanted, Aimed
  <2> QED
    BY <1>1, <1>3, <2>1, <2>2, <2>3, <2>4 DEF Wanted
<1> QED
  BY <1>0, <1>1, <1>2, <1>3, <1>4, <1>5, <1>6, <1>7, <1>8 DEF Inv, Types, Told

\* The quantities wanted are where they were when neither the order nor the taps
\* change, and the operations that go on are aimed as before.
LEMMA SameWanted ==
    ASSUME Wanted, UNCHANGED <<server, pending, want>>,
           sync'.pc \in {"read", "read_again"} => sync'.snap = server,
           \A op \in sync'.ops : Aimed(op)
    PROVE  Wanted'
<1>1. \A g \in Groups : Qty(server, g)' = Qty(server, g)
  BY DEF Qty, Units, Rows
<1>2. \A op \in sync'.ops : Aimed(op)'
  BY DEF Aimed
<1> QED
  BY <1>1, <1>2 DEF Wanted

\* The chain goes on with operations that it has.
LEMMA GoesOn ==
    ASSUME sync \in Syncs, NEW ops \in SUBSET Operation, GoOn(sync, ops)
    PROVE  /\ sync' \in Syncs /\ sync'.ops = ops
           /\ sync'.pc \in {"asked_again", "writing"}
<1>1. CASE ops = {}
  <2>1. sync' = [sync EXCEPT !.pc = "asked_again", !.ops = {}, !.snap = Nothing,
                             !.fresh = TRUE]
    BY <1>1 DEF GoOn
  <2> QED
    BY <1>1, <2>1 DEF Syncs
<1>2. CASE ops # {}
  <2>1. sync' = [sync EXCEPT !.pc = "writing", !.ops = ops, !.snap = Nothing]
    BY <1>2 DEF GoOn
  <2> QED
    BY <2>1 DEF Syncs
<1> QED
  BY <1>1, <1>2

\* Something flushes, or the timer fires.
LEMMA StartSteps ==
    ASSUME Inv, Flush \/ TimerFires
    PROVE  Inv' /\ Told
<1>0. Types /\ Answers /\ pending' = pending
  BY DEF Inv, Flush, TimerFires
<1>1. UNCHANGED <<server, view, pending, retry, poll, recover, want, edits>>
  BY DEF Flush, TimerFires
<1>2. /\ sync' \in Syncs /\ timer' \in {"none", "armed", "dead"} /\ NoTimerInFlight'
      /\ sync'.pc \in {"read", "read_again"} => sync' = sync
      /\ sync'.ops = {} \/ sync' = sync
  <2>1. CASE \E t \in {"none", "armed", "dead"} : StartDirectSync(t)
    BY <2>1, Starts
  <2>2. CASE UNCHANGED <<sync, timer>>
    BY <2>2 DEF Inv, Types, NoTimerInFlight, InFlight
  <2> QED
    BY <1>0, <2>1, <2>2 DEF Flush, TimerFires, Types
<1>3. /\ flush' \in {"none", "waiting", "done", "failed"} /\ WaitersHaveWork'
      /\ flush # "done" /\ flush' = "done" => pending = Empty
  <2>1. CASE Flush
    BY <2>1 DEF Flush, HasWork, WaitersHaveWork, InFlight
  <2>2. CASE TimerFires
    BY <2>2, <1>0, Notifies DEF TimerFires, Types
  <2> QED
    BY <2>1, <2>2
<1>4. Answers'
  BY <1>0, <1>1, <1>2, SameAnswers DEF Answers
<1>5. ASSUME edits = 0 PROVE Wanted'
  BY <1>1, <1>2, <1>5, SameWanted DEF Inv, Wanted
<1>6. Told
  BY <1>3 DEF Told, Inv, Wanted, Empty
<1>7. Sane(server)' /\ PendingShown'
  BY <1>1 DEF Sane, Inv, PendingShown
<1> QED
  BY <1>0, <1>1, <1>2, <1>3, <1>4, <1>5, <1>6, <1>7 DEF Inv, Types

\* The chain reads the order, or works out what to write.
LEMMA ReadSteps ==
    ASSUME Inv, Read \/ Build
    PROVE  Inv' /\ Told
<1>0. Types /\ Answers /\ sync \in Syncs /\ Sane(server)
  BY DEF Inv, Types
<1>1. UNCHANGED <<server, view, pending, timer, retry, flush, recover, poll,
                  want, edits>>
  BY DEF Read, Build, Unchanging
<1>2. /\ sync' \in Syncs /\ sync.pc # "idle" /\ sync'.pc # "idle"
      /\ sync'.pc \in {"read", "read_again"} => sync'.snap = server
      /\ edits = 0 => \A op \in sync'.ops : Aimed(op)
  <2>1. CASE Read
    <3> DEFINE pc == IF sync.pc = "asked" THEN "read" ELSE "read_again"
    <3>1. sync' = [sync EXCEPT !.pc = pc, !.snap = server]
      BY <2>1 DEF Read
    <3>2. server \in Orders \cup {Nothing}
      BY <1>0 DEF Sane
    <3>3. sync' \in Syncs /\ sync'.pc = pc /\ sync'.snap = server
          /\ sync'.ops = sync.ops
      BY <1>0, <3>1, <3>2 DEF Syncs
    <3> QED
      BY <2>1, <3>3 DEF Read, Inv, Wanted
  <2>2. CASE Build
    <3>1. sync.pc = "read" /\ GoOn(sync, Ops(sync.snap))
      BY <2>2 DEF Build
    <3>2. sync.snap \in Orders /\ pending \in Pendings
      BY <1>0, <3>1 DEF Answers, Sane, Types
    <3>3. Ops(sync.snap) \in SUBSET Operation
      BY <3>2, OpsType
    <3>4. /\ sync' \in Syncs /\ sync'.ops = Ops(sync.snap)
          /\ sync'.pc \in {"asked_again", "writing"}
      BY <1>0, <3>1, <3>3, GoesOn
    <3>5. edits = 0 => sync.snap = server
      BY <3>1 DEF Inv, Wanted
    <3>6. edits = 0 => \A op \in sync'.ops : Aimed(op)
      BY <3>2, <3>4, <3>5, OpsType DEF Aimed
    <3> QED
      BY <3>1, <3>4, <3>6
  <2> QED
    BY <2>1, <2>2
<1>3. Answers'
  BY <1>0, <1>1, <1>2, SameAnswers DEF Sane
<1>4. NoTimerInFlight' /\ WaitersHaveWork' /\ PendingShown'
  BY <1>1, <1>2 DEF Inv, NoTimerInFlight, WaitersHaveWork, PendingShown, InFlight
<1>5. ASSUME edits = 0 PROVE Wanted'
  BY <1>1, <1>2, <1>5, SameWanted DEF Inv
<1> QED
  BY <1>0, <1>1, <1>2, <1>3, <1>4, <1>5 DEF Inv, Types, Sane, Told

\* An operation of the chain leaves the quantities of the other groups alone.
LEMMA AppliedWanted ==
    ASSUME Wanted, Sane(server), server.open, NEW op \in Operation, Aimed(op),
           server' = Applied(op), UNCHANGED <<pending, want>>,
           sync'.pc \notin {"read", "read_again"},
           \A q \in sync'.ops : Aimed(q)
    PROVE  Wanted'
<1>0. op \in Changes
  BY DEF Operation, Changes
<1>1. \A i \in DOMAIN server.rows :
         i \in DOMAIN server'.rows /\ server'.rows[i].group = server.rows[i].group
  BY <1>0, AppliedSane
<1>2. \A q \in sync'.ops : Aimed(q)'
  BY <1>1 DEF Aimed
<1>3. ASSUME NEW g \in Groups, g \notin DOMAIN pending
      PROVE  Qty(server', g) = Qty(server, g)
  BY <1>0, <1>3, AppliedSane DEF Aimed
<1>4. \A g \in Groups : Qty(server, g)' = Qty(server', g)
  BY DEF Qty, Units, Rows
<1> QED
  BY <1>2, <1>3, <1>4 DEF Wanted

\* The chain opens the order, writes an operation, or fails.
LEMMA WriteSteps ==
    ASSUME Inv, OpenOrder \/ (\E op \in sync.ops : Write(op)) \/ Fault
    PROVE  Inv' /\ Told
<1>0. Types /\ Answers /\ sync \in Syncs /\ Sane(server)
      /\ UNCHANGED <<view, pending, timer, retry, poll, want, edits>>
  BY DEF Inv, Types, OpenOrder, Write, Fault, Unchanging
<1>1. /\ Sane(server)' /\ sync' \in Syncs
      /\ sync'.pc \notin {"read", "read_again"}
      /\ edits = 0 => Wanted'
  <2>1. CASE OpenOrder
    <3>1. server' = [server EXCEPT !.open = TRUE] /\ sync' = sync /\ sync.pc = "writing"
      BY <2>1 DEF OpenOrder
    <3>2. server' \in Orders /\ server'.rows = server.rows /\ server'.open
      BY <1>0, <3>1 DEF Sane, Orders
    <3>3. \A g \in Groups : Qty(server, g)' = Qty(server, g)
      BY <3>2 DEF Qty, Units, Rows
    <3>4. ASSUME edits = 0 PROVE Wanted'
      <4>1. \A op \in sync'.ops : Aimed(op)'
        BY <3>1, <3>2, <3>4, <1>0 DEF Aimed, Inv, Wanted
      <4> QED
        BY <1>0, <3>1, <3>3, <3>4, <4>1 DEF Inv, Wanted
    <3> QED
      BY <1>0, <3>1, <3>2, <3>4 DEF Sane
  <2>2. ASSUME NEW op \in sync.ops, server.open, server' = Applied(op),
               sync' \in Syncs, sync'.pc \notin {"read", "read_again"},
               sync'.ops \subseteq sync.ops
        PROVE  Sane(server)' /\ (edits = 0 => Wanted')
    <3>1. op \in Operation /\ op \in Changes
      BY <1>0 DEF Syncs, Operation, Changes
    <3>2. Sane(server)'
      BY <1>0, <2>2, <3>1, AppliedSane DEF Sane
    <3>3. ASSUME edits = 0 PROVE Wanted'
      <4>1. Wanted
        BY <3>3 DEF Inv
      <4>2. Aimed(op) /\ \A q \in sync'.ops : Aimed(q)
        BY <2>2, <4>1 DEF Wanted
      <4> QED
        BY <1>0, <2>2, <3>1, <4>1, <4>2, AppliedWanted
    <3> QED
      BY <3>2, <3>3
  <2>3. CASE UNCHANGED server /\ HandleError
    <3>1. sync' \in Syncs /\ sync'.ops = {} /\ sync'.pc = "idle"
      BY <2>3, ErrorKeeps
    <3>2. edits = 0 => Wanted'
      BY <1>0, <2>3, <3>1, SameWanted DEF Inv
    <3> QED
      BY <1>0, <2>3, <3>1, <3>2 DEF Sane
  <2>4. CASE \E op \in sync.ops : server.open /\ server' = Applied(op) /\ HandleError
    <3>1. sync' \in Syncs /\ sync'.ops = {} /\ sync'.pc = "idle"
      BY <2>4, ErrorKeeps
    <3> QED
      BY <2>2, <2>4, <3>1
  <2>5. CASE \E op \in sync.ops : /\ server.open /\ server' = Applied(op)
                                  /\ GoOn(sync, sync.ops \ {op})
    <3>1. PICK op \in sync.ops : /\ server.open /\ server' = Applied(op)
                                 /\ GoOn(sync, sync.ops \ {op})
      BY <2>5
    <3>2. sync.ops \ {op} \in SUBSET Operation
      BY <1>0 DEF Syncs
    <3>3. /\ sync' \in Syncs /\ sync'.ops = sync.ops \ {op}
          /\ sync'.pc \in {"asked_again", "writing"}
      BY <1>0, <3>1, <3>2, GoesOn
    <3> QED
      BY <2>2, <3>1, <3>3
  <2> QED
    BY <2>1, <2>3, <2>4, <2>5 DEF Write, Fault
<1>2. CASE HandleError
  <2>1. /\ NoTimerInFlight' /\ WaitersHaveWork'
        /\ flush' \in {"none", "waiting", "done", "failed"}
        /\ ~(flush # "done" /\ flush' = "done")
    BY <1>2, ErrorKeeps
  <2>2. Answers'
    BY <1>0, <1>2, ErrorKeeps
  <2> QED
    BY <1>0, <1>1, <2>1, <2>2 DEF Inv, Types, Told, PendingShown
<1>3. CASE UNCHANGED <<recover, flush>> /\ sync.pc # "idle" /\ sync'.pc # "idle"
  <2>1. Answers'
    BY <1>0, <1>1, <1>3 DEF Answers
  <2>2. NoTimerInFlight' /\ WaitersHaveWork' /\ PendingShown'
    BY <1>0, <1>3 DEF Inv, NoTimerInFlight, WaitersHaveWork, PendingShown, InFlight
  <2> QED
    BY <1>0, <1>1, <1>3, <2>1, <2>2 DEF Inv, Types, Told
<1>4. HandleError \/ (UNCHANGED <<recover, flush>> /\ sync.pc # "idle" /\ sync'.pc # "idle")
  <2>1. CASE OpenOrder
    BY <2>1 DEF OpenOrder
  <2>2. CASE Fault
    BY <2>2 DEF Fault
  <2>3. CASE \E op \in sync.ops : Write(op)
    <3>1. PICK op \in sync.ops : Write(op)
      BY <2>3
    <3>2. CASE Gone(op)
      BY <3>1, <3>2 DEF Write
    <3>3. CASE ~Gone(op)
      <4>1. sync.ops \ {op} \in SUBSET Operation
        BY <1>0 DEF Syncs
      <4>2. GoOn(sync, sync.ops \ {op}) /\ UNCHANGED <<recover, flush>> /\ sync.pc = "writing"
        BY <3>1, <3>3 DEF Write
      <4> QED
        BY <1>0, <4>1, <4>2, GoesOn
    <3> QED
      BY <3>2, <3>3
  <2> QED
    BY <2>1, <2>2, <2>3
<1> QED
  BY <1>2, <1>3, <1>4

\* The chain reads the order again: taps that the order has are not pending any
\* more, and the chain ends or starts again.
LEMMA ConfirmStep ==
    ASSUME Inv, Confirm
    PROVE  Inv' /\ Told
<1>0. /\ Types /\ Answers /\ sync \in Syncs /\ Sane(sync.snap)
      /\ sync.pc = "read_again" /\ pending \in Pendings
      /\ UNCHANGED <<server, recover, poll, want, edits>>
  BY DEF Inv, Types, Answers, Confirm, Unchanging
<1> DEFINE left == {g \in DOMAIN pending : Qty(sync.snap, g) # pending[g]}
<1>1. pending' = [g \in left |-> pending[g]]
  BY DEF Confirm, Unsatisfied, Restrict
<1>2. pending' \in Pendings
  <2>1. left \in SUBSET Groups /\ \A g \in left : pending[g] \in Nat
    BY <1>0 DEF Pendings
  <2>2. pending' \in [left -> Nat]
    BY <1>1, <2>1
  <2> HIDE DEF left
  <2> QED
    BY <2>1, <2>2 DEF Pendings
<1>3. /\ view' \in [Groups -> Nat]
      /\ \A g \in DOMAIN pending : view'[g] \in {pending[g], 0}
  BY <1>0, HydrateKeeps DEF Confirm
<1>4. PendingShown'
  BY <1>1, <1>3 DEF PendingShown
<1>5. /\ sync' \in Syncs /\ sync'.ops = {} /\ sync'.pc \in {"idle", "asked"}
      /\ timer' \in {"none", "armed", "dead"} /\ NoTimerInFlight' /\ retry' = FALSE
  <2>1. CASE retry
    <3>1. StartDirectSync(timer) /\ timer \in {"none", "armed", "dead"}
      BY <1>0, <2>1 DEF Confirm, Finish, Types
    <3> QED
      BY <3>1, Starts DEF Confirm, Finish
  <2>2. CASE ~retry
    <3>1. sync' = NoSync /\ timer' = timer /\ retry' = FALSE
      BY <2>2 DEF Confirm, Finish
    <3>2. NoSync \in Syncs /\ NoSync.ops = {} /\ NoSync.pc = "idle"
      BY DEF NoSync, Syncs
    <3> QED
      BY <1>0, <3>1, <3>2 DEF NoTimerInFlight, InFlight, Types
  <2> QED
    BY <2>1, <2>2
<1>6. /\ flush' \in {"none", "waiting", "done", "failed"} /\ WaitersHaveWork'
      /\ flush # "done" /\ flush' = "done" => pending' = Empty
  BY <1>0, Notifies DEF Confirm, Finish, Types
<1>7. Answers'
  BY <1>0, <1>5 DEF Answers
<1>8. ASSUME edits = 0
      PROVE  \A g \in Groups :
                want[g] = IF g \in left THEN pending[g] ELSE Qty(server, g)
  <2>1. Wanted /\ sync.snap = server
    BY <1>0, <1>8 DEF Inv, Wanted
  <2> QED
    BY <2>1 DEF Wanted
<1>9. ASSUME edits = 0 PROVE Wanted'
  <2>1. \A g \in Groups : Qty(server, g)' = Qty(server, g)
    BY <1>0 DEF Qty, Units, Rows
  <2> HIDE DEF left
  <2> QED
    BY <1>0, <1>1, <1>5, <1>8, <1>9, <2>1 DEF Wanted
<1>10. Told
  <2> SUFFICES ASSUME flush # "done", flush' = "done", edits = 0, NEW g \in Groups
               PROVE  Qty(server, g) = want[g]
    BY DEF Told
  <2>1. pending' = Empty
    BY <1>6
  <2> HIDE DEF left
  <2>2. left = {}
    BY <1>1, <2>1 DEF Empty
  <2> QED
    BY <1>8, <2>2
<1>11. Sane(server)'
  BY <1>0 DEF Inv, Sane
<1> QED
  BY <1>0, <1>2, <1>3, <1>4, <1>5, <1>6, <1>7, <1>9, <1>10, <1>11 DEF Inv, Types

\* Reads outside of the chain: after an error, and of the poller.
LEMMA ReaderSteps ==
    ASSUME Inv, \/ \E r \in DOMAIN recover : RecoverRead(r) \/ RecoverAnswer(r)
                \/ \E p \in Polls : PollRead(p) \/ PollAnswer(p)
    PROVE  Inv' /\ Told
<1>0. /\ Types /\ Answers /\ Sane(server)
      /\ UNCHANGED <<server, pending, timer, sync, retry, flush, want, edits>>
  BY DEF Inv, RecoverRead, RecoverAnswer, PollRead, PollAnswer, Unchanging
<1>1. /\ view' \in [Groups -> Nat]
      /\ \A g \in DOMAIN pending : view'[g] \in {pending[g], 0}
  <2>1. ASSUME NEW r \in DOMAIN recover, RecoverAnswer(r)
        PROVE  /\ view' \in [Groups -> Nat]
               /\ \A g \in DOMAIN pending : view'[g] \in {pending[g], 0}
    <3>1. Sane(recover[r]) /\ view' \in {view, Overlay(recover[r])}
      BY <1>0, <2>1 DEF RecoverAnswer, Answers
    <3> QED
      BY <1>0, <3>1, OverlayKeeps DEF Types, Inv, PendingShown
  <2>2. ASSUME NEW p \in Polls, PollAnswer(p)
        PROVE  /\ view' \in [Groups -> Nat]
               /\ \A g \in DOMAIN pending : view'[g] \in {pending[g], 0}
    <3>1. Hydrate(poll[p].snap, poll[p].fresh) /\ Sane(poll[p].snap)
      BY <1>0, <2>2 DEF PollAnswer, Answers
    <3> QED
      BY <3>1, HydrateKeeps
  <2>3. CASE UNCHANGED view
    BY <2>3 DEF Inv, Types, PendingShown
  <2> QED
    BY <2>1, <2>2, <2>3 DEF RecoverRead, PollRead
<1>2. Answers'
  <2>1. ASSUME NEW r \in DOMAIN recover, RecoverRead(r) \/ RecoverAnswer(r)
        PROVE  Answers'
    <3>1. /\ poll' = poll
          /\ \/ recover' = [recover EXCEPT ![r] = server]
             \/ recover' = [recover EXCEPT ![r] = Nothing]
      BY <2>1 DEF RecoverRead, RecoverAnswer, Unchanging
    <3>2. /\ DOMAIN recover' = 1 .. MaxReads
          /\ \A q \in DOMAIN recover' :
                recover'[q] \notin {Nothing, Asked} => Sane(recover'[q])
      BY <1>0, <3>1 DEF Answers
    <3> QED
      BY <1>0, <3>1, <3>2 DEF Answers
  <2>2. ASSUME NEW p \in Polls, PollRead(p) \/ PollAnswer(p)
        PROVE  Answers'
    <3>1. [snap |-> server, fresh |-> TRUE] \in [snap : Orders, fresh : BOOLEAN]
      BY <1>0 DEF Sane
    <3>2. /\ recover' = recover
          /\ \/ poll' = [poll EXCEPT ![p] = [snap |-> server, fresh |-> TRUE]]
             \/ poll' = [poll EXCEPT ![p] = Nothing]
      BY <2>2 DEF PollRead, PollAnswer
    <3>3. /\ DOMAIN poll' = Polls
          /\ \A q \in Polls \ {p} : poll'[q] = poll[q]
          /\ poll'[p] \in {[snap |-> server, fresh |-> TRUE], Nothing}
      BY <1>0, <2>2, <3>2 DEF Answers
    <3>4. \A q \in Polls : poll'[q] # Nothing =>
              poll'[q] \in [snap : Orders, fresh : BOOLEAN] /\ Sane(poll'[q].snap)
      <4> SUFFICES ASSUME NEW q \in Polls, poll'[q] # Nothing
                   PROVE  poll'[q] \in [snap : Orders, fresh : BOOLEAN]
                          /\ Sane(poll'[q].snap)
        OBVIOUS
      <4>1. CASE q # p
        BY <1>0, <3>3, <4>1 DEF Answers
      <4>2. CASE q = p
        <5>1. poll'[q] = [snap |-> server, fresh |-> TRUE]
          BY <3>3, <4>2
        <5>2. poll'[q].snap = server
          BY <5>1
        <5> QED
          BY <1>0, <3>1, <5>1, <5>2
      <4> QED
        BY <4>1, <4>2
    <3> QED
      BY <1>0, <3>2, <3>3, <3>4 DEF Answers
  <2> QED
    BY <2>1, <2>2 DEF RecoverRead, RecoverAnswer, Unchanging
<1>3. ASSUME edits = 0 PROVE Wanted'
  BY <1>0, <1>3, SameWanted DEF Inv, Wanted
<1> QED
  BY <1>0, <1>1, <1>2, <1>3 DEF Inv, Types, Sane, NoTimerInFlight, WaitersHaveWork,
     PendingShown, InFlight, Told

\* Another terminal writes to the table.
LEMMA OtherStep ==
    ASSUME Inv, OtherTerminal
    PROVE  Inv' /\ Told
<1>0. /\ Types /\ Answers /\ Sane(server) /\ server.open
      /\ edits' \in Nat /\ edits' # 0
      /\ UNCHANGED <<view, pending, timer, sync, retry, flush, poll, recover, want>>
  BY DEF Inv, OtherTerminal
<1>1. Sane(server)'
  <2>1. \E op \in Changes : server' = Applied(op)
    <3>1. CASE \E g \in Groups : server' = Applied([type |-> "add", row |-> 0,
                                                    group |-> g, qty |-> 1])
      BY <3>1 DEF Changes
    <3>2. CASE \E i \in DOMAIN server.rows, n \in 0 .. 2 :
                  server' = [server EXCEPT !.rows[i].qty = n]
      <4>1. PICK i \in DOMAIN server.rows, n \in 0 .. 2 :
                  server' = [server EXCEPT !.rows[i].qty = n]
        BY <3>2
      <4> DEFINE op == [type |-> "update", row |-> i,
                        group |-> server.rows[i].group, qty |-> n]
      <4>2. op \in Changes
        BY <1>0, LineOf DEF Sane, Line, Changes
      <4>3. server' = Applied(op)
        BY <4>1 DEF Applied
      <4> QED
        BY <4>2, <4>3
    <3> QED
      BY <3>1, <3>2 DEF OtherTerminal
  <2> QED
    BY <1>0, <2>1, AppliedSane DEF Sane
<1>2. Answers'
  BY <1>0 DEF Answers
<1> QED
  BY <1>0, <1>1, <1>2 DEF Inv, Types, NoTimerInFlight, WaitersHaveWork,
     PendingShown, InFlight, Told

\* The session ends: nothing is shown any more, and nothing else changes.
LEMMA LeaveStep ==
    ASSUME Inv, Leave
    PROVE  Inv' /\ Told
<1>0. /\ Types /\ Answers /\ Sane(server) /\ view' = [g \in Groups |-> 0]
      /\ poll' = [p \in Polls |-> Nothing]
      /\ UNCHANGED <<server, pending, timer, sync, retry, flush, recover, want, edits>>
  BY DEF Inv, Leave
<1>1. Answers'
  BY <1>0 DEF Answers
<1>2. PendingShown' /\ view' \in [Groups -> Nat]
  <2>1. \A g \in DOMAIN pending : g \in Groups
    BY <1>0 DEF Types, Pendings
  <2> QED
    BY <1>0, <2>1 DEF PendingShown
<1>3. ASSUME edits = 0 PROVE Wanted'
  BY <1>0, <1>3, SameWanted DEF Inv, Wanted
<1> QED
  BY <1>0, <1>1, <1>2, <1>3 DEF Inv, Types, Sane, NoTimerInFlight, WaitersHaveWork,
     InFlight, Told

-----------------------------------------------------------------------------
(* The theorems                                                            *)

\* A terminal starts at rest, with the order as the backend has it.
LEMMA InvInit == Init => Inv
<1> SUFFICES ASSUME Init PROVE Inv
  OBVIOUS
<1>1. Sane(server)
  <2>1. \A g \in Groups : Row(g, 1) \in Line
    BY DEF Row, Line
  <2>2. server \in Order
    BY DEF Init
  <2>3. CASE server = [open |-> FALSE, rows |-> <<>>]
    BY <2>3 DEF Sane, Orders
  <2>4. CASE \E rows \in {<<>>} \cup {<<Row(g, 1)>> : g \in Groups}
                           \cup {<<Row(g, 1), Row(g, 1)>> : g \in Groups} :
                server = [open |-> TRUE, rows |-> rows]
    <3>1. PICK rows \in {<<>>} \cup {<<Row(g, 1)>> : g \in Groups}
                              \cup {<<Row(g, 1), Row(g, 1)>> : g \in Groups} :
                server = [open |-> TRUE, rows |-> rows]
      BY <2>4
    <3>2. rows \in Seq(Line)
      <4>1. ASSUME NEW l \in Line
            PROVE  <<l>> \in Seq(Line) /\ <<l, l>> \in Seq(Line)
        OBVIOUS
      <4>2. CASE rows = <<>>
        BY <4>2
      <4>3. CASE \E g \in Groups : rows = <<Row(g, 1)>>
        BY <2>1, <4>1, <4>3
      <4>4. CASE \E g \in Groups : rows = <<Row(g, 1), Row(g, 1)>>
        BY <2>1, <4>1, <4>4
      <4> QED
        BY <3>1, <4>2, <4>3, <4>4
    <3> QED
      BY <3>1, <3>2 DEF Sane, Orders
  <2> QED
    BY <2>2, <2>3, <2>4 DEF Order, NoOrder
<1>2. \A g \in Groups : Qty(server, g) \in Nat
  BY <1>1, QtyType DEF Sane
<1>3. view \in [Groups -> Nat] /\ want = view
  BY <1>2 DEF Init
<1>4. pending \in Pendings /\ DOMAIN pending = {}
  BY DEF Init, Empty, Pendings
<1>5. sync \in Syncs /\ sync.pc = "idle" /\ sync.ops = {}
  BY DEF Init, NoSync, Syncs
<1>6. Wanted
  BY <1>3, <1>4, <1>5 DEF Init, Wanted
<1>7. Answers
  BY <1>5 DEF Init, Answers
<1> QED
  BY <1>1, <1>3, <1>4, <1>5, <1>6, <1>7 DEF Init, Inv, Types, NoTimerInFlight,
     WaitersHaveWork, PendingShown, InFlight

LEMMA InvNext == Inv /\ [Next]_vars => Inv' /\ Told
<1> SUFFICES ASSUME Inv, [Next]_vars PROVE Inv' /\ Told
  OBVIOUS
<1>1. CASE UNCHANGED vars
  <2>1. UNCHANGED <<server, view, pending, timer, sync, retry, flush, poll,
                    recover, want, edits>>
    BY <1>1 DEF vars
  <2>2. Answers'
    BY <2>1 DEF Answers, Inv
  <2>3. ASSUME edits = 0 PROVE Wanted'
    BY <2>1, <2>3, SameWanted DEF Inv, Wanted
  <2> QED
    BY <2>1, <2>2, <2>3 DEF Inv, Types, Sane, NoTimerInFlight, WaitersHaveWork,
       PendingShown, InFlight, Told
<1>2. CASE \E g \in Groups : Tap(g)
  <2>1. PICK g \in Groups : Tap(g)
    BY <1>2
  <2>2. view[g] \in Nat
    BY DEF Inv, Types
  <2>3. \E n \in Nat : Queue(g, n)
    BY <2>1, <2>2 DEF Tap
  <2> QED
    BY <2>3, TapStep
<1>3. CASE Flush \/ TimerFires
  BY <1>3, StartSteps
<1>4. CASE Read \/ Build
  BY <1>4, ReadSteps
<1>5. CASE OpenOrder \/ (\E op \in sync.ops : Write(op)) \/ Fault
  BY <1>5, WriteSteps
<1>6. CASE Confirm
  BY <1>6, ConfirmStep
<1>7. CASE \/ \E r \in DOMAIN recover : RecoverRead(r) \/ RecoverAnswer(r)
           \/ \E p \in Polls : PollRead(p) \/ PollAnswer(p)
  BY <1>7, ReaderSteps
<1>8. CASE OtherTerminal
  BY <1>8, OtherStep
<1>9. CASE Leave
  BY <1>9, LeaveStep
<1> QED
  BY <1>1, <1>2, <1>3, <1>4, <1>5, <1>6, <1>7, <1>8, <1>9 DEF Next, Chain

LEMMA InvConsistent == Inv => SyncConsistent
  BY DEF Inv, Types, Sane, Orders, Line, Syncs, Pendings, SyncConsistent, TypeOK

\* However taps, flushes, answers, errors and other terminals interleave: no
\* timer is left over beside a chain, nobody waits for a table without work, and
\* a product whose taps are pending shows what was tapped.
THEOREM SyncConsistentHolds == Spec => []SyncConsistent
<1>1. Inv /\ [Next]_vars => Inv'
  BY InvNext
<1> QED
  BY InvInit, <1>1, InvConsistent, PTL DEF Spec

\* Whoever is told that the taps are written finds them in the backend, as long
\* as no other terminal writes to the table.
THEOREM FlushedIsStoredHolds == Spec => FlushedIsStored
<1>1. Inv /\ [Next]_vars => Inv'
  BY InvNext
<1>2. Inv /\ [Next]_vars
        => [flush # "done" /\ flush' = "done" /\ edits = 0
              => \A g \in Groups : Qty(server, g) = want[g]]_vars
  BY InvNext DEF Told
<1> QED
  BY InvInit, <1>1, <1>2, PTL DEF Spec, FlushedIsStored

=============================================================================
