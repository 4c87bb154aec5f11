------------------------ MODULE TableService_proofs ------------------------
(***************************************************************************)
(* The queues of the service page, for any number of tables, lines, taps   *)
(* and faults: nobody is left waiting for an empty queue, and a line only  *)
(* strays to the order of another table in the two ways that are named.    *)
(***************************************************************************)
EXTENDS TableService, FiniteSetTheorems, SequenceTheorems, TLAPS

Reads == {"drain", "reload", "poll"} \X Tables \X (1 .. MaxReads)
Marks == {"local", "pending", "sent", "paid"}
Shown == UNION {[S -> Marks] : S \in SUBSET Lines}

\* What table t shows is of its own order, as far as the tables m have not shown
\* the order of another one, given the rows w of the backend.
Own(m, t, id) == t \in m \/ id = Nothing \/ id[1] = t
Shows(m, w, t, v) ==
    /\ Own(m, t, v.id)
    /\ \A l \in DOMAIN v.lines :
          v.lines[l] \in {"pending", "sent"} => t \in m \/ w[l].table = t

\* A line has an order once its request was served, and was tapped before.
RowsPlaced ==
    \A l \in Lines :
        /\ row[l].st = "free" <=> row[l].table = Nothing
        /\ row[l].table # Nothing => home[l] # Nothing

\* A line waits for one add, at the table it was tapped at; whatever else is
\* asked of a line is asked at the table of its order.
QueueShape ==
    \A t \in Tables : \A i \in 1 .. Len(queue[t]) :
        LET job == queue[t][i] IN
        /\ job.kind = "add" =>
              /\ home[job.line] = t /\ job.line \in late
              /\ row[job.line].table = Nothing
              /\ \A j \in 1 .. Len(queue[t]) :
                    queue[t][j].kind = "add" /\ queue[t][j].line = job.line => i = j
              /\ running[t].kind = "add" => running[t].line # job.line
        /\ job.kind # "add" => t \in mixed \/ row[job.line].table = t

\* What a request of table t in flight knows, given the tables m that showed a
\* foreign order, the rows w, the homes h of the lines and the late ones s.
JobFits(m, w, h, s, t, job) ==
    /\ job.kind = "add" =>
          /\ h[job.line] = t
          /\ job.st = "asked" =>
                /\ w[job.line].table = Nothing /\ job.to \in Tables \X Nat
                /\ job.line \in s \/ t \in m \/ job.to[1] = t
    /\ job.kind # "add" => t \in m \/ w[job.line].table = t
    /\ job.snap # Nothing => Shows(m, w, t, job.snap)
RunningShape ==
    \A t \in Tables :
        running[t] # Nothing => JobFits(mixed, row, home, late, t, running[t])

ReadShape == \A r \in Reads : read[r] # Nothing => Shows(mixed, row, r[2], read[r].snap)
ViewShape == \A t \in Tables : Shows(mixed, row, t, view[t])

\* What a sending or charging in progress knows: until its table has shown a
\* foreign order it pays for its own.
FlowFits(m, f) ==
    /\ f.pc # "idle" => f.table \in Tables
    /\ f.pc = "paying" => Own(m, f.table, f.id)
    /\ f.pc = "paid" => /\ f.snap \in Displayed /\ Own(m, f.table, f.snap.id)
                        /\ \A l \in DOMAIN f.snap.lines : f.snap.lines[l] = "paid"
FlowShape == \A k \in Kinds : FlowFits(mixed, flow[k])

Inv == /\ TypeOK /\ NothingStranded /\ StraysLate
       /\ RowsPlaced /\ QueueShape /\ RunningShape
       /\ ReadShape /\ ViewShape /\ FlowShape

-----------------------------------------------------------------------------
(* Types of what the operators build                                       *)

LEMMA ShownDef ==
  ASSUME NEW f
  PROVE  f \in Shown <=> DOMAIN f \subseteq Lines /\ f \in [DOMAIN f -> Marks]
  BY DEF Shown

LEMMA DisplayedDef ==
  ASSUME NEW id, NEW f
  PROVE  [id |-> id, lines |-> f] \in Displayed <=> id \in OrderId /\ f \in Shown
  BY DEF Displayed, Shown, Marks

LEMMA DisplayedFields ==
  ASSUME NEW v \in Displayed
  PROVE  /\ v.id \in OrderId /\ v.lines \in Shown
         /\ DOMAIN v.lines \subseteq Lines /\ v = [id |-> v.id, lines |-> v.lines]
  BY ShownDef DEF Displayed, Shown, Marks

LEMMA EmptyType == EmptyOrder \in Displayed /\ DOMAIN EmptyOrder.lines = {}
<1>1. <<>> = [l \in {} |-> "local"]
  OBVIOUS
<1>2. DOMAIN <<>> = {} /\ <<>> \in [{} -> Marks]
  BY <1>1
<1>3. QED
  BY <1>2 DEF EmptyOrder, Displayed, OrderId, Marks

LEMMA TappedType ==
  ASSUME NEW f \in Shown, NEW l \in Lines
  PROVE  Tapped(f, l) \in Shown
  BY ShownDef DEF Tapped, Marks

LEMMA RestrictType ==
  ASSUME NEW f \in Shown, NEW S
  PROVE  Restrict(f, DOMAIN f \ S) \in Shown
  BY ShownDef DEF Restrict

LEMMA ActiveLines == \A t : Active(t) \subseteq Lines
  BY DEF Active

\* What a read answers is the order of its table.
LEMMA SnapType ==
  ASSUME TypeOK, NEW t \in Tables
  PROVE  /\ Snap(t) \in Displayed /\ Reading(t) \in Answering
         /\ Shows(mixed, row, t, Snap(t))
         /\ \A S : [Snap(t) EXCEPT !.lines = Restrict(@, DOMAIN @ \ S)] \in Displayed
         /\ \A S : Shows(mixed, row, t,
                         [Snap(t) EXCEPT !.lines = Restrict(@, DOMAIN @ \ S)])
<1>1. [l \in Active(t) |-> row[l].st] \in Shown
  BY ShownDef, ActiveLines DEF TypeOK, Active, Marks
<1>2. <<t, order[t].n>> \in OrderId
  BY DEF TypeOK, OrderId
<1>3. Snap(t) \in Displayed
  BY <1>1, <1>2, DisplayedDef, EmptyType DEF Snap
<1>4. Shows(mixed, row, t, Snap(t))
  BY EmptyType DEF Shows, Snap, Own, Active, EmptyOrder
<1>5. ASSUME NEW S
      PROVE  /\ [Snap(t) EXCEPT !.lines = Restrict(@, DOMAIN @ \ S)] \in Displayed
             /\ Shows(mixed, row, t, [Snap(t) EXCEPT !.lines = Restrict(@, DOMAIN @ \ S)])
  <2> DEFINE f == Restrict(Snap(t).lines, DOMAIN Snap(t).lines \ S)
  <2>1. f \in Shown /\ Snap(t) = [id |-> Snap(t).id, lines |-> Snap(t).lines]
    BY <1>3, DisplayedFields, RestrictType
  <2>2. [Snap(t) EXCEPT !.lines = Restrict(@, DOMAIN @ \ S)] = [id |-> Snap(t).id, lines |-> f]
    BY <2>1
  <2>3. DOMAIN f \subseteq DOMAIN Snap(t).lines /\ \A l \in DOMAIN f : f[l] = Snap(t).lines[l]
    BY DEF Restrict
  <2>4. Snap(t).id \in OrderId
    BY <1>3, DisplayedFields
  <2> HIDE DEF f
  <2>5. QED
    BY <1>4, <2>1, <2>2, <2>3, <2>4, DisplayedDef DEF Shows
<1>6. QED
  BY <1>3, <1>4, <1>5 DEF Reading, Answering

LEMMA StartedType ==
  ASSUME selected \in Tables, NEW v \in [Tables -> Displayed], NEW t \in Tables,
         NEW job \in Mutation
  PROVE  /\ Started(t, job, v) \in Request /\ Started(t, job, v) # Nothing
         /\ Started(t, job, v).st = "asked" /\ Started(t, job, v).snap = Nothing
         /\ Started(t, job, v).kind = job.kind /\ Started(t, job, v).line = job.line
         /\ job.kind = "add" => /\ Started(t, job, v).to = Target(t, v)
                                /\ Target(t, v) \in Tables \X Nat
<1>1. v[selected].id \in OrderId
  BY DisplayedFields
<1>2. Target(t, v) \in Tables \X Nat
  BY <1>1 DEF Target, OrderId
<1>3. Started(t, job, v) \in Request
  BY <1>2 DEF Started, Request, Mutation, OrderId
<1>4. QED
  BY <1>2, <1>3, TableServiceAssumption DEF Started

-----------------------------------------------------------------------------
(* What a step that leaves a part of the state alone keeps                 *)

\* Rows stay with the order they were added to; a table that displayed a
\* foreign order stays marked.
Grown == /\ mixed \subseteq mixed'
         /\ \A l \in Lines : row[l].table # Nothing => row'[l].table = row[l].table

LEMMA OwnGrows ==
  ASSUME mixed \subseteq mixed', NEW t, NEW id, Own(mixed, t, id)
  PROVE  Own(mixed', t, id)
  BY DEF Own

LEMMA ShowsGrows ==
  ASSUME Grown, NEW t \in Tables, NEW v \in Displayed, Shows(mixed, row, t, v)
  PROVE  Shows(mixed', row', t, v)
<1>1. t # Nothing /\ DOMAIN v.lines \subseteq Lines
  BY TableServiceAssumption, DisplayedFields
<1>2. QED
  BY <1>1 DEF Grown, Shows, Own

LEMMA ViewFrame ==
  ASSUME Inv, Grown, UNCHANGED view
  PROVE  ViewShape'
<1> SUFFICES ASSUME NEW t \in Tables PROVE Shows(mixed', row', t, view'[t])
  BY DEF ViewShape
<1>1. view[t] \in Displayed /\ Shows(mixed, row, t, view[t])
  BY DEF Inv, TypeOK, ViewShape
<1>2. QED
  BY <1>1, ShowsGrows

LEMMA ReadFrame ==
  ASSUME Inv, Grown,
         \A r \in Reads : read'[r] # Nothing =>
            \/ read[r] # Nothing /\ read'[r].snap = read[r].snap
            \/ read'[r].snap \in {Snap(r[2]), EmptyOrder}
  PROVE  ReadShape'
<1> SUFFICES ASSUME NEW r \in Reads, read'[r] # Nothing
             PROVE  Shows(mixed', row', r[2], read'[r].snap)
  BY DEF ReadShape
<1>1. r[2] \in Tables
  BY DEF Reads
<1>2. CASE read[r] # Nothing /\ read'[r].snap = read[r].snap
  <2>1. read[r].snap \in Displayed /\ Shows(mixed, row, r[2], read[r].snap)
    BY <1>2 DEF Inv, TypeOK, ReadShape, Reads, Answering
  <2>2. QED
    BY <1>1, <1>2, <2>1, ShowsGrows
<1>3. CASE read'[r].snap = Snap(r[2])
  <2>1. Snap(r[2]) \in Displayed /\ Shows(mixed, row, r[2], Snap(r[2]))
    BY <1>1, SnapType DEF Inv
  <2>2. QED
    BY <1>1, <1>3, <2>1, ShowsGrows
<1>4. CASE read'[r].snap = EmptyOrder
  BY <1>4, EmptyType DEF Shows, Own, EmptyOrder
<1>5. QED
  BY <1>2, <1>3, <1>4

LEMMA FlowFrame ==
  ASSUME Inv, mixed \subseteq mixed', UNCHANGED flow
  PROVE  FlowShape'
  BY DEF Inv, FlowShape, FlowFits, Own

\* Whoever waits keeps waiting for something.
KeepsReads == \A r \in Reads : read[r] # Nothing => read'[r] # Nothing
Waiting(f) == /\ f.pc = "flushing" <=> f.waits # {}
              /\ "lines" \in f.waits => f.table \in Tables

LEMMA WaitTable ==
  ASSUME Inv, NEW k \in Kinds
  PROVE  Waiting(flow[k])
<1>1. flow[k].pc = "flushing" => flow[k].table \in Tables
  BY DEF Inv, FlowShape, FlowFits
<1>2. QED
  BY <1>1 DEF Waiting, Inv, NothingStranded

LEMMA WaitFrame ==
  ASSUME Inv, \A t \in Tables : queue'[t] # <<>> => running'[t] # Nothing,
         \A t \in Tables : HasWork(t) => running'[t] # Nothing \/ queue'[t] # <<>>,
         KeepsReads,
         \A k \in Kinds :
            \/ flow'[k] = flow[k]
            \/ /\ Waiting(flow'[k])
               /\ "lines" \in flow'[k].waits =>
                     \/ "lines" \in flow[k].waits /\ flow'[k].table = flow[k].table
                     \/ HasWork(flow'[k].table)
  PROVE  NothingStranded'
<1>1. ASSUME NEW k \in Kinds
      PROVE  flow'[k].pc = "flushing" <=> flow'[k].waits # {}
  BY WaitTable DEF Waiting
<1>2. ASSUME NEW k \in Kinds, "lines" \in flow'[k].waits
      PROVE  \/ running'[flow'[k].table] # Nothing
             \/ queue'[flow'[k].table] # <<>>
             \/ \E i \in 1 .. MaxReads : read'[<<"drain", flow'[k].table, i>>] # Nothing
  <2>1. CASE "lines" \in flow[k].waits /\ flow'[k].table = flow[k].table
    <3>1. flow[k].table \in Tables
      BY <2>1, WaitTable DEF Waiting
    <3>2. \/ HasWork(flow[k].table)
          \/ \E i \in 1 .. MaxReads : read[<<"drain", flow[k].table, i>>] # Nothing
      BY <2>1 DEF Inv, NothingStranded
    <3>3. \A i \in 1 .. MaxReads : <<"drain", flow[k].table, i>> \in Reads
      BY <3>1 DEF Reads
    <3>4. QED
      BY <2>1, <3>1, <3>2, <3>3 DEF KeepsReads
  <2>2. CASE Waiting(flow'[k]) /\ HasWork(flow'[k].table)
    BY <1>2, <2>2 DEF Waiting
  <2>3. QED
    BY <1>2, <2>1, <2>2
<1>3. QED
  BY <1>1, <1>2 DEF NothingStranded, HasWork

\* No request is started or answered, and no row changes its table.
LEMMA JobsFrame ==
  ASSUME Inv, Grown, UNCHANGED <<queue, running, home, late>>,
         row' \in [Lines -> Row],
         \A l \in Lines : /\ row'[l].table = row[l].table
                          /\ row'[l].st = "free" <=> row[l].st = "free"
  PROVE  StraysLate' /\ RowsPlaced' /\ QueueShape' /\ RunningShape'
<1>1. StraysLate'
  BY DEF Inv, StraysLate, Grown
<1>2. RowsPlaced'
  BY DEF Inv, RowsPlaced
<1>3. QueueShape'
  <2> SUFFICES ASSUME NEW t \in Tables, NEW i \in 1 .. Len(queue[t])
               PROVE  /\ queue[t][i].kind = "add" =>
                           /\ home[queue[t][i].line] = t /\ queue[t][i].line \in late
                           /\ row'[queue[t][i].line].table = Nothing
                           /\ \A j \in 1 .. Len(queue[t]) :
                                 queue[t][j].kind = "add" /\ queue[t][j].line = queue[t][i].line
                                    => i = j
                           /\ running[t].kind = "add" => running[t].line # queue[t][i].line
                      /\ queue[t][i].kind # "add" =>
                           t \in mixed' \/ row'[queue[t][i].line].table = t
    BY DEF QueueShape
  <2>1. queue[t][i].line \in Lines
    <3>1. queue[t] \in Seq(Mutation)
      BY DEF Inv, TypeOK
    <3>2. queue[t][i] \in Mutation
      BY <3>1, ElementOfSeq
    <3>3. QED
      BY <3>2 DEF Mutation
  <2>2. QED
    BY <2>1 DEF Inv, QueueShape, Grown
<1>4. RunningShape'
  <2> SUFFICES ASSUME NEW t \in Tables, running[t] # Nothing
               PROVE  JobFits(mixed', row', home', late', t, running[t])
    BY DEF RunningShape
  <2> DEFINE job == running[t]
  <2>1. job \in Request /\ JobFits(mixed, row, home, late, t, job)
    BY DEF Inv, TypeOK, RunningShape
  <2>2. job.snap # Nothing => Shows(mixed', row', t, job.snap)
    BY <2>1, ShowsGrows DEF Request, JobFits
  <2>3. QED
    BY <2>1, <2>2 DEF JobFits, Request, Own, Grown
<1>5. QED
  BY <1>1, <1>2, <1>3, <1>4

-----------------------------------------------------------------------------
(* The queue                                                               *)

LEMMA Queued ==
  ASSUME Inv, NEW t \in Tables, NEW i \in 1 .. Len(queue[t])
  PROVE  /\ queue[t] \in Seq(Mutation) /\ queue[t][i] \in Mutation
         /\ queue[t][i].line \in Lines /\ Len(queue[t]) \in Nat
         /\ queue[t] # <<>> /\ running[t] # Nothing
<1>1. queue[t] \in Seq(Mutation)
  BY DEF Inv, TypeOK
<1>2. queue[t][i] \in Mutation /\ Len(queue[t]) \in Nat
  BY <1>1, ElementOfSeq, LenProperties
<1>3. queue[t] # <<>>
  BY <1>2
<1>4. QED
  BY <1>1, <1>2, <1>3 DEF Mutation, Inv, NothingStranded

\* The answers of a table grow old but none of them is lost.
LEMMA OutdatedReads ==
  ASSUME Inv, NEW t \in Tables
  PROVE  /\ Outdated(t) \in [Reads -> {Nothing} \cup Answering]
         /\ \A r \in Reads : /\ read[r] = Nothing <=> Outdated(t)[r] = Nothing
                             /\ read[r] # Nothing =>
                                   Outdated(t)[r].snap \in {read[r].snap, EmptyOrder}
<1>1. read \in [Reads -> {Nothing} \cup Answering]
  BY DEF Inv, TypeOK, Reads
<1>2. ASSUME NEW r \in Reads, read[r] # Nothing
      PROVE  /\ [read[r] EXCEPT !.fresh = FALSE, !.snap = EmptyOrder] \in Answering
             /\ [read[r] EXCEPT !.fresh = FALSE, !.snap = EmptyOrder].snap = EmptyOrder
  BY <1>1, <1>2, EmptyType DEF Answering
<1>3. QED
  BY <1>1, <1>2, TableServiceAssumption DEF Outdated

\* A request that starts at once fits the table it was tapped at, one that
\* waits is known to be late.
LEMMA EnqueueJobs ==
  ASSUME Inv, NEW job \in Mutation, Enqueue(job), UNCHANGED <<row, mixed>>,
         view' \in [Tables -> Displayed], Own(mixed, selected, view'[selected].id),
         \A l \in Lines : home[l] # Nothing => home'[l] = home[l],
         job.kind = "add" => /\ home[job.line] = Nothing
                             /\ home'[job.line] = selected,
         job.kind # "add" => selected \in mixed \/ row[job.line].table = selected
  PROVE  /\ queue' \in [Tables -> Seq(Mutation)]
         /\ running' \in [Tables -> {Nothing} \cup Request]
         /\ late' \subseteq Lines
         /\ StraysLate' /\ RowsPlaced' /\ QueueShape' /\ RunningShape'
         /\ \A t \in Tables : queue'[t] # <<>> => running'[t] # Nothing
         /\ \A t \in Tables : HasWork(t) => running'[t] # Nothing \/ queue'[t] # <<>>
<1> DEFINE new == Started(selected, job, view')
<1>0. /\ selected \in Tables /\ selected # Nothing /\ job.line \in Lines /\ late \subseteq Lines
      /\ queue \in [Tables -> Seq(Mutation)] /\ running \in [Tables -> {Nothing} \cup Request]
  BY TableServiceAssumption DEF Inv, TypeOK, Mutation
<1>1. late \subseteq late' /\ late' \subseteq Lines
  BY <1>0 DEF Enqueue
<1>2. /\ new \in Request /\ new # Nothing /\ new.st = "asked" /\ new.snap = Nothing
      /\ new.kind = job.kind /\ new.line = job.line
      /\ job.kind = "add" => new.to = Target(selected, view') /\ new.to \in Tables \X Nat
  BY <1>0, <1>1, StartedType
<1>3. job.kind = "add" => selected \in mixed \/ new.to[1] = selected
  BY <1>2 DEF Target, Own
<1>4. \A l \in Lines : home[l] = Nothing => row[l].table = Nothing
  BY DEF Inv, RowsPlaced
<1>5. RowsPlaced' /\ StraysLate'
  BY <1>0, <1>1, <1>4 DEF Inv, RowsPlaced, StraysLate, TypeOK
<1>6. ASSUME NEW t \in Tables, running[t] # Nothing, running'[t] = running[t]
      PROVE  JobFits(mixed', row', home', late', t, running[t])
  <2>1. running[t] \in Request /\ JobFits(mixed, row, home, late, t, running[t])
    BY <1>6 DEF Inv, RunningShape, TypeOK
  <2>2. running[t].line \in Lines /\ t # Nothing
    BY <2>1, TableServiceAssumption DEF Request
  <2>3. QED
    BY <1>0, <1>1, <1>6, <2>1, <2>2 DEF JobFits
<1>7. ASSUME NEW t \in Tables, NEW i \in 1 .. Len(queue[t]), queue'[t] = queue[t],
             t # selected \/ running'[t] = running[t]
      PROVE  /\ queue[t][i].kind = "add" =>
                  /\ home'[queue[t][i].line] = t /\ queue[t][i].line \in late'
                  /\ row[queue[t][i].line].table = Nothing
                  /\ \A j \in 1 .. Len(queue[t]) :
                        queue[t][j].kind = "add" /\ queue[t][j].line = queue[t][i].line
                           => i = j
                  /\ running[t].kind = "add" => running[t].line # queue[t][i].line
             /\ queue[t][i].kind # "add" =>
                  t \in mixed' \/ row[queue[t][i].line].table = t
  <2>1. queue[t][i].line \in Lines /\ t # Nothing
    BY Queued, TableServiceAssumption
  <2>2. QED
    BY <1>0, <1>1, <2>1 DEF Inv, QueueShape
<1>8. CASE running[selected] = Nothing
  <2>1. /\ running' = [running EXCEPT ![selected] = new]
        /\ queue' = queue /\ queue[selected] = <<>>
    BY <1>0, <1>1, <1>8 DEF Enqueue, Inv, NothingStranded
  <2>2. JobFits(mixed', row', home', late', selected, new)
    BY <1>2, <1>3, <1>4, <1>0, <1>1 DEF JobFits
  <2>3. RunningShape'
    BY <1>0, <1>1, <1>6, <2>1, <2>2 DEF RunningShape
  <2>4. ASSUME NEW t \in Tables, NEW i \in 1 .. Len(queue[t])
        PROVE  running'[t] = running[t]
    BY <1>0, <1>1, <2>1, Queued
  <2>5. QueueShape'
    BY <1>7, <2>1, <2>4 DEF QueueShape
  <2>6. QED
    BY <1>0, <1>1, <1>2, <1>5, <2>1, <2>3, <2>5 DEF HasWork, Inv, NothingStranded
<1>9. CASE running[selected] # Nothing
  <2> DEFINE old == queue[selected]
  <2>1. /\ queue' = [queue EXCEPT ![selected] = Append(old, job)] /\ running' = running
        /\ job.kind = "add" => job.line \in late'
    BY <1>0, <1>1, <1>9 DEF Enqueue
  <2>2. /\ Append(old, job) \in Seq(Mutation) /\ Append(old, job) # <<>>
        /\ Len(Append(old, job)) = Len(old) + 1 /\ Len(old) \in Nat
        /\ \A i \in 1 .. Len(old) : Append(old, job)[i] = old[i]
        /\ Append(old, job)[Len(old) + 1] = job
    BY <1>0, <1>1, AppendProperties, LenProperties
  <2>3. RunningShape'
    BY <1>6, <2>1 DEF RunningShape
  <2>4. job.kind = "add" =>
          /\ \A i \in 1 .. Len(old) : ~(old[i].kind = "add" /\ old[i].line = job.line)
          /\ running[selected].kind = "add" => running[selected].line # job.line
    BY <1>0, <1>1, <1>9 DEF Inv, QueueShape, RunningShape, JobFits
  <2>5. QueueShape'
    <3> SUFFICES ASSUME NEW t \in Tables, NEW i \in 1 .. Len(queue'[t])
                 PROVE  /\ queue'[t][i].kind = "add" =>
                             /\ home'[queue'[t][i].line] = t /\ queue'[t][i].line \in late'
                             /\ row[queue'[t][i].line].table = Nothing
                             /\ \A j \in 1 .. Len(queue'[t]) :
                                   queue'[t][j].kind = "add" /\ queue'[t][j].line = queue'[t][i].line
                                      => i = j
                             /\ running[t].kind = "add" => running[t].line # queue'[t][i].line
                        /\ queue'[t][i].kind # "add" =>
                             t \in mixed' \/ row[queue'[t][i].line].table = t
      BY <2>1 DEF QueueShape
    <3>1. CASE t # selected
      <4>1. queue'[t] = queue[t]
        BY <1>0, <1>1, <2>1, <3>1
      <4>2. QED
        <5>1. i \in 1 .. Len(queue[t]) /\ running' = running
          BY <2>1, <4>1
        <5>2. QED
          BY <1>7, <3>1, <4>1, <5>1
    <3>2. CASE t = selected /\ i \in 1 .. Len(old)
      <4>1. queue'[t] = Append(old, job) /\ queue'[t][i] = old[i]
        BY <1>0, <1>1, <2>1, <2>2, <3>2
      <4>2. old[i].line \in Lines /\ t # Nothing
        BY <3>2, Queued, TableServiceAssumption
      <4>3. \A j \in 1 .. Len(queue'[t]) : j = Len(old) + 1 \/ j \in 1 .. Len(old)
        BY <2>2, <4>1
      <4>4. QED
        <5>1. /\ old[i].kind = "add" =>
                   /\ home[old[i].line] = t /\ old[i].line \in late
                   /\ row[old[i].line].table = Nothing
                   /\ \A j \in 1 .. Len(old) :
                         old[j].kind = "add" /\ old[j].line = old[i].line => i = j
                   /\ running[t].kind = "add" => running[t].line # old[i].line
              /\ old[i].kind # "add" => t \in mixed \/ row[old[i].line].table = t
          BY <1>0, <3>2 DEF Inv, QueueShape
        <5>2. home'[old[i].line] = home[old[i].line] \/ old[i].kind # "add"
          BY <1>0, <4>2, <5>1
        <5>3. \A j \in 1 .. Len(queue'[t]) :
                 queue'[t][j].kind = "add" /\ queue'[t][j].line = old[i].line
                    /\ old[i].kind = "add" => i = j
          BY <2>2, <2>4, <3>2, <4>1, <4>3, <5>1
        <5> HIDE DEF old
        <5>4. QED
          BY <1>1, <4>1, <5>1, <5>2, <5>3
    <3>3. CASE t = selected /\ i \notin 1 .. Len(old)
      <4>1. queue'[t] = Append(old, job) /\ i = Len(old) + 1 /\ queue'[t][i] = job
        BY <1>0, <1>1, <2>1, <2>2, <3>3
      <4>2. \A j \in 1 .. Len(queue'[t]) : j = i \/ (j \in 1 .. Len(old) /\ queue'[t][j] = old[j])
        BY <2>2, <4>1
      <4>3. QED
        BY <1>0, <1>1, <1>4, <2>1, <2>4, <3>3, <4>1, <4>2
    <3>4. QED
      BY <3>1, <3>2, <3>3
  <2>6. QED
    BY <1>0, <1>1, <1>5, <1>9, <2>1, <2>2, <2>3, <2>5 DEF HasWork, Inv, NothingStranded
<1>10. QED
  BY <1>8, <1>9

\* The request of a table is over: the next one starts, or there is none.
Advances(t) ==
    \/ /\ queue[t] # <<>>
       /\ running' = [running EXCEPT ![t] = Started(t, Head(queue[t]), view')]
       /\ queue' = [queue EXCEPT ![t] = Tail(@)]
    \/ /\ queue[t] = <<>> /\ UNCHANGED queue
       /\ running' = [running EXCEPT ![t] = Nothing]

LEMMA AdvanceJobs ==
  ASSUME Inv, NEW t \in Tables, running[t] # Nothing, Advances(t),
         UNCHANGED <<row, home, late>>, mixed \subseteq mixed',
         view' \in [Tables -> Displayed]
  PROVE  /\ queue' \in [Tables -> Seq(Mutation)]
         /\ running' \in [Tables -> {Nothing} \cup Request]
         /\ StraysLate' /\ RowsPlaced' /\ QueueShape' /\ RunningShape'
         /\ \A u \in Tables : queue'[u] # <<>> => running'[u] # Nothing
         /\ \A u \in Tables \ {t} : queue'[u] = queue[u] /\ running'[u] = running[u]
         /\ queue[t] # <<>> => running'[t] # Nothing
<1> DEFINE old == queue[t]
           job == Head(old)
           new == Started(t, job, view')
<1>1. /\ selected \in Tables /\ old \in Seq(Mutation)
      /\ queue \in [Tables -> Seq(Mutation)] /\ running \in [Tables -> {Nothing} \cup Request]
  BY DEF Inv, TypeOK
<1>2. RowsPlaced' /\ StraysLate'
  BY DEF Inv, RowsPlaced, StraysLate
<1>3. ASSUME NEW u \in Tables, running[u] # Nothing
      PROVE  JobFits(mixed', row', home', late', u, running[u])
  <2>1. running[u] \in Request /\ JobFits(mixed, row, home, late, u, running[u])
    BY <1>3, <1>1 DEF Inv, RunningShape
  <2>2. Grown
    BY DEF Grown
  <2>3. running[u].snap # Nothing => Shows(mixed', row', u, running[u].snap)
    BY <2>1, <2>2, ShowsGrows DEF Request, JobFits
  <2>4. QED
    BY <2>1, <2>3 DEF JobFits
<1>4. ASSUME NEW u \in Tables, NEW i \in 1 .. Len(queue[u])
      PROVE  /\ queue[u][i].kind = "add" =>
                  /\ home'[queue[u][i].line] = u /\ queue[u][i].line \in late'
                  /\ row'[queue[u][i].line].table = Nothing
                  /\ \A j \in 1 .. Len(queue[u]) :
                        queue[u][j].kind = "add" /\ queue[u][j].line = queue[u][i].line
                           => i = j
                  /\ running[u].kind = "add" => running[u].line # queue[u][i].line
             /\ queue[u][i].kind # "add" =>
                  u \in mixed' \/ row'[queue[u][i].line].table = u
  BY DEF Inv, QueueShape
<1>5. CASE old = <<>>
  <2>1. running' = [running EXCEPT ![t] = Nothing] /\ queue' = queue
    BY <1>5 DEF Advances
  <2>2. RunningShape'
    BY <1>1, <1>3, <2>1 DEF RunningShape
  <2>3. ASSUME NEW u \in Tables, NEW i \in 1 .. Len(queue[u]) PROVE u # t
    BY <1>5, Queued
  <2>4. QueueShape'
    BY <1>1, <1>4, <2>1, <2>3 DEF QueueShape
  <2>5. QED
    BY <1>1, <1>2, <1>5, <2>1, <2>2, <2>4 DEF Inv, NothingStranded
<1>6. CASE old # <<>>
  <2>1. /\ running' = [running EXCEPT ![t] = new]
        /\ queue' = [queue EXCEPT ![t] = Tail(old)]
    BY <1>6 DEF Advances
  <2>2. /\ job \in Mutation /\ Tail(old) \in Seq(Mutation)
        /\ Len(Tail(old)) = Len(old) - 1 /\ Len(old) \in Nat \ {0}
        /\ \A i \in 1 .. Len(Tail(old)) : Tail(old)[i] = old[i + 1]
        /\ job = old[1]
    BY <1>1, <1>6, HeadTailProperties, LenProperties, EmptySeq
  <2>3. /\ new \in Request /\ new # Nothing /\ new.st = "asked" /\ new.snap = Nothing
        /\ new.kind = job.kind /\ new.line = job.line
        /\ job.kind = "add" => new.to \in Tables \X Nat
    BY <1>1, <2>2, StartedType
  <2>4. /\ job.kind = "add" =>
              /\ home'[job.line] = t /\ job.line \in late'
              /\ row'[job.line].table = Nothing
              /\ \A j \in 1 .. Len(old) :
                    old[j].kind = "add" /\ old[j].line = job.line => j = 1
        /\ job.kind # "add" => t \in mixed' \/ row'[job.line].table = t
    <3>1. 1 \in 1 .. Len(old)
      BY <2>2
    <3>2. QED
      BY <1>4, <2>2, <3>1
  <2>5. JobFits(mixed', row', home', late', t, new)
    BY <2>3, <2>4 DEF JobFits
  <2>6. RunningShape'
    BY <1>1, <1>3, <2>1, <2>5 DEF RunningShape
  <2>7. QueueShape'
    <3> SUFFICES ASSUME NEW u \in Tables, NEW i \in 1 .. Len(queue'[u])
                 PROVE  /\ queue'[u][i].kind = "add" =>
                             /\ home'[queue'[u][i].line] = u /\ queue'[u][i].line \in late'
                             /\ row'[queue'[u][i].line].table = Nothing
                             /\ \A j \in 1 .. Len(queue'[u]) :
                                   queue'[u][j].kind = "add" /\ queue'[u][j].line = queue'[u][i].line
                                      => i = j
                             /\ running'[u].kind = "add" => running'[u].line # queue'[u][i].line
                        /\ queue'[u][i].kind # "add" =>
                             u \in mixed' \/ row'[queue'[u][i].line].table = u
      BY DEF QueueShape
    <3>1. CASE u # t
      <4>1. queue'[u] = queue[u] /\ running'[u] = running[u]
        BY <1>1, <2>1, <3>1
      <4>2. i \in 1 .. Len(queue[u])
        BY <4>1
      <4>3. QED
        BY <1>4, <4>1, <4>2
    <3>2. CASE u = t
      <4>1. queue'[t] = Tail(old) /\ running'[t] = new
        BY <1>1, <2>1
      <4>2. i \in Nat /\ i + 1 \in 1 .. Len(old) /\ i + 1 # 1 /\ Tail(old)[i] = old[i + 1]
        BY <2>2, <3>2, <4>1
      <4>3. \A j \in 1 .. Len(Tail(old)) :
               j + 1 \in 1 .. Len(old) /\ Tail(old)[j] = old[j + 1] /\ (i + 1 = j + 1 => i = j)
        BY <2>2, <4>2
      <4>4. /\ old[i + 1].kind = "add" =>
                  /\ home'[old[i + 1].line] = t /\ old[i + 1].line \in late'
                  /\ row'[old[i + 1].line].table = Nothing
                  /\ \A j \in 1 .. Len(old) :
                        old[j].kind = "add" /\ old[j].line = old[i + 1].line => i + 1 = j
            /\ old[i + 1].kind # "add" => t \in mixed' \/ row'[old[i + 1].line].table = t
        BY <1>4, <4>2
      <4>5. new.kind = "add" /\ old[i + 1].kind = "add" => new.line # old[i + 1].line
        BY <2>3, <2>4, <4>2
      <4> HIDE DEF old, job, new
      <4>6. QED
        BY <3>2, <4>1, <4>2, <4>3, <4>4, <4>5
    <3>3. QED
      BY <3>1, <3>2
  <2>8. QED
    BY <1>1, <1>2, <1>6, <2>1, <2>2, <2>3, <2>6, <2>7 DEF Inv, NothingStranded
<1>7. QED
  BY <1>5, <1>6

-----------------------------------------------------------------------------
(* Taps                                                                    *)

LEMMA LinesType ==
  ASSUME NEW v \in Displayed, NEW f \in Shown
  PROVE  /\ [v EXCEPT !.lines = f] \in Displayed
         /\ [v EXCEPT !.lines = f].id = v.id /\ [v EXCEPT !.lines = f].lines = f
<1>1. v = [id |-> v.id, lines |-> v.lines] /\ v.id \in OrderId
  BY DisplayedFields
<1>2. [v EXCEPT !.lines = f] = [id |-> v.id, lines |-> f]
  BY <1>1
<1>3. QED
  BY <1>1, <1>2, DisplayedDef

\* A tap that queues a request: the parts it does not touch, and the answers
\* it makes old.
LEMMA EnqueueInv ==
  ASSUME Inv, NEW job \in Mutation, Enqueue(job),
         UNCHANGED <<backend, selected, dirty, flow, mixed>>,
         view' \in [Tables -> Displayed], ViewShape',
         home' \in [Lines -> Tables \cup {Nothing}],
         \A l \in Lines : home[l] # Nothing => home'[l] = home[l],
         job.kind = "add" => /\ home[job.line] = Nothing
                             /\ home'[job.line] = selected,
         job.kind # "add" => selected \in mixed \/ row[job.line].table = selected
  PROVE  Inv'
<1>1. selected \in Tables /\ Own(mixed, selected, view'[selected].id)
  BY DEF Inv, TypeOK, ViewShape, Shows
<1>2. /\ queue' \in [Tables -> Seq(Mutation)]
      /\ running' \in [Tables -> {Nothing} \cup Request]
      /\ late' \subseteq Lines
      /\ StraysLate' /\ RowsPlaced' /\ QueueShape' /\ RunningShape'
      /\ \A t \in Tables : queue'[t] # <<>> => running'[t] # Nothing
      /\ \A t \in Tables : HasWork(t) => running'[t] # Nothing \/ queue'[t] # <<>>
  BY <1>1, EnqueueJobs DEF backend
<1>3. read' = Outdated(selected)
  BY DEF Enqueue
<1>4. TypeOK'
  BY <1>1, <1>2, <1>3, OutdatedReads DEF Inv, TypeOK, backend, Reads
<1>5. NothingStranded'
  <2>1. KeepsReads
    BY <1>1, <1>3, OutdatedReads DEF KeepsReads
  <2>2. QED
    BY <1>2, <2>1, WaitFrame
<1>6. Grown
  BY DEF Grown, backend
<1>7. ReadShape'
  BY <1>1, <1>3, <1>6, OutdatedReads, ReadFrame
<1>8. FlowShape'
  BY FlowFrame
<1>9. QED
  BY <1>2, <1>4, <1>5, <1>7, <1>8 DEF Inv

\* The table selected shows other lines of its order.
LEMMA LinesShape ==
  ASSUME Inv, UNCHANGED <<row, mixed>>, NEW f \in Shown,
         view' = [view EXCEPT ![selected].lines = f],
         \A l \in DOMAIN f : f[l] \in {"pending", "sent"} =>
            l \in DOMAIN view[selected].lines /\ view[selected].lines[l] = f[l]
  PROVE  view' \in [Tables -> Displayed] /\ ViewShape'
<1>1. view \in [Tables -> Displayed] /\ selected \in Tables
  BY DEF Inv, TypeOK
<1> DEFINE v == [view[selected] EXCEPT !.lines = f]
<1>2. v \in Displayed /\ v.id = view[selected].id /\ v.lines = f
  BY <1>1, LinesType
<1>3. view' = [view EXCEPT ![selected] = v]
  BY <1>1
<1>4. Shows(mixed, row, selected, v)
  BY <1>1, <1>2 DEF Inv, ViewShape, Shows
<1> HIDE DEF v
<1>5. QED
  BY <1>1, <1>2, <1>3, <1>4 DEF Inv, ViewShape

LEMMA AddInv ==
  ASSUME Inv, NEW l \in Lines, Add(l)
  PROVE  Inv'
<1> DEFINE f == Tapped(view[selected].lines, l)
<1>1. view[selected].lines \in Shown /\ selected \in Tables
  BY DisplayedFields DEF Inv, TypeOK
<1>2. f \in Shown /\ view' = [view EXCEPT ![selected].lines = f]
  BY <1>1, TappedType DEF Add
<1>3. \A x \in DOMAIN f : f[x] \in {"pending", "sent"} =>
         x \in DOMAIN view[selected].lines /\ view[selected].lines[x] = f[x]
  BY DEF Tapped
<1>4. UNCHANGED <<row, mixed>>
  BY DEF Add, backend
<1> HIDE DEF f
<1>5. view' \in [Tables -> Displayed] /\ ViewShape'
  BY <1>2, <1>3, <1>4, LinesShape
<1>6. [kind |-> "add", line |-> l] \in Mutation
  BY DEF Mutation
<1>7. /\ home[l] = Nothing /\ home' = [home EXCEPT ![l] = selected]
      /\ home \in [Lines -> Tables \cup {Nothing}]
  BY DEF Add, Inv, TypeOK
<1>8. QED
  BY <1>1, <1>5, <1>6, <1>7, EnqueueInv DEF Add

LEMMA UpdateInv ==
  ASSUME Inv, NEW l \in Lines, Update(l)
  PROVE  Inv'
<1>1. [kind |-> "update", line |-> l] \in Mutation
  BY DEF Mutation
<1>2. view' \in [Tables -> Displayed] /\ selected \in Tables
  BY DEF Update, Inv, TypeOK
<1>3. Grown
  BY DEF Update, backend, Grown
<1>4. ViewShape'
  BY <1>3, ViewFrame DEF Update
<1>5. selected \in mixed \/ row[l].table = selected
  BY <1>2 DEF Update, Inv, ViewShape, Shows
<1>6. home' = home /\ home \in [Lines -> Tables \cup {Nothing}]
  BY DEF Update, Inv, TypeOK
<1>7. QED
  BY <1>1, <1>2, <1>4, <1>5, <1>6, EnqueueInv DEF Update

LEMMA RemoveInv ==
  ASSUME Inv, NEW l \in Lines, Remove(l)
  PROVE  Inv'
<1> DEFINE f == Restrict(view[selected].lines, DOMAIN view[selected].lines \ {l})
<1>1. view[selected].lines \in Shown /\ selected \in Tables /\ view[selected] \in Displayed
  BY DisplayedFields DEF Inv, TypeOK
<1>2. f \in Shown /\ view' = [view EXCEPT ![selected].lines = f]
  BY <1>1, RestrictType DEF Remove
<1>3. \A x \in DOMAIN f : x \in DOMAIN view[selected].lines /\ view[selected].lines[x] = f[x]
  BY DEF Restrict
<1>4. UNCHANGED <<row, mixed>> /\ Grown
  BY DEF Remove, backend, Grown
<1> HIDE DEF f
<1>5. view' \in [Tables -> Displayed] /\ ViewShape'
  BY <1>2, <1>3, <1>4, LinesShape
<1>6. CASE view[selected].lines[l] = "local"
  <2>1. UNCHANGED <<backend, selected, dirty, flow, home, mixed, queue, running, late>>
    BY <1>6 DEF Remove
  <2>2. read' = Outdated(selected)
    BY <1>6 DEF Remove
  <2>3. TypeOK'
    BY <1>1, <1>5, <2>1, <2>2, OutdatedReads DEF Inv, TypeOK, backend, Reads
  <2>4. NothingStranded'
    <3>1. KeepsReads
      BY <1>1, <2>2, OutdatedReads DEF KeepsReads
    <3>2. QED
      BY <2>1, <3>1, WaitFrame DEF Inv, NothingStranded, HasWork
  <2>5. ReadShape'
    BY <1>1, <1>4, <2>2, OutdatedReads, ReadFrame
  <2>6. FlowShape'
    BY <1>4, <2>1, FlowFrame
  <2>7. StraysLate' /\ RowsPlaced' /\ QueueShape' /\ RunningShape'
    BY <1>4, <2>1, JobsFrame DEF Inv, TypeOK
  <2>8. QED
    BY <1>5, <2>3, <2>4, <2>5, <2>6, <2>7 DEF Inv
<1>7. CASE view[selected].lines[l] # "local"
  <2>1. PICK kind \in {"delete", "cancel"} : Enqueue([kind |-> kind, line |-> l])
    BY <1>7 DEF Remove
  <2>2. [kind |-> kind, line |-> l] \in Mutation /\ kind # "add"
    BY DEF Mutation
  <2>3. selected \in mixed \/ row[l].table = selected
    <3>1. l \in DOMAIN view[selected].lines /\ view[selected].lines[l] # "paid"
      BY DEF Remove
    <3>2. view[selected].lines[l] \in {"pending", "sent"}
      BY <1>1, <1>7, <3>1, ShownDef DEF Marks
    <3>3. QED
      BY <1>1, <3>1, <3>2 DEF Inv, ViewShape, Shows
  <2>4. home' = home /\ home \in [Lines -> Tables \cup {Nothing}]
    BY DEF Remove, Inv, TypeOK
  <2>5. QED
    BY <1>5, <2>1, <2>2, <2>3, <2>4, EnqueueInv DEF Remove
<1>8. QED
  BY <1>6, <1>7

-----------------------------------------------------------------------------
(* The requests of the queue                                               *)

\* The request of table t changes, and is still the same request.
LEMMA RequestFrame ==
  ASSUME Inv, NEW t \in Tables, NEW job \in Request, running[t] # Nothing,
         running' = [running EXCEPT ![t] = job],
         job.kind = running[t].kind, job.line = running[t].line,
         UNCHANGED <<queue, read, flow>>
  PROVE  /\ running' \in [Tables -> {Nothing} \cup Request]
         /\ NothingStranded'
         /\ running'[t] = job /\ \A u \in Tables \ {t} : running'[u] = running[u]
         /\ \A u \in Tables : queue[u] # <<>> => /\ running'[u].kind = running[u].kind
                                                 /\ running'[u].line = running[u].line
<1>1. running \in [Tables -> {Nothing} \cup Request] /\ job # Nothing
  BY TableServiceAssumption DEF Inv, TypeOK
<1>2. /\ running' \in [Tables -> {Nothing} \cup Request]
      /\ running'[t] = job /\ \A u \in Tables \ {t} : running'[u] = running[u]
  BY <1>1
<1>3. \A u \in Tables : /\ queue'[u] # <<>> => running'[u] # Nothing
                        /\ HasWork(u) => running'[u] # Nothing \/ queue'[u] # <<>>
  BY <1>1, <1>2 DEF Inv, NothingStranded, HasWork
<1>4. NothingStranded'
  BY <1>3, WaitFrame DEF KeepsReads
<1>5. QED
  BY <1>1, <1>2, <1>4

LEMMA QueueFrame ==
  ASSUME Inv, UNCHANGED <<queue, home, late, mixed>>,
         \A l \in Lines : \/ row'[l].table = row[l].table
                          \/ /\ row[l].table = Nothing
                             /\ \E t \in Tables : running[t].kind = "add" /\ running[t].line = l
                                                  /\ home[l] = t,
         \A u \in Tables : queue[u] # <<>> => /\ running'[u].kind = running[u].kind
                                              /\ running'[u].line = running[u].line
  PROVE  QueueShape'
<1> SUFFICES ASSUME NEW t \in Tables, NEW i \in 1 .. Len(queue[t])
             PROVE  /\ queue[t][i].kind = "add" =>
                         /\ home[queue[t][i].line] = t /\ queue[t][i].line \in late
                         /\ row'[queue[t][i].line].table = Nothing
                         /\ \A j \in 1 .. Len(queue[t]) :
                               queue[t][j].kind = "add" /\ queue[t][j].line = queue[t][i].line
                                  => i = j
                         /\ running'[t].kind = "add" => running'[t].line # queue[t][i].line
                    /\ queue[t][i].kind # "add" =>
                         t \in mixed \/ row'[queue[t][i].line].table = t
  BY DEF QueueShape
<1> DEFINE job == queue[t][i]
<1>1. job.line \in Lines /\ queue[t] # <<>> /\ t # Nothing
  BY Queued, TableServiceAssumption
<1>2. /\ job.kind = "add" =>
            /\ home[job.line] = t /\ job.line \in late
            /\ row[job.line].table = Nothing
            /\ \A j \in 1 .. Len(queue[t]) :
                  queue[t][j].kind = "add" /\ queue[t][j].line = job.line => i = j
            /\ running[t].kind = "add" => running[t].line # job.line
      /\ job.kind # "add" => t \in mixed \/ row[job.line].table = t
  BY DEF Inv, QueueShape
<1>3. job.kind = "add" => row'[job.line].table = Nothing
  BY <1>1, <1>2
<1>4. job.kind # "add" => t \in mixed \/ row'[job.line].table = t
  BY <1>1, <1>2
<1> HIDE DEF job
<1>5. QED
  BY <1>1, <1>2, <1>3, <1>4 DEF job

LEMMA LoseInv ==
  ASSUME Inv, NEW t \in Tables, Lose(t)
  PROVE  Inv'
<1> DEFINE job == Replied(running[t], Nothing)
<1>1. running[t] \in Request /\ JobFits(mixed, row, home, late, t, running[t])
  BY DEF Lose, Inv, TypeOK, RunningShape
<1>2. /\ job \in Request /\ job.kind = running[t].kind /\ job.line = running[t].line
      /\ job.st = "answered" /\ job.snap = Nothing
  BY <1>1 DEF Request, Replied, OrderId
<1>3. /\ running' = [running EXCEPT ![t] = job] /\ running[t] # Nothing
      /\ UNCHANGED <<row, order, selected, view, queue, dirty, read, flow, home, late, mixed>>
      /\ Grown
  BY DEF Lose, Inv, TypeOK, backend, history, Grown
<1> HIDE DEF job
<1>4. /\ running' \in [Tables -> {Nothing} \cup Request] /\ NothingStranded'
      /\ running'[t] = job /\ \A u \in Tables \ {t} : running'[u] = running[u]
      /\ \A u \in Tables : queue[u] # <<>> => /\ running'[u].kind = running[u].kind
                                              /\ running'[u].line = running[u].line
  BY <1>2, <1>3, RequestFrame
<1>5. TypeOK'
  BY <1>3, <1>4 DEF Inv, TypeOK
<1>6. QueueShape'
  BY <1>3, <1>4, QueueFrame
<1>7. JobFits(mixed, row, home, late, t, job)
  BY <1>1, <1>2 DEF JobFits
<1>8. RunningShape'
  BY <1>3, <1>4, <1>7 DEF RunningShape, Inv
<1>9. RowsPlaced' /\ StraysLate'
  BY <1>3 DEF Inv, RowsPlaced, StraysLate
<1>10. ReadShape' /\ ViewShape' /\ FlowShape'
  BY <1>3, ReadFrame, ViewFrame, FlowFrame
<1>11. QED
  BY <1>4, <1>5, <1>6, <1>8, <1>9, <1>10 DEF Inv

\* A line is added once: to the order of the table it was tapped at, unless its
\* request had to wait or the table displayed a foreign order.
LEMMA ServeAddInv ==
  ASSUME Inv, NEW t \in Tables, ServeAdd(t)
  PROVE  Inv'
<1> DEFINE old == running[t]
           l == old.line
           u == old.to[1]
           ok == IF old.to[2] = 0 THEN order[u].open => order[u].got = 0 ELSE Editable(old.to)
           job == Replied(old, Nothing)
<1>1. /\ old # Nothing /\ old.kind = "add" /\ old.st = "asked"
      /\ old \in Request /\ JobFits(mixed, row, home, late, t, old)
  BY DEF ServeAdd, Inv, TypeOK, RunningShape
<1>2. /\ l \in Lines /\ u \in Tables /\ u # Nothing
      /\ home[l] = t /\ row[l].table = Nothing /\ (l \in late \/ t \in mixed \/ u = t)
  BY <1>1, TableServiceAssumption DEF JobFits, Request
<1>3. /\ UNCHANGED <<selected, view, queue, dirty, read, flow, home, late, mixed>>
      /\ row' = IF ok THEN [row EXCEPT ![l] = [st |-> "pending", table |-> u]] ELSE row
      /\ running' = [running EXCEPT ![t] = job]
      /\ order' = IF old.to[2] = 0 /\ ~order[u].open
                  THEN [order EXCEPT ![u] = [n |-> order[u].n + 1, open |-> TRUE, got |-> 0]]
                  ELSE order
  BY <1>2 DEF ServeAdd, history, Inv, TypeOK
<1>4. /\ job \in Request /\ job.kind = "add" /\ job.line = l /\ job.st # "asked"
      /\ job.snap = Nothing
  BY <1>1 DEF Request, Replied, OrderId
<1> HIDE DEF ok
<1>5. /\ row \in [Lines -> Row]
      /\ row' \in [Lines -> Row]
      /\ \A x \in Lines : row'[x] = row[x] \/ (x = l /\ row'[x].table = u /\ row'[x].st = "pending")
  BY <1>2, <1>3 DEF Inv, TypeOK, Row
<1>6. order' \in [Tables -> [n : Nat, open : BOOLEAN, got : Nat]]
  <2>1. order \in [Tables -> [n : Nat, open : BOOLEAN, got : Nat]]
    BY DEF Inv, TypeOK
  <2>2. [n |-> order[u].n + 1, open |-> TRUE, got |-> 0] \in [n : Nat, open : BOOLEAN, got : Nat]
    BY <1>2, <2>1
  <2>3. QED
    BY <1>2, <1>3, <2>1, <2>2
<1> HIDE DEF job
<1>7. /\ running' \in [Tables -> {Nothing} \cup Request] /\ NothingStranded'
      /\ running'[t] = job /\ \A x \in Tables \ {t} : running'[x] = running[x]
      /\ \A x \in Tables : queue[x] # <<>> => /\ running'[x].kind = running[x].kind
                                              /\ running'[x].line = running[x].line
  BY <1>1, <1>3, <1>4, RequestFrame
<1> HIDE DEF u, l
<1>8. Grown
  BY <1>2, <1>3, <1>5 DEF Grown
<1>9. TypeOK'
  BY <1>3, <1>5, <1>6, <1>7 DEF Inv, TypeOK
<1>10. RowsPlaced' /\ StraysLate'
  <2>1. t # Nothing
    BY TableServiceAssumption
  <2>2. QED
    BY <1>2, <1>3, <1>5, <2>1 DEF Inv, RowsPlaced, StraysLate
<1>11. QueueShape'
  BY <1>1, <1>2, <1>3, <1>5, <1>7, QueueFrame DEF l
<1>12. RunningShape'
  <2> SUFFICES ASSUME NEW x \in Tables, running'[x] # Nothing
               PROVE  JobFits(mixed, row', home, late, x, running'[x])
    BY <1>3 DEF RunningShape
  <2>1. CASE x = t
    BY <1>1, <1>4, <1>7, <2>1 DEF JobFits, l
  <2>2. CASE x # t
    <3>1. running'[x] = running[x] /\ running[x] \in Request /\ x # Nothing
      BY <1>7, <2>2, TableServiceAssumption DEF Inv, TypeOK
    <3>2. JobFits(mixed, row, home, late, x, running[x]) /\ running[x].line \in Lines
      BY <3>1 DEF Inv, RunningShape, Request
    <3>3. running[x].snap # Nothing => Shows(mixed, row', x, running[x].snap)
      BY <1>3, <1>8, <3>1, <3>2, ShowsGrows DEF Request, JobFits
    <3>4. running[x].kind = "add" => running[x].line # l
      BY <1>2, <2>2, <3>2 DEF JobFits
    <3>5. QED
      BY <1>2, <1>5, <3>1, <3>2, <3>3, <3>4 DEF JobFits
  <2>3. QED
    BY <2>1, <2>2
<1>13. ReadShape' /\ ViewShape' /\ FlowShape'
  BY <1>3, <1>8, ReadFrame, ViewFrame, FlowFrame
<1>14. QED
  BY <1>7, <1>9, <1>10, <1>11, <1>12, <1>13 DEF Inv

LEMMA ServeEditInv ==
  ASSUME Inv, NEW t \in Tables, ServeEdit(t)
  PROVE  Inv'
<1> DEFINE old == running[t]
           l == old.line
           u == row[l].table
<1>0. PICK ok \in BOOLEAN :
         /\ ok => l \in Active(u) /\ order[u].got = 0
         /\ row' = IF ok /\ old.kind # "update" THEN [row EXCEPT ![l].st = "gone"] ELSE row
         /\ LET o == [Snap(u) EXCEPT !.lines = Restrict(@, DOMAIN @ \ {l})] IN
            running' = [running EXCEPT ![t] =
                          Replied(@, IF ok /\ old.kind = "cancel" THEN o ELSE Nothing)]
  BY DEF ServeEdit
<1> DEFINE snap == IF ok /\ old.kind = "cancel"
                   THEN [Snap(u) EXCEPT !.lines = Restrict(@, DOMAIN @ \ {l})] ELSE Nothing
           job == Replied(old, snap)
<1>1. /\ old # Nothing /\ old.kind # "add"
      /\ old \in Request /\ JobFits(mixed, row, home, late, t, old)
  BY DEF ServeEdit, Inv, TypeOK, RunningShape
<1>2. l \in Lines /\ (t \in mixed \/ u = t)
  BY <1>1 DEF JobFits, Request
<1>3. /\ UNCHANGED <<order, selected, view, queue, dirty, read, flow, home, late, mixed>>
      /\ row' = IF ok /\ old.kind # "update" THEN [row EXCEPT ![l].st = "gone"] ELSE row
      /\ running' = [running EXCEPT ![t] = job]
  BY <1>0 DEF ServeEdit, history, Inv, TypeOK
<1>4. ok => u \in Tables
  BY <1>0, <1>2 DEF Active, Inv, TypeOK, RowsPlaced, Row
<1>5. snap # Nothing => snap \in Displayed /\ Shows(mixed, row, t, snap)
  <2> SUFFICES ASSUME snap # Nothing PROVE snap \in Displayed /\ Shows(mixed, row, t, snap)
    OBVIOUS
  <2>1. snap \in Displayed /\ Shows(mixed, row, u, snap)
    BY <1>4, SnapType DEF Inv
  <2> HIDE DEF snap
  <2>2. QED
    BY <1>2, <2>1 DEF Shows, Own
<1>6. ok => row[l].st # "free"
  BY <1>0 DEF Active
<1> HIDE DEF snap
<1>7. /\ job \in Request /\ job.kind = old.kind /\ job.line = l /\ job.snap = snap
  BY <1>1, <1>5 DEF Request, Replied, OrderId
<1>8. /\ row' \in [Lines -> Row]
      /\ \A x \in Lines : /\ row'[x].table = row[x].table
                          /\ row'[x].st = "free" <=> row[x].st = "free"
  <2>1. row \in [Lines -> Row]
    BY DEF Inv, TypeOK
  <2>2. [row[l] EXCEPT !.st = "gone"] = [st |-> "gone", table |-> row[l].table]
    BY <1>2, <2>1 DEF Row
  <2>3. row' = row \/ (ok /\ row' = [row EXCEPT ![l] = [st |-> "gone", table |-> row[l].table]])
    BY <1>3, <2>2
  <2>4. QED
    BY <1>2, <1>6, <2>1, <2>3 DEF Row
<1> HIDE DEF job
<1>9. /\ running' \in [Tables -> {Nothing} \cup Request] /\ NothingStranded'
      /\ running'[t] = job /\ \A x \in Tables \ {t} : running'[x] = running[x]
      /\ \A x \in Tables : queue[x] # <<>> => /\ running'[x].kind = running[x].kind
                                              /\ running'[x].line = running[x].line
  BY <1>1, <1>3, <1>7, RequestFrame
<1>10. Grown
  BY <1>3, <1>8 DEF Grown
<1>11. TypeOK'
  BY <1>3, <1>8, <1>9 DEF Inv, TypeOK
<1>12. RowsPlaced' /\ StraysLate'
  BY <1>3, <1>8 DEF Inv, RowsPlaced, StraysLate
<1>13. QueueShape'
  BY <1>3, <1>8, <1>9, QueueFrame
<1>14. RunningShape'
  <2> SUFFICES ASSUME NEW x \in Tables, running'[x] # Nothing
               PROVE  JobFits(mixed, row', home, late, x, running'[x])
    BY <1>3 DEF RunningShape
  <2>1. CASE x = t
    <3>1. snap # Nothing => Shows(mixed, row', t, snap)
      BY <1>3, <1>5, <1>10, ShowsGrows
    <3>2. QED
      BY <1>1, <1>2, <1>7, <1>8, <1>9, <2>1, <3>1 DEF JobFits
  <2>2. CASE x # t
    <3>1. running'[x] = running[x] /\ running[x] \in Request
      BY <1>9, <2>2 DEF Inv, TypeOK
    <3>2. JobFits(mixed, row, home, late, x, running[x]) /\ running[x].line \in Lines
      BY <3>1 DEF Inv, RunningShape, Request
    <3>3. running[x].snap # Nothing => Shows(mixed, row', x, running[x].snap)
      BY <1>3, <1>10, <3>1, <3>2, ShowsGrows DEF Request, JobFits
    <3>4. QED
      BY <1>8, <3>1, <3>2, <3>3 DEF JobFits
  <2>3. QED
    BY <2>1, <2>2
<1>15. ReadShape' /\ ViewShape' /\ FlowShape'
  BY <1>3, <1>10, ReadFrame, ViewFrame, FlowFrame
<1>16. QED
  BY <1>9, <1>11, <1>12, <1>13, <1>14, <1>15 DEF Inv

-----------------------------------------------------------------------------
(* The end of a queue                                                      *)

LEMMA FlushedType ==
  ASSUME Inv, NEW k \in Kinds, NEW half \in {"direct", "lines"}, half \in flow[k].waits,
         NEW v \in [Tables -> Displayed], NEW m, mixed \subseteq m
  PROVE  LET f == Flushed(flow[k], half, v) IN
         /\ f \in FlowState /\ FlowFits(m, f) /\ Waiting(f)
         /\ f.waits = flow[k].waits \ {half} /\ f.table = flow[k].table
<1> DEFINE f == Flushed(flow[k], half, v)
<1>1. /\ flow[k] \in FlowState /\ selected \in Tables /\ FlowFits(mixed, flow[k])
      /\ Waiting(flow[k]) /\ flow[k].pc = "flushing" /\ flow[k].table \in Tables
  <2>1. flow[k] \in FlowState /\ selected \in Tables /\ FlowFits(mixed, flow[k])
    BY DEF Inv, TypeOK, FlowState, FlowShape
  <2>2. Waiting(flow[k])
    BY WaitTable
  <2>3. flow[k].pc = "flushing"
    BY <2>2 DEF Waiting
  <2>4. QED
    BY <2>1, <2>2, <2>3 DEF FlowFits
<1>2. Sendable(v[selected]) \subseteq Lines
  BY <1>1, DisplayedFields DEF Sendable
<1>3. CASE flow[k].waits = {half}
  <2>1. f = [flow[k] EXCEPT !.waits = {}, !.pc = "sending", !.lines = Sendable(v[selected])]
    BY <1>3 DEF Flushed
  <2>2. f \in FlowState /\ f.pc = "sending" /\ f.waits = {} /\ f.table = flow[k].table
    BY <1>1, <1>2, <2>1 DEF FlowState
  <2>3. QED
    BY <1>1, <1>3, <2>2 DEF FlowFits, Waiting
<1>4. CASE flow[k].waits # {half}
  <2>1. f = [flow[k] EXCEPT !.waits = flow[k].waits \ {half}]
    BY <1>4 DEF Flushed
  <2>2. /\ f \in FlowState /\ f.pc = "flushing" /\ f.table = flow[k].table
        /\ f.waits = flow[k].waits \ {half} /\ f.waits # {}
    BY <1>1, <1>4, <2>1 DEF FlowState
  <2>3. QED
    BY <1>1, <2>2 DEF FlowFits, Waiting
<1>5. QED
  BY <1>3, <1>4

LEMMA NotifyFlow ==
  ASSUME Inv, NEW t \in Tables, NotifyIdle(t), mixed \subseteq mixed',
         view' \in [Tables -> Displayed]
  PROVE  /\ flow' \in [Kinds -> FlowState] /\ FlowShape'
         /\ \A k \in Kinds :
               /\ Waiting(flow'[k])
               /\ "lines" \in flow'[k].waits =>
                     /\ "lines" \in flow[k].waits /\ flow'[k].table = flow[k].table
                     /\ flow[k].table = t => running'[t] # Nothing \/ queue'[t] # <<>>
<1>1. flow \in [Kinds -> FlowState] /\ DOMAIN flow = Kinds
  BY DEF Inv, TypeOK, FlowState
<1>2. ASSUME NEW k \in Kinds
      PROVE  \/ flow'[k] = flow[k]
                /\ ("lines" \in flow[k].waits /\ flow[k].table = t =>
                      running'[t] # Nothing \/ queue'[t] # <<>>)
             \/ /\ "lines" \in flow[k].waits
                /\ flow'[k] = Flushed(flow[k], "lines", view')
  BY <1>1 DEF NotifyIdle
<1>3. ASSUME NEW k \in Kinds
      PROVE  /\ flow'[k] \in FlowState /\ FlowFits(mixed', flow'[k]) /\ Waiting(flow'[k])
             /\ "lines" \in flow'[k].waits =>
                   /\ flow'[k] = flow[k]
                   /\ flow[k].table = t => running'[t] # Nothing \/ queue'[t] # <<>>
  <2>1. flow[k] \in FlowState /\ FlowFits(mixed, flow[k]) /\ Waiting(flow[k])
    BY <1>1, WaitTable DEF Inv, FlowShape
  <2>2. CASE /\ flow'[k] = flow[k]
             /\ "lines" \in flow[k].waits /\ flow[k].table = t =>
                   running'[t] # Nothing \/ queue'[t] # <<>>
    BY <2>1, <2>2 DEF FlowFits, Own
  <2>3. CASE "lines" \in flow[k].waits /\ flow'[k] = Flushed(flow[k], "lines", view')
    BY <2>3, FlushedType
  <2>4. QED
    BY <1>2, <2>2, <2>3
<1>4. flow' \in [Kinds -> FlowState]
  <2>1. flow' = [k \in Kinds |-> flow'[k]]
    BY <1>1 DEF NotifyIdle
  <2>2. QED
    BY <1>3, <2>1
<1>5. QED
  BY <1>3, <1>4 DEF FlowShape

\* Those who waited for table t are told unless it has work again.
LEMMA NotifyWait ==
  ASSUME Inv, NEW t \in Tables, NotifyIdle(t), mixed \subseteq mixed',
         view' \in [Tables -> Displayed],
         \A u \in Tables : queue'[u] # <<>> => running'[u] # Nothing,
         \A u \in Tables \ {t} : queue'[u] = queue[u] /\ running'[u] = running[u],
         \A r \in Reads : r[2] # t /\ read[r] # Nothing => read'[r] # Nothing
  PROVE  NothingStranded'
<1>1. ASSUME NEW k \in Kinds, "lines" \in flow'[k].waits
      PROVE  \/ running'[flow'[k].table] # Nothing
             \/ queue'[flow'[k].table] # <<>>
             \/ \E i \in 1 .. MaxReads : read'[<<"drain", flow'[k].table, i>>] # Nothing
  <2>1. /\ "lines" \in flow[k].waits /\ flow'[k].table = flow[k].table
        /\ flow[k].table = t => running'[t] # Nothing \/ queue'[t] # <<>>
    BY <1>1, NotifyFlow
  <2>2. flow[k].table \in Tables
    BY <2>1, WaitTable DEF Waiting
  <2>3. \/ HasWork(flow[k].table)
        \/ \E i \in 1 .. MaxReads : read[<<"drain", flow[k].table, i>>] # Nothing
    BY <2>1 DEF Inv, NothingStranded
  <2>4. \A i \in 1 .. MaxReads : /\ <<"drain", flow[k].table, i>> \in Reads
                                /\ <<"drain", flow[k].table, i>>[2] = flow[k].table
    BY <2>2 DEF Reads
  <2>5. QED
    BY <2>1, <2>2, <2>3, <2>4 DEF HasWork
<1>2. \A k \in Kinds : flow'[k].pc = "flushing" <=> flow'[k].waits # {}
  BY NotifyFlow DEF Waiting
<1>3. QED
  BY <1>1, <1>2 DEF NothingStranded, HasWork

\* A read is launched in the first free slot.
LEMMA LaunchReads ==
  ASSUME Inv, NEW t \in Tables, NEW kind \in {"drain", "reload"},
         NEW reads \in [Reads -> {Nothing} \cup Answering], Launch(kind, t, reads)
  PROVE  /\ read' \in [Reads -> {Nothing} \cup Answering]
         /\ \A r \in Reads : /\ reads[r] # Nothing => read'[r] # Nothing
                             /\ read'[r] = reads[r] \/ read'[r].snap = Snap(r[2])
         /\ \E i \in 1 .. MaxReads : read'[<<kind, t, i>>] # Nothing
<1>1. PICK i \in 1 .. MaxReads : read' = [reads EXCEPT ![<<kind, t, i>>] = Reading(t)]
  BY DEF Launch
<1>2. /\ Reading(t) \in Answering /\ Reading(t) # Nothing /\ Reading(t).snap = Snap(t)
      /\ <<kind, t, i>> \in Reads /\ <<kind, t, i>>[2] = t
  BY SnapType, TableServiceAssumption DEF Inv, Reading, Reads
<1>3. QED
  BY <1>1, <1>2

LEMMA AnswerInv ==
  ASSUME Inv, NEW t \in Tables, Answer(t)
  PROVE  Inv'
<1> DEFINE job == running[t]
           must == IF job.snap # Nothing THEN dirty[t] ELSE TRUE
           reads == IF job.snap # Nothing THEN Outdated(t) ELSE read
<1>1. /\ job # Nothing /\ job \in Request /\ JobFits(mixed, row, home, late, t, job)
      /\ selected \in Tables /\ view \in [Tables -> Displayed]
      /\ dirty \in [Tables -> BOOLEAN]
      /\ read \in [Reads -> {Nothing} \cup Answering]
  BY DEF Answer, Inv, TypeOK, RunningShape, Reads
<1>2. UNCHANGED <<row, order, selected, home, late>> /\ Drain(t, must, reads)
  BY DEF Answer, backend
<1>3. /\ mixed \subseteq mixed' /\ mixed' \subseteq Tables
      /\ view' \in [Tables -> Displayed] /\ Grown /\ ViewShape'
  <2>1. CASE job.snap # Nothing
    <3>1. /\ view' = [view EXCEPT ![selected] = job.snap] /\ job.snap \in Displayed
          /\ mixed' = IF selected = t THEN mixed ELSE mixed \cup {selected}
      BY <1>1, <2>1 DEF Answer, Request
    <3>2. mixed \subseteq mixed' /\ mixed' \subseteq Tables /\ Grown
      BY <1>1, <1>2, <3>1 DEF Inv, TypeOK, Grown
    <3>3. Shows(mixed', row', selected, job.snap)
      <4>1. CASE selected = t
        BY <1>1, <1>2, <2>1, <3>1, <4>1 DEF JobFits
      <4>2. CASE selected # t
        BY <3>1, <4>2 DEF Shows, Own
      <4>3. QED
        BY <4>1, <4>2
    <3>4. \A u \in Tables : Shows(mixed', row', u, view[u])
      BY <1>1, <3>2, ShowsGrows DEF Inv, ViewShape
    <3>5. QED
      BY <1>1, <3>1, <3>2, <3>3, <3>4 DEF ViewShape
  <2>2. CASE job.snap = Nothing
    <3>1. UNCHANGED <<view, mixed>>
      BY <2>2 DEF Answer
    <3>2. Grown
      BY <1>2, <3>1 DEF Grown
    <3>3. QED
      BY <1>1, <3>1, <3>2, ViewFrame DEF Inv, TypeOK
  <2>3. QED
    BY <2>1, <2>2
<1>4. /\ reads \in [Reads -> {Nothing} \cup Answering]
      /\ \A r \in Reads : /\ read[r] # Nothing => reads[r] # Nothing
                          /\ reads[r] # Nothing =>
                                /\ read[r] # Nothing
                                /\ reads[r].snap \in {read[r].snap, EmptyOrder}
  BY <1>1, OutdatedReads
<1>5. must \in BOOLEAN
  BY <1>1
<1> HIDE DEF must, reads
<1>6. Advances(t)
  BY <1>2 DEF Drain, Advances
<1>7. /\ queue' \in [Tables -> Seq(Mutation)]
      /\ running' \in [Tables -> {Nothing} \cup Request]
      /\ StraysLate' /\ RowsPlaced' /\ QueueShape' /\ RunningShape'
      /\ \A u \in Tables : queue'[u] # <<>> => running'[u] # Nothing
      /\ \A u \in Tables \ {t} : queue'[u] = queue[u] /\ running'[u] = running[u]
      /\ queue[t] # <<>> => running'[t] # Nothing
  BY <1>1, <1>2, <1>3, <1>6, AdvanceJobs
<1>8. dirty' \in [Tables -> BOOLEAN]
  BY <1>1, <1>2, <1>5 DEF Drain
<1>9. \/ /\ read' = reads
         /\ \/ NotifyIdle(t)
            \/ UNCHANGED flow /\ running'[t] # Nothing
      \/ UNCHANGED flow /\ Launch("drain", t, reads)
  BY <1>2, <1>7 DEF Drain
<1>10. /\ read' \in [Reads -> {Nothing} \cup Answering]
       /\ \A r \in Reads : /\ reads[r] # Nothing => read'[r] # Nothing
                           /\ read'[r] = reads[r] \/ read'[r].snap = Snap(r[2])
       /\ \/ read' = reads
          \/ \E i \in 1 .. MaxReads : read'[<<"drain", t, i>>] # Nothing
  <2>1. CASE read' = reads
    BY <1>4, <2>1
  <2>2. CASE Launch("drain", t, reads)
    BY <1>4, <2>2, LaunchReads
  <2>3. QED
    BY <1>9, <2>1, <2>2
<1>11. /\ KeepsReads
       /\ \A r \in Reads : read'[r] # Nothing =>
             \/ read[r] # Nothing /\ read'[r].snap = read[r].snap
             \/ read'[r].snap \in {Snap(r[2]), EmptyOrder}
  BY <1>4, <1>10 DEF KeepsReads
<1>12. ReadShape'
  BY <1>3, <1>11, ReadFrame
<1>13. flow' \in [Kinds -> FlowState] /\ FlowShape'
  BY <1>3, <1>9, NotifyFlow, FlowFrame DEF Inv, TypeOK, FlowState
<1>14. NothingStranded'
  <2>1. CASE NotifyIdle(t)
    BY <1>3, <1>7, <1>11, <2>1, NotifyWait DEF KeepsReads
  <2>2. CASE /\ UNCHANGED flow
             /\ \/ running'[t] # Nothing
                \/ \E i \in 1 .. MaxReads : read'[<<"drain", t, i>>] # Nothing
    <3>1. ASSUME NEW k \in Kinds, "lines" \in flow[k].waits
          PROVE  \/ running'[flow[k].table] # Nothing
                 \/ queue'[flow[k].table] # <<>>
                 \/ \E i \in 1 .. MaxReads : read'[<<"drain", flow[k].table, i>>] # Nothing
      <4>1. flow[k].table \in Tables
        BY <3>1, WaitTable DEF Waiting
      <4>2. \/ HasWork(flow[k].table)
            \/ \E i \in 1 .. MaxReads : read[<<"drain", flow[k].table, i>>] # Nothing
        BY <3>1 DEF Inv, NothingStranded
      <4>3. \A i \in 1 .. MaxReads : <<"drain", flow[k].table, i>> \in Reads
        BY <4>1 DEF Reads
      <4>4. CASE flow[k].table = t
        BY <2>2, <4>4
      <4>5. CASE flow[k].table # t
        BY <1>7, <1>11, <4>1, <4>2, <4>3, <4>5 DEF HasWork, KeepsReads
      <4>6. QED
        BY <4>4, <4>5
    <3>2. \A k \in Kinds : flow'[k].pc = "flushing" <=> flow'[k].waits # {}
      BY <2>2 DEF Inv, NothingStranded
    <3>3. QED
      BY <1>7, <2>2, <3>1, <3>2 DEF NothingStranded, HasWork
  <2>3. QED
    BY <1>9, <1>10, <2>1, <2>2, <1>4, LaunchReads
<1>15. TypeOK'
  BY <1>2, <1>3, <1>7, <1>8, <1>10, <1>13 DEF Inv, TypeOK, FlowState, Reads
<1>16. QED
  BY <1>3, <1>7, <1>12, <1>13, <1>14, <1>15 DEF Inv

-----------------------------------------------------------------------------
(* Reads                                                                   *)

\* The reload of a table is launched.
LEMMA ReloadReads ==
  ASSUME Inv, Grown, NEW t \in Tables, Launch("reload", t, read)
  PROVE  read' \in [Reads -> {Nothing} \cup Answering] /\ ReadShape' /\ KeepsReads
<1>1. read \in [Reads -> {Nothing} \cup Answering]
  BY DEF Inv, TypeOK, Reads
<1>2. /\ read' \in [Reads -> {Nothing} \cup Answering]
      /\ \A r \in Reads : /\ read[r] # Nothing => read'[r] # Nothing
                          /\ read'[r] = read[r] \/ read'[r].snap = Snap(r[2])
  BY <1>1, LaunchReads
<1>3. ReadShape'
  BY <1>2, ReadFrame
<1>4. QED
  BY <1>2, <1>3 DEF KeepsReads

\* Only the answers on their way and the actions of the operator change.
LEMMA RestFrame ==
  ASSUME Inv, UNCHANGED <<row, queue, running, home, late, mixed>>
  PROVE  /\ Grown /\ StraysLate' /\ RowsPlaced' /\ QueueShape' /\ RunningShape'
         /\ \A t \in Tables : queue'[t] # <<>> => running'[t] # Nothing
         /\ \A t \in Tables : HasWork(t) => running'[t] # Nothing \/ queue'[t] # <<>>
<1>1. Grown
  BY DEF Grown
<1>2. row \in [Lines -> Row]
  BY DEF Inv, TypeOK
<1>3. QED
  BY <1>1, <1>2, JobsFrame DEF Inv, NothingStranded, HasWork

LEMMA SelectInv ==
  ASSUME Inv, NEW t \in Tables, Select(t)
  PROVE  Inv'
<1>1. /\ UNCHANGED <<row, order, view, queue, running, dirty, flow, home, late, mixed>>
      /\ selected' = t /\ Launch("reload", t, read)
  BY DEF Select, backend, history
<1>3. /\ Grown /\ StraysLate' /\ RowsPlaced' /\ QueueShape' /\ RunningShape'
      /\ \A u \in Tables : queue'[u] # <<>> => running'[u] # Nothing
      /\ \A u \in Tables : HasWork(u) => running'[u] # Nothing \/ queue'[u] # <<>>
  BY <1>1, RestFrame
<1>4. read' \in [Reads -> {Nothing} \cup Answering] /\ ReadShape' /\ KeepsReads
  BY <1>1, <1>3, ReloadReads
<1>5. NothingStranded'
  BY <1>1, <1>3, <1>4, WaitFrame
<1>6. ViewShape' /\ FlowShape'
  BY <1>1, <1>3, ViewFrame, FlowFrame
<1>7. TypeOK'
  BY <1>1, <1>4 DEF Inv, TypeOK, Reads
<1>8. QED
  BY <1>3, <1>4, <1>5, <1>6, <1>7 DEF Inv

LEMMA PollInv ==
  ASSUME Inv, Poll
  PROVE  Inv'
<1>1. /\ UNCHANGED <<row, order, selected, view, queue, running, dirty, flow, home, late, mixed>>
      /\ read \in [Reads -> {Nothing} \cup Answering]
      /\ \A r \in Reads : read[r] = Nothing
      /\ read' = [r \in Reads |-> IF r[1] = "poll" /\ r[2] \in PollTables /\ r[3] = 1
                                  THEN Reading(r[2]) ELSE read[r]]
  BY DEF Poll, backend, history, Inv, TypeOK, Reads
<1>2. \A r \in Reads : r[2] \in Tables
  BY DEF Reads
<1>3. \A t \in Tables : Reading(t) \in Answering /\ Reading(t).snap = Snap(t)
  BY SnapType DEF Inv, Reading
<1>4. /\ Grown /\ StraysLate' /\ RowsPlaced' /\ QueueShape' /\ RunningShape'
      /\ \A u \in Tables : queue'[u] # <<>> => running'[u] # Nothing
      /\ \A u \in Tables : HasWork(u) => running'[u] # Nothing \/ queue'[u] # <<>>
  BY <1>1, RestFrame
<1>5. /\ read' \in [Reads -> {Nothing} \cup Answering]
      /\ \A r \in Reads : read'[r] # Nothing => read'[r].snap = Snap(r[2])
  BY <1>1, <1>2, <1>3
<1>6. ReadShape'
  BY <1>4, <1>5, ReadFrame
<1>7. NothingStranded'
  BY <1>1, <1>4, WaitFrame DEF KeepsReads
<1>8. ViewShape' /\ FlowShape'
  BY <1>1, <1>4, ViewFrame, FlowFrame
<1>9. TypeOK'
  BY <1>1, <1>5 DEF Inv, TypeOK, Reads
<1>10. QED
  BY <1>4, <1>6, <1>7, <1>8, <1>9 DEF Inv

\* An answer comes, or the refresh of a queue fails.
LEMMA LandInv ==
  ASSUME Inv, NEW r \in Reads, UNCHANGED <<backend, selected, queue, running, dirty, history>>,
         read' = [read EXCEPT ![r] = Nothing],
         view' \in [Tables -> Displayed], ViewShape',
         IF r[1] = "drain" THEN NotifyIdle(r[2]) ELSE UNCHANGED flow
  PROVE  Inv'
<1>1. /\ UNCHANGED <<row, order, selected, queue, running, dirty, home, late, mixed>>
      /\ r[2] \in Tables
      /\ read \in [Reads -> {Nothing} \cup Answering]
  BY DEF backend, history, Inv, TypeOK, Reads
<1>2. /\ read' \in [Reads -> {Nothing} \cup Answering]
      /\ \A x \in Reads : /\ read'[x] # Nothing => read'[x] = read[x]
                          /\ x # r => read'[x] = read[x]
  BY <1>1
<1>3. /\ Grown /\ StraysLate' /\ RowsPlaced' /\ QueueShape' /\ RunningShape'
      /\ \A u \in Tables : queue'[u] # <<>> => running'[u] # Nothing
      /\ \A u \in Tables : HasWork(u) => running'[u] # Nothing \/ queue'[u] # <<>>
  BY <1>1, RestFrame
<1>4. ReadShape'
  BY <1>2, <1>3, ReadFrame
<1>6. CASE r[1] = "drain"
  <2>1. flow' \in [Kinds -> FlowState] /\ FlowShape'
    BY <1>1, <1>6, NotifyFlow
  <2>2. NothingStranded'
    BY <1>1, <1>2, <1>3, <1>6, NotifyWait
  <2>3. TypeOK'
    BY <1>1, <1>2, <2>1 DEF Inv, TypeOK, FlowState, Reads
  <2>4. QED
    BY <1>3, <1>4, <2>1, <2>2, <2>3 DEF Inv
<1>7. CASE r[1] # "drain"
  <2>1. UNCHANGED flow /\ FlowShape'
    BY <1>1, <1>7, FlowFrame
  <2>2. NothingStranded'
    <3>1. \A k \in Kinds : "lines" \in flow[k].waits => flow[k].table \in Tables
      BY WaitTable DEF Waiting
    <3>2. ASSUME NEW k \in Kinds, "lines" \in flow'[k].waits
          PROVE  \/ running'[flow'[k].table] # Nothing
                 \/ queue'[flow'[k].table] # <<>>
                 \/ \E i \in 1 .. MaxReads : read'[<<"drain", flow'[k].table, i>>] # Nothing
      <4>1. \/ HasWork(flow[k].table)
            \/ \E i \in 1 .. MaxReads : read[<<"drain", flow[k].table, i>>] # Nothing
        BY <2>1, <3>2 DEF Inv, NothingStranded
      <4>2. \A i \in 1 .. MaxReads : /\ <<"drain", flow[k].table, i>> \in Reads
                                    /\ <<"drain", flow[k].table, i>>[1] = "drain"
        BY <2>1, <3>1, <3>2 DEF Reads
      <4>3. QED
        BY <1>1, <1>2, <1>7, <2>1, <4>1, <4>2 DEF HasWork
    <3>3. QED
      BY <1>3, <2>1, <3>2 DEF Inv, NothingStranded, HasWork
  <2>3. TypeOK'
    BY <1>1, <1>2, <2>1 DEF Inv, TypeOK, Reads
  <2>4. QED
    BY <1>3, <1>4, <2>1, <2>2, <2>3 DEF Inv
<1>8. QED
  BY <1>6, <1>7

LEMMA ArriveInv ==
  ASSUME Inv, NEW r \in Reads, Arrive(r)
  PROVE  Inv'
<1>1. /\ read[r] # Nothing /\ read[r] \in Answering /\ r[2] \in Tables
      /\ view \in [Tables -> Displayed] /\ Shows(mixed, row, r[2], read[r].snap)
  BY DEF Arrive, Inv, TypeOK, Reads, ReadShape
<1>2. view' = IF read[r].fresh THEN [view EXCEPT ![r[2]] = read[r].snap] ELSE view
  BY DEF Arrive
<1>3. view' \in [Tables -> Displayed]
  BY <1>1, <1>2 DEF Answering
<1>4. UNCHANGED <<row, mixed>>
  BY DEF Arrive, backend, history
<1>5. ViewShape'
  BY <1>1, <1>2, <1>4 DEF Inv, ViewShape
<1>6. QED
  BY <1>3, <1>5, LandInv DEF Arrive

LEMMA DropInv ==
  ASSUME Inv, NEW r \in Reads, Drop(r)
  PROVE  Inv'
<1>1. Grown
  BY DEF Drop, backend, history, Grown
<1>2. view' \in [Tables -> Displayed] /\ ViewShape'
  BY <1>1, ViewFrame DEF Drop, Inv, TypeOK
<1>3. QED
  BY <1>2, LandInv DEF Drop

-----------------------------------------------------------------------------
(* Sending and charging                                                    *)

\* A flow goes on; if it starts to wait there is something to wait for.
LEMMA FlowStep ==
  ASSUME Inv, NEW k \in Kinds, NEW f \in FlowState, FlowFits(mixed, f),
         flow' = [flow EXCEPT ![k] = f],
         Waiting(f),
         "lines" \in f.waits =>
            \/ "lines" \in flow[k].waits /\ f.table = flow[k].table
            \/ HasWork(f.table),
         UNCHANGED <<queue, running, mixed>>, KeepsReads
  PROVE  flow' \in [Kinds -> FlowState] /\ FlowShape' /\ NothingStranded'
<1>1. flow \in [Kinds -> FlowState]
  BY DEF Inv, TypeOK, FlowState
<1>2. flow' \in [Kinds -> FlowState] /\ \A j \in Kinds : flow'[j] = IF j = k THEN f ELSE flow[j]
  BY <1>1
<1>3. FlowShape'
  BY <1>2 DEF Inv, FlowShape
<1>4. ASSUME NEW j \in Kinds
      PROVE  \/ flow'[j] = flow[j]
             \/ /\ Waiting(flow'[j])
                /\ "lines" \in flow'[j].waits =>
                      \/ "lines" \in flow[j].waits /\ flow'[j].table = flow[j].table
                      \/ HasWork(flow'[j].table)
  BY <1>2
<1>5. NothingStranded'
  BY <1>4, WaitFrame DEF Inv, NothingStranded, HasWork
<1>6. QED
  BY <1>2, <1>3, <1>5

LEMMA NoFlowType ==
  /\ NoFlow \in FlowState /\ \A m : FlowFits(m, NoFlow)
  /\ Waiting(NoFlow) /\ NoFlow.waits = {}
  BY DEF NoFlow, FlowState, FlowFits, OrderId, Waiting

\* What is left of a flow that was answered.
LEMMA DoneType ==
  ASSUME NEW f \in FlowState, f.table \in Tables, NEW m,
         NEW pc \in {"sent", "charged", "failed"}
  PROVE  /\ Done(f, pc) \in FlowState /\ FlowFits(m, Done(f, pc))
         /\ Waiting(Done(f, pc)) /\ Done(f, pc).waits = {}
  BY DEF Done, NoFlow, FlowState, FlowFits, OrderId, Waiting

LEMMA PayingType ==
  ASSUME Inv
  PROVE  /\ Paying(view) \in FlowState /\ FlowFits(mixed, Paying(view))
         /\ Waiting(Paying(view)) /\ Paying(view).waits = {}
<1>1. selected \in Tables /\ view[selected] \in Displayed
  BY DEF Inv, TypeOK
<1>2. DOMAIN view[selected].lines \subseteq Lines /\ view[selected].id \in OrderId
  BY <1>1, DisplayedFields
<1>3. Own(mixed, selected, view[selected].id)
  BY <1>1 DEF Inv, ViewShape, Shows
<1>4. QED
  BY <1>1, <1>2, <1>3 DEF Paying, FlowState, FlowFits, Waiting

LEMMA FlushType ==
  ASSUME Inv, NEW syncing \in BOOLEAN
  PROVE  LET f == FlushThenSend(syncing) IN
         /\ f \in FlowState /\ FlowFits(mixed, f) /\ Waiting(f)
         /\ "lines" \in f.waits => HasWork(f.table)
<1> DEFINE f == FlushThenSend(syncing)
           g == [NoFlow EXCEPT !.table = selected, !.waits = Unflushed(syncing)]
<1>1. selected \in Tables /\ view[selected] \in Displayed
  BY DEF Inv, TypeOK
<1>2. Sendable(view[selected]) \subseteq Lines
  BY <1>1, DisplayedFields DEF Sendable
<1>3. /\ Unflushed(syncing) \subseteq {"direct", "lines"}
      /\ "lines" \in Unflushed(syncing) => HasWork(selected)
  BY DEF Unflushed
<1>4. /\ g \in FlowState /\ g.table = selected /\ g.waits = Unflushed(syncing)
  BY <1>1, <1>3 DEF NoFlow, FlowState, OrderId
<1>5. f = IF g.waits = {} THEN [g EXCEPT !.pc = "sending", !.lines = Sendable(view[selected])]
                          ELSE [g EXCEPT !.pc = "flushing"]
  BY DEF FlushThenSend
<1> HIDE DEF f, g
<1>6. /\ f \in FlowState /\ f.table = selected /\ f.waits = g.waits
      /\ f.pc = IF g.waits = {} THEN "sending" ELSE "flushing"
  BY <1>2, <1>4, <1>5 DEF FlowState
<1>7. QED
  BY <1>1, <1>3, <1>4, <1>6 DEF FlowFits, Waiting, f

LEMMA PressInv ==
  ASSUME Inv, NEW k \in Kinds, Press(k)
  PROVE  Inv'
<1>1. UNCHANGED <<row, order, selected, view, queue, running, dirty, read, home, late, mixed>>
  BY DEF Press, backend, history
<1>2. PICK f \in FlowState :
         /\ flow' = [flow EXCEPT ![k] = f] /\ FlowFits(mixed, f) /\ Waiting(f)
         /\ "lines" \in f.waits => HasWork(f.table)
  <2>1. CASE PendingShown(view[selected]) # {}
    <3>1. PICK syncing \in BOOLEAN : flow' = [flow EXCEPT ![k] = FlushThenSend(syncing)]
      BY <2>1 DEF Press
    <3>2. QED
      BY <3>1, FlushType
  <2>2. CASE PendingShown(view[selected]) = {}
    BY <2>2, PayingType DEF Press
  <2>3. QED
    BY <2>1, <2>2
<1>6. flow' \in [Kinds -> FlowState] /\ FlowShape' /\ NothingStranded'
  BY <1>1, <1>2, FlowStep DEF KeepsReads
<1>7. Grown /\ StraysLate' /\ RowsPlaced' /\ QueueShape' /\ RunningShape'
  BY <1>1, RestFrame
<1>8. ReadShape' /\ ViewShape'
  BY <1>1, <1>7, ReadFrame, ViewFrame
<1>9. TypeOK'
  BY <1>1, <1>6 DEF Inv, TypeOK, FlowState
<1>10. QED
  BY <1>6, <1>7, <1>8, <1>9 DEF Inv

LEMMA DirectSyncedInv ==
  ASSUME Inv, NEW k \in Kinds, DirectSynced(k)
  PROVE  Inv'
<1>1. /\ UNCHANGED <<row, order, selected, view, queue, running, dirty, read, home, late, mixed>>
      /\ flow' = [flow EXCEPT ![k] = Flushed(flow[k], "direct", view)]
      /\ "direct" \in flow[k].waits
  BY DEF DirectSynced, backend, history, Inv, TypeOK
<1>2. view \in [Tables -> Displayed]
  BY DEF Inv, TypeOK
<1>3. PICK f \in FlowState :
         /\ flow' = [flow EXCEPT ![k] = f] /\ FlowFits(mixed, f) /\ Waiting(f)
         /\ f.waits = flow[k].waits \ {"direct"} /\ f.table = flow[k].table
  BY <1>1, <1>2, FlushedType
<1>6. flow' \in [Kinds -> FlowState] /\ FlowShape' /\ NothingStranded'
  BY <1>1, <1>3, FlowStep DEF KeepsReads
<1>7. Grown /\ StraysLate' /\ RowsPlaced' /\ QueueShape' /\ RunningShape'
  BY <1>1, RestFrame
<1>8. ReadShape' /\ ViewShape'
  BY <1>1, <1>7, ReadFrame, ViewFrame
<1>9. TypeOK'
  BY <1>1, <1>6 DEF Inv, TypeOK, FlowState
<1>10. QED
  BY <1>6, <1>7, <1>8, <1>9 DEF Inv

\* A flow that got its result changes nothing else but the rows it wrote.
LEMMA ServedInv ==
  ASSUME Inv, NEW k \in Kinds, NEW f \in FlowState, FlowFits(mixed, f), Waiting(f), f.waits = {},
         flow' = [flow EXCEPT ![k] = f],
         UNCHANGED <<selected, view, queue, running, dirty, read, history>>,
         row' \in [Lines -> Row],
         \A l \in Lines : /\ row'[l].table = row[l].table
                          /\ row'[l].st = "free" <=> row[l].st = "free",
         order' \in [Tables -> [n : Nat, open : BOOLEAN, got : Nat]]
  PROVE  Inv'
<1>1. UNCHANGED <<home, late, mixed>> /\ Grown
  BY DEF history, Grown
<1>2. flow' \in [Kinds -> FlowState] /\ FlowShape' /\ NothingStranded'
  BY <1>1, FlowStep DEF KeepsReads
<1>3. StraysLate' /\ RowsPlaced' /\ QueueShape' /\ RunningShape'
  BY <1>1, JobsFrame
<1>4. ReadShape' /\ ViewShape'
  BY <1>1, ReadFrame, ViewFrame
<1>5. TypeOK'
  BY <1>1, <1>2 DEF Inv, TypeOK, FlowState
<1>6. QED
  BY <1>2, <1>3, <1>4, <1>5 DEF Inv

LEMMA ServeSendInv ==
  ASSUME Inv, NEW k \in Kinds, ServeSend(k)
  PROVE  Inv'
<1> DEFINE named == flow[k].lines \cap Active(flow[k].table)
           f == Done(flow[k], IF named # {} THEN "sent" ELSE "failed")
<1>1. /\ flow[k] \in FlowState /\ flow[k].pc = "sending" /\ FlowFits(mixed, flow[k])
      /\ row \in [Lines -> Row]
  BY DEF ServeSend, Inv, TypeOK, FlowShape, FlowState
<1>2. /\ flow' = [flow EXCEPT ![k] = f]
      /\ row' = [l \in Lines |-> IF l \in named THEN [row[l] EXCEPT !.st = "sent"] ELSE row[l]]
      /\ UNCHANGED <<order, selected, view, queue, running, dirty, read, history>>
  BY DEF ServeSend, Inv, TypeOK
<1>3. \A l \in named : row[l].st # "free"
  BY DEF Active
<1> HIDE DEF named
<1>4. /\ row' \in [Lines -> Row]
      /\ \A l \in Lines : /\ row'[l].table = row[l].table
                          /\ row'[l].st = "free" <=> row[l].st = "free"
  BY <1>1, <1>2, <1>3 DEF Row
<1>5. flow[k].table \in Tables
  BY <1>1 DEF FlowFits
<1>6. f \in FlowState /\ FlowFits(mixed, f) /\ Waiting(f) /\ f.waits = {}
  BY <1>1, <1>5, DoneType
<1> HIDE DEF f
<1>7. QED
  BY <1>2, <1>4, <1>6, ServedInv DEF Inv, TypeOK

LEMMA LoseFlowInv ==
  ASSUME Inv, NEW k \in Kinds, LoseFlow(k)
  PROVE  Inv'
<1> DEFINE f == Done(flow[k], "failed")
<1>1. flow[k] \in FlowState /\ flow[k].table \in Tables
  BY DEF LoseFlow, Inv, TypeOK, FlowShape, FlowState, FlowFits
<1>2. /\ flow' = [flow EXCEPT ![k] = f] /\ UNCHANGED <<row, order>>
      /\ UNCHANGED <<selected, view, queue, running, dirty, read, history>>
  BY DEF LoseFlow, backend, Inv, TypeOK
<1>3. f \in FlowState /\ FlowFits(mixed, f) /\ Waiting(f) /\ f.waits = {}
  BY <1>1, DoneType
<1> HIDE DEF f
<1>4. QED
  BY <1>2, <1>3, ServedInv DEF Inv, TypeOK

LEMMA ServePaymentInv ==
  ASSUME Inv, NEW k \in Kinds, ServePayment(k)
  PROVE  Inv'
<1> DEFINE id == flow[k].id
           u == id[1]
           whole == Cardinality(Active(u)) - order[u].got <= Amount(k)
           new == [n |-> order[u].n, open |-> ~whole,
                   got |-> IF whole THEN 0 ELSE order[u].got + Amount(k)]
<1>1. /\ flow[k] \in FlowState /\ flow[k].pc = "paying" /\ FlowFits(mixed, flow[k])
      /\ row \in [Lines -> Row]
      /\ order \in [Tables -> [n : Nat, open : BOOLEAN, got : Nat]]
      /\ flow \in [Kinds -> FlowState]
  BY DEF ServePayment, Inv, TypeOK, FlowShape, FlowState
<1>2. UNCHANGED <<selected, view, queue, running, dirty, read, history>>
  BY DEF ServePayment
<1>3. CASE /\ UNCHANGED <<row, order>>
           /\ \E pc \in {"charged", "failed"} : flow' = [flow EXCEPT ![k] = Done(flow[k], pc)]
  <2>1. PICK pc \in {"charged", "failed"} : flow' = [flow EXCEPT ![k] = Done(flow[k], pc)]
    BY <1>3
  <2> DEFINE g == Done(flow[k], pc)
  <2>2. flow[k].table \in Tables
    BY <1>1 DEF FlowFits
  <2>3. g \in FlowState /\ FlowFits(mixed, g) /\ Waiting(g) /\ g.waits = {}
    BY <1>1, <2>2, DoneType
  <2> HIDE DEF g
  <2>4. QED
    BY <1>1, <1>2, <1>3, <2>1, <2>3, ServedInv DEF g
<1>4. CASE /\ id # Nothing
           /\ row' = [l \in Lines |-> IF whole /\ l \in Active(u)
                                      THEN [row[l] EXCEPT !.st = "paid"] ELSE row[l]]
           /\ order' = [order EXCEPT ![u] = new]
           /\ flow' = [flow EXCEPT ![k] =
                 [Done(flow[k], "paid") EXCEPT
                    !.snap = [id |-> id, lines |-> [l \in Active(u) |-> "paid"]]]]
  <2> DEFINE snap == [id |-> id, lines |-> [l \in Active(u) |-> "paid"]]
             g == [Done(flow[k], "paid") EXCEPT !.snap = snap]
  <2>1. id \in OrderId /\ u \in Tables
    BY <1>1, <1>4 DEF FlowState, OrderId
  <2>2. [l \in Active(u) |-> "paid"] \in Shown
    BY ShownDef, ActiveLines DEF Marks
  <2>3. /\ snap \in Displayed /\ snap.id = id
        /\ \A l \in DOMAIN snap.lines : snap.lines[l] = "paid"
    BY <2>1, <2>2, DisplayedDef
  <2> HIDE DEF snap
  <2>4. /\ g \in FlowState /\ g.pc = "paid" /\ g.table = flow[k].table /\ g.waits = {}
        /\ g.snap = snap /\ flow' = [flow EXCEPT ![k] = g]
    BY <1>1, <1>4, <2>3 DEF FlowState, FlowFits, snap, Done, NoFlow, OrderId
  <2>5. FlowFits(mixed, g) /\ Waiting(g)
    BY <1>1, <2>3, <2>4 DEF FlowFits, Waiting
  <2> HIDE DEF g
  <2>6. Amount(k) \in Nat
    <3>1. flow[k].lines \subseteq Lines
      BY <1>1 DEF FlowState
    <3>2. QED
      BY <3>1, TableServiceAssumption, FS_Subset, FS_CardinalityType DEF Amount
  <2>7. new \in [n : Nat, open : BOOLEAN, got : Nat]
    <3>1. order[u] \in [n : Nat, open : BOOLEAN, got : Nat]
      BY <1>1, <2>1
    <3>2. whole \in BOOLEAN
      OBVIOUS
    <3> HIDE DEF whole
    <3>3. QED
      BY <2>6, <3>1, <3>2
  <2>8. \A l \in Active(u) : row[l].st # "free"
    BY DEF Active
  <2> HIDE DEF whole, new
  <2>9. order' \in [Tables -> [n : Nat, open : BOOLEAN, got : Nat]]
    BY <1>1, <1>4, <2>1, <2>7
  <2>10. /\ row' \in [Lines -> Row]
         /\ \A l \in Lines : /\ row'[l].table = row[l].table
                             /\ row'[l].st = "free" <=> row[l].st = "free"
    BY <1>1, <1>4, <2>8 DEF Row
  <2>11. QED
    BY <1>2, <2>4, <2>5, <2>9, <2>10, ServedInv
<1>5. CASE id = Nothing \/ flow[k].lines = {}
  <2>1. /\ UNCHANGED <<row, order>>
        /\ flow' = [flow EXCEPT ![k] = Done(flow[k], IF order[flow[k].table].open
                                                    THEN "charged" ELSE "failed")]
    BY <1>1, <1>5 DEF ServePayment
  <2>2. QED
    BY <1>3, <2>1
<1>6. CASE id # Nothing /\ flow[k].lines # {}
  <2>1. CASE Payment(k)
    BY <1>4, <1>6, <2>1 DEF ServePayment
  <2>2. CASE ~Payment(k)
    BY <1>3, <1>6, <2>2 DEF ServePayment
  <2>3. QED
    BY <2>1, <2>2
<1>7. QED
  BY <1>5, <1>6

LEMMA AnswerSendInv ==
  ASSUME Inv, NEW k \in Kinds, AnswerSend(k) \/ AnswerFailure(k)
  PROVE  Inv'
<1>1. /\ UNCHANGED <<row, order, selected, view, queue, running, dirty, home, late, mixed>>
      /\ flow[k].pc # "idle"
      /\ Reload(flow[k].table)
  BY DEF AnswerSend, AnswerFailure, backend, history
<1>2. PICK f \in FlowState : /\ flow' = [flow EXCEPT ![k] = f] /\ FlowFits(mixed, f)
                        /\ Waiting(f) /\ f.waits = {}
  <2>1. flow' = [flow EXCEPT ![k] = NoFlow] \/ flow' = [flow EXCEPT ![k] = Paying(view)]
    BY DEF AnswerSend, AnswerFailure
  <2>2. QED
    BY <2>1, NoFlowType, PayingType
<1>3. flow[k].table \in Tables /\ Launch("reload", flow[k].table, read)
  BY <1>1 DEF Reload, Inv, FlowShape, FlowFits
<1>5. Grown /\ StraysLate' /\ RowsPlaced' /\ QueueShape' /\ RunningShape'
  BY <1>1, RestFrame
<1>6. read' \in [Reads -> {Nothing} \cup Answering] /\ ReadShape' /\ KeepsReads
  BY <1>3, <1>5, ReloadReads
<1>7. flow' \in [Kinds -> FlowState] /\ FlowShape' /\ NothingStranded'
  BY <1>1, <1>2, <1>6, FlowStep
<1>8. ViewShape'
  BY <1>1, <1>5, ViewFrame
<1>9. TypeOK'
  BY <1>1, <1>6, <1>7 DEF Inv, TypeOK, FlowState, Reads
<1>10. QED
  BY <1>5, <1>6, <1>7, <1>8, <1>9 DEF Inv

\* What was paid is displayed at the table charged; the lines displayed at the
\* table selected are marked as paid.
LEMMA AnswerPaymentInv ==
  ASSUME Inv, NEW k \in Kinds, AnswerPayment(k)
  PROVE  Inv'
<1> DEFINE t == flow[k].table
           v == [view EXCEPT ![t] = flow[k].snap]
           f == [l \in DOMAIN v[selected].lines |-> "paid"]
<1>1. /\ UNCHANGED <<row, order, selected, queue, running, dirty, read, home, late, mixed>>
      /\ flow' = [flow EXCEPT ![k] = NoFlow]
      /\ flow[k].pc \in {"paid", "charged"}
      /\ view' = IF flow[k].pc = "charged" THEN [view EXCEPT ![selected] = EmptyOrder]
                 ELSE [v EXCEPT ![selected].lines = f]
  BY DEF AnswerPayment, backend, history
<1>2. /\ selected \in Tables /\ view \in [Tables -> Displayed] /\ t \in Tables
      /\ FlowFits(mixed, flow[k])
      /\ \A u \in Tables : Shows(mixed, row, u, view[u])
  BY <1>1 DEF Inv, TypeOK, ViewShape, FlowShape, FlowFits
<1>3. view' \in [Tables -> Displayed] /\ \A u \in Tables : Shows(mixed, row, u, view'[u])
  <2>1. CASE flow[k].pc = "charged"
    <3>1. \A u : Shows(mixed, row, u, EmptyOrder)
      BY EmptyType DEF Shows, Own, EmptyOrder
    <3>2. QED
      BY <1>1, <1>2, <2>1, <3>1, EmptyType
  <2>2. CASE flow[k].pc = "paid"
    <3>1. flow[k].snap \in Displayed /\ Shows(mixed, row, t, flow[k].snap)
      BY <1>2, <2>2 DEF FlowFits, Shows
    <3>2. v \in [Tables -> Displayed] /\ \A u \in Tables : Shows(mixed, row, u, v[u])
      BY <1>2, <3>1
    <3> HIDE DEF v
    <3>3. v[selected] \in Displayed /\ DOMAIN v[selected].lines \subseteq Lines
      BY <1>2, <3>2, DisplayedFields
    <3>4. f \in Shown /\ \A l \in DOMAIN f : f[l] = "paid"
      BY <3>3, ShownDef DEF Marks
    <3> HIDE DEF f
    <3> DEFINE new == [v[selected] EXCEPT !.lines = f]
    <3>5. new \in Displayed /\ new.id = v[selected].id /\ new.lines = f
      BY <3>3, <3>4, LinesType
    <3>6. view' = [v EXCEPT ![selected] = new]
      BY <1>1, <2>2
    <3> HIDE DEF new
    <3>7. Shows(mixed, row, selected, new)
      BY <1>2, <3>2, <3>4, <3>5 DEF Shows
    <3>8. QED
      BY <1>2, <3>2, <3>5, <3>6, <3>7
  <2>3. QED
    BY <1>1, <2>1, <2>2
<1> HIDE DEF v, f, t
<1>4. ViewShape'
  BY <1>1, <1>3 DEF ViewShape
<1>5. flow' \in [Kinds -> FlowState] /\ FlowShape' /\ NothingStranded'
  BY <1>1, NoFlowType, FlowStep DEF KeepsReads
<1>6. Grown /\ StraysLate' /\ RowsPlaced' /\ QueueShape' /\ RunningShape'
  BY <1>1, RestFrame
<1>7. ReadShape'
  BY <1>6, <1>1, ReadFrame
<1>8. TypeOK'
  BY <1>1, <1>3, <1>5 DEF Inv, TypeOK, FlowState
<1>9. QED
  BY <1>4, <1>5, <1>6, <1>7, <1>8 DEF Inv

-----------------------------------------------------------------------------
(* The theorem                                                             *)

LEMMA PlaceType ==
  ASSUME NEW S, NEW t \in Tables, NEW s \in {"free", "pending", "sent"},
         s = "free" => S = {}
  PROVE  /\ Place(S, t, s) \in [Lines -> Row]
         /\ \A l \in Lines : Place(S, t, s)[l].st = "free" <=> Place(S, t, s)[l].table = Nothing
  BY TableServiceAssumption DEF Place, Row

LEMMA InitInv == Init => Inv
<1> SUFFICES ASSUME Init PROVE Inv
  OBVIOUS
<1>1. selected \in Tables
  BY TableServiceAssumption DEF Init
<1>2. /\ row \in [Lines -> Row]
      /\ \A l \in Lines : row[l].st = "free" <=> row[l].table = Nothing
  <2> DEFINE S == {CHOOSE l \in Lines : TRUE}
  <2>1. \/ row = Place({}, selected, "free")
        \/ row = Place(S, selected, "pending")
        \/ \E t \in Tables : row = Place(S, t, "sent")
    BY DEF Init
  <2> HIDE DEF S
  <2>2. QED
    BY <1>1, <2>1, PlaceType
<1>3. \A l \in Lines : home[l] = row[l].table
  BY DEF Init
<1>4. order \in [Tables -> [n : Nat, open : BOOLEAN, got : Nat]]
  <2>1. \A t \in Tables : Cardinality(Active(t)) \in Nat
    BY ActiveLines, TableServiceAssumption, FS_Subset, FS_CardinalityType
  <2>2. QED
    BY <2>1 DEF Init
<1>5. \A t \in Tables : Snap(t) \in Displayed /\ Shows(mixed, row, t, Snap(t))
  <2> SUFFICES ASSUME NEW t \in Tables
               PROVE  Snap(t) \in Displayed /\ Shows(mixed, row, t, Snap(t))
    OBVIOUS
  <2>1. [l \in Active(t) |-> row[l].st] \in Shown
    BY <1>2, ShownDef, ActiveLines DEF Active, Marks
  <2>2. <<t, order[t].n>> \in OrderId
    BY <1>4 DEF OrderId
  <2>3. QED
    BY <2>1, <2>2, DisplayedDef, EmptyType DEF Snap, Shows, Own, Active, EmptyOrder
<1>6. /\ \A t \in Tables : queue[t] = <<>> /\ running[t] = Nothing
      /\ \A r \in Reads : read[r] = Nothing
      /\ \A k \in Kinds : flow[k] = NoFlow
      /\ late = {} /\ mixed = {} /\ view = [t \in Tables |-> Snap(t)]
  BY DEF Init, Reads
<1>7. TypeOK
  <2>1. \A t \in Tables : queue[t] \in Seq(Mutation)
    BY <1>6, EmptySeq
  <2>2. flow \in [Kinds -> FlowState]
    BY NoFlowType DEF Init
  <2>3. home \in [Lines -> Tables \cup {Nothing}]
    BY <1>2 DEF Init, Row
  <2>4. view \in [Tables -> Displayed]
    BY <1>5, <1>6
  <2>5. QED
    BY <1>1, <1>2, <1>4, <1>6, <2>1, <2>2, <2>3, <2>4 DEF TypeOK, Init
<1>8. NothingStranded
  BY <1>6 DEF NothingStranded, NoFlow
<1>9. RowsPlaced /\ StraysLate
  BY <1>2, <1>3 DEF RowsPlaced, StraysLate
<1>10. QueueShape /\ RunningShape
  BY <1>6 DEF QueueShape, RunningShape
<1>11. ReadShape /\ ViewShape /\ FlowShape
  BY <1>5, <1>6, NoFlowType DEF ReadShape, ViewShape, FlowShape
<1>12. QED
  BY <1>7, <1>8, <1>9, <1>10, <1>11 DEF Inv

LEMMA StutterInv == Inv /\ UNCHANGED vars => Inv'
<1> SUFFICES ASSUME Inv, UNCHANGED vars PROVE Inv'
  OBVIOUS
<1>1. UNCHANGED <<row, order, selected, view, queue, running, dirty, read, flow, home, late,
                  mixed>>
  BY DEF vars
<1>2. /\ Grown /\ StraysLate' /\ RowsPlaced' /\ QueueShape' /\ RunningShape'
      /\ \A t \in Tables : queue'[t] # <<>> => running'[t] # Nothing
      /\ \A t \in Tables : HasWork(t) => running'[t] # Nothing \/ queue'[t] # <<>>
  BY <1>1, RestFrame
<1>3. ReadShape' /\ ViewShape' /\ FlowShape' /\ NothingStranded'
  BY <1>1, <1>2, ReadFrame, ViewFrame, FlowFrame, WaitFrame DEF KeepsReads
<1>4. TypeOK'
  BY <1>1 DEF Inv, TypeOK
<1>5. QED
  BY <1>2, <1>3, <1>4 DEF Inv

(* The inductive invariant holds in every reachable state, for any tables, *)
(* lines, taps, selections, presses and faults.                            *)
THEOREM TableServiceInvariant == Spec => []Inv
<1>1. Inv /\ Next => Inv'
  <2> SUFFICES ASSUME Inv, Next PROVE Inv'
    OBVIOUS
  <2>1. CASE \E l \in Lines : Add(l) \/ Remove(l) \/ Update(l)
    BY <2>1, AddInv, RemoveInv, UpdateInv
  <2>2. CASE \E t \in Tables : Select(t) \/ Queue(t) \/ Lose(t)
    BY <2>2, SelectInv, ServeAddInv, ServeEditInv, AnswerInv, LoseInv DEF Queue
  <2>3. CASE Poll
    BY <2>3, PollInv
  <2>4. CASE \E r \in DOMAIN read : Arrive(r) \/ Drop(r)
    <3>1. DOMAIN read = Reads
      BY DEF Inv, TypeOK, Reads
    <3>2. QED
      BY <2>4, <3>1, ArriveInv, DropInv
  <2>5. CASE \E k \in Kinds : Press(k) \/ DirectSynced(k) \/ Flow(k) \/ LoseFlow(k)
    BY <2>5, PressInv, DirectSyncedInv, ServeSendInv, AnswerSendInv, ServePaymentInv, AnswerPaymentInv,
       LoseFlowInv DEF Flow
  <2>6. QED
    BY <2>1, <2>2, <2>3, <2>4, <2>5 DEF Next
<1>2. QED
  BY InitInv, <1>1, StutterInv, PTL DEF Spec

(* Whichever table is selected between a tap and its request, an answer    *)
(* and its display, a flush and a payment: no queue of OrderWriteService   *)
(* and no waiter is stranded, and a line only reaches the order of another *)
(* table after it waited in the queue or its table showed that order.      *)
THEOREM QueueConsistentHolds == Spec => []QueueConsistent
<1>1. Inv => QueueConsistent
  BY DEF Inv, QueueConsistent
<1>2. QED
  BY <1>1, TableServiceInvariant, PTL
=============================================================================
