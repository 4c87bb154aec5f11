------------------------- MODULE TimeTracking_proofs -------------------------
(***************************************************************************)
(* What holds of working time for any number of workers, restaurants, rows *)
(* and calls in flight, whatever interleaves or fails: the types, one open *)
(* entry per worker and restaurant, decisions that only an earlier review  *)
(* overturns, approvals that are applied, and ends of a day that are kept. *)
(***************************************************************************)
EXTENDS TimeTracking, TLAPS

\* A stored request and the entry it is about.
Stored(k) == change[k] \in Change /\ entry[change[k].entry] \in Entry

\* What a call found before its first statement is still there: rows are never
\* deleted.
Found(p) ==
    /\ call[p].at \in {"close", "ask"} => entry[call[p].entry] \in Entry
    /\ call[p].at \in {"decide", "correct"} => Stored(call[p].change)

Inv == /\ TypeOK /\ OneOpenEntry
       /\ \A p \in Calls : Found(p)
       /\ \A k \in Changes : change[k] # None => Stored(k)

\* A call that has not returned has what its place needs.
LEMMA CallFields ==
  ASSUME NEW c \in Call
  PROVE  /\ c.at \in {"done", "insert", "close", "ask", "decide", "correct"}
         /\ c.at = "insert" => /\ c.user \in Users /\ c.restaurant \in Restaurants
                               /\ c.in \in Times
         /\ c.at = "close" => c.user \in Users /\ c.entry \in Entries /\ c.out \in Times
         /\ c.at = "ask" => /\ c.user \in Users /\ c.entry \in Entries
                            /\ c.in \in Times \cup {None} /\ c.out \in Times \cup {None}
         /\ c.at = "decide" => /\ c.user \in Managers /\ c.change \in Changes
                               /\ c.status \in {"approved", "rejected"}
         /\ c.at = "correct" => /\ c.user \in Managers /\ c.change \in Changes
                                /\ c.seen \in Entry
  BY DEF Call, Done

LEMMA InitInv == Init => Inv
<1> SUFFICES ASSUME Init PROVE Inv
  OBVIOUS
<1>1. TypeOK
  BY DEF Init, TypeOK, Call, Done, Exists
<1>2. OneOpenEntry
  BY DEF Init, OneOpenEntry, OpenEntries, Exists
<1>3. \A p \in Calls : Found(p)
  BY DEF Init, Found, Done
<1>4. \A k \in Changes : change[k] # None => Stored(k)
  BY DEF Init
<1>5. QED
  BY <1>1, <1>2, <1>3, <1>4 DEF Inv

\* A call that starts or goes on without writing only remembers what it saw.
LEMMA AwaitInv ==
  ASSUME Inv, NEW p \in Calls, NEW c \in Call, Awaits(p, c),
         UNCHANGED <<entry, change>>, Found(p)'
  PROVE  Inv'
<1>1. TypeOK'
  BY DEF Inv, TypeOK, Awaits, Exists
<1>2. OneOpenEntry'
  BY DEF Inv, OneOpenEntry, OpenEntries, Exists
<1>3. ASSUME NEW q \in Calls PROVE Found(q)'
  <2>1. CASE q = p
    BY <2>1
  <2>2. CASE q # p
    <3>1. call'[q] = call[q]
      BY <2>2 DEF Inv, TypeOK, Awaits
    <3>2. QED
      BY <3>1 DEF Inv, Found, Stored
  <2>3. QED
    BY <2>1, <2>2
<1>4. \A k \in Changes : change'[k] # None => Stored(k)'
  BY DEF Inv, Stored
<1>5. QED
  BY <1>1, <1>2, <1>3, <1>4 DEF Inv

\* A call that returns without having written anything.
LEMMA ReturnInv ==
  ASSUME Inv, NEW p \in Calls, Returns(p), UNCHANGED <<entry, change>>
  PROVE  Inv'
<1>1. TypeOK'
  BY DEF Inv, TypeOK, Returns, Call, Exists
<1>2. OneOpenEntry'
  BY DEF Inv, OneOpenEntry, OpenEntries, Exists
<1>3. ASSUME NEW q \in Calls PROVE Found(q)'
  <2>1. call'[q] = IF q = p THEN Done ELSE call[q]
    BY DEF Inv, TypeOK, Returns
  <2>2. QED
    BY <2>1 DEF Inv, Found, Stored, Done
<1>4. \A k \in Changes : change'[k] # None => Stored(k)'
  BY DEF Inv, Stored
<1>5. QED
  BY <1>1, <1>2, <1>3, <1>4 DEF Inv

\* A call that writes the entry e, opening it only where none is open, and
\* returns.
LEMMA EntryInv ==
  ASSUME Inv, NEW p \in Calls, NEW e \in Entries, NEW row \in Entry,
         entry' = [entry EXCEPT ![e] = row], Returns(p),
         \/ UNCHANGED change
         \/ \E k \in Changes : /\ Stored(k)
                               /\ change' = [change EXCEPT ![k].status = "approved"],
         row.status = "closed" => row.out # None,
         row.status = "open" => OpenEntries(row.user, row.restaurant) = {}
  PROVE  Inv'
<1> USE DEF Inv
<1>1. /\ \A f \in Entries : entry'[f] = IF f = e THEN row ELSE entry[f]
      /\ \A f \in Entries : entry[f] \in Entry => entry'[f] \in Entry
  BY DEF TypeOK
<1>2. \A k \in Changes : /\ change'[k] # None => change[k] # None \/ Stored(k)
                         /\ change[k] \in Change => /\ change'[k] \in Change
                                                    /\ change'[k].entry = change[k].entry
                         /\ change'[k] \in Change \cup {None}
  BY DEF TypeOK, Stored, Change
<1>3. TypeOK'
  <2>1. entry' \in [Entries -> Entry \cup {None}]
    BY DEF TypeOK
  <2>2. change' \in [Changes -> Change \cup {None}]
    BY <1>2 DEF TypeOK
  <2>3. call' \in [Calls -> Call]
    BY DEF TypeOK, Returns, Call
  <2>4. \A f \in Entries : Exists(f)' /\ entry'[f].status = "closed" => entry'[f].out # None
    BY <1>1 DEF TypeOK, Exists
  <2>5. QED
    BY <2>1, <2>2, <2>3, <2>4 DEF TypeOK
<1>4. OneOpenEntry'
  BY <1>1 DEF OneOpenEntry, OpenEntries, Exists
<1>5. ASSUME NEW k \in Changes, Stored(k) PROVE Stored(k)'
  BY <1>1, <1>2, <1>5 DEF Stored, Change
<1>6. ASSUME NEW q \in Calls PROVE Found(q)'
  <2>1. CASE q = p
    BY <2>1 DEF Found, Returns, Done, TypeOK
  <2>2. CASE q # p
    <3>1. call'[q] = call[q] /\ call[q] \in Call
      BY <2>2 DEF Returns, TypeOK
    <3>2. QED
      BY <1>1, <1>5, <3>1, CallFields DEF Found
  <2>3. QED
    BY <2>1, <2>2
<1>7. \A k \in Changes : change'[k] # None => Stored(k)'
  BY <1>2, <1>5
<1>8. QED
  BY <1>3, <1>4, <1>6, <1>7

\* A call that writes a request about a stored entry, and goes on or returns.
LEMMA ChangeInv ==
  ASSUME Inv, NEW p \in Calls, NEW k \in Changes, NEW row \in Change,
         change' = [change EXCEPT ![k] = row], entry[row.entry] \in Entry,
         Returns(p), UNCHANGED entry
  PROVE  Inv'
<1> USE DEF Inv
<1>1. \A l \in Changes : change'[l] = IF l = k THEN row ELSE change[l]
  BY DEF TypeOK
<1>2. TypeOK'
  <2>1. call' \in [Calls -> Call]
    BY DEF TypeOK, Returns, Call
  <2>2. QED
    BY <2>1 DEF TypeOK, Exists
<1>3. OneOpenEntry'
  BY DEF OneOpenEntry, OpenEntries, Exists
<1>4. ASSUME NEW l \in Changes PROVE Stored(l) \/ l = k => Stored(l)'
  BY <1>1 DEF Stored
<1>5. ASSUME NEW q \in Calls PROVE Found(q)'
  <2>1. CASE q = p
    BY <2>1 DEF Found, Returns, Done, TypeOK
  <2>2. CASE q # p
    <3>1. call'[q] = call[q] /\ call[q] \in Call
      BY <2>2 DEF Returns, TypeOK
    <3>2. QED
      BY <1>4, <3>1, CallFields DEF Found
  <2>3. QED
    BY <2>1, <2>2
<1>6. \A l \in Changes : change'[l] # None => Stored(l)'
  BY <1>1, <1>4
<1>7. QED
  BY <1>2, <1>3, <1>5, <1>6

\* One step of a call preserves the invariant.
LEMMA StepInv == ASSUME Inv, NEW p \in Calls, Step(p) PROVE Inv'
<1> USE DEF Inv
<1>0. call[p] \in Call
  BY DEF TypeOK
<1>1. ASSUME NEW u \in Users, NEW r \in Restaurants, NEW t \in Times, ClockIn(p, u, r, t)
      PROVE  Inv'
  <2> DEFINE c == [at |-> "insert", user |-> u, restaurant |-> r, in |-> t]
  <2>1. c \in Call
    BY DEF Call
  <2>2. Found(p)'
    BY <1>1 DEF ClockIn, Awaits, Found, TypeOK
  <2>3. QED
    BY <1>1, <2>1, <2>2, AwaitInv DEF ClockIn, Starts, TypeOK
<1>2. ASSUME NEW u \in Users, NEW e \in Entries, NEW t \in Times, ClockOut(p, u, e, t)
      PROVE  Inv'
  <2> DEFINE c == [at |-> "close", user |-> u, entry |-> e, out |-> t]
  <2>1. c \in Call
    BY DEF Call
  <2>2. Found(p)'
    BY <1>2 DEF ClockOut, Awaits, Found, TypeOK, Exists
  <2>3. QED
    BY <1>2, <2>1, <2>2, AwaitInv DEF ClockOut, Starts, TypeOK
<1>3. ASSUME NEW u \in Users, NEW e \in Entries, NEW in \in Times \cup {None},
             NEW out \in Times \cup {None}, Ask(p, u, e, in, out)
      PROVE  Inv'
  <2> DEFINE c == [at |-> "ask", user |-> u, entry |-> e, in |-> in, out |-> out]
  <2>1. c \in Call
    BY DEF Call
  <2>2. Found(p)'
    BY <1>3 DEF Ask, Awaits, Found, TypeOK, Exists
  <2>3. QED
    BY <1>3, <2>1, <2>2, AwaitInv DEF Ask, Starts, TypeOK
<1>4. ASSUME NEW u \in Users, NEW k \in Changes, NEW d \in {"approved", "rejected"},
             Review(p, u, k, d)
      PROVE  Inv'
  <2> DEFINE c == [at |-> "decide", user |-> u, change |-> k, status |-> d]
  <2>1. c \in Call
    BY <1>4 DEF Call, Review
  <2>2. Found(p)'
    BY <1>4 DEF Review, Awaits, Found, Stored, TypeOK
  <2>3. QED
    BY <1>4, <2>1, <2>2, AwaitInv DEF Review, Starts, TypeOK
<1>5. ASSUME NEW e \in Entries, Insert(p, e)
      PROVE  Inv'
  <2> DEFINE row == NewEntry(p)
  <2>1. /\ call[p].user \in Users /\ call[p].restaurant \in Restaurants
        /\ call[p].in \in Times
    BY <1>0, <1>5, CallFields DEF Insert
  <2>2. row \in Entry /\ row.status = "open"
        /\ row.user = call[p].user /\ row.restaurant = call[p].restaurant
    BY <2>1 DEF NewEntry, Entry, Status
  <2>3. CASE OpenEntries(call[p].user, call[p].restaurant) = {}
    <3> HIDE DEF row
    <3>1. entry' = [entry EXCEPT ![e] = row]
      BY <1>5, <2>3 DEF Insert, row
    <3>2. QED
      BY <1>5, <2>2, <2>3, <3>1, EntryInv DEF Insert, Goes
  <2>4. CASE OpenEntries(call[p].user, call[p].restaurant) # {}
    <3>1. UNCHANGED <<entry, change>> /\ Returns(p)
      BY <1>5, <2>4 DEF Insert
    <3>2. QED
      BY <3>1, ReturnInv
  <2>5. QED
    BY <2>3, <2>4
<1>6. ASSUME Close(p)
      PROVE  Inv'
  <2> DEFINE e == call[p].entry
             row == [entry[e] EXCEPT !.out = call[p].out, !.status = "closed"]
  <2>1. e \in Entries /\ call[p].out \in Times /\ entry[e] \in Entry
    BY <1>0, <1>6, CallFields DEF Close, Found
  <2>2. row \in Entry /\ row.status = "closed" /\ row.out # None
    BY <2>1, TimeTrackingAssumption DEF Entry, Status
  <2>3. entry' = [entry EXCEPT ![e] = row]
    BY <1>6, <2>1 DEF Close, TypeOK
  <2> HIDE DEF e, row
  <2>4. QED
    BY <1>6, <2>1, <2>2, <2>3, EntryInv DEF Close, Goes
<1>7. ASSUME NEW k \in Changes, InsertChange(p, k)
      PROVE  Inv'
  <2> DEFINE e == call[p].entry
             row == [entry |-> e, restaurant |-> entry[e].restaurant,
                     in |-> call[p].in, out |-> call[p].out, by |-> call[p].user,
                     status |-> "pending"]
  <2>1. /\ call[p].user \in Users /\ e \in Entries /\ entry[e] \in Entry
        /\ call[p].in \in Times \cup {None} /\ call[p].out \in Times \cup {None}
    BY <1>0, <1>7, CallFields DEF InsertChange, Found
  <2>2. row \in Change /\ row.entry = e
    BY <2>1 DEF Change, Entry
  <2>3. change' = [change EXCEPT ![k] = row]
    BY <1>7 DEF InsertChange
  <2> HIDE DEF e, row
  <2>4. QED
    BY <1>7, <2>1, <2>2, <2>3, ChangeInv DEF InsertChange, Goes
<1>8. ASSUME Decide(p)
      PROVE  Inv'
  <2> DEFINE k == call[p].change
             rejected == [change[k] EXCEPT !.status = "rejected"]
             c == [at |-> "correct", user |-> call[p].user, change |-> k,
                   seen |-> entry[change[k].entry]]
  <2>1. /\ k \in Changes /\ Stored(k) /\ call[p].user \in Managers
        /\ call[p].status \in {"approved", "rejected"}
    BY <1>0, <1>8, CallFields DEF Decide, Found
  <2>2. CASE call[p].status = "rejected"
    <3>1. rejected \in Change /\ entry[rejected.entry] \in Entry
      BY <2>1 DEF Stored, Change
    <3>2. change' = [change EXCEPT ![k] = rejected]
      BY <1>8, <2>1, <2>2 DEF Decide, TypeOK
    <3> HIDE DEF k, rejected
    <3>3. QED
      BY <1>8, <2>1, <2>2, <3>1, <3>2, ChangeInv DEF Decide, Goes
  <2>3. CASE call[p].status # "rejected"
    <3>1. c \in Call
      BY <2>1 DEF Call, Stored
    <3>2. Awaits(p, c) /\ UNCHANGED <<entry, change>>
      BY <1>8, <2>3 DEF Decide, Goes
    <3>3. Found(p)'
      BY <2>1, <3>2 DEF Awaits, Found, Stored, TypeOK
    <3> HIDE DEF c
    <3>4. QED
      BY <3>1, <3>2, <3>3, AwaitInv DEF TypeOK
  <2>4. QED
    BY <2>2, <2>3
<1>9. ASSUME Correct(p)
      PROVE  Inv'
  <2> DEFINE k == call[p].change
             e == change[k].entry
             row == Corrected(k, call[p].seen)
  <2>1. k \in Changes /\ Stored(k) /\ call[p].seen \in Entry
    BY <1>0, <1>9, CallFields DEF Correct, Found
  <2>2. e \in Entries /\ change[k].in \in Times \cup {None}
                      /\ change[k].out \in Times \cup {None}
    BY <2>1 DEF Stored, Change
  <2>3. row \in Entry /\ row.status = "corrected"
    BY <2>1, <2>2 DEF Corrected, Or, Entry, Status
  <2>4. /\ entry' = [entry EXCEPT ![e] = row]
        /\ change' = [change EXCEPT ![k].status = "approved"]
    BY <1>9 DEF Correct
  <2> HIDE DEF k, e, row
  <2>5. QED
    BY <1>9, <2>1, <2>2, <2>3, <2>4, EntryInv DEF Correct, Goes
<1>10. ASSUME Abort(p)
       PROVE  Inv'
  <2>1. Returns(p) /\ UNCHANGED <<entry, change>>
    BY <1>10 DEF Abort
  <2>2. QED
    BY <2>1, ReturnInv
<1>11. QED
  BY <1>1, <1>2, <1>3, <1>4, <1>5, <1>6, <1>7, <1>8, <1>9, <1>10 DEF Step

LEMMA NextInv == Inv /\ [Next]_vars => Inv'
<1>1. ASSUME Inv, Next PROVE Inv'
  BY <1>1, StepInv DEF Next
<1>2. ASSUME Inv, UNCHANGED vars PROVE Inv'
  BY <1>2 DEF Inv, vars, TypeOK, OneOpenEntry, OpenEntries, Found, Stored, Exists
<1>3. QED
  BY <1>1, <1>2

\* Whatever calls interleave, every call in flight still finds the rows it saw
\* when it started.
THEOREM TimeTrackingInvariant == Spec => []Inv
  BY InitInv, NextInv, PTL DEF Spec

\* Rows and calls keep their types and a closed entry has its end, for any
\* number of calls in flight.
THEOREM TimeTrackingTypeCorrect == Spec => []TypeOK
<1>1. Inv => TypeOK
  BY DEF Inv
<1>2. QED
  BY <1>1, TimeTrackingInvariant, PTL

\* However many clock-ins interleave, a worker has one open entry in a
\* restaurant: the partial index and the corrections see to it.
THEOREM OneOpenEntryHolds == Spec => []OneOpenEntry
<1>1. Inv => OneOpenEntry
  BY DEF Inv
<1>2. QED
  BY <1>1, TimeTrackingInvariant, PTL

-----------------------------------------------------------------------------
(* Decisions and ends                                                      *)

\* Only a review that has not ended writes a decided request, and no other one
\* is let in.
LEMMA SettledStep ==
  ASSUME Inv, NEW p \in Calls, Step(p),
         NEW k \in Changes, change[k] # None, change[k].status # "pending"
  PROVE  /\ Reviews(k)' \subseteq Reviews(k)
         /\ Reviews(k) = {} => change'[k] = change[k]
<1>0. /\ call \in [Calls -> Call] /\ call[p] \in Call
      /\ change \in [Changes -> Change \cup {None}]
  BY DEF Inv, TypeOK
<1>1. CASE Returns(p)
  <2>1. Reviews(k)' \subseteq Reviews(k)
    BY <1>0, <1>1 DEF Returns, Reviews, Done
  <2>2. CASE UNCHANGED change
    BY <2>1, <2>2
  <2>3. ASSUME NEW l \in Changes, InsertChange(p, l) PROVE change'[k] = change[k]
    BY <1>0, <2>3 DEF InsertChange
  <2>4. CASE Decide(p) \/ Correct(p)
    BY <1>0, <2>1, <2>4 DEF Decide, Correct, Reviews
  <2>5. QED
    BY <2>1, <2>2, <2>3, <2>4
       DEF Step, ClockIn, ClockOut, Ask, Review, Insert, Close, Abort
<1>2. ASSUME NEW u \in Users, NEW l \in Changes, NEW d \in {"approved", "rejected"},
             Review(p, u, l, d)
      PROVE  l # k /\ Reviews(k)' \subseteq Reviews(k) /\ UNCHANGED change
  BY <1>0, <1>2 DEF Review, Awaits, Reviews
<1>3. CASE Decide(p) /\ ~Returns(p)
  BY <1>0, <1>3 DEF Decide, Awaits, Reviews
<1>4. ASSUME NEW c, Awaits(p, c), c.at \in {"insert", "close", "ask"}, UNCHANGED change
      PROVE  Reviews(k)' \subseteq Reviews(k)
  BY <1>0, <1>4 DEF Awaits, Reviews
<1>5. ASSUME NEW u \in Users, NEW t \in Times,
             \/ \E r \in Restaurants : ClockIn(p, u, r, t)
             \/ \E e \in Entries : ClockOut(p, u, e, t)
      PROVE  Reviews(k)' \subseteq Reviews(k) /\ UNCHANGED change
  BY <1>4, <1>5 DEF ClockIn, ClockOut
<1>6. ASSUME NEW u \in Users, NEW e \in Entries, NEW in \in Times \cup {None},
             NEW out \in Times \cup {None}, Ask(p, u, e, in, out)
      PROVE  Reviews(k)' \subseteq Reviews(k) /\ UNCHANGED change
  BY <1>4, <1>6 DEF Ask
<1>7. QED
  BY <1>1, <1>2, <1>3, <1>5, <1>6 DEF Step, Insert, InsertChange, Close, Correct, Abort

\* However calls interleave, a decision is only overturned by a review that was
\* let in before it was taken.
THEOREM DecisionSettlesHolds == Spec => DecisionSettles
<1>1. Inv /\ [Next]_vars =>
        [\A k \in Changes : change[k] # None /\ change[k].status # "pending" =>
           /\ Reviews(k)' \subseteq Reviews(k)
           /\ Reviews(k) = {} => change'[k] = change[k]]_vars
  BY SettledStep DEF Next
<1>2. QED
  BY <1>1, TimeTrackingInvariant, PTL DEF Spec, DecisionSettles

\* What an approval writes.
LEMMA CorrectWrites ==
  ASSUME Inv, NEW p \in Calls, Correct(p)
  PROVE  \E k \in Changes, e \in Entries :
           /\ k = call[p].change /\ change[k] \in Change /\ e = change[k].entry
           /\ entry[e] \in Entry /\ call[p].seen \in Entry
           /\ change' = [change EXCEPT ![k].status = "approved"]
           /\ entry' = [entry EXCEPT ![e] = Corrected(k, call[p].seen)]
           /\ change'[k].status = "approved"
           /\ entry'[e] = Corrected(k, call[p].seen)
<1> DEFINE k == call[p].change
           e == change[k].entry
<1>1. call[p] \in Call /\ call[p].at = "correct"
  BY DEF Correct, Inv, TypeOK
<1>2. k \in Changes /\ Stored(k) /\ call[p].seen \in Entry
  BY <1>1, CallFields DEF Inv, Found
<1>3. e \in Entries
  BY <1>2 DEF Stored, Change
<1>4. /\ change' = [change EXCEPT ![k].status = "approved"]
      /\ entry' = [entry EXCEPT ![e] = Corrected(k, call[p].seen)]
  BY DEF Correct
<1>5. change'[k].status = "approved" /\ entry'[e] = Corrected(k, call[p].seen)
  BY <1>2, <1>3, <1>4 DEF Inv, TypeOK, Stored, Change
<1>6. QED
  BY <1>2, <1>3, <1>4, <1>5 DEF Stored

\* Only a correction writes an approval or corrects an entry.
LEMMA AppliedStep ==
  ASSUME Inv, NEW p \in Calls, Step(p)
  PROVE  /\ \A k \in Changes :
              change[k] # None /\ change[k].status # "approved" /\ change'[k].status = "approved" =>
                LET e == entry'[change[k].entry]
                IN  /\ e.status = "corrected"
                    /\ change[k].in \in {None, e.in} /\ change[k].out \in {None, e.out}
         /\ \A e \in Entries :
              Exists(e) /\ entry[e].status # "corrected" /\ entry'[e].status = "corrected" =>
                \E k \in Changes : /\ change[k] # None /\ change[k].entry = e
                                   /\ change'[k].status = "approved"
<1>0. /\ call[p] \in Call /\ entry \in [Entries -> Entry \cup {None}]
      /\ change \in [Changes -> Change \cup {None}]
  BY DEF Inv, TypeOK
<1>1. CASE Correct(p)
  <2>1. PICK k \in Changes, e \in Entries :
           /\ k = call[p].change /\ change[k] \in Change /\ e = change[k].entry
           /\ entry[e] \in Entry /\ call[p].seen \in Entry
           /\ change' = [change EXCEPT ![k].status = "approved"]
           /\ entry' = [entry EXCEPT ![e] = Corrected(k, call[p].seen)]
           /\ change'[k].status = "approved"
           /\ entry'[e] = Corrected(k, call[p].seen)
    BY <1>1, CorrectWrites
  <2>2. /\ \A l \in Changes \ {k} : change'[l] = change[l]
        /\ \A f \in Entries \ {e} : entry'[f] = entry[f]
    BY <1>0, <2>1
  <2>3. /\ entry'[e].status = "corrected"
        /\ change[k].in \in {None, entry'[e].in} /\ change[k].out \in {None, entry'[e].out}
    <3>1. /\ entry'[e].status = "corrected"
          /\ entry'[e].in = Or(change[k].in, call[p].seen.in)
          /\ entry'[e].out = Or(change[k].out, call[p].seen.out)
      BY <2>1 DEF Corrected, Entry
    <3>2. QED
      BY <3>1 DEF Or
  <2>4. change[k] # None
    BY <2>1, NoneIsNoRow
  <2>5. QED
    BY <2>1, <2>2, <2>3, <2>4
<1>2. ASSUME NEW f \in Entries, Insert(p, f) PROVE \A e \in Entries : Exists(e) => entry'[e] = entry[e]
  BY <1>0, <1>2 DEF Insert, Exists
<1>3. CASE Close(p)
  <2>1. UNCHANGED change
    BY <1>3 DEF Close
  <2>2. \A e \in Entries : entry'[e] = entry[e] \/ entry'[e].status = "closed"
    BY <1>0, <1>3, CallFields DEF Close, Inv, Found, Entry
  <2>3. QED
    BY <2>1, <2>2
<1>4. ASSUME NEW l \in Changes, InsertChange(p, l)
      PROVE  \A k \in Changes : change[k] # None => change'[k] = change[k]
  BY <1>0, <1>4 DEF InsertChange
<1>5. CASE Decide(p)
  BY <1>0, <1>5, CallFields DEF Decide, Inv, Found, Stored, Change
<1>6. QED
  BY <1>1, <1>2, <1>3, <1>4, <1>5
     DEF Step, ClockIn, ClockOut, Ask, Review, Insert, InsertChange, Abort

\* An approval and the correction it stands for are written together or not at
\* all, whatever fails or overlaps.
THEOREM ApprovedIsAppliedHolds == Spec => ApprovedIsApplied
<1>1. Inv /\ [Next]_vars =>
        [/\ \A k \in Changes :
              change[k] # None /\ change[k].status # "approved" /\ change'[k].status = "approved" =>
                LET e == entry'[change[k].entry]
                IN  /\ e.status = "corrected"
                    /\ change[k].in \in {None, e.in} /\ change[k].out \in {None, e.out}
         /\ \A e \in Entries :
              Exists(e) /\ entry[e].status # "corrected" /\ entry'[e].status = "corrected" =>
                \E k \in Changes : /\ change[k] # None /\ change[k].entry = e
                                   /\ change'[k].status = "approved"]_vars
  BY AppliedStep DEF Next
<1>2. QED
  BY <1>1, TimeTrackingInvariant, PTL DEF Spec, ApprovedIsApplied

\* An end is only written over by a clock-out or a correction.
LEMMA EndStep ==
  ASSUME Inv, NEW p \in Calls, Step(p),
         NEW e \in Entries, Exists(e), entry[e].out # None, entry'[e].out # entry[e].out
  PROVE  \/ \E k \in Changes : /\ change[k] # None /\ change[k].entry = e
                               /\ change'[k].status = "approved"
                               /\ change[k].out # None /\ change[k].out = entry'[e].out
         \/ \E q \in Calls : call[q].at = "close" /\ call[q].entry = e
         \/ \E q \in Calls : /\ call[q].at = "correct" /\ change[call[q].change].entry = e
                             /\ call[q].seen # entry[e]
<1>0. /\ call[p] \in Call /\ entry \in [Entries -> Entry \cup {None}]
      /\ change \in [Changes -> Change \cup {None}]
  BY DEF Inv, TypeOK
<1>1. ASSUME NEW f \in Entries, Insert(p, f) PROVE FALSE
  BY <1>0, <1>1 DEF Insert, Exists
<1>2. CASE Close(p)
  <2>1. call[p].entry \in Entries /\ call[p].at = "close"
    BY <1>0, <1>2, CallFields DEF Close
  <2>2. call[p].entry = e
    BY <1>0, <1>2, <2>1 DEF Close
  <2>3. QED
    BY <2>1, <2>2
<1>3. CASE Correct(p)
  <2>1. PICK k \in Changes, f \in Entries :
           /\ k = call[p].change /\ change[k] \in Change /\ f = change[k].entry
           /\ entry[f] \in Entry /\ call[p].seen \in Entry
           /\ entry' = [entry EXCEPT ![f] = Corrected(k, call[p].seen)]
           /\ change'[k].status = "approved"
           /\ entry'[f] = Corrected(k, call[p].seen)
    BY <1>3, CorrectWrites
  <2>2. e = f /\ change[k] # None
    BY <1>0, <2>1, NoneIsNoRow
  <2>3. entry'[e].out = Or(change[k].out, call[p].seen.out)
    BY <2>1, <2>2 DEF Corrected, Entry
  <2>4. CASE change[k].out # None
    BY <2>1, <2>2, <2>3, <2>4 DEF Or
  <2>5. CASE change[k].out = None
    BY <1>3, <2>1, <2>2, <2>3, <2>5 DEF Or, Correct
  <2>6. QED
    BY <2>4, <2>5
<1>4. QED
  BY <1>1, <1>2, <1>3 DEF Step, ClockIn, ClockOut, Ask, Review, InsertChange, Decide, Abort

\* However calls interleave, an end once set is only replaced by the end that an
\* approved request asks for, by a clock-out that had found the entry open, or by
\* an approval that had read the entry before it was written last.
THEOREM EndKeptHolds == Spec => EndKept
<1>1. Inv /\ [Next]_vars =>
        [\A e \in Entries :
           Exists(e) /\ entry[e].out # None /\ entry'[e].out # entry[e].out =>
             \/ \E k \in Changes : /\ change[k] # None /\ change[k].entry = e
                                   /\ change'[k].status = "approved"
                                   /\ change[k].out # None /\ change[k].out = entry'[e].out
             \/ \E p \in Calls : call[p].at = "close" /\ call[p].entry = e
             \/ \E p \in Calls : /\ call[p].at = "correct" /\ change[call[p].change].entry = e
                                 /\ call[p].seen # entry[e]]_vars
  BY EndStep DEF Next
<1>2. QED
  BY <1>1, TimeTrackingInvariant, PTL DEF Spec, EndKept
==============================================================================
