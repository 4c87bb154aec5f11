--------------------------- MODULE TimeTracking ---------------------------
(***************************************************************************)
(* Working time: a worker clocks in and out of a restaurant and asks for   *)
(* corrections of an entry, which a manager approves or rejects.  A call   *)
(* is interleaved with others between its statements; the correction is    *)
(* one transaction (READ COMMITTED) of two statements, and the row of the  *)
(* change request it has updated is locked until it commits.  Any call may *)
(* fail before it commits (Abort).                                         *)
(*                                                                         *)
(* Notes and reasons are left out; a time is a member of Times.            *)
(***************************************************************************)
EXTENDS FiniteSets

CONSTANTS Users, Managers, Restaurants, Times,
          Entries, Changes,  \* rows that can be created
          Calls,             \* calls in flight
          None

ASSUME TimeTrackingAssumption ==
    /\ Managers \subseteq Users
    /\ None \notin Users \cup Restaurants \cup Times \cup Entries \cup Changes

VARIABLES entry,      \* time_entries
          change,     \* time_entry_change_requests
          call        \* the calls

vars == <<entry, change, call>>

Status == {"open", "closed", "corrected"}
Entry == [user : Users, restaurant : Restaurants, in : Times,
          out : Times \cup {None}, status : Status]
Change == [entry : Entries, restaurant : Restaurants, in : Times \cup {None},
           out : Times \cup {None}, by : Users, status : {"pending", "approved", "rejected"}]

ASSUME NoneIsNoRow == None \notin Entry \cup Change

Done == [at |-> "done", user |-> None]

Starts(p) == call[p] = Done
Goes(p) == call[p] # Done
Returns(p) == call' = [call EXCEPT ![p] = Done]
Awaits(p, c) == call' = [call EXCEPT ![p] = c]

Exists(e) == entry[e] # None

-----------------------------------------------------------------------------
(* Clocking in                                                             *)

\* findOpenEntryForUser
OpenEntries(u, r) == {e \in Entries : /\ Exists(e)
                                      /\ entry[e].user = u /\ entry[e].restaurant = r
                                      /\ entry[e].status = "open"}

ClockIn(p, u, r, t) ==
    /\ Starts(p)
    /\ OpenEntries(u, r) = {}
    /\ Awaits(p, [at |-> "insert", user |-> u, restaurant |-> r, in |-> t])
    /\ UNCHANGED <<entry, change>>

NewEntry(p) == [user |-> call[p].user, restaurant |-> call[p].restaurant,
                in |-> call[p].in, out |-> None, status |-> "open"]

InsertUnindexed(p, e) ==
    /\ Goes(p) /\ call[p].at = "insert" /\ ~Exists(e)
    /\ entry' = [entry EXCEPT ![e] = NewEntry(p)]
    /\ Returns(p) /\ UNCHANGED change
\* createTimeEntry; the index time_entries_one_open_per_user_restaurant fails it.
Insert(p, e) ==
    /\ Goes(p) /\ call[p].at = "insert" /\ ~Exists(e)
    /\ entry' = IF OpenEntries(call[p].user, call[p].restaurant) = {}
                THEN [entry EXCEPT ![e] = NewEntry(p)] ELSE entry
    /\ Returns(p) /\ UNCHANGED change

-----------------------------------------------------------------------------
(* Clocking out                                                            *)

ClockOut(p, u, e, t) ==
    /\ Starts(p)
    /\ Exists(e) /\ entry[e].user = u /\ entry[e].status = "open"
    /\ Awaits(p, [at |-> "close", user |-> u, entry |-> e, out |-> t])
    /\ UNCHANGED <<entry, change>>

CloseWithoutEnd(p) ==
    /\ Goes(p) /\ call[p].at = "close"
    /\ entry' = [entry EXCEPT ![call[p].entry].status = "closed"]
    /\ Returns(p) /\ UNCHANGED change
\* closeTimeEntry: by id, whatever became of the entry since.
Close(p) ==
    /\ Goes(p) /\ call[p].at = "close"
    /\ entry' = [entry EXCEPT ![call[p].entry].out = call[p].out,
                              ![call[p].entry].status = "closed"]
    /\ Returns(p) /\ UNCHANGED change

-----------------------------------------------------------------------------
(* Corrections                                                             *)

\* The owner of an entry asks for other times, of those it leaves open none.
Ask(p, u, e, in, out) ==
    /\ Starts(p)
    /\ Exists(e) /\ entry[e].user = u
    /\ Awaits(p, [at |-> "ask", user |-> u, entry |-> e, in |-> in, out |-> out])
    /\ UNCHANGED <<entry, change>>

\* createTimeEntryChangeRequest
InsertChange(p, k) ==
    /\ Goes(p) /\ call[p].at = "ask" /\ change[k] = None
    /\ change' = [change EXCEPT ![k] =
         [entry |-> call[p].entry, restaurant |-> entry[call[p].entry].restaurant,
          in |-> call[p].in, out |-> call[p].out, by |-> call[p].user,
          status |-> "pending"]]
    /\ Returns(p) /\ UNCHANGED entry

ReviewAgain(p, u, k, decision) ==
    /\ Starts(p) /\ u \in Managers
    /\ change[k] # None
    /\ Awaits(p, [at |-> "decide", user |-> u, change |-> k, status |-> decision])
    /\ UNCHANGED <<entry, change>>
\* canReviewTeamEntries, and the request is pending.
Review(p, u, k, decision) ==
    /\ Starts(p) /\ u \in Managers
    /\ change[k] # None /\ change[k].status = "pending"
    /\ Awaits(p, [at |-> "decide", user |-> u, change |-> k, status |-> decision])
    /\ UNCHANGED <<entry, change>>

Locked(k) == \E p \in Calls : call[p].at = "correct" /\ call[p].change = k

\* The first statement of the transaction writes the decision and its include
\* reads the entry; a rejection commits.  An approval is not seen before it
\* commits, but its row is locked.
DecideAtOnce(p) ==
    /\ Goes(p) /\ call[p].at = "decide" /\ ~Locked(call[p].change)
    /\ change' = [change EXCEPT ![call[p].change].status = call[p].status]
    /\ IF call[p].status = "rejected"
       THEN Returns(p)
       ELSE Awaits(p, [at |-> "correct", user |-> call[p].user,
                       change |-> call[p].change,
                       seen |-> entry[change[call[p].change].entry]])
    /\ UNCHANGED entry
Decide(p) ==
    /\ Goes(p) /\ call[p].at = "decide" /\ ~Locked(call[p].change)
    /\ IF call[p].status = "rejected"
       THEN /\ change' = [change EXCEPT ![call[p].change].status = "rejected"]
            /\ Returns(p)
       ELSE /\ Awaits(p, [at |-> "correct", user |-> call[p].user,
                          change |-> call[p].change,
                          seen |-> entry[change[call[p].change].entry]])
            /\ UNCHANGED change
    /\ UNCHANGED entry

Or(asked, old) == IF asked # None THEN asked ELSE old
AskedOnly(k, old) == [old EXCEPT !.in = Or(change[k].in, @),
                                 !.out = change[k].out, !.status = "corrected"]
\* The times asked for, and for the others those of the entry read before.
Corrected(k, old) == [old EXCEPT !.in = Or(change[k].in, @),
                                 !.out = Or(change[k].out, @), !.status = "corrected"]

\* An approval corrects the entry and commits.
Correct(p) ==
    /\ Goes(p) /\ call[p].at = "correct"
    /\ LET k == call[p].change
       IN  /\ change' = [change EXCEPT ![k].status = "approved"]
           /\ entry' = [entry EXCEPT ![change[k].entry] = Corrected(k, call[p].seen)]
    /\ Returns(p)

\* A call ends in an error, or its transaction is rolled back.
Abort(p) == Goes(p) /\ Returns(p) /\ UNCHANGED <<entry, change>>

-----------------------------------------------------------------------------
Init ==
    /\ entry = [e \in Entries |-> None]
    /\ change = [k \in Changes |-> None]
    /\ call = [p \in Calls |-> Done]

Step(p) ==
    \/ \E u \in Users, t \in Times :
         \/ \E r \in Restaurants : ClockIn(p, u, r, t)
         \/ \E e \in Entries : ClockOut(p, u, e, t)
    \/ \E u \in Users, e \in Entries, in, out \in Times \cup {None} : Ask(p, u, e, in, out)
    \/ \E u \in Users, k \in Changes, d \in {"approved", "rejected"} : Review(p, u, k, d)
    \/ \E e \in Entries : Insert(p, e)
    \/ \E k \in Changes : InsertChange(p, k)
    \/ Close(p) \/ Decide(p) \/ Correct(p) \/ Abort(p)

Next == \E p \in Calls : Step(p)

Spec == Init /\ [][Next]_vars

-----------------------------------------------------------------------------
(* Properties                                                              *)

Call == {Done}
  \cup [at : {"insert"}, user : Users, restaurant : Restaurants, in : Times]
  \cup [at : {"close"}, user : Users, entry : Entries, out : Times]
  \cup [at : {"ask"}, user : Users, entry : Entries,
        in : Times \cup {None}, out : Times \cup {None}]
  \cup [at : {"decide"}, user : Managers, change : Changes,
        status : {"approved", "rejected"}]
  \cup [at : {"correct"}, user : Managers, change : Changes, seen : Entry]

\* Rows and calls have their types, and a closed entry has its end.
TypeOK ==
    /\ entry \in [Entries -> Entry \cup {None}]
    /\ change \in [Changes -> Change \cup {None}]
    /\ call \in [Calls -> Call]
    /\ \A e \in Entries : Exists(e) /\ entry[e].status = "closed" => entry[e].out # None

\* However clock-ins interleave, a worker has one open entry in a restaurant:
\* what the check of the use case misses, the partial index refuses.
OneOpenEntry == \A u \in Users, r \in Restaurants :
    \A e, f \in OpenEntries(u, r) : e = f

\* The reviews of a request that have seen it pending and not ended yet.
Reviews(k) == {p \in Calls : call[p].at \in {"decide", "correct"} /\ call[p].change = k}

\* However calls interleave, a decision is only overturned by a review that had
\* been let in before it was taken: no other is, and without one it is final.
DecisionSettles == [][\A k \in Changes :
    change[k] # None /\ change[k].status # "pending" =>
      /\ Reviews(k)' \subseteq Reviews(k)
      /\ Reviews(k) = {} => change'[k] = change[k]]_vars

\* A request is approved and its entry corrected together or not at all, whatever
\* fails or overlaps: the entry takes the times that were asked for.
ApprovedIsApplied == [][
    /\ \A k \in Changes :
         change[k] # None /\ change[k].status # "approved" /\ change'[k].status = "approved" =>
           LET e == entry'[change[k].entry]
           IN  /\ e.status = "corrected"
               /\ change[k].in \in {None, e.in} /\ change[k].out \in {None, e.out}
    /\ \A e \in Entries :
         Exists(e) /\ entry[e].status # "corrected" /\ entry'[e].status = "corrected" =>
           \E k \in Changes : /\ change[k] # None /\ change[k].entry = e
                              /\ change'[k].status = "approved"]_vars

\* However calls interleave, the end of a worker's day is only replaced by one
\* that an approved request asks for, by a clock-out that had found the entry
\* open, or by an approval that had read the entry before it was written last.
EndKept == [][\A e \in Entries :
    Exists(e) /\ entry[e].out # None /\ entry'[e].out # entry[e].out =>
      \/ \E k \in Changes : /\ change[k] # None /\ change[k].entry = e
                            /\ change'[k].status = "approved"
                            /\ change[k].out # None /\ change[k].out = entry'[e].out
      \/ \E p \in Calls : call[p].at = "close" /\ call[p].entry = e
      \/ \E p \in Calls : /\ call[p].at = "correct" /\ change[call[p].change].entry = e
                          /\ call[p].seen # entry[e]]_vars
=============================================================================
