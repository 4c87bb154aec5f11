-------------------------- MODULE MCOrderRequests --------------------------
(* OrderRequests on small instances.  The ids are interchangeable.         *)
EXTENDS OrderRequests, TLC, Functions

(* TotalOf counts cents; it is the sum of the subtotals calculateOrderTotals *)
(* adds up.                                                                  *)
ASSUME TotalIsSum ==
    \A o \in Orders, cents \in [Lines -> 0 .. MaxCents],
       status \in [Lines -> {"pending", "cancelled"}] :
        LET rows == [l \in Lines |-> [order |-> o, status |-> status[l],
                                      subtotal |-> cents[l]]]
        IN  TotalOf(o, rows)
              = SumFunctionOnSet(cents, {l \in Lines : status[l] # "cancelled"})

Symmetry == Permutations(Tables) \cup Permutations(Orders)
            \cup Permutations(Lines) \cup Permutations(Requests)
=============================================================================
