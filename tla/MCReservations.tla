--------------------------- MODULE MCReservations ---------------------------
(* Reservations on small instances.  The ids are interchangeable.          *)
EXTENDS Reservations, TLC

Symmetry == Permutations(Tables) \cup Permutations(Reservations)
            \cup Permutations(Requests)
=============================================================================
