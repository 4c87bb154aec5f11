--------------------------- MODULE MCTimeTracking ---------------------------
(* TimeTracking with calls and entries that are interchangeable.           *)
EXTENDS TimeTracking, TLC

Symmetry == Permutations(Calls) \cup Permutations(Entries)
=============================================================================
