--------------------------- MODULE MCFloorLoader ---------------------------
(* FloorLoader with two restaurants: the first user works in both, the      *)
(* second in one of them.                                                   *)
EXTENDS FloorLoader

CONSTANTS ra, rb, u1, u2

AccessMC == [u \in Users |-> IF u = u1 THEN {ra, rb} ELSE {ra}]
=============================================================================
