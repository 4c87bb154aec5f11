----------------------------- MODULE MCRealtime -----------------------------
(* Realtime with two restaurants: a user who may work in the first one, in   *)
(* the organization of the second one, or in both.                          *)
EXTENDS Realtime

CONSTANTS ra, rb

GrantsMC == {[restaurants |-> {ra}, organizations |-> {}],
             [restaurants |-> {ra}, organizations |-> {{rb}}],
             [restaurants |-> {}, organizations |-> {{rb}}]}
=============================================================================
