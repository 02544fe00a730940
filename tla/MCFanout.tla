------------------------------ MODULE MCFanout ------------------------------
(***************************************************************************)
(* Instances of Fanout for TLC: two analysts, the AM and the Scout.        *)
(***************************************************************************)
EXTENDS Fanout

CONSTANTS a1, a2

TwoAnalysts == <<a1, a2>>
=============================================================================
