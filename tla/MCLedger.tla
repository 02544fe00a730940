------------------------------ MODULE MCLedger ------------------------------
(***************************************************************************)
(* An instance of Ledger for TLC with two processes, whatever they are: a  *)
(* spend of any kind may be either's.                                      *)
(***************************************************************************)
EXTENDS Ledger, TLC

CONSTANTS one, other

TwoProcs == {one, other}
Interchangeable == Permutations(TwoProcs)
=============================================================================
