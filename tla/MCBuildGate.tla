---------------------------- MODULE MCBuildGate ----------------------------
(***************************************************************************)
(* BuildGate with two issues, two process ids and one plan.  A pid is free *)
(* for the next build as soon as it is reaped, so pids are reused.         *)
(***************************************************************************)
EXTENDS BuildGate, TLC

CONSTANTS plan, issue1, issue2, pid1, pid2

OnePlan == {plan}
TwoIssues == {issue1, issue2}
TwoPids == {pid1, pid2}

(* Neither issues nor pids are told apart by their value.                  *)
Interchangeable == Permutations(TwoIssues) \cup Permutations(TwoPids)
=============================================================================
