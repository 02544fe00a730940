----------------------------- MODULE WriteGate -----------------------------
(***************************************************************************)
(* What the approval protocol promises (plans/weekly-cycle.md section 3,   *)
(* the write gate of daemon/plan.py and daemon/brief.py), with no file, no *)
(* process and no message in it.                                           *)
(*                                                                         *)
(* In a gameweek one plan at most is asked about.  The gate opens only for *)
(* the plan that is asked about, whole, and only from closed; asking about *)
(* another plan closes it, so does a hold, which asks about the same plan  *)
(* again.  A decision at the deadline is to write the plan the gate is     *)
(* open for and nothing else, and to write nothing when it is closed.      *)
(***************************************************************************)
CONSTANTS Gameweeks, Plans, NONE

VARIABLES
  asked,    \* per gameweek: the plan a yes would approve
  gate,     \* per gameweek: the plan the gate is open for, or NONE
  decided   \* per gameweek: the last decision, [status, plan]

Init ==
  /\ asked = [g \in Gameweeks |-> NONE]
  /\ gate = [g \in Gameweeks |-> NONE]
  /\ decided = [g \in Gameweeks |-> [status |-> "none", plan |-> NONE]]

(* A brief, a changed final or an iterate: another plan is asked about.    *)
Ask(g, plan) ==
  /\ asked' = [asked EXCEPT ![g] = plan]
  /\ gate' = [gate EXCEPT ![g] = NONE]
  /\ UNCHANGED decided

(* A yes.                                                                  *)
Open(g) ==
  /\ asked[g] # NONE /\ gate[g] = NONE
  /\ gate' = [gate EXCEPT ![g] = asked[g]]
  /\ UNCHANGED <<asked, decided>>

(* STOP: the same plan waits for a fresh yes.                              *)
Hold(g) ==
  /\ gate[g] # NONE
  /\ asked' = [asked EXCEPT ![g] = gate[g]]
  /\ gate' = [gate EXCEPT ![g] = NONE]
  /\ UNCHANGED decided

(* The deadline.                                                           *)
Decide(g) ==
  /\ \/ /\ gate[g] # NONE
        /\ decided' = [decided EXCEPT ![g] = [status |-> "locked", plan |-> gate[g]]]
     \/ /\ gate[g] = NONE
        /\ decided' = [decided EXCEPT ![g] = [status |-> "no_write", plan |-> NONE]]
  /\ UNCHANGED <<asked, gate>>

(* The decision has been carried out: the gate does not stay open.         *)
Shut(g) ==
  /\ decided[g].status = "locked" /\ gate[g] = decided[g].plan
  /\ gate' = [gate EXCEPT ![g] = NONE]
  /\ UNCHANGED <<asked, decided>>

Next ==
  \E g \in Gameweeks :
    \/ \E plan \in Plans \cup {NONE} : Ask(g, plan)
    \/ Open(g) \/ Hold(g) \/ Decide(g) \/ Shut(g)

Spec == Init /\ [][Next]_<<asked, gate, decided>>
=============================================================================
