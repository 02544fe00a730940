--------------------------- MODULE ApprovalStore ---------------------------
(***************************************************************************)
(* The approval state machine of daemon/plan.py: one small JSON object,    *)
(* data/approval-state.json, that the deadline brief (a fresh process per  *)
(* timer tick), the resident reply loop and a spawned build all load,      *)
(* change in memory and write back whole.                                  *)
(*                                                                         *)
(* A store is a record; every method of ApprovalStore is an operator from  *)
(* the store it is called on to the store it saves.  Which process calls   *)
(* it, on how old a copy, and when, is the business of the modules that    *)
(* EXTEND this one.                                                        *)
(*                                                                         *)
(* A plan is an opaque value: two plans are equal here exactly when        *)
(* plans_differ says they do not differ (same sets of transfers, XI and    *)
(* contingencies, same hits, captain, vice and chip, case folded).         *)
(***************************************************************************)
EXTENDS Naturals

CONSTANTS
  Plans,      \* the plans a brief or an iterate may carry
  ChipPlans,  \* those of them that play a chip
  Issues,     \* GitHub issue numbers a build may be commissioned for
  Pids,       \* process ids a spawned build may get
  LastGw,     \* bound: the season ends after this gameweek
  NONE        \* Python's None

ASSUME PlansAssumption == NONE \notin Plans /\ ChipPlans \subseteq Plans
ASSUME LastGwAssumption == LastGw \in Nat \ {0}

Gameweek == 1 .. LastGw
NoGw == 0     \* "gw": None of the idle store

OptPlan == Plans \cup {NONE}
Phases == {"idle", "awaiting_approval", "approved", "locked", "acted", "no_write"}

\* Faulty: an iterate would be taken in any phase but idle.
OpenUnlessIdle == Phases \ {"idle"}

(* The phases in which a reply that carries a plan is an iterate, and the  *)
(* phases in which the deadline has been dealt with.                       *)
Open == {"awaiting_approval", "approved", "locked"}
Terminal == {"acted", "no_write"}

(* The pending slot is known by its issue: the title, the spec and the     *)
(* time it was queued ride along unread.                                   *)
RunningBuild == [issue : Issues, pid : Pids]

ASSUME BuildsAssumption == NONE \notin Issues /\ NONE \notin RunningBuild

Store == [gw : Gameweek \cup {NoGw}, phase : Phases,
          pending_plan : OptPlan, approved_plan : OptPlan,
          draft_sent : BOOLEAN, final_sent : BOOLEAN,
          pending_build : Issues \cup {NONE},
          running_build : RunningBuild \cup {NONE}]

(* _IDLE: also what load() returns for a missing or corrupt file.          *)
Idle == [gw |-> NoGw, phase |-> "idle",
         pending_plan |-> NONE, approved_plan |-> NONE,
         draft_sent |-> FALSE, final_sent |-> FALSE,
         pending_build |-> NONE, running_build |-> NONE]

\* Faulty: the plan fields of the last gameweek are kept.
ResetGwOnly(s, gw) == [s EXCEPT !.gw = gw, !.draft_sent = FALSE, !.final_sent = FALSE]

\* Faulty: a fresh cycle starts from nothing at all.
ResetForDropsBuilds(s, gw) == [Idle EXCEPT !.gw = gw]

(* A fresh deadline cycle: the plan fields start over, the build slots     *)
(* survive.                                                                *)
ResetFor(s, gw) == [Idle EXCEPT !.gw = gw,
                                !.pending_build = s.pending_build,
                                !.running_build = s.running_build]

(* The draft's plan becomes the pending snapshot.  approved_plan is left   *)
(* as it was.                                                              *)
SetPending(s, gw, plan) == [s EXCEPT !.gw = gw,
                                     !.pending_plan = plan,
                                     !.phase = "awaiting_approval"]

Approve(s) == [s EXCEPT !.approved_plan = s.pending_plan,
                        !.phase = "approved"]

\* Faulty: the prior approval is not cleared.
VoidCarryKeepsApproval(s, plan) ==
  [s EXCEPT !.pending_plan = plan, !.phase = "awaiting_approval"]

VoidCarry(s, plan) == [s EXCEPT !.pending_plan = plan,
                                !.approved_plan = NONE,
                                !.phase = "awaiting_approval"]

QueueBuild(s, issue) == [s EXCEPT !.pending_build = issue]

RunBuild(s, running) == [s EXCEPT !.running_build = running,
                                  !.pending_build = NONE]

CancelBuild(s) == [s EXCEPT !.pending_build = NONE, !.running_build = NONE]

ClearRunningBuild(s) == [s EXCEPT !.running_build = NONE]
=============================================================================
