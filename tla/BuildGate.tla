----------------------------- MODULE BuildGate -----------------------------
(***************************************************************************)
(* Commissioned builds: the two build slots of the store (one build pends, *)
(* one runs), the reply loop that queues, starts and cancels builds        *)
(* (daemon/build.py, daemon/loop.py), the spawned `daemon build N` that    *)
(* frees its slot when it ends (daemon/__main__.py), and the brief wake as *)
(* the other process that saves the same file whole.                       *)
(*                                                                         *)
(* The loop works on the copy it loaded when the message came in (cmem):   *)
(* through the model call of a chat and through the GitHub lookup of a     *)
(* `build #N`.  So does a wake through the making of its brief (wmem), and *)
(* a build that ends between its load and its save (kmem).                 *)
(*                                                                         *)
(* A build that ended is a zombie until the daemon next starts any child   *)
(* process (subprocess reaps its abandoned children then), and a zombie    *)
(* answers the signal-0 probe of pid_alive.                                *)
(***************************************************************************)
EXTENDS ApprovalStore

CONSTANTS
  MaxMessages,    \* bound: messages the loop handles in a behaviour
  MaxFaults,      \* bound: killed builds and wakes, failed spawns, restarts
  Overlap         \* may two processes be between a load and a save at once?

ASSUME BoundsAssumption == MaxMessages \in Nat /\ MaxFaults \in Nat
ASSUME OverlapAssumption == Overlap \in BOOLEAN

VARIABLES
  gw,       \* the gameweek of the next deadline
  disk,     \* data/approval-state.json
  procs,    \* per pid: the build process that has it
  kmem,     \* per pid: the copy a build that is ending has loaded
  cpc, cmem, cnum, cpid,   \* the reply loop: where it is, its copy, the issue
                           \* number it handles, the pid it has just spawned
  wpc, wmem,               \* the brief wake
  messages, faults

builds == <<procs, kmem>>
chat == <<cpc, cmem, cnum, cpid, messages>>
wake == <<wpc, wmem>>
vars == <<gw, disk, builds, chat, wake, faults>>

NoProc == [issue |-> NONE, state |-> "none"]
Proc == [issue : Issues \cup {NONE}, state : {"none", "run", "end", "zombie"}]
ChatPc == {"idle", "start", "lookup", "spawn", "record", "cancel", "think", "reply",
           "recover"}
NoNumber == NONE   \* a bare `build`

Init ==
  /\ gw = 1 /\ disk = Idle
  /\ procs = [p \in Pids |-> NoProc] /\ kmem = [p \in Pids |-> Idle]
  /\ cpc = "idle" /\ cmem = Idle /\ cnum = NoNumber /\ cpid = NONE
  /\ wpc = "off" /\ wmem = Idle
  /\ messages = 0 /\ faults = 0

Fault == faults < MaxFaults /\ faults' = faults + 1

Live(p) == procs[p].state \in {"run", "end"}

(* pid_alive.                                                              *)
PidAlive(p) == procs[p].state # "none"

(* What starting any child process does to the ones that ended.            *)
Reaped == [p \in Pids |-> IF procs[p].state = "zombie" THEN NoProc ELSE procs[p]]

-----------------------------------------------------------------------------
(* The reply loop, one message at a time.                                  *)

LoopIdle == cpc' = "idle" /\ cmem' = Idle /\ cnum' = NoNumber /\ cpid' = NONE

(* `build`, `build #N`, `cancel build`, or anything for the model.         *)
Take(where, number) ==
  /\ cpc = "idle" /\ messages < MaxMessages
  /\ Overlap \/ wpc = "off"
  /\ messages' = messages + 1
  /\ cpc' = where /\ cmem' = disk /\ cnum' = number
  /\ UNCHANGED <<gw, disk, builds, cpid, wake, faults>>

\* Faulty: a build that runs refuses nothing.
SlotNeverTaken == FALSE

SlotTaken == cmem.running_build # NONE /\ PidAlive(cmem.running_build.pid)

SlotFree == cmem.running_build = NONE

StartRefused ==
  /\ cpc = "start" /\ SlotTaken
  /\ LoopIdle
  /\ UNCHANGED <<gw, disk, builds, messages, wake, faults>>

(* A dead pid is a finished build: cleared before the start proceeds.      *)
StartClearsDead ==
  /\ cpc = "start" /\ ~SlotFree /\ ~SlotTaken
  /\ cmem' = ClearRunningBuild(cmem) /\ disk' = cmem'
  /\ UNCHANGED <<gw, builds, cpc, cnum, cpid, messages, wake, faults>>

\* Faulty: a bare `build` is looked up as well.
StartLooksUpAnything ==
  /\ cpc = "start" /\ SlotFree /\ cmem.pending_build = NONE
  /\ cpc' = "lookup"
  /\ UNCHANGED <<gw, disk, builds, cmem, cnum, cpid, messages, wake, faults>>

(* Nothing pending: a bare `build` is chat, `build #N` is looked up.       *)
StartUnqueued ==
  /\ cpc = "start" /\ SlotFree /\ cmem.pending_build = NONE
  /\ cpc' = IF cnum = NoNumber THEN "think" ELSE "lookup"
  /\ UNCHANGED <<gw, disk, builds, cmem, cnum, cpid, messages, wake, faults>>

NamesPending == cnum \in {NoNumber, cmem.pending_build}

StartPending ==
  /\ cpc = "start" /\ SlotFree /\ cmem.pending_build # NONE
  /\ IF NamesPending
       THEN cpc' = "spawn" /\ cnum' = cmem.pending_build /\ UNCHANGED <<cmem, cpid>>
       ELSE LoopIdle
  /\ UNCHANGED <<gw, disk, builds, messages, wake, faults>>

(* The host knows the issue, or it does not, or it does not answer.        *)
LookupAnswers ==
  /\ cpc = "lookup"
  /\ procs' = Reaped
  /\ \/ cpc' = "spawn" /\ UNCHANGED <<cmem, cnum, cpid>>
     \/ LoopIdle
  /\ UNCHANGED <<gw, disk, kmem, messages, wake, faults>>

Spawns(p) ==
  /\ cpc = "spawn" /\ Reaped[p] = NoProc
  /\ procs' = [Reaped EXCEPT ![p] = [issue |-> cnum, state |-> "run"]]
  /\ cpc' = "record" /\ cpid' = p
  /\ UNCHANGED <<gw, disk, kmem, cmem, cnum, messages, wake, faults>>

SpawnFails ==
  /\ Fault
  /\ cpc = "spawn"
  /\ procs' = Reaped
  /\ LoopIdle
  /\ UNCHANGED <<gw, disk, kmem, messages, wake>>

Records ==
  /\ cpc = "record"
  /\ disk' = RunBuild(cmem, [issue |-> cnum, pid |-> cpid])
  /\ LoopIdle
  /\ UNCHANGED <<gw, builds, messages, wake, faults>>

(* Both slots are cleared and the running build's process group is sent    *)
(* SIGTERM, which a build does not handle; with nothing in either slot     *)
(* `cancel build` is chat.                                                 *)
Cancels ==
  /\ cpc = "cancel" /\ (cmem.pending_build # NONE \/ ~SlotFree)
  /\ procs' = IF SlotTaken
                THEN [procs EXCEPT ![cmem.running_build.pid].state = "zombie"]
                ELSE procs
  /\ disk' = CancelBuild(cmem)
  /\ LoopIdle
  /\ UNCHANGED <<gw, kmem, messages, wake, faults>>

CancelsNothing ==
  /\ cpc = "cancel" /\ cmem.pending_build = NONE /\ SlotFree
  /\ cpc' = "think"
  /\ UNCHANGED <<gw, disk, builds, cmem, cnum, cpid, messages, wake, faults>>

(* A model call; a tool it uses may ask GitHub.  Its reply may carry a     *)
(* plan, saved as an iterate of the copy loaded before the call.           *)
ModelReplies(plan) ==
  /\ cpc = "think"
  /\ procs' \in {procs, Reaped}
  /\ IF plan # NONE /\ cmem.phase \in Open
       THEN cmem' = VoidCarry(cmem, plan) /\ disk' = cmem'
       ELSE UNCHANGED <<cmem, disk>>
  /\ cpc' = "reply"
  /\ UNCHANGED <<gw, kmem, cnum, cpid, messages, wake, faults>>

NonePending == cmem.pending_build = NONE

(* A build block in the reply: the issue it names, or one that is opened   *)
(* for it, becomes the pending build unless one is pending.                *)
Commissions(issue) ==
  /\ cpc = "reply" /\ NonePending
  /\ procs' \in {procs, Reaped}
  /\ disk' = QueueBuild(cmem, issue)
  /\ LoopIdle
  /\ UNCHANGED <<gw, kmem, messages, wake, faults>>

(* No block, a second build, or an issue that could not be opened.         *)
CommissionsNothing ==
  /\ cpc = "reply"
  /\ procs' \in {procs, Reaped}
  /\ LoopIdle
  /\ UNCHANGED <<gw, disk, kmem, messages, wake, faults>>

(* systemd stops the whole control group of the daemon, its builds with    *)
(* it, and starts it again: recover_builds comes before the first message. *)
DaemonRestarts ==
  /\ Fault
  /\ procs' = [p \in Pids |-> NoProc] /\ kmem' = [p \in Pids |-> Idle]
  /\ cpc' = "recover" /\ cmem' = Idle /\ cnum' = NoNumber /\ cpid' = NONE
  /\ UNCHANGED <<gw, disk, messages, wake>>

\* Faulty: a daemon that restarts forgets the queue with the dead build.
RecoverForgetsQueue ==
  /\ cpc = "recover"
  /\ disk' = IF disk.running_build # NONE /\ ~PidAlive(disk.running_build.pid)
               THEN CancelBuild(disk) ELSE disk
  /\ LoopIdle
  /\ UNCHANGED <<gw, builds, messages, wake, faults>>

RecoverBuilds ==
  /\ cpc = "recover"
  /\ disk' = IF disk.running_build # NONE /\ ~PidAlive(disk.running_build.pid)
               THEN ClearRunningBuild(disk) ELSE disk
  /\ LoopIdle
  /\ UNCHANGED <<gw, builds, messages, wake, faults>>

LoopNext ==
  \/ \E n \in Issues \cup {NoNumber} : Take("start", n)
  \/ Take("cancel", NoNumber) \/ Take("think", NoNumber)
  \/ StartRefused \/ StartClearsDead \/ StartUnqueued \/ StartPending
  \/ LookupAnswers \/ (\E p \in Pids : Spawns(p)) \/ SpawnFails \/ Records
  \/ Cancels \/ CancelsNothing
  \/ \E plan \in OptPlan : ModelReplies(plan)
  \/ \E issue \in Issues : Commissions(issue)
  \/ CommissionsNothing
  \/ DaemonRestarts \/ RecoverBuilds

-----------------------------------------------------------------------------
(* The build process: it works, then loads the store and, if the slot is   *)
(* still its issue's, clears it, saves and exits.                          *)

BuildEnds(p) ==
  /\ procs[p].state = "run"
  /\ procs' = [procs EXCEPT ![p].state = "end"]
  /\ kmem' = [kmem EXCEPT ![p] = disk]
  /\ UNCHANGED <<gw, disk, chat, wake, faults>>

(* The slot the ending build found is of its own issue.                    *)
OwnSlot(p) ==
  /\ kmem[p].running_build # NONE
  /\ kmem[p].running_build.issue = procs[p].issue

BuildExits(p) ==
  /\ procs[p].state = "end"
  /\ procs' = [procs EXCEPT ![p].state = "zombie"]
  /\ kmem' = [kmem EXCEPT ![p] = Idle]
  /\ disk' = IF OwnSlot(p) THEN ClearRunningBuild(kmem[p]) ELSE disk
  /\ UNCHANGED <<gw, chat, wake, faults>>

(* Killed from outside: it clears nothing.                                 *)
BuildKilled(p) ==
  /\ Fault
  /\ Live(p)
  /\ procs' = [procs EXCEPT ![p].state = "zombie"]
  /\ kmem' = [kmem EXCEPT ![p] = Idle]
  /\ UNCHANGED <<gw, disk, chat, wake>>

BuildNext == \E p \in Pids : BuildEnds(p) \/ BuildExits(p) \/ BuildKilled(p)

-----------------------------------------------------------------------------
(* The brief wake, as far as the build slots can tell: it loads, starts a  *)
(* fresh cycle for another gameweek, and saves its copy twice, the plan    *)
(* fields changed.                                                         *)

GameweekPasses ==
  /\ gw < LastGw /\ gw' = gw + 1
  /\ UNCHANGED <<disk, builds, chat, wake, faults>>

WakeStarts ==
  /\ wpc = "off"
  /\ Overlap \/ cpc = "idle"
  /\ disk' = IF disk.gw = gw THEN disk ELSE ResetFor(disk, gw)
  /\ \/ wpc' = "generate" /\ wmem' = disk'
     \/ UNCHANGED wake
  /\ UNCHANGED <<gw, builds, chat, faults>>

WakeSaves(plan) ==
  /\ wpc = "generate"
  /\ wpc' = "flag" /\ wmem' = SetPending(wmem, wmem.gw, plan) /\ disk' = wmem'
  /\ UNCHANGED <<gw, builds, chat, faults>>

WakeFlags ==
  /\ wpc = "flag"
  /\ disk' = [wmem EXCEPT !.draft_sent = TRUE]
  /\ wpc' = "off" /\ wmem' = Idle
  /\ UNCHANGED <<gw, builds, chat, faults>>

WakeDies ==
  /\ Fault
  /\ wpc # "off"
  /\ wpc' = "off" /\ wmem' = Idle
  /\ UNCHANGED <<gw, disk, builds, chat>>

WakeNext ==
  GameweekPasses \/ WakeStarts \/ (\E plan \in OptPlan : WakeSaves(plan))
    \/ WakeFlags \/ WakeDies

-----------------------------------------------------------------------------
(* Without Overlap nothing runs between the load and the save of a build   *)
(* that ends, and no wake runs while a message is handled; a build may     *)
(* still end while the model, the host or a brief is waited for.           *)
Next ==
  \/ (Overlap \/ \A p \in Pids : procs[p].state # "end") /\ (LoopNext \/ WakeNext)
  \/ BuildNext

Spec == Init /\ [][Next]_vars

-----------------------------------------------------------------------------
(* The variables have their types; a process that is not there has no      *)
(* issue, and a loop past the lookup has one.                              *)
TypeOK ==
  /\ gw \in Gameweek /\ disk \in Store
  /\ procs \in [Pids -> Proc] /\ kmem \in [Pids -> Store]
  /\ \A p \in Pids : procs[p].state = "none" <=> procs[p].issue = NONE
  /\ cpc \in ChatPc /\ cmem \in Store
  /\ cnum \in Issues \cup {NONE} /\ cpid \in Pids \cup {NONE}
  /\ cpc \in {"lookup", "spawn", "record"} => cnum # NONE
  /\ cpc = "record" => cpid \in Pids
  /\ wpc \in {"off", "generate", "flag"} /\ wmem \in Store
  /\ messages \in Nat /\ faults \in Nat

(* One build runs at a time (daemon/build.py): there are never two live    *)
(* `daemon build` processes.                                               *)
OneBuildRuns == \A p, q \in Pids : Live(p) /\ Live(q) => p = q

(* The running build is the one the store names, but for the moment        *)
(* between its spawn and the save: `cancel build` can always reach it.     *)
LiveBuildIsNamed ==
  \A p \in Pids : Live(p) =>
    \/ disk.running_build = [issue |-> procs[p].issue, pid |-> p]
    \/ cpc = "record" /\ cpid = p

(* The file, the copies of it and the processes together keep one queued   *)
(* and one running build as BuildQueue promises.  A build counts as        *)
(* started, and its issue as off the queue, from its spawn on: the save    *)
(* that follows makes it so in the file.                                   *)
Running ==
  IF cpc = "record" THEN cnum
  ELSE IF \E p \in Pids : Live(p) THEN procs[CHOOSE p \in Pids : Live(p)].issue
  ELSE NONE

(* What the message in hand asks for.                                      *)
Request ==
  CASE cpc \in {"idle", "recover"} -> "none"
    [] cpc \in {"start", "lookup", "spawn"} -> "start"
    [] cpc = "record" -> "starting"
    [] cpc = "cancel" -> "cancel"
    [] cpc \in {"think", "reply"} -> "chat"

Gate == INSTANCE BuildQueue WITH
  queued <- IF cpc = "record" THEN NONE ELSE disk.pending_build,
  running <- Running,
  request <- Request

(* A queued build leaves the queue by being started by a `build` or        *)
(* cancelled by a `cancel build` in hand; not by a new deadline cycle, an  *)
(* iterate, a second commission, another build's end or the daemon's       *)
(* restart; and none starts while another runs.                            *)
ImplementsBuildQueue == Gate!Spec

-----------------------------------------------------------------------------
(* run_build_cmd clears its slot on the way out, "so the gate is never     *)
(* stuck refusing the next build with a stale running_build": a start is   *)
(* refused as running only while a build runs.                             *)
RefusedOnlyWhileRunning == [][StartRefused => \E p \in Pids : Live(p)]_vars
=============================================================================
