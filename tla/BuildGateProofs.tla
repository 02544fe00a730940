-------------------------- MODULE BuildGateProofs --------------------------
(***************************************************************************)
(* One build runs at a time, the store names it, and the slots and the     *)
(* child processes together implement BuildQueue: proved for any issues,   *)
(* process ids, messages, gameweeks and faults, provided no two processes  *)
(* are between a load and a save at once (Overlap = FALSE).  With Overlap  *)
(* TLC refutes the first two.                                              *)
(*                                                                         *)
(* The invariants speak of the file; what makes them inductive is that     *)
(* each process's copy agrees with the file on what is alive (Knows) and   *)
(* on what is queued (Queue), for as long as the process may save it.  In  *)
(* the refinement a build is started by its spawn, before the store says   *)
(* so; from there each action is a step of BuildQueue or a stutter.        *)
(***************************************************************************)
EXTENDS BuildGate, TLAPS

(* The copy s names the live build of process p.                           *)
Names(s, p) == s.running_build = [issue |-> procs[p].issue, pid |-> p]

(* A loop that is about to spawn, or has just spawned, found no other      *)
(* build alive; any other busy loop's copy names the live build, and so    *)
(* does a running wake's.                                                  *)
Knows ==
  \A p \in Pids : Live(p) =>
    \/ /\ Names(disk, p)
       /\ cpc \in {"start", "cancel", "think", "reply"} => Names(cmem, p)
       /\ cpc \notin {"lookup", "spawn", "record", "recover"}
       /\ wpc # "off" => Names(wmem, p)
    \/ cpc = "record" /\ cpid = p /\ procs[p].issue = cnum

(* A wake and a message are not in progress together.                      *)
Turns == wpc # "off" => cpc \in {"idle", "recover"}

(* Every copy that may be saved has the file's pending build.              *)
Queue ==
  /\ cpc \notin {"idle", "recover"} => cmem.pending_build = disk.pending_build
  /\ cpc \in {"lookup"} => cmem.pending_build = NONE
  /\ cpc \in {"spawn", "record"} => cmem.pending_build \in {NONE, cnum}
  /\ wpc # "off" => wmem.pending_build = disk.pending_build
  /\ \A p \in Pids : procs[p].state = "end" =>
       kmem[p].pending_build = disk.pending_build

IInv == TypeOK /\ Turns /\ Knows /\ Queue

-----------------------------------------------------------------------------
(* The idle store: no build in either slot.                                *)
LEMMA IdleIsStore ==
  Idle \in Store /\ Idle.pending_build = NONE /\ Idle.running_build = NONE
  BY DEF Idle, Store, NoGw, Phases, OptPlan

(* A fresh cycle changes no build slot.                                    *)
LEMMA ResetOp ==
  ASSUME NEW s \in Store, NEW g \in Gameweek
  PROVE  /\ ResetFor(s, g) \in Store
         /\ ResetFor(s, g).pending_build = s.pending_build
         /\ ResetFor(s, g).running_build = s.running_build
  BY DEF Store, ResetFor, Idle, Phases, OptPlan, NoGw

(* Neither does an iterate or a draft.                                     *)
LEMMA PlanOps ==
  ASSUME NEW s \in Store, NEW plan \in OptPlan
  PROVE  /\ VoidCarry(s, plan) \in Store
         /\ VoidCarry(s, plan).pending_build = s.pending_build
         /\ VoidCarry(s, plan).running_build = s.running_build
         /\ SetPending(s, s.gw, plan) \in Store
         /\ SetPending(s, s.gw, plan).pending_build = s.pending_build
         /\ SetPending(s, s.gw, plan).running_build = s.running_build
  BY DEF Store, VoidCarry, SetPending, Phases, OptPlan

(* Nor the second write of a wake.                                         *)
LEMMA FlagOp ==
  ASSUME NEW s \in Store
  PROVE  /\ [s EXCEPT !.draft_sent = TRUE] \in Store
         /\ [s EXCEPT !.draft_sent = TRUE].pending_build = s.pending_build
         /\ [s EXCEPT !.draft_sent = TRUE].running_build = s.running_build
  BY DEF Store

(* What the build operations do to the two slots.                          *)
LEMMA BuildOps ==
  ASSUME NEW s \in Store, NEW issue \in Issues, NEW p \in Pids
  PROVE  /\ QueueBuild(s, issue) \in Store
         /\ QueueBuild(s, issue).pending_build = issue
         /\ QueueBuild(s, issue).running_build = s.running_build
         /\ RunBuild(s, [issue |-> issue, pid |-> p]) \in Store
         /\ RunBuild(s, [issue |-> issue, pid |-> p]).pending_build = NONE
         /\ RunBuild(s, [issue |-> issue, pid |-> p]).running_build
              = [issue |-> issue, pid |-> p]
  BY DEF Store, QueueBuild, RunBuild, RunningBuild

(* What clearing does to them.                                             *)
LEMMA ClearOps ==
  ASSUME NEW s \in Store
  PROVE  /\ CancelBuild(s) \in Store
         /\ CancelBuild(s).pending_build = NONE
         /\ CancelBuild(s).running_build = NONE
         /\ ClearRunningBuild(s) \in Store
         /\ ClearRunningBuild(s).pending_build = s.pending_build
         /\ ClearRunningBuild(s).running_build = NONE
  BY DEF Store, CancelBuild, ClearRunningBuild

(* A taken slot's pid is a pid; a running build is never NONE.             *)
LEMMA SlotPid ==
  ASSUME NEW s \in Store, s.running_build # NONE
  PROVE  s.running_build.pid \in Pids /\ s.running_build.issue \in Issues
  BY DEF Store, RunningBuild

(* Reaping takes away no live build and leaves the types alone.            *)
LEMMA ReapedProcs ==
  ASSUME procs \in [Pids -> Proc],
         \A p \in Pids : procs[p].state = "none" <=> procs[p].issue = NONE
  PROVE  /\ Reaped \in [Pids -> Proc]
         /\ \A p \in Pids : Reaped[p].state = "none" <=> Reaped[p].issue = NONE
         /\ \A p \in Pids : Live(p) => Reaped[p] = procs[p]
         /\ \A p \in Pids : Reaped[p].state \in {"run", "end"} => Reaped[p] = procs[p]
  BY DEF Reaped, NoProc, Proc, Live

(* The initial state satisfies the invariant.                              *)
LEMMA IInvInit == Init => IInv
  <1> SUFFICES ASSUME Init PROVE IInv
    OBVIOUS
  <1>1. gw \in Gameweek
    BY LastGwAssumption DEF Init, Gameweek
  <1>2. TypeOK
    BY <1>1, IdleIsStore DEF Init, TypeOK, NoProc, Proc, ChatPc, NoNumber
  <1> QED
    BY <1>2 DEF Init, IInv, Turns, Knows, Queue, NoProc, Live

(* Every step keeps the types.                                             *)
LEMMA TypeNext == TypeOK /\ [Next]_vars => TypeOK'
  <1> SUFFICES ASSUME TypeOK, [Next]_vars PROVE TypeOK'
    OBVIOUS
  <1> USE DEF TypeOK, builds, chat, wake, ChatPc, NoNumber, LoopIdle
  <1>0. CASE UNCHANGED vars
    BY <1>0 DEF vars
  <1>1. ASSUME NEW where \in {"start", "cancel", "think"}, NEW n \in Issues \cup {NONE},
               Take(where, n)
        PROVE  TypeOK'
    BY <1>1 DEF Take
  <1>2. CASE StartRefused
    BY <1>2, IdleIsStore DEF StartRefused
  <1>3. CASE StartClearsDead
    BY <1>3, ClearOps DEF StartClearsDead
  <1>4. CASE StartUnqueued
    BY <1>4 DEF StartUnqueued
  <1>5. CASE StartPending
    <2>1. cmem.pending_build \in Issues \cup {NONE}
      BY DEF Store
    <2> QED
      BY <1>5, <2>1, BuildsAssumption, IdleIsStore DEF StartPending
  <1>6. CASE LookupAnswers
    BY <1>6, IdleIsStore, ReapedProcs DEF LookupAnswers
  <1>7. ASSUME NEW p \in Pids, Spawns(p) PROVE TypeOK'
    <2>1. /\ procs' = [Reaped EXCEPT ![p] = [issue |-> cnum, state |-> "run"]]
          /\ cnum \in Issues /\ cnum # NONE
      BY <1>7 DEF Spawns
    <2>2. /\ procs' \in [Pids -> Proc]
          /\ \A q \in Pids : procs'[q].state = "none" <=> procs'[q].issue = NONE
      BY <2>1, ReapedProcs DEF Proc
    <2> QED
      BY <1>7, <2>2 DEF Spawns
  <1>8. CASE SpawnFails
    BY <1>8, IdleIsStore, ReapedProcs DEF SpawnFails, Fault
  <1>9. CASE Records
    <2>1. cnum \in Issues /\ cpid \in Pids
      BY <1>9 DEF Records
    <2>2. disk' \in Store
      BY <1>9, <2>1, BuildOps DEF Records
    <2> QED
      BY <1>9, <2>2, IdleIsStore DEF Records
  <1>10. CASE Cancels
    <2>1. disk' \in Store
      BY <1>10, ClearOps DEF Cancels
    <2>2. /\ procs' \in [Pids -> Proc]
          /\ \A p \in Pids : procs'[p].state = "none" <=> procs'[p].issue = NONE
      <3>1. CASE SlotTaken
        <4>1. PICK p \in Pids : /\ p = cmem.running_build.pid
                                /\ procs[p].state # "none"
          BY <3>1, SlotPid DEF SlotTaken, PidAlive
        <4>2. procs' = [procs EXCEPT ![p].state = "zombie"]
          BY <1>10, <3>1, <4>1 DEF Cancels
        <4> QED
          BY <4>1, <4>2 DEF Proc
      <3>2. CASE ~SlotTaken
        BY <1>10, <3>2 DEF Cancels
      <3> QED
        BY <3>1, <3>2
    <2> QED
      BY <1>10, <2>1, <2>2, IdleIsStore DEF Cancels
  <1>11. CASE CancelsNothing
    BY <1>11 DEF CancelsNothing
  <1>12. ASSUME NEW plan \in OptPlan, ModelReplies(plan) PROVE TypeOK'
    <2>1. cmem' \in Store /\ disk' \in Store
      BY <1>12, PlanOps DEF ModelReplies
    <2> QED
      BY <1>12, <2>1, ReapedProcs DEF ModelReplies
  <1>13. ASSUME NEW issue \in Issues, Commissions(issue) PROVE TypeOK'
    <2>1. disk' \in Store
      BY <1>13 DEF Commissions, QueueBuild, Store
    <2> QED
      BY <1>13, <2>1, IdleIsStore, ReapedProcs DEF Commissions
  <1>14. CASE CommissionsNothing
    BY <1>14, IdleIsStore, ReapedProcs DEF CommissionsNothing
  <1>15. CASE DaemonRestarts
    BY <1>15, IdleIsStore DEF DaemonRestarts, Fault, NoProc, Proc
  <1>16. CASE RecoverBuilds
    BY <1>16, IdleIsStore, ClearOps DEF RecoverBuilds
  <1>17. ASSUME NEW p \in Pids, BuildEnds(p) PROVE TypeOK'
    BY <1>17 DEF BuildEnds, Proc
  <1>18. ASSUME NEW p \in Pids, BuildExits(p) PROVE TypeOK'
    BY <1>18, IdleIsStore, ClearOps DEF BuildExits, Proc
  <1>19. ASSUME NEW p \in Pids, BuildKilled(p) PROVE TypeOK'
    BY <1>19, IdleIsStore DEF BuildKilled, Fault, Live, Proc
  <1>20. CASE GameweekPasses
    BY <1>20, LastGwAssumption DEF GameweekPasses, Gameweek
  <1>21. CASE WakeStarts
    BY <1>21, IdleIsStore, ResetOp DEF WakeStarts
  <1>22. ASSUME NEW plan \in OptPlan, WakeSaves(plan) PROVE TypeOK'
    BY <1>22, PlanOps DEF WakeSaves
  <1>23. CASE WakeFlags
    BY <1>23, IdleIsStore, FlagOp DEF WakeFlags
  <1>24. CASE WakeDies
    BY <1>24, IdleIsStore DEF WakeDies, Fault
  <1> QED
    BY <1>0, <1>1, <1>2, <1>3, <1>4, <1>5, <1>6, <1>7, <1>8, <1>9, <1>10, <1>11,
       <1>12, <1>13, <1>14, <1>15, <1>16, <1>17, <1>18, <1>19, <1>20, <1>21, <1>22,
       <1>23, <1>24
    DEF Next, LoopNext, BuildNext, WakeNext

-----------------------------------------------------------------------------
(* Without overlap a loop or wake step finds no build between its load and *)
(* its save.                                                               *)
Alone == \A p \in Pids : procs[p].state # "end"

(* Every step keeps the turns.                                             *)
LEMMA TurnsNext ==
  ASSUME Overlap = FALSE, Turns, [Next]_vars
  PROVE  Turns'
  <1> USE DEF Turns, builds, chat, wake, LoopIdle
  <1>1. CASE LoopNext
    BY <1>1
    DEF LoopNext, Take, StartRefused, StartClearsDead, StartUnqueued, StartPending,
        LookupAnswers, Spawns, SpawnFails, Records, Cancels, CancelsNothing,
        ModelReplies, Commissions, CommissionsNothing, DaemonRestarts, RecoverBuilds
  <1>2. CASE WakeNext
    BY <1>2 DEF WakeNext, GameweekPasses, WakeStarts, WakeSaves, WakeFlags, WakeDies
  <1>3. CASE BuildNext
    BY <1>3 DEF BuildNext, BuildEnds, BuildExits, BuildKilled
  <1>4. CASE UNCHANGED vars
    BY <1>4 DEF vars
  <1> QED
    BY <1>1, <1>2, <1>3, <1>4 DEF Next

(* A store that names a live build has its running slot taken.             *)
LEMMA NamedIsBuild ==
  ASSUME TypeOK, NEW p \in Pids, Live(p)
  PROVE  [issue |-> procs[p].issue, pid |-> p] # NONE
  <1>1. procs[p].issue \in Issues
    BY DEF TypeOK, Live, Proc
  <1>2. [issue |-> procs[p].issue, pid |-> p] \in RunningBuild
    BY <1>1 DEF RunningBuild
  <1> QED
    BY <1>2, BuildsAssumption

(* What is alive is one process.                                           *)
LEMMA KnowsOne ==
  ASSUME Knows, NEW p \in Pids, NEW q \in Pids, Live(p), Live(q)
  PROVE  p = q
  <1>1. CASE cpc = "record"
    BY <1>1 DEF Knows
  <1>2. CASE cpc # "record"
    <2>1. Names(disk, p) /\ Names(disk, q)
      BY <1>2 DEF Knows
    <2>2. [issue |-> procs[p].issue, pid |-> p].pid
            = [issue |-> procs[q].issue, pid |-> q].pid
      BY <2>1 DEF Names
    <2> QED
      BY <2>2
  <1> QED
    BY <1>1, <1>2

(* A busy loop that finds its copy's slot free or dead is right: nothing   *)
(* is alive.                                                               *)
LEMMA KnowsNone ==
  ASSUME TypeOK, Knows, cpc \in {"start", "cancel", "think", "reply"}, ~SlotTaken,
         NEW p \in Pids
  PROVE  ~Live(p)
  <1> SUFFICES ASSUME Live(p) PROVE FALSE
    OBVIOUS
  <1>1. Names(cmem, p)
    BY DEF Knows
  <1>2. cmem.running_build # NONE /\ cmem.running_build.pid = p
    BY <1>1, NamedIsBuild DEF Names
  <1> QED
    BY <1>2 DEF SlotTaken, PidAlive, Live

(* Every step keeps the copies' knowledge of what is alive.                *)
LEMMA KnowsNext ==
  ASSUME Overlap = FALSE, TypeOK, Turns, Knows, [Next]_vars
  PROVE  Knows'
  <1> USE DEF Knows, Names, Live, Turns, builds, chat, wake, LoopIdle
  <1>t. /\ procs \in [Pids -> Proc] /\ disk \in Store /\ cmem \in Store /\ wmem \in Store
        /\ kmem \in [Pids -> Store] /\ gw \in Gameweek
        /\ cpc \in {"lookup", "spawn", "record"} => cnum \in Issues
        /\ cpc = "record" => cpid \in Pids
        /\ \A p \in Pids : Live(p) => Reaped[p] = procs[p]
        /\ \A p \in Pids : Reaped[p].state \in {"run", "end"} => Reaped[p] = procs[p]
    BY ReapedProcs DEF TypeOK
  <1>s. ASSUME cpc \in {"start", "cancel", "think", "reply"}, ~SlotTaken
        PROVE  \A p \in Pids : ~Live(p)
    BY <1>s, KnowsNone
  <1>0. CASE UNCHANGED vars
    BY <1>0 DEF vars
  <1>1. ASSUME NEW where \in {"start", "cancel", "think"}, NEW n \in Issues \cup {NONE},
               Take(where, n)
        PROVE  Knows'
    BY <1>1 DEF Take
  <1>2. CASE StartRefused
    BY <1>2 DEF StartRefused
  <1>3. CASE StartClearsDead
    <2>1. \A p \in Pids : ~Live(p)
      BY <1>3, <1>s DEF StartClearsDead
    <2> QED
      BY <1>3, <2>1 DEF StartClearsDead
  <1>4. CASE StartUnqueued
    <2>1. \A p \in Pids : ~Live(p)
      BY <1>4, <1>s DEF StartUnqueued, SlotFree, SlotTaken
    <2> QED
      BY <1>4, <2>1 DEF StartUnqueued
  <1>5. CASE StartPending
    <2>1. \A p \in Pids : ~Live(p)
      BY <1>5, <1>s DEF StartPending, SlotFree, SlotTaken
    <2> QED
      BY <1>5, <2>1 DEF StartPending
  <1>6. CASE LookupAnswers
    BY <1>6, <1>t DEF LookupAnswers
  <1>7. ASSUME NEW p \in Pids, Spawns(p) PROVE Knows'
    BY <1>7, <1>t DEF Spawns
  <1>8. CASE SpawnFails
    BY <1>8, <1>t DEF SpawnFails
  <1>9. CASE Records
    BY <1>9, <1>t, BuildOps DEF Records
  <1>10. CASE Cancels
    <2>1. CASE SlotTaken
      <3>1. PICK q \in Pids : q = cmem.running_build.pid
        BY <1>t, <2>1, SlotPid DEF SlotTaken
      <3>2. \A p \in Pids : Live(p) => p = q
        <4>1. TAKE p \in Pids
        <4>2. HAVE Live(p)
        <4>3. cmem.running_build = [issue |-> procs[p].issue, pid |-> p]
          BY <1>10, <4>2 DEF Cancels
        <4> QED
          BY <3>1, <4>3
      <3>3. procs' = [procs EXCEPT ![q].state = "zombie"]
        BY <1>10, <2>1, <3>1 DEF Cancels
      <3>4. \A p \in Pids : procs'[p].state \notin {"run", "end"}
        BY <1>t, <3>2, <3>3 DEF Proc
      <3> QED
        BY <3>4
    <2>2. CASE ~SlotTaken
      <3>1. \A p \in Pids : ~Live(p)
        BY <1>10, <1>s, <2>2 DEF Cancels
      <3> QED
        BY <1>10, <2>2, <3>1 DEF Cancels
    <2> QED
      BY <2>1, <2>2
  <1>11. CASE CancelsNothing
    BY <1>11 DEF CancelsNothing
  <1>12. ASSUME NEW plan \in OptPlan, ModelReplies(plan) PROVE Knows'
    BY <1>12, <1>t, PlanOps DEF ModelReplies
  <1>13. ASSUME NEW issue \in Issues, Commissions(issue) PROVE Knows'
    <2>1. disk'.running_build = cmem.running_build
      BY <1>13, <1>t DEF Commissions, QueueBuild, Store
    <2>2. procs' \in {procs, Reaped}
      BY <1>13 DEF Commissions
    <2> QED
      BY <1>13, <1>t, <2>1, <2>2 DEF Commissions
  <1>14. CASE CommissionsNothing
    BY <1>14, <1>t DEF CommissionsNothing
  <1>15. CASE DaemonRestarts
    BY <1>15 DEF DaemonRestarts, NoProc
  <1>16. CASE RecoverBuilds
    BY <1>16, ClearOps DEF RecoverBuilds
  <1>17. ASSUME NEW p \in Pids, BuildEnds(p) PROVE Knows'
    BY <1>17, <1>t DEF BuildEnds, Proc
  <1>18. ASSUME NEW p \in Pids, BuildExits(p) PROVE Knows'
    <2>1. \A q \in Pids : Live(q) => q = p
      BY <1>18, KnowsOne DEF BuildExits
    <2>2. \A q \in Pids : procs'[q].state \notin {"run", "end"}
      BY <1>18, <1>t, <2>1 DEF BuildExits, Proc
    <2> QED
      BY <2>2
  <1>19. ASSUME NEW p \in Pids, BuildKilled(p) PROVE Knows'
    BY <1>19, <1>t DEF BuildKilled, Proc
  <1>20. CASE GameweekPasses
    BY <1>20 DEF GameweekPasses
  <1>21. CASE WakeStarts
    BY <1>21, <1>t, ResetOp DEF WakeStarts
  <1>22. ASSUME NEW plan \in OptPlan, WakeSaves(plan) PROVE Knows'
    BY <1>22, <1>t, PlanOps DEF WakeSaves
  <1>23. CASE WakeFlags
    BY <1>23, <1>t, FlagOp DEF WakeFlags
  <1>24. CASE WakeDies
    BY <1>24 DEF WakeDies
  <1> HIDE DEF Knows, Names, Live, Turns, builds, chat, wake, LoopIdle
  <1>25. CASE LoopNext
    BY <1>1, <1>2, <1>3, <1>4, <1>5, <1>6, <1>7, <1>8, <1>9, <1>10, <1>11, <1>12,
       <1>13, <1>14, <1>15, <1>16, <1>25
    DEF LoopNext, NoNumber
  <1>26. CASE BuildNext
    BY <1>17, <1>18, <1>19, <1>26 DEF BuildNext
  <1>27. CASE WakeNext
    BY <1>20, <1>21, <1>22, <1>23, <1>24, <1>27 DEF WakeNext
  <1> QED
    BY <1>0, <1>25, <1>26, <1>27 DEF Next

(* The file's queued build changes by a commission, a start or a cancel.   *)
PendingStep ==
  \/ disk'.pending_build = disk.pending_build
  \/ Cancels \/ Records \/ \E issue \in Issues : Commissions(issue)

(* Every step keeps the copies' pending build up to date, and takes a      *)
(* queued build off the file by starting it or cancelling only.            *)
LEMMA QueueNext ==
  ASSUME Overlap = FALSE, TypeOK, Turns, Queue, [Next]_vars
  PROVE  Queue' /\ PendingStep
  <1> USE DEF Queue, PendingStep, Turns, builds, chat, wake, LoopIdle
  <1>t. /\ procs \in [Pids -> Proc] /\ disk \in Store /\ cmem \in Store /\ wmem \in Store
        /\ kmem \in [Pids -> Store] /\ gw \in Gameweek
        /\ cpc \in {"lookup", "spawn", "record"} => cnum \in Issues
        /\ cpc = "record" => cpid \in Pids
        /\ \A p \in Pids : Reaped[p].state = "end" => procs[p].state = "end"
    BY ReapedProcs DEF TypeOK
  <1>0. CASE UNCHANGED vars
    BY <1>0 DEF vars
  <1>1. ASSUME NEW where \in {"start", "cancel", "think"}, NEW n \in Issues \cup {NONE},
               Take(where, n)
        PROVE  Queue' /\ PendingStep
    BY <1>1 DEF Take
  <1>2. CASE StartRefused
    BY <1>2 DEF StartRefused
  <1>3. ASSUME StartClearsDead, Alone PROVE Queue' /\ PendingStep
    <2>1. disk' = cmem' /\ cmem'.pending_build = cmem.pending_build
      BY <1>3, <1>t, ClearOps DEF StartClearsDead
    <2> QED
      BY <1>3, <2>1 DEF StartClearsDead, Alone
  <1>4. CASE StartUnqueued
    BY <1>4 DEF StartUnqueued
  <1>5. CASE StartPending
    BY <1>5 DEF StartPending
  <1>6. CASE LookupAnswers
    BY <1>6, <1>t DEF LookupAnswers
  <1>7. ASSUME NEW p \in Pids, Spawns(p) PROVE Queue' /\ PendingStep
    <2>1. \A q \in Pids : procs'[q].state = "end" => procs[q].state = "end"
      BY <1>7, <1>t, ReapedProcs DEF Spawns, TypeOK
    <2> QED
      BY <1>7, <2>1 DEF Spawns
  <1>8. CASE SpawnFails
    BY <1>8, <1>t DEF SpawnFails
  <1>9. ASSUME Records, Alone PROVE Queue' /\ PendingStep
    <2>1. disk'.pending_build = NONE
      BY <1>9, <1>t, BuildOps DEF Records
    <2> QED
      BY <1>9, <2>1 DEF Records, Alone
  <1>10. ASSUME Cancels, Alone PROVE Queue' /\ PendingStep
    <2>1. \A p \in Pids : procs'[p].state # "end"
      BY <1>10, <1>t DEF Cancels, Alone, Proc
    <2> QED
      BY <1>10, <2>1 DEF Cancels
  <1>11. CASE CancelsNothing
    BY <1>11 DEF CancelsNothing
  <1>12. ASSUME NEW plan \in OptPlan, ModelReplies(plan), Alone
         PROVE  Queue' /\ PendingStep
    <2>1. /\ cmem'.pending_build = cmem.pending_build
          /\ disk'.pending_build = disk.pending_build
      BY <1>12, <1>t, PlanOps DEF ModelReplies
    <2> QED
      BY <1>12, <1>t, <2>1 DEF ModelReplies
  <1>13. ASSUME NEW issue \in Issues, Commissions(issue), Alone
         PROVE  Queue' /\ PendingStep
    <2>1. disk.pending_build = NONE
      BY <1>13 DEF Commissions, NonePending
    <2>2. \A p \in Pids : procs'[p].state # "end"
      BY <1>13, <1>t DEF Commissions, Alone
    <2> QED
      BY <1>13, <2>1, <2>2 DEF Commissions
  <1>14. CASE CommissionsNothing
    BY <1>14, <1>t DEF CommissionsNothing
  <1>15. CASE DaemonRestarts
    BY <1>15 DEF DaemonRestarts, NoProc
  <1>16. CASE RecoverBuilds
    BY <1>16, <1>t, ClearOps DEF RecoverBuilds
  <1>17. ASSUME NEW p \in Pids, BuildEnds(p) PROVE Queue' /\ PendingStep
    BY <1>17, <1>t DEF BuildEnds, Proc
  <1>18. ASSUME NEW p \in Pids, BuildExits(p) PROVE Queue' /\ PendingStep
    <2>1. disk'.pending_build = disk.pending_build
      BY <1>18, <1>t, ClearOps DEF BuildExits
    <2>2. \A q \in Pids : procs'[q].state = "end" => q # p /\ procs[q].state = "end"
      BY <1>18, <1>t DEF BuildExits, Proc
    <2> QED
      BY <1>18, <1>t, <2>1, <2>2 DEF BuildExits
  <1>19. ASSUME NEW p \in Pids, BuildKilled(p) PROVE Queue' /\ PendingStep
    BY <1>19, <1>t DEF BuildKilled, Proc
  <1>20. CASE GameweekPasses
    BY <1>20 DEF GameweekPasses
  <1>21. CASE WakeStarts
    BY <1>21, <1>t, ResetOp DEF WakeStarts
  <1>22. ASSUME NEW plan \in OptPlan, WakeSaves(plan) PROVE Queue' /\ PendingStep
    BY <1>22, <1>t, PlanOps DEF WakeSaves
  <1>23. CASE WakeFlags
    BY <1>23, <1>t, FlagOp DEF WakeFlags
  <1>24. CASE WakeDies
    BY <1>24 DEF WakeDies
  <1> HIDE DEF Queue, PendingStep, Turns, builds, chat, wake, LoopIdle
  <1>25. ASSUME LoopNext, Alone PROVE Queue' /\ PendingStep
    BY <1>1, <1>2, <1>3, <1>4, <1>5, <1>6, <1>7, <1>8, <1>9, <1>10, <1>11, <1>12,
       <1>13, <1>14, <1>15, <1>16, <1>25
    DEF LoopNext, NoNumber
  <1>26. CASE BuildNext
    BY <1>17, <1>18, <1>19, <1>26 DEF BuildNext
  <1>27. CASE WakeNext
    BY <1>20, <1>21, <1>22, <1>23, <1>24, <1>27 DEF WakeNext
  <1> QED
    BY <1>0, <1>25, <1>26, <1>27 DEF Next, Alone

-----------------------------------------------------------------------------
(* The types hold with or without overlap.                                 *)
THEOREM BuildsWellTyped == Spec => []TypeOK
  <1>1. Init => TypeOK
    BY IInvInit DEF IInv
  <1>2. TypeOK /\ [Next]_vars => TypeOK'
    BY TypeNext
  <1> QED
    BY <1>1, <1>2, PTL DEF Spec

(* The invariant, and the step it allows.                                  *)
LEMMA IInvNext ==
  ASSUME Overlap = FALSE
  PROVE  IInv /\ [Next]_vars => IInv' /\ PendingStep
  BY TypeNext, TurnsNext, KnowsNext, QueueNext DEF IInv

(* "One build pends and one runs at a time" (daemon/build.py): there are   *)
(* never two live builds, whenever the loads and saves of the store do not *)
(* overlap; restarts, killed builds and reused pids notwithstanding.       *)
THEOREM OneBuild ==
  ASSUME Overlap = FALSE
  PROVE  Spec => []OneBuildRuns
  <1>1. IInv => OneBuildRuns
    BY KnowsOne DEF IInv, OneBuildRuns
  <1>2. IInv /\ [Next]_vars => IInv'
    BY IInvNext
  <1> QED
    BY <1>1, <1>2, IInvInit, PTL DEF Spec

(* A live build is the one the store names, so that `cancel build` and the *)
(* refusal of a second start reach it (daemon/build.py).                   *)
THEOREM LiveBuildNamed ==
  ASSUME Overlap = FALSE
  PROVE  Spec => []LiveBuildIsNamed
  <1>1. IInv => LiveBuildIsNamed
    BY DEF IInv, Knows, Names, LiveBuildIsNamed
  <1>2. IInv /\ [Next]_vars => IInv'
    BY IInvNext
  <1> QED
    BY <1>1, <1>2, IInvInit, PTL DEF Spec

(* The build that runs is the one of whatever process is alive.            *)
RunningKnown ==
  Knows /\ cpc # "record" =>
    /\ \A p \in Pids : Live(p) => Running = procs[p].issue
    /\ (\A p \in Pids : ~Live(p)) => Running = NONE

LEMMA RunningIs == RunningKnown
  <1> SUFFICES ASSUME Knows, cpc # "record"
               PROVE  /\ \A p \in Pids : Live(p) => Running = procs[p].issue
                      /\ (\A p \in Pids : ~Live(p)) => Running = NONE
    BY DEF RunningKnown
  <1> DEFINE one == CHOOSE p \in Pids : Live(p)
  <1>1. ASSUME NEW p \in Pids, Live(p) PROVE Running = procs[p].issue
    <2>1. one \in Pids /\ Live(one)
      BY <1>1
    <2>2. one = p
      BY <1>1, <2>1, KnowsOne
    <2> QED
      BY <1>1, <2>2 DEF Running
  <1>2. (\A p \in Pids : ~Live(p)) => Running = NONE
    BY DEF Running
  <1> QED
    BY <1>1, <1>2

LEMMA RunningIsNext == RunningKnown'
  BY RunningIs, PTL

(* The queue as the abstract gate sees it.                                 *)
Queued == IF cpc = "record" THEN NONE ELSE disk.pending_build
slots == <<Queued, Running>>
view == <<Queued, Running, Request>>

(* What the abstract gate sees of the loop.                                *)
RequestKnown ==
  /\ cpc \in {"idle", "recover"} => Request = "none"
  /\ cpc \in {"start", "lookup", "spawn"} => Request = "start"
  /\ cpc = "record" => Request = "starting"
  /\ cpc = "cancel" => Request = "cancel"
  /\ cpc \in {"think", "reply"} => Request = "chat"

LEMMA RequestIs == RequestKnown
  BY DEF RequestKnown, Request

LEMMA RequestIsNext == RequestKnown'
  BY RequestIs, PTL

(* A step that leaves the live builds alone leaves the running build.      *)
LEMMA SameRunning ==
  ASSUME TypeOK, Knows, Knows', cpc # "record", cpc' # "record",
         \A p \in Pids : Live(p)' <=> Live(p),
         \A p \in Pids : Live(p) => procs'[p] = procs[p] \/ procs'[p].issue = procs[p].issue
  PROVE  Running' = Running
  <1> USE RunningIs, RunningIsNext DEF RunningKnown
  <1>1. CASE \E p \in Pids : Live(p)
    <2>1. PICK p \in Pids : Live(p)
      BY <1>1
    <2>2. Running = procs[p].issue
      BY <2>1
    <2>3. Running' = procs'[p].issue
      BY <2>1
    <2> QED
      BY <2>1, <2>2, <2>3
  <1>2. CASE \A p \in Pids : ~Live(p)
    <2>1. Running = NONE
      BY <1>2
    <2>2. Running' = NONE
      BY <1>2
    <2> QED
      BY <2>1, <2>2
  <1> QED
    BY <1>1, <1>2

(* The slot of the file is free only when nothing is alive.                *)
FreeIsDead ==
  TypeOK /\ Knows /\ cpc # "record" /\ disk.running_build = NONE => \A p \in Pids : ~Live(p)

LEMMA FreeSlotIsDead == FreeIsDead
  BY NamedIsBuild DEF FreeIsDead, Knows, Names

LEMMA FreeSlotIsDeadNext == FreeIsDead'
  BY FreeSlotIsDead, PTL

(* What most steps of the loop have in common.                             *)
LEMMA QuietStep ==
  ASSUME IInv, IInv', disk'.pending_build = disk.pending_build,
         cpc # "record", cpc' # "record", procs' \in {procs, Reaped}
  PROVE  UNCHANGED slots
  <1>1. procs \in [Pids -> Proc]
        /\ \A p \in Pids : Reaped[p] = IF procs[p].state = "zombie" THEN NoProc ELSE procs[p]
    BY DEF IInv, TypeOK, Reaped
  <1>2. \A p \in Pids : /\ Live(p)' <=> Live(p)
                        /\ Live(p) => procs'[p] = procs[p]
    BY <1>1 DEF Live, NoProc
  <1>3. Running' = Running
    BY <1>2, SameRunning DEF IInv
  <1> QED
    BY <1>3 DEF slots, Queued

(* An end or a kill.                                                       *)
LEMMA DeathStep ==
  ASSUME IInv, IInv', NEW p \in Pids, Live(p), disk'.pending_build = disk.pending_build,
         procs' = [procs EXCEPT ![p].state = "zombie"], UNCHANGED <<cpc, cnum>>
  PROVE  Gate!End \/ UNCHANGED view
  <1>0. Request' = Request
    BY DEF Request
  <1>1. CASE cpc = "record"
    BY <1>0, <1>1 DEF view, Queued, Running
  <1>2. CASE cpc # "record"
    <2>1. \A q \in Pids : Live(q) => q = p
      BY KnowsOne DEF IInv
    <2>2. \A q \in Pids : ~Live(q)'
      BY <2>1 DEF Live, IInv, TypeOK, Proc
    <2>3. Running = procs[p].issue /\ Running' = NONE
      BY <1>2, <2>2, RunningIs, RunningIsNext DEF RunningKnown, IInv
    <2>4. procs[p].issue # NONE
      BY DEF IInv, TypeOK, Live
    <2>5. Queued' = Queued
      BY <1>2 DEF Queued
    <2> QED
      BY <1>0, <1>2, <2>3, <2>4, <2>5 DEF Gate!End, Queued
  <1> QED
    BY <1>1, <1>2

(* Every step is a step of the queue, or one it does not see.              *)
LEMMA StepsAreGate ==
  ASSUME Overlap = FALSE, IInv, [Next]_vars
  PROVE  Gate!Next \/ UNCHANGED view
  <1>i. IInv' /\ PendingStep
    BY IInvNext
  <1>q. RequestKnown /\ RequestKnown'
    BY RequestIs, RequestIsNext
  <1> USE DEF builds, chat, wake, LoopIdle
  <1>t. /\ procs \in [Pids -> Proc] /\ disk \in Store /\ cmem \in Store /\ kmem \in [Pids -> Store]
        /\ cpc \in {"lookup", "spawn", "record"} => cnum \in Issues /\ cnum # NONE
        /\ cpc = "record" => cpid \in Pids
    BY DEF IInv, TypeOK
  <1>1. ASSUME NEW p \in Pids, Spawns(p) PROVE Gate!Start(cnum) /\ cnum \in Issues
    <2>1. cpc = "spawn" /\ cpc' = "record" /\ cnum' = cnum /\ disk' = disk
      BY <1>1 DEF Spawns
    <2>2. Running = NONE
      BY <2>1, RunningIs DEF RunningKnown, IInv, Knows
    <2>3. disk.pending_build \in {NONE, cnum}
      BY <2>1 DEF IInv, Queue
    <2>4. Running' = cnum
      BY <2>1 DEF Running
    <2> QED
      BY <1>q, <1>t, <2>1, <2>2, <2>3, <2>4 DEF Gate!Start, RequestKnown
  <1>2. CASE Records
    <2>1. cpc = "record" /\ cpc' = "idle" /\ procs' = procs /\ cnum \in Issues /\ cpid \in Pids
      BY <1>2, <1>t DEF Records
    <2>2. disk'.pending_build = NONE
      BY <1>2, <1>t, <2>1, BuildOps DEF Records
    <2>3. Running = cnum /\ cnum # NONE
      BY <1>t, <2>1 DEF Running
    <2>4. \A p \in Pids : Live(p)' <=> Live(p)
      BY <2>1 DEF Live
    <2>5. \A p \in Pids : Live(p) => procs[p].issue = cnum
      BY <2>1 DEF IInv, Knows
    <2>6. Running' \in {NONE, cnum}
      BY <1>i, <2>1, <2>4, <2>5, RunningIsNext DEF RunningKnown, IInv
    <2> QED
      BY <1>q, <2>1, <2>2, <2>3, <2>6 DEF Gate!Next, Gate!Started, RequestKnown
  <1>3. CASE Cancels
    <2>1. cpc = "cancel" /\ cpc' = "idle" /\ disk' = CancelBuild(cmem)
      BY <1>3 DEF Cancels
    <2>2. disk'.pending_build = NONE /\ disk'.running_build = NONE
      BY <1>t, <2>1, ClearOps
    <2>3. Running' = NONE
      BY <1>i, <2>1, <2>2, FreeSlotIsDeadNext, RunningIsNext DEF RunningKnown, FreeIsDead, IInv
    <2>4. Request = "cancel" /\ Request' = "none"
      BY <1>q, <2>1 DEF RequestKnown
    <2> QED
      BY <2>1, <2>2, <2>3, <2>4 DEF Gate!Next, Gate!Cancel, Gate!Drop
  <1>4. ASSUME NEW issue \in Issues, Commissions(issue) PROVE Gate!Queue(issue)
    <2>1. /\ cpc = "reply" /\ cpc' = "idle" /\ cmem.pending_build = NONE
          /\ procs' \in {procs, Reaped} /\ disk' = QueueBuild(cmem, issue)
      BY <1>4 DEF Commissions, NonePending
    <2>2. disk.pending_build = NONE /\ disk'.pending_build = issue
      BY <1>t, <2>1 DEF IInv, Queue, QueueBuild, Store
    <2>3. \A p \in Pids : Reaped[p] = IF procs[p].state = "zombie" THEN NoProc ELSE procs[p]
      BY <1>t DEF Reaped
    <2>4. \A p \in Pids : (Live(p)' <=> Live(p)) /\ (Live(p) => procs'[p] = procs[p])
      BY <1>t, <2>1, <2>3 DEF Live, NoProc
    <2>5. Running' = Running
      BY <1>i, <2>1, <2>4, SameRunning DEF IInv
    <2> QED
      BY <1>q, <2>1, <2>2, <2>5 DEF Gate!Queue, RequestKnown
  <1>5. CASE DaemonRestarts
    <2>1. disk' = disk /\ cpc' = "recover" /\ \A p \in Pids : ~Live(p)'
      BY <1>5 DEF DaemonRestarts, Live, NoProc
    <2>2. Running' = NONE
      BY <1>i, <2>1, RunningIsNext DEF RunningKnown, IInv
    <2>3. CASE cpc = "record"
      <3>1. Running = cnum /\ cnum # NONE
        BY <1>t, <2>3 DEF Running
      <3>2. disk.pending_build \in {NONE, cnum}
        BY <2>3 DEF IInv, Queue
      <3> QED
        BY <1>q, <2>1, <2>2, <2>3, <3>1, <3>2 DEF Gate!Next, Gate!Restart, RequestKnown
    <2>4. CASE cpc # "record"
      BY <1>q, <2>1, <2>2, <2>4 DEF Gate!Next, Gate!Restart, RequestKnown
    <2> QED
      BY <2>3, <2>4
  <1>6. ASSUME NEW p \in Pids, BuildExits(p) \/ BuildKilled(p) PROVE Gate!Next \/ UNCHANGED view
    <2>1. /\ Live(p) /\ procs' = [procs EXCEPT ![p].state = "zombie"] /\ UNCHANGED <<cpc, cnum>>
      BY <1>6 DEF BuildExits, BuildKilled, Live
    <2>2. ~(Cancels \/ Records \/ \E issue \in Issues : Commissions(issue))
      BY <2>1 DEF Cancels, Records, Commissions
    <2>3. disk'.pending_build = disk.pending_build
      BY <1>i, <2>2 DEF PendingStep
    <2> QED
      BY <1>i, <2>1, <2>3, DeathStep DEF Gate!Next
  <1>7. ASSUME disk'.pending_build = disk.pending_build,
               cpc # "record", cpc' # "record", procs' \in {procs, Reaped}
        PROVE  UNCHANGED slots
    BY <1>i, <1>7, QuietStep
  <1>8. ASSUME UNCHANGED <<cpc, cnum, procs>>, disk'.pending_build = disk.pending_build
        PROVE  UNCHANGED view
    BY <1>8 DEF view, Queued, Running, Request, Live
  <1>9. ASSUME NEW where \in {"start", "cancel", "think"}, NEW n \in Issues \cup {NONE},
               Take(where, n)
        PROVE  Gate!Next
    <2>1. /\ cpc = "idle" /\ cpc' = where /\ disk' = disk /\ procs' = procs
      BY <1>9 DEF Take
    <2>2. UNCHANGED slots
      BY <1>7, <2>1
    <2>3. Request = "none" /\ Request' \in {"start", "cancel", "chat"}
      BY <1>q, <2>1 DEF RequestKnown
    <2> QED
      BY <2>2, <2>3 DEF Gate!Next, Gate!Ask, slots, Queued
  <1>10. ASSUME \/ StartRefused \/ StartUnqueued \/ StartPending \/ LookupAnswers
                \/ SpawnFails \/ CancelsNothing \/ CommissionsNothing
         PROVE  Gate!Next \/ UNCHANGED view
    <2>1. /\ disk' = disk /\ cpc # "record" /\ cpc' # "record" /\ procs' \in {procs, Reaped}
      BY <1>10 DEF StartRefused, StartUnqueued, StartPending, LookupAnswers, SpawnFails,
                   CancelsNothing, CommissionsNothing
    <2>2. UNCHANGED slots
      BY <1>7, <2>1
    <2>3. \/ Request' = Request
          \/ Request \in {"start", "chat"} /\ Request' = "none"
          \/ (StartUnqueued \/ CancelsNothing)
               /\ Request \in {"start", "cancel"} /\ Request' = "chat"
      BY <1>q, <1>10
      DEF StartRefused, StartUnqueued, StartPending, LookupAnswers, SpawnFails,
          CancelsNothing, CommissionsNothing, RequestKnown
    <2>4. CASE StartUnqueued \/ CancelsNothing
      <3>1. /\ cpc \in {"start", "cancel"} /\ SlotFree /\ cmem.pending_build = NONE
        BY <2>4 DEF StartUnqueued, CancelsNothing
      <3>2. \A p \in Pids : ~Live(p)
        BY <3>1, KnowsNone DEF IInv, SlotFree, SlotTaken
      <3>3. Running = NONE
        BY <3>1, <3>2, RunningIs DEF RunningKnown, IInv
      <3>4. Queued = NONE
        BY <3>1 DEF Queued, IInv, Queue
      <3> QED
        BY <2>2, <2>3, <3>3, <3>4 DEF Gate!Next, Gate!Drop, Gate!AsChat, view, slots, Queued
    <2> QED
      BY <2>2, <2>3, <2>4 DEF Gate!Next, Gate!Drop, view, slots, Queued
  <1>11. ASSUME StartClearsDead \/ RecoverBuilds \/ \E plan \in OptPlan : ModelReplies(plan)
         PROVE  UNCHANGED view
    <2>1. /\ \/ cpc = "start" /\ cpc' = "start"
             \/ cpc = "think" /\ cpc' = "reply"
             \/ cpc = "recover" /\ cpc' = "idle"
          /\ procs' \in {procs, Reaped}
      BY <1>11 DEF StartClearsDead, ModelReplies, RecoverBuilds
    <2>2. ~(Cancels \/ Records \/ \E issue \in Issues : Commissions(issue))
      BY <2>1 DEF Cancels, Records, Commissions
    <2>3. disk'.pending_build = disk.pending_build
      BY <1>i, <2>2 DEF PendingStep
    <2>4. UNCHANGED slots
      BY <1>7, <2>1, <2>3
    <2>5. Request' = Request
      BY <1>q, <2>1 DEF RequestKnown
    <2> QED
      BY <2>4, <2>5 DEF view, slots
  <1>12. CASE WakeNext \/ UNCHANGED vars
    <2>1. UNCHANGED <<cpc, cnum, procs>>
      BY <1>12 DEF WakeNext, GameweekPasses, WakeStarts, WakeSaves, WakeFlags, WakeDies, vars
    <2>2. disk'.pending_build = disk.pending_build
      <3>1. CASE disk' = disk
        BY <3>1
      <3>2. CASE disk' # disk
        <4>1. ~(Records \/ Cancels \/ \E issue \in Issues : Commissions(issue))
          BY <2>1 DEF Cancels, Records, Commissions
        <4> QED
          BY <1>i, <4>1 DEF PendingStep
      <3> QED
        BY <3>1, <3>2
    <2> QED
      BY <1>8, <2>1, <2>2
  <1>13. ASSUME NEW p \in Pids, BuildEnds(p) PROVE UNCHANGED view
    <2>1. /\ procs[p].state = "run" /\ procs' = [procs EXCEPT ![p].state = "end"]
          /\ UNCHANGED <<cpc, cnum, disk>>
      BY <1>13 DEF BuildEnds
    <2>2. \A q \in Pids : (Live(q)' <=> Live(q)) /\ procs'[q].issue = procs[q].issue
      BY <1>t, <2>1 DEF Live, Proc
    <2>0. Request' = Request
      BY <2>1 DEF Request
    <2>3. CASE cpc = "record"
      BY <2>0, <2>1, <2>3 DEF view, Queued, Running
    <2>4. CASE cpc # "record"
      <3>1. Running' = Running
        BY <1>i, <2>1, <2>2, <2>4, SameRunning DEF IInv
      <3> QED
        BY <2>0, <2>1, <3>1 DEF view, Queued
    <2> QED
      BY <2>3, <2>4
  <1> HIDE DEF builds, chat, wake, LoopIdle
  <1>14. CASE LoopNext
    BY <1>1, <1>2, <1>3, <1>4, <1>5, <1>9, <1>10, <1>11, <1>14 DEF LoopNext, NoNumber, Gate!Next
  <1>15. CASE BuildNext
    BY <1>6, <1>13, <1>15 DEF BuildNext
  <1> QED
    BY <1>12, <1>14, <1>15 DEF Next

(* What runs and what is queued move as the gate promises: a queued build  *)
(* stays until a `build` starts it or a `cancel build` cancels it; no      *)
(* fresh deadline cycle, iterate, second commission, restart of the daemon *)
(* or end of another build takes it away, and none starts while another    *)
(* runs (daemon/plan.py, daemon/build.py), when loads and saves of the     *)
(* store do not overlap.                                                   *)
THEOREM QueueImplemented ==
  ASSUME Overlap = FALSE
  PROVE  Spec => ImplementsBuildQueue
  <1>1. Init => Gate!Init
    BY DEF Init, Gate!Init, Running, Request, Live, NoProc, Idle
  <1>2. IInv /\ [Next]_vars => IInv'
    BY IInvNext
  <1>3. IInv /\ [Next]_vars => [Gate!Next]_view
    BY StepsAreGate
  <1> QED
    BY <1>1, <1>2, <1>3, IInvInit, PTL
    DEF Spec, ImplementsBuildQueue, Gate!Spec, view, Queued
=============================================================================
