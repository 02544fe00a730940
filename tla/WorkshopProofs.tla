---------------------------- MODULE WorkshopProofs ----------------------------
(***************************************************************************)
(* What is proved of everything that opens pull requests, for any caps,    *)
(* budgets, issues, role names and numbers of builds and proposals.        *)
(***************************************************************************)
EXTENDS Workshop, TLAPS

Names == Slugs \cup Issues
Branches == [by : Proposers \cup {"nobody", "engineer"}, ask : 0..MaxAsks,
             paths : SUBSET {"role", "note", "code", "test", "scratch", "denied"},
             passed : BOOLEAN]
Prs == [open : BOOLEAN, draft : BOOLEAN, closes : BOOLEAN]

HostTyped ==
    /\ host \in [branch : [Names -> Branches], pr : [Names -> Prs]]
    /\ prop \in [Proposers -> ProposalType]
    /\ asks \in 0..MaxAsks

(* A loop: before its last turn it is under the cap, and only one that may *)
(* finish takes a turn more.                                               *)
Limit(a) == TurnCap + (IF a \in Finishing THEN 1 ELSE 0)
LoopOK(a, r) ==
    /\ r \in AgentType /\ r.turns <= Limit(a)
    /\ r.pc # "over" => r.turns <= TurnCap
    /\ r.pc = "finish" => a \in Finishing
    /\ r.pc = "calls" => r.calls > 0

LoopsOK == ag = [a \in Agents |-> ag[a]] /\ \A a \in Agents : LoopOK(a, ag[a])

(* A build: each edit after a red run has a red run of its own before it,  *)
(* the budget is known to be spent from the red run that spent it, and     *)
(* what will be pushed is what was cleared.                                *)
BuildOK(b) ==
    /\ b \in BuildType
    /\ b.reds > FixTurns => b.exhausted
    /\ b.exhausted => ~b.wrote
    /\ b.edits <= b.reds /\ (~b.wrote /\ b.reds > 0 => b.edits < b.reds)
    /\ b.pc \in {"final", "push"} => Ships(b.cleared)
    /\ b.pc # "idle" => b.out = "none"

BuildSound == BuildOK(build)

(* The host and who uses it: what a proposer has pushed is still there, a  *)
(* build's branch is its last push.                                        *)
Kept ==
    /\ \A p \in Proposers :
         /\ prop[p].pc = "pr" => host.branch[prop[p].name] = RoleFiles(p, prop[p].ask)
         /\ prop[p].out = "ok" => /\ host.pr[prop[p].name].open
                                  /\ host.branch[prop[p].name] = RoleFiles(p, prop[p].ask)
    /\ build.pc = "pr" => host.branch[build.issue].passed = build.passed
    /\ build.out \in {"green", "red"} =>
         /\ host.pr[build.issue] = [open |-> TRUE, draft |-> build.out = "red",
                                    closes |-> build.out = "green"]
         /\ host.branch[build.issue].passed = (build.out = "green")

-----------------------------------------------------------------------------
(* The tool loop.                                                          *)

LEMMA LoopStarts == \A a \in Agents : LoopOK(a, Off) /\ LoopOK(a, Started)
<1>1. 0 \in 0..(TurnCap + 1) /\ 0 \in 0..MaxCalls /\ 0 \in 0..ToolCap
  BY WorkshopAssumption
<1>2. \A a \in Agents : 0 <= Limit(a) /\ 0 <= TurnCap
  BY WorkshopAssumption DEF Limit
<1>3. Off \in AgentType /\ Started \in AgentType
  BY <1>1 DEF Off, Started, AgentType
<1>4. Off.turns = 0 /\ Off.pc = "off" /\ Started.turns = 0 /\ Started.pc = "top"
  BY DEF Off, Started
<1> QED
  BY <1>2, <1>3, <1>4 DEF LoopOK

LEMMA FallbackKeeps ==
  ASSUME NEW a \in Agents, NEW r \in AgentType, r.turns <= Limit(a)
  PROVE  LoopOK(a, Fallback(r))
BY DEF LoopOK, Fallback, AgentType

LEMMA TurnedIsOK ==
  ASSUME NEW a \in Agents, NEW r \in AgentType, r.turns < TurnCap,
         NEW k \in 0..MaxCalls, NEW said \in BOOLEAN
  PROVE  LoopOK(a, Turned(r, k, said))
<1>1. /\ r.turns + 1 \in 0..(TurnCap + 1) /\ r.turns + 1 <= TurnCap
      /\ r.turns + 1 <= Limit(a)
  BY WorkshopAssumption DEF AgentType, Limit
<1>2. (r.text \/ said) \in BOOLEAN
  BY DEF AgentType
<1>3. Turned(r, k, said) \in AgentType
  BY <1>1, <1>2 DEF Turned, AgentType
<1>4. /\ Turned(r, k, said).turns = r.turns + 1 /\ Turned(r, k, said).calls = k
      /\ Turned(r, k, said).pc = IF k = 0 THEN "over" ELSE "calls"
  BY DEF Turned, AgentType
<1> QED
  BY <1>1, <1>3, <1>4 DEF LoopOK

LEMMA TurnKeeps ==
  ASSUME LoopsOK, NEW a \in Agents, NEW stop \in BOOLEAN, Turn(a, stop)
  PROVE  LoopsOK'
<1>1. PICK k \in 0..MaxCalls, said \in BOOLEAN : ag' = [ag EXCEPT ![a] = Turned(@, k, said)]
  BY DEF Turn
<1>2. LoopOK(a, ag[a]) /\ ag[a].turns < TurnCap
  BY WorkshopAssumption DEF Turn, Spent, LoopsOK, LoopOK, AgentType
<1>3. LoopOK(a, Turned(ag[a], k, said))
  BY <1>2, TurnedIsOK DEF LoopOK
<1> QED
  BY <1>1, <1>3 DEF LoopsOK

LEMMA BreakKeeps ==
  ASSUME LoopsOK, NEW a \in Agents, NEW stop \in BOOLEAN, Break(a, stop)
  PROVE  LoopsOK'
<1>1. PICK why \in {"stopped", "turns", "clock", "error"} :
        ag' = [ag EXCEPT ![a] = Broken(@, a, why)]
  BY DEF Break
<1> DEFINE r == ag[a]
           s == [r EXCEPT !.status = why]
<1>2. LoopOK(a, r) /\ r.pc = "top"
  BY DEF Break, LoopsOK
<1>3. s \in AgentType /\ s.turns <= Limit(a)
  BY <1>2 DEF LoopOK, AgentType
<1>4. LoopOK(a, Fallback(s))
  BY <1>3, FallbackKeeps
<1>5. a \in Finishing => LoopOK(a, [r EXCEPT !.pc = "finish", !.status = why])
  BY <1>2 DEF LoopOK, AgentType
<1>6. LoopOK(a, Broken(r, a, why))
  BY <1>4, <1>5 DEF Broken
<1> QED
  BY <1>1, <1>6 DEF LoopsOK

LEMMA FinishKeeps ==
  ASSUME LoopsOK, NEW a \in Agents, Finish(a)
  PROVE  LoopsOK'
<1> DEFINE r == ag[a]
           more(said) == [r EXCEPT !.turns = @ + 1, !.reply = IF said THEN "text" ELSE "blank"]
<1>0. LoopOK(a, r) /\ r.pc = "finish"
  BY DEF Finish, LoopsOK
<1>1. LoopOK(a, r) /\ r.pc = "finish" /\ r.turns \in Nat
  BY <1>0, WorkshopAssumption DEF LoopOK, AgentType
<1>2. r.turns + 1 <= Limit(a) /\ r.turns + 1 \in 0..(TurnCap + 1)
  BY <1>1, WorkshopAssumption DEF LoopOK, Limit
<1>3. \A said \in BOOLEAN : more(said) \in AgentType /\ more(said).turns <= Limit(a)
  BY <1>1, <1>2 DEF LoopOK, AgentType
<1>4. \A said \in BOOLEAN : LoopOK(a, Fallback(more(said)))
  BY <1>3, FallbackKeeps
<1>5. LoopOK(a, Fallback(r))
  BY <1>1, FallbackKeeps DEF LoopOK
<1>6. ASSUME NEW said \in BOOLEAN,
             ag' = [ag EXCEPT ![a] = Fallback(more(said))]
      PROVE  LoopsOK'
  BY <1>4, <1>6 DEF LoopsOK
<1>7. ASSUME ag' = [ag EXCEPT ![a] = Fallback(@)] PROVE LoopsOK'
  BY <1>5, <1>7 DEF LoopsOK
<1> QED
  BY <1>6, <1>7 DEF Finish

LEMMA CallKeeps ==
  ASSUME LoopsOK, NEW a \in Agents, AnswerCall(a) \/ CappedCall(a)
  PROVE  LoopsOK'
<1> DEFINE r == ag[a]
<1>1. LoopOK(a, r) /\ r.pc = "calls"
  BY DEF AnswerCall, CappedCall, LoopsOK
<1>2. r.calls - 1 \in 0..MaxCalls /\ (r.calls # 1 => r.calls - 1 > 0)
  BY <1>1, WorkshopAssumption DEF LoopOK, AgentType
<1>3. LoopOK(a, Called(r))
  BY <1>1, <1>2 DEF LoopOK, AgentType, Called
<1>4. CappedCall(a) => LoopOK(a, [Called(r) EXCEPT !.used = @ + 1])
  <2> SUFFICES ASSUME CappedCall(a) PROVE LoopOK(a, [Called(r) EXCEPT !.used = @ + 1])
    OBVIOUS
  <2>1. r.used + 1 \in 0..ToolCap /\ Called(r).used = r.used
    BY <1>1, WorkshopAssumption DEF CappedCall, UnderToolCap, LoopOK, AgentType, Called
  <2> HIDE DEF r
  <2> QED
    BY <1>3, <2>1 DEF LoopOK, AgentType
<1>5. CASE AnswerCall(a)
  BY <1>3, <1>5 DEF AnswerCall, LoopsOK
<1>6. CASE CappedCall(a)
  BY <1>4, <1>6 DEF CappedCall, LoopsOK
<1> QED
  BY <1>5, <1>6

-----------------------------------------------------------------------------
(* The build.                                                              *)

LEMMA StartIsOK ==
  ASSUME NEW i \in Issues, NEW n \in 0..MaxTries
  PROVE  BuildOK(NoBuild(i, n)) /\ BuildOK([NoBuild(i, n) EXCEPT !.pc = "open"])
<1>1. 0 \in 0..(FixTurns + 1) /\ ~(0 > FixTurns)
  BY WorkshopAssumption
<1>2. NoBuild(i, n) \in BuildType
  BY <1>1 DEF NoBuild, BuildType
<1>3. [NoBuild(i, n) EXCEPT !.pc = "open"] \in BuildType
  BY <1>2 DEF BuildType
<1>4. \A b \in {NoBuild(i, n), [NoBuild(i, n) EXCEPT !.pc = "open"]} :
        b.reds = 0 /\ b.edits = 0 /\ ~b.wrote /\ b.out = "none" /\ b.pc \notin {"final", "push"}
  BY DEF NoBuild
<1> QED
  BY <1>1, <1>2, <1>3, <1>4 DEF BuildOK

(* The steps of the build that are not about its tree or its runs.         *)
LEMMA EndedIsOK ==
  ASSUME NEW b, BuildOK(b), NEW out \in {"none", "green", "red", "error"}
  PROVE  BuildOK([b EXCEPT !.pc = "idle", !.out = out, !.tree = {}, !.cleared = {}])
BY DEF BuildOK, BuildType

LEMMA MovedIsOK ==
  ASSUME NEW b, BuildOK(b), b.pc # "idle", NEW pc \in {"clone", "loop", "status", "pr"}
  PROVE  BuildOK([b EXCEPT !.pc = pc]) /\ BuildOK([b EXCEPT !.pc = pc, !.tree = {}])
BY DEF BuildOK, BuildType

LEMMA WrittenIsOK ==
  ASSUME NEW b, BuildOK(b), b.pc = "loop", ~b.exhausted, NEW path \in Paths
  PROVE  BuildOK([b EXCEPT !.tree = @ \cup {path}, !.wrote = TRUE,
                           !.edits = IF b.reds > 0 /\ ~b.wrote THEN @ + 1 ELSE @])
<1> DEFINE edits == IF b.reds > 0 /\ ~b.wrote THEN b.edits + 1 ELSE b.edits
<1>1. /\ b \in BuildType /\ b.reds \in 0..(FixTurns + 1) /\ b.edits \in 0..(FixTurns + 1)
      /\ FixTurns \in Nat
  BY WorkshopAssumption DEF BuildOK, BuildType
<1>2. edits \in 0..(FixTurns + 1) /\ edits <= b.reds /\ ~(b.reds > FixTurns)
  BY <1>1 DEF BuildOK
<1>3. b.tree \cup {path} \in SUBSET Paths
  BY <1>1 DEF BuildType
<1> HIDE DEF edits
<1>4. [b EXCEPT !.tree = b.tree \cup {path}, !.wrote = TRUE, !.edits = edits] \in BuildType
  BY <1>1, <1>2, <1>3 DEF BuildType
<1>5. BuildOK([b EXCEPT !.tree = b.tree \cup {path}, !.wrote = TRUE, !.edits = edits])
  BY <1>1, <1>2, <1>4 DEF BuildOK, BuildType
<1> QED
  BY <1>5 DEF edits

LEMMA TestedIsOK ==
  ASSUME NEW b, BuildOK(b), b.pc = "loop", NEW left \in SUBSET Paths, NEW passed \in BOOLEAN
  PROVE  LET counted == ~passed /\ b.wrote IN
           BuildOK([b EXCEPT !.tree = @ \cup left,
                             !.reds = IF counted THEN @ + 1 ELSE @,
                             !.wrote = @ /\ ~counted,
                             !.exhausted = @ \/ (counted /\ b.reds >= FixTurns)])
<1> DEFINE counted == ~passed /\ b.wrote
           reds == IF counted THEN b.reds + 1 ELSE b.reds
           wrote == b.wrote /\ ~counted
           spent == b.exhausted \/ (counted /\ b.reds >= FixTurns)
           c == [b EXCEPT !.tree = b.tree \cup left, !.reds = reds, !.wrote = wrote,
                          !.exhausted = spent]
<1>1. /\ b \in BuildType /\ b.reds \in 0..(FixTurns + 1) /\ b.edits \in 0..(FixTurns + 1)
      /\ FixTurns \in Nat /\ b.wrote \in BOOLEAN /\ b.exhausted \in BOOLEAN
  BY WorkshopAssumption DEF BuildOK, BuildType
<1>2. /\ b.wrote => ~(b.reds > FixTurns) /\ ~b.exhausted
      /\ b.edits <= b.reds /\ (~b.wrote /\ b.reds > 0 => b.edits < b.reds)
      /\ b.reds > FixTurns => b.exhausted
  BY <1>1 DEF BuildOK
<1>3. wrote \in BOOLEAN /\ spent \in BOOLEAN
  OBVIOUS
<1>4. /\ reds \in 0..(FixTurns + 1) /\ (spent => ~wrote)
      /\ b.edits <= reds /\ (~wrote /\ reds > 0 => b.edits < reds)
  BY <1>1, <1>2
<1>5. reds > FixTurns => spent
  BY <1>1, <1>2
<1>6. b.tree \cup left \in SUBSET Paths
  BY <1>1 DEF BuildType
<1> HIDE DEF reds, wrote, spent
<1>7. c \in BuildType
  BY <1>1, <1>3, <1>4, <1>6 DEF BuildType
<1>8. /\ c.reds = reds /\ c.wrote = wrote /\ c.exhausted = spent /\ c.edits = b.edits
      /\ c.pc = "loop" /\ c.out = b.out
  BY <1>1 DEF BuildType
<1>9. BuildOK(c)
  <2> HIDE DEF c
  <2> QED
    BY <1>4, <1>5, <1>7, <1>8 DEF BuildOK
<1> QED
  BY <1>9 DEF counted, reds, wrote, spent

LEMMA ClearedIsOK ==
  ASSUME NEW b, BuildOK(b), b.pc = "status", Ships(b.tree)
  PROVE  BuildOK([b EXCEPT !.pc = "final", !.cleared = b.tree])
BY DEF BuildOK, BuildType

LEMMA FinalIsOK ==
  ASSUME NEW b, BuildOK(b), b.pc = "final", NEW passed \in BOOLEAN, NEW left \in SUBSET Paths
  PROVE  BuildOK([b EXCEPT !.pc = "push", !.passed = passed, !.tree = @ \cup left])
BY DEF BuildOK, BuildType

LEMMA LeavesPaths == \A tree : \A left \in Leaves(tree) : left \in SUBSET Paths
BY DEF Leaves, Dropped, Paths

LEMMA BuildStep ==
  ASSUME BuildOK(build), BuildStarts \/ BuildWork \/ BuildKilled
  PROVE  BuildOK(build')
<1>1. CASE BuildStarts
  <2>1. PICK i \in Issues : build' = [NoBuild(i, build.tries + 1) EXCEPT !.pc = "open"]
    BY <1>1 DEF BuildStarts
  <2>2. build.tries + 1 \in 0..MaxTries
    BY <1>1, WorkshopAssumption DEF BuildStarts, BuildOK, BuildType
  <2> QED
    BY <2>1, <2>2, StartIsOK
<1>2. CASE BuildReads
  BY <1>2, EndedIsOK, MovedIsOK DEF BuildReads, Ends
<1>3. CASE BuildClones
  BY <1>3, EndedIsOK, MovedIsOK DEF BuildClones, Ends, FreshTree
<1>4. CASE EngineerTurns \/ OtherTool
  BY <1>4 DEF EngineerTurns, OtherTool, Turn, Break, AnswerCall
<1>5. CASE WriteFile
  <2>1. PICK path \in Paths :
          /\ MayWrite(path)
          /\ build' = [build EXCEPT !.tree = @ \cup {path}, !.wrote = TRUE,
                                    !.edits = IF build.reds > 0 /\ ~build.wrote THEN @ + 1 ELSE @]
    BY <1>5 DEF WriteFile
  <2>2. build.pc = "loop" /\ ~build.exhausted
    BY <1>5, <2>1 DEF WriteFile, MayWrite
  <2> QED
    BY <2>1, <2>2, WrittenIsOK
<1>6. CASE RunTests
  <2>1. PICK passed \in BOOLEAN, left \in Leaves(build.tree) :
          LET counted == ~passed /\ build.wrote IN
            build' = [build EXCEPT !.tree = @ \cup left,
                                   !.reds = IF counted THEN @ + 1 ELSE @,
                                   !.wrote = @ /\ ~counted,
                                   !.exhausted = @ \/ (counted /\ build.reds >= FixTurns)]
    BY <1>6 DEF RunTests
  <2>2. build.pc = "loop" /\ left \in SUBSET Paths
    BY <1>6, LeavesPaths DEF RunTests
  <2> QED
    BY <2>1, <2>2, TestedIsOK
<1>7. CASE LoopEnds
  BY <1>7, MovedIsOK DEF LoopEnds
<1>8. CASE StatusCheck
  BY <1>8, ClearedIsOK, EndedIsOK DEF StatusCheck, StatusPaths, Ends
<1>9. CASE FinalRun
  <2>1. CASE Ends("error")
    BY <2>1, EndedIsOK DEF Ends
  <2>2. CASE ~Ends("error")
    <3>1. PICK passed \in BOOLEAN, left \in Leaves(build.tree) :
            build' = [build EXCEPT !.pc = "push", !.passed = passed, !.tree = @ \cup left]
      BY <1>9, <2>2 DEF FinalRun
    <3>2. build.pc = "final" /\ left \in SUBSET Paths
      BY <1>9, LeavesPaths DEF FinalRun
    <3> QED
      BY <3>1, <3>2, FinalIsOK
  <2> QED
    BY <2>1, <2>2
<1>10. CASE PushBuild
  <2>1. CASE Ends("error")
    BY <2>1, EndedIsOK DEF Ends
  <2>2. CASE ~Ends("error")
    <3>1. build.pc = "push" /\ build' = [build EXCEPT !.pc = "pr"]
      BY <1>10, <2>2 DEF PushBuild
    <3> QED
      BY <3>1, MovedIsOK
  <2> QED
    BY <2>1, <2>2
<1>11. CASE CreatePr
  <2>1. PICK out \in {"green", "red", "error"} : Ends(out)
    BY <1>11 DEF CreatePr
  <2> QED
    BY <2>1, EndedIsOK DEF Ends
<1>12. CASE BuildKilled
  BY <1>12, EndedIsOK DEF BuildKilled, Ends
<1> QED
  BY <1>1, <1>2, <1>3, <1>4, <1>5, <1>6, <1>7, <1>8, <1>9, <1>10, <1>11, <1>12 DEF BuildWork

-----------------------------------------------------------------------------
(* Types, and what follows from the loops and the build alone.             *)

LEMMA LoopsStep == LoopsOK /\ [Next]_vars => LoopsOK'
<1> SUFFICES ASSUME LoopsOK, [Next]_vars PROVE LoopsOK'
  OBVIOUS
<1>1. \A a \in Agents, r \in {Off, Started} : ag' = [ag EXCEPT ![a] = r] => LoopsOK'
  BY LoopStarts DEF LoopsOK
<1>2. UNCHANGED ag => LoopsOK'
  BY DEF LoopsOK
<1>3. "engineer" \in Agents /\ "chat" \in Agents
  BY DEF Agents
<1>4. CASE BuildStarts \/ BuildReads \/ StatusCheck \/ FinalRun \/ PushBuild \/ CreatePr
  BY <1>2, <1>4 DEF BuildStarts, BuildReads, StatusCheck, FinalRun, PushBuild, CreatePr
<1>5. CASE BuildClones \/ LoopEnds \/ BuildKilled
  BY <1>1, <1>2, <1>3, <1>5 DEF BuildClones, LoopEnds, BuildKilled
<1>6. CASE EngineerTurns
  <2>1. build.exhausted \in BOOLEAN => LoopsOK'
    BY <1>3, <1>6, TurnKeeps, BreakKeeps DEF EngineerTurns
  <2>2. Turn("engineer", build.exhausted) => Turn("engineer", FALSE)
    BY DEF Turn
  <2>3. CASE Break("engineer", build.exhausted)
    <3>1. build.exhausted \in BOOLEAN \/ Break("engineer", FALSE)
      BY <2>3 DEF Break
    <3> QED
      BY <3>1, <2>1, <1>3, BreakKeeps
  <2> QED
    BY <1>3, <1>6, <2>2, <2>3, TurnKeeps DEF EngineerTurns
<1>7. CASE WriteFile \/ OtherTool \/ RunTests
  BY <1>3, <1>7, CallKeeps DEF WriteFile, OtherTool, RunTests
<1>8. CASE RoleNext
  <2>1. CASE ChatMessage \/ ChatReplies
    BY <1>1, <1>3, <2>1 DEF ChatMessage, ChatReplies
  <2>2. CASE ChatTurns
    BY <1>3, <2>2, TurnKeeps, BreakKeeps, FinishKeeps, CallKeeps DEF ChatTurns
  <2> QED
    BY <1>2, <1>8, <2>1, <2>2 DEF RoleNext
<1>9. CASE UNCHANGED vars
  BY <1>2, <1>9 DEF vars
<1> QED
  BY <1>4, <1>5, <1>6, <1>7, <1>8, <1>9 DEF Next, BuildNext, BuildWork

(* A build moves the loop, the host and itself; the proposals the rest.    *)
LEMMA Halved ==
  [Next]_vars => \/ /\ BuildStarts \/ BuildWork \/ BuildKilled
                    /\ UNCHANGED <<prop, asks, asked, half>>
                 \/ RoleNext /\ UNCHANGED <<build, half>>
                 \/ UNCHANGED vars
BY DEF Next, BuildNext, RoleNext

LEMMA BuildSoundStep == BuildSound /\ [Next]_vars => BuildSound'
<1> SUFFICES ASSUME BuildSound, [Next]_vars PROVE BuildSound'
  OBVIOUS
<1>1. UNCHANGED build => BuildSound'
  BY DEF BuildSound
<1>2. BuildStarts \/ BuildWork \/ BuildKilled => BuildSound'
  BY BuildStep DEF BuildSound
<1> QED
  BY <1>1, <1>2, Halved DEF vars

(* No ceiling is passed by more than chat's one finishing turn, whatever   *)
(* the replies call for and however often a loop is started.               *)
THEOREM LoopsAreCapped == Spec => []CapsHold
<1>1. Init => LoopsOK
  BY LoopStarts DEF Init, LoopsOK
<1>2. LoopsOK => CapsHold
  BY DEF LoopsOK, LoopOK, Limit, CapsHold
<1> QED
  BY <1>1, <1>2, LoopsStep, PTL DEF Spec

LEMMA InitBuild == Init => BuildSound
<1>1. (CHOOSE i \in Issues : TRUE) \in Issues /\ 0 \in 0..MaxTries
  BY WorkshopAssumption
<1> QED
  BY <1>1, StartIsOK DEF Init, BuildSound

(* The budget of fixes holds however calls are packed into replies.        *)
THEOREM FixesAreBudgeted == Spec => []FixBudget
<1>1. BuildSound => FixBudget
  <2> SUFFICES ASSUME BuildOK(build) PROVE build.edits <= FixTurns
    BY DEF FixBudget, BuildSound
  <2>1. build.reds \in 0..(FixTurns + 1) /\ build.edits \in Nat /\ FixTurns \in Nat
    BY WorkshopAssumption DEF BuildOK, BuildType
  <2>2. CASE build.reds > FixTurns
    BY <2>1, <2>2 DEF BuildOK
  <2>3. CASE ~(build.reds > FixTurns)
    BY <2>1, <2>3 DEF BuildOK
  <2> QED
    BY <2>2, <2>3
<1> QED
  BY <1>1, InitBuild, BuildSoundStep, PTL DEF Spec

-----------------------------------------------------------------------------
(* The host.                                                               *)

LEMMA BranchSet ==
  ASSUME HostTyped, NEW n \in Names, NEW x \in Branches, host' = [host EXCEPT !.branch[n] = x]
  PROVE  /\ host' \in [branch : [Names -> Branches], pr : [Names -> Prs]]
         /\ host'.branch[n] = x /\ host'.pr = host.pr
         /\ \A m \in Names : m # n => host'.branch[m] = host.branch[m]
BY DEF HostTyped

LEMMA PrSet ==
  ASSUME HostTyped, NEW n \in Names, NEW x \in Prs, host' = [host EXCEPT !.pr[n] = x]
  PROVE  /\ host' \in [branch : [Names -> Branches], pr : [Names -> Prs]]
         /\ host'.pr[n] = x /\ host'.branch = host.branch
         /\ \A m \in Names : m # n => host'.pr[m] = host.pr[m]
BY DEF HostTyped

LEMMA EndedTyped ==
  ASSUME HostTyped, NEW p \in Proposers, NEW out \in {"none", "ok", "refused", "failed"},
         Ended(p, out)
  PROVE  /\ prop' \in [Proposers -> ProposalType]
         /\ prop'[p].pc = "idle" /\ prop'[p].out = out
         /\ prop'[p].name = prop[p].name /\ prop'[p].ask = prop[p].ask
         /\ \A q \in Proposers : q # p => prop'[q] = prop[q]
BY DEF HostTyped, Ended, ProposalType

LEMMA GoesTyped ==
  ASSUME HostTyped, NEW p \in Proposers, NEW pc \in {"check", "commit", "push", "pr"}, Goes(p, pc)
  PROVE  /\ prop' \in [Proposers -> ProposalType]
         /\ prop'[p].pc = pc /\ prop'[p].out = prop[p].out
         /\ prop'[p].name = prop[p].name /\ prop'[p].ask = prop[p].ask
         /\ \A q \in Proposers : q # p => prop'[q] = prop[q]
BY DEF HostTyped, Goes, ProposalType

LEMMA RoleFilesTyped ==
  \A p \in Proposers, n \in 0..MaxAsks :
     RoleFiles(p, n) \in Branches /\ RoleFiles(p, n) # NoBranch
<1> SUFFICES ASSUME NEW p \in Proposers, NEW n \in 0..MaxAsks
             PROVE  RoleFiles(p, n) \in Branches /\ RoleFiles(p, n) # NoBranch
  OBVIOUS
<1>1. RoleFiles(p, n).by # NoBranch.by
  BY DEF RoleFiles, NoBranch, Proposers
<1> QED
  BY <1>1 DEF RoleFiles, Branches

(* What a step of a proposal does to the host: nothing, its own commit on  *)
(* a name that was free, or its own pull request.                          *)
LEMMA RoleStep ==
  ASSUME HostTyped, Kept, NEW p \in Proposers, Propose(p) \/ RoleSteps(p)
  PROVE  /\ HostTyped'
         /\ \A n \in Names : host.branch[n] # NoBranch \/ n \notin Slugs
                             => host'.branch[n] = host.branch[n]
         /\ \A n \in Names : host.pr[n].open \/ n \notin Slugs => host'.pr[n] = host.pr[n]
         /\ \A q \in Proposers : q # p => prop'[q] = prop[q]
         /\ prop'[p].pc = "pr" =>
              host'.branch[prop'[p].name] = RoleFiles(p, prop'[p].ask)
         /\ prop'[p].out = "ok" =>
              /\ host'.pr[prop'[p].name].open
              /\ host'.branch[prop'[p].name] = RoleFiles(p, prop'[p].ask)
<1>1. prop[p] \in ProposalType /\ prop[p].name \in Names /\ prop[p].name \in Slugs
      /\ prop[p].ask \in 0..MaxAsks
  BY DEF HostTyped, ProposalType, Names
<1>2. CASE Propose(p)
  <2>1. PICK s \in Slugs, draft \in Drafts :
          prop' = [prop EXCEPT ![p] = [pc |-> IF Allowed(draft) THEN "check" ELSE "idle",
                                       name |-> s, ask |-> asks + 1,
                                       out |-> IF Allowed(draft) THEN "none" ELSE "refused"]]
    BY <1>2 DEF Propose
  <2>2. asks + 1 \in 0..MaxAsks /\ asks' = asks + 1 /\ host' = host
    BY <1>2, WorkshopAssumption DEF Propose, HostTyped
  <2>3. prop' \in [Proposers -> ProposalType]
    BY <2>1, <2>2 DEF HostTyped, ProposalType
  <2>4. prop'[p].pc \in {"check", "idle"} /\ prop'[p].out \in {"none", "refused"}
        /\ \A q \in Proposers : q # p => prop'[q] = prop[q]
    BY <2>1 DEF HostTyped
  <2> QED
    BY <2>2, <2>3, <2>4 DEF HostTyped
<1>3. CASE CheckName(p) \/ Commit(p) \/ ProposerKilled(p)
  <2>1. UNCHANGED <<host, asks>>
    BY <1>3 DEF CheckName, Commit, ProposerKilled
  <2>2. \/ \E out \in {"none", "refused", "failed"} : Ended(p, out)
        \/ \E pc \in {"commit", "push"} : Goes(p, pc) /\ prop[p].pc # "idle"
    BY <1>3 DEF CheckName, Commit, ProposerKilled, HostFails
  <2> QED
    BY <2>1, <2>2, EndedTyped, GoesTyped DEF HostTyped, Kept
<1>4. CASE PushRole(p)
  <2>1. CASE HostFails(p) /\ UNCHANGED host
    BY <1>4, <2>1, EndedTyped DEF PushRole, HostFails, HostTyped
  <2>2. CASE ~UNCHANGED host \/ ~HostFails(p)
    <3>1. /\ host.branch[prop[p].name] = NoBranch
          /\ host' = [host EXCEPT !.branch[prop[p].name] = RoleFiles(p, prop[p].ask)]
          /\ Goes(p, "pr") \/ Ended(p, "failed")
          /\ asks' = asks
      BY <1>4, <2>2 DEF PushRole, PushTaken, HostFails
    <3>2. RoleFiles(p, prop[p].ask) \in Branches
      BY <1>1, RoleFilesTyped
    <3> QED
      BY <1>1, <3>1, <3>2, BranchSet, GoesTyped, EndedTyped DEF HostTyped, Kept
  <2> QED
    BY <2>1, <2>2
<1>5. CASE OpenRolePr(p)
  <2>1. CASE HostFails(p) /\ UNCHANGED host
    BY <1>5, <2>1, EndedTyped DEF OpenRolePr, HostFails, HostTyped
  <2>2. CASE ~UNCHANGED host \/ ~HostFails(p)
    <3>1. /\ ~host.pr[prop[p].name].open /\ prop[p].pc = "pr"
          /\ host' = [host EXCEPT !.pr[prop[p].name] = RolePr]
          /\ Ended(p, "ok") \/ Ended(p, "failed")
          /\ asks' = asks
      BY <1>5, <2>2 DEF OpenRolePr, HostFails
    <3>2. RolePr \in Prs /\ RolePr.open
      BY DEF RolePr, Prs
    <3>3. host.branch[prop[p].name] = RoleFiles(p, prop[p].ask)
      BY <3>1 DEF Kept
    <3> QED
      BY <1>1, <3>1, <3>2, <3>3, PrSet, EndedTyped DEF HostTyped
  <2> QED
    BY <2>1, <2>2
<1> QED
  BY <1>2, <1>3, <1>4, <1>5 DEF RoleSteps

(* What a step of a build does to the host: nothing, its own commit, of    *)
(* what was cleared, or a pull request over the commit pushed.             *)
LEMMA BuildOnHost ==
  ASSUME HostTyped, Kept, BuildSound, BuildStarts \/ BuildWork \/ BuildKilled, prop' = prop
  PROVE  /\ host' \in [branch : [Names -> Branches], pr : [Names -> Prs]]
         /\ \A n \in Slugs : host'.branch[n] = host.branch[n] /\ host'.pr[n] = host.pr[n]
         /\ \A i \in Issues : \/ host'.branch[i] = host.branch[i]
                              \/ host'.branch[i].paths = build.cleared /\ Ships(build.cleared)
         /\ build'.pc = "pr" => host'.branch[build'.issue].passed = build'.passed
         /\ build'.out \in {"green", "red"} =>
              /\ host'.pr[build'.issue] = [open |-> TRUE, draft |-> build'.out = "red",
                                           closes |-> build'.out = "green"]
              /\ host'.branch[build'.issue].passed = (build'.out = "green")
<1>1. build \in BuildType /\ build.issue \in Issues /\ build.issue \in Names
      /\ build.passed \in BOOLEAN /\ build.cleared \in SUBSET Paths
  BY DEF BuildSound, BuildOK, BuildType, Names
<1>2. \A n \in Slugs : n \in Names /\ n # build.issue
  BY <1>1, WorkshopAssumption DEF Names
<1>6. host \in [branch : [Names -> Branches], pr : [Names -> Prs]]
  BY DEF HostTyped
<1>3. CASE PushBuild
  <2> DEFINE x == [by |-> "engineer", ask |-> 0, paths |-> Staged, passed |-> build.passed]
  <2>1. x \in Branches /\ x.passed = build.passed /\ x.paths = build.cleared
    <3>1. build.cleared \in SUBSET {"role", "note", "code", "test", "scratch", "denied"}
      BY <1>1 DEF Paths
    <3>2. 0 \in 0..MaxAsks
      BY WorkshopAssumption
    <3> QED
      BY <1>1, <3>1, <3>2 DEF Staged, Branches
  <2>2. Ships(build.cleared)
    BY <1>3 DEF PushBuild, BuildSound, BuildOK
  <2>3. CASE Ends("error") /\ UNCHANGED host
    <3>1. build'.pc = "idle" /\ build'.out = "error"
      BY <1>1, <2>3 DEF Ends, BuildType
    <3> QED
      BY <1>6, <2>3, <3>1
  <2>4. CASE ~(Ends("error") /\ UNCHANGED host)
    <3>1. /\ host' = [host EXCEPT !.branch[build.issue] = x]
          /\ build' = [build EXCEPT !.pc = "pr"] \/ Ends("error")
      BY <1>3, <2>4 DEF PushBuild
    <3>2. /\ build'.pc = "pr" => build'.issue = build.issue /\ build'.passed = build.passed
          /\ build'.out \notin {"green", "red"}
      BY <1>1, <1>3, <3>1 DEF Ends, BuildType, PushBuild, BuildSound, BuildOK
    <3> HIDE DEF x
    <3>3. /\ host' \in [branch : [Names -> Branches], pr : [Names -> Prs]]
          /\ host'.branch[build.issue] = x /\ host'.pr = host.pr
          /\ \A m \in Names : m # build.issue => host'.branch[m] = host.branch[m]
      BY <1>1, <2>1, <3>1, BranchSet
    <3> QED
      BY <1>2, <2>1, <2>2, <3>2, <3>3 DEF Names
  <2> QED
    BY <2>3, <2>4
<1>4. CASE CreatePr
  <2> DEFINE x == [open |-> TRUE, draft |-> DraftUnless, closes |-> Closes]
  <2>1. x \in Prs
    BY <1>1 DEF DraftUnless, Closes, Prs
  <2>2. build.pc = "pr" /\ host.branch[build.issue].passed = build.passed
    BY <1>4 DEF CreatePr, Kept
  <2>3. CASE Ends("error") /\ UNCHANGED host
    <3>1. build'.pc = "idle" /\ build'.out = "error"
      BY <1>1, <2>3 DEF Ends, BuildType
    <3> QED
      BY <1>6, <2>3, <3>1
  <2>4. CASE ~(Ends("error") /\ UNCHANGED host)
    <3>1. /\ host' = [host EXCEPT !.pr[build.issue] = x]
          /\ Ends(IF build.passed THEN "green" ELSE "red") \/ Ends("error")
      BY <1>4, <2>4 DEF CreatePr
    <3>2. /\ build'.pc = "idle" /\ build'.issue = build.issue
          /\ build'.out \in {IF build.passed THEN "green" ELSE "red", "error"}
      BY <1>1, <3>1 DEF Ends, BuildType
    <3>3. build'.out \in {"green", "red"} =>
            x = [open |-> TRUE, draft |-> build'.out = "red", closes |-> build'.out = "green"]
            /\ build.passed = (build'.out = "green")
      BY <1>1, <3>2 DEF DraftUnless, Closes
    <3> HIDE DEF x
    <3>4. /\ host' \in [branch : [Names -> Branches], pr : [Names -> Prs]]
          /\ host'.pr[build.issue] = x /\ host'.branch = host.branch
          /\ \A m \in Names : m # build.issue => host'.pr[m] = host.pr[m]
      BY <1>1, <2>1, <3>1, PrSet
    <3>5. build'.out \in {"green", "red"} =>
            /\ host'.pr[build'.issue] = [open |-> TRUE, draft |-> build'.out = "red",
                                         closes |-> build'.out = "green"]
            /\ host'.branch[build'.issue].passed = (build'.out = "green")
      BY <2>2, <3>2, <3>3, <3>4
    <3>6. \A n \in Slugs : host'.branch[n] = host.branch[n] /\ host'.pr[n] = host.pr[n]
      BY <1>2, <3>4
    <3> QED
      BY <3>2, <3>4, <3>5, <3>6
  <2> QED
    BY <2>3, <2>4
<1>5. CASE ~PushBuild /\ ~CreatePr
  <2>1. host' = host
    BY <1>5 DEF BuildStarts, BuildWork, BuildKilled, BuildReads, BuildClones, EngineerTurns,
                WriteFile, OtherTool, RunTests, LoopEnds, StatusCheck, FinalRun
  <2>2. \/ build' = build
        \/ build'.pc # "pr" /\ build'.out \notin {"green", "red"}
    <3>1. BuildOK(build')
      BY BuildStep DEF BuildSound
    <3>2. CASE BuildStarts \/ BuildReads \/ BuildClones
      BY <1>1, <3>1, <3>2 DEF BuildStarts, BuildReads, BuildClones, Ends, BuildType, NoBuild,
                              BuildOK, BuildSound
    <3>3. CASE EngineerTurns \/ OtherTool
      BY <3>3 DEF EngineerTurns, OtherTool
    <3>4. CASE WriteFile \/ RunTests \/ LoopEnds
      BY <1>1, <3>1, <3>4 DEF WriteFile, RunTests, LoopEnds, BuildType, BuildOK, BuildSound
    <3>5. CASE StatusCheck \/ FinalRun \/ BuildKilled
      BY <1>1, <3>1, <3>5 DEF StatusCheck, FinalRun, BuildKilled, Ends, BuildType, BuildOK,
                              BuildSound
    <3> QED
      BY <1>5, <3>2, <3>3, <3>4, <3>5 DEF BuildWork
  <2>3. CASE build' = build
    BY <1>6, <2>1, <2>3 DEF Kept
  <2>4. CASE build'.pc # "pr" /\ build'.out \notin {"green", "red"}
    BY <1>6, <2>1, <2>4
  <2> QED
    BY <2>2, <2>3, <2>4
<1> QED
  BY <1>3, <1>4, <1>5

LEMMA HostStep ==
  HostTyped /\ Kept /\ BuildSound /\ [Next]_vars =>
    /\ HostTyped' /\ Kept'
    /\ \A s \in Slugs : host.branch[s] \in {NoBranch, host'.branch[s]}
    /\ \A i \in Issues : \/ host'.branch[i] = host.branch[i]
                         \/ host'.branch[i].paths = build.cleared /\ Ships(build.cleared)
<1> SUFFICES ASSUME HostTyped, Kept, BuildSound, [Next]_vars
             PROVE  /\ HostTyped' /\ Kept'
                    /\ \A s \in Slugs : host.branch[s] \in {NoBranch, host'.branch[s]}
                    /\ \A i \in Issues :
                         \/ host'.branch[i] = host.branch[i]
                         \/ host'.branch[i].paths = build.cleared /\ Ships(build.cleared)
  OBVIOUS
<1>1. Slugs \subseteq Names /\ Issues \subseteq Names /\ \A i \in Issues : i \notin Slugs
  BY WorkshopAssumption DEF Names
<1>2. \A p \in Proposers : prop[p].name \in Slugs /\ prop[p].ask \in 0..MaxAsks
  BY DEF HostTyped, ProposalType
<1>3. build.issue \in Issues
  BY DEF BuildSound, BuildOK, BuildType
<1>4. CASE (BuildStarts \/ BuildWork \/ BuildKilled) /\ UNCHANGED <<prop, asks, asked, half>>
  BY <1>1, <1>2, <1>4, BuildOnHost DEF HostTyped, Kept
<1>5. CASE (\E p \in Proposers : Propose(p) \/ RoleSteps(p)) /\ UNCHANGED build
  <2>1. PICK p \in Proposers : Propose(p) \/ RoleSteps(p)
    BY <1>5
  <2>2. \A q \in Proposers :
          prop[q].pc = "pr" \/ prop[q].out = "ok" => host.branch[prop[q].name] # NoBranch
    BY <1>2, RoleFilesTyped DEF Kept
  <2> QED
    BY <1>1, <1>2, <1>3, <1>5, <2>1, <2>2, RoleStep DEF Kept
<1>6. CASE UNCHANGED <<host, prop, asks, build>>
  BY <1>6 DEF HostTyped, Kept
<1> QED
  BY <1>4, <1>5, <1>6, Halved DEF vars, RoleNext, ChatMessage, ChatTurns, ChatReplies,
     CliProposes, ReviewProposes, Proposers

LEMMA InitHost == Init => HostTyped /\ Kept /\ PushedIsCleared
<1> SUFFICES ASSUME Init PROVE HostTyped /\ Kept /\ PushedIsCleared
  OBVIOUS
<1>1. (CHOOSE s \in Slugs : TRUE) \in Slugs /\ 0 \in 0..MaxAsks
  BY WorkshopAssumption
<1>2. NoBranch \in Branches /\ NoPr \in Prs /\ NoProposal \in ProposalType
  BY <1>1 DEF NoBranch, Branches, NoPr, Prs, NoProposal, ProposalType
<1>3. HostTyped
  BY <1>1, <1>2 DEF Init, HostInit, HostTyped, Names
<1>4. Kept
  BY DEF Init, HostInit, NoProposal, NoBuild, Kept
<1>5. PushedIsCleared
  BY DEF Init, HostInit, PushedIsCleared
<1> QED
  BY <1>3, <1>4, <1>5

(* A proposal's branch is never replaced, though three processes look the  *)
(* name up long before they push.                                          *)
THEOREM BranchesWrittenOnce == Spec => WriteOnce
<1>1. HostTyped /\ Kept /\ BuildSound /\ [Next]_vars =>
        [\A s \in Slugs : host.branch[s] \in {NoBranch, host'.branch[s]}]_vars
  BY HostStep
<1>2. HostTyped /\ Kept /\ BuildSound /\ [Next]_vars => HostTyped' /\ Kept'
  BY HostStep
<1> QED
  BY <1>1, <1>2, InitHost, InitBuild, BuildSoundStep, PTL DEF Spec, WriteOnce

(* What a build has pushed is what was cleared, whatever its test runs     *)
(* leave behind and however often the issue is built.                      *)
THEOREM PushesAreCleared == Spec => []PushedIsCleared
<1>1. HostTyped /\ Kept /\ BuildSound /\ PushedIsCleared /\ [Next]_vars => PushedIsCleared'
  BY HostStep DEF PushedIsCleared, Ships, TestsOnly
<1>2. HostTyped /\ Kept /\ BuildSound /\ [Next]_vars => HostTyped' /\ Kept'
  BY HostStep
<1> QED
  BY <1>1, <1>2, InitHost, InitBuild, BuildSoundStep, PTL DEF Spec

(* A report of a pull request is true, of a proposal for ever and of a     *)
(* build until the next: commands that fail after they took effect and     *)
(* killed processes make silence, never a false report.                    *)
THEOREM ReportsAreTrue == Spec => []ReportedIsThere
<1>1. Kept => ReportedIsThere
  BY DEF Kept, ReportedIsThere
<1>2. HostTyped /\ Kept /\ BuildSound /\ [Next]_vars => HostTyped' /\ Kept'
  BY HostStep
<1> QED
  BY <1>1, <1>2, InitHost, InitBuild, BuildSoundStep, PTL DEF Spec

(* The types of the workshop.                                              *)
THEOREM WorkshopWellTyped == Spec => []TypeOK
<1> DEFINE Flags == asked \in BOOLEAN /\ half \in Halves
<1>1. Init => LoopsOK /\ Flags
  BY LoopStarts DEF Init, LoopsOK
<1>2. Flags /\ [Next]_vars => Flags'
  BY DEF Next, BuildNext, RoleNext, ChatMessage, ChatTurns, ChatReplies, vars
<1>3. HostTyped => HostTypeOK
  BY DEF HostTyped, HostTypeOK, Names, Branches, Prs
<1>4. LoopsOK => ag \in [Agents -> AgentType]
  BY DEF LoopsOK, LoopOK
<1>5. HostTyped /\ LoopsOK /\ BuildSound /\ Flags => TypeOK
  BY <1>3, <1>4 DEF TypeOK, BuildSound, BuildOK
<1>6. HostTyped /\ Kept /\ BuildSound /\ [Next]_vars => HostTyped' /\ Kept'
  BY HostStep
<1> HIDE DEF Flags
<1> QED
  BY <1>1, <1>2, <1>5, <1>6, InitHost, InitBuild, BuildSoundStep, LoopsStep, PTL DEF Spec
=============================================================================
