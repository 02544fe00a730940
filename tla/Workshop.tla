------------------------------- MODULE Workshop -------------------------------
(***************************************************************************)
(* Everything that opens pull requests: the build of an issue in its       *)
(* throwaway clone (engineer.run_build, run by `daemon build N`), and the  *)
(* role proposals of chat, review and command line, over one git host.     *)
(*                                                                         *)
(* A build is one process that does one thing after another: fetch, clone, *)
(* the tool loop, the check of the tree, the last test run, the push, the  *)
(* pull request.  Any of it may fail, the process may be killed, and the   *)
(* same issue may be built again by hand.                                  *)
(***************************************************************************)
EXTENDS AgentLoop, RolePrs

CONSTANTS
    FixTurns,   \* load_build_fix_turns: fixes after a red run
    MaxTries,   \* bound: builds of the issue
    Halves      \* "build", "roles": which of them are at work; they share no branch

VARIABLES
    build,      \* the running build, see BuildType
    asked,      \* whether the chat message at hand was `propose role:`
    half

vars == <<ag, host, prop, asks, build, asked, half>>

ASSUME WorkshopAssumption ==
    /\ TurnCap \in Nat \ {0} /\ ToolCap \in Nat /\ MaxCalls \in Nat \ {0}
    /\ FixTurns \in Nat /\ MaxTries \in Nat /\ MaxAsks \in Nat
    /\ Slugs # {} /\ Issues # {} /\ Slugs \cap Issues = {}
    /\ Halves \subseteq {"build", "roles"}

\* Kinds of paths: implementation, a test module, another file under tests/,
\* anything path_allowed refuses.
Paths == {"code", "test", "scratch", "denied"}
Writable == {"code", "test"}
Dropped == {"scratch", "denied"}

\* `tree` is what git status would list, `cleared` the list that was checked.
\* `edits` is a history field: edits begun after a red run that counted.
BuildType == [pc : {"idle", "open", "clone", "loop", "status", "final", "push", "pr"},
              issue : Issues, tries : 0..MaxTries, tree : SUBSET Paths, cleared : SUBSET Paths,
              reds : 0..(FixTurns + 1), wrote : BOOLEAN, exhausted : BOOLEAN,
              passed : BOOLEAN, out : {"none", "green", "red", "error"}, edits : 0..(FixTurns + 1)]

NoBuild(i, tries) ==
    [pc |-> "idle", issue |-> i, tries |-> tries, tree |-> {}, cleared |-> {}, reds |-> 0,
     wrote |-> FALSE, exhausted |-> FALSE, passed |-> FALSE, out |-> "none", edits |-> 0]

Ends(out) == build' = [build EXCEPT !.pc = "idle", !.out = out, !.tree = {}, !.cleared = {}]

BuildStarts ==
    /\ build.pc = "idle" /\ build.tries < MaxTries
    /\ \E i \in Issues : build' = [NoBuild(i, build.tries + 1) EXCEPT !.pc = "open"]
    /\ UNCHANGED <<ag, host>>

\* The issue's title and body, from the git host.
BuildReads ==
    /\ build.pc = "open"
    /\ build' = [build EXCEPT !.pc = "clone"] \/ Ends("error")
    /\ UNCHANGED <<ag, host>>

\* A clone has nothing that git status would list.
FreshTree == {}

\* A fresh clone, in place of any earlier workspace.
BuildClones ==
    /\ build.pc = "clone"
    /\ \/ build' = [build EXCEPT !.pc = "loop", !.tree = FreshTree] /\ ag' = [ag EXCEPT !["engineer"] = Started]
       \/ Ends("error") /\ UNCHANGED ag
    /\ UNCHANGED host

-----------------------------------------------------------------------------
(* The tool loop.                                                           *)

EngineerTurns ==
    /\ Turn("engineer", build.exhausted) \/ Break("engineer", build.exhausted)
    /\ UNCHANGED <<host, build>>

\* Faulty: only the brake on the loop knows that the budget is spent.
MayWriteTillTurn(path) == path \in Writable

MayWrite(path) == ~build.exhausted /\ path \in Writable

\* A refused or failed write is an answered call like any other tool's.
WriteFile ==
    /\ build.pc = "loop" /\ AnswerCall("engineer")
    /\ \E path \in Paths :
         /\ MayWrite(path)
         /\ build' = [build EXCEPT !.tree = @ \cup {path}, !.wrote = TRUE,
                                   !.edits = IF build.reds > 0 /\ ~build.wrote THEN @ + 1 ELSE @]
    /\ UNCHANGED host

OtherTool ==
    /\ build.pc = "loop" /\ AnswerCall("engineer")
    /\ UNCHANGED <<host, build>>

\* A test the engineer wrote may leave a file behind.
Leaves(tree) == {{}} \cup (IF "test" \in tree THEN {{p} : p \in Dropped} ELSE {})

\* A red run counts once per edit; the one past the budget ends the writing.
RunTests ==
    /\ build.pc = "loop" /\ AnswerCall("engineer")
    /\ \E passed \in BOOLEAN, left \in Leaves(build.tree) :
         LET counted == ~passed /\ build.wrote
         IN build' = [build EXCEPT !.tree = @ \cup left,
                                   !.reds = IF counted THEN @ + 1 ELSE @,
                                   !.wrote = @ /\ ~counted,
                                   !.exhausted = @ \/ (counted /\ build.reds >= FixTurns)]
    /\ UNCHANGED host

LoopEnds ==
    /\ build.pc = "loop" /\ ag["engineer"].pc = "over"
    /\ build' = [build EXCEPT !.pc = "status"]
    /\ ag' = [ag EXCEPT !["engineer"] = Off]
    /\ UNCHANGED host

-----------------------------------------------------------------------------
(* The finish.                                                              *)

\* tests_only, of a tree with nothing refused in it; no change at all goes the same way.
TestsOnly(tree) == "code" \notin tree

\* No change, a denied path, scratch under tests/ or tests only: not shipped.
Ships(tree) == tree \subseteq Writable /\ ~TestsOnly(tree)

\* status_paths: the real tree, whatever the tools say they have written.
StatusPaths == build.tree

StatusCheck ==
    /\ build.pc = "status"
    /\ \/ Ships(StatusPaths) /\ build' = [build EXCEPT !.pc = "final", !.cleared = StatusPaths]
       \/ Ends("error")
    /\ UNCHANGED <<ag, host>>

\* The whole suite once more; it may leave files, and a runner may blow up.
FinalRun ==
    /\ build.pc = "final"
    /\ \/ \E passed \in BOOLEAN, left \in Leaves(build.tree) :
            build' = [build EXCEPT !.pc = "push", !.passed = passed, !.tree = @ \cup left]
       \/ Ends("error")
    /\ UNCHANGED <<ag, host>>

\* Faulty: git add -A.
StagedAll == build.tree

\* git add -- paths: what was checked, and not what came after.
Staged == build.cleared

\* One commit, pushed with --force; cut off, it may have landed all the same.
PushBuild ==
    /\ build.pc = "push"
    /\ \/ /\ host' = [host EXCEPT !.branch[build.issue] =
                        [by |-> "engineer", ask |-> 0, paths |-> Staged, passed |-> build.passed]]
          /\ build' = [build EXCEPT !.pc = "pr"] \/ Ends("error")
       \/ Ends("error") /\ UNCHANGED host
    /\ UNCHANGED ag

\* Faulty: every pull request is a normal one.
DraftNever == FALSE

DraftUnless == ~build.passed

\* The body of a green build's pull request closes the issue when it is merged.
Closes == build.passed

\* The host opens one pull request for a branch.
CreatePr ==
    /\ build.pc = "pr"
    /\ \/ /\ ~host.pr[build.issue].open
          /\ host' = [host EXCEPT !.pr[build.issue] =
                        [open |-> TRUE, draft |-> DraftUnless, closes |-> Closes]]
          /\ Ends(IF build.passed THEN "green" ELSE "red") \/ Ends("error")
       \/ Ends("error") /\ UNCHANGED host
    /\ UNCHANGED ag

\* `cancel build`, or the daemon goes down and takes its child with it.
BuildKilled ==
    /\ build.pc # "idle" /\ Ends("none")
    /\ ag' = [ag EXCEPT !["engineer"] = Off]
    /\ UNCHANGED host

-----------------------------------------------------------------------------
(* The chat message that may end in a proposal.                             *)

ChatMessage ==
    /\ ag["chat"].pc = "off" /\ prop["chat"].pc = "idle"
    /\ asked' \in BOOLEAN
    /\ ag' = [ag EXCEPT !["chat"] = Started]
    /\ UNCHANGED <<host, prop, asks>>

ChatTurns ==
    /\ \/ Turn("chat", FALSE) \/ Break("chat", FALSE) \/ Finish("chat")
       \/ AnswerCall("chat") \/ CappedCall("chat")
    /\ UNCHANGED <<host, prop, asks, asked>>

\* parse_proposal: a reply with text may hold a block that can be read.
MayHoldBlock(reply) == reply = "text"

\* A block in the reply is handed on only when it was asked for.
ChatReplies ==
    /\ ag["chat"].pc = "over"
    /\ \/ asked /\ MayHoldBlock(ag["chat"].reply) /\ Propose("chat")
       \/ UNCHANGED <<host, prop, asks>>
    /\ ag' = [ag EXCEPT !["chat"] = Off] /\ asked' = FALSE

\* `daemon propose`, with the role file typed, and the block of a review.
CliProposes == Propose("cli")
ReviewProposes == Propose("review")

RoleSteps(p) == CheckName(p) \/ Commit(p) \/ PushRole(p) \/ OpenRolePr(p) \/ ProposerKilled(p)

-----------------------------------------------------------------------------
Init ==
    /\ ag = [a \in Agents |-> Off] /\ HostInit
    /\ build = NoBuild(CHOOSE i \in Issues : TRUE, 0)
    /\ asked = FALSE /\ half \in Halves

BuildWork == \/ BuildReads \/ BuildClones \/ EngineerTurns \/ WriteFile \/ OtherTool \/ RunTests
             \/ LoopEnds \/ StatusCheck \/ FinalRun \/ PushBuild \/ CreatePr

BuildNext == /\ half = "build" /\ (BuildStarts \/ BuildWork \/ BuildKilled)
             /\ UNCHANGED <<prop, asks, asked, half>>

RoleNext ==
    /\ half = "roles" /\ UNCHANGED <<build, half>>
    /\ \/ ChatMessage \/ ChatTurns \/ ChatReplies
       \/ (CliProposes \/ ReviewProposes) /\ UNCHANGED <<ag, asked>>
       \/ \E p \in Proposers : RoleSteps(p) /\ UNCHANGED <<ag, asked>>

Next == BuildNext \/ RoleNext

\* The build is a process that runs until it ends: every call it makes has a
\* time limit (SUBPROCESS_TIMEOUT, TEST_TIMEOUT, the HTTP timeout).
Fairness == WF_vars(BuildWork /\ UNCHANGED <<prop, asks, asked, half>>)

Spec == Init /\ [][Next]_vars /\ Fairness

-----------------------------------------------------------------------------
(* Properties.                                                              *)

TypeOK ==
    /\ ag \in [Agents -> AgentType]
    /\ HostTypeOK
    /\ build \in BuildType
    /\ asked \in BOOLEAN /\ half \in Halves

\* A loop goes past its turns only by the one finishing turn of chat, whatever
\* its replies call for (run_agent, caps and finish_on_cap).
CapsHold == \A a \in Agents : ag[a].turns <= TurnCap + (IF a \in Finishing THEN 1 ELSE 0)

\* After a red run at most FixTurns rounds of edits get into the tree, however
\* the calls are packed into replies (write_file, run_tests, stop=).
FixBudget == build.edits <= FixTurns

\* What a build pushes is implementation with or without its tests, and
\* nothing that the ACL refuses or that a test run left behind (run_build).
PushedIsCleared ==
    \A i \in Issues : host.branch[i] # NoBranch =>
        host.branch[i].paths \subseteq Writable /\ "code" \in host.branch[i].paths

\* A proposal's branch, once pushed, is never replaced by another proposal's:
\* the name is checked long before the push (run_propose, "write-once").
WriteOnce == [][\A s \in Slugs : host.branch[s] \in {NoBranch, host'.branch[s]}]_vars

\* Who is told of a pull request finds it, over its own commit: a role's as it
\* was proposed, a build's as a draft that closes nothing when its last run was red
\* (summary, receipts).
ReportedIsThere ==
    /\ \A p \in Proposers : prop[p].out = "ok" =>
         host.pr[prop[p].name].open /\ host.branch[prop[p].name] = RoleFiles(p, prop[p].ask)
    /\ build.out \in {"green", "red"} =>
         /\ host.pr[build.issue] = [open |-> TRUE, draft |-> build.out = "red",
                                    closes |-> build.out = "green"]
         /\ host.branch[build.issue].passed = (build.out = "green")

\* A build that has started ends: its slot is not held for ever (run_agent's
\* caps, the fix budget, run_build's fail).
BuildEnds == build.pc # "idle" ~> build.pc = "idle"

\* engineer.py: green as a normal pull request, red as a draft.
GreenIsGreen ==
    \A i \in Issues : host.pr[i].open /\ ~host.pr[i].draft => host.branch[i].passed

=============================================================================
