-------------------------------- MODULE RolePrs --------------------------------
(***************************************************************************)
(* Role proposals (propose.py): whoever has a proposal - a chat message, a *)
(* review, the command line - goes through run_propose, and the git host   *)
(* keeps what was pushed.  They are different processes that share nothing *)
(* but the remote: the name is free when it is looked up, and taken by the *)
(* push a minute later.  Each command of the host may fail, or take effect *)
(* and fail all the same (it is cut off after SUBPROCESS_TIMEOUT).         *)
(***************************************************************************)
EXTENDS Integers, FiniteSets

CONSTANTS
    Slugs,      \* the names proposed
    Issues,     \* the issues built, whose branches the host keeps as well
    MaxAsks     \* bound: proposals made, all in all

VARIABLES
    host,       \* [branch, pr]: the remote, by name
    prop,       \* prop[p]: the proposal p is at or came to, see ProposalType
    asks        \* proposals made so far; the last one's is its identity

\* A chat message, a review wake, the command line: a process each.
Proposers == {"chat", "review", "cli"}

NoBranch == [by |-> "nobody", ask |-> 0, paths |-> {}, passed |-> FALSE]
NoPr == [open |-> FALSE, draft |-> FALSE, closes |-> FALSE]
RolePr == [open |-> TRUE, draft |-> FALSE, closes |-> FALSE]
RoleFiles(p, n) == [by |-> p, ask |-> n, paths |-> {"role", "note"}, passed |-> FALSE]

ProposalType == [pc : {"idle", "check", "commit", "push", "pr"}, name : Slugs,
                 ask : 0..MaxAsks, out : {"none", "ok", "refused", "failed"}]

NoProposal == [pc |-> "idle", name |-> CHOOSE s \in Slugs : TRUE, ask |-> 0, out |-> "none"]

\* What may be proposed: a role, or a block with no slug, no body, a path elsewhere.
Drafts == {"role", "nameless", "empty", "outside"}

\* slugify, the role file and path_violation.
Allowed(draft) == draft = "role"

Ended(p, out) == prop' = [prop EXCEPT ![p].pc = "idle", ![p].out = out]

\* A command of the host that exits with an error or runs out of time.
HostFails(p) == Ended(p, "failed")

Goes(p, pc) == prop' = [prop EXCEPT ![p].pc = pc]

\* A draft the rules do not allow is refused before the host is asked.
Propose(p) ==
    /\ prop[p].pc = "idle" /\ asks < MaxAsks
    /\ asks' = asks + 1
    /\ \E s \in Slugs, draft \in Drafts :
         prop' = [prop EXCEPT ![p] = [pc |-> IF Allowed(draft) THEN "check" ELSE "idle",
                                      name |-> s, ask |-> asks + 1,
                                      out |-> IF Allowed(draft) THEN "none" ELSE "refused"]]
    /\ UNCHANGED host

\* branch_exists, git ls-remote.
CheckName(p) ==
    /\ prop[p].pc = "check"
    /\ \/ host.branch[prop[p].name] = NoBranch /\ Goes(p, "commit")
       \/ host.branch[prop[p].name] # NoBranch /\ Ended(p, "refused")
       \/ HostFails(p)
    /\ UNCHANGED <<host, asks>>

\* Fetch, a worktree of its own, the two files, one commit.
Commit(p) ==
    /\ prop[p].pc = "commit"
    /\ Goes(p, "push") \/ HostFails(p)
    /\ UNCHANGED <<host, asks>>

\* Faulty: the push of the builds, with --force.
PushTakenForced(name) == TRUE

\* A plain push: the remote takes no commit that does not follow its own.
PushTaken(name) == host.branch[name] = NoBranch

PushRole(p) ==
    /\ prop[p].pc = "push"
    /\ \/ /\ PushTaken(prop[p].name)
          /\ host' = [host EXCEPT !.branch[prop[p].name] = RoleFiles(p, prop[p].ask)]
          /\ Goes(p, "pr") \/ HostFails(p)
       \/ HostFails(p) /\ UNCHANGED host
    /\ UNCHANGED asks

OpenRolePr(p) ==
    /\ prop[p].pc = "pr"
    /\ \/ /\ ~host.pr[prop[p].name].open
          /\ host' = [host EXCEPT !.pr[prop[p].name] = RolePr]
          /\ Ended(p, "ok") \/ HostFails(p)
       \/ HostFails(p) /\ UNCHANGED host
    /\ UNCHANGED asks

\* The process dies: nothing is reported.
ProposerKilled(p) ==
    /\ prop[p].pc # "idle" /\ Ended(p, "none")
    /\ UNCHANGED <<host, asks>>

HostInit ==
    /\ host = [branch |-> [n \in Slugs \cup Issues |-> NoBranch],
               pr |-> [n \in Slugs \cup Issues |-> NoPr]]
    /\ prop = [p \in Proposers |-> NoProposal] /\ asks = 0

HostTypeOK ==
    /\ \A n \in Slugs \cup Issues :
         /\ host.branch[n] \in [by : Proposers \cup {"nobody", "engineer"}, ask : 0..MaxAsks,
                                paths : SUBSET {"role", "note", "code", "test", "scratch", "denied"},
                                passed : BOOLEAN]
         /\ host.pr[n] \in [open : BOOLEAN, draft : BOOLEAN, closes : BOOLEAN]
    /\ prop \in [Proposers -> ProposalType]
    /\ asks \in 0..MaxAsks

=============================================================================
