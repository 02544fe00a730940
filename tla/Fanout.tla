------------------------------- MODULE Fanout -------------------------------
(***************************************************************************)
(* The helpers of one gameweek: the draft's fan-out (the analysts one      *)
(* after another, the gaffer's internal plan, the AM), the final's Scout   *)
(* delta, the daily Scout sweep and the staff asks of chat                 *)
(* (daemon/fanout.py, daemon/helper.py, daemon/gaffer_tools.py), over the  *)
(* report folder (daemon/reports.py).                                      *)
(*                                                                         *)
(* Three processes run: "brief" and "scout", oneshots of their timers, and *)
(* "chat", the reply loop.  Each works through a list of tasks.  A helper  *)
(* is a tool loop bounded by its own ceilings; only between helpers do the *)
(* wake's rails and the month's ledger decide whether the next one runs.   *)
(* The ledger is a module of its own: here it may say anything.            *)
(*                                                                         *)
(* A report is known by what it is: a helper's own ("full"), a stub that   *)
(* names a failure, or a file that holds nothing but answers to asks       *)
(* ("note").  The Scout's log is the number of its entries.                 *)
(***************************************************************************)
EXTENDS Naturals, Sequences

CONSTANTS
  Analysts,    \* the analysts, in the order they run
  AM, Scout,   \* the assistant manager and the Scout
  NONE,        \* no process
  CallRail,    \* wake_rails["calls"]
  Turns, Searches,        \* a helper's ceilings
  MaxAsks,     \* bound: staff asks in chat
  MaxSweeps,   \* bound: daily sweeps
  MaxFaults    \* bound: failed calls, sends and writes, killed processes

Analyst == {Analysts[i] : i \in DOMAIN Analysts}
Reporter == Analyst \cup {AM}
Role == Reporter \cup {Scout}
Proc == {"brief", "scout", "chat"}
Errand == {"plan", "write"}   \* tasks of a wake that are not a helper's
Briefs == {"draft", "final"}

ASSUME RolesAssumption ==
  /\ Analysts \in Seq(Analyst)
  /\ AM \notin Analyst /\ Scout \notin Reporter
  /\ Role \cap Errand = {} /\ NONE \notin Proc
ASSUME CeilingsAssumption == CallRail \in Nat /\ Turns \in Nat \ {0} /\ Searches \in Nat
ASSUME BoundsAssumption == MaxAsks \in Nat /\ MaxSweeps \in Nat /\ MaxFaults \in Nat

VARIABLES
  window,   \* the brief that is due
  out,      \* the briefs that have gone out
  file,     \* per reporter: what <role>.md is
  log,      \* the entries of scout-log.md
  lock,     \* the process that holds the log's lock
  logCopy,  \* what the lock's holder has read of the log
  fileCopy, \* what chat has read of the report it will add to
  proc,     \* per process: where it is and what it holds, see Idle
  kind,     \* the brief the wake makes
  gaps,     \* roles its message names as not delivered
  asks, sweeps, faults,
  entries   \* history: entries written to the Scout log

folder == <<file, log, lock, logCopy, fileCopy, entries>>
brief == <<out, kind, gaps>>
counts == <<asks, sweeps>>
vars == <<window, folder, brief, counts, proc, faults>>

Tasks(k) == IF k = "draft"
              THEN Analysts \o <<"plan", AM, "write">>
              ELSE <<Scout, "write">>

(* What a process holds: its tasks, the first one current; the calls of    *)
(* its wake and whether a rail was crossed; of the helper that runs, its   *)
(* turns, the searches left, whether it was asked once more for a report,  *)
(* and what it came to.                                                    *)
Idle == [pc |-> "off", todo |-> <<>>, calls |-> 0, hit |-> FALSE,
         turns |-> 0, left |-> 0, nudged |-> FALSE, outcome |-> "none"]

Init ==
  /\ window = "draft" /\ out = {}
  /\ file = [r \in Reporter |-> "none"]
  /\ log = 0 /\ lock = NONE /\ logCopy = 0 /\ fileCopy = "none"
  /\ proc = [p \in Proc |-> Idle]
  /\ kind = "draft" /\ gaps = {}
  /\ asks = 0 /\ sweeps = 0 /\ faults = 0
  /\ entries = 0

Fault == faults < MaxFaults /\ faults' = faults + 1

At(p, where) == proc[p].pc = where
Task(p) == Head(proc[p].todo)
Running(p) == At(p, "task") /\ Task(p) \in Role

\* Faulty: a wake goes on to a task after its last.
NeverEnds(p, r) == [r EXCEPT !.pc = "task", !.todo = Tail(@), !.outcome = "none"]

(* p's record once its task is done.  After the last one a brief is sent;  *)
(* others end.                                                             *)
AfterTask(p, r) ==
  LET rest == Tail(r.todo)
  IN IF rest = <<>> /\ p # "brief" THEN Idle
     ELSE [r EXCEPT !.pc = IF rest = <<>> THEN "send" ELSE "task", !.todo = rest,
                    !.turns = 0, !.left = 0, !.nudged = FALSE, !.outcome = "none"]

Becomes(p, r) == proc' = [proc EXCEPT ![p] = r]
Advances(p) == Becomes(p, AfterTask(p, proc[p]))

Ends(p) == Becomes(p, Idle)

(* n calls of p's model client; the rest of p's record moves on to r.      *)
Calls(p, n, r) == Becomes(p, [r EXCEPT !.calls = @ + n])

-----------------------------------------------------------------------------
(* Before a helper.                                                        *)

(* A log is never "already written".                                       *)
Exists(role) == role # Scout /\ file[role] # "none"

Keeps(p) ==
  /\ Running(p) /\ Exists(Task(p))
  /\ Advances(p)
  /\ UNCHANGED <<window, folder, brief, counts, faults>>

\* Faulty: the rail is the last call allowed before a helper.
CallsPastRail(p) == proc[p].calls > CallRail

CallsCrossed(p) == proc[p].calls >= CallRail

(* A crossed rail is sticky.  The cost, token and minute rails, of which   *)
(* the model knows nothing, may be crossed at any time.                    *)
RailSkips(p) ==
  /\ Running(p) /\ ~Exists(Task(p))
  /\ Becomes(p, [proc[p] EXCEPT !.hit = TRUE, !.pc = "report", !.outcome = "skipped"])
  /\ UNCHANGED <<window, folder, brief, counts, faults>>

MayRun(p) == Running(p) /\ ~Exists(Task(p)) /\ ~proc[p].hit /\ ~CallsCrossed(p)

(* helpers_off, and the AM runs all the same.                              *)
LedgerSkips(p) ==
  /\ MayRun(p) /\ Task(p) # AM
  /\ Becomes(p, [proc[p] EXCEPT !.pc = "report", !.outcome = "skipped"])
  /\ UNCHANGED <<window, folder, brief, counts, faults>>

(* The AM has no tools; the others lose search under search_off.           *)
HelperStarts(p) ==
  /\ MayRun(p)
  /\ \E left \in {0, Searches} :
       /\ Task(p) = AM => left = 0
       /\ Becomes(p, [proc[p] EXCEPT !.pc = "loop", !.left = left])
  /\ UNCHANGED <<window, folder, brief, counts, faults>>

-----------------------------------------------------------------------------
(* run_helper: the tool loop.                                              *)

MayTurn(p) == At(p, "loop") /\ proc[p].turns + 1 < Turns

(* A reply with no tool call is the report; an empty one is a failure.     *)
ModelReports(p, outcome) ==
  /\ MayTurn(p)
  /\ Calls(p, 1, [proc[p] EXCEPT !.turns = @ + 1, !.pc = "report", !.outcome = outcome])
  /\ UNCHANGED <<window, folder, brief, counts, faults>>

(* Cut off with nothing visible: asked once more.                          *)
ModelIsCutOff(p) ==
  /\ MayTurn(p) /\ ~proc[p].nudged
  /\ Calls(p, 1, [proc[p] EXCEPT !.turns = @ + 1, !.nudged = TRUE])
  /\ UNCHANGED <<window, folder, brief, counts, faults>>

(* Tool calls: n searches, of which `counted` were answered, each by a     *)
(* model call of its own.  A fetch, and a search that is off, are free.    *)
ModelGathers(p, n, counted) ==
  /\ MayTurn(p) /\ n <= proc[p].left /\ counted <= n
  /\ Calls(p, 1 + counted, [proc[p] EXCEPT !.turns = @ + 1, !.left = @ - n])
  /\ UNCHANGED <<window, folder, brief, counts, faults>>

(* A ceiling is hit: of minutes or fetches at any time, of turns at the    *)
(* latest.  One more call, without tools, writes up; were it empty, it     *)
(* would say so.                                                           *)
WritesUp(p) ==
  /\ At(p, "loop")
  /\ Calls(p, 1, [proc[p] EXCEPT !.turns = @ + 1, !.pc = "report", !.outcome = "full"])
  /\ UNCHANGED <<window, folder, brief, counts, faults>>

HelperFails(p) ==
  /\ At(p, "loop")
  /\ Fault
  /\ Becomes(p, [proc[p] EXCEPT !.pc = "report", !.outcome = "failed"])
  /\ UNCHANGED <<window, folder, brief, counts>>

Loops(p) ==
  \/ \E outcome \in {"full", "failed"} : ModelReports(p, outcome)
  \/ ModelIsCutOff(p)
  \/ \E n \in 0 .. Searches, counted \in 0 .. Searches : ModelGathers(p, n, counted)
  \/ WritesUp(p)

-----------------------------------------------------------------------------
(* The helper's report, or its stub.                                       *)

Outcome(p) == proc[p].outcome
Reporting(p) == At(p, "report") /\ p # "chat"

NamesGap(p) == gaps' = IF p = "brief" THEN gaps \cup {Task(p)} ELSE gaps

Delivered(p) ==
  IF Outcome(p) = "full" THEN UNCHANGED gaps ELSE NamesGap(p)

WritesReport(p) ==
  /\ Reporting(p) /\ Task(p) # Scout /\ ~Exists(Task(p))
  /\ file' = [file EXCEPT ![Task(p)] = IF Outcome(p) = "full" THEN "full" ELSE "stub"]
  /\ Delivered(p) /\ Advances(p)
  /\ UNCHANGED <<window, log, lock, logCopy, fileCopy, entries, out, kind, counts, faults>>

(* A file has appeared since the helper was chosen: refused, and a gap     *)
(* unless the helper was only skipped.                                     *)
IsRefused(p) ==
  /\ Reporting(p) /\ Exists(Task(p))
  /\ IF Outcome(p) = "skipped" THEN UNCHANGED gaps ELSE NamesGap(p)
  /\ Advances(p)
  /\ UNCHANGED <<window, folder, out, kind, counts, faults>>

(* _append_scout, and append_section on the same file: the lock is held    *)
(* from the read to the write.                                             *)
\* Faulty: the log is read without the lock.
LockIgnored == TRUE

LockFree == lock = NONE

LocksLog(p) ==
  /\ At(p, "report") /\ Task(p) = Scout /\ LockFree
  /\ lock' = p /\ logCopy' = log
  /\ Becomes(p, [proc[p] EXCEPT !.pc = "append"])
  /\ UNCHANGED <<window, file, log, fileCopy, entries, brief, counts, faults>>

(* The section of an ask reads as an entry too.                            *)
AppendsEntry(p) ==
  /\ At(p, "append") /\ Task(p) = Scout
  /\ log' = logCopy + 1 /\ entries' = entries + 1
  /\ lock' = NONE /\ logCopy' = 0
  /\ Delivered(p) /\ Advances(p)
  /\ UNCHANGED <<window, file, fileCopy, out, kind, counts, faults>>

Unlocks(p) ==
  IF lock = p THEN lock' = NONE /\ logCopy' = 0 ELSE UNCHANGED <<lock, logCopy>>

\* Faulty: the result of a stub that could not be written is dropped.
StubErrorForgotten(p) ==
  /\ Fault
  /\ At(p, "report") \/ At(p, "append")
  /\ p # "chat" /\ Outcome(p) = "failed"
  /\ Advances(p)
  /\ Unlocks(p)
  /\ UNCHANGED <<window, file, log, fileCopy, entries, brief, counts>>

(* The stub of a failed helper cannot be written: a gap without a file.    *)
StubFails(p) ==
  /\ Fault
  /\ At(p, "report") \/ At(p, "append")
  /\ p # "chat" /\ Outcome(p) = "failed"
  /\ NamesGap(p)
  /\ Advances(p)
  /\ Unlocks(p)
  /\ UNCHANGED <<window, file, log, fileCopy, entries, out, kind, counts>>

(* A report or a skipped helper's stub cannot be written: the error leaves *)
(* run_helper and _skip, and ends the wake.                                *)
WriteRaises(p) ==
  /\ Fault
  /\ At(p, "report") \/ At(p, "append")
  /\ p # "chat" /\ Outcome(p) # "failed"
  /\ Ends(p) /\ Unlocks(p)
  /\ UNCHANGED <<window, file, log, fileCopy, entries, brief, counts>>

(* append_section on a report: its own lock, which only chat takes.        *)
SectionReads ==
  /\ At("chat", "report") /\ Task("chat") # Scout
  /\ fileCopy' = file[Task("chat")]
  /\ Becomes("chat", [proc["chat"] EXCEPT !.pc = "append"])
  /\ UNCHANGED <<window, file, log, lock, logCopy, entries, brief, counts, faults>>

SectionWrites ==
  /\ At("chat", "append") /\ Task("chat") # Scout
  /\ file' = [file EXCEPT ![Task("chat")] = IF fileCopy = "none" THEN "note" ELSE fileCopy]
  /\ fileCopy' = "none"
  /\ Ends("chat")
  /\ UNCHANGED <<window, log, lock, logCopy, entries, brief, counts, faults>>

(* The append is best effort.                                              *)
SectionFails ==
  /\ Fault
  /\ At("chat", "report") \/ At("chat", "append")
  /\ fileCopy' = "none" /\ Unlocks("chat")
  /\ Ends("chat")
  /\ UNCHANGED <<window, file, log, entries, brief, counts>>

-----------------------------------------------------------------------------
(* The gaffer's own calls.  The rails are not looked at after the call     *)
(* that writes the brief, so only the plan's is counted.                   *)

GafferPlans(p) ==
  /\ At(p, "task") /\ Task(p) = "plan"
  /\ Becomes(p, AfterTask(p, [proc[p] EXCEPT !.calls = @ + 1]))
  /\ UNCHANGED <<window, folder, brief, counts, faults>>

GafferWrites(p) ==
  /\ At(p, "task") /\ Task(p) = "write"
  /\ Advances(p)
  /\ UNCHANGED <<window, folder, brief, counts, faults>>

(* It raises out of the wake.                                              *)
GafferFails(p) ==
  /\ Fault
  /\ At(p, "task") /\ Task(p) \in {"plan", "write"}
  /\ Ends(p)
  /\ UNCHANGED <<window, folder, brief, counts>>

-----------------------------------------------------------------------------
(* The wakes.                                                              *)

WindowMoves ==
  /\ window = "draft" /\ window' = "final"
  /\ UNCHANGED <<folder, brief, counts, proc, faults>>

Wakes(p, tasks) == Becomes(p, [proc[p] EXCEPT !.pc = "task", !.todo = tasks])

BriefWakes ==
  /\ At("brief", "off") /\ window \notin out
  /\ kind' = window /\ gaps' = {}
  /\ Wakes("brief", Tasks(window))
  /\ UNCHANGED <<window, folder, out, counts, faults>>

BriefSends ==
  /\ At("brief", "send")
  /\ out' = out \cup {kind}
  /\ Ends("brief")
  /\ UNCHANGED <<window, folder, kind, gaps, counts, faults>>

BriefSendFails ==
  /\ At("brief", "send")
  /\ Fault
  /\ Ends("brief")
  /\ UNCHANGED <<window, folder, brief, counts>>

ScoutWakes ==
  /\ At("scout", "off") /\ sweeps < MaxSweeps
  /\ sweeps' = sweeps + 1
  /\ Wakes("scout", <<Scout>>)
  /\ UNCHANGED <<window, folder, brief, asks, faults>>

(* The model has asked a member of the staff: run_helper into a folder     *)
(* that is thrown away, under no rail; its answer is to go on file.        *)
AskAnswered(role) ==
  /\ At("chat", "off") /\ asks < MaxAsks
  /\ asks' = asks + 1
  /\ Becomes("chat", [Idle EXCEPT !.pc = "report", !.todo = <<role>>, !.outcome = "full"])
  /\ UNCHANGED <<window, folder, brief, sweeps, faults>>

\* Faulty: a lock file that outlives its process.
LockOutlives(p) ==
  /\ Fault
  /\ ~At(p, "off")
  /\ Ends(p)
  /\ UNCHANGED <<window, folder, brief, counts>>

(* The kernel drops the lock of a process that is gone.                    *)
Killed(p) ==
  /\ Fault
  /\ ~At(p, "off")
  /\ Ends(p) /\ Unlocks(p)
  /\ fileCopy' = IF p = "chat" THEN "none" ELSE fileCopy
  /\ UNCHANGED <<window, file, log, entries, brief, counts>>

(* What p does by itself once it is awake.                                 *)
Steps(p) ==
  \/ Keeps(p) \/ LedgerSkips(p) \/ HelperStarts(p) \/ Loops(p)
  \/ WritesReport(p) \/ IsRefused(p) \/ LocksLog(p)
  \/ AppendsEntry(p) \/ GafferPlans(p) \/ GafferWrites(p) \/ RailSkips(p)

BriefSteps == Steps("brief") \/ BriefWakes \/ BriefSends
ChatSteps == Steps("chat") \/ SectionReads \/ SectionWrites

Fails(p) ==
  \/ HelperFails(p) \/ StubFails(p) \/ WriteRaises(p) \/ GafferFails(p) \/ Killed(p)

Next ==
  \/ BriefSteps \/ Steps("scout") \/ ChatSteps
  \/ ScoutWakes \/ (\E role \in Role : AskAnswered(role)) \/ WindowMoves
  \/ (\E p \in Proc : Fails(p)) \/ SectionFails \/ BriefSendFails

Spec == Init /\ [][Next]_vars

(* The brief's timer fires again until its brief is out and every call has *)
(* a timeout; the others need only not sleep with the log's lock.          *)
FairSpec ==
  Spec /\ WF_vars(BriefSteps)
       /\ WF_vars(AppendsEntry("scout")) /\ WF_vars(AppendsEntry("chat"))

-----------------------------------------------------------------------------
ProcState ==
  [pc : {"off", "task", "loop", "report", "append", "send"},
   todo : Seq(Role \cup Errand), calls : Nat, hit : BOOLEAN, turns : Nat, left : Nat,
   nudged : BOOLEAN, outcome : {"none", "full", "failed", "skipped"}]

(* The variables have their types; a process that is between two tasks has *)
(* one, and a helper belongs to a role.                                    *)
TypeOK ==
  /\ window \in Briefs /\ out \subseteq Briefs /\ kind \in Briefs
  /\ file \in [Reporter -> {"none", "full", "stub", "note"}]
  /\ fileCopy \in {"none", "full", "stub", "note"}
  /\ log \in Nat /\ logCopy \in Nat /\ lock \in Proc \cup {NONE}
  /\ proc \in [Proc -> ProcState]
  /\ \A p \in Proc : ~At(p, "off") /\ ~At(p, "send") => proc[p].todo # <<>>
  /\ \A p \in Proc : proc[p].pc \in {"loop", "report", "append"} => Task(p) \in Role
  /\ gaps \subseteq Role
  /\ entries \in Nat /\ asks \in Nat /\ sweeps \in Nat /\ faults \in Nat

(* A rail can be passed by one helper's ceilings and no more, whatever the *)
(* searches of one turn and the turns after the last check: while a helper *)
(* of a wake runs, the wake has made fewer calls than the rail allows, the *)
(* helper's turns and its searches together.                               *)
RailHolds ==
  \A p \in {"brief", "scout"} :
    proc[p].pc \in {"loop", "report", "append"} /\ Outcome(p) # "skipped"
      => proc[p].calls < CallRail + Turns + Searches

(* "A helper that never delivered is never silently covered", as far as it *)
(* is so: when the draft goes out each analyst and the AM have a file or   *)
(* are named as gaps, also after refused, failed and half-finished wakes.  *)
NeverSilent ==
  At("brief", "send") /\ kind = "draft" =>
    \A r \in Reporter : file[r] # "none" \/ r \in gaps

(* "Neither entry is lost": the log has every entry that was written, with *)
(* a sweep, a final delta and an ask of the Scout at once.                 *)
NoEntryLost == log = entries

(* A brief goes out, or its window passes: no ceiling, rail, stub, lock or *)
(* fault of a helper holds it up for good.                                 *)
BriefGoesOut ==
  \A k \in Briefs : window = k ~> k \in out \/ window # k

-----------------------------------------------------------------------------
(* daemon/brief.py, of the footer: "a helper that never delivered is never *)
(* silently covered".  A draft that goes out names every analyst, and the  *)
(* AM, whose own report it does not have.                                  *)
GapsNamed ==
  At("brief", "send") /\ kind = "draft" =>
    \A r \in Reporter : file[r] # "full" => r \in gaps
=============================================================================
