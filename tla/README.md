# The FPL gaffer in TLA+

A Telegram-driven assistant runs a Fantasy Premier League team from a small
Linux box. A resident daemon answers its owner (Rohit); timer-started oneshots
brief him before each deadline, review the gameweek after it, watch prices and
sweep the news. No process may write to the team without an explicit yes, and
all of them share a few JSON files in `data/` and the repository without a
lock. These modules model that coordination: what is decided when, by which
process, on how old a copy of which file.

## Inventory

| component | source | state it keeps | operations |
|---|---|---|---|
| approval store | `daemon/plan.py` | `data/approval-state.json`: gameweek, phase, pending and approved plan, draft/final flags, two build slots | load, save, reset, set pending, approve, void, queue/run/cancel/clear build |
| deadline brief | `daemon/brief.py` | a copy of the store during a wake | draft, final, act; every 15 minutes by a timer |
| reply loop | `daemon/loop.py`, `daemon/telegram.py` | update offset (memory), a copy of the store per message | approve, hold, stale press, iterate, chat, build gate |
| build gate | `daemon/build.py`, `daemon/__main__.py` | the build slots; child processes | commission, start, cancel, recover; the child clears its slot |
| engineer | `daemon/engineer.py` | a clone under `data/work` | clone, tool loop, tree check, last test run, push, PR |
| actuator | `daemon/actuator.py` | none (prints instructions) | apply |
| helper fan-out | `daemon/fanout.py` | the wake's spend and time limits | the analysts one after another, the gaffer's internal plan, the AM; the Scout's delta and daily sweep |
| helper runner, agent loop | `daemon/helper.py`, `daemon/agent.py` | turns and cost of one run | bounded tool loop, stub on failure |
| report writer | `daemon/reports.py` | write-once reports, the locked Scout log | write, append |
| spend ledger | `daemon/ledger.py` | month-to-date spend | total, add, mode |
| season state | `season_state.py` | `season-state.json`: squad, bank, transfers, chips, decisions | init, set squad, pull squad, transfer, chip, advance |
| season sync | `daemon/sync.py` | a copy of the season state during the fetches | bring the season state to the deadline's gameweek |
| review | `daemon/review.py` | `data/review-state.json` | grade one finished gameweek, once |
| learnings | `daemon/learnings.py` | `agent/memory/learnings.md` | vet, append, select |
| watch | `daemon/watch.py` | `watch-baseline.json` | fetch, diff, alert, rewrite |
| projections | `daemon/pipeline.py` | the projections file | refresh |
| role proposals | `daemon/propose.py` | branches and PRs of the git host | check the name, commit, push, open |
| pull and reload | `deploy/pull-reload.sh` | the checkout | pull, selftest, restart the daemon |

**Interaction.** The brief, the reply loop and each spawned build load the
approval store whole, work for up to minutes (a model call, a helper fan-out, a
GitHub lookup), and save it whole: `rename` makes each save atomic, nothing
makes load-to-save atomic. The season state has four writers of the same kind:
the command line, the act's record, and the sync of the review and of the draft.
Chat and the review both append to the diary. Chat, the review, the command line
and the builds push to one git host. Every process that calls a model adds to the
ledger. systemd starts the oneshots, never two of one kind at once, and
restarts the daemon, whose builds die with its control group.

**What is hard.** Lost updates on the shared files; tokens that arrive late,
twice, or about a plan that is gone; a wake cut between the send and the save
or between two saves; a failed send after the act; a build that ends before its
parent has recorded it; pids that outlive their process; a deadline that must
end in a receipt or an alert whatever fails. `PROJECT.json` lists each hazard at
its line with the properties that would catch it.

**What makes each part correct.** The store and the brief: nothing is acted on
without a yes for that plan and gameweek; a void or a hold really closes the
gate; no chip auto-locks; a decided deadline stays decided and is announced.
The build gate: one build runs, the store names it, a queued build leaves the queue
only on a command, a finished build blocks nobody. The fan-out: every helper ends as a report or a
named gap, within the wake's limits. The ledger: no spend is counted for another
month, none is forgotten but by adds that cross, fail or come a month late, and the
limit on helpers is overrun by no more than the helpers under way. The
season state: what a sync wrote is what the game says, a recorded decision is
kept until it is graded, no draft is written from a stale squad. The review: each
finished gameweek is graded in order, delivered before it is marked, its lessons
in the diary once. The engineer and the proposals: ceilings hold whatever a reply
packs into a turn, what is pushed is what was checked, a name is written once, a
reported pull request is there. The watch: a move that lasts reaches every chat.
The pull: the code of main is run, or it is what the selftest refused last.

## Modules

* `ApprovalStore` - the store as a record, each method of the class as an
  operator from store to store. No variables: both components below EXTEND it.
* `WriteGate` - the abstract specification: per gameweek a plan asked about, a
  gate open for at most that plan, a decision that writes what the gate is open
  for and nothing else. No file, no process, no message.
* `BuildQueue`, `ReviewDuty` - two more abstract specifications: what is promised
  of a commissioned build (one message at a time is served; an issue is queued in
  answer to a chat and only when none is, and leaves the queue only by a `build` or a
  `cancel build` being served; one runs) and of a finished gameweek (reviewed in its turn, told to every chat
  before it counts as done). `BuildGate` and `Review` say which of their variables
  are the abstract ones.
* `WeeklyCycle` - the brief (`bpc`, with its copy `bmem`), the reply loop
  (`cpc`, `cmem`), Telegram's queue with its redelivery (`inbox`, `fetched`,
  `done`), the clock reduced to the windows `decide_wake` tells apart, the store
  file (`disk`), and the season state's decisions (`season`). One action per
  stretch of code between two points at which the other process can run: load
  and decide; generate; send; first save; second save; record; receipt; close.
  A plan is a value, equal to another when `plans_differ` says so.
* `BuildGate` - the build slots, the child processes by pid with their zombies,
  the reply loop's build branch, and the brief as the other writer of the file.
* `Fanout` - the helpers of one gameweek over the report folder. `proc` is a
  record per process: the brief's wake, the Scout's sweep, and chat. `todo` is
  what it has yet to do (`Tasks`, the current one first), `calls` and `hit` its
  wake's rails, `turns`, `left` and `nudged` the helper that runs, `outcome` what
  that came to. One action per model call, per write, and per look at the rails and
  the ledger, which may say anything here. The folder is what each report is
  (`file`) and the number of entries of the Scout log, whose writers take a `lock`.
* `Ledger` - the month's record (`file`) and, per process, what it spends on
  (`owes`) and the steps of an add (`pc`): the month it is stamped with (`stamp`),
  its number (`mine`), the record it read and the total it keeps of it (`base`). A
  total is the set of the adds summed in it. There are four kinds of spend: a gated
  helper; the gaffer, which is not gated; chat and builds, whose add asks the clock
  for its stamp and again for its total; and a helper by hand, not gated either,
  whose stamp is the time it was started.
* `Season` - `season-state.json` (`file`) with each writer's copy (`held`), a
  command of `season_state.py` as an operator from copy to copy, the sync in its
  two steps; and the entry in the FPL game it describes (`game`, `entry`, `hist`),
  which the code reads through the public endpoints and never writes. `serial`
  says whether two writers may overlap; it is chosen once, from `Schedules`.
* `Review` - EXTENDS `Season`: the review wake (`rv`) from `next_review_gw` to the
  mark (`last`), the `diary` with its two writers and what each has read of it
  (`pen`), and the brief wake (`bf`) as far as it touches the season state: the
  sync before the draft, and the act's record.
* `AgentLoop` - `run_agent`, used by chat and the engineer: turns, the calls of a
  reply one by one, a capped tool, the brake, the finishing turn. A minute or a
  dollar ceiling may be met before any turn.
* `RolePrs` - `run_propose` by three processes over the branches and pull requests
  of the git host; a command of the host may fail, or take effect and fail.
* `Workshop` - EXTENDS both: `run_build` step by step with its tools, and the chat
  message that may end in a proposal. Builds and proposals push to different
  branches, so a behaviour follows one `half` of them.
* `Host` - the two timers that need no model: the pull (`log`, `disk`, `daemon`)
  and the watch (`market`, `base`, `told`). They meet in the working tree: a wake
  runs what is on disk, vetted or not. A merge is of code that starts or does not, of
  text and data, or one that git refuses on the machine. The selftest assembles the
  real prompts, lessons and season file, so it may block code that starts.
* `MCWeeklyCycle`, `MCBuildGate`, `MCFanout`, `MCLedger`, `MCReview`, `MCWorkshop`,
  `MCHost` - the instances TLC checks.
* `WeeklyCycleProofs`, `BuildGateProofs`, `FanoutProofs`, `LedgerProofs`,
  `SeasonProofs`, `ReviewProofs`, `WorkshopProofs`, `HostProofs` - the theorems.

An operator whose comment starts with `Faulty:` is a plausible mistake in the
operation below it. The specifications do not use it; putting it in the place of
that operation breaks one of the properties, which shows the property can see it.

History variables and fields are written and not read by the code's actions:
`shown` and `sent` apart (they tag and bound the messages), `yeses`, `consent`,
`applied`, `receipts` in `WeeklyCycle`; `entries` in `Fanout`; `settled`, `helped`, `crossed`
and `late` in `Ledger`; `by` and `start` in `Season`; `got`,
`adhoc` and `stale` in `Review`; `edits` in `Workshop`; `excuse`, `half`,
`refused` and `cut` in `Host`.

## Runs

| run | what it asks | result |
|---|---|---|
| `WeeklyRaces` | `NoApplyWithoutYes`, `NoChipLocks`, `ClosedAsRecorded` under every interleaving, two gameweeks, a wake cut between its saves; under fairness `LoudDeadline` | holds |
| `WeeklySerial` | `StandingConsentDecides`, `ClosedStaysClosed`, the refinement `ImplementsWriteGate`, when a wake and a message do not overlap; one fault | holds |
| `WeeklyVoidedLock` | `FinalLocksStandingConsent`, claimed by `void_carry` | violated |
| `BuildSerial` | `OneBuildRuns`, `LiveBuildIsNamed`, the refinement `ImplementsBuildQueue`, when load and save do not cross; two issues, two pids, five messages, two faults | holds |
| `BuildStuck` | `RefusedOnlyWhileRunning`, claimed by `run_build_cmd` | violated |
| `Fanout` | `RailHolds`, `NeverSilent`, `NoEntryLost`, and under fairness `BriefGoesOut`, with a draft, a final, a sweep, an ask and a fault | holds |
| `Ledger` | `CountsItsMonth`, `LostOnlyIfCrossed`, `OvershootBounded`, two processes with any kind of spend over a month's end | holds |
| `Season` | `SyncedIsTrue`, `FreshDraft`, `LockedIsGraded`: four writers of the season state over three gameweeks, overlapping or in turns | holds |
| `SeasonFreeHit` | `NoStaleDraft`, claimed by `daemon/sync.py`, after a free hit | violated |
| `Review` | `DiaryOnce`, `DeliveredBeforeMark`, the refinement `ImplementsReviewDuty`, and under fairness `EverySettledReviewed`, with any number of failed reviews next to a chat | holds |
| `Workshop` | `CapsHold`, `FixBudget`, `PushedIsCleared`, `ReportedIsThere`, `WriteOnce`, and under fairness `BuildEnds` | holds |
| `Host` | `ToldOfBaseline`, and under fairness `AlertArrives`, `GoodCodeRuns` | holds |

**What needs serial access.** With `Overlap = TRUE`, TLC refutes
`StandingConsentDecides` (an iterate saved over an act's copy, a final saved over
a STOP) and `ClosedStaysClosed` (an iterate that started before the act saves its
open copy over `acted`). With `TornSaves = TRUE` and no overlap it refutes
`StandingConsentDecides`: a draft killed between the save of `set_pending` and
the save of `draft_sent` is sent again, `set_pending` keeps the approval Rohit
gave in between, and a final equal to the old plan locks it. What the two runs
above claim is exactly what is left. `BuildSerial` with `Overlap = TRUE` refutes
`OneBuildRuns`. `LostOnlyIfCrossed` names which adds the ledger can lose: two that
overlap, one that fails, and those of a month into which a helper started by hand
before the month's end brings its old stamp. In `Season`, `FreshDraft` and `LockedIsGraded` say `serial`: a
command typed while a wake fetches is saved over by it, or saves over the act's
record, and a gameweek is then graded as one without a decision. `SyncedIsTrue`
and, at two entries for one, `DiaryOnce` hold in every interleaving.

**The free hit.** `ensure` builds the squad from the picks of the gameweek before.
After a free hit those are the fifteen of the free hit, which the game has taken
back by then; `current_gw` says the file is up to date and the draft carries no
warning. `FreshDraft` is the claim that is left, `SeasonFreeHit` the trace.

**Further disagreements.** Four claims of the repository that the code does not
keep are stated without a run of their own. To see one fail, add it to the
configuration named. Two more show as exceptions that a property has to make:

* `daemon/__main__.py:793` says that the ledger sees what a run by hand spends. Its
  add carries the time at which the run began (lines 771 and 794): of a run over the
  month's end it puts a record of the old month over the new one, and what the new
  month had spent is gone (`late`).
* `deploy/pull-reload.sh:12-13` says that text and data need no restart. Code that
  the selftest blocked on account of a text stays unrun when a merge of text alone
  mends it, since that pull sees no `*.py` (lines 48-51). `GoodCodeRuns` therefore
  says run or refused, not run once it passes.

| definition | claim | add it to |
|---|---|---|
| `StaleYesCannotFire` | `plans/weekly-cycle.md` and `void_carry`: a stale yes approves nothing | `WeeklySerial.cfg`, PROPERTY |
| `ChipNeedsFinal` | `plans/weekly-cycle.md`: a chip needs a yes at the final | `WeeklySerial.cfg`, PROPERTY |
| `GapsNamed` | `_do_draft`: a helper that never delivered is never silently covered; its note or stub is a report to `gaps` | `Fanout.cfg`, INVARIANT |
| `GreenIsGreen` | `engineer.py`: green as a normal pull request, red as a draft; a red rebuild pushes over the branch of a green one's open pull request | `Workshop.cfg`, INVARIANT |

**Bounds.** `LastGw` 2 gives one change of gameweek, where the plan fields are
reset; nothing relates gameweeks further apart. Two plans, one with a chip, are
enough for every comparison of two plans the code makes. Two messages
(`WeeklySerial`) are a yes and what undoes it; `WeeklyRaces` has one, since its
liveness needs every state kept, and its safety properties are proved for any
number; `WeeklyVoidedLock` has three, so that a yes can come before
the final's wake and an iterate during it. Five messages in `BuildSerial` are a
commission, a start, a cancel and a start of the next, with one more between.
`MaxFaults` counts failed calls, killed processes and restarts together. Two
pids let one build end while another starts, and the first pid be used again.

`Fanout` has two analysts because the second is the first helper that can meet a
rail. With `CallRail` 1, `Turns` 2 and `Searches` 1 a helper starts just under
the rail and can pass it by as much as its ceilings allow; a nudge takes the turn
the report was meant for. `MaxSweeps` and `MaxAsks` 1 put three writers on the
Scout log with the final's delta; one fault is enough to fail a wake, make it
again, and meet what the first left behind. `Ledger`
has two months, four adds, a limit of one and two interchangeable processes
(nothing in the module or its properties tells them apart, so the symmetry is
sound; there is no liveness in that run): two adds cross and others
read what they left, and three helpers in a month would be over the bound of two.

`Season` and `SeasonFreeHit` have a squad of one out of two players, one move in
the app (a transfer or a free hit), and three gameweeks: one to play it in, one
that begins after it, one to grade. `HalfGW` 1 puts the change of chip sets inside
the season, `FTCap` 2 the cap of the free transfers. One command by hand, read and
saved at any moment, is what two overlapping writers need; it may be any of the
commands. The wakes of a gameweek are followed for `Briefed`. `Review` follows no
brief, so that it can have five gameweeks, of which several settle while a review
fails; two chats are one that was served and one that was not; the reply has an
item that is refused, one that repeats, and one more than `MaxPerReply`. Failures
are not bounded.

`Workshop`: five turns are a write, a red run, a fix, a red run and one more;
`FixTurns` 2, and three calls to a reply, so that edits and runs can be packed into
one turn past the budget. Two builds of one issue meet the branch of the first;
three proposals of one name, from three processes, race for it. `Host`: four
events, moves and merges together: a value goes there, back, and there again, with
a merge in between; a bad merge, text, the fix, and one more; two chats as above.

**Fairness.** `FairSpec` asks weak fairness of each step of a started wake, of
the timer's wake and of the handling of a fetched message: the timers are
`Persistent`, every call of a wake has a timeout, and the loop catches every
exception. Nothing is asked of Rohit, of polling, or of the clock; faults are
finitely many. A deadline that passes before a wake has finished is the case the
clock's freedom stands for, so `LoudDeadline` speaks of a window that lasts.
In `Fanout` the brief's own steps are weakly fair as one action (its timer fires
until the brief is out, each call of its helpers has a timeout), and so are the
appends of the others: a process that holds the log's lock does a read and a
write before it lets go, and the kernel drops the lock of one that is killed.
In `Review` faults are not counted, so strong fairness is asked of the steps of the
review wake (its timer runs until the gameweek is marked, and a step that is tried
for ever is not always refused), weak of the chat's append. The build of `Workshop`
is one process whose calls all have a timeout: weak fairness of its next step,
while it is alive. In `Host` the steps of a pull are weakly fair, those of a watch
wake strongly: a fetch or a send may fail as often as it likes, but not always. No
fairness is asked of the game, the market, merges, kills, messages or commands.

## Proofs

All theorems hold for any plans, issues, pids and bounds; they use
`PlansAssumption`, `BuildsAssumption`, `LastGwAssumption` and, for the messages,
`TokensAssumption`.

`WeeklyCycleProofs`: `WellTyped`, `YesBeforeApply`, `ChipsNeverLock` and
`ClosedIsRecorded`, with overlap, torn saves and faults all allowed. None of the
three safety properties is inductive: the store file is rewritten from copies of
any age, so what must be said of the file must be said of every copy that may
yet be saved. The inductive invariant is `Typing /\ Safe`, where `Safe` says of
the file, the brief's copy and the loop's copy alike that an approved plan was
approved on a yes for that copy's gameweek (`Sound`), that a locked copy has no
chip plan, and that a closed copy agrees with the season state; and it orders
gameweeks: no copy is of a later gameweek than the clock, a wake's own copy is
of its own gameweek, and an act wake that has recorded has the decision in the
season state. TLC checked it before it was proved. `NoSilentClose` is the safety
half of `LoudDeadline`: under the same interleavings a gameweek is closed only after
its receipt or alert has gone out (`ClosedAloud`), of every copy of the store again
(`Announced`).

Three more theorems take `Overlap = FALSE`: `ClosedStays`, and with
`TornSaves = FALSE` as well `DecidesOnConsent` and `GateImplemented`, the
refinement of `WriteGate`. The copy in use is then the file (`TakesTurns`); a draft
is only ever written over an idle store (`DraftFirst`), which is why the plan that
`set_pending` leaves approved does no harm; and the file's phase and approved plan
agree with the consent that stands (`Consented`). From those each step is a step
of `WriteGate` or a stutter (`StepsAreGateSteps`, one case per write of the file).
What these conditions exclude, TLC refutes; see "What needs serial access".

`BuildGateProofs`: `BuildsWellTyped` for every `Overlap`; `OneBuild`,
`LiveBuildNamed` and `QueueImplemented` under `Overlap = FALSE` (with overlap
TLC refutes the first two). The invariant is
`TypeOK /\ Turns /\ Knows /\ Queue`: who may be where at once, that each copy
that will be saved knows of every live build, and that a build past its start
check is the pending one or nothing pends. For the refinement of `BuildQueue` the
running build is the one whose child lives, and the queued one what the file says,
except between a spawn and its record: there the build has started while the file
still has it pending (`Queued`). What the message in hand asks for is read off the
place in the reply loop (`RequestIs`): it is what ties a cancel to a `cancel build`,
so that a reset, an iterate or a recovery that dropped the queue would be no step of
`BuildQueue`. `OneBuild` makes `Running` a single issue
(`RunningKnown`), a slot found free is one without a live child (`FreeIsDead`), and
`StepsAreGate` takes the actions one by one; those that neither queue, spawn, kill
nor end leave the pair as it is (`QuietStep`).

`FanoutProofs`, for any analysts, ceilings, rail and bounds (`RolesAssumption`,
`CeilingsAssumption`, `BoundsAssumption`): `FanoutWellTyped`, then one invariant
per property on top of it. `RailKept`: what a helper has left bounds what it may
still call - `calls + left < CallRail + Searches + turns` in the loop, no turns
between helpers (`Within`). `EntriesKept`: who is about to write the log holds
its lock and has read all of it (`Holder`). `GapOrFile`: each reporter of a draft
on its way has a file, a gap or a task to come, and a brief that goes out has no
task to come (`Covered`). `LoopFacts` and `AfterTaskFacts` say once what a turn
of the tool loop and the end of a task do to a process.

`LedgerProofs`, for any finite set of processes and any bounds
(`LimitsAssumption`): `LedgerWellTyped`; `CountsOwnMonth`, for which what an add has
read of this month, and what it will write of it, must be of this month, whichever
of its two looks at the clock came after the month's end (`OfItsMonth`), and nothing
be of a month to come (`Past`). `LostIsCrossed`: two adds in progress have crossed
(`Crossings`), so the one add of this month that crosses nothing has read a total
that holds all that was done before it, and until an add of an earlier month comes
late none of those can undo it (`Kept`). `OvershootKept` counts: the helpers' adds
that are done and the helpers that run never exceed the limit by as much as there
are processes (`Gated`), because a helper starts only on a total that is below the
limit and, by `Kept`, holds every add that is done.

`SeasonProofs` (`SeasonAssumption`: any players, squad size, cap, season length,
moves and commands): `DecisionsAreGraded` and `DraftsAreFresh`. Writers that take
turns hold one copy at a time and it is the file (`Turns`); from that a recorded
decision is in every copy that will be saved (`Recorded`), and, with no command
typed, the file is of a gameweek that has opened with the squad fielded in the one
before (`Untouched`). `World` ties the squad a gameweek began with to the history.

`ReplayAgrees` and `SyncedStaysTrue` need no turns: they hold however the writers
overlap. The first says that the replay of the free transfers over an entry's
history, a recursive function from the first gameweek, yields what the game itself
gives the entry. The game's own count is kept step by step, so what is inductive is
`Chain`: that each gameweek's count follows from the one before by the rule of the
replay. That the replay then agrees everywhere is an induction over the history,
made first-order: the set of gameweeks where the two differ, if it has a member, has
a least one (`LeastOf`), which `Chain` refutes. Then `Copies` says of the file and
of every copy held that, where a sync wrote it last and no command has touched it
since, the squad and the free transfers are those of the gameweek before in the
history (`FromGame`); a sync establishes it by the agreement of the replay, and a
history only grows. `Copies` also bounds what commands can add to a copy, by how
many have been typed.

`ReviewProofs` (`ReviewAssumption`: replies are sequences, a reply keeps at most
some number of lessons): `ReviewTyped` for the state of both modules;
`DeliveredFirst`, by `Delivering`: the gameweek in work is the one after the last
marked, its wake is somewhere between start and mark, and a chat no longer to be
served has been; and from the same invariant `DutyImplemented`, the refinement of
`ReviewDuty`: a send that failed after it arrived has served its chat, and a wake that
only fetches, thinks or dies is a stutter.
`NotedForGood` is about one write of the learnings: the diary then has all it had
and all that `vet` let through, and still no repeats. It rests on two lemmas on the
gate's fold, `SiftGives` (a sequence without repeats or refused items) and
`SiftKeeps` (it drops nothing else), again by a least counterexample. `LessonsOnce`
needs to count the lessons that are held by a writer and not yet in the diary
(`Pens`): one writer at a time holds none that is there (`Alone`); with two, a
lesson is in the diary or held at most twice in all (`Racing`).

`WorkshopProofs` (`WorkshopAssumption`: any caps, budget, issues and names, the two
sets of branches disjoint: both are `gaffer/...` in the code, and a role named
"Build 7" would share the branch of the build of issue 7):
`WorkshopWellTyped`, `LoopsAreCapped`, `FixesAreBudgeted`, `PushesAreCleared`,
`BranchesWrittenOnce`, `ReportsAreTrue`. `LoopOK` says of one loop which stages are
under the cap; `BuildOK` that each edit after a red run has a red run of its own
before it, that a spent budget is known from the run that spent it, and that what
will be pushed is what was cleared; `Kept` that what a proposer has pushed is there
until it opens its pull request.

`HostProofs` (`HostAssumption`): `HostWellTyped` and `ChatsKnowBaseline`, by
`Known`: those a wake has served know its snapshot, and until one is served all of
them know the baseline. `VettedCodeIsRun` (the property is `VettedCodeRuns`): no
restart on code that does not start, and between pulls the daemon runs the code on
disk or the selftest refused that code last. A pull compares its own merge only; no
code is missed, because merges without code leave it the same code (`SameCodeChains`).

**Only model-checked.** `LoudDeadline`, `BriefGoesOut`, `EverySettledReviewed`,
`BuildEnds`, `AlertArrives` and `GoodCodeRuns`: liveness under fairness, and the
ENABLED it rests on, are out of the prover's reach. What each may not do on its way
is proved: `NoSilentClose`, `GapOrFile`, `DutyImplemented`, `LoopsAreCapped`,
`ChatsKnowBaseline` and `VettedCodeIsRun`, in that order. Every safety property of a
passing run is a theorem. The recursive definitions among them (the replay, the
gate's fold) are functions on an interval; what they compute is proved by the least
index at which it fails, since the library's induction rules take an operator that
no installed prover can instantiate.

## Left out, and why

The text of plans, briefs and prompts; the order of several chats in a brief (a send
is one step that may fail after having arrived); the evening window inside the
draft's 48 hours; two saves hitting the one `.tmp` name at the same instant;
pids reused by programs that are not builds. The contingencies of
`weekly-cycle.md` 3.5 are not in the code, so not here. Of the helpers: what a
report or a search says, hence the Scout's URGENT flag; fetches, tokens, dollars
and minutes, whose ceilings and rails may be met at any time; the `.tmp` name two
writers of one report share. Of the ledger: a corrupt file, which reads as
nothing spent, an add of nothing, and `search_off`, which is `helpers_off` at another
number.

Of the season state: bank and prices, the wildcard and the two boosts (they differ
from the free hit by their label and by what the game makes of them). Of the review:
the scorecard (arithmetic on data), which lessons a prompt gets (`select`). Of the
watch: all players but one, since every player is compared on his own; the text of
the alert. Of the pull: its notices, what text and data the selftest reads (it may
block any tree), and the hand that resolves a merge git has refused
(`deploy/README.md:276-279`), before which nothing more arrives (`Stuck`). Of the tool loop: progress notes, and the
branch without tools, which no caller takes. Of the builds: the pruning of old
workspaces, which never touches the one in use.

Not modelled: the projection refresh (a numeric pipeline over fetched data that no
module reads), prompt assembly (pure text from files read fresh), the model client
(one call, a reply or an exception, which is how the modules see it), the optimiser
and the draft board (an integer programme solved by a library, and a table), and
configuration and logging (read once, or formatting).

The parts are not composed further than said: the reply loop's branches share one
process but, besides the store, no state; the builds of `Workshop` are the children
of `BuildGate`, which sees only that one ends, and the act of `Review` is the one of
`WeeklyCycle`, which sees only the decision it records.

## Plan

1. The season state's bank, prices and the other chips, when the sync reads them.
2. `Host` next to `WeeklyCycle`: a wake that starts on a tree the selftest blocked.
3. Abstract specifications, proved to be implemented, of the pull requests that
   `Workshop` opens, of the bulletin that `Host` keeps its chats informed by, and of
   a month's account for `Ledger`.
