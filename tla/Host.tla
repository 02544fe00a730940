--------------------------------- MODULE Host ---------------------------------
(***************************************************************************)
(* What the timers of the machine do without a model: pull-reload.sh,      *)
(* which lands main in the working tree and restarts the daemon on code    *)
(* that passes the selftest, and the price and status watch (watch.py),    *)
(* which compares the market with a baseline file and alerts.              *)
(*                                                                         *)
(* They meet in the working tree: a wake is a new process and runs what is *)
(* on disk, vetted or not, while the daemon runs what it was started on.   *)
(***************************************************************************)
EXTENDS Integers, Sequences, FiniteSets

CONSTANTS
    Chats,      \* the allowlist, a set of naturals: alerts go out in their order
    Values,     \* what price and status of the watched player can be
    Gone,       \* the value that says he is not in the payload
    NamedBy,    \* which of the squad and the shortlist name him
    MaxEvents   \* bound: moves of the market and merges to main, together

VARIABLES
    market,     \* [value, moves]: the player, as the FPL endpoint serves it
    base,       \* watch-baseline.json: absent, torn, or the value it holds
    told,       \* told[c]: the value chat c knows of
    wk,         \* the watch wake, see WakeType
    excuse,     \* history: why a move may have been missed
    log,        \* main: log[v] says what the v-th merge was
    disk,       \* how many merges the working tree has
    daemon,     \* how many merges the running daemon was started on
    pull,       \* where the pull wake is
    refused,    \* history: the tree the selftest last refused
    cut         \* history: a pull was interrupted after its merge, or its restart failed

watchVars == <<market, base, told, wk, excuse>>
codeVars == <<log, disk, daemon, pull, refused, cut>>
vars == <<watchVars, codeVars>>

ASSUME HostAssumption ==
    /\ Chats \subseteq Nat /\ IsFiniteSet(Chats) /\ Chats # {}
    /\ Gone \in Values /\ NamedBy \subseteq {"squad", "shortlist"}
    /\ MaxEvents \in Nat

Absent == [state |-> "absent"]
Torn == [state |-> "torn"]
Holds(v) == [state |-> "whole", value |-> v]

\* `half` is a history field of the wakes: an alert reached some chat and the
\* baseline was not moved.
WakeType == [pc : {"idle", "send", "write"}, snap : Values, todo : SUBSET Chats,
             alert : BOOLEAN, half : BOOLEAN]
NoWake(half) == [pc |-> "idle", snap |-> Gone, todo |-> {}, alert |-> FALSE, half |-> half]

-----------------------------------------------------------------------------
(* The code.                                                                *)

\* A merge brings code that starts, code that does not, text and data alone,
\* or touches a file that the machine itself writes (season-state.json,
\* learnings.md).
Kinds == {"good", "bad", "text", "touch"}

IsCode(u) == log[u] \in {"good", "bad"}
SameCode(v, w) == \A u \in (v + 1)..w : ~IsCode(u)

\* The code of the tree with v merges starts.
Runs(v) == \A b \in 1..v : log[b] = "bad" => \E u \in (b + 1)..v : log[u] = "good"

\* git refuses a merge into a file with changes of its own, until a hand
\* resolves it.
Stuck == \E u \in (disk + 1)..Len(log) : log[u] = "touch"

Merge ==
    /\ Len(log) + market.moves < MaxEvents
    /\ \E k \in Kinds : log' = Append(log, k)
    /\ UNCHANGED <<watchVars, disk, daemon, pull, refused, cut>>

\* Faulty: only the newest commit is looked at.
NeedsRestartByLast(old, new) == IsCode(new)

\* git diff old new -- '*.py'
NeedsRestart(old, new) == ~SameCode(old, new)

\* Fetch and merge, one after the other: nothing new, a refused merge and no
\* code each end it.
PullMerges ==
    /\ pull = "idle" /\ disk < Len(log) /\ ~Stuck
    /\ disk' = Len(log)
    /\ pull' = IF NeedsRestart(disk, Len(log)) THEN "test" ELSE "idle"
    /\ UNCHANGED <<watchVars, log, daemon, refused, cut>>

\* The selftest of the tree: on to the restart, or blocked.  It also reads the
\* prompts, the lessons and the season file of the machine, so that code which
\* starts may be blocked as well.
PullTests ==
    /\ pull = "test"
    /\ \/ Runs(disk) /\ pull' = "restart" /\ UNCHANGED refused
       \/ pull' = "idle" /\ refused' = disk
    /\ UNCHANGED <<watchVars, log, disk, daemon, cut>>

\* Faulty: the daemon is started on what main has by then.
RestartsOnMain == Len(log)

RestartsOn == disk

PullRestarts ==
    /\ pull = "restart" /\ pull' = "idle"
    /\ daemon' = RestartsOn
    /\ UNCHANGED <<watchVars, log, disk, refused, cut>>

\* The restart command fails, or the wake is killed: the next pull sees no change.
PullCut ==
    /\ pull # "idle" /\ pull' = "idle"
    /\ cut' = TRUE
    /\ UNCHANGED <<watchVars, log, disk, daemon, refused>>

\* Restart=always, and the boot: the daemon starts on whatever is on disk.
DaemonRevived ==
    /\ daemon' = disk
    /\ UNCHANGED <<watchVars, log, disk, pull, refused, cut>>

-----------------------------------------------------------------------------
(* The watch.                                                               *)

MarketMoves ==
    /\ Len(log) + market.moves < MaxEvents
    /\ \E v \in Values \ {market.value} : market' = [value |-> v, moves |-> market.moves + 1]
    /\ UNCHANGED <<base, told, wk, excuse, codeVars>>

\* What a healthy payload says of the player; a suspect one is no snapshot.
Served == market.value

\* diff_snapshots, of the one player: one who is missing is passed over.
Differs(old, new) == old # new /\ Gone \notin {old, new}

\* load_watch_targets: a source that cannot be read names nobody.
Naming(readable) == readable \cap NamedBy

Relevant(snap, naming) == Differs(base.value, snap) /\ naming # {}

\* A snapshot that is healthy; on code that does not start, on a failed fetch
\* or a suspect payload, and on a torn baseline, the wake ends as it began.
WatchFetches ==
    /\ wk.pc = "idle" /\ Runs(disk) /\ base # Torn
    /\ \E readable \in SUBSET {"squad", "shortlist"} :
         LET snap == Served
             blind == Naming(readable) = {}
             alert == base # Absent /\ Relevant(snap, Naming(readable))
         IN /\ wk' = [wk EXCEPT !.pc = IF alert THEN "send" ELSE "write", !.snap = snap,
                                !.alert = alert, !.todo = IF alert THEN Chats ELSE {}]
            /\ excuse' = excuse
                 \cup (IF blind /\ base # Absent /\ Differs(base.value, snap) THEN {"blind"} ELSE {})
                 \cup (IF base # Absent /\ base.value # snap /\ Gone \in {base.value, snap}
                       THEN {"gone"} ELSE {})
                 \cup (IF wk.half /\ ~alert THEN {"crossed"} ELSE {})
            /\ told' = IF base = Absent THEN [c \in Chats |-> snap] ELSE told
    /\ UNCHANGED <<market, base, codeVars>>

WatchSends(c) ==
    /\ wk.pc = "send" /\ c \in wk.todo /\ \A d \in wk.todo : c <= d
    /\ told' = [told EXCEPT ![c] = wk.snap]
    /\ wk' = [wk EXCEPT !.todo = @ \ {c}, !.half = TRUE]
    /\ UNCHANGED <<market, base, excuse, codeVars>>

\* Faulty: a failed send is logged and the next chat served.
UnsentGoesOn(c) == [wk EXCEPT !.todo = @ \ {c}]

\* A failed send ends the wake; the baseline stays.
Unsent(c) == NoWake(wk.half)

\* What failed may have been delivered.
WatchSendFails(c) ==
    /\ wk.pc = "send" /\ c \in wk.todo /\ \A d \in wk.todo : c <= d
    /\ \/ wk' = Unsent(c) /\ UNCHANGED told
       \/ told' = [told EXCEPT ![c] = wk.snap] /\ wk' = [Unsent(c) EXCEPT !.half = TRUE]
    /\ UNCHANGED <<market, base, excuse, codeVars>>

\* Faulty: the baseline is what the market is by now.
NewBaselineNow == market.value

NewBaseline == wk.snap

\* _write_baseline, open(path, "w"): complete, or cut short.
WatchWrites ==
    /\ wk.pc \in {"send", "write"} /\ wk.todo = {}
    /\ base' = Holds(NewBaseline)
    /\ wk' = NoWake(wk.half /\ ~wk.alert)
    /\ UNCHANGED <<market, told, excuse, codeVars>>

WatchTears ==
    /\ wk.pc \in {"send", "write"} /\ wk.todo = {}
    /\ base' = Torn /\ wk' = NoWake(wk.half)
    /\ UNCHANGED <<market, told, excuse, codeVars>>

WatchKilled ==
    /\ wk.pc # "idle" /\ wk' = NoWake(wk.half)
    /\ UNCHANGED <<market, base, told, excuse, codeVars>>

-----------------------------------------------------------------------------
Init ==
    /\ LET v == CHOOSE v \in Values : TRUE IN
         /\ market = [value |-> v, moves |-> 0] /\ told = [c \in Chats |-> v]
         /\ wk = NoWake(FALSE)
    /\ base = Absent /\ excuse = {}
    /\ log = <<>> /\ disk = 0 /\ daemon = 0 /\ refused = 0 /\ cut = FALSE
    /\ pull = "idle"

Next ==
    \/ Merge \/ PullMerges \/ PullTests \/ PullRestarts \/ PullCut \/ DaemonRevived
    \/ MarketMoves \/ WatchFetches \/ WatchWrites \/ WatchTears \/ WatchKilled
    \/ \E c \in Chats : WatchSends(c) \/ WatchSendFails(c)

\* The timers start both again and again; a pull that is not cut runs through,
\* and a watch is not cut off or refused for ever.
Fairness ==
    /\ WF_vars(PullMerges) /\ WF_vars(PullTests) /\ WF_vars(PullRestarts)
    /\ SF_vars(WatchFetches) /\ SF_vars(WatchWrites)
    /\ \A c \in Chats : SF_vars(WatchSends(c))

Spec == Init /\ [][Next]_vars /\ Fairness

-----------------------------------------------------------------------------
(* Properties.                                                              *)

TypeOK ==
    /\ market \in [value : Values, moves : 0..MaxEvents]
    /\ base \in {Absent, Torn} \cup {Holds(v) : v \in Values}
    /\ told \in [Chats -> Values]
    /\ wk \in WakeType
    /\ excuse \subseteq {"blind", "gone", "crossed"}
    /\ log \in Seq(Kinds) /\ disk \in 0..Len(log) /\ daemon \in 0..disk
    /\ pull \in {"idle", "test", "restart"} /\ refused \in 0..disk /\ cut \in BOOLEAN

\* Between wakes every chat knows of the baseline: it moves on only when all
\* have been told.  Excepted are moves made while the watch could not read
\* whom to watch, or by which the player left the payload or came into it, and
\* a move that reached one chat and was taken back before it reached the next
\* (run_watch, "the baseline advances only on a wake that
\* fully succeeded").
ToldOfBaseline ==
    wk.pc = "idle" /\ ~wk.half /\ excuse = {} /\ base \notin {Absent, Torn}
        => \A c \in Chats : told[c] = base.value

\* A move that lasts is told to every chat in the end, whatever fetches and
\* sends fail, with the same exceptions and as long as the wake can start and
\* read its baseline ("a missed alert is recoverable, a lost one is not").
AlertArrives ==
    base # Absent ~> \/ \A c \in Chats : told[c] = market.value
                     \/ base = Torn \/ excuse # {} \/ ~Runs(disk)

\* The code that main has is what the daemon runs in the end, or what the
\* selftest refused last, whatever was blocked before it and whatever text
\* came after, unless a pull was cut short on the way or git refuses the merge
\* (pull-reload.sh).  Refused code stays unrun when a merge of text alone
\* mends what the selftest found.
GoodCodeRuns ==
    []<>(SameCode(daemon, Len(log)) \/ SameCode(refused, Len(log)) \/ cut \/ Stuck)

=============================================================================
