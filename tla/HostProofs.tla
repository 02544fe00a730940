------------------------------ MODULE HostProofs ------------------------------
(***************************************************************************)
(* What is proved of the timers that need no model, for any chats, values  *)
(* of the player, moves of the market and merges to main.                  *)
(***************************************************************************)
EXTENDS Host, TLAPS

WatchTyped ==
    /\ market \in [value : Values, moves : 0..MaxEvents]
    /\ base \in {Absent, Torn} \cup {Holds(v) : v \in Values}
    /\ told \in [Chats -> Values]
    /\ wk \in WakeType
    /\ excuse \subseteq {"blind", "gone", "crossed"}

CodeTyped ==
    /\ log \in Seq(Kinds) /\ disk \in 0..Len(log) /\ daemon \in 0..disk
    /\ pull \in {"idle", "test", "restart"} /\ refused \in 0..disk /\ cut \in BOOLEAN

WatchNext == \/ MarketMoves \/ WatchFetches \/ WatchWrites \/ WatchTears \/ WatchKilled
             \/ \E c \in Chats : WatchSends(c) \/ WatchSendFails(c)

CodeNext == Merge \/ PullMerges \/ PullTests \/ PullRestarts \/ PullCut \/ DaemonRevived

(* A baseline that is there and whole.                                     *)
Whole == base \notin {Absent, Torn}

(* What the chats know in the middle of a wake: those already served know  *)
(* the snapshot, and until one is served all of them know the baseline; a  *)
(* wake with nothing to tell has a snapshot that all of them know.         *)
Known ==
    /\ wk.pc = "write" => /\ ~wk.alert /\ wk.todo = {}
                          /\ excuse = {} => ~wk.half /\ \A c \in Chats : told[c] = wk.snap
    /\ wk.pc = "send" => wk.alert /\ \A c \in Chats \ wk.todo : told[c] = wk.snap
    /\ ~wk.half /\ excuse = {} /\ Whole => \A c \in Chats : told[c] = base.value

-----------------------------------------------------------------------------
LEMMA InitTyping == Init => WatchTyped /\ CodeTyped
<1> SUFFICES ASSUME Init PROVE WatchTyped /\ CodeTyped
  OBVIOUS
<1>1. PICK v \in Values : /\ market = [value |-> v, moves |-> 0]
                          /\ told = [c \in Chats |-> v]
                          /\ wk = NoWake(FALSE)
  BY HostAssumption DEF Init
<1>2. WatchTyped
  BY <1>1, HostAssumption DEF Init, WatchTyped, WakeType, NoWake
<1>3. CodeTyped
  <2>1. log = <<>> /\ disk = 0 /\ daemon = 0 /\ refused = 0 /\ cut = FALSE /\ pull = "idle"
    BY DEF Init
  <2>2. log \in Seq(Kinds) /\ Len(log) = 0
    BY <2>1
  <2>3. 0 \in 0..0
    OBVIOUS
  <2> QED
    BY <2>1, <2>2, <2>3 DEF CodeTyped
<1> QED
  BY <1>2, <1>3

LEMMA WholeIsHeld == WatchTyped /\ Whole => \E v \in Values : base = Holds(v) /\ base.value = v
BY DEF WatchTyped, Whole, Holds

(* The wakes of the watch leave the code alone, and the pull the watch.    *)
LEMMA Split == Next => \/ WatchNext /\ UNCHANGED codeVars
                       \/ CodeNext /\ UNCHANGED watchVars
BY DEF Next, WatchNext, CodeNext, codeVars, watchVars, Merge, PullMerges, PullTests,
       PullRestarts, PullCut, DaemonRevived, MarketMoves, WatchFetches, WatchWrites,
       WatchTears, WatchKilled, WatchSends, WatchSendFails

LEMMA WatchTypingStep == WatchTyped /\ CodeTyped /\ WatchNext => WatchTyped'
<1> SUFFICES ASSUME WatchTyped, CodeTyped, WatchNext PROVE WatchTyped'
  OBVIOUS
<1>0. Len(log) \in Nat
  BY DEF CodeTyped
<1>9. \A half \in BOOLEAN : NoWake(half) \in WakeType
  BY HostAssumption DEF NoWake, WakeType
<1> USE DEF WatchTyped, WakeType
<1>1. CASE MarketMoves
  BY <1>0, <1>1, HostAssumption DEF MarketMoves
<1>2. CASE WatchFetches
  <2>1. PICK r \in SUBSET {"squad", "shortlist"} :
          LET alert == base # Absent /\ Relevant(Served, Naming(r)) IN
            wk' = [wk EXCEPT !.pc = IF alert THEN "send" ELSE "write", !.snap = Served,
                             !.alert = alert, !.todo = IF alert THEN Chats ELSE {}]
    BY <1>2 DEF WatchFetches
  <2>2. (base # Absent /\ Relevant(Served, Naming(r))) \in BOOLEAN
    BY DEF Relevant
  <2>3. wk' \in WakeType
    BY <2>1, <2>2 DEF Served
  <2>4. told' \in [Chats -> Values] /\ excuse' \subseteq {"blind", "gone", "crossed"}
    BY <1>2 DEF WatchFetches, Served
  <2> QED
    BY <1>2, <2>3, <2>4 DEF WatchFetches
<1>3. CASE WatchWrites
  BY <1>3, <1>9 DEF WatchWrites, NewBaseline
<1>4. CASE WatchTears
  BY <1>4, <1>9 DEF WatchTears
<1>5. CASE WatchKilled
  BY <1>5, <1>9 DEF WatchKilled
<1>6. ASSUME NEW c \in Chats, WatchSends(c) PROVE WatchTyped'
  BY <1>6 DEF WatchSends
<1>7. ASSUME NEW c \in Chats, WatchSendFails(c) PROVE WatchTyped'
  BY <1>7, <1>9 DEF WatchSendFails, Unsent
<1> QED
  BY <1>1, <1>2, <1>3, <1>4, <1>5, <1>6, <1>7 DEF WatchNext

LEMMA CodeTypingStep == CodeTyped /\ CodeNext => CodeTyped'
<1> SUFFICES ASSUME CodeTyped, CodeNext PROVE CodeTyped'
  OBVIOUS
<1> USE DEF CodeTyped
<1>1. CASE Merge
  <2>1. PICK k \in Kinds : log' = Append(log, k)
    BY <1>1 DEF Merge
  <2>2. log' \in Seq(Kinds) /\ Len(log') = Len(log) + 1 /\ Len(log) \in Nat
    BY <2>1
  <2> QED
    BY <1>1, <2>2 DEF Merge
<1>2. CASE PullMerges
  BY <1>2 DEF PullMerges
<1>3. CASE PullTests
  BY <1>3 DEF PullTests
<1>4. CASE PullRestarts
  BY <1>4 DEF PullRestarts, RestartsOn
<1>5. CASE PullCut
  BY <1>5 DEF PullCut
<1>6. CASE DaemonRevived
  BY <1>6 DEF DaemonRevived
<1> QED
  BY <1>1, <1>2, <1>3, <1>4, <1>5, <1>6 DEF CodeNext

LEMMA TypingStep == WatchTyped /\ CodeTyped /\ [Next]_vars => WatchTyped' /\ CodeTyped'
<1> SUFFICES ASSUME WatchTyped, CodeTyped, [Next]_vars PROVE WatchTyped' /\ CodeTyped'
  OBVIOUS
<1>1. UNCHANGED watchVars => WatchTyped'
  BY DEF WatchTyped, watchVars
<1>2. UNCHANGED codeVars => CodeTyped'
  BY DEF CodeTyped, codeVars
<1>3. CASE UNCHANGED vars
  BY <1>1, <1>2, <1>3 DEF vars
<1> QED
  BY <1>1, <1>2, <1>3, Split, WatchTypingStep, CodeTypingStep

(* The types of the watch's and the pull's variables; the daemon never     *)
(* runs ahead of the working tree, nor the tree ahead of main.             *)
THEOREM HostWellTyped == Spec => []TypeOK
<1>1. WatchTyped /\ CodeTyped => TypeOK
  BY DEF WatchTyped, CodeTyped, TypeOK
<1> QED
  BY <1>1, InitTyping, TypingStep, PTL DEF Spec

-----------------------------------------------------------------------------
LEMMA FetchKeeps == WatchTyped /\ Known /\ WatchFetches => Known'
<1> SUFFICES ASSUME WatchTyped, Known, WatchFetches PROVE Known'
  OBVIOUS
<1> DEFINE blind(r) == Naming(r) = {}
           alert(r) == base # Absent /\ Relevant(Served, Naming(r))
<1>1. PICK r \in SUBSET {"squad", "shortlist"} :
        /\ wk' = [wk EXCEPT !.pc = IF alert(r) THEN "send" ELSE "write", !.snap = Served,
                            !.alert = alert(r), !.todo = IF alert(r) THEN Chats ELSE {}]
        /\ excuse' = excuse
             \cup (IF blind(r) /\ base # Absent /\ Differs(base.value, Served) THEN {"blind"} ELSE {})
             \cup (IF base # Absent /\ base.value # Served /\ Gone \in {base.value, Served}
                   THEN {"gone"} ELSE {})
             \cup (IF wk.half /\ ~alert(r) THEN {"crossed"} ELSE {})
        /\ told' = IF base = Absent THEN [c \in Chats |-> Served] ELSE told
  BY DEF WatchFetches
<1>2. base' = base /\ base # Torn /\ (base = Absent => ~alert(r))
  BY DEF WatchFetches
<1>3. /\ wk'.pc = (IF alert(r) THEN "send" ELSE "write") /\ wk'.snap = Served
      /\ wk'.alert = alert(r) /\ wk'.todo = (IF alert(r) THEN Chats ELSE {})
      /\ wk'.half = wk.half
  BY <1>1 DEF WatchTyped, WakeType
<1> HIDE DEF alert
<1>4. wk'.pc = "write" /\ excuse' = {} => ~wk'.half /\ \A c \in Chats : told'[c] = wk'.snap
  <2> SUFFICES ASSUME wk'.pc = "write", excuse' = {}
               PROVE  ~wk'.half /\ \A c \in Chats : told'[c] = wk'.snap
    OBVIOUS
  <2>1. ~alert(r) /\ ~wk.half /\ excuse = {}
    BY <1>1, <1>3
  <2>2. CASE base = Absent
    BY <1>1, <1>3, <2>1, <2>2
  <2>3. CASE base # Absent
    <3>1. base.value = Served
      BY <1>1, <2>1, <2>3 DEF alert, Relevant, Differs
    <3>2. \A c \in Chats : told[c] = base.value
      BY <1>2, <2>1, <2>3 DEF Known, Whole
    <3> QED
      BY <1>1, <1>3, <2>1, <2>3, <3>1, <3>2
  <2> QED
    BY <2>2, <2>3
<1>5. ~wk'.half /\ excuse' = {} /\ Whole' => \A c \in Chats : told'[c] = base'.value
  BY <1>1, <1>2, <1>3 DEF Known, Whole
<1> QED
  BY <1>3, <1>4, <1>5 DEF Known

LEMMA SendKeeps ==
  ASSUME NEW c \in Chats, WatchTyped, Known, WatchSends(c) \/ WatchSendFails(c) PROVE Known'
<1> USE DEF WatchTyped, WakeType, Known, Whole
<1>1. CASE WatchSends(c)
  <2>1. wk.pc = "send" /\ wk' = [wk EXCEPT !.todo = @ \ {c}, !.half = TRUE]
    BY <1>1 DEF WatchSends
  <2>2. wk'.pc = "send" /\ wk'.alert /\ wk'.half /\ wk'.todo = wk.todo \ {c} /\ wk'.snap = wk.snap
    BY <2>1
  <2>3. told' = [told EXCEPT ![c] = wk.snap]
    BY <1>1 DEF WatchSends
  <2> QED
    BY <2>2, <2>1, <2>3
<1>2. CASE WatchSendFails(c)
  <2>1. wk'.pc = "idle" /\ UNCHANGED <<base, excuse>>
    BY <1>2 DEF WatchSendFails, Unsent, NoWake
  <2>2. wk'.half \/ (wk'.half = wk.half /\ told' = told)
    BY <1>2 DEF WatchSendFails, Unsent, NoWake
  <2> QED
    BY <2>1, <2>2
<1> QED
  BY <1>1, <1>2

LEMMA WriteKeeps == WatchTyped /\ Known /\ WatchWrites => Known'
<1> SUFFICES ASSUME WatchTyped, Known, WatchWrites PROVE Known'
  OBVIOUS
<1> USE DEF WatchTyped, WakeType, Known
<1>1. /\ wk'.pc = "idle" /\ wk'.half = (wk.half /\ ~wk.alert)
      /\ base' = Holds(wk.snap) /\ UNCHANGED <<told, excuse>>
  BY DEF WatchWrites, NewBaseline, NoWake
<1>2. base'.value = wk.snap
  BY <1>1 DEF Holds
<1>3. ~wk'.half /\ excuse = {} => \A c \in Chats : told[c] = wk.snap
  BY <1>1 DEF WatchWrites
<1> QED
  BY <1>1, <1>2, <1>3

LEMMA KnownStep == WatchTyped /\ Known /\ [Next]_vars => Known'
<1> SUFFICES ASSUME WatchTyped, Known, [Next]_vars PROVE Known'
  OBVIOUS
<1>1. CASE MarketMoves
  BY <1>1 DEF MarketMoves, Known, Whole
<1>2. CASE WatchTears
  BY <1>2 DEF WatchTears, NoWake, Known, Whole, WatchTyped, WakeType
<1>3. CASE WatchKilled
  BY <1>3 DEF WatchKilled, NoWake, Known, Whole, WatchTyped, WakeType
<1>4. CASE UNCHANGED watchVars
  BY <1>4 DEF watchVars, Known, Whole
<1>5. CASE UNCHANGED vars
  BY <1>4, <1>5 DEF vars, watchVars
<1> QED
  BY <1>1, <1>2, <1>3, <1>4, <1>5, FetchKeeps, SendKeeps, WriteKeeps, Split DEF WatchNext

(* Between wakes every chat knows what the baseline holds, but for the     *)
(* exceptions ToldOfBaseline names: any number of chats, any failed send   *)
(* and a wake killed at any step.                                          *)
THEOREM ChatsKnowBaseline == Spec => []ToldOfBaseline
<1>1. Init => Known
  <2> SUFFICES ASSUME Init PROVE Known
    OBVIOUS
  <2>1. wk.pc = "idle" /\ base = Absent
    BY DEF Init, NoWake
  <2> QED
    BY <2>1 DEF Known, Whole
<1>2. Known => ToldOfBaseline
  BY DEF Known, Whole, ToldOfBaseline
<1> QED
  BY <1>1, <1>2, InitTyping, TypingStep, KnownStep, PTL DEF Spec

-----------------------------------------------------------------------------
(* The pull restarts the daemon only on code that starts; and between two  *)
(* pulls, none of which was cut short, the daemon runs the code that is on *)
(* disk or the selftest refused that very code last - though a pull        *)
(* compares its own merge only, and one that brings no code tests nothing  *)
(* (pull-reload.sh).  It is what GoodCodeRuns needs at each step.          *)
VettedCodeRuns ==
    /\ pull = "restart" => Runs(disk)
    /\ pull = "idle" /\ ~cut => SameCode(daemon, disk) \/ SameCode(refused, disk)

(* A later merge changes nothing of what went before.                      *)
LEMMA MergeKeepsCode ==
  ASSUME CodeTyped, NEW k \in Kinds, log' = Append(log, k)
  PROVE  /\ \A v \in 0..Len(log) : Runs(v)' <=> Runs(v)
         /\ \A v, w \in 0..Len(log) : SameCode(v, w)' <=> SameCode(v, w)
<1>1. Len(log) \in Nat /\ \A u \in 1..Len(log) : log'[u] = log[u]
  BY DEF CodeTyped
<1>2. \A v \in 0..Len(log) : \A u \in 1..v : log'[u] = log[u]
  BY <1>1
<1>3. \A v, w \in 0..Len(log) : \A u \in (v + 1)..w : log'[u] = log[u]
  BY <1>1
<1>4. \A v \in 0..Len(log) : \A b \in 1..v : \A u \in (b + 1)..v : log'[u] = log[u]
  BY <1>1
<1> QED
  BY <1>2, <1>3, <1>4 DEF Runs, SameCode, IsCode

LEMMA SameCodeChains ==
  ASSUME NEW u \in Nat, NEW v \in Nat, NEW w \in Nat, SameCode(u, v), SameCode(v, w)
  PROVE  SameCode(u, w)
BY DEF SameCode

LEMMA VettedStep == CodeTyped /\ VettedCodeRuns /\ [Next]_vars => VettedCodeRuns'
<1> SUFFICES ASSUME CodeTyped, VettedCodeRuns, [Next]_vars PROVE VettedCodeRuns'
  OBVIOUS
<1> USE DEF VettedCodeRuns
<1>1. /\ Len(log) \in Nat /\ disk \in 0..Len(log) /\ daemon \in 0..Len(log)
      /\ refused \in 0..Len(log)
  BY DEF CodeTyped
<1>9. \A n \in Nat : SameCode(n, n)
  <2>1. \A n \in Nat : \A u \in (n + 1)..n : FALSE
    OBVIOUS
  <2> QED
    BY <2>1 DEF SameCode
<1>2. CASE UNCHANGED codeVars
  BY <1>2 DEF codeVars, Runs, SameCode, IsCode
<1>3. CASE Merge
  <2>1. PICK k \in Kinds : log' = Append(log, k)
    BY <1>3 DEF Merge
  <2>2. UNCHANGED <<disk, daemon, pull, refused, cut>>
    BY <1>3 DEF Merge
  <2>3. Runs(disk)' <=> Runs(disk)
    BY <1>1, <2>1, <2>2, MergeKeepsCode DEF Runs
  <2>4. /\ SameCode(daemon, disk)' <=> SameCode(daemon, disk)
        /\ SameCode(refused, disk)' <=> SameCode(refused, disk)
    BY <1>1, <2>1, <2>2, MergeKeepsCode DEF SameCode, IsCode
  <2> QED
    BY <2>2, <2>3, <2>4
<1>4. CASE PullMerges
  <2>1. /\ pull = "idle" /\ disk' = Len(log) /\ UNCHANGED <<log, daemon, refused, cut>>
        /\ pull' = IF NeedsRestart(disk, Len(log)) THEN "test" ELSE "idle"
    BY <1>4 DEF PullMerges
  <2>2. ASSUME SameCode(disk, Len(log)), ~cut
        PROVE  SameCode(daemon, Len(log)) \/ SameCode(refused, Len(log))
    BY <1>1, <2>1, <2>2, SameCodeChains
  <2>3. /\ SameCode(daemon, disk)' <=> SameCode(daemon, Len(log))
        /\ SameCode(refused, disk)' <=> SameCode(refused, Len(log))
    BY <2>1 DEF SameCode, IsCode
  <2> QED
    BY <2>1, <2>2, <2>3 DEF NeedsRestart
<1>5. CASE PullTests
  <2>1. UNCHANGED <<log, disk, daemon, cut>>
    BY <1>5 DEF PullTests
  <2>2. CASE Runs(disk) /\ pull' = "restart"
    BY <2>1, <2>2 DEF Runs
  <2>3. CASE pull' = "idle" /\ refused' = disk
    <3>1. SameCode(refused, disk)'
      BY <1>1, <1>9, <2>1, <2>3 DEF SameCode, IsCode
    <3> QED
      BY <2>3, <3>1
  <2> QED
    BY <1>5, <2>2, <2>3 DEF PullTests
<1>6. CASE PullRestarts
  <2>1. daemon' = disk /\ UNCHANGED <<log, disk>> /\ pull' = "idle"
    BY <1>6 DEF PullRestarts, RestartsOn
  <2>2. SameCode(daemon, disk)'
    BY <1>1, <1>9, <2>1 DEF SameCode, IsCode
  <2> QED
    BY <2>1, <2>2
<1>7. CASE PullCut
  BY <1>7 DEF PullCut
<1>8. CASE DaemonRevived
  <2>1. daemon' = disk /\ UNCHANGED <<log, disk, pull>>
    BY <1>8 DEF DaemonRevived
  <2>2. SameCode(daemon, disk)' /\ (Runs(disk)' <=> Runs(disk))
    BY <1>1, <1>9, <2>1 DEF SameCode, IsCode, Runs
  <2> QED
    BY <2>1, <2>2
<1> QED
  BY <1>2, <1>3, <1>4, <1>5, <1>6, <1>7, <1>8, Split DEF CodeNext, vars

(* The pull restarts on code that starts, and misses none but what the     *)
(* selftest refused: for any number of merges of any kind, whatever the    *)
(* selftest makes of text and data, and whenever the daemon is revived.    *)
THEOREM VettedCodeIsRun == Spec => []VettedCodeRuns
<1>1. Init => VettedCodeRuns
  BY DEF Init, VettedCodeRuns, SameCode
<1> QED
  BY <1>1, InitTyping, TypingStep, VettedStep, PTL DEF Spec
=============================================================================
