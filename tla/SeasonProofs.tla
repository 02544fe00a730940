----------------------------- MODULE SeasonProofs -----------------------------
(***************************************************************************)
(* What is proved of the season file, for any players, moves, commands and *)
(* number of gameweeks: two properties while its writers take turns, that  *)
(* are false without (a save of an old copy takes a decision back), and    *)
(* what a sync writes, which holds however the writers overlap.            *)
(***************************************************************************)
EXTENDS Review, FiniteSetTheorems, WellFoundedInduction, TLAPS

Fields == {"cur", "ft", "squad", "active", "first", "second", "hits", "decided", "by"}
Entry == [squad : SUBSET Players, start : SUBSET Players, fh : SUBSET Players,
          chip : {"none", "freehit"}, used : Nat, ft : Nat, moves : Nat]
Past == [picks : SUBSET Players, used : Nat, chip : {"none", "freehit"}, ft : Nat]

(* The game's side: one entry of history for each deadline gone, and the   *)
(* squad a gameweek begins with is the one fielded, but after a free hit.  *)
World ==
    /\ game \in [open : Nat \ {0}, settled : Nat] /\ game.settled < game.open
    /\ entry \in Entry /\ hist \in Seq(Past) /\ Len(hist) = game.open - 1
    /\ game.open > 1 /\ hist[game.open - 1].chip # "freehit"
         => entry.start = hist[game.open - 1].picks

(* The wakes: their gameweek is one that has settled, or is open.          *)
Wakes ==
    /\ rv = [pc |-> rv.pc, gw |-> rv.gw, todo |-> rv.todo]
    /\ bf = [pc |-> bf.pc, gw |-> bf.gw]
    /\ last \in Nat /\ rv.gw \in Nat
    /\ rv.pc # "idle" => rv.gw \in 1..game.settled
    /\ bf # Quiet => bf.gw = game.open

(* Writers that take turns hold one copy at a time, and it is the file.    *)
Turns ==
    /\ DOMAIN file = Fields
    /\ held = [w \in Writers |-> held[w]]
    /\ \A w \in Writers : held[w] # Nothing => held[w] = file
    /\ \A v, w \in Writers : held[v] # Nothing /\ held[w] # Nothing => v = w

Recorded == acted \subseteq file.decided /\ ~adhoc

(* With no command typed: the file is of a gameweek that has opened, with  *)
(* the squad fielded in the one before; a sync under way has found it      *)
(* behind, a draft to be sent has found it up to date.                     *)
Untouched ==
    /\ held["cli"] = Nothing
    /\ file.cur \in 1..game.open
    /\ file.cur > 1 => file.squad = hist[file.cur - 1].picks
    /\ game.open = 1 => file.squad = entry.start
    /\ held["review"] # Nothing /\ rv.pc = "fetch" => file.cur < rv.gw + 1
    /\ held["brief"] # Nothing /\ bf.pc = "fetch" => file.cur < bf.gw
    /\ bf.pc = "draft" => file.cur >= bf.gw
    /\ "other" \notin stale

-----------------------------------------------------------------------------
(* The game and the wakes, whatever the writers do.                        *)

LEMMA FTAfterIsNat ==
  ASSUME NEW e \in Entry, NEW g \in Nat PROVE FTAfter(e, g) \in Nat
BY SeasonAssumption DEF FTAfter, Entry, Least, Most

LEMMA GameKeepsWorld == World /\ GameNext => World'
<1> SUFFICES ASSUME World, GameNext PROVE World'
  OBVIOUS
<1> USE DEF World
<1>1. CASE AppTransfer
  <2>1. PICK out \in entry.squad, in \in Players \ entry.squad :
          entry' = [entry EXCEPT !.squad = (@ \ {out}) \cup {in}, !.used = @ + 1, !.moves = @ + 1]
    BY <1>1 DEF AppTransfer
  <2>3. (entry.squad \ {out}) \cup {in} \in SUBSET Players /\ entry.used + 1 \in Nat
        /\ entry.moves + 1 \in Nat
    BY DEF Entry
  <2>2. entry' \in Entry /\ entry'.start = entry.start
    BY <2>1, <2>3 DEF Entry
  <2> QED
    BY <1>1, <2>2 DEF AppTransfer
<1>2. CASE AppFreeHit
  <2>1. PICK s \in Squads : entry' = [entry EXCEPT !.fh = s, !.chip = "freehit", !.moves = @ + 1]
    BY <1>2 DEF AppFreeHit
  <2>2. s \in SUBSET Players
    BY DEF Squads
  <2>4. entry.moves + 1 \in Nat
    BY DEF Entry
  <2>3. entry' \in Entry /\ entry'.start = entry.start
    BY <2>1, <2>2, <2>4 DEF Entry
  <2> QED
    BY <1>2, <2>3 DEF AppFreeHit
<1>3. CASE Deadline
  <2> DEFINE of == [picks |-> IF entry.chip = "freehit" THEN entry.fh ELSE entry.squad,
                    used |-> entry.used, chip |-> entry.chip, ft |-> FTAfter(entry, game.open)]
  <2>1. FTAfter(entry, game.open) \in Nat
    BY FTAfterIsNat
  <2>2. of \in Past /\ of.chip = entry.chip
        /\ (of.chip # "freehit" => of.picks = entry.squad)
    BY <2>1 DEF Past, Entry
  <2>3. entry' \in Entry /\ entry'.start = entry.squad
    BY <1>3, <2>1 DEF Deadline, Entry
  <2>4. hist' = Append(hist, of)
    BY <1>3 DEF Deadline
  <2> HIDE DEF of
  <2>5. hist' \in Seq(Past) /\ Len(hist') = game.open /\ hist'[game.open] = of
    BY <2>2, <2>4
  <2>6. game' = [game EXCEPT !.open = @ + 1]
    BY <1>3 DEF Deadline
  <2>7. game'.open = game.open + 1 /\ game'.settled = game.settled
        /\ game' \in [open : Nat \ {0}, settled : Nat]
    BY <2>6
  <2> QED
    BY <2>2, <2>3, <2>5, <2>7
<1>4. CASE Settle
  <2>1. game' = [game EXCEPT !.settled = @ + 1] /\ game.settled < game.open - 1
    BY <1>4 DEF Settle
  <2>2. game'.open = game.open /\ game'.settled = game.settled + 1
        /\ game' \in [open : Nat \ {0}, settled : Nat]
    BY <2>1
  <2> QED
    BY <1>4, <2>1, <2>2 DEF Settle
<1> QED
  BY <1>1, <1>2, <1>3, <1>4 DEF GameNext

(* Nothing but the game moves its side.                                    *)
LEMMA GameAlone ==
  [Next]_vars => GameStep \/ UNCHANGED <<game, entry, hist>>
BY DEF Next, CliStep, CliNext, CliLoad, CliSave, BriefNext, DraftSync, DraftSynced, Draft,
       ActLoad, ActSave, BriefFails, ChatReads, ChatNotes, ReviewNext, ReviewWake, ReviewSync,
       ReviewSynced, ReviewReply, ReviewNotes, ReviewSend, ReviewMark, ReviewFails,
       vars, seasonVars

LEMMA WorldStep == World /\ [Next]_vars => World'
<1> SUFFICES ASSUME World, [Next]_vars PROVE World'
  OBVIOUS
<1>1. CASE GameStep
  BY <1>1, GameKeepsWorld DEF GameStep
<1>2. CASE UNCHANGED <<game, entry, hist>>
  BY <1>2 DEF World
<1> QED
  BY <1>1, <1>2, GameAlone

LEMMA WakesStep == World /\ Wakes /\ [Next]_vars => Wakes'
<1> SUFFICES ASSUME World, Wakes, [Next]_vars PROVE Wakes'
  OBVIOUS
<1> USE DEF Wakes
<1>1. CASE GameStep
  <2>1. UNCHANGED <<rv, bf, last>> /\ bf = Quiet
    BY <1>1 DEF GameStep, reviewVars, briefVars
  <2>2. \/ UNCHANGED game \/ game' = [game EXCEPT !.open = @ + 1]
        \/ game' = [game EXCEPT !.settled = @ + 1]
    BY <1>1 DEF GameStep, GameNext, AppTransfer, AppFreeHit, Deadline, Settle
  <2>3. game.settled \in Nat /\ game'.settled \in Nat /\ game'.settled >= game.settled
    BY <2>2 DEF World
  <2> QED
    BY <2>1, <2>3
<1>2. CASE CliStep
  BY <1>2 DEF CliStep, CliNext, CliLoad, CliSave, reviewVars, briefVars
<1>3. CASE BriefNext
  <2>1. UNCHANGED <<game, rv, last>>
    BY <1>3 DEF BriefNext, DraftSync, DraftSynced, Draft, ActLoad, ActSave, BriefFails,
                seasonVars, reviewVars
  <2>2. bf' = [pc |-> bf'.pc, gw |-> bf'.gw] /\ (bf' # Quiet => bf'.gw = game.open)
    <3>1. CASE DraftSync
      BY <3>1 DEF DraftSync
    <3>2. CASE DraftSynced
      <4>1. bf # Quiet
        BY <3>2 DEF DraftSynced, Quiet
      <4> QED
        BY <3>2, <4>1 DEF DraftSynced
    <3>3. CASE Draft \/ ActSave \/ BriefFails
      BY <3>3 DEF Draft, ActSave, BriefFails, Quiet
    <3>4. CASE ActLoad
      BY <3>4 DEF ActLoad
    <3> QED
      BY <1>3, <3>1, <3>2, <3>3, <3>4 DEF BriefNext
  <2> QED
    BY <2>1, <2>2
<1>4. CASE ChatReads \/ ChatNotes
  BY <1>4 DEF ChatReads, ChatNotes, seasonVars, briefVars
<1>5. CASE ReviewWake
  <2>1. /\ NextReviewGw(game.settled, last) # 0
        /\ rv' = [pc |-> "sync", gw |-> NextReviewGw(game.settled, last), todo |-> Chats]
        /\ UNCHANGED <<game, bf, last>>
    BY <1>5 DEF ReviewWake, seasonVars, briefVars
  <2>2. game.settled \in Nat
    BY DEF World
  <2>3. NextReviewGw(game.settled, last) \in 1..game.settled
    BY <2>1, <2>2 DEF NextReviewGw
  <2> QED
    BY <2>1, <2>2, <2>3
<1>6. CASE ReviewSync \/ ReviewSynced
  BY <1>6 DEF ReviewSync, ReviewSynced, briefVars
<1>7. CASE ReviewReply \/ ReviewNotes
  BY <1>7 DEF ReviewReply, ReviewNotes, seasonVars, briefVars
<1>8. ASSUME NEW chat \in Chats, ReviewSend(chat) PROVE Wakes'
  BY <1>8 DEF ReviewSend, seasonVars, briefVars
<1>9. CASE ReviewMark
  BY <1>9 DEF ReviewMark, Idle, seasonVars, briefVars
<1>10. CASE ReviewFails
  BY <1>10 DEF ReviewFails, Idle, briefVars
<1>11. CASE UNCHANGED vars
  BY <1>11 DEF vars, reviewVars, briefVars, seasonVars
<1> QED
  BY <1>1, <1>2, <1>3, <1>4, <1>5, <1>6, <1>7, <1>8, <1>9, <1>10, <1>11 DEF Next, ReviewNext

-----------------------------------------------------------------------------
(* What the writers do to the file.                                        *)

(* No command, sync or act makes a file of other fields, and none forgets  *)
(* a decision.                                                             *)
LEMMA CommandsKeepDecisions ==
  ASSUME NEW f, DOMAIN f = Fields, NEW a, NEW b, NEW free \in BOOLEAN, NEW g
  PROVE  \A r \in {Transfer(f, a, b, free), PlayChip(f), AdvanceGw(f), PullSquad(f, g),
                   SetSquad(f, a, g), InitForced(f, g), Synced(f, g)} :
            DOMAIN r = Fields /\ r.decided = f.decided
<1> USE DEF Fields
<1>1. DOMAIN Transfer(f, a, b, free) = Fields /\ Transfer(f, a, b, free).decided = f.decided
  BY DEF Transfer
<1>2. DOMAIN PlayChip(f) = Fields /\ PlayChip(f).decided = f.decided
  BY DEF PlayChip
<1>3. DOMAIN AdvanceGw(f) = Fields /\ AdvanceGw(f).decided = f.decided
  BY DEF AdvanceGw
<1>4. DOMAIN PullSquad(f, g) = Fields /\ PullSquad(f, g).decided = f.decided
  BY DEF PullSquad
<1>5. DOMAIN SetSquad(f, a, g) = Fields /\ SetSquad(f, a, g).decided = f.decided
  BY DEF SetSquad
<1>6. DOMAIN InitForced(f, g) = Fields /\ InitForced(f, g).decided = f.decided
  BY DEF InitForced
<1>7. DOMAIN Synced(f, g) = Fields /\ Synced(f, g).decided = f.decided
  BY DEF Synced
<1> QED
  BY <1>1, <1>2, <1>3, <1>4, <1>5, <1>6, <1>7

(* What a save or a failure of a command leaves.                           *)
LEMMA CliSaves ==
  ASSUME Turns, CliSave
  PROVE  /\ held["cli"] # Nothing /\ held' = [held EXCEPT !["cli"] = Nothing]
         /\ DOMAIN file' = Fields /\ file'.decided = file.decided
<1> DEFINE f == held["cli"]
<1>1. f # Nothing /\ f = file /\ DOMAIN f = Fields
  BY DEF CliSave, Turns, Writers
<1>2. \/ \E out \in f.squad, in \in Players \ f.squad, free \in BOOLEAN :
            Save("cli", Transfer(f, out, in, free))
      \/ Save("cli", PlayChip(f)) \/ Save("cli", AdvanceGw(f))
      \/ \E g \in DOMAIN hist : Save("cli", PullSquad(f, g))
      \/ \E g \in {f.cur, game.open} : Save("cli", SetSquad(f, entry.squad, g))
      \/ \E g \in {1, Most(game.open - 1, 1)} : Save("cli", InitForced(f, g))
      \/ \E target \in 2..game.open : Save("cli", Synced(f, target))
      \/ Drop("cli")
  BY DEF CliSave, HandSync
<1> HIDE DEF f
<1>3. CASE Drop("cli")
  BY <1>1, <1>3 DEF Drop, f
<1>4. \A r : Save("cli", r) /\ DOMAIN r = Fields /\ r.decided = f.decided
             => held' = [held EXCEPT !["cli"] = Nothing] /\ DOMAIN file' = Fields
                /\ file'.decided = file.decided
  BY <1>1 DEF Save, f
<1>5. ASSUME NEW out, NEW in, NEW free \in BOOLEAN
      PROVE  DOMAIN Transfer(f, out, in, free) = Fields
             /\ Transfer(f, out, in, free).decided = f.decided
  BY <1>1, CommandsKeepDecisions
<1>6. /\ DOMAIN PlayChip(f) = Fields /\ PlayChip(f).decided = f.decided
      /\ DOMAIN AdvanceGw(f) = Fields /\ AdvanceGw(f).decided = f.decided
  BY <1>1, CommandsKeepDecisions
<1>7. ASSUME NEW g
      PROVE  /\ DOMAIN PullSquad(f, g) = Fields /\ PullSquad(f, g).decided = f.decided
             /\ DOMAIN InitForced(f, g) = Fields /\ InitForced(f, g).decided = f.decided
             /\ DOMAIN Synced(f, g) = Fields /\ Synced(f, g).decided = f.decided
  BY <1>1, CommandsKeepDecisions
<1>8. ASSUME NEW g
       PROVE  /\ DOMAIN SetSquad(f, entry.squad, g) = Fields
              /\ SetSquad(f, entry.squad, g).decided = f.decided
  BY <1>1 DEF SetSquad, Fields
<1>9. ASSUME NEW r, Save("cli", r), DOMAIN r = Fields, r.decided = f.decided
      PROVE  held' = [held EXCEPT !["cli"] = Nothing] /\ DOMAIN file' = Fields
             /\ file'.decided = file.decided
  BY <1>4, <1>9
<1>10. CASE \E out \in f.squad, in \in Players \ f.squad, free \in BOOLEAN :
             Save("cli", Transfer(f, out, in, free))
  <2>1. PICK out \in f.squad, in \in Players \ f.squad, free \in BOOLEAN :
          Save("cli", Transfer(f, out, in, free))
    BY <1>10
  <2>2. DOMAIN Transfer(f, out, in, free) = Fields
        /\ Transfer(f, out, in, free).decided = f.decided
    BY <2>1, <1>5
  <2> QED
    BY <1>1, <1>9, <2>1, <2>2 DEF f
<1>11. CASE Save("cli", PlayChip(f)) \/ Save("cli", AdvanceGw(f))
  BY <1>1, <1>6, <1>9, <1>11 DEF f
<1>12. CASE \E g : \/ Save("cli", PullSquad(f, g)) \/ Save("cli", InitForced(f, g))
                  \/ Save("cli", Synced(f, g)) \/ Save("cli", SetSquad(f, entry.squad, g))
  <2>1. PICK g : \/ Save("cli", PullSquad(f, g)) \/ Save("cli", InitForced(f, g))
                 \/ Save("cli", Synced(f, g)) \/ Save("cli", SetSquad(f, entry.squad, g))
    BY <1>12
  <2> QED
    BY <1>1, <1>7, <1>8, <1>9, <2>1 DEF f
<1> QED
  BY <1>2, <1>3, <1>10, <1>11, <1>12

LEMMA LoadKeepsTurns ==
  ASSUME serial, Turns, NEW w \in Writers, Load(w), file' = file PROVE Turns'
BY DEF Turns, Load

LEMMA SaveKeepsTurns ==
  ASSUME Turns, NEW w \in Writers, held[w] # Nothing \/ file' = file,
         held' = [held EXCEPT ![w] = Nothing], DOMAIN file' = Fields
  PROVE  Turns'
BY DEF Turns

(* A save of a sync or of the act, by a wake.                              *)
LEMMA SyncSaves ==
  ASSUME Turns, NEW w \in Writers, NEW g, SyncSave(w, g)
  PROVE  /\ held[w] # Nothing /\ held' = [held EXCEPT ![w] = Nothing]
         /\ file' = Synced(file, g) /\ DOMAIN file' = Fields /\ file'.decided = file.decided
<1>1. held[w] = file /\ DOMAIN file = Fields
  BY DEF Turns, SyncSave
<1> QED
  BY <1>1 DEF SyncSave, Save, Synced, Fields

LEMMA ActSaves ==
  ASSUME Turns, NEW g, Record("brief", g)
  PROVE  /\ held["brief"] # Nothing /\ held' = [held EXCEPT !["brief"] = Nothing]
         /\ file' = [file EXCEPT !.decided = @ \cup {g}] /\ DOMAIN file' = Fields
         /\ file'.decided = file.decided \cup {g}
<1>1. held["brief"] = file /\ DOMAIN file = Fields
  BY DEF Turns, Record, Writers
<1> QED
  BY <1>1 DEF Record, Save, Fields

LEMMA TurnsStep == serial /\ Turns /\ Recorded /\ [Next]_vars => serial' /\ Turns' /\ Recorded'
<1> SUFFICES ASSUME serial, Turns, Recorded, [Next]_vars PROVE serial' /\ Turns' /\ Recorded'
  OBVIOUS
<1>1. CASE GameStep
  <2>1. UNCHANGED <<file, held, serial, acted, adhoc>>
    BY <1>1 DEF GameStep, GameNext, AppTransfer, AppFreeHit, Deadline, Settle, reviewVars, briefVars
  <2> QED
    BY <2>1 DEF Turns, Recorded
<1>2. CASE CliStep
  <2>1. UNCHANGED <<serial, acted, adhoc>>
    BY <1>2 DEF CliStep, CliNext, CliLoad, CliSave, reviewVars, briefVars
  <2>2. CASE CliLoad
    BY <2>1, <2>2, LoadKeepsTurns DEF CliLoad, Recorded, Writers
  <2>3. CASE CliSave
    BY <2>1, <2>3, CliSaves, SaveKeepsTurns DEF Recorded, Writers
  <2> QED
    BY <1>2, <2>2, <2>3 DEF CliStep, CliNext
<1>3. CASE DraftSync
  <2>1. UNCHANGED <<file, serial, acted, adhoc>>
    BY <1>3 DEF DraftSync, reviewVars
  <2>2. UNCHANGED held \/ Load("brief")
    BY <1>3 DEF DraftSync, SyncLoad
  <2> QED
    BY <2>1, <2>2, LoadKeepsTurns DEF Recorded, Writers, Turns
<1>4. CASE DraftSynced
  <2>1. UNCHANGED <<serial, acted, adhoc>>
    BY <1>4 DEF DraftSynced, reviewVars
  <2>2. CASE SyncSave("brief", bf.gw)
    BY <2>1, <2>2, SyncSaves, SaveKeepsTurns DEF Recorded, Writers
  <2>3. CASE SyncFail("brief")
    BY <2>1, <2>3, SaveKeepsTurns DEF SyncFail, Drop, Recorded, Writers, Turns
  <2> QED
    BY <1>4, <2>2, <2>3 DEF DraftSynced
<1>5. CASE Draft
  BY <1>5 DEF Draft, seasonVars, reviewVars, Turns, Recorded
<1>6. CASE ActLoad
  BY <1>6, LoadKeepsTurns DEF ActLoad, reviewVars, Recorded, Writers
<1>7. CASE ActSave
  <2>1. UNCHANGED <<serial, adhoc>> /\ acted' = acted \cup {bf.gw} /\ Record("brief", bf.gw)
    BY <1>7 DEF ActSave, reviewVars
  <2> QED
    BY <2>1, ActSaves, SaveKeepsTurns DEF Recorded, Writers
<1>8. CASE BriefFails
  BY <1>8, SaveKeepsTurns DEF BriefFails, reviewVars, Recorded, Writers, Turns
<1>9. CASE ChatReads \/ ChatNotes
  <2>1. UNCHANGED <<file, held, serial, acted, adhoc>>
    BY <1>9 DEF ChatReads, ChatNotes, seasonVars, briefVars
  <2> QED
    BY <2>1 DEF Turns, Recorded
<1>10. CASE ReviewWake
  <2>1. UNCHANGED <<file, held, serial, acted>>
    BY <1>10 DEF ReviewWake, seasonVars, briefVars
  <2>2. adhoc' = (adhoc \/ NextReviewGw(game.settled, last) \in acted \ file.decided)
    BY <1>10 DEF ReviewWake
  <2> QED
    BY <2>1, <2>2 DEF Turns, Recorded
<1>11. CASE ReviewSync
  <2>1. UNCHANGED <<file, serial, acted, adhoc>>
    BY <1>11 DEF ReviewSync, briefVars
  <2>2. UNCHANGED held \/ Load("review")
    BY <1>11 DEF ReviewSync, SyncLoad
  <2> QED
    BY <2>1, <2>2, LoadKeepsTurns DEF Recorded, Writers, Turns
<1>12. CASE ReviewSynced
  <2>1. UNCHANGED <<serial, acted, adhoc>>
    BY <1>12 DEF ReviewSynced, briefVars
  <2>2. CASE SyncSave("review", rv.gw + 1)
    BY <2>1, <2>2, SyncSaves, SaveKeepsTurns DEF Recorded, Writers
  <2>3. CASE SyncFail("review")
    BY <2>1, <2>3, SaveKeepsTurns DEF SyncFail, Drop, Recorded, Writers, Turns
  <2> QED
    BY <1>12, <2>2, <2>3 DEF ReviewSynced
<1>13. CASE ReviewReply \/ ReviewNotes \/ ReviewMark \/ \E chat \in Chats : ReviewSend(chat)
  <2>1. UNCHANGED <<file, held, serial, acted, adhoc>>
    BY <1>13 DEF ReviewReply, ReviewNotes, ReviewMark, ReviewSend, seasonVars, briefVars
  <2> QED
    BY <2>1 DEF Turns, Recorded
<1>14. CASE ReviewFails
  BY <1>14, SaveKeepsTurns DEF ReviewFails, briefVars, Recorded, Writers, Turns
<1>15. CASE UNCHANGED vars
  BY <1>15 DEF vars, seasonVars, reviewVars, briefVars, Turns, Recorded
<1> QED
  BY <1>1, <1>2, <1>3, <1>4, <1>5, <1>6, <1>7, <1>8, <1>9, <1>10, <1>11, <1>12, <1>13,
     <1>14, <1>15 DEF Next, ReviewNext, BriefNext

LEMMA SerialStays == [Next]_vars => serial' = serial
BY DEF Next, GameStep, GameNext, AppTransfer, AppFreeHit, Deadline, Settle, CliStep, CliNext,
       CliLoad, CliSave, BriefNext, DraftSync, DraftSynced, Draft, ActLoad, ActSave,
       BriefFails, ChatReads, ChatNotes, ReviewNext, ReviewWake, ReviewSync, ReviewSynced,
       ReviewReply, ReviewNotes, ReviewSend, ReviewMark, ReviewFails, vars, seasonVars

LEMMA SomeSquad == \E s \in SUBSET Players : Cardinality(s) = SquadSize
<1>1. PICK f \in Bijection(1..Cardinality(Players), Players) : TRUE
  BY SeasonAssumption, FS_CardinalityType DEF ExistsBijection
<1> DEFINE T == {f[i] : i \in 1..SquadSize}
           part == [i \in 1..SquadSize |-> f[i]]
<1>2. 1..SquadSize \subseteq 1..Cardinality(Players) /\ SquadSize \in Nat
  BY SeasonAssumption, FS_CardinalityType
<1>3. T \in SUBSET Players
  BY <1>1, <1>2 DEF Bijection, Injection, Surjection
<1>4. part \in Bijection(1..SquadSize, T)
  <2>1. part \in [1..SquadSize -> T] /\ \A t \in T : \E i \in 1..SquadSize : part[i] = t
    OBVIOUS
  <2>2. \A i, j \in 1..SquadSize : part[i] = part[j] => i = j
    BY <1>1, <1>2 DEF Bijection, Injection, IsInjective
  <2> QED
    BY <2>1, <2>2 DEF Bijection, Injection, Surjection, IsInjective
<1>5. IsFiniteSet(1..SquadSize) /\ Cardinality(1..SquadSize) = SquadSize
  BY <1>2, FS_Interval
<1>6. Cardinality(T) = SquadSize
  <2> HIDE DEF T, part
  <2>1. ExistsBijection(1..SquadSize, T)
    BY <1>4 DEF ExistsBijection
  <2> QED
    BY <1>5, <2>1, FS_Bijection
<1> QED
  BY <1>3, <1>6

LEMMA InitSeason == Init => /\ World /\ Wakes /\ Turns /\ Recorded
                            /\ left = MaxCli /\ Untouched
<1> SUFFICES ASSUME Init
             PROVE  World /\ Wakes /\ Turns /\ Recorded /\ left = MaxCli /\ Untouched
  OBVIOUS
<1> DEFINE s == CHOOSE s \in Squads : TRUE
<1>1. s \in SUBSET Players
  BY SomeSquad DEF Squads
<1>2. /\ game = [open |-> 1, settled |-> 0]
      /\ entry = [squad |-> s, start |-> s, fh |-> s, chip |-> "none", used |-> 0, ft |-> 0,
                  moves |-> 0]
      /\ file = [cur |-> 1, ft |-> 1, squad |-> s, active |-> "none", first |-> "available",
                 second |-> "from_GW20", hits |-> 0, decided |-> {}, by |-> "hand"]
      /\ hist = <<>> /\ held = [w \in Writers |-> Nothing] /\ left = MaxCli
      /\ last = 0 /\ rv = Idle(0) /\ bf = Quiet /\ acted = {} /\ adhoc = FALSE /\ stale = {}
  BY DEF Init, SeasonInit
<1> HIDE DEF s
<1>3. World
  <2>1. entry \in Entry
    BY <1>1, <1>2 DEF Entry
  <2>2. hist \in Seq(Past) /\ Len(hist) = 0
    BY <1>2
  <2> QED
    BY <1>2, <2>1, <2>2 DEF World
<1>4. Wakes
  BY <1>2 DEF Wakes, Idle, Quiet
<1>5. Turns
  <2>1. \A w \in Writers : held[w] = Nothing
    BY <1>2
  <2>2. DOMAIN file = Fields
    BY <1>2 DEF Fields
  <2>3. held = [w \in Writers |-> held[w]]
    BY <1>2
  <2> QED
    BY <2>1, <2>2, <2>3 DEF Turns
<1>6. Recorded
  BY <1>2 DEF Recorded
<1>7. Untouched
  BY <1>2 DEF Untouched, Idle, Quiet, Writers
<1> QED
  BY <1>2, <1>3, <1>4, <1>5, <1>6, <1>7

(* While the writers take turns, no gameweek whose decision was recorded   *)
(* is graded as one without, whatever commands are typed.                  *)
THEOREM DecisionsAreGraded == Spec => []LockedIsGraded
<1>1. Init => (serial => Turns /\ Recorded)
  BY InitSeason
<1>2. (serial => Turns /\ Recorded) /\ [Next]_vars => (serial => Turns /\ Recorded)'
  BY TurnsStep, SerialStays
<1>3. (serial => Turns /\ Recorded) => LockedIsGraded
  BY DEF Recorded, LockedIsGraded
<1> QED
  BY <1>1, <1>2, <1>3, PTL DEF Spec

-----------------------------------------------------------------------------
(* The draft.                                                              *)

LEMMA GameKeepsUntouched == World /\ Turns /\ Untouched /\ GameStep => Untouched'
<1> SUFFICES ASSUME World, Turns, Untouched, GameStep PROVE Untouched'
  OBVIOUS
<1> USE DEF Untouched
<1>1. UNCHANGED <<file, held, rv, bf, stale>>
  BY DEF GameStep, GameNext, AppTransfer, AppFreeHit, Deadline, Settle, reviewVars, briefVars
<1>2. CASE Deadline
  <2>1. PICK of : hist' = Append(hist, of) /\ of \in Past
    <3> DEFINE of == [picks |-> IF entry.chip = "freehit" THEN entry.fh ELSE entry.squad,
                      used |-> entry.used, chip |-> entry.chip, ft |-> FTAfter(entry, game.open)]
    <3>1. hist' = Append(hist, of)
      BY <1>2 DEF Deadline
    <3>2. entry \in Entry /\ game.open \in Nat
      BY DEF World
    <3>3. of \in Past
      BY <3>2, FTAfterIsNat DEF Past, Entry
    <3> QED
      BY <3>1, <3>3
  <2>2. \A g \in 1..Len(hist) : hist'[g] = hist[g]
    BY <2>1 DEF World
  <2>3. game.open \in Nat \ {0} /\ game'.open = game.open + 1 /\ Len(hist) = game.open - 1
    BY <1>2 DEF Deadline, World
  <2>4. file.cur \in 1..game'.open
    BY <2>3
  <2>5. file.cur > 1 => file.squad = hist'[file.cur - 1].picks
    BY <2>2, <2>3
  <2> QED
    BY <1>1, <2>3, <2>4, <2>5
<1>3. CASE ~Deadline
  <2>1. game'.open = game.open /\ hist' = hist /\ entry'.start = entry.start
    BY <1>3 DEF GameStep, GameNext, AppTransfer, AppFreeHit, Settle, World, Entry
  <2> QED
    BY <1>1, <2>1
<1> QED
  BY <1>2, <1>3

(* A sync of either wake leaves the squad fielded in the gameweek before.  *)
LEMMA SyncKeepsUntouched ==
  ASSUME World, Wakes, Turns, Untouched, UNCHANGED <<game, entry, hist, stale>>,
         NEW w \in {"review", "brief"}, NEW target \in 2..game.open, file.cur < target,
         SyncSave(w, target), bf'.pc = "draft" => bf'.gw <= target
  PROVE  Untouched'
<1>1. /\ held[w] # Nothing /\ held' = [held EXCEPT ![w] = Nothing]
      /\ file' = Synced(file, target) /\ DOMAIN file = Fields
  BY SyncSaves DEF Turns, Writers
<1>2. file'.cur = target /\ file'.squad = hist[target - 1].picks
  BY <1>1 DEF Synced, PicksOf, Fields
<1>3. \A v \in Writers : held'[v] = Nothing
  BY <1>1 DEF Turns, Writers
<1>4. target \in 1..game.open /\ game.open # 1
  BY DEF World
<1> QED
  BY <1>2, <1>3, <1>4 DEF Untouched, Writers

(* The draft that carries no warning is written from an up-to-date file.   *)
LEMMA DraftIsFresh == World /\ Wakes /\ Untouched /\ Draft => "other" \notin stale'
<1> SUFFICES ASSUME World, Wakes, Untouched, Draft,
                    bf.pc # "warned", file.squad # entry.start
             PROVE  bf.gw > 1 /\ hist[bf.gw - 1].chip = "freehit"
  BY DEF Draft, Untouched
<1>1. bf.pc = "draft" /\ bf.gw = game.open
  BY DEF Draft, Wakes, Quiet
<1>2. file.cur = game.open
  BY <1>1 DEF Untouched, World
<1>3. game.open # 1 /\ game.open \in Nat \ {0}
  BY DEF Untouched, World
<1>4. file.squad = hist[game.open - 1].picks
  BY <1>2, <1>3 DEF Untouched
<1> QED
  BY <1>1, <1>3, <1>4 DEF World

LEMMA UntouchedStep ==
  ASSUME serial, World, Wakes, Turns, left \in 0..MaxCli,
         left = MaxCli => Untouched, [Next]_vars
  PROVE  left' \in 0..MaxCli /\ (left' = MaxCli => Untouched')
<1>1. CASE GameStep
  <2>1. left' = left
    BY <1>1 DEF GameStep, GameNext, AppTransfer, AppFreeHit, Deadline, Settle
  <2> QED
    BY <1>1, <2>1, GameKeepsUntouched
<1>2. CASE CliStep
  <2>1. CASE CliLoad
    BY <2>1, SeasonAssumption DEF CliLoad
  <2>2. CASE CliSave
    BY <2>2 DEF CliSave, Untouched
  <2> QED
    BY <1>2, <2>1, <2>2 DEF CliStep, CliNext
<1>3. ASSUME left' = left, left = MaxCli => (Untouched => Untouched')
      PROVE  left' \in 0..MaxCli /\ (left' = MaxCli => Untouched')
  BY <1>3
<1>4. CASE BriefNext
  <2>1. UNCHANGED <<game, entry, hist, left, rv>>
    BY <1>4 DEF BriefNext, DraftSync, DraftSynced, Draft, ActLoad, ActSave, BriefFails,
                seasonVars, reviewVars
  <2> SUFFICES ASSUME Untouched PROVE Untouched'
    BY <2>1, <1>3
  <2>2. CASE DraftSync
    <3>1. bf = Quiet /\ UNCHANGED <<file, stale>> /\ bf'.gw = game.open
      BY <2>2 DEF DraftSync
    <3>2. CASE UpToDate(game.open) /\ bf'.pc = "draft" /\ UNCHANGED held
      BY <2>1, <3>1, <3>2 DEF UpToDate, Untouched
    <3>3. CASE SyncLoad("brief", game.open) /\ bf'.pc = "fetch"
      <4>1. file.cur < game.open
        BY <3>3 DEF SyncLoad, UpToDate, Untouched, World
      <4>2. held'["review"] = held["review"] /\ held'["cli"] = held["cli"]
        BY <3>3 DEF SyncLoad, Load, Turns, Writers
      <4> QED
        BY <2>1, <3>1, <3>3, <4>1, <4>2 DEF Untouched
    <3> QED
      BY <2>2, <3>2, <3>3 DEF DraftSync
  <2>3. CASE DraftSynced
    <3>1. bf.pc = "fetch" /\ bf.gw = game.open /\ bf'.gw = bf.gw
      BY <2>3 DEF DraftSynced, Wakes, Quiet
    <3>2. CASE SyncSave("brief", bf.gw)
      <4>1. file.cur < bf.gw
        BY <3>1, <3>2 DEF SyncSave, Untouched
      <4>2. game.open \in 2..game.open
        BY <3>1, <4>1 DEF Untouched, World
      <4> QED
        BY <2>1, <2>3, <3>1, <3>2, <4>1, <4>2, SyncKeepsUntouched DEF DraftSynced, World
    <3>3. CASE SyncFail("brief") /\ bf'.pc = "warned"
      <4>1. UNCHANGED <<file, stale>> /\ held'["brief"] = Nothing
            /\ held'["review"] = held["review"] /\ held'["cli"] = held["cli"]
        BY <2>3, <3>3 DEF DraftSynced, SyncFail, Drop, Turns, Writers
      <4> QED
        BY <2>1, <3>3, <4>1 DEF Untouched
    <3> QED
      BY <2>3, <3>2, <3>3 DEF DraftSynced, Wakes
  <2>4. CASE Draft
    <3>1. UNCHANGED <<file, held>> /\ bf'.pc = "idle"
      BY <2>4 DEF Draft, seasonVars, Quiet
    <3> QED
      BY <2>1, <2>4, <3>1, DraftIsFresh DEF Untouched
  <2>5. CASE ActLoad
    <3>1. UNCHANGED <<file, stale>> /\ bf'.pc = "act"
          /\ held'["review"] = held["review"] /\ held'["cli"] = held["cli"]
      BY <2>5 DEF ActLoad, Load, Turns, Writers
    <3> QED
      BY <2>1, <3>1 DEF Untouched
  <2>6. CASE ActSave
    <3>1. Record("brief", bf.gw) /\ bf'.pc = "idle" /\ UNCHANGED stale
      BY <2>6 DEF ActSave, Quiet
    <3>2. /\ held["brief"] # Nothing /\ held' = [held EXCEPT !["brief"] = Nothing]
          /\ file' = [file EXCEPT !.decided = @ \cup {bf.gw}]
      BY <3>1, ActSaves
    <3>3. file'.cur = file.cur /\ file'.squad = file.squad
      BY <3>2 DEF Turns, Fields
    <3>4. \A v \in Writers : held'[v] = Nothing
      BY <3>2 DEF Turns, Writers
    <3> QED
      BY <2>1, <3>1, <3>3, <3>4 DEF Untouched, Writers
  <2>7. CASE BriefFails
    <3>1. UNCHANGED <<file, stale>> /\ bf'.pc = "idle" /\ held'["brief"] = Nothing
          /\ held'["review"] = held["review"] /\ held'["cli"] = held["cli"]
      BY <2>7 DEF BriefFails, Quiet, Turns, Writers
    <3> QED
      BY <2>1, <3>1 DEF Untouched
  <2> QED
    BY <1>4, <2>2, <2>3, <2>4, <2>5, <2>6, <2>7 DEF BriefNext
<1>5. CASE ReviewNext
  <2>1. UNCHANGED <<game, entry, hist, left, bf, stale>>
    BY <1>5 DEF ReviewNext, ReviewWake, ReviewSync, ReviewSynced, ReviewReply, ReviewNotes,
                ReviewSend, ReviewMark, ReviewFails, seasonVars, briefVars
  <2> SUFFICES ASSUME Untouched PROVE Untouched'
    BY <2>1, <1>3
  <2>2. CASE ReviewSync
    <3>1. UNCHANGED file /\ rv'.gw = rv.gw /\ rv.gw \in Nat
      BY <2>2 DEF ReviewSync, Wakes
    <3>2. CASE rv'.pc = "think" /\ UNCHANGED held
      BY <2>1, <3>1, <3>2 DEF Untouched
    <3>3. CASE SyncLoad("review", rv.gw + 1) /\ rv'.pc = "fetch"
      <4>1. file.cur < rv.gw + 1
        BY <3>1, <3>3 DEF SyncLoad, UpToDate, Untouched, World
      <4>2. held'["brief"] = held["brief"] /\ held'["cli"] = held["cli"]
        BY <3>3 DEF SyncLoad, Load, Turns, Writers
      <4> QED
        BY <2>1, <3>1, <3>3, <4>1, <4>2 DEF Untouched
    <3> QED
      BY <2>2, <3>2, <3>3 DEF ReviewSync, Wakes
  <2>3. CASE ReviewSynced
    <3>1. rv.pc = "fetch" /\ rv.gw \in 1..game.settled /\ rv'.pc = "think"
      BY <2>3 DEF ReviewSynced, Wakes
    <3>2. CASE SyncSave("review", rv.gw + 1)
      <4>1. file.cur < rv.gw + 1
        BY <3>1, <3>2 DEF SyncSave, Untouched
      <4>2. rv.gw + 1 \in 2..game.open
        BY <3>1 DEF World
      <4>3. bf.pc = "draft" => bf.gw <= file.cur
        BY DEF Untouched
      <4>4. bf.pc = "draft" => bf.gw \in Nat /\ bf.gw <= rv.gw + 1
        BY <4>1, <4>3, <3>1 DEF Untouched, World, Wakes, Quiet
      <4> QED
        BY <2>1, <3>2, <4>1, <4>2, <4>4, SyncKeepsUntouched
    <3>3. CASE SyncFail("review")
      <4>1. UNCHANGED file /\ held'["review"] = Nothing
            /\ held'["brief"] = held["brief"] /\ held'["cli"] = held["cli"]
        BY <3>3 DEF SyncFail, Drop, Turns, Writers
      <4> QED
        BY <2>1, <3>1, <4>1 DEF Untouched
    <3> QED
      BY <2>3, <3>2, <3>3 DEF ReviewSynced
  <2>4. CASE ReviewFails
    <3>1. UNCHANGED file /\ rv'.pc = "idle" /\ held'["review"] = Nothing
          /\ held'["brief"] = held["brief"] /\ held'["cli"] = held["cli"]
      BY <2>4 DEF ReviewFails, Idle, Turns, Writers
    <3> QED
      BY <2>1, <3>1 DEF Untouched
  <2>5. CASE ~ReviewSync /\ ~ReviewSynced /\ ~ReviewFails
    <3>1. UNCHANGED <<file, held>>
      BY <1>5, <2>5 DEF ReviewNext, ReviewWake, ReviewReply, ReviewNotes, ReviewSend,
                        ReviewMark, seasonVars
    <3>2. CASE ReviewWake \/ ReviewMark
      BY <2>1, <3>1, <3>2 DEF ReviewWake, ReviewMark, Idle, Untouched
    <3>3. CASE ReviewReply \/ ReviewNotes
      BY <2>1, <3>1, <3>3 DEF ReviewReply, ReviewNotes, Wakes, Untouched
    <3>4. ASSUME NEW chat \in Chats, ReviewSend(chat) PROVE Untouched'
      BY <2>1, <3>1, <3>4 DEF ReviewSend, Wakes, Untouched
    <3> QED
      BY <1>5, <2>5, <3>2, <3>3, <3>4 DEF ReviewNext
  <2> QED
    BY <2>2, <2>3, <2>4, <2>5
<1>6. CASE ChatReads \/ ChatNotes \/ UNCHANGED vars
  <2>1. UNCHANGED <<game, entry, hist, left, rv, bf, stale, file, held>>
    BY <1>6 DEF ChatReads, ChatNotes, vars, seasonVars, briefVars, reviewVars
  <2> QED
    BY <2>1 DEF Untouched
<1> QED
  BY <1>1, <1>2, <1>4, <1>5, <1>6 DEF Next

(* While the writers take turns and no command is typed, a draft without a *)
(* warning is of the squad its gameweek began with, or comes after a       *)
(* free hit: for any number of gameweeks, whatever fails and in whatever   *)
(* order reviews and drafts come.                                          *)
THEOREM DraftsAreFresh == Spec => []FreshDraft
<1> DEFINE Inv == /\ World /\ Wakes
                  /\ serial => /\ Turns /\ Recorded /\ left \in 0..MaxCli
                               /\ left = MaxCli => Untouched
<1>1. Init => Inv
  BY InitSeason, SeasonAssumption
<1>2. Inv /\ [Next]_vars => Inv'
  BY WorldStep, WakesStep, TurnsStep, SerialStays, UntouchedStep
<1>3. Inv => FreshDraft
  BY DEF Untouched, FreshDraft
<1> QED
  BY <1>1, <1>2, <1>3, PTL DEF Spec

-----------------------------------------------------------------------------
(* The replay of the free transfers (sync.free_transfers_entering) gives    *)
(* what the game gave, by induction over the gameweeks.                    *)

(* Every set of naturals has a least element: what an induction over a     *)
(* gameweek or a sequence comes down to here.                              *)
LEMMA LeastOf ==
  ASSUME NEW S \in SUBSET Nat, S # {}
  PROVE  \E m \in S : \A n \in S : m <= n
<1> DEFINE R == OpToRel(<, Nat)
<1>1. IsWellFoundedOn(R, Nat)
  BY NatLessThanWellFounded
<1> HIDE DEF R
<1>2. PICK m \in S : \A n \in S : <<n, m>> \notin R
  BY <1>1, WFMin
<1>3. \A n \in S : n < m => <<n, m>> \in R
  BY DEF R, OpToRel
<1>4. \A n \in S : ~(n < m)
  BY <1>2, <1>3
<1> QED
  BY <1>4

PastType == [picks : Squads, used : 0..MaxMoves, chip : {"none", "freehit"}, ft : 0..FTCap]

(* What the game gives after each gameweek follows from what it gave after *)
(* the one before.                                                         *)
Chain(h) ==
    \A g \in 1..Len(h) :
       h[g].ft = IF g = 1 THEN 1
                 ELSE IF h[g].chip = "freehit" THEN h[g - 1].ft
                 ELSE Least(FTCap, Most(h[g - 1].ft - h[g].used, 0) + 1)

(* One gameweek of the replay, from the count entering the one before.     *)
Replay(h, ft) ==
    [g \in 1..MaxGW |->
       IF g = 1 THEN 1
       ELSE IF g \in DOMAIN h /\ h[g].chip = "freehit" THEN Least(FTCap, ft[g - 1])
       ELSE LET used == IF g \in DOMAIN h THEN h[g].used ELSE 0
            IN Least(FTCap, Most(ft[g - 1] - used, 0) + 1)]

LEMMA CountOfPast ==
  ASSUME NEW h \in Seq(PastType), NEW g \in 1..Len(h) PROVE h[g].ft \in 0..FTCap
<1>1. h[g] \in PastType
  OBVIOUS
<1> QED
  BY <1>1 DEF PastType

LEMMA ReplayOfGame ==
  ASSUME NEW h \in Seq(PastType), Len(h) \in 1..MaxGW, Chain(h)
  PROVE  \E ft : ft = Replay(h, ft)
<1> DEFINE n == Len(h)
           ft == [g \in 1..MaxGW |-> IF g <= n THEN h[g].ft
                                     ELSE Least(FTCap, h[n].ft + (g - n))]
<1>1. n \in 1..MaxGW /\ DOMAIN h = 1..n /\ MaxGW \in Nat /\ FTCap \in Nat /\ FTCap >= 1
  BY SeasonAssumption
<1> SUFFICES ASSUME NEW g \in 1..MaxGW PROVE ft[g] = Replay(h, ft)[g]
  <2>1. Replay(h, ft) = [g \in 1..MaxGW |-> Replay(h, ft)[g]]
    BY DEF Replay
  <2>2. ft = Replay(h, ft)
    BY <2>1
  <2> QED
    BY <2>2
<1>3. CASE g = 1
  BY <1>1, <1>3 DEF Chain, Replay
<1>4. CASE g # 1 /\ g <= n
  <2>1. g \in 1..n /\ g - 1 \in 1..n /\ g \in DOMAIN h
    BY <1>1, <1>4
  <2>2. ft[g] = h[g].ft /\ ft[g - 1] = h[g - 1].ft
    BY <1>1, <2>1
  <2>3. h[g - 1].ft \in 0..FTCap
    BY <2>1, CountOfPast
  <2>4. h[g].ft = IF h[g].chip = "freehit" THEN h[g - 1].ft
                  ELSE Least(FTCap, Most(h[g - 1].ft - h[g].used, 0) + 1)
    BY <1>4, <2>1 DEF Chain
  <2>5. Least(FTCap, h[g - 1].ft) = h[g - 1].ft
    BY <1>1, <2>3 DEF Least
  <2> HIDE DEF ft, n
  <2> QED
    BY <1>4, <2>1, <2>2, <2>4, <2>5 DEF Replay
<1>5. CASE g > n
  <2>1. g - 1 \in 1..MaxGW /\ g \notin DOMAIN h /\ g # 1
    BY <1>1, <1>5
  <2>2. h[n].ft \in 0..FTCap
    BY <1>1, CountOfPast
  <2> DEFINE x == h[n].ft
  <2>3. ft[g] = Least(FTCap, x + (g - n))
    BY <1>1, <1>5
  <2>4. ft[g - 1] = IF g - 1 = n THEN x ELSE Least(FTCap, x + (g - 1 - n))
    BY <1>1, <1>5, <2>1
  <2>5. Replay(h, ft)[g] = Least(FTCap, Most(ft[g - 1] - 0, 0) + 1)
    <3> HIDE DEF ft
    <3> QED BY <2>1 DEF Replay
  <2> HIDE DEF ft, x
  <2> QED
    BY <1>1, <1>5, <2>2, <2>3, <2>4, <2>5 DEF Least, Most, x
<1> QED
  BY <1>1, <1>3, <1>4, <1>5

LEMMA ReplayIsGame ==
  ASSUME NEW h \in Seq(PastType), Len(h) \in 1..MaxGW, Chain(h), NEW ft, ft = Replay(h, ft)
  PROVE  \A g \in 1..Len(h) : ft[g] = h[g].ft
<1> DEFINE Off == {g \in 1..Len(h) : ft[g] # h[g].ft}
<1> SUFFICES ASSUME Off # {} PROVE FALSE
  OBVIOUS
<1>1. Off \in SUBSET Nat
  OBVIOUS
<1>2. PICK g \in Off : \A k \in Off : g <= k
  BY <1>1, LeastOf
<1>3. g \in 1..Len(h) /\ g \in 1..MaxGW /\ DOMAIN h = 1..Len(h) /\ ft[g] # h[g].ft
  BY <1>2, SeasonAssumption
<1>4. ft[g] = Replay(h, ft)[g]
  OBVIOUS
<1>5. g # 1
  <2>1. g = 1 => ft[g] = 1
    BY <1>3, <1>4 DEF Replay
  <2> QED
    BY <1>3, <2>1 DEF Chain
<1>6. g - 1 \in 1..Len(h) /\ ft[g - 1] = h[g - 1].ft
  <2>1. g - 1 \in 1..Len(h) /\ ~(g <= g - 1)
    BY <1>3, <1>5
  <2> QED
    BY <1>2, <2>1
<1>7. h[g - 1].ft \in 0..FTCap
  BY <1>6, CountOfPast
<1>8. Least(FTCap, h[g - 1].ft) = h[g - 1].ft
  BY <1>7, SeasonAssumption DEF Least
<1>9. Replay(h, ft)[g] = IF h[g].chip = "freehit" THEN Least(FTCap, h[g - 1].ft)
                         ELSE Least(FTCap, Most(h[g - 1].ft - h[g].used, 0) + 1)
  BY <1>3, <1>5, <1>6 DEF Replay
<1>10. h[g].ft = IF h[g].chip = "freehit" THEN h[g - 1].ft
                 ELSE Least(FTCap, Most(h[g - 1].ft - h[g].used, 0) + 1)
  BY <1>3, <1>5 DEF Chain
<1> QED
  BY <1>3, <1>4, <1>8, <1>9, <1>10

LEMMA FreeTransfersReplayed ==
  ASSUME hist \in Seq(PastType), Len(hist) \in 1..MaxGW, Chain(hist),
         NEW target \in 2..(Len(hist) + 1)
  PROVE  FreeTransfersEntering(target) = hist[target - 1].ft
<1> DEFINE ft == CHOOSE f : f = Replay(hist, f)
<1>1. ft = Replay(hist, ft)
  BY ReplayOfGame
<1>2. FreeTransfersEntering(target) = ft[Most(target - 1, 1)]
  BY DEF FreeTransfersEntering, Replay
<1> HIDE DEF ft
<1>3. target - 1 \in 1..Len(hist) /\ Most(target - 1, 1) = target - 1
  BY DEF Most
<1> QED
  BY <1>1, <1>2, <1>3, ReplayIsGame

-----------------------------------------------------------------------------
(* The game's side within its bounds.                                      *)

(* The game's side keeps to its bounds, and its history is a chain.        *)
Game ==
    /\ game \in [open : GWs, settled : 0..MaxGW] /\ game.settled < game.open
    /\ entry \in EntryType /\ entry.used <= entry.moves
    /\ hist \in Seq(PastType) /\ Len(hist) = game.open - 1
    /\ Chain(hist) /\ (game.open > 1 => entry.ft = hist[game.open - 1].ft)

LEMMA SwapKeepsSquad ==
  ASSUME NEW s \in Squads, NEW out \in s, NEW in \in Players \ s
  PROVE  (s \ {out}) \cup {in} \in Squads
<1>1. IsFiniteSet(s) /\ s \subseteq Players /\ Cardinality(s) = SquadSize
  BY SeasonAssumption, FS_Subset DEF Squads
<1>2. IsFiniteSet(s \ {out}) /\ Cardinality(s \ {out}) = SquadSize - 1
  BY <1>1, FS_RemoveElement
<1>3. Cardinality((s \ {out}) \cup {in}) = SquadSize - 1 + 1
  BY <1>2, FS_AddElement
<1>4. SquadSize \in Int
  BY SeasonAssumption, FS_CardinalityType
<1> QED
  BY <1>1, <1>3, <1>4 DEF Squads

LEMMA GameKeepsGame == Game /\ GameNext => Game'
<1> SUFFICES ASSUME Game, GameNext PROVE Game'
  OBVIOUS
<1> USE DEF Game
<1>0. MaxGW \in Nat \ {0} /\ FTCap \in Nat \ {0} /\ MaxMoves \in Nat
  BY SeasonAssumption
<1>1. CASE AppTransfer
  <2>1. PICK out \in entry.squad, in \in Players \ entry.squad :
          entry' = [entry EXCEPT !.squad = (@ \ {out}) \cup {in}, !.used = @ + 1, !.moves = @ + 1]
    BY <1>1 DEF AppTransfer
  <2>2. entry.squad \in Squads /\ entry.used \in 0..MaxMoves /\ entry.moves \in 0..MaxMoves
        /\ entry.moves < MaxMoves /\ UNCHANGED <<game, hist>>
    BY <1>1 DEF AppTransfer, EntryType
  <2>3. (entry.squad \ {out}) \cup {in} \in Squads
    BY <2>2, SwapKeepsSquad
  <2>4. entry.used + 1 \in 0..MaxMoves /\ entry.moves + 1 \in 0..MaxMoves
    BY <1>0, <2>2
  <2>5. entry' \in EntryType /\ entry'.ft = entry.ft
    BY <2>1, <2>3, <2>4 DEF EntryType
  <2>6. entry'.used = entry.used + 1 /\ entry'.moves = entry.moves + 1
    BY <2>1 DEF EntryType
  <2> QED
    BY <2>2, <2>5, <2>6
<1>2. CASE AppFreeHit
  <2>1. PICK s \in Squads : entry' = [entry EXCEPT !.fh = s, !.chip = "freehit", !.moves = @ + 1]
    BY <1>2 DEF AppFreeHit
  <2>2. entry.moves \in 0..MaxMoves /\ entry.moves < MaxMoves /\ entry.used = 0
        /\ UNCHANGED <<game, hist>>
    BY <1>2 DEF AppFreeHit, EntryType
  <2>3. entry.moves + 1 \in 0..MaxMoves
    BY <1>0, <2>2
  <2>4. entry' \in EntryType /\ entry'.ft = entry.ft
    BY <2>1, <2>3 DEF EntryType
  <2>5. entry'.used = entry.used /\ entry'.moves = entry.moves + 1
    BY <2>1 DEF EntryType
  <2> QED
    BY <2>2, <2>3, <2>4, <2>5
<1>3. CASE Deadline
  <2> DEFINE of == [picks |-> IF entry.chip = "freehit" THEN entry.fh ELSE entry.squad,
                    used |-> entry.used, chip |-> entry.chip, ft |-> FTAfter(entry, game.open)]
  <2>1. entry.ft \in 0..FTCap /\ entry.used \in 0..MaxMoves
    BY DEF EntryType
  <2>2. FTAfter(entry, game.open) \in 0..FTCap
    BY <1>0, <2>1 DEF FTAfter, Least, Most
  <2>3. of \in PastType
    BY <2>2 DEF PastType, EntryType
  <2>4. hist' = Append(hist, of) /\ of.used = entry.used /\ of.chip = entry.chip
        /\ of.ft = FTAfter(entry, game.open)
    BY <1>3 DEF Deadline
  <2>5. entry' \in EntryType /\ entry'.used = 0 /\ entry'.moves = entry.moves
        /\ entry'.ft = FTAfter(entry, game.open)
    <3>1. entry' = [entry EXCEPT !.used = 0, !.chip = "none", !.fh = entry.squad,
                                 !.start = entry.squad, !.ft = FTAfter(entry, game.open)]
      BY <1>3 DEF Deadline
    <3>2. entry \in EntryType /\ 0 \in 0..MaxMoves
      BY <1>0
    <3> QED
      BY <2>2, <3>1, <3>2 DEF EntryType
  <2> HIDE DEF of
  <2>6. game' = [game EXCEPT !.open = @ + 1] /\ game.open < MaxGW
    BY <1>3 DEF Deadline
  <2>7. game'.open = game.open + 1 /\ game'.settled = game.settled
        /\ game' \in [open : GWs, settled : 0..MaxGW]
    BY <1>0, <2>6 DEF GWs
  <2>8. hist' \in Seq(PastType) /\ Len(hist') = game.open /\ hist'[game.open] = of
        /\ \A g \in 1..Len(hist) : hist'[g] = hist[g]
    BY <2>3, <2>4 DEF GWs
  <2>9. Chain(hist')
    <3> SUFFICES ASSUME NEW g \in 1..game.open
                 PROVE  hist'[g].ft = IF g = 1 THEN 1
                          ELSE IF hist'[g].chip = "freehit" THEN hist'[g - 1].ft
                          ELSE Least(FTCap, Most(hist'[g - 1].ft - hist'[g].used, 0) + 1)
      BY <2>8 DEF Chain
    <3>1. CASE g < game.open
      <4>1. g \in 1..Len(hist) /\ (g # 1 => g - 1 \in 1..Len(hist))
        BY <3>1 DEF GWs
      <4> QED
        BY <2>8, <4>1 DEF Chain
    <3>2. CASE g = game.open
      <4>1. g # 1 => g - 1 \in 1..Len(hist) /\ hist'[g - 1].ft = entry.ft
        BY <2>8, <3>2 DEF GWs
      <4> QED
        BY <2>4, <2>8, <3>2, <4>1 DEF FTAfter
    <3> QED
      BY <3>1, <3>2 DEF GWs
  <2>10. entry.moves \in 0..MaxMoves
    BY DEF EntryType
  <2>11. game.open \in Nat /\ game.settled \in Nat
    BY DEF GWs
  <2>12. game'.settled < game'.open /\ game'.open - 1 = game.open
    BY <2>7, <2>11
  <2>13. entry'.used <= entry'.moves /\ entry'.ft = hist'[game'.open - 1].ft
    BY <2>4, <2>5, <2>8, <2>10, <2>12
  <2> QED
    BY <2>5, <2>7, <2>8, <2>9, <2>12, <2>13
<1>4. CASE Settle
  <2>1. game' = [game EXCEPT !.settled = @ + 1] /\ game.settled < game.open - 1
        /\ UNCHANGED <<entry, hist>>
    BY <1>4 DEF Settle
  <2>2. game'.open = game.open /\ game'.settled = game.settled + 1
        /\ game' \in [open : GWs, settled : 0..MaxGW]
    BY <1>0, <2>1 DEF GWs
  <2> QED
    BY <2>1, <2>2 DEF GWs
<1> QED
  BY <1>1, <1>2, <1>3, <1>4 DEF GameNext

LEMMA GameKept == Game /\ [Next]_vars => Game'
<1> SUFFICES ASSUME Game, [Next]_vars PROVE Game'
  OBVIOUS
<1>1. CASE GameStep
  BY <1>1, GameKeepsGame DEF GameStep
<1>2. CASE UNCHANGED <<game, entry, hist>>
  BY <1>2 DEF Game
<1> QED
  BY <1>1, <1>2, GameAlone

(* A copy of the file after n commands: within its bounds, and, when a     *)
(* sync wrote it, as the game says.                                        *)
FromGame(h, f) == f.by = "sync" => /\ f.cur - 1 \in DOMAIN h
                                   /\ f.squad = h[f.cur - 1].picks
                                   /\ f.ft = h[f.cur - 1].ft
Copy(h, n, f) == f \in FileType /\ f.cur <= MaxGW + n /\ f.hits <= 4 * n /\ FromGame(h, f)

LEMMA CopyStays ==
  ASSUME NEW h \in Seq(PastType), NEW x \in PastType, NEW n \in Nat, NEW m \in Nat, n <= m,
         NEW f, Copy(h, n, f)
  PROVE  Copy(h, m, f) /\ Copy(Append(h, x), n, f)
<1>0. MaxGW \in Nat \ {0} /\ MaxCli \in Nat
  BY SeasonAssumption
<1>1. f.cur \in Nat \ {0} /\ f.hits \in Nat
  BY <1>0 DEF Copy, FileType
<1>2. f.by = "sync" => Append(h, x)[f.cur - 1] = h[f.cur - 1] /\ f.cur - 1 \in DOMAIN Append(h, x)
  BY <1>1 DEF Copy, FromGame
<1>3. FromGame(Append(h, x), f)
  BY <1>2 DEF Copy, FromGame
<1>4. f.cur <= MaxGW + m /\ f.hits <= 4 * m
  BY <1>0, <1>1 DEF Copy
<1> QED
  BY <1>3, <1>4 DEF Copy

(* What each command makes of a copy.                                      *)
LEMMA TransferKeepsCopy ==
  ASSUME NEW h, NEW n \in Nat, n < MaxCli, NEW f, Copy(h, n, f),
         NEW out \in f.squad, NEW in \in Players \ f.squad, NEW free \in BOOLEAN
  PROVE  Copy(h, n + 1, Transfer(f, out, in, free))
<1>0. MaxGW \in Nat \ {0} /\ MaxCli \in Nat /\ FTCap \in Nat \ {0}
  BY SeasonAssumption
<1>1. f \in FileType /\ f.cur <= MaxGW + n /\ f.hits <= 4 * n
  BY DEF Copy
<1>2. f.squad \in Squads
  BY <1>1 DEF FileType
<1>3. (f.squad \ {out}) \cup {in} \in Squads
  BY <1>2, SwapKeepsSquad
<1> DEFINE r == Transfer(f, out, in, free)
           spend == ~free /\ f.active # "free_hit"
<1>4. r.hits = (IF spend /\ f.ft < 1 THEN f.hits + 4 ELSE f.hits) /\ r.cur = f.cur /\ r.by = "hand"
  BY <1>1 DEF Transfer, FileType
<1>5. r.hits \in 0..(4 * MaxCli) /\ r.hits <= 4 * (n + 1) /\ r.cur <= MaxGW + (n + 1)
  <2>1. f.hits \in Nat /\ f.cur \in Nat
    BY <1>1 DEF FileType
  <2> HIDE DEF r
  <2> QED
    BY <1>0, <1>1, <1>4, <2>1
<1>6. (IF spend /\ f.ft >= 1 THEN f.ft - 1 ELSE f.ft) \in 0..FTCap
  BY <1>0, <1>1 DEF FileType
<1>7. r \in FileType
  <2>1. r = [f EXCEPT !.squad = (f.squad \ {out}) \cup {in}, !.by = "hand",
                      !.ft = IF spend /\ f.ft >= 1 THEN f.ft - 1 ELSE f.ft, !.hits = r.hits]
    BY <1>1, <1>4 DEF Transfer, FileType
  <2> HIDE DEF r, spend
  <2> QED
    BY <1>1, <1>3, <1>5, <1>6, <2>1 DEF FileType
<1> QED
  BY <1>4, <1>5, <1>7 DEF Copy, FromGame

LEMMA CommandsKeepCopy ==
  ASSUME Game, NEW n \in Nat, n < MaxCli, NEW f, Copy(hist, n, f)
  PROVE  /\ Copy(hist, n + 1, PlayChip(f)) /\ Copy(hist, n + 1, AdvanceGw(f))
         /\ \A g \in {f.cur, game.open} : Copy(hist, n + 1, SetSquad(f, entry.squad, g))
         /\ \A g \in DOMAIN hist : Copy(hist, n + 1, PullSquad(f, g))
         /\ \A g \in {1, Most(game.open - 1, 1)} : Copy(hist, n + 1, InitForced(f, g))
<1>0. MaxGW \in Nat \ {0} /\ MaxCli \in Nat /\ FTCap \in Nat \ {0}
  BY SeasonAssumption
<1>1. f \in FileType /\ FromGame(hist, f) /\ f.cur <= MaxGW + n /\ f.hits <= 4 * n
  BY DEF Copy
<1>2. f.cur \in Nat \ {0} /\ f.hits \in Nat /\ f.ft \in 0..FTCap
  BY <1>1 DEF FileType
<1>3. ASSUME NEW r \in FileType, r.hits <= f.hits, r.cur <= MaxGW + n + 1,
             r.by = "hand" \/ FromGame(hist, r)
      PROVE  Copy(hist, n + 1, r)
  <2>1. r.hits \in Nat
    BY <1>3 DEF FileType
  <2>2. r.hits <= 4 * (n + 1) /\ r.cur <= MaxGW + (n + 1)
    BY <1>0, <1>1, <1>2, <1>3, <2>1
  <2> QED
    BY <1>3, <2>2 DEF Copy, FromGame
<1>4. f.cur <= MaxGW + n + 1
  BY <1>0, <1>1, <1>2
<1>5. Copy(hist, n + 1, PlayChip(f))
  <2>1. PlayChip(f) \in FileType
    BY <1>1 DEF PlayChip, FileType
  <2>2. /\ PlayChip(f).hits = f.hits /\ PlayChip(f).cur = f.cur /\ PlayChip(f).by = f.by
        /\ PlayChip(f).squad = f.squad /\ PlayChip(f).ft = f.ft
    BY <1>1 DEF PlayChip, FileType
  <2>3. FromGame(hist, PlayChip(f))
    BY <1>1, <2>2 DEF FromGame
  <2> QED
    BY <1>2, <1>3, <1>4, <2>1, <2>2, <2>3
<1>6. Copy(hist, n + 1, AdvanceGw(f))
  <2>1. f.cur + 1 \in 1..(MaxGW + MaxCli) /\ f.cur + 1 <= MaxGW + n + 1
    BY <1>0, <1>1, <1>2
  <2>2. Least(FTCap, f.ft + 1) \in 0..FTCap
    BY <1>0, <1>2 DEF Least
  <2>3. AdvanceGw(f) \in FileType
    BY <1>1, <2>1, <2>2 DEF AdvanceGw, FileType
  <2>4. /\ AdvanceGw(f).hits = f.hits /\ AdvanceGw(f).cur = f.cur + 1 /\ AdvanceGw(f).by = "hand"
    BY <1>1 DEF AdvanceGw, FileType
  <2> QED
    BY <1>2, <1>3, <2>1, <2>3, <2>4
<1>7. game.open \in 1..MaxGW /\ DOMAIN hist = 1..(game.open - 1)
  BY DEF Game, GWs
<1>8. ASSUME NEW g \in 1..MaxGW PROVE g \in 1..(MaxGW + MaxCli) /\ g <= MaxGW + n + 1
  BY <1>0
<1>9. ASSUME NEW g \in {f.cur, game.open} PROVE Copy(hist, n + 1, SetSquad(f, entry.squad, g))
  <2> DEFINE r == SetSquad(f, entry.squad, g)
  <2>1. entry.squad \in Squads
    BY DEF Game, EntryType
  <2>2. g \in 1..(MaxGW + MaxCli) /\ g <= MaxGW + n + 1
    BY <1>1, <1>4, <1>7, <1>8 DEF FileType
  <2>3. r \in FileType
    BY <1>1, <2>1, <2>2 DEF SetSquad, FileType
  <2>4. r.hits = f.hits /\ r.cur = g /\ r.by = "hand"
    BY <1>1 DEF SetSquad, FileType
  <2> HIDE DEF r
  <2>5. Copy(hist, n + 1, r)
    BY <1>2, <1>3, <2>2, <2>3, <2>4
  <2> QED
    BY <2>5 DEF r
<1>10. ASSUME NEW g \in DOMAIN hist PROVE Copy(hist, n + 1, PullSquad(f, g))
  <2>1. g \in 1..MaxGW
    BY <1>0, <1>7
  <2>2. hist[g] \in PastType
    BY DEF Game
  <2>3. PicksOf(g) \in Squads
    BY <2>2 DEF PicksOf, PastType
  <2>4. PullSquad(f, g) \in FileType
    BY <1>1, <1>8, <2>1, <2>3 DEF PullSquad, FileType
  <2>5. /\ PullSquad(f, g).hits = f.hits /\ PullSquad(f, g).cur = g /\ PullSquad(f, g).by = "hand"
    BY <1>1 DEF PullSquad, FileType
  <2> QED
    BY <1>2, <1>3, <1>8, <2>1, <2>4, <2>5
<1>11. ASSUME NEW g \in {1, Most(game.open - 1, 1)} PROVE Copy(hist, n + 1, InitForced(f, g))
  <2>1. g \in 1..MaxGW
    BY <1>0, <1>7 DEF Most
  <2>2. 1 \in 0..FTCap /\ 0 \in 0..(4 * MaxCli)
    BY <1>0
  <2>3. InitForced(f, g) \in FileType
    BY <1>1, <1>8, <2>1, <2>2 DEF InitForced, FileType
  <2>4. /\ InitForced(f, g).hits = 0 /\ InitForced(f, g).cur = g /\ InitForced(f, g).by = "hand"
    BY <1>1 DEF InitForced, FileType
  <2> QED
    BY <1>2, <1>3, <1>8, <2>1, <2>3, <2>4
<1> QED
  BY <1>5, <1>6, <1>9, <1>10, <1>11

(* A sync to a gameweek that has opened leaves what the game says.         *)
LEMMA SyncIsFromGame ==
  ASSUME Game, NEW n \in Nat, NEW f, Copy(hist, n, f), NEW target \in 2..game.open
  PROVE  Copy(hist, n, Synced(f, target))
<1>0. MaxGW \in Nat \ {0} /\ MaxCli \in Nat /\ FTCap \in Nat \ {0}
  BY SeasonAssumption
<1>1. f \in FileType /\ f.hits <= 4 * n
  BY DEF Copy
<1>2. game.open \in 1..MaxGW /\ Len(hist) = game.open - 1 /\ hist \in Seq(PastType)
  BY DEF Game, GWs
<1>3. /\ target - 1 \in 1..Len(hist) /\ Len(hist) \in 1..MaxGW /\ target \in 2..(Len(hist) + 1)
      /\ target \in 1..(MaxGW + MaxCli) /\ target <= MaxGW + n /\ target \in Int
  BY <1>0, <1>2
<1>4. FreeTransfersEntering(target) = hist[target - 1].ft
  BY <1>2, <1>3, FreeTransfersReplayed DEF Game
<1>5. hist[target - 1] \in PastType
  BY <1>2, <1>3
<1>6. FreeTransfersEntering(target) \in 0..FTCap /\ PicksOf(target - 1) \in Squads
  BY <1>4, <1>5 DEF PastType, PicksOf
<1>7. Synced(f, target) \in FileType
  BY <1>1, <1>3, <1>6 DEF Synced, FileType
<1>8. /\ Synced(f, target).hits = f.hits /\ Synced(f, target).cur = target
      /\ Synced(f, target).squad = PicksOf(target - 1)
      /\ Synced(f, target).ft = FreeTransfersEntering(target)
  BY <1>1 DEF Synced, FileType
<1>9. FromGame(hist, Synced(f, target))
  BY <1>2, <1>3, <1>4, <1>8 DEF FromGame, PicksOf
<1> QED
  BY <1>1, <1>3, <1>7, <1>8, <1>9 DEF Copy

LEMMA RecordKeepsCopy ==
  ASSUME NEW h, NEW n \in Nat, NEW f, Copy(h, n, f), NEW g \in GWs
  PROVE  Copy(h, n, [f EXCEPT !.decided = @ \cup {g}])
<1> DEFINE r == [f EXCEPT !.decided = @ \cup {g}]
<1>1. f \in FileType
  BY DEF Copy
<1>2. f.decided \cup {g} \in SUBSET GWs
  BY <1>1 DEF FileType
<1>3. r \in FileType
  BY <1>1, <1>2 DEF FileType
<1>4. r.cur = f.cur /\ r.hits = f.hits /\ r.by = f.by /\ r.squad = f.squad /\ r.ft = f.ft
  BY <1>1 DEF FileType
<1> QED
  BY <1>3, <1>4 DEF Copy, FromGame

-----------------------------------------------------------------------------
(* The file and every copy of it, however the writers overlap: at most one *)
(* command more has been typed than the copy of the command line has seen. *)
Copies ==
    /\ left \in 0..MaxCli /\ Copy(hist, MaxCli - left, file)
    /\ held = [w \in Writers |-> held[w]]
    /\ \A w \in Writers : held[w] # Nothing => Copy(hist, MaxCli - left, held[w])
    /\ held["cli"] # Nothing => left < MaxCli /\ Copy(hist, MaxCli - left - 1, held["cli"])
    /\ bf.pc = "fetch" => 2 <= bf.gw

LEMMA SaveKeepsCopies ==
  ASSUME Copies, UNCHANGED <<hist, left>>, bf'.pc = "fetch" => 2 <= bf'.gw, NEW w \in Writers,
         held' = [held EXCEPT ![w] = Nothing], Copy(hist, MaxCli - left, file')
  PROVE  Copies'
<1>1. \A v \in Writers : held'[v] # Nothing => held'[v] = held[v]
  BY DEF Copies
<1>2. held' = [v \in Writers |-> held'[v]]
  BY DEF Copies
<1>3. Copy(hist', MaxCli - left', file')
  OBVIOUS
<1> QED
  BY <1>1, <1>2, <1>3 DEF Copies, Writers

LEMMA LoadKeepsCopies ==
  ASSUME Copies, UNCHANGED <<hist, left, file>>, bf'.pc = "fetch" => 2 <= bf'.gw,
         NEW w \in Writers \ {"cli"}, Load(w)
  PROVE  Copies'
<1>1. \A v \in Writers : held'[v] = IF v = w THEN file ELSE held[v]
  BY DEF Copies, Load
<1>2. held' = [v \in Writers |-> held'[v]]
  BY DEF Copies, Load
<1>3. Copy(hist', MaxCli - left', file')
  BY DEF Copies
<1> QED
  BY <1>1, <1>2, <1>3 DEF Copies, Writers

LEMMA CopiesUntouched ==
  ASSUME Copies, UNCHANGED <<hist, left, file, held>>, bf'.pc = "fetch" => 2 <= bf'.gw
  PROVE  Copies'
BY DEF Copies

LEMMA CliKeepsCopies == Game /\ Copies /\ CliStep => Copies'
<1> SUFFICES ASSUME Game, Copies, CliStep PROVE Copies'
  OBVIOUS
<1>1. hist' = hist /\ (bf'.pc = "fetch" => 2 <= bf'.gw)
  BY DEF CliStep, CliNext, CliLoad, CliSave, briefVars, Copies
<1>2. CASE CliLoad
  <2> DEFINE n == MaxCli - left
  <2>1. left > 0 /\ left' = left - 1 /\ UNCHANGED <<file, hist>> /\ held' = [held EXCEPT !["cli"] = file]
    BY <1>2 DEF CliLoad, Load
  <2>2. MaxCli \in Nat /\ left \in 1..MaxCli /\ left' \in 0..MaxCli
        /\ n \in Nat /\ MaxCli - left' = n + 1 /\ MaxCli - left' - 1 = n /\ left' < MaxCli
    BY <2>1, SeasonAssumption DEF Copies
  <2>3. \A f : Copy(hist, n, f) => Copy(hist, n + 1, f)
    <3> SUFFICES ASSUME NEW f, Copy(hist, n, f) PROVE Copy(hist, n + 1, f)
      OBVIOUS
    <3>1. f.cur \in Nat /\ f.hits \in Nat
      BY SeasonAssumption DEF Copy, FileType
    <3>2. f.cur <= MaxGW + (n + 1) /\ f.hits <= 4 * (n + 1)
      BY <2>2, <3>1, SeasonAssumption DEF Copy
    <3> QED
      BY <3>2 DEF Copy
  <2>4. \A v \in Writers : held'[v] = IF v = "cli" THEN file ELSE held[v]
    BY <2>1 DEF Copies
  <2>5. held' = [v \in Writers |-> held'[v]]
    BY <2>1 DEF Copies
  <2>6. Copy(hist, n, file) /\ \A v \in Writers : held[v] # Nothing => Copy(hist, n, held[v])
    BY DEF Copies
  <2> HIDE DEF n
  <2>7. Copy(hist', MaxCli - left', file')
    BY <2>1, <2>2, <2>3, <2>6
  <2>8. \A v \in Writers : held'[v] # Nothing => Copy(hist', MaxCli - left', held'[v])
    BY <2>1, <2>2, <2>3, <2>4, <2>6
  <2>9. Copy(hist', MaxCli - left' - 1, held'["cli"])
    BY <2>1, <2>2, <2>4, <2>6 DEF Writers
  <2> QED
    BY <1>1, <2>2, <2>5, <2>7, <2>8, <2>9 DEF Copies
<1>3. CASE CliSave
  <2> DEFINE f == held["cli"]
             n == MaxCli - left - 1
  <2>1. f # Nothing /\ left < MaxCli /\ UNCHANGED <<left, hist>>
    BY <1>3 DEF CliSave, Copies
  <2>2. n \in Nat /\ n < MaxCli /\ n + 1 = MaxCli - left
    BY <2>1, SeasonAssumption DEF Copies
  <2>3. Copy(hist, n, f) /\ Copy(hist, n + 1, file)
    BY <2>1, <2>2 DEF Copies
  <2>4. \/ \E out \in f.squad, in \in Players \ f.squad, free \in BOOLEAN :
             Save("cli", Transfer(f, out, in, free))
        \/ Save("cli", PlayChip(f)) \/ Save("cli", AdvanceGw(f))
        \/ \E g \in DOMAIN hist : Save("cli", PullSquad(f, g))
        \/ \E g \in {f.cur, game.open} : Save("cli", SetSquad(f, entry.squad, g))
        \/ \E g \in {1, Most(game.open - 1, 1)} : Save("cli", InitForced(f, g))
        \/ \E target \in 2..game.open : Save("cli", Synced(f, target))
        \/ Drop("cli")
    BY <1>3 DEF CliSave, HandSync
  <2>5. held' = [held EXCEPT !["cli"] = Nothing]
    BY <2>4 DEF Save, Drop
  <2> HIDE DEF f, n
  <2>6. Copy(hist, n + 1, file')
    <3>1. CASE Drop("cli")
      BY <2>3, <3>1 DEF Drop
    <3>2. ASSUME NEW out \in f.squad, NEW in \in Players \ f.squad, NEW free \in BOOLEAN,
                 Save("cli", Transfer(f, out, in, free))
          PROVE  Copy(hist, n + 1, file')
      BY <2>2, <2>3, <3>2, TransferKeepsCopy DEF Save
    <3>3. CASE Save("cli", PlayChip(f)) \/ Save("cli", AdvanceGw(f))
      BY <2>2, <2>3, <3>3, CommandsKeepCopy DEF Save
    <3>4. ASSUME NEW g \in DOMAIN hist, Save("cli", PullSquad(f, g)) PROVE Copy(hist, n + 1, file')
      BY <2>2, <2>3, <3>4, CommandsKeepCopy DEF Save
    <3>5. ASSUME NEW g \in {1, Most(game.open - 1, 1)}, Save("cli", InitForced(f, g))
          PROVE  Copy(hist, n + 1, file')
      BY <2>2, <2>3, <3>5, CommandsKeepCopy DEF Save
    <3>6. ASSUME NEW target \in 2..game.open, Save("cli", Synced(f, target))
          PROVE  Copy(hist, n + 1, file')
      <4>1. Copy(hist, n, Synced(f, target))
        BY <2>2, <2>3, SyncIsFromGame
      <4>2. Synced(f, target).cur \in Nat /\ Synced(f, target).hits \in Nat
        BY <4>1, SeasonAssumption DEF Copy, FileType
      <4> DEFINE r == Synced(f, target)
      <4> HIDE DEF r
      <4>3. r.cur <= MaxGW + (n + 1) /\ r.hits <= 4 * (n + 1)
        BY <2>2, <4>1, <4>2, SeasonAssumption DEF Copy, r
      <4> QED
        BY <3>6, <4>1, <4>3 DEF Save, Copy, r
    <3>7. ASSUME NEW g \in {f.cur, game.open}, Save("cli", SetSquad(f, entry.squad, g))
          PROVE  Copy(hist, n + 1, file')
      BY <2>2, <2>3, <3>7, CommandsKeepCopy DEF Save
    <3> QED
      BY <2>4, <3>1, <3>2, <3>3, <3>4, <3>5, <3>6, <3>7
  <2>7. Copy(hist, MaxCli - left, file')
    BY <2>2, <2>6
  <2> QED
    BY <1>1, <2>1, <2>5, <2>7, SaveKeepsCopies DEF Writers
<1> QED
  BY <1>2, <1>3 DEF CliStep, CliNext

LEMMA GameKeepsCopies == Game /\ Copies /\ GameStep => Copies'
<1> SUFFICES ASSUME Game, Copies, GameStep PROVE Copies'
  OBVIOUS
<1>1. UNCHANGED <<file, held, left, bf>>
  BY DEF GameStep, GameNext, AppTransfer, AppFreeHit, Deadline, Settle, briefVars
<1>2. CASE hist' = hist
  BY <1>1, <1>2, CopiesUntouched DEF Copies
<1>3. CASE hist' # hist
  <2> DEFINE x == [picks |-> IF entry.chip = "freehit" THEN entry.fh ELSE entry.squad,
                   used |-> entry.used, chip |-> entry.chip, ft |-> FTAfter(entry, game.open)]
  <2>1. hist' = Append(hist, x)
    BY <1>3 DEF GameStep, GameNext, AppTransfer, AppFreeHit, Deadline, Settle
  <2>2. x \in PastType
    <3>1. entry \in EntryType /\ FTCap \in Nat \ {0}
      BY SeasonAssumption DEF Game
    <3>2. entry.ft \in 0..FTCap /\ entry.used \in 0..MaxMoves
      BY <3>1 DEF EntryType
    <3>3. FTAfter(entry, game.open) \in 0..FTCap
      BY <3>1, <3>2, SeasonAssumption DEF FTAfter, Least, Most
    <3> QED
      BY <3>1, <3>3 DEF EntryType, PastType
  <2> HIDE DEF x
  <2>3. MaxCli - left \in Nat /\ (left < MaxCli => MaxCli - left - 1 \in Nat) /\ hist \in Seq(PastType)
    BY SeasonAssumption DEF Copies, Game
  <2>4. \A n \in Nat : \A f : Copy(hist, n, f) => Copy(hist', n, f)
    BY <2>1, <2>2, <2>3, CopyStays
  <2> QED
    BY <1>1, <2>3, <2>4 DEF Copies
<1> QED
  BY <1>2, <1>3

LEMMA BriefKeepsCopies ==
  ASSUME World, Wakes, Game, Copies, BriefNext
  PROVE  Copies'
<1>0. game.open \in GWs /\ hist' = hist /\ left' = left
  BY DEF BriefNext, DraftSync, DraftSynced, Draft, ActLoad, ActSave, BriefFails, seasonVars, Game
<1>1. Copy(hist, MaxCli - left, file) /\ MaxCli - left \in Nat
  BY SeasonAssumption DEF Copies
<1>2. CASE DraftSync
  <2>1. UNCHANGED <<hist, left, file>>
    BY <1>2 DEF DraftSync
  <2>2. CASE bf'.pc = "draft" /\ UNCHANGED held
    BY <2>1, <2>2, CopiesUntouched
  <2>3. CASE SyncLoad("brief", game.open) /\ bf' = [pc |-> "fetch", gw |-> game.open]
    <3>1. file.cur \in Nat \ {0} /\ ~(file.cur >= game.open) /\ game.open \in Nat
      BY <1>1, <2>3, SeasonAssumption DEF SyncLoad, UpToDate, Copy, FileType, Game, GWs
    <3>2. 2 <= bf'.gw
      BY <2>3, <3>1
    <3> QED
      BY <2>1, <2>3, <3>2, LoadKeepsCopies DEF SyncLoad, Writers
  <2> QED
    BY <1>2, <2>2, <2>3 DEF DraftSync
<1>3. CASE DraftSynced
  <2>1. bf.pc = "fetch" /\ bf'.pc # "fetch"
    BY <1>3 DEF DraftSynced, Wakes
  <2>2. bf.gw = game.open /\ 2 <= bf.gw
    BY <2>1 DEF Wakes, Quiet, Copies
  <2>3. CASE SyncSave("brief", bf.gw)
    <3>1. bf.gw \in 2..game.open
      BY <1>0, <2>2 DEF GWs
    <3>2. Copy(hist, MaxCli - left, held["brief"])
      BY <2>3 DEF SyncSave, Copies, Writers
    <3>3. Copy(hist, MaxCli - left, file')
      BY <1>1, <2>3, <3>1, <3>2, SyncIsFromGame DEF SyncSave, Save
    <3> QED
      BY <1>0, <2>1, <2>3, <3>3, SaveKeepsCopies DEF SyncSave, Save, Writers
  <2>4. CASE SyncFail("brief")
    BY <1>0, <1>1, <2>1, <2>4, SaveKeepsCopies DEF SyncFail, Drop, Writers
  <2> QED
    BY <1>3, <2>3, <2>4 DEF DraftSynced
<1>4. CASE Draft
  <2>1. UNCHANGED <<file, held>> /\ bf'.pc # "fetch"
    BY <1>4 DEF Draft, seasonVars, Quiet
  <2> QED
    BY <1>0, <2>1, CopiesUntouched
<1>5. CASE ActLoad
  BY <1>0, <1>5, LoadKeepsCopies DEF ActLoad, Writers
<1>6. CASE ActSave
  <2>1. bf'.pc # "fetch" /\ bf.gw = game.open /\ Record("brief", bf.gw)
    BY <1>6 DEF ActSave, Quiet, Wakes
  <2>2. Copy(hist, MaxCli - left, held["brief"])
    BY <2>1 DEF Record, Copies, Writers
  <2>3. Copy(hist, MaxCli - left, file')
    BY <1>0, <1>1, <2>1, <2>2, RecordKeepsCopy DEF Record, Save
  <2> QED
    BY <1>0, <2>1, <2>3, SaveKeepsCopies DEF Record, Save, Writers
<1>7. CASE BriefFails
  BY <1>0, <1>1, <1>7, SaveKeepsCopies DEF BriefFails, Quiet, Writers
<1> QED
  BY <1>2, <1>3, <1>4, <1>5, <1>6, <1>7 DEF BriefNext

LEMMA ReviewKeepsCopies ==
  ASSUME World, Wakes, Game, Copies, ReviewNext
  PROVE  Copies'
<1>0. hist' = hist /\ left' = left /\ (bf'.pc = "fetch" => 2 <= bf'.gw)
  BY DEF ReviewNext, ReviewWake, ReviewSync, ReviewSynced, ReviewReply, ReviewNotes, ReviewSend,
         ReviewMark, ReviewFails, seasonVars, briefVars, Copies
<1>1. Copy(hist, MaxCli - left, file) /\ MaxCli - left \in Nat
  BY SeasonAssumption DEF Copies
<1>2. CASE ReviewSync
  <2>1. file' = file /\ (held' = held \/ Load("review"))
    BY <1>2 DEF ReviewSync, SyncLoad
  <2> QED
    BY <1>0, <2>1, CopiesUntouched, LoadKeepsCopies DEF Writers
<1>3. CASE ReviewSynced
  <2>1. rv.pc = "fetch"
    BY <1>3 DEF ReviewSynced
  <2>2. rv.gw + 1 \in 2..game.open
    BY <2>1 DEF Wakes, World
  <2>3. CASE SyncSave("review", rv.gw + 1)
    <3>1. Copy(hist, MaxCli - left, held["review"])
      BY <2>3 DEF SyncSave, Copies, Writers
    <3>2. Copy(hist, MaxCli - left, file')
      BY <1>1, <2>2, <2>3, <3>1, SyncIsFromGame DEF SyncSave, Save
    <3> QED
      BY <1>0, <2>3, <3>2, SaveKeepsCopies DEF SyncSave, Save, Writers
  <2>4. CASE SyncFail("review")
    BY <1>0, <1>1, <2>4, SaveKeepsCopies DEF SyncFail, Drop, Writers
  <2> QED
    BY <1>3, <2>3, <2>4 DEF ReviewSynced
<1>4. CASE ReviewFails
  BY <1>0, <1>1, <1>4, SaveKeepsCopies DEF ReviewFails, Writers
<1>5. CASE ~ReviewSync /\ ~ReviewSynced /\ ~ReviewFails
  <2>1. UNCHANGED <<file, held>>
    BY <1>5 DEF ReviewNext, ReviewWake, ReviewReply, ReviewNotes, ReviewSend, ReviewMark, seasonVars
  <2> QED
    BY <1>0, <2>1, CopiesUntouched
<1> QED
  BY <1>2, <1>3, <1>4, <1>5

LEMMA CopiesKept == World /\ Wakes /\ Game /\ Copies /\ [Next]_vars => Copies'
<1> SUFFICES ASSUME World, Wakes, Game, Copies, [Next]_vars PROVE Copies'
  OBVIOUS
<1>1. CASE ChatReads \/ ChatNotes \/ UNCHANGED vars
  <2>1. UNCHANGED <<hist, left, file, held, bf>>
    BY <1>1 DEF ChatReads, ChatNotes, vars, seasonVars, briefVars
  <2> QED
    BY <2>1, CopiesUntouched DEF Copies
<1> QED
  BY <1>1, GameKeepsCopies, CliKeepsCopies, BriefKeepsCopies, ReviewKeepsCopies DEF Next

LEMMA InitCopies == Init => Game /\ Copies
<1> SUFFICES ASSUME Init PROVE Game /\ Copies
  OBVIOUS
<1> DEFINE s == CHOOSE s \in Squads : TRUE
<1>0. MaxGW \in Nat \ {0} /\ FTCap \in Nat \ {0} /\ MaxMoves \in Nat /\ MaxCli \in Nat
  BY SeasonAssumption
<1>1. s \in Squads
  BY SomeSquad DEF Squads
<1>2. /\ game = [open |-> 1, settled |-> 0]
      /\ entry = [squad |-> s, start |-> s, fh |-> s, chip |-> "none", used |-> 0, ft |-> 0,
                  moves |-> 0]
      /\ file = [cur |-> 1, ft |-> 1, squad |-> s, active |-> "none", first |-> "available",
                 second |-> "from_GW20", hits |-> 0, decided |-> {}, by |-> "hand"]
      /\ hist = <<>> /\ held = [w \in Writers |-> Nothing] /\ left = MaxCli /\ bf = Quiet
  BY DEF Init, SeasonInit
<1> HIDE DEF s
<1>3. Game
  <2>1. game \in [open : GWs, settled : 0..MaxGW] /\ game.settled < game.open /\ game.open = 1
    BY <1>0, <1>2 DEF GWs
  <2>2. entry \in EntryType /\ entry.used <= entry.moves
    BY <1>0, <1>1, <1>2 DEF EntryType
  <2>3. hist \in Seq(PastType) /\ Len(hist) = 0
    BY <1>2
  <2>4. Chain(hist)
    BY <2>3 DEF Chain
  <2> QED
    BY <2>1, <2>2, <2>3, <2>4 DEF Game
<1>4. Copies
  <2>1. MaxCli - left = 0 /\ left \in 0..MaxCli
    BY <1>0, <1>2
  <2>2. file \in FileType
    <3>1. 1 \in 1..(MaxGW + MaxCli) /\ 1 \in 0..FTCap /\ 0 \in 0..(4 * MaxCli)
      BY <1>0
    <3> QED
      BY <1>1, <1>2, <3>1 DEF FileType
  <2>3. file.cur <= MaxGW + 0 /\ file.hits <= 4 * 0 /\ file.by = "hand"
    BY <1>0, <1>2
  <2>4. Copy(hist, 0, file)
    BY <2>2, <2>3 DEF Copy, FromGame
  <2>5. \A w \in Writers : held[w] = Nothing
    BY <1>2
  <2> QED
    BY <1>2, <2>1, <2>4, <2>5 DEF Copies, Writers, Quiet
<1> QED
  BY <1>3, <1>4

LEMMA SeasonKept == Spec => [](World /\ Wakes /\ Game /\ Copies)
<1>1. Init => World /\ Wakes /\ Game /\ Copies
  BY InitSeason, InitCopies
<1>2. World /\ Wakes /\ Game /\ Copies /\ [Next]_vars => (World /\ Wakes /\ Game /\ Copies)'
  BY WorldStep, WakesStep, GameKept, CopiesKept
<1> QED
  BY <1>1, <1>2, PTL DEF Spec

(* The game's records of the free transfers are not public: whatever was   *)
(* done in the app, free hits included, the count replayed from the public *)
(* history for any gameweek that has opened is the one the game gave.      *)
ReplayIsRight ==
    \A target \in 2..game.open : FreeTransfersEntering(target) = hist[target - 1].ft

THEOREM ReplayAgrees == Spec => []ReplayIsRight
<1>1. Game => ReplayIsRight
  <2> SUFFICES ASSUME Game, NEW target \in 2..game.open
               PROVE  FreeTransfersEntering(target) = hist[target - 1].ft
    BY DEF ReplayIsRight
  <2>1. hist \in Seq(PastType) /\ Chain(hist) /\ Len(hist) = game.open - 1 /\ game.open \in GWs
    BY DEF Game
  <2>2. Len(hist) \in 1..MaxGW /\ target \in 2..(Len(hist) + 1)
    BY <2>1, SeasonAssumption DEF GWs
  <2> QED
    BY <2>1, <2>2, FreeTransfersReplayed
<1> QED
  BY <1>1, SeasonKept, PTL

(* A file whose squad and free transfers were last written by a sync holds *)
(* the squad fielded in the gameweek before the current one and the free   *)
(* transfers the game gave after it, although every writer puts back a     *)
(* whole copy read before others wrote, with turns or without: the history *)
(* a sync replays never changes, and each writer's copy was true, or typed *)
(* by hand, when it was read.                                              *)
THEOREM SyncedStaysTrue == Spec => []SyncedIsTrue
<1>1. Copies => SyncedIsTrue
  BY DEF Copies, Copy, FromGame, SyncedIsTrue
<1> QED
  BY <1>1, SeasonKept, PTL

LEMMA SeasonTyped == Game /\ Copies /\ serial \in BOOLEAN => SeasonTypeOK
<1> SUFFICES ASSUME Game, Copies, serial \in BOOLEAN PROVE SeasonTypeOK
  OBVIOUS
<1>1. \A g \in DOMAIN hist : hist[g] \in PastType
  BY DEF Game
<1>2. file \in FileType /\ \A w \in Writers : held[w] = Nothing \/ held[w] \in FileType
  BY DEF Copies, Copy
<1> QED
  BY <1>1, <1>2 DEF SeasonTypeOK, Game, Copies, PastType
=============================================================================
