-------------------------------- MODULE Season --------------------------------
(***************************************************************************)
(* season-state.json and everything that writes it.                        *)
(*                                                                         *)
(* The file is the daemon's only idea of "my season".  Four programs write *)
(* it, each by reading the whole file, changing its copy and replacing the *)
(* file by the copy (season_state.save_state, plan._atomic_write_json):    *)
(* the command line (transfer, chip, advance-gw, pull-squad, set-squad, sync),   *)
(* the sync of the review wake, the sync of the draft wake, and the act,   *)
(* which records the decision.  No lock is taken.  held[w] is the copy     *)
(* that writer w has read and not yet written back; while a sync holds it  *)
(* three requests to the public FPL endpoints are made.                    *)
(*                                                                         *)
(* The other side is the real entry in the FPL game: its squad, the        *)
(* transfers made for the open gameweek, and for each gameweek gone the    *)
(* public history and picks.  The code only reads it.                      *)
(***************************************************************************)
EXTENDS Integers, FiniteSets, Sequences

CONSTANTS
    Players,    \* the players of the game
    SquadSize,  \* players in a squad (15)
    MaxGW,      \* bound: the last gameweek that opens
    HalfGW,     \* FIRST_HALF_LAST_GW, the last one of the first chip set (19)
    FTCap,      \* FT_CAP, most free transfers that can be saved (5)
    MaxMoves,   \* bound: transfers and free hits made in the app
    MaxCli,     \* bound: commands typed by hand
    Schedules   \* what is assumed of the writers: TRUE when no two overlap

VARIABLES
    game,    \* [open, settled]: the gameweek taking transfers, the last one settled
    entry,   \* the real team, see EntryType
    hist,    \* hist[g]: what the endpoints serve of gameweek g once its deadline is gone
             \* (and, for the properties, the free transfers the game gave after it)
    file,    \* season-state.json, see FileType
    held,    \* held[w]: the copy of the file writer w works on, or Nothing
    left,    \* commands still to be typed
    serial   \* whether two writers never overlap, chosen once from Schedules

seasonVars == <<game, entry, hist, file, held, left, serial>>

ASSUME SeasonAssumption ==
    /\ IsFiniteSet(Players)
    /\ SquadSize \in 1..Cardinality(Players)
    /\ MaxGW \in Nat \ {0} /\ HalfGW \in Nat \ {0}
    /\ Schedules \subseteq BOOLEAN
    /\ FTCap \in Nat \ {0} /\ MaxMoves \in Nat /\ MaxCli \in Nat

Writers == {"cli", "review", "brief"}
Nothing == [cur |-> 0]
Squads == {s \in SUBSET Players : Cardinality(s) = SquadSize}
GWs == 1..MaxGW
Least(a, b) == IF a < b THEN a ELSE b
Most(a, b) == IF a > b THEN a ELSE b

\* `start` is a history field: the squad the open gameweek began with.
EntryType == [squad : Squads, start : Squads, fh : Squads, chip : {"none", "freehit"},
              used : 0..MaxMoves, ft : 0..FTCap, moves : 0..MaxMoves]

\* `by` is a history field: whether a sync or a hand wrote the squad and the
\* free transfers that the file holds.
FileType == [cur : 1..(MaxGW + MaxCli), ft : 0..FTCap, squad : Squads \cup {{}},
             active : {"none", "free_hit"}, first : {"available", "used"},
             second : {"from_GW20", "available", "used"},
             hits : 0..(4 * MaxCli), decided : SUBSET GWs, by : {"sync", "hand"}]

-----------------------------------------------------------------------------
(* What the endpoints promise: GW1 is free of charge, one free transfer     *)
(* after it, one more a gameweek up to the cap, frozen by a free hit.       *)

FTAfter(e, g) == IF g = 1 THEN 1
                 ELSE IF e.chip = "freehit" THEN e.ft
                 ELSE Least(FTCap, Most(e.ft - e.used, 0) + 1)

\* A transfer in the app, for the gameweek that is open.
AppTransfer ==
    /\ entry.moves < MaxMoves /\ entry.chip = "none"
    /\ \E out \in entry.squad, in \in Players \ entry.squad :
         entry' = [entry EXCEPT !.squad = (@ \ {out}) \cup {in},
                                !.used = @ + 1, !.moves = @ + 1]
    /\ UNCHANGED <<game, hist, file, held, left, serial>>

\* The free hit: another fifteen for one gameweek, the squad comes back after it.
AppFreeHit ==
    /\ entry.moves < MaxMoves /\ entry.used = 0 /\ game.open > 1
    /\ entry.chip = "none" /\ \A g \in DOMAIN hist : hist[g].chip = "none"
    /\ \E s \in Squads \ {entry.squad} : entry' = [entry EXCEPT !.fh = s, !.chip = "freehit", !.moves = @ + 1]
    /\ UNCHANGED <<game, hist, file, held, left, serial>>

\* A deadline goes by: the picks become public, the next gameweek opens.
Deadline ==
    /\ game.open < MaxGW
    /\ game' = [game EXCEPT !.open = @ + 1]
    /\ hist' = Append(hist, [picks |-> IF entry.chip = "freehit" THEN entry.fh ELSE entry.squad,
                             used |-> entry.used, chip |-> entry.chip,
                             ft |-> FTAfter(entry, game.open)])
    /\ entry' = [entry EXCEPT !.used = 0, !.chip = "none", !.fh = entry.squad,
                              !.start = entry.squad, !.ft = FTAfter(entry, game.open)]
    /\ UNCHANGED <<file, held, left, serial>>

\* A gameweek is finished and data_checked.
Settle ==
    /\ game.settled < game.open - 1
    /\ game' = [game EXCEPT !.settled = @ + 1]
    /\ UNCHANGED <<entry, hist, file, held, left, serial>>

-----------------------------------------------------------------------------
(* Reading and writing back the whole file.                                 *)

Load(w) == /\ held[w] = Nothing
           /\ serial => \A v \in Writers : held[v] = Nothing
           /\ held' = [held EXCEPT ![w] = file]

Save(w, f) == /\ file' = f
              /\ held' = [held EXCEPT ![w] = Nothing]

Drop(w) == held' = [held EXCEPT ![w] = Nothing] /\ UNCHANGED file

-----------------------------------------------------------------------------
(* The commands.  Each takes the copy read and gives the copy to write.     *)

Transfer(f, out, in, free) ==
    LET spend == ~free /\ f.active # "free_hit"
    IN [f EXCEPT !.squad = (@ \ {out}) \cup {in}, !.by = "hand",
                 !.ft = IF spend /\ @ >= 1 THEN @ - 1 ELSE @,
                 !.hits = IF spend /\ f.ft < 1 THEN @ + 4 ELSE @]

\* play_chip: refused when used in this half, or when the label still says GW20.
CanPlay(f) == IF f.cur <= HalfGW THEN f.first # "used"
              ELSE f.second # "used" /\ ~(f.second = "from_GW20" /\ f.cur < HalfGW + 1)

PlayChip(f) == IF f.cur <= HalfGW THEN [f EXCEPT !.first = "used", !.active = "free_hit"]
                                  ELSE [f EXCEPT !.second = "used", !.active = "free_hit"]

\* Faulty: the roll without the cap.
AdvanceGwUncapped(f) == [f EXCEPT !.cur = @ + 1, !.ft = @ + 1, !.active = "none", !.by = "hand"]

\* advance_gw: the second set is unlocked only on the very step into GW20.
AdvanceGw(f) ==
    [f EXCEPT !.cur = @ + 1, !.ft = Least(FTCap, @ + 1), !.active = "none", !.by = "hand",
              !.second = IF f.cur + 1 = HalfGW + 1 /\ @ = "from_GW20" THEN "available" ELSE @]

\* build_squad_decision: the fifteen of a picks payload.
PicksOf(g) == hist[g].picks

\* pull-squad --gw g: the picks of g, and current_gw becomes g.
PullSquad(f, g) == [f EXCEPT !.squad = PicksOf(g), !.cur = g, !.by = "hand"]

\* init --force: the squad, the free transfers, the hits and the active chip
\* start over; the chips and the decisions stay.
InitForced(f, g) == [f EXCEPT !.cur = g, !.ft = 1, !.squad = {}, !.hits = 0,
                              !.active = "none", !.by = "hand"]

\* set-squad: a decision that carries a gameweek sets current_gw too.
SetSquad(f, s, g) == [f EXCEPT !.squad = s, !.cur = g, !.by = "hand"]

-----------------------------------------------------------------------------
(* SeasonSync.ensure(target), in two steps: the state is read and found     *)
(* behind; the fetches are made and the whole copy is written back.         *)

\* Faulty: the replay goes one gameweek too far.
FreeTransfersTooFar(target) ==
    LET ft[g \in 1..MaxGW] ==
          IF g = 1 THEN 1
          ELSE Least(FTCap, Most(ft[g - 1] - (IF g \in DOMAIN hist THEN hist[g].used ELSE 0), 0) + 1)
    IN ft[target]

\* free_transfers_entering: the count replayed from the public history.
FreeTransfersEntering(target) ==
    LET ft[g \in 1..MaxGW] ==
          IF g = 1 THEN 1
          ELSE IF g \in DOMAIN hist /\ hist[g].chip = "freehit" THEN Least(FTCap, ft[g - 1])
          ELSE LET used == IF g \in DOMAIN hist THEN hist[g].used ELSE 0
               IN Least(FTCap, Most(ft[g - 1] - used, 0) + 1)
    IN ft[Most(target - 1, 1)]

\* Faulty: the gameweek that settled is taken for current.
UpToDateAtSettled(target) == file.cur >= target - 1

UpToDate(target) == file.cur >= target

\* Faulty: a fresh state is built instead of the copy's.
SyncedAfresh(f, target) ==
    [f EXCEPT !.squad = PicksOf(target - 1), !.cur = target, !.by = "sync",
              !.ft = FreeTransfersEntering(target), !.active = "none", !.decided = {}]

Synced(f, target) ==
    [f EXCEPT !.squad = PicksOf(target - 1), !.cur = target,
              !.ft = FreeTransfersEntering(target), !.active = "none", !.by = "sync"]

SyncLoad(w, target) == ~UpToDate(target) /\ Load(w)
SyncSave(w, target) == held[w] # Nothing /\ Save(w, Synced(held[w], target))
SyncFail(w) == held[w] # Nothing /\ Drop(w)

\* record_decision: everything else in the copy is written back as it was read.
Record(w, g) == held[w] # Nothing /\ Save(w, [held[w] EXCEPT !.decided = @ \cup {g}])

-----------------------------------------------------------------------------
(* A command: read, then written back; `daemon sync` by hand is one of them. *)

\* `daemon sync`, to the next deadline or to --gw: the endpoints have no
\* picks of a gameweek still to come.
HandSync(f, target) == f.cur < target /\ Save("cli", Synced(f, target))

CliLoad ==
    /\ left > 0 /\ Load("cli")
    /\ left' = left - 1
    /\ UNCHANGED <<game, entry, hist, file, serial>>

\* What the command makes of its copy; a ValueError or a failed request
\* writes nothing.
CliSave ==
    /\ held["cli"] # Nothing
    /\ LET f == held["cli"] IN
       \/ \E out \in f.squad, in \in Players \ f.squad, free \in BOOLEAN :
            Save("cli", Transfer(f, out, in, free))
       \/ CanPlay(f) /\ Save("cli", PlayChip(f))
       \/ Save("cli", AdvanceGw(f))
       \/ \E g \in DOMAIN hist : Save("cli", PullSquad(f, g))
       \/ \E g \in {f.cur, game.open} : Save("cli", SetSquad(f, entry.squad, g))
       \/ \E g \in {1, Most(game.open - 1, 1)} : Save("cli", InitForced(f, g))
       \/ \E target \in 2..game.open : HandSync(f, target)
       \/ Drop("cli")
    /\ UNCHANGED <<game, entry, hist, left, serial>>

-----------------------------------------------------------------------------
\* init_state, then the set-squad of the initial build.
SeasonInit ==
    /\ game = [open |-> 1, settled |-> 0]
    /\ LET s == CHOOSE s \in Squads : TRUE IN
         /\ entry = [squad |-> s, start |-> s, fh |-> s, chip |-> "none", used |-> 0, ft |-> 0, moves |-> 0]
         /\ file = [cur |-> 1, ft |-> 1, squad |-> s, active |-> "none", first |-> "available",
                    second |-> "from_GW20", hits |-> 0, decided |-> {}, by |-> "hand"]
    /\ hist = <<>>
    /\ held = [w \in Writers |-> Nothing]
    /\ left = MaxCli
    /\ serial \in Schedules

GameNext == AppTransfer \/ AppFreeHit \/ Deadline \/ Settle
CliNext == CliLoad \/ CliSave

SeasonTypeOK ==
    /\ game \in [open : GWs, settled : 0..MaxGW] /\ game.settled < game.open
    /\ entry \in EntryType
    /\ Len(hist) = game.open - 1
    /\ \A g \in DOMAIN hist :
         hist[g] \in [picks : Squads, used : 0..MaxMoves, chip : {"none", "freehit"}, ft : 0..FTCap]
    /\ file \in FileType
    /\ \A w \in Writers : held[w] = Nothing \/ held[w] \in FileType
    /\ left \in 0..MaxCli /\ serial \in BOOLEAN

=============================================================================
