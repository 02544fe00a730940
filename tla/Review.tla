-------------------------------- MODULE Review --------------------------------
(***************************************************************************)
(* The post-gameweek review wake (review.run_review) with the parts it     *)
(* works on: the season file it syncs, the learnings diary, which chat     *)
(* writes as well, and review-state.json; next to it the draft and the act *)
(* of the brief wake, as far as they touch the season file.  What the      *)
(* review does with a role proposal is in Workshop.                        *)
(*                                                                         *)
(* A review is one run of a oneshot unit, started by a timer until the     *)
(* gameweek is marked: any step of it may fail, the process may be killed  *)
(* at any step, and the next tick starts the same gameweek again.          *)
(***************************************************************************)
EXTENDS Season, SequencesExt

CONSTANTS
    Chats,        \* the allowlisted chats, a set of naturals: sorted(allowlist)
    Replies,      \* the learnings blocks the model may write: sequences of items
    Bad,          \* an item that vet refuses for itself (link, no evidence, too long...)
    MaxPerReply,  \* MAX_PER_REPLY, items kept of one reply (4)
    Briefed       \* bound: the gameweeks whose brief wakes are followed

VARIABLES
    last,      \* review-state.json: last_reviewed_gw, 0 for none
    rv,        \* the review wake: where it is, its gameweek (kept between two tries),
               \* the chats still to serve
    bf,        \* the brief wake: where it is, its gameweek
    diary,     \* agent/memory/learnings.md: the lessons, in file order
    pen,       \* pen[w]: what w has found to be new and not yet written to the diary
    drafted,   \* the last gameweek a draft was sent for
    acted,     \* the gameweeks whose act wake is done
    got,       \* history: the chats that have had the review being worked on
    adhoc,     \* history: a gameweek with a recorded decision was graded without
    stale      \* history: the unwarned drafts written from another squad than the
               \* gameweek began with, after a free hit or otherwise

reviewVars == <<last, rv, diary, pen, got, adhoc>>
briefVars == <<bf, drafted, acted, stale>>
vars == <<seasonVars, reviewVars, briefVars>>

ASSUME ReviewAssumption ==
    /\ Chats \subseteq Nat /\ IsFiniteSet(Chats)
    /\ \A r \in Replies : r \in Seq(Range(r))
    /\ MaxPerReply \in Nat

Idle(gw) == [pc |-> "idle", gw |-> gw, todo |-> {}]
Quiet == [pc |-> "idle", gw |-> 0]

Lessons == (UNION {Range(r) : r \in Replies}) \ {Bad}

-----------------------------------------------------------------------------
(* The learnings gate.                                                      *)

\* Both gates go through the items in order and keep each one that is neither
\* refused nor a repeat of one kept before it.
Sift(items, refused) ==
    LET kept[n \in 0..Len(items)] ==
          IF n = 0 THEN <<>>
          ELSE IF items[n] \in refused \cup Range(kept[n - 1]) THEN kept[n - 1]
          ELSE Append(kept[n - 1], items[n])
    IN kept[Len(items)]

\* vet: the items that are good and new in this reply, the first ones up to the cap.
Vet(items) ==
    LET good == Sift(items, {Bad}) IN SubSeq(good, 1, Least(MaxPerReply, Len(good)))

\* Faulty: the reply is deduped, the file is not looked at.
UnseenInReply(log, items) == Vet(items)

\* LearningsLog.entries.
Entries(log) == Range(log)

\* LearningsLog.append, what it reads: the lessons the file does not hold yet.
Unseen(log, items) == Sift(Vet(items), Entries(log))

\* Its write goes to the end of the file; one that fails is only logged.
Learned(log, lines) == {log, log \o lines}

-----------------------------------------------------------------------------
(* The review wake.                                                         *)

\* Faulty: straight to the newest.
NextReviewNewest(latest, done) == IF latest > done THEN latest ELSE 0

\* Faulty: the newest is put off until another settles.
NextReviewBehind(latest, done) ==
    IF done = 0 THEN latest ELSE IF done + 1 < latest THEN done + 1 ELSE 0

\* next_review_gw: the first one owed; with no history the newest settled.
NextReviewGw(latest, done) ==
    IF latest = 0 THEN 0
    ELSE IF done = 0 THEN latest
    ELSE IF done < latest THEN done + 1 ELSE 0

\* The events and the actuals came back, the season file is read for the
\* decision; any failure here leaves everything as it was.
ReviewWake ==
    /\ rv.pc = "idle" /\ (serial => pen["chat"] = <<>>)
    /\ LET gw == NextReviewGw(game.settled, last) IN
         /\ gw # 0
         /\ rv' = [pc |-> "sync", gw |-> gw, todo |-> Chats]
         /\ got' = IF rv.gw = gw THEN got ELSE {}
         /\ adhoc' = (adhoc \/ gw \in acted \ file.decided)
    /\ UNCHANGED <<seasonVars, briefVars, last, diary, pen>>

\* sync(gw + 1), from the settled gameweek's picks.
ReviewSync ==
    /\ rv.pc = "sync"
    /\ \/ UpToDate(rv.gw + 1) /\ rv' = [rv EXCEPT !.pc = "think"] /\ UNCHANGED held
       \/ SyncLoad("review", rv.gw + 1) /\ rv' = [rv EXCEPT !.pc = "fetch"]
    /\ UNCHANGED <<game, entry, hist, file, left, serial, briefVars>>
    /\ UNCHANGED <<last, diary, pen, got, adhoc>>

ReviewSynced ==
    /\ rv.pc = "fetch"
    /\ SyncSave("review", rv.gw + 1) \/ SyncFail("review")
    /\ rv' = [rv EXCEPT !.pc = "think"]
    /\ UNCHANGED <<game, entry, hist, left, serial, briefVars>>
    /\ UNCHANGED <<last, diary, pen, got, adhoc>>

\* The reply: its learnings go to the diary before anything is sent.
ReviewReply ==
    /\ rv.pc = "think"
    /\ \E items \in Replies : pen' = [pen EXCEPT !["review"] = Unseen(diary, items)]
    /\ rv' = [rv EXCEPT !.pc = "note"]
    /\ UNCHANGED <<seasonVars, briefVars, last, diary, got, adhoc>>

ReviewNotes ==
    /\ rv.pc = "note" /\ rv' = [rv EXCEPT !.pc = "send"]
    /\ diary' \in Learned(diary, pen["review"])
    /\ pen' = [pen EXCEPT !["review"] = <<>>]
    /\ UNCHANGED <<seasonVars, briefVars, last, got, adhoc>>

\* An answer in chat that may write the diary (record=): one with the
\* analysis playbook.
ChatReads ==
    /\ pen["chat"] = <<>> /\ (serial => rv.pc = "idle")
    /\ \E items \in Replies :
         /\ Unseen(diary, items) # <<>>
         /\ pen' = [pen EXCEPT !["chat"] = Unseen(diary, items)]
    /\ UNCHANGED <<seasonVars, briefVars, last, rv, diary, got, adhoc>>

ChatNotes ==
    /\ pen["chat"] # <<>> /\ pen' = [pen EXCEPT !["chat"] = <<>>]
    /\ diary' \in Learned(diary, pen["chat"])
    /\ UNCHANGED <<seasonVars, briefVars, last, rv, got, adhoc>>

\* One message per chat, in order; the first one that fails ends the wake.
ReviewSend(chat) ==
    /\ rv.pc = "send" /\ chat \in rv.todo /\ \A d \in rv.todo : chat <= d
    /\ rv' = [rv EXCEPT !.todo = @ \ {chat}]
    /\ got' = got \cup {chat}
    /\ UNCHANGED <<seasonVars, briefVars, last, diary, pen, adhoc>>

\* Faulty: a send that fails does not end the wake.
ReviewMarkUnsent ==
    /\ rv.pc = "send"
    /\ last' = rv.gw /\ rv' = Idle(0)
    /\ UNCHANGED <<seasonVars, briefVars, diary, pen, got, adhoc>>

ReviewMark ==
    /\ rv.pc = "send" /\ rv.todo = {}
    /\ last' = rv.gw /\ rv' = Idle(0)
    /\ UNCHANGED <<seasonVars, briefVars, diary, pen, got, adhoc>>

\* The model or a send fails, or the process is killed: nothing is marked.
ReviewFails ==
    /\ rv.pc # "idle"
    /\ rv' = Idle(rv.gw)
    /\ held' = [held EXCEPT !["review"] = Nothing]
    /\ pen' = [pen EXCEPT !["review"] = <<>>]
    /\ UNCHANGED <<game, entry, hist, file, left, serial, briefVars>>
    /\ UNCHANGED <<last, diary, got, adhoc>>

-----------------------------------------------------------------------------
(* The brief wake.                                                          *)

DraftSync ==
    /\ bf = Quiet /\ game.open \in Briefed /\ game.open # drafted
    /\ \/ UpToDate(game.open) /\ bf' = [pc |-> "draft", gw |-> game.open] /\ UNCHANGED held
       \/ SyncLoad("brief", game.open) /\ bf' = [pc |-> "fetch", gw |-> game.open]
    /\ UNCHANGED <<game, entry, hist, file, left, serial, reviewVars, drafted, acted, stale>>

\* A failed sync becomes a warning line on the draft.
DraftSynced ==
    /\ bf.pc = "fetch"
    /\ \/ SyncSave("brief", bf.gw) /\ bf' = [bf EXCEPT !.pc = "draft"]
       \/ SyncFail("brief") /\ bf' = [bf EXCEPT !.pc = "warned"]
    /\ UNCHANGED <<game, entry, hist, left, serial, reviewVars, drafted, acted, stale>>

Draft ==
    /\ bf.pc \in {"draft", "warned"}
    /\ drafted' = bf.gw
    /\ stale' = stale \cup
         (IF bf.pc = "warned" \/ file.squad = entry.start THEN {}
          ELSE IF bf.gw > 1 /\ hist[bf.gw - 1].chip = "freehit" THEN {"freehit"} ELSE {"other"})
    /\ bf' = Quiet
    /\ UNCHANGED <<seasonVars, reviewVars, acted>>

\* The act, thirty minutes before the deadline: record_decision.
ActLoad ==
    /\ bf = Quiet /\ game.open \in Briefed \ acted
    /\ Load("brief") /\ bf' = [pc |-> "act", gw |-> game.open]
    /\ UNCHANGED <<game, entry, hist, file, left, serial, reviewVars, drafted, acted, stale>>

ActSave ==
    /\ bf.pc = "act" /\ Record("brief", bf.gw)
    /\ acted' = acted \cup {bf.gw} /\ bf' = Quiet
    /\ UNCHANGED <<game, entry, hist, left, serial, reviewVars, drafted, stale>>

BriefFails ==
    /\ bf # Quiet /\ bf' = Quiet
    /\ held' = [held EXCEPT !["brief"] = Nothing]
    /\ UNCHANGED <<game, entry, hist, file, left, serial, reviewVars, drafted, acted, stale>>

\* The timings of the brief: the draft runs a day before the deadline and the
\* act half an hour before it, so neither is under way when the game moves on.
GameStep == GameNext /\ bf = Quiet /\ UNCHANGED <<reviewVars, briefVars>>
CliStep == CliNext /\ UNCHANGED <<reviewVars, briefVars>>
ReviewNext == \/ ReviewWake \/ ReviewSync \/ ReviewSynced \/ ReviewReply
              \/ ReviewNotes \/ (\E chat \in Chats : ReviewSend(chat)) \/ ReviewMark \/ ReviewFails
BriefNext == DraftSync \/ DraftSynced \/ Draft \/ ActLoad \/ ActSave \/ BriefFails

Init ==
    /\ SeasonInit
    /\ last = 0 /\ rv = Idle(0) /\ bf = Quiet /\ diary = <<>>
    /\ pen = [w \in {"review", "chat"} |-> <<>>]
    /\ drafted = 0 /\ acted = {} /\ got = {} /\ adhoc = FALSE /\ stale = {}

Next == GameStep \/ CliStep \/ ReviewNext \/ BriefNext \/ ChatReads \/ ChatNotes

\* The timer starts the wake again and again, and a wake that is never killed
\* or refused for ever gets through; nothing is promised of the rest.
Fairness ==
    /\ SF_vars(ReviewWake) /\ SF_vars(ReviewSync) /\ SF_vars(ReviewSynced)
    /\ SF_vars(ReviewReply) /\ SF_vars(ReviewNotes) /\ SF_vars(ReviewMark) /\ WF_vars(ChatNotes)
    /\ \A chat \in Chats : SF_vars(ReviewSend(chat))

Spec == Init /\ [][Next]_vars /\ Fairness

-----------------------------------------------------------------------------
(* Properties.                                                              *)

TypeOK ==
    /\ SeasonTypeOK
    /\ last \in 0..MaxGW
    /\ rv \in [pc : {"idle", "sync", "fetch", "think", "note", "send"}, gw : 0..MaxGW, todo : SUBSET Chats]
    /\ bf \in [pc : {"idle", "fetch", "draft", "warned", "act"}, gw : 0..MaxGW]
    /\ diary \in Seq(Lessons) /\ pen \in [{"review", "chat"} -> Seq(Lessons)]
    /\ drafted \in 0..MaxGW /\ acted \subseteq GWs /\ stale \subseteq {"freehit", "other"}
    /\ got \subseteq Chats /\ adhoc \in BOOLEAN

\* What a sync wrote stays what the game says, through every later chip, act
\* and overlapping save: the squad fielded in the gameweek before the current
\* one, and the free transfers the game gives for the current one, replayed
\* from the history (sync.free_transfers_entering).
SyncedIsTrue ==
    file.by = "sync" => /\ file.cur - 1 \in DOMAIN hist
                        /\ file.squad = hist[file.cur - 1].picks
                        /\ file.ft = hist[file.cur - 1].ft

\* With writers one at a time and no command typed, a draft that carries no
\* warning was written from the squad the gameweek began with, unless the
\* gameweek before was played on a free hit (sync.ensure before the draft).
FreshDraft ==
    serial /\ left = MaxCli => "other" \notin stale

\* With writers one at a time, no gameweek whose decision was recorded is
\* graded as one without a decision (plan.record_decision, run_review).
LockedIsGraded == serial => ~adhoc

\* A gameweek counts as reviewed only when every chat has had its review
\* (run_review sends before it marks, and a failed send leaves it unmarked).
DeliveredBeforeMark == [][last' # last => got = Chats]_vars

\* The review does its duty and nothing else: the gameweeks in their turn from
\* the first one reviewed, however many settle while a wake fails, and each one
\* told to every chat, over as many wakes as it takes, before it counts.
Duty == INSTANCE ReviewDuty WITH
  settled <- game.settled, reviewed <- last, current <- rv.gw, served <- got

ImplementsReviewDuty == Duty!Spec

\* However often a review is tried again, a lesson is in the diary once; twice
\* at most when chat and a review read it at the same moment, and never more
\* (learnings.append dedupes on the lesson, without a lock).
DiaryOnce ==
    \A lesson \in Range(diary) :
        Cardinality({i \in DOMAIN diary : diary[i] = lesson}) <= IF serial THEN 1 ELSE 2

\* Once the reviews have begun they always catch up with what has settled,
\* however often a wake fails on the way.
EverySettledReviewed == last # 0 ~> last = game.settled

\* What sync.py and run_brief say of the guard, for a file no command has
\* touched: no draft is written from a stale squad without a warning.
NoStaleDraft == stale = {}
=============================================================================
