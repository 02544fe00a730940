---------------------------- MODULE WeeklyCycle ----------------------------
(***************************************************************************)
(* The weekly approval protocol: the deadline brief (daemon/brief.py), the *)
(* reply loop (daemon/loop.py) and the store file they share.              *)
(*                                                                         *)
(* Two processes run.  The brief is a oneshot started by a timer: it loads *)
(* the store, decides from the clock what is due, and for a draft or a     *)
(* final asks the model, sends, and saves what it loaded, changed.  The    *)
(* reply loop is resident: it takes one Telegram update at a time, loads   *)
(* the store, and either moves the gate on a bare token or asks the model, *)
(* whose reply may be an iterate that is saved onto the copy loaded before *)
(* the model was asked.  Neither takes a lock.  Each process has its       *)
(* in-memory copy of the store here (bmem, cmem); disk is the file.        *)
(*                                                                         *)
(* Rohit is the environment: he sends approve and stop tokens, typed or by *)
(* button, and chat, at any time.  Telegram keeps an update until a later  *)
(* getUpdates acknowledges it, so a daemon that dies before its next poll  *)
(* is given the whole batch again.                                         *)
(***************************************************************************)
EXTENDS ApprovalStore, Sequences

CONSTANTS
  Tokens,         \* what Rohit sends: a set of [token, pressed] records
  MaxMessages,    \* bound: messages Rohit sends in a behaviour
  MaxFaults,      \* bound: failed calls, killed wakes and daemon restarts
  Overlap,        \* may a wake run while a message is being handled?
  TornSaves       \* may a wake die between the two writes of a touchpoint?

ASSUME TokensAssumption ==
  Tokens \subseteq [token : {"yes", "stop", "chat"}, pressed : BOOLEAN]
ASSUME BoundsAssumption == MaxMessages \in Nat /\ MaxFaults \in Nat
ASSUME FlagsAssumption == Overlap \in BOOLEAN /\ TornSaves \in BOOLEAN

VARIABLES
  gw,       \* the gameweek next_deadline() returns now
  window,   \* where now stands before its deadline
  disk,     \* data/approval-state.json
  season,   \* decisions.gwNN of season-state.json
  bpc, bact, bgw, bmem, bplan,   \* the brief wake
  cpc, cmem,                     \* the reply loop
  inbox,    \* updates Telegram has not been told to forget
  fetched,  \* how many of them the loop was given by its last poll
  done,     \* how many of those it has handled: offset has moved past them
  faults,   \* faults so far, at most MaxFaults
  \* History, read by properties only:
  sent,     \* messages sent (also the bound)
  shown,    \* the plan the last message that asked for a yes showed Rohit
  yeses,    \* <<gw, plan>> pairs the gate approved on a yes
  consent,  \* per gameweek: the plan approved and not replaced or held since
  applied,  \* <<gw, plan>> pairs actuator.apply was called with
  receipts  \* gameweeks whose receipt or no-write alert was sent

clock == <<gw, window>>
brief == <<bpc, bact, bgw, bmem, bplan>>
chat  == <<cpc, cmem>>
queue == <<inbox, fetched, done>>
history == <<sent, shown, yeses, consent, applied, receipts>>
vars == <<clock, disk, season, brief, chat, queue, faults, history>>

Windows == {"quiet", "draft", "final", "act"}
BriefPc == {"off", "generate", "send", "save", "flag", "act", "receipt", "close"}
ChatPc  == {"idle", "gate", "think"}
Update  == [token : {"yes", "stop", "chat"}, pressed : BOOLEAN, about : OptPlan]

Undecided == [status |-> "none", plan |-> NONE]
Decision == [status : {"none", "locked", "no_write"}, plan : OptPlan]

Init ==
  /\ gw = 1 /\ window = "quiet"
  /\ disk = Idle
  /\ season = [g \in Gameweek |-> Undecided]
  /\ bpc = "off" /\ bact = "none" /\ bgw = NoGw /\ bmem = Idle /\ bplan = NONE
  /\ cpc = "idle" /\ cmem = Idle
  /\ inbox = <<>> /\ fetched = 0 /\ done = 0
  /\ faults = 0
  /\ sent = 0 /\ shown = NONE /\ yeses = {} /\ applied = {} /\ receipts = {}
  /\ consent = [g \in Gameweek |-> NONE]

-----------------------------------------------------------------------------
(* The clock.  decide_wake reads three windows before a deadline; once it  *)
(* passes, next_deadline is the following gameweek's.  "draft" stands for  *)
(* the times inside T-48h at which an unsent draft is due (Rohit's evening *)
(* or T-24h).  No wake and no model call lasts as long as the quiet days   *)
(* between a deadline and the next draft.                                  *)

ClockAdvances ==
  /\ \/ /\ window = "quiet"
        /\ bpc = "off" /\ (cpc = "idle" \/ cmem.gw = gw)
        /\ window' = "draft" /\ gw' = gw
     \/ window = "draft" /\ window' = "final" /\ gw' = gw
     \/ window = "final" /\ window' = "act" /\ gw' = gw
     \/ /\ window = "act" /\ gw < LastGw
        /\ window' = "quiet" /\ gw' = gw + 1
  /\ UNCHANGED <<faults, disk, season, brief, chat, queue, history>>

(* decide_wake: what is due now, given the store; "none" is a quiet tick.  *)
DecideWake(st) ==
  CASE window = "act"   /\ st.phase \notin Terminal -> "act"
    [] window = "final" /\ st.phase \notin Terminal /\ ~st.final_sent -> "final"
    [] window = "draft" /\ ~st.draft_sent -> "draft"
    [] OTHER -> "none"

(* A failure the environment may inject.                                   *)
Fault == faults < MaxFaults /\ faults' = faults + 1

-----------------------------------------------------------------------------
(* The brief wake.                                                         *)

BriefOff ==
  /\ bpc' = "off" /\ bact' = "none" /\ bgw' = NoGw
  /\ bmem' = Idle /\ bplan' = NONE

(* Load, start a new deadline cycle if the store is of another gameweek    *)
(* (that saves), decide.  systemd does not start a unit that still runs.   *)
BriefWake ==
  /\ bpc = "off"
  /\ Overlap \/ cpc = "idle"
  /\ LET st == IF disk.gw = gw THEN disk ELSE ResetFor(disk, gw)
         action == DecideWake(st)
     IN /\ disk' = st
        /\ IF action = "none"
             THEN UNCHANGED brief
             ELSE /\ bpc' = IF action = "act" THEN "act" ELSE "generate"
                  /\ bact' = action /\ bgw' = gw /\ bmem' = st /\ bplan' = NONE
  /\ UNCHANGED <<faults, clock, season, chat, queue, history>>

(* Helpers and the model, one retry for a missing block: a plan or none.   *)
BriefGenerates(plan) ==
  /\ bpc = "generate"
  /\ bpc' = "send" /\ bplan' = plan
  /\ UNCHANGED <<faults, clock, disk, season, bact, bgw, bmem, chat, queue, history>>

(* The model, the internal plan or the transport raised: run_brief logs    *)
(* and returns 1 with nothing saved.                                       *)
BriefGenerationFails ==
  /\ Fault
  /\ bpc = "generate"
  /\ BriefOff
  /\ UNCHANGED <<clock, disk, season, chat, queue, history>>

\* Faulty: a chip plan that came back unchanged is carried over too.
CarriesOverAnyPlan == bmem.approved_plan # NONE /\ bplan = bmem.approved_plan

(* "unchanged" in _do_final: approved, same plan came back, no chip in it. *)
CarriesOver ==
  /\ bmem.approved_plan # NONE /\ bplan = bmem.approved_plan
  /\ bplan \notin ChipPlans

(* What Rohit has been asked to say yes to once this touchpoint is out.    *)
ShownBySend == IF bact = "final" /\ CarriesOver THEN shown ELSE bplan

BriefSends ==
  /\ bpc = "send"
  /\ bpc' = "save"
  /\ shown' = ShownBySend
  /\ UNCHANGED <<faults, clock, disk, season, bact, bgw, bmem, bplan, chat, queue,
                 sent, yeses, consent, applied, receipts>>

(* _send_all stops at the first failing chat.  The message may have        *)
(* arrived all the same (in another chat, or before a timeout).            *)
BriefSendFails ==
  /\ Fault
  /\ bpc = "send"
  /\ BriefOff
  /\ shown' \in {shown, ShownBySend}
  /\ UNCHANGED <<clock, disk, season, chat, queue,
                 sent, yeses, consent, applied, receipts>>

(* The first write after the send.  A draft freezes its plan and a changed *)
(* or unverifiable final voids the carry, both to be flagged as sent by a  *)
(* second write; an unchanged final locks in one.                          *)
BriefSaves ==
  /\ bpc = "save"
  /\ \/ /\ bact = "draft"
        /\ bmem' = SetPending(bmem, bgw, bplan)
        /\ consent' = [consent EXCEPT ![bgw] = NONE]
        /\ bpc' = "flag" /\ UNCHANGED <<bact, bgw, bplan>>
     \/ /\ bact = "final" /\ ~CarriesOver
        /\ bmem' = VoidCarry(bmem, bplan)
        /\ consent' = [consent EXCEPT ![bgw] = NONE]
        /\ bpc' = "flag" /\ UNCHANGED <<bact, bgw, bplan>>
     \/ /\ bact = "final" /\ CarriesOver
        /\ BriefOff
        /\ UNCHANGED consent
  /\ disk' = IF bpc' = "flag" THEN bmem'
             ELSE [bmem EXCEPT !.phase = "locked", !.final_sent = TRUE]
  /\ UNCHANGED <<faults, clock, season, chat, queue, sent, shown, yeses, applied, receipts>>

(* The second write: draft_sent or final_sent.                             *)
BriefFlags ==
  /\ bpc = "flag"
  /\ disk' = IF bact = "draft" THEN [bmem EXCEPT !.draft_sent = TRUE]
                               ELSE [bmem EXCEPT !.final_sent = TRUE]
  /\ BriefOff
  /\ UNCHANGED <<faults, clock, season, chat, queue, history>>

(* _do_act.  With a valid approval the actuator is called; either way the  *)
(* decision is recorded in the season state, then a receipt or an alert is *)
(* sent, then the phase is saved.                                          *)
WillWrite == bmem.phase \in {"approved", "locked"} /\ bmem.approved_plan # NONE

ApplyIfApproved ==
  applied' = IF WillWrite THEN applied \cup {<<bgw, bmem.approved_plan>>}
                          ELSE applied

ActRecords ==
  /\ bpc = "act"
  /\ ApplyIfApproved
  /\ season' = [season EXCEPT ![bgw] =
                  [status |-> IF WillWrite THEN "locked" ELSE "no_write",
                   plan |-> bmem.approved_plan]]
  /\ bpc' = "receipt"
  /\ UNCHANGED <<faults, clock, disk, bact, bgw, bmem, bplan, chat, queue,
                 sent, shown, yeses, consent, receipts>>

(* record_decision raises on a season file it cannot read, after apply.    *)
ActRecordRaises ==
  /\ Fault
  /\ bpc = "act"
  /\ ApplyIfApproved
  /\ BriefOff
  /\ UNCHANGED <<clock, disk, season, chat, queue,
                 sent, shown, yeses, consent, receipts>>

ActSends ==
  /\ bpc = "receipt"
  /\ bpc' = "close"
  /\ receipts' = receipts \cup {bgw}
  /\ UNCHANGED <<faults, clock, disk, season, bact, bgw, bmem, bplan, chat, queue,
                 sent, shown, yeses, consent, applied>>

\* Faulty: the phase is saved although nobody was told.
ActSendFailureCloses ==
  /\ Fault
  /\ bpc = "receipt"
  /\ disk' = [bmem EXCEPT !.phase = IF WillWrite THEN "acted" ELSE "no_write"]
  /\ BriefOff
  /\ UNCHANGED <<clock, season, chat, queue, history>>

ActSendFails ==
  /\ Fault
  /\ bpc = "receipt"
  /\ BriefOff
  /\ receipts' \in {receipts, receipts \cup {bgw}}
  /\ UNCHANGED <<clock, disk, season, chat, queue,
                 sent, shown, yeses, consent, applied>>

\* Faulty: the phase is set on whatever the file holds by then.
ActClosesReloaded ==
  /\ bpc = "close"
  /\ disk' = [disk EXCEPT !.phase = IF WillWrite THEN "acted" ELSE "no_write"]
  /\ BriefOff
  /\ UNCHANGED <<faults, clock, season, chat, queue, history>>

ActCloses ==
  /\ bpc = "close"
  /\ disk' = [bmem EXCEPT !.phase = IF WillWrite THEN "acted" ELSE "no_write"]
  /\ BriefOff
  /\ UNCHANGED <<faults, clock, season, chat, queue, history>>

(* A power cut, an OOM kill, a reboot: the wake is gone with its copy.     *)
BriefKilled ==
  /\ Fault
  /\ bpc # "off"
  /\ bpc = "flag" => TornSaves
  /\ BriefOff
  /\ UNCHANGED <<clock, disk, season, chat, queue, history>>

-----------------------------------------------------------------------------
(* Rohit, Telegram and the reply loop.                                     *)

RohitSends(t) ==
  /\ sent < MaxMessages
  /\ sent' = sent + 1
  /\ inbox' = Append(inbox, [token |-> t.token, pressed |-> t.pressed,
                             about |-> shown])
  /\ UNCHANGED <<faults, clock, disk, season, brief, chat, fetched, done,
                 shown, yeses, consent, applied, receipts>>

(* getUpdates(offset): what was handled is forgotten, the rest is the next *)
(* batch.                                                                  *)
Poll ==
  /\ cpc = "idle" /\ done = fetched
  /\ inbox' = SubSeq(inbox, done + 1, Len(inbox))
  /\ fetched' = Len(inbox) - done /\ done' = 0
  /\ UNCHANGED <<faults, clock, disk, season, brief, chat, history>>

Message == inbox[done + 1]

(* poll_once moves the offset past a message whether or not it raised.     *)
Handled ==
  /\ cpc' = "idle" /\ cmem' = Idle
  /\ done' = done + 1 /\ UNCHANGED <<inbox, fetched>>

Take ==
  /\ cpc = "idle" /\ done < fetched
  /\ Overlap \/ bpc = "off"
  /\ cmem' = disk /\ cpc' = "gate"
  /\ UNCHANGED <<faults, clock, disk, season, brief, queue, history>>

\* Faulty: a yes is taken with no plan pending.
GateOpensWithoutPlan ==
  Message.token = "yes" /\ cmem.phase = "awaiting_approval"

GateOpens ==
  /\ Message.token = "yes"
  /\ cmem.phase = "awaiting_approval" /\ cmem.pending_plan # NONE

GateHolds == Message.token = "stop" /\ cmem.phase = "locked"

ChatApproves ==
  /\ cpc = "gate" /\ GateOpens
  /\ disk' = Approve(cmem)
  /\ yeses' = yeses \cup {<<cmem.gw, cmem.pending_plan>>}
  /\ consent' = [consent EXCEPT ![cmem.gw] = cmem.pending_plan]
  /\ Handled
  /\ UNCHANGED <<faults, clock, season, brief, sent, shown, applied, receipts>>

(* STOP: the approved plan goes back to pending, to wait for a fresh yes.  *)
ChatHolds ==
  /\ cpc = "gate" /\ GateHolds
  /\ disk' = [cmem EXCEPT !.pending_plan = cmem.approved_plan,
                          !.approved_plan = NONE,
                          !.phase = "awaiting_approval"]
  /\ consent' = [consent EXCEPT ![cmem.gw] = NONE]
  /\ Handled
  /\ UNCHANGED <<faults, clock, season, brief, sent, shown, yeses, applied, receipts>>

(* A press the gate did not consume is answered with a fixed line; typed   *)
(* text goes to the model.                                                 *)
ChatDropsPress ==
  /\ cpc = "gate" /\ ~GateOpens /\ ~GateHolds /\ Message.pressed
  /\ Handled
  /\ UNCHANGED <<faults, clock, disk, season, brief, history>>

ChatAsksModel ==
  /\ cpc = "gate" /\ ~GateOpens /\ ~GateHolds /\ ~Message.pressed
  /\ cpc' = "think"
  /\ UNCHANGED <<faults, clock, disk, season, brief, cmem, queue, history>>

(* The reply.  In an open phase of the copy loaded before the model was    *)
(* asked, a plan in it voids the carry and is asked a fresh yes for; the   *)
(* message that says so may fail to send after the save.                   *)
ChatIterates(plan) ==
  /\ cpc = "think" /\ cmem.phase \in Open
  /\ disk' = VoidCarry(cmem, plan)
  /\ consent' = [consent EXCEPT ![cmem.gw] = NONE]
  /\ shown' \in {shown, plan}
  /\ Handled
  /\ UNCHANGED <<faults, clock, season, brief, sent, yeses, applied, receipts>>

(* A reply without a plan, in a phase that takes none, or an exception.    *)
ChatAnswers ==
  /\ cpc = "think"
  /\ Handled
  /\ UNCHANGED <<faults, clock, disk, season, brief, history>>

(* The daemon dies or is restarted by a deploy: the copy and the offset    *)
(* are gone, Telegram still has every update since the last poll.          *)
DaemonRestarts ==
  /\ Fault
  /\ cpc # "idle" \/ fetched > 0
  /\ cpc' = "idle" /\ cmem' = Idle
  /\ fetched' = 0 /\ done' = 0
  /\ UNCHANGED <<clock, disk, season, brief, inbox, history>>

-----------------------------------------------------------------------------
BriefNext ==
  \/ BriefWake
  \/ \E plan \in OptPlan : BriefGenerates(plan)
  \/ BriefGenerationFails
  \/ BriefSends \/ BriefSendFails \/ BriefSaves \/ BriefFlags
  \/ ActRecords \/ ActRecordRaises \/ ActSends \/ ActSendFails \/ ActCloses
  \/ BriefKilled

ChatNext ==
  \/ Poll \/ Take
  \/ ChatApproves \/ ChatHolds \/ ChatDropsPress \/ ChatAsksModel
  \/ \E plan \in Plans : ChatIterates(plan)
  \/ ChatAnswers
  \/ DaemonRestarts

Next ==
  \/ ClockAdvances
  \/ BriefNext
  \/ \E t \in Tokens : RohitSends(t)
  \/ ChatNext

Spec == Init /\ [][Next]_vars

(* The timer goes on firing, a wake goes on to its end and the loop goes   *)
(* on polling; faults are finitely many.  Rohit and the clock owe nothing: *)
(* in a behaviour whose clock stops in a window the ticks of that window   *)
(* never end.                                                              *)
FairSpec ==
  /\ Spec
  /\ WF_vars(BriefWake)
  /\ WF_vars(\E plan \in OptPlan : BriefGenerates(plan))
  /\ WF_vars(BriefSends \/ BriefSaves \/ BriefFlags)
  /\ WF_vars(ActRecords \/ ActSends \/ ActCloses)
  /\ WF_vars(Take)
  /\ WF_vars(ChatApproves \/ ChatHolds \/ ChatDropsPress \/ ChatAsksModel \/ ChatAnswers)

-----------------------------------------------------------------------------
(* The variables have their types; the loop has handled no more updates    *)
(* than it was given, and was given no more than Telegram holds.           *)
TypeOK ==
  /\ gw \in Gameweek /\ window \in Windows
  /\ disk \in Store
  /\ season \in [Gameweek -> Decision]
  /\ bpc \in BriefPc /\ bact \in {"none", "draft", "final", "act"}
  /\ bgw \in Gameweek \cup {NoGw} /\ bmem \in Store /\ bplan \in OptPlan
  /\ cpc \in ChatPc /\ cmem \in Store
  /\ inbox \in Seq(Update) /\ fetched \in Nat /\ done \in Nat
  /\ done <= fetched /\ fetched <= Len(inbox)
  /\ faults \in Nat /\ sent \in Nat /\ shown \in OptPlan
  /\ yeses \in SUBSET (Gameweek \X Plans)
  /\ consent \in [Gameweek -> OptPlan]
  /\ applied \in SUBSET (Gameweek \X Plans)
  /\ receipts \in SUBSET Gameweek

(* No apply call ever happens without an explicit yes in daemon code       *)
(* (daemon/actuator.py): every plan the actuator is given was approved by  *)
(* the gate, on a yes, for that same gameweek, whatever stale copies the   *)
(* two processes write over each other.                                    *)
NoApplyWithoutYes == applied \subseteq yeses

(* "Locking at T-30m" is never said of a chip: the final locks without a   *)
(* fresh yes only a plan that plays none (weekly-cycle.md 3, chips never   *)
(* auto-carry).                                                            *)
NoChipLocks ==
  disk.phase = "locked" => disk.approved_plan \in Plans \ ChipPlans

(* The store says acted or no_write of a gameweek only if that decision,   *)
(* about that plan, is what season-state.json has for it.                  *)
ClosedAsRecorded ==
  disk.phase \in Terminal =>
    season[disk.gw] =
      [status |-> IF disk.phase = "acted" THEN "locked" ELSE "no_write",
       plan |-> disk.approved_plan]

(* The decision taken at the deadline is the one that stands: the plan     *)
(* written is the one last approved and neither held by STOP nor replaced  *)
(* by a draft, an iterate or a changed final since; and "no approval in    *)
(* time" is never said while an approval stands.                           *)
StandingConsentDecides ==
  [][ActRecords => consent[bgw] = IF WillWrite THEN bmem.approved_plan ELSE NONE]_vars

(* A deadline that has been acted on or declared a no-write is not opened  *)
(* again before the next gameweek.                                         *)
ClosedStaysClosed ==
  [][disk.phase \in Terminal /\ disk'.gw = disk.gw => disk'.phase = disk.phase]_vars

(* An act window that lasts ends in a receipt or a loud alert, whatever    *)
(* fails on the way a finite number of times.                              *)
LoudDeadline ==
  \A g \in Gameweek :
    (gw = g /\ window = "act") ~> (g \in receipts \/ gw # g)

(* The file implements the abstract write gate, read as: the gate is open  *)
(* for the approved plan of an approved or locked store, what is asked     *)
(* about is its pending plan, and the decisions are the season state's.    *)
Gate == INSTANCE WriteGate WITH
  Gameweeks <- Gameweek,
  asked <- [g \in Gameweek |-> IF disk.gw = g THEN disk.pending_plan ELSE NONE],
  gate <- [g \in Gameweek |->
             IF disk.gw = g /\ disk.phase \in {"approved", "locked"}
               THEN disk.approved_plan ELSE NONE],
  decided <- season

ImplementsWriteGate == Gate!Spec

-----------------------------------------------------------------------------
(* Claims of the repository that the code does not keep.                   *)

(* weekly-cycle.md 3, approval token, and ApprovalStore.void_carry: a      *)
(* stale yes in scrollback cannot fire.  Said here of a yes Rohit sent     *)
(* while he was being asked about one plan: it approves no other.          *)
StaleYesCannotFire ==
  [][ChatApproves => Message.about \in {cmem.pending_plan, NONE}]_vars

(* ApprovalStore.void_carry: an iterate clears any prior approval, a fresh *)
(* yes approves the new pending only.  Said of the final: "no change since *)
(* your yes" locks a plan only while that yes stands.                      *)
FinalLocksStandingConsent ==
  [][BriefSaves /\ bact = "final" /\ CarriesOver
       => consent[bgw] = bmem.approved_plan]_vars

(* weekly-cycle.md 3, chips: a plan with a chip always needs a fresh yes   *)
(* at the final ping; without one the chip is held.                        *)
ChipNeedsFinal ==
  [][ActRecords /\ WillWrite /\ bmem.approved_plan \in ChipPlans
       => bmem.final_sent]_vars
=============================================================================
