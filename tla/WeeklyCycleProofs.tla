------------------------- MODULE WeeklyCycleProofs -------------------------
(***************************************************************************)
(* The invariants of WeeklyCycle, proved for any plans, any number of      *)
(* gameweeks, messages and faults, with wakes and messages overlapping and *)
(* touchpoints torn or not.                                                *)
(*                                                                         *)
(* None of them is inductive: a stale copy of the store is only harmless   *)
(* because of what was true of the file when it was loaded.  Typing adds   *)
(* to TypeOK what the types of a step's result depend on; Safe says of all *)
(* three copies of the store (the file, the wake's, the loop's) what the   *)
(* invariants say of the file, and orders the copies in time.              *)
(*                                                                         *)
(* The last three theorems, the refinement of WriteGate among them, are of *)
(* wakes and messages that take turns; TakesTurns, DraftFirst and          *)
(* Consented are what that adds to the invariant.                          *)
(***************************************************************************)
EXTENDS WeeklyCycle, SequenceTheorems, TLAPS

(* A copy that is not idle belongs to a gameweek; a busy loop has a        *)
(* message; a running wake's copy is of the wake's gameweek.               *)
Typing ==
  /\ TypeOK
  /\ disk.phase # "idle" => disk.gw \in Gameweek
  /\ bmem.phase # "idle" => bmem.gw \in Gameweek
  /\ cmem.phase # "idle" => cmem.gw \in Gameweek
  /\ cpc # "idle" => done < fetched
  /\ bpc # "off" => bgw \in Gameweek /\ bmem.gw = bgw

Recorded(s) == [status |-> IF s.phase = "acted" THEN "locked" ELSE "no_write",
                plan |-> s.approved_plan]

(* What is true of every copy of the store, however old.                   *)
Sound(s) ==
  /\ s.gw <= gw
  /\ s.approved_plan # NONE => <<s.gw, s.approved_plan>> \in yeses
  /\ s.phase = "locked" => s.approved_plan \in Plans \ ChipPlans
  /\ s.phase \in Terminal => season[s.gw] = Recorded(s)

(* A closed store is this gameweek's only after its deadline, or an older  *)
(* one's.  A loop that read a closed store finds the file as it was, or    *)
(* further on.                                                             *)
ClosedOrder ==
  /\ disk.phase \in Terminal /\ disk.gw = gw => window = "act"
  /\ cmem.phase \in Terminal => disk = cmem \/ cmem.gw < disk.gw

(* While a wake runs, nothing of its gameweek is closed.                   *)
WakeOwnsItsGameweek ==
  bpc # "off" =>
    /\ bgw <= gw
    /\ disk.phase \notin Terminal /\ bmem.phase \notin Terminal
    /\ cmem.phase \in Terminal => cmem.gw < bgw

(* A wake that acts does so after the draft and final windows, and past    *)
(* record_decision the season has its decision.                            *)
ActOrder ==
  /\ bpc \in {"act", "receipt", "close"} => bgw < gw \/ window = "act"
  /\ bpc \in {"receipt", "close"} =>
       season[bgw] = [status |-> IF WillWrite THEN "locked" ELSE "no_write",
                      plan |-> bmem.approved_plan]

Safe ==
  /\ Sound(disk) /\ Sound(bmem) /\ Sound(cmem)
  /\ applied \subseteq yeses
  /\ ClosedOrder
  /\ WakeOwnsItsGameweek
  /\ ActOrder

-----------------------------------------------------------------------------
(* A fresh cycle is idle, of the given gameweek, with nothing approved.    *)
LEMMA ResetForIsStore ==
  ASSUME NEW s \in Store, NEW g \in Gameweek
  PROVE  /\ ResetFor(s, g) \in Store
         /\ ResetFor(s, g).gw = g /\ ResetFor(s, g).phase = "idle"
         /\ ResetFor(s, g).approved_plan = NONE
  BY DEF Store, ResetFor, Idle, Phases, OptPlan, NoGw

(* The idle store has no gameweek and nothing approved.                    *)
LEMMA IdleIsStore == Idle \in Store /\ Idle.phase = "idle" /\ Idle.approved_plan = NONE
  BY DEF Idle, Store, NoGw, Phases, OptPlan

(* Every method of the store takes a store to a store.                     *)
LEMMA StoreClosed ==
  ASSUME NEW s \in Store, NEW g \in Gameweek, NEW plan \in OptPlan
  PROVE  /\ SetPending(s, g, plan) \in Store
         /\ Approve(s) \in Store
         /\ VoidCarry(s, plan) \in Store
         /\ \A p \in Phases : [s EXCEPT !.phase = p] \in Store
         /\ [s EXCEPT !.draft_sent = TRUE] \in Store
         /\ [s EXCEPT !.final_sent = TRUE] \in Store
         /\ [s EXCEPT !.phase = "locked", !.final_sent = TRUE] \in Store
         /\ [s EXCEPT !.pending_plan = s.approved_plan, !.approved_plan = NONE,
                      !.phase = "awaiting_approval"] \in Store
  BY DEF Store, SetPending, Approve, VoidCarry, Phases, OptPlan

(* The clock and the gameweeks it runs through are numbers.                *)
LEMMA GameweekIsNat == Gameweek \subseteq Nat \ {0} /\ 1 \in Gameweek
  BY LastGwAssumption DEF Gameweek

(* A busy loop's message is an update.                                     *)
LEMMA MessageIsUpdate ==
  ASSUME Typing, cpc # "idle"
  PROVE  Message \in Update
  BY DEF Typing, TypeOK, Message

(* What the wake would write is a plan of the season.                      *)
LEMMA AppliedPlan ==
  ASSUME Typing, WillWrite
  PROVE  bmem.approved_plan \in Plans
  BY DEF Typing, TypeOK, WillWrite, Store, OptPlan

(* The initial state is well typed.                                        *)
LEMMA TypingInit == Init => Typing
  <1> SUFFICES ASSUME Init PROVE Typing
    OBVIOUS
  <1>1. NONE \in OptPlan /\ NoGw \in Gameweek \cup {NoGw}
    BY DEF OptPlan
  <1>2. inbox \in Seq(Update) /\ Len(inbox) = 0
    BY DEF Init
  <1>3. season \in [Gameweek -> Decision] /\ consent \in [Gameweek -> OptPlan]
    BY <1>1 DEF Init, Undecided, Decision
  <1>4. TypeOK
    BY <1>1, <1>2, <1>3, IdleIsStore, GameweekIsNat
    DEF Init, TypeOK, Windows, BriefPc, ChatPc
  <1> QED
    BY <1>4, IdleIsStore DEF Init, Typing

(* The types of what every step keeps or sets.                             *)
LEMMA TypingNext == Typing /\ [Next]_vars => Typing'
  <1> SUFFICES ASSUME Typing, [Next]_vars PROVE Typing'
    OBVIOUS
  <1> USE DEF Typing, TypeOK, clock, brief, chat, queue, history
  <1>0. CASE UNCHANGED vars
    BY <1>0 DEF vars
  <1>1. CASE ClockAdvances
    BY <1>1, LastGwAssumption DEF ClockAdvances, Windows, Gameweek
  <1>2. CASE BriefWake
    <2> DEFINE st == IF disk.gw = gw THEN disk ELSE ResetFor(disk, gw)
    <2>1. st \in Store /\ st.gw = gw /\ (st.phase # "idle" => st = disk)
      BY ResetForIsStore
    <2>2. DecideWake(st) \in {"none", "draft", "final", "act"}
      BY DEF DecideWake
    <2>3. disk' = st
      BY <1>2 DEF BriefWake
    <2>4. CASE DecideWake(st) = "none"
      <3>1. UNCHANGED <<brief, clock, season, chat, queue, faults, history>>
        BY <1>2, <2>4 DEF BriefWake
      <3> QED
        BY <2>1, <2>3, <3>1
    <2>5. CASE DecideWake(st) # "none"
      <3>1. /\ bpc' \in {"act", "generate"} /\ bact' = DecideWake(st)
            /\ bgw' = gw /\ bmem' = st /\ bplan' = NONE
            /\ UNCHANGED <<clock, season, chat, queue, faults, history>>
        BY <1>2, <2>5 DEF BriefWake
      <3> QED
        BY <2>1, <2>2, <2>3, <3>1 DEF BriefPc, OptPlan
    <2> QED
      BY <2>4, <2>5
  <1>3. ASSUME NEW plan \in OptPlan, BriefGenerates(plan) PROVE Typing'
    BY <1>3 DEF BriefGenerates, BriefPc
  <1>4. CASE BriefGenerationFails
    BY <1>4, IdleIsStore DEF BriefGenerationFails, Fault, BriefOff, BriefPc, OptPlan, NoGw
  <1>5. CASE BriefSends
    BY <1>5 DEF BriefSends, ShownBySend, BriefPc
  <1>6. CASE BriefSendFails
    BY <1>6, IdleIsStore
    DEF BriefSendFails, Fault, BriefOff, ShownBySend, BriefPc, OptPlan, NoGw
  <1>7. CASE BriefSaves
    <2>1. bgw \in Gameweek /\ bmem.gw = bgw
      BY <1>7 DEF BriefSaves
    <2>2. consent' \in [Gameweek -> OptPlan]
      BY <1>7, <2>1 DEF BriefSaves, OptPlan
    <2>3. UNCHANGED <<clock, season, chat, queue, faults, sent, shown, yeses,
                      applied, receipts>>
      BY <1>7 DEF BriefSaves
    <2>4. CASE bpc' = "flag"
      <3>1. bmem' \in {SetPending(bmem, bgw, bplan), VoidCarry(bmem, bplan)}
        BY <1>7, <2>4 DEF BriefSaves, BriefOff
      <3>2. bmem' \in Store
        <4>1. SetPending(bmem, bgw, bplan) \in Store /\ VoidCarry(bmem, bplan) \in Store
          BY <2>1, StoreClosed
        <4> QED
          BY <3>1, <4>1
      <3>3. bmem'.gw = bgw
        BY <2>1, <3>1 DEF SetPending, VoidCarry, Store
      <3>4. UNCHANGED <<bact, bgw, bplan>>
        BY <1>7, <2>4 DEF BriefSaves, BriefOff
      <3>5. disk' = bmem'
        BY <1>7, <2>4 DEF BriefSaves
      <3> QED
        BY <2>1, <2>2, <2>3, <2>4, <3>2, <3>3, <3>4, <3>5 DEF BriefPc
    <2>5. CASE bpc' # "flag"
      <3>1. /\ disk' = [bmem EXCEPT !.phase = "locked", !.final_sent = TRUE]
            /\ BriefOff
        BY <1>7, <2>5 DEF BriefSaves
      <3>2. disk' \in Store
        BY <2>1, <3>1, StoreClosed
      <3>3. disk'.gw = bgw
        BY <2>1, <3>1 DEF Store
      <3> QED
        BY <2>1, <2>2, <2>3, <3>1, <3>2, <3>3, IdleIsStore
        DEF BriefOff, BriefPc, OptPlan, NoGw
    <2> QED
      BY <2>4, <2>5
  <1>8. CASE BriefFlags
    <2>1. bgw \in Gameweek /\ bmem.gw = bgw
      BY <1>8 DEF BriefFlags
    <2>2. disk' \in Store
      BY <1>8, <2>1, StoreClosed DEF BriefFlags
    <2>3. disk'.gw = bgw
      BY <1>8, <2>1 DEF BriefFlags, Store
    <2> QED
      BY <1>8, <2>1, <2>2, <2>3, IdleIsStore
      DEF BriefFlags, BriefOff, BriefPc, OptPlan, NoGw
  <1>9. CASE ActRecords
    <2>1. bgw \in Gameweek
      BY <1>9 DEF ActRecords
    <2>2. applied' \in SUBSET (Gameweek \X Plans)
      BY <1>9, <2>1, AppliedPlan DEF ActRecords, ApplyIfApproved
    <2>3. season' \in [Gameweek -> Decision]
      BY <1>9, <2>1 DEF ActRecords, Decision, Store
    <2> QED
      BY <1>9, <2>2, <2>3 DEF ActRecords, BriefPc
  <1>10. CASE ActRecordRaises
    <2>1. applied' \in SUBSET (Gameweek \X Plans)
      BY <1>10, AppliedPlan DEF ActRecordRaises, ApplyIfApproved
    <2> QED
      BY <1>10, <2>1, IdleIsStore
      DEF ActRecordRaises, Fault, BriefOff, BriefPc, OptPlan, NoGw
  <1>11. CASE ActSends
    BY <1>11 DEF ActSends, BriefPc
  <1>12. CASE ActSendFails
    BY <1>12, IdleIsStore DEF ActSendFails, Fault, BriefOff, BriefPc, OptPlan, NoGw
  <1>13. CASE ActCloses
    <2>1. bgw \in Gameweek /\ bmem.gw = bgw
      BY <1>13 DEF ActCloses
    <2>2. PICK p \in Phases : disk' = [bmem EXCEPT !.phase = p]
      BY <1>13 DEF ActCloses, Phases
    <2>3. disk' \in Store
      BY <2>1, <2>2, StoreClosed DEF OptPlan
    <2>4. disk'.gw = bgw
      BY <2>1, <2>2 DEF Store
    <2> QED
      BY <1>13, <2>1, <2>3, <2>4, IdleIsStore
      DEF ActCloses, BriefOff, BriefPc, OptPlan, NoGw
  <1>14. CASE BriefKilled
    BY <1>14, IdleIsStore DEF BriefKilled, Fault, BriefOff, BriefPc, OptPlan, NoGw
  <1>15. ASSUME NEW t \in Tokens, RohitSends(t) PROVE Typing'
    BY <1>15, TokensAssumption DEF RohitSends, Update
  <1>16. CASE Poll
    BY <1>16 DEF Poll
  <1>17. CASE Take
    BY <1>17 DEF Take, ChatPc
  <1>18. CASE ChatApproves
    <2>1. cmem.gw \in Gameweek /\ cmem.pending_plan \in Plans
      BY <1>18 DEF ChatApproves, GateOpens, Store, OptPlan
    <2>2. disk' \in Store
      BY <1>18, <2>1, StoreClosed DEF ChatApproves, OptPlan
    <2>3. disk'.gw = cmem.gw
      BY <1>18 DEF ChatApproves, Approve, Store
    <2>4. /\ yeses' \in SUBSET (Gameweek \X Plans)
          /\ consent' \in [Gameweek -> OptPlan]
      BY <1>18, <2>1 DEF ChatApproves, OptPlan
    <2> QED
      BY <1>18, <2>1, <2>2, <2>3, <2>4, IdleIsStore DEF ChatApproves, Handled, ChatPc
  <1>19. CASE ChatHolds
    <2>1. cmem.gw \in Gameweek
      BY <1>19 DEF ChatHolds, GateHolds
    <2>2. disk' \in Store
      BY <1>19, <2>1, StoreClosed DEF ChatHolds, OptPlan
    <2>3. disk'.gw = cmem.gw
      BY <1>19 DEF ChatHolds, Store
    <2>4. consent' \in [Gameweek -> OptPlan]
      BY <1>19, <2>1 DEF ChatHolds, OptPlan
    <2> QED
      BY <1>19, <2>1, <2>2, <2>3, <2>4, IdleIsStore DEF ChatHolds, Handled, ChatPc
  <1>20. CASE ChatDropsPress
    BY <1>20, IdleIsStore DEF ChatDropsPress, Handled, ChatPc
  <1>21. CASE ChatAsksModel
    BY <1>21 DEF ChatAsksModel, ChatPc
  <1>22. ASSUME NEW plan \in Plans, ChatIterates(plan) PROVE Typing'
    <2>1. cmem.gw \in Gameweek
      BY <1>22 DEF ChatIterates, Open
    <2>2. disk' \in Store
      BY <1>22, <2>1, StoreClosed DEF ChatIterates, OptPlan
    <2>3. disk'.gw = cmem.gw
      BY <1>22 DEF ChatIterates, VoidCarry, Store
    <2>4. consent' \in [Gameweek -> OptPlan] /\ shown' \in OptPlan
      BY <1>22, <2>1 DEF ChatIterates, OptPlan
    <2> QED
      BY <1>22, <2>1, <2>2, <2>3, <2>4, IdleIsStore DEF ChatIterates, Handled, ChatPc
  <1>23. CASE ChatAnswers
    BY <1>23, IdleIsStore DEF ChatAnswers, Handled, ChatPc
  <1>24. CASE DaemonRestarts
    BY <1>24, IdleIsStore DEF DaemonRestarts, Fault, ChatPc
  <1> QED
    BY <1>0, <1>1, <1>2, <1>3, <1>4, <1>5, <1>6, <1>7, <1>8, <1>9, <1>10, <1>11,
       <1>12, <1>13, <1>14, <1>15, <1>16, <1>17, <1>18, <1>19, <1>20, <1>21, <1>22,
       <1>23, <1>24
    DEF Next, BriefNext, ChatNext

(* In every behaviour the variables have their types.                      *)
THEOREM WellTyped == Spec => []TypeOK
  <1>1. Typing => TypeOK
    BY DEF Typing
  <1> QED
    BY <1>1, TypingInit, TypingNext, PTL DEF Spec

-----------------------------------------------------------------------------
(* The initial state is safe: every copy is idle and no wake runs.         *)
LEMMA SafeInit == Init => Safe
  BY IdleIsStore, LastGwAssumption
  DEF Init, Safe, Sound, ClosedOrder, WakeOwnsItsGameweek, ActOrder, Idle, NoGw,
      Terminal, Gameweek

(* Gameweeks, the idle store's and those of the copies are numbers.        *)
LEMMA GameweeksAreNat ==
  ASSUME Typing
  PROVE  /\ gw \in Nat /\ bgw \in Nat
         /\ disk.gw \in Nat /\ bmem.gw \in Nat /\ cmem.gw \in Nat
  <1>1. Gameweek \cup {NoGw} \subseteq Nat
    BY GameweekIsNat DEF NoGw
  <1>2. \A s \in Store : s.gw \in Gameweek \cup {NoGw}
    BY DEF Store
  <1> QED
    BY <1>1, <1>2 DEF Typing, TypeOK

(* What a wake starts from: the file, or a fresh cycle if it is of another *)
(* gameweek.                                                               *)
LEMMA WakeCopy ==
  ASSUME NEW s \in Store, NEW g \in Gameweek, NEW st,
         st = IF s.gw = g THEN s ELSE ResetFor(s, g)
  PROVE  /\ st.gw = g
         /\ st = s \/ (st.phase = "idle" /\ st.approved_plan = NONE /\ s.gw # g)
  <1>1. CASE s.gw = g
    BY <1>1
  <1>2. CASE s.gw # g
    <2>1. st = ResetFor(s, g)
      BY <1>2
    <2> QED
      BY <1>2, <2>1, ResetForIsStore
  <1> QED
    BY <1>1, <1>2

(* Every step keeps the copies sound and in order.                         *)
LEMMA SafeNext == Typing /\ Safe /\ [Next]_vars => Safe'
  <1> SUFFICES ASSUME Typing, Safe, [Next]_vars PROVE Safe'
    OBVIOUS
  <1> USE DEF Safe, Sound, ClosedOrder, WakeOwnsItsGameweek, ActOrder,
              clock, brief, chat, queue, history
  <1>a. /\ disk \in Store /\ bmem \in Store /\ cmem \in Store
        /\ season \in [Gameweek -> Decision]
    BY DEF Typing, TypeOK
  <1>b. Idle.gw = 0 /\ Idle.phase = "idle" /\ Idle.approved_plan = NONE
    BY DEF Idle, NoGw
  <1>c. "idle" \notin Terminal /\ "locked" \notin Terminal
        /\ "approved" \notin Terminal /\ "awaiting_approval" \notin Terminal
    BY DEF Terminal
  <1>d. gw \in Nat /\ bgw \in Nat /\ disk.gw \in Nat /\ bmem.gw \in Nat /\ cmem.gw \in Nat
    BY GameweeksAreNat
  <1>0. CASE UNCHANGED vars
    BY <1>0 DEF vars, Recorded, WillWrite
  <1>1. CASE ClockAdvances
    <2>1. gw' \in Nat /\ gw <= gw' /\ (gw' = gw => window # "act")
      BY <1>d, <1>1 DEF ClockAdvances
    <2>2. UNCHANGED <<disk, season, brief, chat, history>>
      BY <1>1 DEF ClockAdvances
    <2>3. Sound(disk)' /\ Sound(bmem)' /\ Sound(cmem)'
      BY <1>d, <2>1, <2>2 DEF Recorded
    <2>4. ClosedOrder'
      BY <1>d, <2>1, <2>2
    <2>5. WakeOwnsItsGameweek'
      BY <1>d, <2>1, <2>2
    <2>6. ActOrder'
      BY <1>d, <2>1, <2>2 DEF WillWrite
    <2> QED
      BY <2>2, <2>3, <2>4, <2>5, <2>6
  <1>2. CASE BriefWake
    <2> DEFINE st == IF disk.gw = gw THEN disk ELSE ResetFor(disk, gw)
    <2>1. /\ st.gw = gw
          /\ st = disk \/ (st.phase = "idle" /\ st.approved_plan = NONE /\ disk.gw # gw)
      BY <1>a, WakeCopy DEF Typing, TypeOK
    <2>2. /\ bpc = "off" /\ disk' = st
          /\ UNCHANGED <<clock, season, chat, history>>
      BY <1>2 DEF BriefWake
    <2>3. Sound(disk)' /\ Sound(cmem)' /\ ClosedOrder'
      <3>1. Sound(cmem)'
        BY <2>2 DEF Recorded
      <3>2. Sound(disk)'
        BY <1>c, <1>d, <2>1, <2>2 DEF Recorded
      <3>3. CASE st = disk
        BY <2>2, <3>1, <3>2, <3>3
      <3>4. CASE st.phase = "idle" /\ disk.gw < gw
        BY <1>c, <1>d, <2>1, <2>2, <3>1, <3>2, <3>4
      <3> QED
        BY <1>d, <2>1, <3>3, <3>4
    <2>4. CASE DecideWake(st) = "none"
      <3>1. UNCHANGED brief
        BY <1>2, <2>4 DEF BriefWake
      <3> QED
        BY <1>d, <2>1, <2>2, <2>3, <3>1 DEF Recorded
    <2>5. CASE DecideWake(st) # "none"
      <3>1. /\ bpc' = (IF DecideWake(st) = "act" THEN "act" ELSE "generate")
            /\ bgw' = gw /\ bmem' = st
        BY <1>2, <2>5 DEF BriefWake
      <3>2. st.phase \notin Terminal
        BY <1>c, <2>1, <2>5 DEF DecideWake
      <3>3. DecideWake(st) = "act" => window = "act"
        BY DEF DecideWake
      <3>4. cmem.phase \in Terminal => cmem.gw < gw
        BY <1>d, <2>1, <3>2
      <3>5. Sound(bmem)'
        BY <1>c, <2>1, <2>2, <2>3, <3>1
      <3>6. WakeOwnsItsGameweek'
        BY <1>d, <2>2, <3>1, <3>2, <3>4
      <3>7. ActOrder'
        BY <2>2, <3>1, <3>3
      <3> QED
        BY <2>2, <2>3, <3>5, <3>6, <3>7
    <2> QED
      BY <2>4, <2>5
  <1>3. ASSUME NEW plan \in OptPlan, BriefGenerates(plan) PROVE Safe'
    BY <1>3 DEF BriefGenerates, Recorded, WillWrite
  <1>4. CASE BriefGenerationFails
    BY <1>b, <1>c, <1>d, <1>4 DEF BriefGenerationFails, BriefOff, Recorded
  <1>5. CASE BriefSends
    BY <1>5 DEF BriefSends, Recorded, WillWrite
  <1>6. CASE BriefSendFails
    BY <1>b, <1>c, <1>d, <1>6 DEF BriefSendFails, BriefOff, Recorded
  <1>7. CASE BriefSaves
    <2>1. /\ bmem.gw = bgw /\ bgw <= gw
          /\ UNCHANGED <<clock, season, chat, yeses, applied>>
      BY <1>7 DEF BriefSaves, Typing
    <2>2. CASE bpc' = "flag"
      <3>1. /\ disk' = bmem' /\ bgw' = bgw
            /\ bmem' \in {SetPending(bmem, bgw, bplan), VoidCarry(bmem, bplan)}
        BY <1>7, <2>2 DEF BriefSaves, BriefOff
      <3>2. /\ bmem'.gw = bgw /\ bmem'.phase = "awaiting_approval"
            /\ bmem'.approved_plan \in {bmem.approved_plan, NONE}
        BY <1>a, <2>1, <3>1 DEF SetPending, VoidCarry, Store
      <3> QED
        BY <1>7, <1>c, <1>d, <2>1, <2>2, <3>1, <3>2 DEF BriefSaves, Recorded
    <2>3. CASE bpc' # "flag"
      <3>1. /\ bpc' = "off" /\ bmem' = Idle
            /\ disk' = [bmem EXCEPT !.phase = "locked", !.final_sent = TRUE]
            /\ bmem.approved_plan \in Plans \ ChipPlans
        BY <1>7, <2>3 DEF BriefSaves, BriefOff, CarriesOver, Typing, TypeOK, OptPlan
      <3>2. /\ disk'.gw = bgw /\ disk'.phase = "locked"
            /\ disk'.approved_plan = bmem.approved_plan
        BY <1>a, <2>1, <3>1 DEF Store
      <3> QED
        BY <1>7, <1>b, <1>c, <1>d, <2>1, <3>1, <3>2 DEF BriefSaves, Recorded
    <2> QED
      BY <2>2, <2>3
  <1>8. CASE BriefFlags
    <2>1. /\ bmem.gw = bgw /\ bgw <= gw
          /\ UNCHANGED <<clock, season, chat, yeses, applied>>
          /\ bpc' = "off" /\ bmem' = Idle
      BY <1>8 DEF BriefFlags, BriefOff, Typing
    <2>2. /\ disk'.gw = bgw /\ disk'.phase = bmem.phase
          /\ disk'.approved_plan = bmem.approved_plan
      BY <1>8, <1>a, <2>1 DEF BriefFlags, Store
    <2> QED
      BY <1>8, <1>b, <1>c, <1>d, <2>1, <2>2 DEF BriefFlags, Recorded
  <1>9. CASE ActRecords
    <2>1. /\ bgw \in Gameweek /\ bmem.gw = bgw /\ bpc' = "receipt"
          /\ UNCHANGED <<clock, disk, bgw, bmem, chat, yeses>>
      BY <1>9 DEF ActRecords, Typing
    <2>2. applied' \subseteq yeses
      BY <1>9, <2>1 DEF ActRecords, ApplyIfApproved, WillWrite
    <2>3. /\ \A g \in Gameweek : g # bgw => season'[g] = season[g]
          /\ season'[bgw] = [status |-> IF WillWrite THEN "locked" ELSE "no_write",
                             plan |-> bmem.approved_plan]
      BY <1>9, <1>a, <2>1 DEF ActRecords
    <2>4. disk.phase \notin Terminal /\ bmem.phase \notin Terminal
      BY <1>9 DEF ActRecords
    <2>5. cmem.phase \in Terminal => cmem.gw \in Gameweek /\ cmem.gw < bgw
      BY <1>9, <1>c DEF ActRecords, Typing
    <2>6. Sound(disk)' /\ Sound(bmem)'
      BY <2>1, <2>4
    <2>7. Sound(cmem)'
      BY <1>d, <2>1, <2>3, <2>5 DEF Recorded
    <2>8. ActOrder'
      BY <1>9, <2>1, <2>3 DEF ActRecords, WillWrite
    <2> QED
      BY <1>9, <2>1, <2>2, <2>6, <2>7, <2>8 DEF ActRecords
  <1>10. CASE ActRecordRaises
    <2>1. applied' \subseteq yeses
      BY <1>10 DEF ActRecordRaises, ApplyIfApproved, WillWrite, Typing
    <2> QED
      BY <1>b, <1>c, <1>d, <1>10, <2>1 DEF ActRecordRaises, BriefOff, Recorded
  <1>11. CASE ActSends
    BY <1>11 DEF ActSends, Recorded, WillWrite
  <1>12. CASE ActSendFails
    BY <1>b, <1>c, <1>d, <1>12 DEF ActSendFails, BriefOff, Recorded
  <1>13. CASE ActCloses
    <2>1. /\ bmem.gw = bgw /\ bpc' = "off" /\ bmem' = Idle
          /\ UNCHANGED <<clock, season, chat, yeses, applied>>
      BY <1>13 DEF ActCloses, BriefOff, Typing
    <2>2. /\ disk'.gw = bgw
          /\ disk'.phase = (IF WillWrite THEN "acted" ELSE "no_write")
          /\ disk'.approved_plan = bmem.approved_plan
      BY <1>13, <1>a, <2>1 DEF ActCloses, Store
    <2>3. season[bgw] = Recorded(disk')
      BY <1>13, <2>2 DEF ActCloses, Recorded
    <2>4. /\ bgw < gw \/ window = "act"
          /\ bgw <= gw /\ (cmem.phase \in Terminal => cmem.gw < bgw)
      BY <1>13 DEF ActCloses
    <2>5. Sound(disk)'
      BY <1>13, <2>1, <2>2, <2>3, <2>4 DEF ActCloses, Recorded
    <2>6. ClosedOrder'
      BY <1>d, <2>1, <2>2, <2>4
    <2> QED
      BY <1>b, <1>c, <1>d, <2>1, <2>5, <2>6 DEF Recorded
  <1>14. CASE BriefKilled
    BY <1>b, <1>c, <1>d, <1>14 DEF BriefKilled, BriefOff, Recorded
  <1>15. ASSUME NEW t \in Tokens, RohitSends(t) PROVE Safe'
    BY <1>15 DEF RohitSends, Recorded, WillWrite
  <1>16. CASE Poll
    BY <1>16 DEF Poll, Recorded, WillWrite
  <1>17. CASE Take
    BY <1>a, <1>d, <1>17 DEF Take, Recorded, WillWrite
  <1>18. CASE ChatApproves
    <2>1. /\ cmem.phase = "awaiting_approval" /\ cmem' = Idle
          /\ UNCHANGED <<clock, season, brief, applied>>
          /\ yeses' = yeses \cup {<<cmem.gw, cmem.pending_plan>>}
      BY <1>18 DEF ChatApproves, GateOpens, Handled
    <2>2. /\ disk'.gw = cmem.gw /\ disk'.phase = "approved"
          /\ disk'.approved_plan = cmem.pending_plan
      BY <1>18, <1>a DEF ChatApproves, Approve, Store
    <2> QED
      BY <1>b, <1>c, <1>d, <2>1, <2>2 DEF Recorded, WillWrite
  <1>19. CASE ChatHolds
    <2>1. cmem' = Idle /\ UNCHANGED <<clock, season, brief, yeses, applied>>
      BY <1>19 DEF ChatHolds, Handled
    <2>2. /\ disk'.gw = cmem.gw /\ disk'.phase = "awaiting_approval"
          /\ disk'.approved_plan = NONE
      BY <1>19, <1>a DEF ChatHolds, Store
    <2> QED
      BY <1>b, <1>c, <1>d, <2>1, <2>2 DEF Recorded, WillWrite
  <1>20. CASE ChatDropsPress
    BY <1>b, <1>c, <1>d, <1>20 DEF ChatDropsPress, Handled, Recorded, WillWrite
  <1>21. CASE ChatAsksModel
    BY <1>21 DEF ChatAsksModel, Recorded, WillWrite
  <1>22. ASSUME NEW plan \in Plans, ChatIterates(plan) PROVE Safe'
    <2>1. cmem' = Idle /\ UNCHANGED <<clock, season, brief, yeses, applied>>
      BY <1>22 DEF ChatIterates, Handled
    <2>2. /\ disk'.gw = cmem.gw /\ disk'.phase = "awaiting_approval"
          /\ disk'.approved_plan = NONE
      BY <1>22, <1>a DEF ChatIterates, VoidCarry, Store
    <2> QED
      BY <1>b, <1>c, <1>d, <2>1, <2>2 DEF Recorded, WillWrite
  <1>23. CASE ChatAnswers
    BY <1>b, <1>c, <1>d, <1>23 DEF ChatAnswers, Handled, Recorded, WillWrite
  <1>24. CASE DaemonRestarts
    BY <1>b, <1>c, <1>d, <1>24 DEF DaemonRestarts, Recorded, WillWrite
  <1> QED
    BY <1>0, <1>1, <1>2, <1>3, <1>4, <1>5, <1>6, <1>7, <1>8, <1>9, <1>10, <1>11,
       <1>12, <1>13, <1>14, <1>15, <1>16, <1>17, <1>18, <1>19, <1>20, <1>21, <1>22,
       <1>23, <1>24
    DEF Next, BriefNext, ChatNext

(* The two together, in every behaviour.                                   *)
LEMMA AlwaysSafe == Spec => [](Typing /\ Safe)
  <1>1. Init => Typing /\ Safe
    BY TypingInit, SafeInit
  <1>2. Typing /\ Safe /\ [Next]_vars => (Typing /\ Safe)'
    BY TypingNext, SafeNext
  <1> QED
    BY <1>1, <1>2, PTL DEF Spec

(* No plan reaches the actuator without a yes for it in its own gameweek,  *)
(* however the brief's and the reply loop's saves overwrite each other     *)
(* (daemon/actuator.py, daemon/brief.py _do_act).                          *)
THEOREM YesBeforeApply == Spec => []NoApplyWithoutYes
  <1>1. Safe => NoApplyWithoutYes
    BY DEF Safe, NoApplyWithoutYes
  <1> QED
    BY <1>1, AlwaysSafe, PTL

(* A locked store never holds a plan that plays a chip: chips never        *)
(* auto-carry (daemon/brief.py _do_final).                                 *)
THEOREM ChipsNeverLock == Spec => []NoChipLocks
  <1>1. Safe => NoChipLocks
    BY DEF Safe, Sound, NoChipLocks
  <1> QED
    BY <1>1, AlwaysSafe, PTL

(* A store that says acted or no_write says what the season state records, *)
(* of the same plan: no stale save brings back a closed phase that the     *)
(* season does not have (daemon/brief.py _do_act).                         *)
THEOREM ClosedIsRecorded == Spec => []ClosedAsRecorded
  <1>1. Safe => ClosedAsRecorded
    BY DEF Safe, Sound, Recorded, ClosedAsRecorded
  <1> QED
    BY <1>1, AlwaysSafe, PTL

-----------------------------------------------------------------------------
(* What LoudDeadline needs at each step: a deadline is closed only after   *)
(* its receipt or its alert has gone out, whatever fails in between and    *)
(* whatever copy is saved (daemon/brief.py _do_act).                       *)
ClosedAloud == disk.phase \in Terminal => disk.gw \in receipts

(* Of every copy, since each may be saved.                                 *)
Told(s) == s.phase \in Terminal => s.gw \in receipts

Announced ==
  /\ Told(disk) /\ Told(bmem) /\ Told(cmem)
  /\ bpc = "close" => bgw \in receipts

LEMMA AnnouncedNext == Typing /\ Announced /\ [Next]_vars => Announced'
  <1> SUFFICES ASSUME Typing, Announced, [Next]_vars PROVE Announced'
    OBVIOUS
  <1> USE DEF Announced, Told, clock, brief, chat, queue, history
  <1>a. /\ disk \in Store /\ bmem \in Store /\ cmem \in Store
        /\ bpc # "off" => bmem.gw = bgw
    BY DEF Typing, TypeOK
  <1>b. Idle.phase = "idle"
    BY IdleIsStore
  <1>c. Terminal = {"acted", "no_write"}
    BY DEF Terminal
  <1>0. CASE UNCHANGED vars \/ ClockAdvances
    BY <1>0 DEF vars, ClockAdvances
  <1>1. CASE BriefWake
    <2> DEFINE st == IF disk.gw = gw THEN disk ELSE ResetFor(disk, gw)
    <2>1. Told(st)
      BY <1>a, <1>c, WakeCopy DEF Typing, TypeOK
    <2>2. disk' = st /\ bmem' \in {bmem, st} /\ bpc' # "close" /\ UNCHANGED <<chat, history>>
      BY <1>1 DEF BriefWake
    <2> QED
      BY <2>1, <2>2
  <1>2. CASE \E plan \in OptPlan : BriefGenerates(plan)
    BY <1>2 DEF BriefGenerates
  <1>3. CASE BriefGenerationFails \/ BriefSendFails \/ ActRecordRaises \/ BriefKilled
    BY <1>b, <1>c, <1>3
    DEF BriefGenerationFails, BriefSendFails, ActRecordRaises, BriefKilled, BriefOff
  <1>4. CASE BriefSends
    BY <1>4 DEF BriefSends
  <1>5. CASE BriefSaves
    <2>1. UNCHANGED <<chat, receipts>> /\ bpc' \in {"flag", "off"}
      BY <1>5 DEF BriefSaves, BriefOff
    <2>2. CASE bpc' = "flag"
      <3>1. disk' = bmem' /\ bmem' \in {SetPending(bmem, bgw, bplan), VoidCarry(bmem, bplan)}
        BY <1>5, <2>2 DEF BriefSaves, BriefOff
      <3>2. bmem'.phase = "awaiting_approval"
        BY <1>a, <3>1 DEF SetPending, VoidCarry, Store
      <3> QED
        BY <1>c, <2>1, <2>2, <3>1, <3>2
    <2>3. CASE bpc' = "off"
      <3>1. bmem' = Idle /\ disk' = [bmem EXCEPT !.phase = "locked", !.final_sent = TRUE]
        BY <1>5, <2>3 DEF BriefSaves, BriefOff
      <3>2. disk'.phase = "locked"
        BY <1>a, <3>1 DEF Store
      <3> QED
        BY <1>b, <1>c, <2>1, <2>3, <3>1, <3>2
    <2> QED
      BY <2>1, <2>2, <2>3
  <1>6. CASE BriefFlags
    <2>1. /\ disk'.phase = bmem.phase /\ disk'.gw = bmem.gw
          /\ bmem' = Idle /\ bpc' = "off" /\ UNCHANGED <<chat, receipts>>
      BY <1>6, <1>a DEF BriefFlags, BriefOff, Store
    <2> QED
      BY <1>b, <1>c, <2>1
  <1>7. CASE ActRecords
    BY <1>7 DEF ActRecords
  <1>8. CASE ActSends
    BY <1>8 DEF ActSends
  <1>9. CASE ActSendFails
    BY <1>b, <1>c, <1>9 DEF ActSendFails, BriefOff
  <1>10. CASE ActCloses
    <2>1. /\ bgw \in receipts /\ disk'.gw = bgw
          /\ bmem' = Idle /\ bpc' = "off" /\ UNCHANGED <<chat, receipts>>
      BY <1>10, <1>a DEF ActCloses, BriefOff, Store
    <2> QED
      BY <1>b, <1>c, <2>1
  <1>11. CASE \E t \in Tokens : RohitSends(t)
    BY <1>11 DEF RohitSends
  <1>12. CASE Poll \/ ChatAsksModel
    BY <1>12 DEF Poll, ChatAsksModel
  <1>13. CASE Take
    BY <1>13 DEF Take
  <1>14. CASE ChatApproves \/ ChatHolds
    <2>1. disk'.phase \in {"approved", "awaiting_approval"}
      BY <1>14, <1>a DEF ChatApproves, ChatHolds, Approve, Store
    <2>2. cmem' = Idle /\ UNCHANGED <<brief, receipts>>
      BY <1>14 DEF ChatApproves, ChatHolds, Handled
    <2> QED
      BY <1>b, <1>c, <2>1, <2>2
  <1>15. ASSUME NEW plan \in Plans, ChatIterates(plan) PROVE Announced'
    <2>1. disk'.phase = "awaiting_approval"
      BY <1>15, <1>a DEF ChatIterates, VoidCarry, Store
    <2>2. cmem' = Idle /\ UNCHANGED <<brief, receipts>>
      BY <1>15 DEF ChatIterates, Handled
    <2> QED
      BY <1>b, <1>c, <2>1, <2>2
  <1>16. CASE ChatDropsPress \/ ChatAnswers \/ DaemonRestarts
    BY <1>b, <1>c, <1>16 DEF ChatDropsPress, ChatAnswers, DaemonRestarts, Handled
  <1> QED
    BY <1>0, <1>1, <1>2, <1>3, <1>4, <1>5, <1>6, <1>7, <1>8, <1>9, <1>10, <1>11,
       <1>12, <1>13, <1>14, <1>15, <1>16
    DEF Next, BriefNext, ChatNext

(* A deadline is never closed in silence: for any plans, faults, messages  *)
(* and interleavings, and touchpoints torn or not.                         *)
THEOREM NoSilentClose == Spec => []ClosedAloud
  <1>1. Init => Announced
    BY IdleIsStore DEF Init, Announced, Told, Terminal
  <1>2. Announced => ClosedAloud
    BY DEF Announced, Told, ClosedAloud
  <1> QED
    BY <1>1, <1>2, AnnouncedNext, TypingInit, TypingNext, PTL DEF Spec

-----------------------------------------------------------------------------
(* What needs wakes and messages to take turns.  Then the copy in use is   *)
(* the file; with no wake killed between its two saves a draft is only     *)
(* ever sent over an idle store; and the file agrees with the consent      *)
(* that stands.  TLC refutes each without what it assumes.                 *)
TakesTurns ==
  /\ bpc = "off" \/ cpc = "idle"
  /\ bpc # "off" => bmem = disk
  /\ cpc # "idle" => cmem = disk

Unsaved == {"generate", "send", "save"}

DraftFirst ==
  /\ bpc \in Unsaved \cup {"flag"} => bact \in {"draft", "final"}
  /\ bpc # "off" /\ bact = "final" => bgw < gw \/ window \in {"final", "act"}
  /\ bpc \in Unsaved /\ bact = "draft" => disk.phase = "idle"
  /\ disk.gw = gw /\ window \in {"quiet", "draft"} /\ ~disk.draft_sent /\ bpc # "flag"
       => disk.phase = "idle"

Consented ==
  /\ disk.phase \in {"approved", "locked"}
       => disk.approved_plan # NONE /\ consent[disk.gw] = disk.approved_plan
  /\ disk.phase \in {"idle", "awaiting_approval"}
       => disk.approved_plan = NONE /\ (disk.gw # NoGw => consent[disk.gw] = NONE)
  /\ \A g \in Gameweek : g > disk.gw => consent[g] = NONE

(* A copy is loaded from the file and saved to it with nobody in between.  *)
LEMMA TurnsNext ==
  ASSUME Overlap = FALSE, TakesTurns, [Next]_vars
  PROVE  TakesTurns'
  <1> USE DEF TakesTurns, clock, brief, chat, queue, history
  <1>1. CASE UNCHANGED vars \/ ClockAdvances \/ (\E t \in Tokens : RohitSends(t)) \/ Poll
    BY <1>1 DEF vars, ClockAdvances, RohitSends, Poll
  <1>2. CASE BriefWake
    BY <1>2 DEF BriefWake
  <1>3. CASE \E plan \in OptPlan : BriefGenerates(plan)
    BY <1>3 DEF BriefGenerates
  <1>4. CASE BriefGenerationFails \/ BriefSendFails \/ ActRecordRaises \/ ActSendFails \/ BriefKilled
    BY <1>4 DEF BriefGenerationFails, BriefSendFails, ActRecordRaises, ActSendFails,
                BriefKilled, BriefOff
  <1>5. CASE BriefSends \/ ActRecords \/ ActSends
    BY <1>5 DEF BriefSends, ActRecords, ActSends
  <1>6. CASE BriefSaves
    BY <1>6 DEF BriefSaves, BriefOff
  <1>7. CASE BriefFlags \/ ActCloses
    BY <1>7 DEF BriefFlags, ActCloses, BriefOff
  <1>8. CASE Take \/ ChatAsksModel
    BY <1>8 DEF Take, ChatAsksModel
  <1>9. CASE \/ ChatApproves \/ ChatHolds \/ ChatDropsPress \/ ChatAnswers
             \/ (\E plan \in Plans : ChatIterates(plan))
    BY <1>9 DEF ChatApproves, ChatHolds, ChatDropsPress, ChatAnswers, ChatIterates, Handled
  <1>10. CASE DaemonRestarts
    BY <1>10 DEF DaemonRestarts
  <1> QED
    BY <1>1, <1>2, <1>3, <1>4, <1>5, <1>6, <1>7, <1>8, <1>9, <1>10
    DEF Next, BriefNext, ChatNext

(* With the facts that hold in any case, in every behaviour.               *)
LEMMA AlwaysTurns ==
  ASSUME Overlap = FALSE
  PROVE  Spec => [](Typing /\ Safe /\ TakesTurns)
  <1>1. Init => TakesTurns
    BY DEF Init, TakesTurns
  <1>2. TakesTurns /\ [Next]_vars => TakesTurns'
    BY TurnsNext
  <1> QED
    BY <1>1, <1>2, AlwaysSafe, PTL DEF Spec

(* With turns, a step of the weekly cycle on the file, by what it writes   *)
(* there: nothing, a fresh cycle, or what its copy - the file - became.    *)
LEMMA Writes ==
  ASSUME Typing, TakesTurns, [Next]_vars
  PROVE  \/ disk' = disk
         \/ BriefWake /\ disk.gw # gw /\ disk' = ResetFor(disk, gw)
         \/ BriefSaves /\ bgw \in Gameweek /\ disk.gw = bgw /\ bmem = disk /\ bpc = "save"
         \/ BriefFlags /\ disk' \in {[disk EXCEPT !.draft_sent = TRUE], [disk EXCEPT !.final_sent = TRUE]}
         \/ ActCloses /\ bmem = disk /\ disk.gw = bgw /\ bgw \in Gameweek
         \/ ChatApproves /\ cmem = disk /\ disk.gw \in Gameweek
         \/ ChatHolds /\ cmem = disk /\ disk.gw \in Gameweek
         \/ \E plan \in Plans : ChatIterates(plan) /\ cmem = disk /\ disk.gw \in Gameweek
  <1> USE DEF Typing, TakesTurns
  <1>1. CASE BriefWake
    BY <1>1 DEF BriefWake
  <1>2. CASE BriefSaves
    BY <1>2 DEF BriefSaves
  <1>3. CASE BriefFlags
    BY <1>3 DEF BriefFlags
  <1>4. CASE ActCloses
    BY <1>4 DEF ActCloses
  <1>5. CASE ChatApproves
    BY <1>5 DEF ChatApproves, GateOpens
  <1>6. CASE ChatHolds
    BY <1>6 DEF ChatHolds, GateHolds
  <1>7. ASSUME NEW plan \in Plans, ChatIterates(plan)
        PROVE  ChatIterates(plan) /\ cmem = disk /\ disk.gw \in Gameweek
    BY <1>7 DEF ChatIterates, Open
  <1>8. \/ BriefWake \/ BriefSaves \/ BriefFlags \/ ActCloses \/ ChatApproves \/ ChatHolds
        \/ (\E plan \in Plans : ChatIterates(plan))
        \/ disk' = disk
    BY DEF Next, BriefNext, ChatNext, vars, ClockAdvances, RohitSends, Poll, Take,
           BriefGenerates, BriefGenerationFails, BriefSends, BriefSendFails, ActRecords,
           ActRecordRaises, ActSends, ActSendFails, BriefKilled, ChatDropsPress,
           ChatAsksModel, ChatAnswers, DaemonRestarts
  <1> QED
    BY <1>1, <1>2, <1>3, <1>4, <1>5, <1>6, <1>7, <1>8

(* A deadline that has been dealt with stays so until the next gameweek,   *)
(* when wakes and messages take turns (daemon/brief.py decide_wake, the    *)
(* phases daemon/loop.py takes an iterate in).                             *)
THEOREM ClosedStays ==
  ASSUME Overlap = FALSE
  PROVE  Spec => ClosedStaysClosed
  <1>1. Typing /\ Safe /\ TakesTurns /\ [Next]_vars
          => [disk.phase \in Terminal /\ disk'.gw = disk.gw => disk'.phase = disk.phase]_vars
    <2> SUFFICES ASSUME Typing, Safe, TakesTurns, [Next]_vars, disk.phase \in Terminal,
                        disk'.gw = disk.gw
                 PROVE  disk'.phase = disk.phase
      OBVIOUS
    <2>1. bpc = "off"
      BY DEF Safe, WakeOwnsItsGameweek
    <2>2. disk \in Store /\ gw \in Gameweek
      BY DEF Typing, TypeOK
    <2>3. disk' # ResetFor(disk, gw) \/ disk.gw = gw
      BY <2>2, ResetForIsStore
    <2>4. ~BriefSaves /\ ~BriefFlags /\ ~ActCloses
      BY <2>1 DEF BriefSaves, BriefFlags, ActCloses
    <2>5. cmem = disk => /\ ~ChatApproves /\ ~ChatHolds
                         /\ \A plan \in Plans : ~ChatIterates(plan)
      BY DEF ChatApproves, GateOpens, ChatHolds, GateHolds, ChatIterates, Open, Terminal
    <2> QED
      BY <2>3, <2>4, <2>5, Writes
  <1> QED
    BY <1>1, AlwaysTurns, PTL DEF Spec, ClosedStaysClosed

(* A draft's wake starts on an idle store and writes it once; a final's    *)
(* runs after the draft window of its gameweek.                            *)
LEMMA DraftFirstNext ==
  ASSUME Overlap = FALSE, TornSaves = FALSE,
         Typing, Safe, TakesTurns, DraftFirst, Consented, [Next]_vars
  PROVE  DraftFirst'
  <1> USE DEF DraftFirst, Unsaved, clock, brief, chat, queue, history
  <1>a. /\ disk \in Store /\ gw \in Nat /\ bgw \in Nat
        /\ gw \in Gameweek
    BY GameweeksAreNat DEF Typing, TypeOK
  <1>b. bpc # "off" => bmem = disk /\ disk.gw = bgw /\ bgw <= gw /\ cpc = "idle"
    BY DEF Typing, TakesTurns, Safe, WakeOwnsItsGameweek
  <1>1. CASE UNCHANGED vars \/ (\E t \in Tokens : RohitSends(t)) \/ Poll \/ Take
             \/ ChatAsksModel \/ ChatDropsPress \/ ChatAnswers \/ DaemonRestarts
    BY <1>1 DEF vars, RohitSends, Poll, Take, ChatAsksModel, ChatDropsPress, ChatAnswers,
                DaemonRestarts
  <1>2. CASE ClockAdvances
    <2>1. /\ disk.gw <= gw
          /\ UNCHANGED <<disk, brief>>
      BY <1>2 DEF ClockAdvances, Safe, Sound
    <2>2. /\ gw' \in Nat
          /\ \/ gw' = gw + 1
             \/ gw' = gw /\ window = "quiet" /\ window' = "draft" /\ bpc = "off"
             \/ gw' = gw /\ window' \in {"final", "act"}
      BY <1>2, <1>a DEF ClockAdvances
    <2>3. disk.gw \in Nat
      BY GameweeksAreNat
    <2> QED
      BY <1>a, <1>b, <2>1, <2>2, <2>3
  <1>3. CASE BriefWake
    <2> DEFINE st == IF disk.gw = gw THEN disk ELSE ResetFor(disk, gw)
    <2>1. /\ bpc = "off" /\ disk' = st /\ UNCHANGED clock
          /\ \/ UNCHANGED brief
             \/ /\ bpc' \in {"act", "generate"} /\ bact' = DecideWake(st) /\ bgw' = gw
                /\ DecideWake(st) \in {"draft", "final", "act"}
                /\ bpc' = "generate" => bact' # "act"
      BY <1>3 DEF BriefWake, DecideWake
    <2>2. st.gw = gw /\ (st = disk \/ st.phase = "idle")
      BY <1>a, WakeCopy
    <2>3. /\ DecideWake(st) = "draft" => window = "draft" /\ ~st.draft_sent
          /\ DecideWake(st) = "final" => window = "final"
      BY DEF DecideWake
    <2> QED
      BY <1>a, <2>1, <2>2, <2>3
  <1>4. CASE (\E plan \in OptPlan : BriefGenerates(plan)) \/ BriefSends \/ ActRecords \/ ActSends
    BY <1>4 DEF BriefGenerates, BriefSends, ActRecords, ActSends
  <1>5. CASE \/ BriefGenerationFails \/ BriefSendFails \/ ActRecordRaises \/ ActSendFails
             \/ BriefKilled
    BY <1>5 DEF BriefGenerationFails, BriefSendFails, ActRecordRaises, ActSendFails,
                BriefKilled, BriefOff
  <1>6. CASE BriefSaves
    <2>1. UNCHANGED clock /\ bpc = "save"
      BY <1>6 DEF BriefSaves
    <2>2. CASE bpc' = "flag"
      BY <1>6, <2>1, <2>2 DEF BriefSaves, BriefOff
    <2>3. CASE bpc' # "flag"
      <3>1. bpc' = "off" /\ bact' = "none" /\ bact = "final" /\ disk'.gw = bgw
        BY <1>6, <1>a, <1>b, <2>1, <2>3 DEF BriefSaves, BriefOff, Store
      <3> QED
        BY <1>a, <2>1, <3>1
    <2> QED
      BY <2>2, <2>3
  <1>7. CASE BriefFlags
    <2>1. /\ UNCHANGED clock /\ bpc = "flag" /\ bpc' = "off" /\ bact' = "none"
          /\ disk'.gw = bgw /\ (bact = "draft" => disk'.draft_sent)
      BY <1>7, <1>a, <1>b DEF BriefFlags, BriefOff, Store
    <2> QED
      BY <1>a, <2>1
  <1>8. CASE ActCloses
    <2>1. /\ UNCHANGED clock /\ bpc = "close" /\ bpc' = "off" /\ bact' = "none" /\ disk'.gw = bgw
      BY <1>8, <1>a, <1>b DEF ActCloses, BriefOff, Store
    <2> QED
      BY <1>a, <2>1 DEF Safe, ActOrder
  <1>9. CASE ChatApproves \/ ChatHolds \/ (\E plan \in Plans : ChatIterates(plan))
    <2>1. /\ cpc # "idle" /\ cmem = disk /\ bpc = "off" /\ disk.phase # "idle"
          /\ UNCHANGED <<clock, brief>>
      BY <1>9 DEF ChatApproves, ChatHolds, ChatIterates, GateOpens, GateHolds, Open, TakesTurns
    <2>2. disk'.gw = disk.gw /\ disk'.draft_sent = disk.draft_sent
      BY <1>9, <1>a, <2>1 DEF ChatApproves, ChatHolds, ChatIterates, Approve, VoidCarry, Store
    <2> QED
      BY <2>1, <2>2
  <1> QED
    BY <1>1, <1>2, <1>3, <1>4, <1>5, <1>6, <1>7, <1>8, <1>9 DEF Next, BriefNext, ChatNext

(* The file approves or locks the plan consented to, and before that there *)
(* is neither a plan approved nor consent.                                 *)
LEMMA ConsentedNext ==
  ASSUME Overlap = FALSE, TornSaves = FALSE,
         Typing, Safe, TakesTurns, DraftFirst, Consented, [Next]_vars
  PROVE  Consented'
  <1> USE DEF Consented
  <1>a. /\ disk \in Store /\ gw \in Gameweek /\ consent \in [Gameweek -> OptPlan]
        /\ gw \in Nat /\ disk.gw \in Nat /\ disk.gw <= gw
        /\ bmem \in Store /\ Gameweek \subseteq Nat
    BY GameweeksAreNat, GameweekIsNat DEF Typing, TypeOK, Safe, Sound
  <1>1. CASE BriefSaves
    <2>1. bgw \in Gameweek /\ disk.gw = bgw /\ bmem = disk /\ bpc = "save"
      BY <1>1 DEF BriefSaves, Typing, TakesTurns
    <2>2. CASE bact = "draft" \/ ~CarriesOver
      <3>1. /\ \/ bact = "draft" /\ disk' = SetPending(disk, bgw, bplan)
               \/ disk' = VoidCarry(disk, bplan)
            /\ consent' = [consent EXCEPT ![bgw] = NONE]
        BY <1>1, <2>1, <2>2 DEF BriefSaves, BriefOff
      <3>2. bact = "draft" => disk.approved_plan = NONE
        BY <2>1 DEF DraftFirst, Unsaved
      <3>3. disk'.gw = bgw /\ disk'.phase = "awaiting_approval" /\ disk'.approved_plan = NONE
        BY <1>a, <2>1, <3>1, <3>2 DEF SetPending, VoidCarry, Store
      <3> QED
        BY <1>a, <2>1, <3>1, <3>3
    <2>3. CASE bact # "draft" /\ CarriesOver
      <3>1. /\ disk' = [disk EXCEPT !.phase = "locked", !.final_sent = TRUE]
            /\ consent' = consent
        BY <1>1, <2>1, <2>3 DEF BriefSaves, BriefOff
      <3>2. /\ disk'.gw = bgw /\ disk'.phase = "locked"
            /\ disk'.approved_plan = disk.approved_plan
        BY <1>a, <2>1, <3>1 DEF Store
      <3>3. disk.approved_plan # NONE /\ disk.phase \notin Terminal
        BY <2>1, <2>3 DEF CarriesOver, Safe, WakeOwnsItsGameweek
      <3> QED
        BY <1>a, <2>1, <3>1, <3>2, <3>3 DEF Store, Phases, Terminal
    <2> QED
      BY <2>2, <2>3
  <1>2. CASE BriefWake
    <2>1. consent' = consent /\ (disk' = disk \/ (disk.gw # gw /\ disk' = ResetFor(disk, gw)))
      BY <1>2 DEF BriefWake, history
    <2>2. CASE disk' = disk
      BY <2>1, <2>2
    <2>3. CASE disk.gw # gw /\ disk' = ResetFor(disk, gw)
      BY <1>a, <2>1, <2>3, ResetForIsStore
    <2> QED
      BY <2>1, <2>2, <2>3
  <1>3. CASE BriefFlags
    <2>1. consent' = consent /\ disk' \in {[disk EXCEPT !.draft_sent = TRUE], [disk EXCEPT !.final_sent = TRUE]}
      BY <1>3 DEF BriefFlags, history, TakesTurns
    <2>2. /\ disk'.gw = disk.gw /\ disk'.phase = disk.phase
          /\ disk'.approved_plan = disk.approved_plan
      BY <1>a, <2>1 DEF Store
    <2> QED
      BY <2>1, <2>2
  <1>4. CASE ActCloses
    <2>1. consent' = consent /\ disk'.phase \in Terminal /\ disk'.gw = disk.gw
      BY <1>4, <1>a DEF ActCloses, history, TakesTurns, Store, Terminal
    <2> QED
      BY <2>1 DEF Terminal
  <1>5. CASE ChatApproves
    <2>1. /\ cmem = disk /\ disk.gw \in Gameweek /\ disk.pending_plan # NONE
          /\ disk' = Approve(disk) /\ consent' = [consent EXCEPT ![disk.gw] = disk.pending_plan]
      BY <1>5 DEF ChatApproves, GateOpens, TakesTurns, Typing
    <2>2. /\ disk'.gw = disk.gw /\ disk'.phase = "approved"
          /\ disk'.approved_plan = disk.pending_plan
      BY <1>a, <2>1 DEF Approve, Store
    <2> QED
      BY <1>a, <2>1, <2>2
  <1>6. CASE ChatHolds \/ (\E plan \in Plans : ChatIterates(plan))
    <2>1. /\ cmem = disk /\ disk.gw \in Gameweek
          /\ consent' = [consent EXCEPT ![disk.gw] = NONE]
      BY <1>6 DEF ChatHolds, ChatIterates, GateHolds, Open, TakesTurns, Typing
    <2>2. disk'.gw = disk.gw /\ disk'.phase = "awaiting_approval" /\ disk'.approved_plan = NONE
      BY <1>6, <1>a, <2>1 DEF ChatHolds, ChatIterates, VoidCarry, Store
    <2> QED
      BY <1>a, <2>1, <2>2
  <1>7. CASE disk' = disk /\ consent' = consent
    BY <1>7
  <1>8. \/ BriefWake \/ BriefSaves \/ BriefFlags \/ ActCloses \/ ChatApproves \/ ChatHolds
        \/ (\E plan \in Plans : ChatIterates(plan))
        \/ (disk' = disk /\ consent' = consent)
    BY DEF Next, BriefNext, ChatNext, vars, history, ClockAdvances, RohitSends, Poll, Take,
           BriefGenerates, BriefGenerationFails, BriefSends, BriefSendFails, ActRecords,
           ActRecordRaises, ActSends, ActSendFails, BriefKilled, ChatDropsPress,
           ChatAsksModel, ChatAnswers, DaemonRestarts
  <1> QED
    BY <1>1, <1>2, <1>3, <1>4, <1>5, <1>6, <1>7, <1>8

(* All of it, in every behaviour.                                          *)
LEMMA AlwaysConsented ==
  ASSUME Overlap = FALSE, TornSaves = FALSE
  PROVE  Spec => [](Typing /\ Safe /\ TakesTurns /\ DraftFirst /\ Consented)
  <1>1. Init => TakesTurns /\ DraftFirst /\ Consented
    BY DEF Init, TakesTurns, DraftFirst, Unsaved, Consented, Idle
  <1>2. TakesTurns /\ [Next]_vars => TakesTurns'
    BY TurnsNext
  <1>3. Typing /\ Safe /\ TakesTurns /\ DraftFirst /\ Consented /\ [Next]_vars
          => DraftFirst' /\ Consented'
    BY DraftFirstNext, ConsentedNext
  <1> QED
    BY <1>1, <1>2, <1>3, AlwaysSafe, PTL DEF Spec

(* The deadline decides on the consent that stands: the plan last approved *)
(* and neither held nor replaced since, or nothing (daemon/brief.py        *)
(* _do_act, daemon/loop.py), when wakes and messages take turns and no     *)
(* wake is killed between its two saves.                                   *)
THEOREM DecidesOnConsent ==
  ASSUME Overlap = FALSE, TornSaves = FALSE
  PROVE  Spec => StandingConsentDecides
  <1>1. Typing /\ Safe /\ TakesTurns /\ Consented
          => [ActRecords => consent[bgw] = IF WillWrite THEN bmem.approved_plan ELSE NONE]_vars
    <2> SUFFICES ASSUME Typing, Safe, TakesTurns, Consented, ActRecords
                 PROVE  consent[bgw] = IF WillWrite THEN bmem.approved_plan ELSE NONE
      OBVIOUS
    <2>1. bpc # "off" /\ bmem = disk /\ disk.gw = bgw /\ bgw \in Gameweek
      BY DEF ActRecords, Typing, TakesTurns
    <2>2. disk.phase \in Phases \ Terminal
      BY <2>1 DEF Typing, TypeOK, Store, Safe, WakeOwnsItsGameweek
    <2>3. disk.gw # NoGw
      BY <2>1, GameweekIsNat DEF NoGw
    <2> QED
      BY <2>1, <2>2, <2>3 DEF Consented, WillWrite, Phases, Terminal
  <1> QED
    BY <1>1, AlwaysConsented, PTL DEF StandingConsentDecides

-----------------------------------------------------------------------------
(* What WriteGate calls asked, gate and decided, of a store of gameweek g. *)
Asked(s) == [g \in Gameweek |-> IF s.gw = g THEN s.pending_plan ELSE NONE]
Opened(s) == [g \in Gameweek |->
                IF s.gw = g /\ s.phase \in {"approved", "locked"}
                  THEN s.approved_plan ELSE NONE]

(* The actions of WriteGate on those three functions, named once.          *)
GateStutters == Asked(disk)' = Asked(disk) /\ Opened(disk)' = Opened(disk) /\ season' = season
GateAsks(g, plan) ==
  /\ Asked(disk)' = [Asked(disk) EXCEPT ![g] = plan]
  /\ Opened(disk)' = [Opened(disk) EXCEPT ![g] = NONE]
  /\ season' = season
GateOpened(g) ==
  /\ Asked(disk)[g] # NONE /\ Opened(disk)[g] = NONE
  /\ Opened(disk)' = [Opened(disk) EXCEPT ![g] = Asked(disk)[g]]
  /\ Asked(disk)' = Asked(disk) /\ season' = season
GateHeld(g) ==
  /\ Opened(disk)[g] # NONE
  /\ Asked(disk)' = [Asked(disk) EXCEPT ![g] = Opened(disk)[g]]
  /\ Opened(disk)' = [Opened(disk) EXCEPT ![g] = NONE]
  /\ season' = season
GateDecides(g) ==
  /\ \/ /\ Opened(disk)[g] # NONE
        /\ season' = [season EXCEPT ![g] = [status |-> "locked", plan |-> Opened(disk)[g]]]
     \/ /\ Opened(disk)[g] = NONE
        /\ season' = [season EXCEPT ![g] = [status |-> "no_write", plan |-> NONE]]
  /\ Asked(disk)' = Asked(disk) /\ Opened(disk)' = Opened(disk)
GateShuts(g) ==
  /\ season[g].status = "locked" /\ Opened(disk)[g] = season[g].plan
  /\ Opened(disk)' = [Opened(disk) EXCEPT ![g] = NONE]
  /\ Asked(disk)' = Asked(disk) /\ season' = season

GateMoves ==
  \/ GateStutters
  \/ \E g \in Gameweek :
       \/ \E plan \in Plans \cup {NONE} : GateAsks(g, plan)
       \/ GateOpened(g) \/ GateHeld(g) \/ GateDecides(g) \/ GateShuts(g)

(* They are those of the module.                                           *)
LEMMA GateMovesIsGateNext ==
  GateMoves => [Gate!Next]_<<Asked(disk), Opened(disk), season>>
  BY DEF GateMoves, GateStutters, GateAsks, GateOpened, GateHeld, GateDecides, GateShuts,
         Gate!Next, Gate!Ask, Gate!Open, Gate!Hold, Gate!Decide, Gate!Shut, Asked, Opened

(* A store whose phase approves nothing has a closed gate.                 *)
LEMMA ClosedGate ==
  ASSUME NEW s \in Store, NEW t \in Store, NEW g \in Gameweek, s.gw = g, t.gw = g,
         t.phase \notin {"approved", "locked"}
  PROVE  /\ Asked(t) = [Asked(s) EXCEPT ![g] = t.pending_plan]
         /\ Opened(t) = [Opened(s) EXCEPT ![g] = NONE]
  BY DEF Asked, Opened

(* Each step of the weekly cycle is a step of the write gate, or none.     *)
LEMMA StepsAreGateSteps ==
  ASSUME Overlap = FALSE, TornSaves = FALSE,
         Typing, Safe, TakesTurns, DraftFirst, Consented, [Next]_vars
  PROVE  GateMoves
  <1>a. /\ disk \in Store /\ disk' \in Store /\ gw \in Gameweek /\ NoGw \notin Gameweek
        /\ season \in [Gameweek -> Decision]
    BY TypingNext, GameweekIsNat DEF Typing, TypeOK, NoGw
  <1>b. bpc # "off" => /\ bmem = disk /\ disk.gw = bgw /\ bgw \in Gameweek
                       /\ disk.phase \in Phases \ Terminal
    BY <1>a DEF Typing, TakesTurns, Safe, WakeOwnsItsGameweek, Store
  <1>c. bpc # "off" => /\ WillWrite <=> disk.phase \in {"approved", "locked"}
                       /\ Opened(disk)[bgw] = (IF WillWrite THEN disk.approved_plan ELSE NONE)
                       /\ WillWrite => disk.approved_plan # NONE
                       /\ ~WillWrite => disk.approved_plan = NONE
    BY <1>b DEF WillWrite, Consented, Phases, Terminal, Opened
  <1>1. CASE BriefSaves
    <2>1. bgw \in Gameweek /\ bmem = disk /\ disk.gw = bgw /\ season' = season
          /\ bplan \in Plans \cup {NONE}
      BY <1>1, <1>b DEF BriefSaves, Typing, TypeOK, OptPlan
    <2>2. CASE bact = "draft" \/ ~CarriesOver
      <3>1. disk' \in {SetPending(disk, bgw, bplan), VoidCarry(disk, bplan)}
        BY <1>1, <2>1, <2>2 DEF BriefSaves, BriefOff
      <3>2. disk'.gw = bgw /\ disk'.phase = "awaiting_approval" /\ disk'.pending_plan = bplan
        BY <1>a, <2>1, <3>1 DEF SetPending, VoidCarry, Store
      <3>3. GateAsks(bgw, bplan)
        BY <1>a, <2>1, <3>2, ClosedGate DEF GateAsks
      <3> QED
        BY <2>1, <3>3 DEF GateMoves
    <2>3. CASE bact # "draft" /\ CarriesOver
      <3>1. disk' = [disk EXCEPT !.phase = "locked", !.final_sent = TRUE]
        BY <1>1, <2>1, <2>3 DEF BriefSaves, BriefOff
      <3>2. /\ disk'.gw = disk.gw /\ disk'.pending_plan = disk.pending_plan
            /\ disk'.phase = "locked" /\ disk'.approved_plan = disk.approved_plan
        BY <1>a, <3>1 DEF Store
      <3>3. disk.phase \in {"approved", "locked"}
        BY <1>1, <1>c, <2>1, <2>3 DEF BriefSaves, CarriesOver
      <3>4. GateStutters
        BY <2>1, <3>2, <3>3 DEF GateStutters, Asked, Opened
      <3> QED
        BY <3>4 DEF GateMoves
    <2> QED
      BY <2>2, <2>3
  <1>2. CASE BriefWake /\ disk.gw # gw /\ disk' = ResetFor(disk, gw)
    <2>1. season' = season /\ disk'.gw = gw /\ disk'.pending_plan = NONE /\ disk'.phase = "idle"
      BY <1>2 DEF BriefWake, ResetFor, Idle
    <2>2. Asked(disk)' = [g \in Gameweek |-> NONE] /\ Opened(disk)' = [g \in Gameweek |-> NONE]
      BY <2>1 DEF Asked, Opened
    <2>3. CASE disk.gw \in Gameweek
      <3>1. GateAsks(disk.gw, NONE)
        BY <2>1, <2>2, <2>3 DEF GateAsks, Asked, Opened
      <3> QED
        BY <2>3, <3>1 DEF GateMoves
    <2>4. CASE disk.gw \notin Gameweek
      <3>1. GateStutters
        BY <2>1, <2>2, <2>4 DEF GateStutters, Asked, Opened
      <3> QED
        BY <3>1 DEF GateMoves
    <2> QED
      BY <2>3, <2>4
  <1>3. CASE BriefFlags /\ disk' \in {[disk EXCEPT !.draft_sent = TRUE], [disk EXCEPT !.final_sent = TRUE]}
    <2>1. /\ season' = season /\ disk'.gw = disk.gw /\ disk'.pending_plan = disk.pending_plan
          /\ disk'.phase = disk.phase /\ disk'.approved_plan = disk.approved_plan
      BY <1>3, <1>a DEF BriefFlags, Store
    <2> QED
      BY <2>1 DEF GateMoves, GateStutters, Asked, Opened
  <1>4. CASE ActCloses
    <2>1. /\ season' = season /\ bgw \in Gameweek /\ bmem = disk /\ disk.gw = bgw
          /\ season[bgw] = [status |-> IF WillWrite THEN "locked" ELSE "no_write",
                            plan |-> disk.approved_plan]
      BY <1>4, <1>b DEF ActCloses, Safe, ActOrder
    <2>2. disk'.gw = bgw /\ disk'.phase \in Terminal /\ disk'.pending_plan = disk.pending_plan
      BY <1>4, <1>a, <2>1 DEF ActCloses, Store, Terminal
    <2>3. /\ Asked(disk)' = Asked(disk)
          /\ Opened(disk)' = [Opened(disk) EXCEPT ![bgw] = NONE]
      BY <1>a, <2>1, <2>2 DEF Asked, Opened, Terminal
    <2>4. CASE WillWrite
      <3>1. GateShuts(bgw)
        BY <1>4, <1>c, <2>1, <2>3, <2>4 DEF GateShuts, ActCloses
      <3> QED
        BY <2>1, <3>1 DEF GateMoves
    <2>5. CASE ~WillWrite
      <3>1. Opened(disk)[bgw] = NONE
        BY <1>4, <1>c, <2>5 DEF ActCloses
      <3>2. Opened(disk)' = Opened(disk)
        BY <2>3, <3>1 DEF Opened
      <3> QED
        BY <2>1, <2>3, <3>2 DEF GateMoves, GateStutters
    <2> QED
      BY <2>4, <2>5
  <1>5. CASE ChatApproves /\ cmem = disk /\ disk.gw \in Gameweek
    <2>1. /\ disk.phase = "awaiting_approval" /\ disk.pending_plan # NONE
          /\ disk' = Approve(disk) /\ season' = season
      BY <1>5 DEF ChatApproves, GateOpens
    <2>2. /\ disk'.gw = disk.gw /\ disk'.phase = "approved"
          /\ disk'.approved_plan = disk.pending_plan /\ disk'.pending_plan = disk.pending_plan
      BY <1>a, <2>1 DEF Approve, Store
    <2>3. GateOpened(disk.gw)
      BY <1>5, <2>1, <2>2 DEF GateOpened, Asked, Opened
    <2> QED
      BY <1>5, <2>3 DEF GateMoves
  <1>6. CASE ChatHolds /\ cmem = disk /\ disk.gw \in Gameweek
    <2>1. /\ disk.phase = "locked" /\ disk.approved_plan # NONE /\ season' = season
      BY <1>6 DEF ChatHolds, GateHolds, Consented
    <2>2. /\ disk'.gw = disk.gw /\ disk'.phase = "awaiting_approval"
          /\ disk'.pending_plan = disk.approved_plan
      BY <1>6, <1>a DEF ChatHolds, Store
    <2>3. GateHeld(disk.gw)
      BY <1>6, <1>a, <2>1, <2>2, ClosedGate DEF GateHeld, Opened
    <2> QED
      BY <1>6, <2>3 DEF GateMoves
  <1>7. ASSUME NEW plan \in Plans, ChatIterates(plan), cmem = disk, disk.gw \in Gameweek
        PROVE  GateMoves
    <2>1. disk' = VoidCarry(disk, plan) /\ season' = season
      BY <1>7 DEF ChatIterates
    <2>2. disk'.gw = disk.gw /\ disk'.phase = "awaiting_approval" /\ disk'.pending_plan = plan
      BY <1>a, <2>1 DEF VoidCarry, Store
    <2>3. GateAsks(disk.gw, plan)
      BY <1>7, <1>a, <2>1, <2>2, ClosedGate DEF GateAsks
    <2> QED
      BY <1>7, <2>3 DEF GateMoves
  <1>8. CASE disk' = disk /\ ActRecords
    <2>1. /\ bgw \in Gameweek /\ bmem = disk
          /\ season' = [season EXCEPT ![bgw] =
                          [status |-> IF WillWrite THEN "locked" ELSE "no_write",
                           plan |-> disk.approved_plan]]
      BY <1>8, <1>b DEF ActRecords
    <2>2. GateDecides(bgw)
      BY <1>8, <1>c, <2>1 DEF GateDecides, ActRecords
    <2> QED
      BY <2>1, <2>2 DEF GateMoves
  <1>9. CASE disk' = disk /\ ~ActRecords
    <2>1. season' = season
      BY <1>9 DEF Next, BriefNext, ChatNext, vars, ClockAdvances, RohitSends, Poll, Take,
             BriefWake, BriefGenerates, BriefGenerationFails, BriefSends, BriefSendFails,
             BriefSaves, BriefFlags, ActCloses, ActRecordRaises, ActSends, ActSendFails,
             BriefKilled, ChatApproves, ChatHolds, ChatIterates, ChatDropsPress,
             ChatAsksModel, ChatAnswers, DaemonRestarts
    <2> QED
      BY <1>9, <2>1 DEF GateMoves, GateStutters
  <1> QED
    BY <1>1, <1>2, <1>3, <1>4, <1>5, <1>6, <1>7, <1>8, <1>9, Writes

(* The file with its two processes implements the abstract write gate:     *)
(* a plan is asked about, the gate opens for that plan alone and only from *)
(* closed, and the decision is what it is open for (daemon/plan.py), when  *)
(* wakes and messages take turns and no wake is killed between two saves.  *)
THEOREM GateImplemented ==
  ASSUME Overlap = FALSE, TornSaves = FALSE
  PROVE  Spec => ImplementsWriteGate
  <1>1. Init => Gate!Init
    BY GameweekIsNat DEF Init, Gate!Init, Idle, NoGw, Undecided
  <1>2. Typing /\ Safe /\ TakesTurns /\ DraftFirst /\ Consented /\ [Next]_vars
          => [Gate!Next]_<<Asked(disk), Opened(disk), season>>
    BY StepsAreGateSteps, GateMovesIsGateNext
  <1> QED
    BY <1>1, <1>2, AlwaysConsented, PTL DEF Spec, ImplementsWriteGate, Gate!Spec, Asked, Opened
=============================================================================
