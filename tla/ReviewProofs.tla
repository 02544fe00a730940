----------------------------- MODULE ReviewProofs -----------------------------
(***************************************************************************)
(* What is proved of the review wake and of the season file it shares with *)
(* the brief and the command line, for any chats, replies, players, caps   *)
(* and number of gameweeks.                                                *)
(***************************************************************************)
EXTENDS SeasonProofs, SequenceTheorems

(* The review: its gameweek, between two tries as well, is the one after   *)
(* the last marked, or the first one marked at all, and who is not to be   *)
(* served any more has been.                                               *)
Delivering ==
    /\ last \in Nat /\ game \in [open : Nat, settled : Nat] /\ got \subseteq Chats
    /\ rv = [pc |-> rv.pc, gw |-> rv.gw, todo |-> rv.todo] /\ rv.gw \in Nat
    /\ last # 0 => rv.gw \in {0, last + 1}
    /\ rv.pc # "idle" => rv.gw # 0 /\ Chats \ rv.todo \subseteq got

-----------------------------------------------------------------------------
LEMMA DeliveringStep == Delivering /\ [Next]_vars => Delivering'
<1> SUFFICES ASSUME Delivering, [Next]_vars PROVE Delivering'
  OBVIOUS
<1> USE DEF Delivering
<1>1. CASE GameStep
  <2>1. UNCHANGED <<last, rv, got>>
    BY <1>1 DEF GameStep, reviewVars
  <2>2. \/ game' = game \/ game' = [game EXCEPT !.open = @ + 1]
        \/ game' = [game EXCEPT !.settled = @ + 1]
    BY <1>1 DEF GameStep, GameNext, AppTransfer, AppFreeHit, Deadline, Settle
  <2>3. game' \in [open : Nat, settled : Nat]
    BY <2>2
  <2> QED
    BY <2>1, <2>3
<1>2. CASE CliStep
  BY <1>2 DEF CliStep, CliNext, CliLoad, CliSave, reviewVars
<1>3. CASE BriefNext
  BY <1>3 DEF BriefNext, DraftSync, DraftSynced, Draft, ActLoad, ActSave, BriefFails,
              reviewVars, seasonVars
<1>4. CASE ChatReads
  BY <1>4 DEF ChatReads, seasonVars
<1>5. CASE ChatNotes
  BY <1>5 DEF ChatNotes, seasonVars
<1>6. CASE ReviewWake
  <2>1. /\ NextReviewGw(game.settled, last) # 0
        /\ rv' = [pc |-> "sync", gw |-> NextReviewGw(game.settled, last), todo |-> Chats]
        /\ got' \subseteq Chats /\ UNCHANGED <<game, last>>
    BY <1>6 DEF ReviewWake, seasonVars
  <2>2. /\ NextReviewGw(game.settled, last) \in Nat
        /\ NextReviewGw(game.settled, last) # 0 /\ last # 0
             => NextReviewGw(game.settled, last) = last + 1
    BY DEF NextReviewGw
  <2> QED
    BY <2>1, <2>2
<1>7. CASE ReviewSync \/ ReviewSynced
  BY <1>7 DEF ReviewSync, ReviewSynced
<1>8. CASE ReviewReply \/ ReviewNotes
  BY <1>8 DEF ReviewReply, ReviewNotes, seasonVars
<1>9. ASSUME NEW chat \in Chats, ReviewSend(chat) PROVE Delivering'
  BY <1>9 DEF ReviewSend, seasonVars
<1>10. CASE ReviewMark
  BY <1>10 DEF ReviewMark, Idle, seasonVars
<1>11. CASE ReviewFails
  BY <1>11 DEF ReviewFails, Idle
<1>12. CASE UNCHANGED vars
  BY <1>12 DEF vars, reviewVars, seasonVars
<1> QED
  BY <1>1, <1>2, <1>3, <1>4, <1>5, <1>6, <1>7, <1>8, <1>9, <1>10, <1>11, <1>12
  DEF Next, ReviewNext

LEMMA InitDelivering == Init => Delivering
BY DEF Init, SeasonInit, Delivering, Idle

(* Only the mark moves `last`, and only a wake that is sending.            *)
LEMMA OnlyMark ==
  [Next]_vars /\ last' # last => ReviewMark
BY DEF Next, GameStep, CliStep, BriefNext, DraftSync, DraftSynced, Draft, ActLoad, ActSave,
       BriefFails, ChatReads, ChatNotes, ReviewNext, ReviewWake, ReviewSync, ReviewSynced,
       ReviewReply, ReviewNotes, ReviewSend, ReviewFails, vars, reviewVars

(* A gameweek is marked as reviewed only when every chat has had its       *)
(* review, whatever failed and was started again on the way.               *)
THEOREM DeliveredFirst == Spec => DeliveredBeforeMark
<1>1. Delivering /\ [Next]_vars => [last' # last => got = Chats]_vars
  BY OnlyMark DEF Delivering, ReviewMark
<1> QED
  BY <1>1, InitDelivering, DeliveringStep, PTL DEF Spec, DeliveredBeforeMark

(* The view of the abstract duty stays: what no wake of the review does.   *)
LEMMA DutyKept ==
  ASSUME Delivering, GameStep \/ CliStep \/ BriefNext \/ ChatReads \/ ChatNotes \/ UNCHANGED vars
  PROVE  UNCHANGED <<last, rv, got>> /\ (game'.settled = game.settled \/ Settle)
<1>1. CASE GameStep
  <2>1. UNCHANGED <<last, rv, got>>
    BY <1>1 DEF GameStep, reviewVars
  <2>2. \/ game' = game \/ game' = [game EXCEPT !.open = @ + 1] \/ Settle
    BY <1>1 DEF GameStep, GameNext, AppTransfer, AppFreeHit, Deadline
  <2> QED
    BY <2>1, <2>2 DEF Delivering
<1>2. CASE ~GameStep
  BY <1>2 DEF CliStep, CliNext, CliLoad, CliSave, BriefNext, DraftSync, DraftSynced, Draft, ActLoad,
              ActSave, BriefFails, ChatReads, ChatNotes, vars, reviewVars, seasonVars
<1> QED
  BY <1>1, <1>2

(* Every step is a step of the duty, or one it does not see.               *)
LEMMA StepsAreDuty ==
  Delivering /\ [Next]_vars => [Duty!Next]_<<game.settled, last, rv.gw, got>>
<1> DEFINE view == <<game.settled, last, rv.gw, got>>
<1> SUFFICES ASSUME Delivering, [Next]_vars PROVE Duty!Next \/ UNCHANGED view
  OBVIOUS
<1>0. game.settled \in Nat /\ last \in Nat /\ rv.gw \in Nat
  BY DEF Delivering
<1>1. CASE GameStep \/ CliStep \/ BriefNext \/ ChatReads \/ ChatNotes \/ UNCHANGED vars
  <2>1. UNCHANGED <<last, rv, got>> /\ (game'.settled = game.settled \/ Settle)
    BY <1>1, DutyKept
  <2>2. Settle => game'.settled = game.settled + 1
    BY DEF Settle, Delivering
  <2> QED
    BY <2>1, <2>2 DEF Duty!Next, Duty!Settle
<1>2. CASE ReviewWake
  <2> DEFINE gw == NextReviewGw(game.settled, last)
  <2>1. /\ gw # 0 /\ rv'.gw = gw /\ got' = (IF rv.gw = gw THEN got ELSE {})
        /\ UNCHANGED <<game, last>>
    BY <1>2 DEF ReviewWake, seasonVars
  <2>2. /\ gw \in 1..game.settled
        /\ IF last = 0 THEN gw = game.settled ELSE gw = last + 1
    BY <1>0, <2>1 DEF NextReviewGw
  <2>3. CASE rv.gw = gw
    BY <2>1, <2>3
  <2>4. CASE rv.gw # gw
    <3>1. last # 0 => rv.gw = 0
      BY <2>2, <2>4 DEF Delivering
    <3>2. Duty!Begin(gw)
      BY <2>1, <2>2, <2>4, <3>1 DEF Duty!Begin
    <3> QED
      BY <2>2, <3>2 DEF Duty!Next
  <2> QED
    BY <2>3, <2>4
<1>3. CASE ReviewSync \/ ReviewSynced \/ ReviewReply \/ ReviewNotes \/ ReviewFails
  <2>1. UNCHANGED <<game, last, got>> /\ rv'.gw = rv.gw
    BY <1>3 DEF Delivering, ReviewSync, ReviewSynced, ReviewReply, ReviewNotes, ReviewFails, Idle,
                seasonVars
  <2> QED
    BY <2>1
<1>4. ASSUME NEW chat \in Chats, ReviewSend(chat) PROVE Duty!Next
  <2>1. /\ rv.pc = "send" /\ UNCHANGED <<game, last>> /\ rv'.gw = rv.gw /\ got' = got \cup {chat}
    BY <1>4 DEF Delivering, ReviewSend, seasonVars
  <2>2. Duty!Serve(chat)
    BY <2>1 DEF Duty!Serve, Delivering
  <2> QED
    BY <2>2 DEF Duty!Next
<1>5. CASE ReviewMark
  <2>1. /\ rv.pc = "send" /\ rv.todo = {} /\ UNCHANGED <<game, got>> /\ last' = rv.gw /\ rv'.gw = 0
    BY <1>5 DEF ReviewMark, Idle, seasonVars
  <2>2. Duty!Mark
    BY <2>1 DEF Duty!Mark, Delivering
  <2> QED
    BY <2>2 DEF Duty!Next
<1> QED
  BY <1>1, <1>2, <1>3, <1>4, <1>5 DEF Next, ReviewNext

(* The review wakes, however they fail and overlap with the other writers, *)
(* implement the duty: no gameweek is skipped, none is begun before the    *)
(* one under review is done, and none is done before every chat was told.  *)
THEOREM DutyImplemented == Spec => ImplementsReviewDuty
<1>1. Init => Duty!Init
  BY DEF Init, SeasonInit, Idle, Duty!Init
<1> QED
  BY <1>1, InitDelivering, DeliveringStep, StepsAreDuty, PTL
  DEF Spec, ImplementsReviewDuty, Duty!Spec

-----------------------------------------------------------------------------
(* The gates of the diary.                                                 *)

NoRepeat(s) == \A i, j \in DOMAIN s : s[i] = s[j] => i = j

(* One item of the gate after the other, from what the ones before left.   *)
Sifted(items, refused, m, kept) ==
    [n \in 0..m |->
       IF n = 0 THEN <<>>
       ELSE IF items[n] \in refused \cup Range(kept[n - 1]) THEN kept[n - 1]
       ELSE Append(kept[n - 1], items[n])]

LEMMA SiftExists ==
  ASSUME NEW items, NEW refused
  PROVE  \A m \in Nat : \E kept : kept = Sifted(items, refused, m, kept)
<1> DEFINE None == {m \in Nat : ~ \E kept : kept = Sifted(items, refused, m, kept)}
<1> SUFFICES ASSUME None # {} PROVE FALSE
  OBVIOUS
<1>1. PICK m \in None : \A k \in None : m <= k
  BY LeastOf
<1>2. m \in Nat /\ ~ \E kept : kept = Sifted(items, refused, m, kept)
  OBVIOUS
<1>3. m # 0
  <2> DEFINE start == [n \in 0..0 |-> <<>>]
  <2>1. start = Sifted(items, refused, 0, start)
    <3>1. Sifted(items, refused, 0, start) = [n \in 0..0 |-> <<>>]
      BY DEF Sifted
    <3> QED
      BY <3>1
  <2> QED
    BY <1>2, <2>1
<1>4. PICK kept : kept = Sifted(items, refused, m - 1, kept)
  <2>1. m - 1 \in Nat /\ ~(m <= m - 1)
    BY <1>2, <1>3
  <2>2. m - 1 \notin None
    BY <1>1, <2>1
  <2> QED
    BY <2>1, <2>2
<1> DEFINE next == IF items[m] \in refused \cup Range(kept[m - 1]) THEN kept[m - 1]
                    ELSE Append(kept[m - 1], items[m])
           more == [n \in 0..m |-> IF n = m THEN next ELSE kept[n]]
<1>5. ASSUME NEW n \in 0..m PROVE more[n] = Sifted(items, refused, m, more)[n]
  <2>1. CASE n = 0
    <3>1. kept[0] = <<>>
      BY <1>2, <1>3, <1>4 DEF Sifted
    <3> QED
      BY <1>3, <2>1, <3>1 DEF Sifted
  <2>2. CASE n # 0
    <3>1. n - 1 \in 0..m /\ n - 1 # m /\ n - 1 \in 0..(m - 1) /\ (n # m => n \in 0..(m - 1))
      BY <1>2, <2>2
    <3>2. more[n - 1] = kept[n - 1]
      BY <3>1
    <3>3. more[n] = IF items[n] \in refused \cup Range(kept[n - 1]) THEN kept[n - 1]
                    ELSE Append(kept[n - 1], items[n])
      <4>1. CASE n = m
        BY <4>1
      <4>2. CASE n # m
        <5>1. n \in 0..(m - 1) /\ more[n] = kept[n]
          BY <3>1, <4>2
        <5>2. kept[n] = Sifted(items, refused, m - 1, kept)[n]
          BY <1>4
        <5>3. Sifted(items, refused, m - 1, kept)[n] =
                IF items[n] \in refused \cup Range(kept[n - 1]) THEN kept[n - 1]
                ELSE Append(kept[n - 1], items[n])
          BY <2>2, <5>1 DEF Sifted
        <5> QED
          BY <5>1, <5>2, <5>3
      <4> QED
        BY <4>1, <4>2
    <3> HIDE DEF more
    <3> QED
      BY <2>2, <3>2, <3>3 DEF Sifted
  <2> QED
    BY <2>1, <2>2
<1>6. Sifted(items, refused, m, more) = [n \in 0..m |-> Sifted(items, refused, m, more)[n]]
  <2> HIDE DEF more
  <2> QED
    BY DEF Sifted
<1>7. more = Sifted(items, refused, m, more)
  <2>1. more = [n \in 0..m |-> more[n]]
    OBVIOUS
  <2> HIDE DEF more
  <2> QED
    BY <1>5, <1>6, <2>1
<1> QED
  BY <1>2, <1>7

(* One item more, that is not there yet, repeats nothing.                  *)
LEMMA AppendNoRepeat ==
  ASSUME NEW T, NEW s \in Seq(T), NoRepeat(s), NEW x \in T, x \notin Range(s)
  PROVE  Append(s, x) \in Seq(T) /\ NoRepeat(Append(s, x))
<1>1. \A i \in DOMAIN s : s[i] # x
  BY DEF Range
<1>2. Append(s, x) \in Seq(T) /\ Len(Append(s, x)) = Len(s) + 1
      /\ Append(s, x)[Len(s) + 1] = x /\ \A i \in 1..Len(s) : Append(s, x)[i] = s[i]
  OBVIOUS
<1>3. DOMAIN s = 1..Len(s) /\ DOMAIN Append(s, x) = 1..(Len(s) + 1) /\ Len(s) \in Nat
  BY <1>2
<1> QED
  BY <1>1, <1>2, <1>3 DEF NoRepeat

LEMMA RangeOfAppend ==
  ASSUME NEW T, NEW s \in Seq(T), NEW x \in T
  PROVE  Range(Append(s, x)) = Range(s) \cup {x}
<1>1. /\ DOMAIN s = 1..Len(s) /\ DOMAIN Append(s, x) = 1..(Len(s) + 1) /\ Len(s) \in Nat
      /\ Append(s, x)[Len(s) + 1] = x /\ \A i \in 1..Len(s) : Append(s, x)[i] = s[i]
  OBVIOUS
<1>2. \A i \in 1..(Len(s) + 1) : i \in 1..Len(s) \/ i = Len(s) + 1
  BY <1>1
<1>3. Len(s) + 1 \in 1..(Len(s) + 1) /\ \A i \in 1..Len(s) : i \in 1..(Len(s) + 1)
  BY <1>1
<1> QED
  BY <1>1, <1>2, <1>3 DEF Range

LEMMA RangeOfConcat ==
  ASSUME NEW T, NEW s \in Seq(T), NEW t \in Seq(T)
  PROVE  Range(s \o t) = Range(s) \cup Range(t)
<1>1. /\ DOMAIN s = 1..Len(s) /\ DOMAIN t = 1..Len(t) /\ Len(s) \in Nat /\ Len(t) \in Nat
      /\ DOMAIN (s \o t) = 1..(Len(s) + Len(t))
      /\ \A i \in DOMAIN (s \o t) : (s \o t)[i] = IF i <= Len(s) THEN s[i] ELSE t[i - Len(s)]
  BY ConcatProperties
<1>2. ASSUME NEW i \in DOMAIN (s \o t) PROVE (s \o t)[i] \in Range(s) \cup Range(t)
  <2>1. i <= Len(s) => i \in DOMAIN s
    BY <1>1
  <2>2. ~(i <= Len(s)) => i - Len(s) \in DOMAIN t
    BY <1>1
  <2> QED
    BY <1>1, <2>1, <2>2 DEF Range
<1>3. ASSUME NEW i \in DOMAIN s PROVE s[i] \in Range(s \o t)
  <2>1. i \in DOMAIN (s \o t) /\ i <= Len(s)
    BY <1>1
  <2> QED
    BY <1>1, <2>1 DEF Range
<1>4. ASSUME NEW i \in DOMAIN t PROVE t[i] \in Range(s \o t)
  <2>1. i + Len(s) \in DOMAIN (s \o t) /\ ~(i + Len(s) <= Len(s)) /\ (i + Len(s)) - Len(s) = i
    BY <1>1
  <2> QED
    BY <1>1, <2>1 DEF Range
<1>5. Range(s) \cup Range(t) \subseteq Range(s \o t)
  BY <1>3, <1>4 DEF Range
<1>6. Range(s \o t) \subseteq Range(s) \cup Range(t)
  <2>1. Range(s \o t) = {(s \o t)[i] : i \in DOMAIN (s \o t)}
    BY DEF Range
  <2> QED
    BY <1>2, <2>1
<1> QED
  BY <1>5, <1>6

(* What a gate lets through: items that are not refused, each one once.    *)
LEMMA SiftGives ==
  ASSUME NEW T, NEW items \in Seq(T), NEW refused
  PROVE  Sift(items, refused) \in Seq(T \ refused) /\ NoRepeat(Sift(items, refused))
<1> DEFINE m == Len(items)
           kept == CHOOSE k : k = Sifted(items, refused, m, k)
           Good(s) == s \in Seq(T \ refused) /\ NoRepeat(s)
           Off == {n \in 0..m : ~Good(kept[n])}
<1>1. m \in Nat /\ DOMAIN items = 1..m
  OBVIOUS
<1>2. kept = Sifted(items, refused, m, kept)
  BY <1>1, SiftExists
<1>3. Sift(items, refused) = kept[m]
  BY DEF Sift, Sifted
<1> HIDE DEF kept
<1> SUFFICES ASSUME Off # {} PROVE FALSE
  BY <1>1, <1>3
<1>4. PICK n \in Off : \A k \in Off : n <= k
  <2>1. Off \in SUBSET Nat
    BY <1>1
  <2> HIDE DEF Off
  <2> QED
    BY <2>1, LeastOf
<1>5. n \in 0..m /\ ~Good(kept[n])
  OBVIOUS
<1>6. kept[n] = IF n = 0 THEN <<>>
                ELSE IF items[n] \in refused \cup Range(kept[n - 1]) THEN kept[n - 1]
                ELSE Append(kept[n - 1], items[n])
  <2>1. kept[n] = Sifted(items, refused, m, kept)[n]
    BY <1>2
  <2> QED
    BY <1>5, <2>1 DEF Sifted
<1>7. n # 0
  <2>1. Good(<<>>)
    BY DEF NoRepeat
  <2> HIDE DEF Good
  <2> QED
    BY <1>5, <1>6, <2>1
<1>8. n \in 1..m /\ n - 1 \in 0..m /\ ~(n <= n - 1)
  BY <1>1, <1>5, <1>7
<1>9. Good(kept[n - 1])
  BY <1>4, <1>8
<1>10. CASE items[n] \in refused \cup Range(kept[n - 1])
  <2> HIDE DEF Good
  <2> QED
    BY <1>5, <1>6, <1>7, <1>9, <1>10
<1>11. CASE items[n] \notin refused \cup Range(kept[n - 1])
  <2>1. items[n] \in T \ refused
    BY <1>1, <1>8, <1>11
  <2>2. Good(Append(kept[n - 1], items[n]))
    BY <1>9, <1>11, <2>1, AppendNoRepeat
  <2> HIDE DEF Good
  <2> QED
    BY <1>5, <1>6, <1>7, <1>11, <2>2
<1> QED
  BY <1>10, <1>11

(* And it holds back nothing else.                                         *)
LEMMA SiftKeeps ==
  ASSUME NEW T, NEW items \in Seq(T), NEW refused
  PROVE  Range(Sift(items, refused)) = Range(items) \ refused
<1> DEFINE m == Len(items)
           kept == CHOOSE k : k = Sifted(items, refused, m, k)
           Seen(n) == {items[i] : i \in 1..n}
           Good(n) == kept[n] \in Seq(T) /\ Range(kept[n]) = Seen(n) \ refused
           Off == {n \in 0..m : ~Good(n)}
<1>1. m \in Nat /\ DOMAIN items = 1..m
  OBVIOUS
<1>2. kept = Sifted(items, refused, m, kept)
  BY <1>1, SiftExists
<1>3. Sift(items, refused) = kept[m] /\ Range(items) = Seen(m)
  <2>1. Range(items) = Seen(m)
    BY <1>1 DEF Range
  <2> QED
    BY <2>1 DEF Sift, Sifted
<1> HIDE DEF kept
<1> SUFFICES ASSUME Off # {} PROVE FALSE
  <2>1. m \in 0..m
    BY <1>1
  <2>2. Off = {} => Good(m)
    BY <2>1
  <2> HIDE DEF Off, Seen
  <2> QED
    BY <1>3, <2>2
<1>4. PICK n \in Off : \A k \in Off : n <= k
  <2>1. Off \in SUBSET Nat
    BY <1>1
  <2> HIDE DEF Off
  <2> QED
    BY <2>1, LeastOf
<1>5. n \in 0..m /\ ~Good(n)
  OBVIOUS
<1>6. kept[n] = IF n = 0 THEN <<>>
                ELSE IF items[n] \in refused \cup Range(kept[n - 1]) THEN kept[n - 1]
                ELSE Append(kept[n - 1], items[n])
  <2>1. kept[n] = Sifted(items, refused, m, kept)[n]
    BY <1>2
  <2> QED
    BY <1>5, <2>1 DEF Sifted
<1>7. n # 0
  <2>1. Seen(0) = {} /\ Range(<<>>) = {} /\ <<>> \in Seq(T)
    BY DEF Range
  <2> QED
    BY <1>5, <1>6, <2>1
<1>8. n \in 1..m /\ n - 1 \in 0..m /\ ~(n <= n - 1) /\ items[n] \in T
  BY <1>1, <1>5, <1>7
<1>9. kept[n - 1] \in Seq(T) /\ Range(kept[n - 1]) = Seen(n - 1) \ refused
  BY <1>4, <1>8
<1>10. Seen(n) = Seen(n - 1) \cup {items[n]}
  BY <1>8
<1> HIDE DEF Seen, m
<1>11. CASE items[n] \in refused \cup Range(kept[n - 1])
  <2>1. kept[n] = kept[n - 1]
    BY <1>6, <1>7, <1>11
  <2>2. Seen(n) \ refused = Seen(n - 1) \ refused
    BY <1>9, <1>10, <1>11
  <2> QED
    BY <1>5, <1>9, <2>1, <2>2
<1>12. CASE items[n] \notin refused \cup Range(kept[n - 1])
  <2>1. kept[n] = Append(kept[n - 1], items[n])
    BY <1>6, <1>7, <1>12
  <2>2. Append(kept[n - 1], items[n]) \in Seq(T)
    BY <1>8, <1>9
  <2>3. Range(Append(kept[n - 1], items[n])) = Range(kept[n - 1]) \cup {items[n]}
    BY <1>8, <1>9, RangeOfAppend
  <2>4. Seen(n) \ refused = (Seen(n - 1) \ refused) \cup {items[n]}
    BY <1>10, <1>12
  <2> QED
    BY <1>5, <1>9, <2>1, <2>2, <2>3, <2>4
<1> QED
  BY <1>11, <1>12

(* What vet makes of a reply is lessons.                                   *)
LEMMA VetGives ==
  ASSUME NEW items \in Replies
  PROVE  Vet(items) \in Seq(Lessons)
<1> DEFINE good == Sift(items, {Bad})
           vetted == SubSeq(good, 1, Least(MaxPerReply, Len(good)))
<1>1. items \in Seq(Range(items)) /\ Range(items) \ {Bad} \subseteq Lessons
  <2>1. items \in Seq(Range(items))
    BY ReviewAssumption
  <2>2. \A x \in Range(items) : x \in UNION {Range(r) : r \in Replies}
    OBVIOUS
  <2>3. Range(items) \ {Bad} \subseteq Lessons
    BY <2>2 DEF Lessons
  <2> QED
    BY <2>1, <2>3
<1>2. good \in Seq(Range(items) \ {Bad})
  BY <1>1, SiftGives
<1>3. good \in Seq(Lessons)
  <2> HIDE DEF good
  <2> QED
    BY <1>1, <1>2, SeqMonotonic
<1>4. vetted \in Seq(Lessons)
  <2>1. Len(good) \in Nat /\ Least(MaxPerReply, Len(good)) \in 0..Len(good)
    BY <1>3, ReviewAssumption DEF Least
  <2>2. \A i \in 1..Least(MaxPerReply, Len(good)) : good[i] \in Lessons
    BY <1>3, <2>1
  <2> HIDE DEF good
  <2> QED
    BY <2>1, <2>2, SubSeqProperties
<1> QED
  BY <1>4 DEF Vet

(* The lessons a reply adds to the diary, at most once each.               *)
LEMMA UnseenGives ==
  ASSUME NEW items \in Replies, NEW log
  PROVE  /\ Unseen(log, items) \in Seq(Lessons) /\ NoRepeat(Unseen(log, items))
         /\ Range(Unseen(log, items)) \cap Range(log) = {}
<1> DEFINE vetted == Vet(items)
<1>1. vetted \in Seq(Lessons)
  BY VetGives
<1> HIDE DEF vetted
<1>2. Unseen(log, items) = Sift(vetted, Range(log))
  BY DEF Unseen, Entries, vetted
<1>3. Unseen(log, items) \in Seq(Lessons \ Range(log)) /\ NoRepeat(Unseen(log, items))
  BY <1>1, <1>2, SiftGives
<1>4. Unseen(log, items) \in Seq(Lessons)
  BY <1>3, SeqMonotonic
<1>5. \A i \in DOMAIN Unseen(log, items) : Unseen(log, items)[i] \in Lessons \ Range(log)
  BY <1>3
<1> QED
  BY <1>3, <1>4, <1>5 DEF Range

-----------------------------------------------------------------------------
(* The diary, and two writers that each hold lessons found to be new.      *)

Fresh(d, s) == \A i \in DOMAIN d, k \in DOMAIN s : d[i] # s[k]

(* One writer at a time: no lesson twice, and none held that is there.     *)
Alone(d, p, q) ==
    /\ NoRepeat(d) /\ NoRepeat(p) /\ NoRepeat(q)
    /\ Fresh(d, p) /\ Fresh(d, q) /\ (p = <<>> \/ q = <<>>)

(* Both at once: a lesson is in the diary or held at most twice in all.    *)
TwiceAtMost(d) ==
    \A i, j, k \in DOMAIN d : d[i] = d[j] /\ d[j] = d[k] => i = j \/ j = k \/ i = k
OnceAtMost(d, s) == \A i, j \in DOMAIN d, k \in DOMAIN s : d[i] = s[k] /\ d[j] = s[k] => i = j
Apart(d, p, q) == \A k \in DOMAIN p, m \in DOMAIN q : p[k] = q[m] => \A i \in DOMAIN d : d[i] # p[k]
Racing(d, p, q) ==
    /\ TwiceAtMost(d) /\ NoRepeat(p) /\ NoRepeat(q)
    /\ OnceAtMost(d, p) /\ OnceAtMost(d, q) /\ Apart(d, p, q)

LEMMA Symmetric ==
  ASSUME NEW d, NEW p, NEW q
  PROVE  (Racing(d, p, q) => Racing(d, q, p)) /\ (Alone(d, p, q) => Alone(d, q, p))
BY DEF Racing, Alone, Apart

(* What a writer holds is forgotten, or read anew from the diary.          *)
LEMMA PenFilled ==
  ASSUME NEW d, NEW p, NEW q, NEW r, NoRepeat(r), Fresh(d, r)
  PROVE  /\ Racing(d, p, q) => Racing(d, r, q)
         /\ Alone(d, p, q) /\ (r = <<>> \/ q = <<>>) => Alone(d, r, q)
BY DEF Racing, Alone, Apart, OnceAtMost, Fresh

LEMMA EmptyPen == \A d : NoRepeat(<<>>) /\ Fresh(d, <<>>)
BY DEF NoRepeat, Fresh

(* What a writer holds goes to the end of the diary.                       *)
LEMMA PenWritten ==
  ASSUME NEW T, NEW d \in Seq(T), NEW p \in Seq(T), NEW q \in Seq(T)
  PROVE  /\ Racing(d, p, q) => Racing(d \o p, <<>>, q)
         /\ Alone(d, p, q) => Alone(d \o p, <<>>, q)
<1> DEFINE x == d \o p
           n == Len(d)
<1>1. /\ n \in Nat /\ Len(p) \in Nat /\ DOMAIN d = 1..n /\ DOMAIN p = 1..Len(p)
      /\ x \in Seq(T) /\ DOMAIN x = 1..(n + Len(p))
      /\ \A i \in DOMAIN x : x[i] = IF i <= n THEN d[i] ELSE p[i - n]
  BY ConcatProperties
<1> HIDE DEF x, n
<1>2. \A i \in DOMAIN x : \/ i \in DOMAIN d /\ x[i] = d[i]
                          \/ i \notin DOMAIN d /\ i - n \in DOMAIN p /\ x[i] = p[i - n]
  BY <1>1
<1>3. \A i, j \in DOMAIN x : i - n = j - n => i = j
  BY <1>1
<1>4. ASSUME Racing(d, p, q) PROVE Racing(x, <<>>, q)
  <2> USE DEF Racing
  <2>1. TwiceAtMost(x)
    <3> SUFFICES ASSUME NEW i \in DOMAIN x, NEW j \in DOMAIN x, NEW k \in DOMAIN x,
                        x[i] = x[j], x[j] = x[k]
                 PROVE  i = j \/ j = k \/ i = k
      BY DEF TwiceAtMost
    <3>1. TwiceAtMost(d) /\ NoRepeat(p) /\ OnceAtMost(d, p)
      BY <1>4
    <3>2. \A a, b \in DOMAIN x : x[a] = x[b] /\ a \notin DOMAIN d /\ b \notin DOMAIN d => a = b
      BY <1>2, <1>3, <3>1 DEF NoRepeat
    <3>3. \A a, b, c \in DOMAIN x :
             a \in DOMAIN d /\ b \in DOMAIN d /\ c \notin DOMAIN d /\ x[a] = x[c] /\ x[b] = x[c] => a = b
      BY <1>2, <3>1 DEF OnceAtMost
    <3>4. i \in DOMAIN d /\ j \in DOMAIN d /\ k \in DOMAIN d => i = j \/ j = k \/ i = k
      BY <1>2, <3>1 DEF TwiceAtMost
    <3> QED
      BY <3>2, <3>3, <3>4
  <2>2. OnceAtMost(x, q)
    <3> SUFFICES ASSUME NEW i \in DOMAIN x, NEW j \in DOMAIN x, NEW k \in DOMAIN q,
                        x[i] = q[k], x[j] = q[k]
                 PROVE  i = j
      BY DEF OnceAtMost
    <3>1. NoRepeat(p) /\ OnceAtMost(d, q) /\ Apart(d, p, q)
      BY <1>4
    <3>2. CASE i \in DOMAIN d /\ j \in DOMAIN d
      BY <1>2, <3>1, <3>2 DEF OnceAtMost
    <3>3. CASE i \notin DOMAIN d /\ j \notin DOMAIN d
      BY <1>2, <1>3, <3>1, <3>3 DEF NoRepeat
    <3>4. \A a, b \in DOMAIN x : a \in DOMAIN d /\ b \notin DOMAIN d => ~(x[a] = q[k] /\ x[b] = q[k])
      BY <1>2, <3>1 DEF Apart
    <3> QED
      BY <3>2, <3>3, <3>4
  <2>3. OnceAtMost(x, <<>>) /\ Apart(x, <<>>, q) /\ NoRepeat(<<>>)
    BY DEF OnceAtMost, Apart, NoRepeat
  <2> QED
    BY <1>4, <2>1, <2>2, <2>3
<1>5. ASSUME Alone(d, p, q) PROVE Alone(x, <<>>, q)
  <2>1. NoRepeat(d) /\ NoRepeat(p) /\ NoRepeat(q) /\ Fresh(d, p) /\ Fresh(d, q) /\ (p = <<>> \/ q = <<>>)
    BY <1>5 DEF Alone
  <2>2. NoRepeat(x)
    <3> SUFFICES ASSUME NEW i \in DOMAIN x, NEW j \in DOMAIN x, x[i] = x[j] PROVE i = j
      BY DEF NoRepeat
    <3>1. i \in DOMAIN d /\ j \in DOMAIN d => i = j
      BY <1>2, <2>1 DEF NoRepeat
    <3>2. i \notin DOMAIN d /\ j \notin DOMAIN d => i = j
      BY <1>2, <1>3, <2>1 DEF NoRepeat
    <3>3. \A a, b \in DOMAIN x : a \in DOMAIN d /\ b \notin DOMAIN d => x[a] # x[b]
      BY <1>2, <2>1 DEF Fresh
    <3> QED
      BY <3>1, <3>2, <3>3
  <2>3. Fresh(x, q)
    BY <1>2, <2>1 DEF Fresh
  <2> QED
    BY <2>1, <2>2, <2>3, EmptyPen DEF Alone
<1> QED
  BY <1>4, <1>5 DEF x

(* Vet and append drop nothing they have no reason to: when the write of a *)
(* reply's learnings goes through, the diary has every lesson it had and   *)
(* every one vet let through, and repeats none if it repeated none.        *)
THEOREM NotedForGood ==
  ASSUME NEW items \in Replies, NEW log \in Seq(Lessons)
  PROVE  /\ Range(log \o Unseen(log, items)) = Range(log) \cup Range(Vet(items))
         /\ NoRepeat(log) => NoRepeat(log \o Unseen(log, items))
<1>1. Unseen(log, items) \in Seq(Lessons)
      /\ Range(Unseen(log, items)) = Range(Vet(items)) \ Range(log)
  BY UnseenGives, VetGives, SiftKeeps DEF Unseen, Entries
<1>2. Range(log \o Unseen(log, items)) = Range(log) \cup Range(Unseen(log, items))
  BY <1>1, RangeOfConcat
<1>3. ASSUME NoRepeat(log) PROVE NoRepeat(log \o Unseen(log, items))
  <2>1. Alone(log, Unseen(log, items), <<>>)
    BY <1>3, UnseenGives, EmptyPen DEF Alone, Fresh, Range
  <2>2. <<>> \in Seq(Lessons)
    OBVIOUS
  <2>3. Alone(log \o Unseen(log, items), <<>>, <<>>)
    BY <1>1, <2>1, <2>2, PenWritten
  <2> QED
    BY <2>3 DEF Alone
<1> QED
  BY <1>1, <1>2, <1>3

(* How often a lesson is then in the diary.                                *)
LEMMA CountedOnce ==
  ASSUME NEW T, NEW d \in Seq(T), NEW l
  PROVE  LET at == {i \in DOMAIN d : d[i] = l} IN
         /\ NoRepeat(d) => Cardinality(at) <= 1
         /\ TwiceAtMost(d) => Cardinality(at) <= 2
<1> DEFINE at == {i \in DOMAIN d : d[i] = l}
<1>1. IsFiniteSet(at) /\ Cardinality(at) \in Nat
  <2>1. DOMAIN d = 1..Len(d) /\ Len(d) \in Nat
    OBVIOUS
  <2>2. IsFiniteSet(1..Len(d)) /\ at \subseteq 1..Len(d)
    BY <2>1, FS_Interval
  <2> QED
    BY <2>2, FS_Subset, FS_CardinalityType
<1>2. CASE at = {}
  BY <1>1, <1>2, FS_EmptySet
<1>3. CASE at # {}
  <2>1. PICK a : a \in at
    BY <1>3
  <2> DEFINE rest == at \ {a}
  <2>2. IsFiniteSet(rest) /\ Cardinality(rest) \in Nat /\ Cardinality(rest) = Cardinality(at) - 1
    BY <1>1, <2>1, FS_RemoveElement, FS_CardinalityType
  <2>3. NoRepeat(d) => rest = {}
    BY <2>1 DEF NoRepeat
  <2>4. ASSUME TwiceAtMost(d) PROVE Cardinality(rest) <= 1
    <3>1. CASE rest = {}
      BY <2>2, <3>1, FS_EmptySet
    <3>2. CASE rest # {}
      <4>1. PICK b : b \in rest
        BY <3>2
      <4>2. \A c \in rest : c = b
        BY <2>1, <2>4, <4>1 DEF TwiceAtMost
      <4> HIDE DEF rest
      <4>3. rest = {b}
        BY <4>1, <4>2
      <4>4. Cardinality({b}) = 1
        BY FS_Singleton
      <4> QED
        BY <4>3, <4>4
    <3> QED
      BY <3>1, <3>2
  <2>5. rest = {} => Cardinality(rest) = 0
    BY FS_EmptySet
  <2> HIDE DEF rest, at
  <2>6. (NoRepeat(d) => Cardinality(at) <= 1) /\ (TwiceAtMost(d) => Cardinality(at) <= 2)
    BY <1>1, <2>2, <2>3, <2>4, <2>5
  <2> QED
    BY <2>6 DEF at
<1> QED
  BY <1>2, <1>3

Pens(d, p, q) == (serial => Alone(d, p, q)) /\ (~serial => Racing(d, p, q))

Diary ==
    /\ diary \in Seq(Lessons) /\ pen \in [{"review", "chat"} -> Seq(Lessons)]
    /\ Pens(diary, pen["review"], pen["chat"])
    /\ rv.pc # "note" => pen["review"] = <<>>
    /\ serial => rv.pc = "idle" \/ pen["chat"] = <<>>

(* What the steps of a writer do to the two of them.                       *)
LEMMA Filled ==
  ASSUME NEW d, NEW p, NEW q, NEW items \in Replies, Pens(d, p, q), serial => q = <<>>
  PROVE  Pens(d, Unseen(d, items), q)
<1>1. NoRepeat(Unseen(d, items)) /\ Fresh(d, Unseen(d, items))
  BY UnseenGives DEF Fresh, Range
<1> QED
  BY <1>1, PenFilled DEF Pens

LEMMA Emptied ==
  ASSUME NEW d, NEW p, NEW q, Pens(d, p, q) PROVE Pens(d, <<>>, q)
BY EmptyPen, PenFilled DEF Pens

LEMMA Written ==
  ASSUME NEW d \in Seq(Lessons), NEW p \in Seq(Lessons), NEW q \in Seq(Lessons), Pens(d, p, q),
         NEW e \in Learned(d, p)
  PROVE  e \in Seq(Lessons) /\ Pens(e, <<>>, q)
<1>1. CASE e = d
  BY <1>1, Emptied
<1>2. CASE e = d \o p
  BY <1>2, PenWritten DEF Pens
<1> QED
  BY <1>1, <1>2 DEF Learned

LEMMA PensTurned ==
  ASSUME NEW d, NEW p, NEW q, Pens(d, p, q) PROVE Pens(d, q, p)
BY Symmetric DEF Pens

LEMMA DiaryStep == Wakes /\ Diary /\ [Next]_vars => Diary'
<1> SUFFICES ASSUME Wakes, Diary, [Next]_vars PROVE Diary'
  OBVIOUS
<1> DEFINE p == pen["review"]
           q == pen["chat"]
<1>0. /\ serial' = serial /\ p \in Seq(Lessons) /\ q \in Seq(Lessons) /\ Pens(diary, p, q)
      /\ diary \in Seq(Lessons) /\ Pens(diary, q, p) /\ <<>> \in Seq(Lessons)
  BY SerialStays, PensTurned DEF Diary
<1>1. ASSUME UNCHANGED <<diary, pen>>, rv'.pc = rv.pc \/ (rv.pc # "note" /\ rv'.pc # "note"),
             serial => rv'.pc = "idle" \/ q = <<>>
      PROVE  Diary'
  BY <1>0, <1>1 DEF Diary, Pens
<1>2. CASE GameStep \/ CliStep \/ BriefNext
  <2>1. UNCHANGED <<diary, pen, rv>>
    BY <1>2 DEF GameStep, CliStep, BriefNext, DraftSync, DraftSynced, Draft, ActLoad, ActSave,
                BriefFails, reviewVars
  <2> QED
    BY <1>1, <2>1 DEF Diary
<1>3. CASE ReviewWake
  <2>1. UNCHANGED <<diary, pen>> /\ rv.pc = "idle" /\ rv'.pc = "sync" /\ (serial => q = <<>>)
    BY <1>3 DEF ReviewWake
  <2> QED
    BY <1>1, <2>1
<1>4. CASE ReviewSync \/ ReviewSynced
  <2>1. UNCHANGED <<diary, pen>> /\ rv.pc \in {"sync", "fetch"} /\ rv'.pc \in {"think", "fetch"}
    BY <1>4 DEF ReviewSync, ReviewSynced, Wakes
  <2> QED
    BY <1>1, <2>1 DEF Diary
<1>5. CASE ReviewReply
  <2>1. PICK items \in Replies : pen' = [pen EXCEPT !["review"] = Unseen(diary, items)]
    BY <1>5 DEF ReviewReply
  <2>2. rv.pc = "think" /\ rv'.pc = "note" /\ diary' = diary
    BY <1>5 DEF ReviewReply, Wakes
  <2>3. Pens(diary, Unseen(diary, items), q) /\ Unseen(diary, items) \in Seq(Lessons)
    BY <1>0, <2>2, Filled, UnseenGives DEF Diary
  <2>4. pen' \in [{"review", "chat"} -> Seq(Lessons)] /\ pen'["review"] = Unseen(diary, items)
        /\ pen'["chat"] = q
    BY <2>1, <2>3 DEF Diary
  <2>5. serial => q = <<>>
    BY <2>2 DEF Diary
  <2> QED
    BY <1>0, <2>2, <2>3, <2>4, <2>5 DEF Diary, Pens
<1>6. CASE ReviewNotes
  <2>1. /\ rv.pc = "note" /\ rv'.pc = "send" /\ diary' \in Learned(diary, p)
        /\ pen' = [pen EXCEPT !["review"] = <<>>]
    BY <1>6 DEF ReviewNotes, Wakes
  <2>2. diary' \in Seq(Lessons) /\ Pens(diary', <<>>, q)
    BY <1>0, <2>1, Written
  <2>3. pen' \in [{"review", "chat"} -> Seq(Lessons)] /\ pen'["review"] = <<>> /\ pen'["chat"] = q
    BY <1>0, <2>1 DEF Diary
  <2>4. serial => q = <<>>
    BY <2>1 DEF Diary
  <2> QED
    BY <1>0, <2>1, <2>2, <2>3, <2>4 DEF Diary, Pens
<1>7. ASSUME NEW chat \in Chats, ReviewSend(chat) PROVE Diary'
  <2>1. UNCHANGED <<diary, pen>> /\ rv'.pc = rv.pc
    BY <1>7 DEF ReviewSend, Wakes
  <2> QED
    BY <1>1, <2>1 DEF Diary
<1>8. CASE ReviewMark
  <2>1. UNCHANGED <<diary, pen>> /\ rv.pc = "send" /\ rv'.pc = "idle"
    BY <1>8 DEF ReviewMark, Idle
  <2> QED
    BY <1>1, <2>1
<1>9. CASE ReviewFails
  <2>1. diary' = diary /\ rv'.pc = "idle" /\ pen' = [pen EXCEPT !["review"] = <<>>]
    BY <1>9 DEF ReviewFails, Idle
  <2>2. pen' \in [{"review", "chat"} -> Seq(Lessons)] /\ pen'["review"] = <<>> /\ pen'["chat"] = q
    BY <1>0, <2>1 DEF Diary
  <2>3. Pens(diary, <<>>, q)
    BY <1>0, Emptied
  <2> QED
    BY <1>0, <2>1, <2>2, <2>3 DEF Diary, Pens
<1>10. CASE ChatReads
  <2>1. PICK items \in Replies : pen' = [pen EXCEPT !["chat"] = Unseen(diary, items)]
    BY <1>10 DEF ChatReads
  <2>2. rv' = rv /\ diary' = diary /\ (serial => rv.pc = "idle")
    BY <1>10 DEF ChatReads
  <2>3. serial => p = <<>>
    BY <2>2 DEF Diary
  <2>4. Pens(diary, Unseen(diary, items), p) /\ Unseen(diary, items) \in Seq(Lessons)
    BY <1>0, <2>3, Filled, UnseenGives
  <2>5. Pens(diary, p, Unseen(diary, items))
    BY <2>4, PensTurned
  <2>6. pen' \in [{"review", "chat"} -> Seq(Lessons)] /\ pen'["chat"] = Unseen(diary, items)
        /\ pen'["review"] = p
    BY <2>1, <2>4 DEF Diary
  <2> QED
    BY <1>0, <2>2, <2>5, <2>6 DEF Diary, Pens
<1>11. CASE ChatNotes
  <2>1. rv' = rv /\ diary' \in Learned(diary, q) /\ pen' = [pen EXCEPT !["chat"] = <<>>]
    BY <1>11 DEF ChatNotes
  <2>2. diary' \in Seq(Lessons) /\ Pens(diary', <<>>, p)
    BY <1>0, <2>1, Written
  <2>3. Pens(diary', p, <<>>)
    BY <2>2, PensTurned
  <2>4. pen' \in [{"review", "chat"} -> Seq(Lessons)] /\ pen'["chat"] = <<>> /\ pen'["review"] = p
    BY <1>0, <2>1 DEF Diary
  <2> QED
    BY <1>0, <2>1, <2>2, <2>3, <2>4 DEF Diary, Pens
<1>12. CASE UNCHANGED vars
  BY <1>1, <1>12 DEF vars, reviewVars, Diary
<1> QED
  BY <1>2, <1>3, <1>4, <1>5, <1>6, <1>7, <1>8, <1>9, <1>10, <1>11, <1>12 DEF Next, ReviewNext

LEMMA InitDiary == Init => Diary
<1> SUFFICES ASSUME Init PROVE Diary
  OBVIOUS
<1>1. diary = <<>> /\ pen = [w \in {"review", "chat"} |-> <<>>] /\ rv.pc = "idle"
  BY DEF Init, Idle
<1>2. Alone(<<>>, <<>>, <<>>) /\ Racing(<<>>, <<>>, <<>>)
  BY EmptyPen DEF Alone, Racing, TwiceAtMost, OnceAtMost, Apart
<1> QED
  BY <1>1, <1>2 DEF Diary, Pens

(* Every gate read the diary it then writes to: with one writer at a time  *)
(* no lesson is in it twice. With the review and a chat racing, each may   *)
(* have looked before the other wrote, and a lesson is there twice, never  *)
(* more: what one holds twice over the other has not written yet.          *)
THEOREM LessonsOnce == Spec => []DiaryOnce
<1>1. Init => Wakes /\ Diary /\ World /\ serial \in BOOLEAN
  BY InitSeason, InitDiary, SeasonAssumption DEF Init, SeasonInit
<1>2. World /\ Wakes /\ Diary /\ serial \in BOOLEAN /\ [Next]_vars
        => (World /\ Wakes /\ Diary /\ serial \in BOOLEAN)'
  BY WorldStep, WakesStep, DiaryStep, SerialStays
<1>3. Diary /\ serial \in BOOLEAN => DiaryOnce
  <2> SUFFICES ASSUME Diary, serial \in BOOLEAN, NEW lesson \in Range(diary)
               PROVE  Cardinality({i \in DOMAIN diary : diary[i] = lesson})
                        <= IF serial THEN 1 ELSE 2
    BY DEF DiaryOnce
  <2>1. diary \in Seq(Lessons) /\ (serial => NoRepeat(diary)) /\ (~serial => TwiceAtMost(diary))
    BY DEF Diary, Pens, Alone, Racing
  <2> QED
    BY <2>1, CountedOnce
<1> QED
  BY <1>1, <1>2, <1>3, PTL DEF Spec

-----------------------------------------------------------------------------
(* The variables of the wakes themselves.                                  *)
WakesTyped ==
    /\ last \in 0..MaxGW
    /\ rv \in [pc : {"idle", "sync", "fetch", "think", "note", "send"}, gw : 0..MaxGW, todo : SUBSET Chats]
    /\ bf \in [pc : {"idle", "fetch", "draft", "warned", "act"}, gw : 0..MaxGW]
    /\ drafted \in 0..MaxGW /\ acted \subseteq GWs /\ stale \subseteq {"freehit", "other"}
    /\ got \subseteq Chats /\ adhoc \in BOOLEAN

LEMMA BriefKeepsTypes ==
  ASSUME Wakes, Game, WakesTyped, BriefNext PROVE WakesTyped'
<1>0. /\ UNCHANGED <<last, rv, got, adhoc>> /\ game.open \in GWs /\ game.open \in 0..MaxGW
      /\ 0 \in 0..MaxGW /\ (bf # Quiet => bf.gw = game.open)
  <2>1. UNCHANGED <<last, rv, got, adhoc>>
    BY DEF BriefNext, DraftSync, DraftSynced, Draft, ActLoad, ActSave, BriefFails, reviewVars
  <2> QED
    BY <2>1, SeasonAssumption DEF Game, GWs, Wakes
<1> USE DEF WakesTyped
<1>1. CASE DraftSync
  BY <1>0, <1>1 DEF DraftSync
<1>2. CASE DraftSynced
  <2>1. UNCHANGED <<drafted, acted, stale>>
        /\ (bf' = [bf EXCEPT !.pc = "draft"] \/ bf' = [bf EXCEPT !.pc = "warned"])
    BY <1>2 DEF DraftSynced
  <2> QED
    BY <1>0, <2>1
<1>3. CASE Draft
  <2>1. bf' = Quiet /\ drafted' = bf.gw /\ acted' = acted
        /\ stale' \subseteq stale \cup {"freehit", "other"}
    BY <1>3 DEF Draft
  <2> QED
    BY <1>0, <2>1 DEF Quiet
<1>4. CASE ActLoad
  BY <1>0, <1>4 DEF ActLoad
<1>5. CASE ActSave
  <2>1. bf.pc = "act" /\ acted' = acted \cup {bf.gw} /\ bf' = Quiet /\ UNCHANGED <<drafted, stale>>
    BY <1>5 DEF ActSave
  <2>2. bf.gw \in GWs
    BY <1>0, <2>1 DEF Quiet
  <2> QED
    BY <1>0, <2>1, <2>2 DEF Quiet
<1>6. CASE BriefFails
  BY <1>0, <1>6 DEF BriefFails, Quiet
<1> QED
  BY <1>1, <1>2, <1>3, <1>4, <1>5, <1>6 DEF BriefNext

LEMMA ReviewKeepsTypes ==
  ASSUME Game, WakesTyped, ReviewNext PROVE WakesTyped'
<1>0. UNCHANGED <<bf, drafted, acted, stale>>
  BY DEF ReviewNext, ReviewWake, ReviewSync, ReviewSynced, ReviewReply, ReviewNotes, ReviewSend,
         ReviewMark, ReviewFails, briefVars
<1>1. game.settled \in 0..MaxGW /\ MaxGW \in Nat
  BY SeasonAssumption DEF Game
<1> USE DEF WakesTyped
<1>2. CASE ReviewWake
  <2> DEFINE gw == NextReviewGw(game.settled, last)
  <2>1. /\ last' = last /\ gw # 0 /\ rv' = [pc |-> "sync", gw |-> gw, todo |-> Chats]
        /\ got' \in {got, {}} /\ adhoc' = (adhoc \/ gw \in acted \ file.decided)
    BY <1>2 DEF ReviewWake
  <2>2. gw \in 0..MaxGW
    BY <1>1 DEF NextReviewGw
  <2>3. adhoc' \in BOOLEAN
    BY <2>1
  <2> HIDE DEF gw
  <2> QED
    BY <1>0, <2>1, <2>2, <2>3
<1>3. CASE ReviewSync \/ ReviewSynced
  <2>1. UNCHANGED <<last, got, adhoc>>
        /\ (rv' = [rv EXCEPT !.pc = "think"] \/ rv' = [rv EXCEPT !.pc = "fetch"])
    BY <1>3 DEF ReviewSync, ReviewSynced
  <2> QED
    BY <1>0, <2>1
<1>4. CASE ReviewReply \/ ReviewNotes
  <2>1. UNCHANGED <<last, got, adhoc>>
        /\ (rv' = [rv EXCEPT !.pc = "note"] \/ rv' = [rv EXCEPT !.pc = "send"])
    BY <1>4 DEF ReviewReply, ReviewNotes
  <2> QED
    BY <1>0, <2>1
<1>5. ASSUME NEW chat \in Chats, ReviewSend(chat) PROVE WakesTyped'
  <2>1. /\ rv' = [rv EXCEPT !.todo = rv.todo \ {chat}] /\ got' = got \cup {chat}
        /\ UNCHANGED <<last, adhoc>>
    BY <1>5 DEF ReviewSend
  <2>2. rv.todo \ {chat} \in SUBSET Chats
    OBVIOUS
  <2> QED
    BY <1>0, <2>1, <2>2
<1>6. CASE ReviewMark
  <2>1. last' = rv.gw /\ rv' = Idle(0) /\ UNCHANGED <<got, adhoc>>
    BY <1>6 DEF ReviewMark
  <2> QED
    BY <1>0, <1>1, <2>1 DEF Idle
<1>7. CASE ReviewFails
  <2>1. rv' = Idle(rv.gw) /\ UNCHANGED <<last, got, adhoc>>
    BY <1>7 DEF ReviewFails
  <2> QED
    BY <1>0, <1>1, <2>1 DEF Idle
<1> QED
  BY <1>2, <1>3, <1>4, <1>5, <1>6, <1>7 DEF ReviewNext

LEMMA TypesKept == Wakes /\ Game /\ WakesTyped /\ [Next]_vars => WakesTyped'
<1> SUFFICES ASSUME Wakes, Game, WakesTyped, [Next]_vars PROVE WakesTyped'
  OBVIOUS
<1>1. CASE GameStep \/ CliStep \/ ChatReads \/ ChatNotes \/ UNCHANGED vars
  <2>1. UNCHANGED <<last, rv, bf, drafted, acted, stale, got, adhoc>>
    BY <1>1 DEF GameStep, CliStep, ChatReads, ChatNotes, vars, reviewVars, briefVars
  <2> QED
    BY <2>1 DEF WakesTyped
<1> QED
  BY <1>1, BriefKeepsTypes, ReviewKeepsTypes DEF Next

(* Every variable keeps its type: the gameweeks a wake holds are gameweeks *)
(* of the season, and what the gates let into the diary are lessons.       *)
THEOREM ReviewTyped == Spec => []TypeOK
<1> DEFINE Inv == /\ World /\ Wakes /\ Game /\ Copies /\ Diary /\ WakesTyped
                  /\ serial \in BOOLEAN
<1>1. Init => Inv
  <2> SUFFICES ASSUME Init PROVE WakesTyped /\ serial \in BOOLEAN
    BY InitSeason, InitCopies, InitDiary
  <2>1. 0 \in 0..MaxGW
    BY SeasonAssumption
  <2>2. /\ last = 0 /\ rv = [pc |-> "idle", gw |-> 0, todo |-> {}] /\ bf = [pc |-> "idle", gw |-> 0]
        /\ drafted = 0 /\ acted = {} /\ got = {} /\ adhoc = FALSE /\ stale = {}
    BY DEF Init, Idle, Quiet
  <2>3. serial \in BOOLEAN
    BY SeasonAssumption DEF Init, SeasonInit
  <2> QED
    BY <2>1, <2>2, <2>3 DEF WakesTyped
<1>2. Inv /\ [Next]_vars => Inv'
  BY WorldStep, WakesStep, GameKept, CopiesKept, DiaryStep, TypesKept, SerialStays
<1>3. Inv => TypeOK
  BY SeasonTyped DEF TypeOK, Diary, WakesTyped
<1> QED
  BY <1>1, <1>2, <1>3, PTL DEF Spec
=============================================================================
