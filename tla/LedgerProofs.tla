---------------------------- MODULE LedgerProofs ----------------------------
(***************************************************************************)
(* What is proved of the spend ledger, for any processes, limits, number   *)
(* of months and of failures, with adds that cross freely and clocks that  *)
(* are read twice or long before.                                          *)
(***************************************************************************)
EXTENDS Ledger, FiniteSetTheorems, TLAPS

(* No add of the future is known, and nothing is of a month to come.       *)
Past ==
  /\ \A m \in Month : settled[m] \subseteq 0 .. (made - 1)
  /\ \A m \in Month : m > month => settled[m] = {}
  /\ helped \subseteq 0 .. (made - 1)
  /\ file.month <= month /\ file.adds \subseteq 0 .. (made - 1)
  /\ \A p \in Procs : /\ stamp[p] <= month
                      /\ base[p].month <= month /\ base[p].adds \subseteq 0 .. (made - 1)

(* What an add has found of this month, and what it will write of it, is   *)
(* of this month.                                                          *)
OfItsMonth ==
  /\ CountsItsMonth
  /\ \A p \in Procs : pc[p] = "sum" => Total(base[p], month) \subseteq settled[month]
  /\ \A p \in Procs :
       pc[p] = "write" /\ stamp[p] = month => base[p].adds \subseteq settled[month]

(* Two adds in progress have crossed.                                      *)
Crossings ==
  \A p, q \in Procs : Adding(p) /\ Adding(q) /\ p # q => mine[p] \in crossed

(* Until an add of an earlier month comes late: the total holds all that   *)
(* was done this month, an add of an earlier month has crossed every one   *)
(* of this, and an add of this month holds all that was done in it.        *)
Kept ==
  month \notin late =>
    /\ Done(month) \subseteq Total(file, month)
    /\ \A p \in Procs : Adding(p) /\ stamp[p] < month => settled[month] \subseteq crossed
    /\ \A p \in Procs :
         pc[p] = "sum" /\ stamp[p] = month => Done(month) \subseteq Total(base[p], month)
    /\ \A p \in Procs :
         pc[p] = "write" /\ stamp[p] = month => Done(month) \subseteq base[p].adds

(* The helpers that run, or whose spend is being added.                    *)
Running == {p \in Procs : owes[p] = "helper"}

(* Only the add of a helper is a helper's.                                 *)
HelpedOnly == \A p \in Procs : Adding(p) /\ owes[p] # "helper" => mine[p] \notin helped

(* A helper that runs has been let through, and what was let through and   *)
(* what is done make up the bound.                                         *)
Gated ==
  /\ Running # {} => HelpersOff >= 1
  /\ month \notin late =>
       Cardinality(helped \cap Done(month)) + Cardinality(Running)
         <= HelpersOff + Cardinality(Procs) - 1

LedgerInv == TypeOK /\ Past /\ OfItsMonth /\ Crossings /\ Kept /\ HelpedOnly /\ Gated

-----------------------------------------------------------------------------
LEMMA InitTyping == Init => TypeOK
BY LimitsAssumption DEF Init, TypeOK, Month, Record, Empty, Adding

(* What settling, of whatever outcome, does to the process's own.          *)
LEMMA SettlesTyping ==
  ASSUME TypeOK, NEW p \in Procs, Settles(p)
  PROVE  /\ pc' \in [Procs -> {"idle", "read", "sum", "write"}]
         /\ owes' \in [Procs -> Spending \cup {"nothing"}]
         /\ stamp' \in [Procs -> Month] /\ mine' \in [Procs -> Nat]
         /\ base' \in [Procs -> Record]
         /\ \A q \in Procs : Adding(q)' => q # p /\ Adding(q)
         /\ \A q \in Procs :
              q # p => /\ pc'[q] = pc[q] /\ owes'[q] = owes[q] /\ stamp'[q] = stamp[q]
                       /\ mine'[q] = mine[q] /\ base'[q] = base[q]
         /\ owes'[p] = "nothing" /\ stamp'[p] = 1 /\ base'[p] = Empty
  BY LimitsAssumption DEF Settles, TypeOK, Adding, Month, Record, Empty

LEMMA SettledTyping ==
  ASSUME TypeOK, NEW p \in Procs, Settles(p),
         file' \in Record, faults' \in Nat, crossed' \subseteq Nat
  PROVE  TypeOK'
<1>1. /\ month' \in Month /\ made' \in Nat /\ settled' = settled
      /\ settled' \in [Month -> SUBSET Nat] /\ helped' \subseteq Nat /\ late' \subseteq Month
  BY DEF Settles, TypeOK
<1>2. \A q \in Procs :
        Adding(q)' => owes'[q] # "nothing" /\ mine'[q] \in settled'[stamp'[q]]
  BY <1>1, SettlesTyping DEF TypeOK
<1> QED
  BY <1>1, <1>2, SettlesTyping DEF TypeOK

LEMMA TypingStep == TypeOK /\ [Next]_vars => TypeOK'
<1> SUFFICES ASSUME TypeOK, [Next]_vars PROVE TypeOK'
  OBVIOUS
<1> USE DEF TypeOK, Adding
<1>1. CASE MonthTurns
  BY <1>1, LimitsAssumption DEF MonthTurns, adding, history, Month
<1>2. ASSUME NEW p \in Procs, NEW what \in {"gaffer", "bare"},
             HelperSpends(p) \/ Spends(p, what) \/ HandSpends(p)
      PROVE  TypeOK'
  BY <1>2 DEF HelperSpends, Spends, HandSpends, history, Spending
<1>3. ASSUME NEW p \in Procs, Stamps(p) PROVE TypeOK'
  <2>1. MonthOfAdd(p) \in Month
    BY DEF MonthOfAdd
  <2>2. /\ made' \in Nat /\ settled' \in [Month -> SUBSET Nat]
        /\ \A m \in Month : settled[m] \subseteq settled'[m]
        /\ made \in settled'[MonthOfAdd(p)]
    BY <1>3, <2>1 DEF Stamps, StampedWith
  <2>3. \A q \in Procs : Adding(q) => mine[q] \in Nat
    OBVIOUS
  <2>4. helped' \subseteq Nat /\ crossed' \subseteq Nat /\ late' \subseteq Month
    BY <1>3, <2>3 DEF Stamps, StampedWith, Pending
  <2>5. /\ pc' = [pc EXCEPT ![p] = "read"] /\ stamp' = [stamp EXCEPT ![p] = MonthOfAdd(p)]
        /\ mine' = [mine EXCEPT ![p] = made] /\ owes[p] # "nothing"
        /\ UNCHANGED <<month, file, owes, base, faults>>
    BY <1>3 DEF Stamps, StampedWith
  <2> QED
    BY <2>1, <2>2, <2>4, <2>5
<1>4. ASSUME NEW p \in Procs, Reads(p) PROVE TypeOK'
  BY <1>4 DEF Reads, history
<1>5. ASSUME NEW p \in Procs, Sums(p) PROVE TypeOK'
  <2>1. \A m \in Month : Total(base[p], m) \subseteq Nat
    BY DEF Total, Record
  <2>2. base' \in [Procs -> Record]
    BY <1>5, <2>1 DEF Sums, Record
  <2> QED
    BY <1>5, <2>2 DEF Sums, history
<1>6. ASSUME NEW p \in Procs, Writes(p) PROVE TypeOK'
  <2>1. file' \in Record
    BY <1>6 DEF Writes, Record
  <2>2. Settles(p) /\ UNCHANGED <<faults, crossed>>
    BY <1>6 DEF Writes
  <2> QED
    BY <2>1, <2>2, SettledTyping
<1>7. ASSUME NEW p \in Procs, AddFails(p) PROVE TypeOK'
  <2>0. mine[p] \in Nat /\ crossed \subseteq Nat /\ faults \in Nat
    OBVIOUS
  <2>1. crossed' = crossed \cup {mine[p]} /\ faults' = faults + 1
    BY <1>7 DEF AddFails, Fault
  <2>2. Settles(p) /\ file' = file
    BY <1>7 DEF AddFails
  <2>3. crossed' \subseteq Nat
    BY <2>0, <2>1, Zenon
  <2>4. faults' \in Nat
    BY <2>0, <2>1
  <2> QED
    BY <2>2, <2>3, <2>4, SettledTyping
<1>8. ASSUME NEW p \in Procs, Forgets(p) PROVE TypeOK'
  <2>1. faults' \in Nat
    BY <1>8 DEF Forgets, Fault
  <2>2. Settles(p) /\ UNCHANGED <<file, crossed>>
    BY <1>8 DEF Forgets
  <2> QED
    BY <2>1, <2>2, SettledTyping
<1>9. CASE UNCHANGED vars
  BY <1>9 DEF vars, adding, history
<1> QED
  BY <1>1, <1>2, <1>3, <1>4, <1>5, <1>6, <1>7, <1>8, <1>9 DEF Next

(* The types of the ledger's variables hold in every behaviour.            *)
THEOREM LedgerWellTyped == Spec => []TypeOK
<1>1. Init => TypeOK
  BY InitTyping
<1>2. TypeOK /\ [Next]_vars => TypeOK'
  BY TypingStep
<1> QED
  BY <1>1, <1>2, PTL DEF Spec

-----------------------------------------------------------------------------
LEMMA PastStep == TypeOK /\ Past /\ [Next]_vars => Past'
<1> SUFFICES ASSUME TypeOK, Past, [Next]_vars PROVE Past'
  OBVIOUS
<1> USE LimitsAssumption DEF Past, Month
<1>t. /\ month \in Nat \ {0} /\ month \in Month /\ Month \subseteq Nat \ {0} /\ made \in Nat
      /\ stamp \in [Procs -> Month] /\ base \in [Procs -> Record]
      /\ settled \in [Month -> SUBSET Nat] /\ file \in Record
      /\ \A p \in Procs : Adding(p) => mine[p] \in 0 .. (made - 1)
  BY DEF TypeOK, Month
<1>1. CASE MonthTurns
  BY <1>1, <1>t, LimitsAssumption DEF MonthTurns, adding, history, Month, Record
<1>2. ASSUME NEW p \in Procs, NEW what \in {"gaffer", "bare"},
             HelperSpends(p) \/ Spends(p, what) \/ HandSpends(p)
      PROVE  Past'
  <2>1. \A q \in Procs : stamp'[q] <= month
    BY <1>2, <1>t DEF HelperSpends, Spends, HandSpends
  <2>2. UNCHANGED <<month, file, base, made, settled, helped>>
    BY <1>2 DEF HelperSpends, Spends, HandSpends, history
  <2> QED
    BY <2>1, <2>2
<1>3. ASSUME NEW p \in Procs, Stamps(p) PROVE Past'
  <2>1. MonthOfAdd(p) \in Month /\ MonthOfAdd(p) <= month
    BY <1>t DEF MonthOfAdd
  <2>2. /\ made' = made + 1 /\ made \in 0 .. (made' - 1)
        /\ \A S \in SUBSET (0 .. (made - 1)) : S \subseteq 0 .. (made' - 1)
    BY <1>3, <1>t DEF Stamps, StampedWith
  <2>3. \A m \in Month :
          /\ settled'[m] \subseteq settled[m] \cup {made}
          /\ m > month => settled'[m] = settled[m]
    BY <1>3, <1>t, <2>1 DEF Stamps, StampedWith
  <2>4. /\ helped' \subseteq helped \cup {made}
        /\ stamp' = [stamp EXCEPT ![p] = MonthOfAdd(p)]
        /\ month' = month /\ file' = file /\ base' = base
    BY <1>3 DEF Stamps, StampedWith
  <2>5. \A q \in Procs : stamp'[q] <= month
    BY <1>t, <2>1, <2>4
  <2>6. helped' \subseteq 0 .. (made' - 1)
    BY <2>2, <2>4
  <2>7. ASSUME NEW m \in Month PROVE settled'[m] \subseteq 0 .. (made' - 1)
    BY <2>2, <2>3
  <2>8. file'.adds \subseteq 0 .. (made' - 1)
    BY <2>2, <2>4
  <2>9. ASSUME NEW q \in Procs PROVE base'[q].adds \subseteq 0 .. (made' - 1)
    BY <2>2, <2>4
  <2> QED
    BY <2>3, <2>4, <2>5, <2>6, <2>7, <2>8, <2>9
<1>4. ASSUME NEW p \in Procs, Reads(p) PROVE Past'
  BY <1>4, <1>t DEF Reads, history
<1>5. ASSUME NEW p \in Procs, Sums(p) PROVE Past'
  <2>1. \A m : Total(base[p], m) \subseteq base[p].adds
    BY DEF Total
  <2>2. \A q \in Procs :
          base'[q].month = base[q].month /\ base'[q].adds \subseteq base[q].adds
    BY <1>5, <1>t, <2>1 DEF Sums, Record
  <2> QED
    BY <1>5, <2>2 DEF Sums, history
<1>6. ASSUME NEW p \in Procs, Settles(p),
             \/ file' = file
             \/ Adding(p) /\ file' = [month |-> stamp[p], adds |-> base[p].adds \cup {mine[p]}]
      PROVE  Past'
  <2>1. UNCHANGED <<month, made, settled, helped>>
    BY <1>6 DEF Settles
  <2>2. \A q \in Procs : stamp'[q] <= month
    BY <1>6, <1>t DEF Settles
  <2>3. \A q \in Procs : base'[q].month <= month /\ base'[q].adds \subseteq 0 .. (made - 1)
    BY <1>6, <1>t DEF Settles, Empty
  <2>4. file'.month <= month /\ file'.adds \subseteq 0 .. (made - 1)
    BY <1>6, <1>t
  <2> QED
    BY <2>1, <2>2, <2>3, <2>4
<1>7. ASSUME NEW p \in Procs, Writes(p) \/ AddFails(p) \/ Forgets(p) PROVE Past'
  BY <1>6, <1>7 DEF Writes, AddFails, Forgets, Adding
<1>8. CASE UNCHANGED vars
  BY <1>8 DEF vars, adding, history
<1> QED
  BY <1>1, <1>2, <1>3, <1>4, <1>5, <1>7, <1>8 DEF Next

-----------------------------------------------------------------------------
(* What each kind of step does to the adds that are done.                  *)
LEMMA DoneQuiet ==
  ASSUME UNCHANGED <<month, settled, crossed, pc, mine>>
  PROVE  Done(month)' = Done(month) /\ Pending' = Pending
  BY DEF Done, Pending, Adding

LEMMA DoneStamps ==
  ASSUME TypeOK, NEW p \in Procs, Stamps(p)
  PROVE  /\ Done(month)' \subseteq Done(month) /\ made \notin Done(month)'
         /\ Pending \subseteq Pending' /\ settled'[month] \subseteq settled[month] \cup {made}
<1>1. /\ pc[p] = "idle" /\ pc' = [pc EXCEPT ![p] = "read"]
      /\ mine' = [mine EXCEPT ![p] = made] /\ month' = month /\ crossed \subseteq crossed'
  BY DEF Stamps, StampedWith
<1>2. settled'[month] \subseteq settled[month] \cup {made}
  BY DEF Stamps, StampedWith, TypeOK
<1>3. made \in Pending' /\ Pending \subseteq Pending'
  <2>1. Adding(p)' /\ mine'[p] = made
    BY <1>1 DEF Adding, TypeOK
  <2>2. \A q \in Procs : Adding(q) => Adding(q)' /\ mine'[q] = mine[q]
    BY <1>1 DEF Adding, TypeOK
  <2> QED
    BY <2>1, <2>2 DEF Pending
<1> QED
  BY <1>1, <1>2, <1>3 DEF Done

LEMMA DoneSettles ==
  ASSUME TypeOK, NEW p \in Procs, Settles(p), crossed \subseteq crossed'
  PROVE  /\ Done(month)' \subseteq Done(month) \cup {mine[p]}
         /\ ~Adding(p) => Done(month)' \subseteq Done(month)
<1>1. UNCHANGED <<month, settled>>
  BY DEF Settles
<1>2. ASSUME NEW q \in Procs, Adding(q), q # p PROVE mine[q] \in Pending'
  <2>1. Adding(q)' /\ mine'[q] = mine[q]
    BY <1>2, SettlesTyping DEF Adding
  <2> QED
    BY <2>1 DEF Pending
<1> QED
  BY <1>1, <1>2 DEF Done, Pending

(* A new month has no adds.                                                *)
LEMMA DoneTurns ==
  ASSUME TypeOK, Past, MonthTurns
  PROVE  settled'[month'] = {} /\ Done(month)' = {}
  BY LimitsAssumption DEF MonthTurns, history, TypeOK, Past, Month, Done

-----------------------------------------------------------------------------
LEMMA OfItsMonthStep == TypeOK /\ Past /\ OfItsMonth /\ [Next]_vars => OfItsMonth'
<1> SUFFICES ASSUME TypeOK, Past, OfItsMonth, [Next]_vars PROVE OfItsMonth'
  OBVIOUS
<1> USE DEF OfItsMonth, CountsItsMonth
<1>1. CASE MonthTurns
  <2>1. month' > month /\ UNCHANGED <<file, base, stamp, pc>>
    BY <1>1 DEF MonthTurns, adding, TypeOK, Month
  <2>2. file.month # month' /\ \A p \in Procs : base[p].month # month' /\ stamp[p] # month'
    BY <2>1, LimitsAssumption, <1>1 DEF Past, TypeOK, Month, Record, MonthTurns
  <2> QED
    BY <2>1, <2>2 DEF Total
<1>2. ASSUME NEW p \in Procs, NEW what \in {"gaffer", "bare"},
             HelperSpends(p) \/ Spends(p, what) \/ HandSpends(p)
      PROVE  OfItsMonth'
  <2>1. UNCHANGED <<month, file, base, pc, settled>>
    BY <1>2 DEF HelperSpends, Spends, HandSpends, history
  <2>2. \A q \in Procs : Adding(q) => stamp'[q] = stamp[q]
    BY <1>2 DEF HelperSpends, Spends, HandSpends, TypeOK
  <2> QED
    BY <2>1, <2>2 DEF Total, Adding
<1>3. ASSUME NEW p \in Procs, Stamps(p) PROVE OfItsMonth'
  <2>1. UNCHANGED <<month, file, base>> /\ settled[month] \subseteq settled'[month]
    BY <1>3 DEF Stamps, StampedWith, TypeOK
  <2>2. \A q \in Procs : pc'[q] \in {"sum", "write"} => pc'[q] = pc[q] /\ stamp'[q] = stamp[q]
    BY <1>3 DEF Stamps, StampedWith, TypeOK
  <2> QED
    BY <2>1, <2>2 DEF Total
<1>4. ASSUME NEW p \in Procs, Reads(p) PROVE OfItsMonth'
  BY <1>4 DEF Reads, history, TypeOK
<1>5. ASSUME NEW p \in Procs, Sums(p) PROVE OfItsMonth'
  <2>1. /\ pc[p] = "sum" /\ UNCHANGED <<month, file, stamp, settled>>
        /\ \A q \in Procs : q # p => pc'[q] = pc[q] /\ base'[q] = base[q]
        /\ pc'[p] = "write"
    BY <1>5 DEF Sums, history, TypeOK
  <2>2. stamp[p] = month => base'[p].adds = Total(base[p], month)
    BY <1>5 DEF Sums, TypeOK, Record
  <2> QED
    BY <2>1, <2>2
<1>6. ASSUME NEW p \in Procs, Writes(p) PROVE OfItsMonth'
  <2>1. /\ file'.month = stamp[p] /\ file'.adds = base[p].adds \cup {mine[p]}
        /\ pc[p] = "write" /\ Settles(p) /\ month' = month /\ settled' = settled
    BY <1>6 DEF Writes, Settles
  <2>2. stamp[p] = month => file'.adds \subseteq settled[month]
    BY <2>1 DEF TypeOK, Adding
  <2>3. \A q \in Procs : Adding(q)' => /\ pc'[q] = pc[q] /\ stamp'[q] = stamp[q]
                                     /\ base'[q] = base[q]
    BY <2>1, SettlesTyping
  <2> QED
    BY <2>1, <2>2, <2>3 DEF Total, Adding
<1>7. ASSUME NEW p \in Procs, AddFails(p) \/ Forgets(p) PROVE OfItsMonth'
  <2>1. Settles(p) /\ file' = file /\ month' = month /\ settled' = settled
    BY <1>7 DEF AddFails, Forgets, Settles
  <2>2. \A q \in Procs : Adding(q)' => /\ pc'[q] = pc[q] /\ stamp'[q] = stamp[q]
                                     /\ base'[q] = base[q]
    BY <2>1, SettlesTyping
  <2> QED
    BY <2>1, <2>2 DEF Total, Adding
<1>8. CASE UNCHANGED vars
  BY <1>8 DEF vars, adding, history
<1> QED
  BY <1>1, <1>2, <1>3, <1>4, <1>5, <1>6, <1>7, <1>8 DEF Next

(* The month's total never holds a spend of another month, however adds    *)
(* cross and whatever clocks they read (daemon/ledger.py:52, 69): helpers  *)
(* and searches are switched off late at worst, never early.               *)
THEOREM CountsOwnMonth == Spec => []CountsItsMonth
<1>1. Init => TypeOK /\ Past /\ OfItsMonth
  BY InitTyping DEF Init, Past, OfItsMonth, CountsItsMonth, Total, Empty
<1>2. TypeOK /\ Past /\ OfItsMonth /\ [Next]_vars => TypeOK' /\ Past' /\ OfItsMonth'
  BY TypingStep, PastStep, OfItsMonthStep
<1> QED
  BY <1>1, <1>2, PTL DEF Spec, OfItsMonth

-----------------------------------------------------------------------------
LEMMA CrossingsStep == TypeOK /\ Crossings /\ [Next]_vars => Crossings'
<1> SUFFICES ASSUME TypeOK, Crossings, [Next]_vars PROVE Crossings'
  OBVIOUS
<1> USE DEF Crossings
<1>1. CASE MonthTurns
  BY <1>1 DEF MonthTurns, adding, history, Adding
<1>2. ASSUME NEW p \in Procs, NEW what \in {"gaffer", "bare"},
             HelperSpends(p) \/ Spends(p, what) \/ HandSpends(p)
      PROVE  Crossings'
  BY <1>2 DEF HelperSpends, Spends, HandSpends, history, Adding
<1>3. ASSUME NEW p \in Procs, Stamps(p) PROVE Crossings'
  <2>1. /\ mine' = [mine EXCEPT ![p] = made] /\ pc[p] = "idle"
        /\ pc' = [pc EXCEPT ![p] = "read"]
        /\ crossed' = IF Pending = {} THEN crossed ELSE crossed \cup Pending \cup {made}
    BY <1>3 DEF Stamps, StampedWith
  <2>2. \A q \in Procs : q # p /\ Adding(q)' => Adding(q) /\ mine'[q] = mine[q]
    BY <2>1 DEF Adding, TypeOK
  <2>3. \A q \in Procs : Adding(q) => mine[q] \in Pending
    BY DEF Pending
  <2>4. mine'[p] = made
    BY <2>1 DEF TypeOK
  <2> QED
    BY <2>1, <2>2, <2>3, <2>4
<1>4. ASSUME NEW p \in Procs, Reads(p) \/ Sums(p) PROVE Crossings'
  <2>1. UNCHANGED <<mine, crossed>> /\ \A q \in Procs : Adding(q)' => Adding(q)
    BY <1>4 DEF Reads, Sums, history, TypeOK, Adding
  <2> QED
    BY <2>1
<1>5. ASSUME NEW p \in Procs, Writes(p) \/ AddFails(p) \/ Forgets(p) PROVE Crossings'
  <2>1. Settles(p) /\ crossed \subseteq crossed'
    BY <1>5 DEF Writes, AddFails, Forgets
  <2>2. \A q \in Procs : Adding(q)' => Adding(q) /\ mine'[q] = mine[q]
    BY <2>1, SettlesTyping
  <2> QED
    BY <2>1, <2>2
<1>6. CASE UNCHANGED vars
  BY <1>6 DEF vars, adding, history, Adding
<1> QED
  BY <1>1, <1>2, <1>3, <1>4, <1>5, <1>6 DEF Next

LEMMA KeptStep ==
  TypeOK /\ Past /\ Crossings /\ Kept /\ [Next]_vars => Kept'
<1> SUFFICES ASSUME TypeOK, Past, Crossings, Kept, [Next]_vars, month' \notin late'
             PROVE  Kept'
  BY DEF Kept
<1> USE DEF Kept
<1>1. CASE MonthTurns
  <2>1. \A p \in Procs : stamp'[p] # month'
    BY <1>1, LimitsAssumption DEF MonthTurns, adding, Past, TypeOK, Month
  <2> QED
    BY <1>1, <2>1, DoneTurns DEF MonthTurns, history
<1>2. ASSUME month' = month, late' = late, file' = file, Done(month)' \subseteq Done(month),
             settled' = settled, crossed \subseteq crossed',
             \A q \in Procs : Adding(q)' =>
               pc'[q] = pc[q] /\ stamp'[q] = stamp[q] /\ base'[q] = base[q]
      PROVE  Kept'
  BY <1>2 DEF Total, Adding
<1>3. ASSUME NEW p \in Procs, NEW what \in {"gaffer", "bare"},
             HelperSpends(p) \/ Spends(p, what) \/ HandSpends(p)
      PROVE  Kept'
  <2>1. UNCHANGED <<month, file, base, pc, mine, settled, crossed, late>>
    BY <1>3 DEF HelperSpends, Spends, HandSpends, history
  <2>2. \A q \in Procs : Adding(q) => stamp'[q] = stamp[q]
    BY <1>3 DEF HelperSpends, Spends, HandSpends, TypeOK
  <2> QED
    BY <1>2, <2>1, <2>2, DoneQuiet DEF Adding
<1>4. ASSUME NEW p \in Procs, Stamps(p) PROVE Kept'
  <2>1. /\ UNCHANGED <<month, file, base>> /\ month \notin late
        /\ late' = IF MonthOfAdd(p) < month /\ settled[month] # {}
                     THEN late \cup {month} ELSE late
        /\ settled' = [settled EXCEPT ![MonthOfAdd(p)] = @ \cup {made}]
        /\ crossed' = IF Pending = {} THEN crossed ELSE crossed \cup Pending \cup {made}
    BY <1>4 DEF Stamps, StampedWith
  <2>0. MonthOfAdd(p) < month => settled'[month] = {}
    <3>1. MonthOfAdd(p) \in Month /\ month \in Month /\ Month \subseteq Int
      BY DEF MonthOfAdd, TypeOK, Month
    <3>2. MonthOfAdd(p) < month => settled[month] = {} /\ MonthOfAdd(p) # month
      BY <2>1, <3>1
    <3> QED
      BY <2>1, <3>1, <3>2 DEF TypeOK
  <2>2. /\ pc[p] = "idle" /\ pc'[p] = "read" /\ stamp'[p] = MonthOfAdd(p)
        /\ \A q \in Procs : q # p => pc'[q] = pc[q] /\ stamp'[q] = stamp[q]
    BY <1>4 DEF Stamps, StampedWith, TypeOK
  <2>3. ASSUME NEW q \in Procs, Adding(q)', stamp'[q] < month
        PROVE  settled'[month] \subseteq crossed'
    <3>1. CASE q = p
      BY <2>0, <2>2, <2>3, <3>1
    <3>2. CASE q # p
      <4>1. Adding(q) /\ stamp[q] < month
        BY <2>2, <2>3, <3>2 DEF Adding
      <4>2. Pending # {}
        BY <4>1 DEF Pending
      <4> QED
        BY <2>1, <4>1, <4>2, <1>4, DoneStamps
    <3> QED
      BY <3>1, <3>2
  <2>4. \A q \in Procs : pc'[q] \in {"sum", "write"} => pc'[q] = pc[q] /\ stamp'[q] = stamp[q]
    BY <2>2
  <2> QED
    BY <1>4, <2>1, <2>3, <2>4, DoneStamps DEF Total
<1>5. ASSUME NEW p \in Procs, Reads(p) \/ Sums(p) PROVE Kept'
  <2>1. UNCHANGED <<month, file, stamp, mine, settled, crossed, late>>
    BY <1>5 DEF Reads, Sums, history
  <2>2. /\ \A q \in Procs : Adding(q)' <=> Adding(q)
        /\ \A q \in Procs : q # p => pc'[q] = pc[q] /\ base'[q] = base[q]
    BY <1>5 DEF Reads, Sums, history, TypeOK, Adding
  <2>3. Pending' = Pending /\ Done(month)' = Done(month)
    BY <2>1, <2>2 DEF Pending, Done
  <2>4. CASE Reads(p)
    <3>1. pc'[p] = "sum" /\ base'[p] = file
      BY <2>4 DEF Reads, TypeOK
    <3> QED
      BY <2>1, <2>2, <2>3, <3>1 DEF Total
  <2>5. CASE Sums(p)
    <3>1. pc[p] = "sum" /\ pc'[p] = "write"
      BY <2>5 DEF Sums, TypeOK
    <3>2. stamp[p] = month => base'[p].adds = Total(base[p], month)
      BY <2>5 DEF Sums, TypeOK, Record
    <3> QED
      BY <2>1, <2>2, <2>3, <3>1, <3>2 DEF Total
  <2> QED
    BY <1>5, <2>4, <2>5
<1>6. ASSUME NEW p \in Procs, Writes(p) PROVE Kept'
  <2>1. /\ file'.month = stamp[p] /\ file'.adds = base[p].adds \cup {mine[p]}
        /\ pc[p] = "write" /\ Settles(p)
        /\ UNCHANGED <<month, settled, crossed, late>>
    BY <1>6 DEF Writes, Settles
  <2>2. \A q \in Procs : Adding(q)' =>
          /\ q # p /\ Adding(q)
          /\ pc'[q] = pc[q] /\ stamp'[q] = stamp[q] /\ base'[q] = base[q]
    BY <2>1, SettlesTyping
  <2>3. Done(month)' \subseteq Done(month) \cup {mine[p]}
    BY <2>1, DoneSettles
  <2>4. Adding(p) /\ stamp[p] <= month
    BY <2>1 DEF Adding, Past
  <2>5. CASE stamp[p] = month
    <3>1. Done(month)' \subseteq file'.adds
      BY <2>1, <2>3, <2>5
    <3>2. ASSUME NEW q \in Procs, Adding(q)' PROVE Done(month)' \subseteq Done(month)
      <4>1. mine[p] \in crossed'
        BY <2>1, <2>2, <2>4, <3>2 DEF Crossings
      <4> QED
        BY <2>3, <4>1 DEF Done
    <3> QED
      BY <2>1, <2>2, <2>5, <3>1, <3>2 DEF Total, Adding
  <2>6. CASE stamp[p] # month
    <3>1. settled[month] \subseteq crossed
      <4>1. stamp[p] \in Int /\ month \in Int
        BY DEF TypeOK, Month
      <4>2. stamp[p] < month
        BY <2>4, <2>6, <4>1
      <4> QED
        BY <2>1, <2>4, <4>2
    <3>2. Done(month)' = {}
      BY <2>1, <3>1 DEF Done
    <3> QED
      BY <2>1, <2>2, <3>1, <3>2
  <2> QED
    BY <2>5, <2>6
<1>7. ASSUME NEW p \in Procs, AddFails(p) \/ Forgets(p) PROVE Kept'
  <2>1. Settles(p) /\ crossed \subseteq crossed' /\ UNCHANGED <<file, month, settled, late>>
    BY <1>7 DEF AddFails, Forgets, Settles
  <2>2. Done(month)' \subseteq Done(month)
    <3>1. CASE AddFails(p)
      <4>1. mine[p] \in crossed'
        BY <3>1 DEF AddFails
      <4> QED
        BY <2>1, <4>1, DoneSettles DEF Done
    <3>2. CASE Forgets(p)
      BY <2>1, <3>2, DoneSettles DEF Forgets, Adding
    <3> QED
      BY <1>7, <3>1, <3>2
  <2> QED
    BY <1>2, <2>1, <2>2, SettlesTyping
<1>8. CASE UNCHANGED vars
  BY <1>2, <1>8, DoneQuiet DEF vars, adding, history
<1> QED
  BY <1>1, <1>3, <1>4, <1>5, <1>6, <1>7, <1>8 DEF Next

(* A spend is lost to its month only when its add crossed another or       *)
(* failed, or an add of an earlier month began in the month                *)
(* (daemon/ledger.py:69, daemon/__main__.py:771, 794): the others are in   *)
(* the total whatever crossed before or after them.                        *)
THEOREM LostIsCrossed == Spec => []LostOnlyIfCrossed
<1>1. Init => TypeOK /\ Past /\ Crossings /\ Kept
  <2>1. Init => Past
    BY DEF Init, Past, Empty
  <2>2. Init => Crossings /\ (\A p \in Procs : pc[p] = "idle") /\ settled[month] = {}
    BY LimitsAssumption DEF Init, Crossings, Adding, Month
  <2> QED
    BY <2>1, <2>2, InitTyping DEF Kept, Done, Adding
<1>2. TypeOK /\ Past /\ Crossings /\ Kept /\ [Next]_vars
        => TypeOK' /\ Past' /\ Crossings' /\ Kept'
  BY TypingStep, PastStep, CrossingsStep, KeptStep
<1>3. Kept => LostOnlyIfCrossed
  BY DEF Kept, LostOnlyIfCrossed
<1> QED
  BY <1>1, <1>2, <1>3, PTL DEF Spec

-----------------------------------------------------------------------------
LEMMA HelpedOnlyStep == TypeOK /\ Past /\ HelpedOnly /\ [Next]_vars => HelpedOnly'
<1> SUFFICES ASSUME TypeOK, Past, HelpedOnly, [Next]_vars PROVE HelpedOnly'
  OBVIOUS
<1> USE DEF HelpedOnly
<1>1. CASE MonthTurns
  BY <1>1 DEF MonthTurns, adding, history, Adding
<1>2. ASSUME NEW p \in Procs, NEW what \in {"gaffer", "bare"},
             HelperSpends(p) \/ Spends(p, what) \/ HandSpends(p)
      PROVE  HelpedOnly'
  BY <1>2 DEF HelperSpends, Spends, HandSpends, history, TypeOK, Adding
<1>3. ASSUME NEW p \in Procs, Stamps(p) PROVE HelpedOnly'
  <2>1. /\ mine' = [mine EXCEPT ![p] = made] /\ pc' = [pc EXCEPT ![p] = "read"]
        /\ owes' = owes
        /\ helped' = IF owes[p] = "helper" THEN helped \cup {made} ELSE helped
    BY <1>3 DEF Stamps, StampedWith
  <2>2. made \notin helped /\ \A m \in Month : made \notin settled[m]
    <3>1. made \notin 0 .. (made - 1)
      BY DEF TypeOK
    <3> QED
      BY <3>1 DEF Past
  <2>3. \A q \in Procs : q # p /\ Adding(q)' =>
          Adding(q) /\ mine'[q] = mine[q] /\ mine[q] # made
    BY <2>1, <2>2 DEF TypeOK, Adding
  <2>4. mine'[p] = made
    BY <2>1 DEF TypeOK
  <2> QED
    BY <2>1, <2>2, <2>3, <2>4
<1>4. ASSUME NEW p \in Procs, Reads(p) \/ Sums(p) PROVE HelpedOnly'
  <2>1. UNCHANGED <<mine, helped, owes>> /\ \A q \in Procs : Adding(q)' => Adding(q)
    BY <1>4 DEF Reads, Sums, history, TypeOK, Adding
  <2> QED
    BY <2>1
<1>5. ASSUME NEW p \in Procs, Writes(p) \/ AddFails(p) \/ Forgets(p) PROVE HelpedOnly'
  <2>1. Settles(p) /\ helped' = helped
    BY <1>5 DEF Writes, AddFails, Forgets, Settles
  <2>2. \A q \in Procs :
          Adding(q)' => Adding(q) /\ mine'[q] = mine[q] /\ owes'[q] = owes[q]
    BY <2>1, SettlesTyping
  <2> QED
    BY <2>1, <2>2
<1>6. CASE UNCHANGED vars
  BY <1>6 DEF vars, adding, history, Adding
<1> QED
  BY <1>1, <1>2, <1>3, <1>4, <1>5, <1>6 DEF Next

(* The sets that are counted are finite, and no more helpers run than      *)
(* there are processes.                                                    *)
LEMMA Counts ==
  ASSUME TypeOK, Past
  PROVE  /\ IsFiniteSet(Total(file, month)) /\ IsFiniteSet(helped \cap Done(month))
         /\ Cardinality(helped \cap Done(month)) \in Nat
         /\ IsFiniteSet(Running) /\ Cardinality(Running) \in Nat
         /\ Cardinality(Procs) \in Nat \ {0} /\ Cardinality(Running) <= Cardinality(Procs)
<1>1. IsFiniteSet(0 .. (made - 1))
  BY FS_Interval DEF TypeOK
<1>2. Total(file, month) \subseteq 0 .. (made - 1)
      /\ helped \cap Done(month) \subseteq 0 .. (made - 1)
  BY DEF Past, Total
<1>3. IsFiniteSet(Total(file, month)) /\ IsFiniteSet(helped \cap Done(month))
  BY <1>1, <1>2, FS_Subset
<1>4. IsFiniteSet(Procs) /\ Running \subseteq Procs
  BY LimitsAssumption DEF Running
<1>5. IsFiniteSet(Running) /\ Cardinality(Running) <= Cardinality(Procs)
  BY <1>4, FS_Subset
<1>6. Cardinality(Procs) # 0
  BY <1>4, FS_EmptySet, LimitsAssumption
<1> QED
  BY <1>3, <1>4, <1>5, <1>6, FS_CardinalityType

(* What is not let through counts no more.                                 *)
LEMMA FewerCounts ==
  ASSUME TypeOK, Past, TypeOK', Past', Gated, UNCHANGED month, late \subseteq late',
         (helped \cap Done(month))' \subseteq helped \cap Done(month),
         Running' \subseteq Running
  PROVE  Gated'
<1>1. /\ Cardinality((helped \cap Done(month))') <= Cardinality(helped \cap Done(month))
      /\ Cardinality(Running') <= Cardinality(Running)
  BY Counts, FS_Subset
<1>2. /\ Cardinality((helped \cap Done(month))') \in Nat /\ Cardinality(Running') \in Nat
  BY Counts, FS_Subset, FS_CardinalityType
<1>3. month' \notin late' =>
        Cardinality((helped \cap Done(month))') + Cardinality(Running')
          <= HelpersOff + Cardinality(Procs) - 1
  BY <1>1, <1>2, Counts, LimitsAssumption DEF Gated
<1> QED
  BY <1>3 DEF Gated

LEMMA GatedStep ==
  TypeOK /\ Past /\ Kept /\ HelpedOnly /\ Gated /\ [Next]_vars => Gated'
<1> SUFFICES ASSUME TypeOK, Past, Kept, HelpedOnly, Gated, [Next]_vars PROVE Gated'
  OBVIOUS
<1>i. TypeOK' /\ Past'
  BY TypingStep, PastStep
<1>1. CASE MonthTurns
  <2>1. helped' = helped /\ Running' = Running
    BY <1>1 DEF MonthTurns, history, adding, Running
  <2>2. (helped \cap Done(month))' = {}
    BY <1>1, DoneTurns
  <2>3. Cardinality((helped \cap Done(month))') = 0
    BY <2>2, FS_EmptySet
  <2>4. Running = {} => Cardinality(Running) = 0
    BY FS_EmptySet
  <2>5. Cardinality(Running) <= HelpersOff + Cardinality(Procs) - 1
    BY <2>4, Counts, LimitsAssumption DEF Gated
  <2>6. Cardinality((helped \cap Done(month))') + Cardinality(Running')
          <= HelpersOff + Cardinality(Procs) - 1
    BY <2>1, <2>3, <2>5, Counts
  <2> QED
    BY <2>1, <2>6 DEF Gated
<1>2. ASSUME NEW p \in Procs, HelperSpends(p) PROVE Gated'
  <2>1. /\ owes[p] = "nothing" /\ HelpersOn /\ owes' = [owes EXCEPT ![p] = "helper"]
        /\ UNCHANGED <<month, pc, mine, settled, helped, crossed, late>>
    BY <1>2 DEF HelperSpends, history
  <2>2. p \notin Running /\ Running' = Running \cup {p}
    BY <2>1 DEF Running, TypeOK
  <2>3. Cardinality(Running') = Cardinality(Running) + 1
    BY <2>2, Counts, FS_AddElement
  <2>4. Cardinality(Running') <= Cardinality(Procs)
    <3>1. Running' \subseteq Procs
      BY DEF Running
    <3> QED
      BY <3>1, FS_Subset, LimitsAssumption
  <2>5. (helped \cap Done(month))' = helped \cap Done(month)
    BY <2>1, DoneQuiet
  <2>6. Cardinality(Total(file, month)) < HelpersOff
        /\ Cardinality(Total(file, month)) \in Nat
    BY <2>1, Counts, FS_CardinalityType DEF HelpersOn
  <2>7. ASSUME month \notin late
        PROVE  Cardinality(helped \cap Done(month)) < HelpersOff
    <3>1. helped \cap Done(month) \subseteq Total(file, month)
      BY <2>7 DEF Kept
    <3>2. Cardinality(helped \cap Done(month)) <= Cardinality(Total(file, month))
      BY <3>1, Counts, FS_Subset
    <3> QED
      BY <2>6, <3>2, Counts, LimitsAssumption
  <2>8. month \notin late =>
          Cardinality(helped \cap Done(month)) + Cardinality(Running')
            <= HelpersOff + Cardinality(Procs) - 1
    BY <2>3, <2>4, <2>7, Counts, LimitsAssumption
  <2>9. HelpersOff >= 1
    BY <2>6, LimitsAssumption
  <2> QED
    BY <2>1, <2>5, <2>8, <2>9 DEF Gated
<1>3. ASSUME NEW p \in Procs, NEW what \in {"gaffer", "bare"},
             Spends(p, what) \/ HandSpends(p)
      PROVE  Gated'
  <2>1. UNCHANGED <<month, pc, mine, settled, helped, crossed, late>>
    BY <1>3 DEF Spends, HandSpends, history
  <2>2. Running' \subseteq Running
    BY <1>3 DEF Spends, HandSpends, Running, TypeOK
  <2> QED
    BY <1>i, <2>1, <2>2, DoneQuiet, FewerCounts
<1>4. ASSUME NEW p \in Procs, Stamps(p) PROVE Gated'
  <2>1. /\ helped' \subseteq helped \cup {made} /\ owes' = owes /\ month' = month
        /\ late \subseteq late'
    BY <1>4 DEF Stamps, StampedWith
  <2>2. (helped \cap Done(month))' \subseteq helped \cap Done(month)
    BY <1>4, <2>1, DoneStamps
  <2> QED
    BY <1>i, <2>1, <2>2, FewerCounts DEF Running
<1>5. ASSUME NEW p \in Procs, Reads(p) \/ Sums(p) PROVE Gated'
  <2>1. UNCHANGED <<month, owes, mine, settled, helped, crossed, late>>
    BY <1>5 DEF Reads, Sums, history
  <2>2. \A q \in Procs : Adding(q)' <=> Adding(q)
    BY <1>5 DEF Reads, Sums, TypeOK, Adding
  <2>3. Done(month)' = Done(month)
    BY <2>1, <2>2 DEF Pending, Done
  <2> QED
    BY <1>i, <2>1, <2>3, FewerCounts DEF Running
<1>6. ASSUME NEW p \in Procs, Writes(p) PROVE Gated'
  <2>1. /\ Settles(p) /\ crossed' = crossed /\ Adding(p)
        /\ UNCHANGED <<month, helped, late>>
    BY <1>6 DEF Writes, Settles, Adding
  <2>2. Done(month)' \subseteq Done(month) \cup {mine[p]}
    BY <2>1, DoneSettles
  <2>3. Running' = Running \ {p}
    BY <2>1, SettlesTyping DEF Running
  <2>4. CASE owes[p] # "helper"
    <3>1. mine[p] \notin helped
      BY <2>1, <2>4 DEF HelpedOnly
    <3> QED
      BY <1>i, <2>1, <2>2, <2>3, <3>1, FewerCounts
  <2>5. CASE owes[p] = "helper"
    <3>1. p \in Running
      BY <2>5 DEF Running
    <3>2. Cardinality(Running') = Cardinality(Running) - 1
      BY <2>3, <3>1, Counts, FS_RemoveElement
    <3>3. Cardinality((helped \cap Done(month)) \cup {mine[p]})
            <= Cardinality(helped \cap Done(month)) + 1
      <4>1. Cardinality((helped \cap Done(month)) \cup {mine[p]})
              = IF mine[p] \in helped \cap Done(month)
                  THEN Cardinality(helped \cap Done(month))
                  ELSE Cardinality(helped \cap Done(month)) + 1
        BY Counts, FS_AddElement, Zenon
      <4> QED
        BY <4>1, Counts
    <3>4. IsFiniteSet((helped \cap Done(month)) \cup {mine[p]})
      BY Counts, FS_AddElement
    <3>5. (helped \cap Done(month))' \subseteq (helped \cap Done(month)) \cup {mine[p]}
      BY <2>1, <2>2
    <3>6. /\ Cardinality((helped \cap Done(month))')
               <= Cardinality((helped \cap Done(month)) \cup {mine[p]})
          /\ Cardinality((helped \cap Done(month))') \in Nat
          /\ Cardinality((helped \cap Done(month)) \cup {mine[p]}) \in Nat
      BY <3>4, <3>5, FS_Subset, FS_CardinalityType
    <3>7. month' \notin late' =>
            Cardinality((helped \cap Done(month))') + Cardinality(Running')
              <= HelpersOff + Cardinality(Procs) - 1
      BY <2>1, <3>2, <3>3, <3>6, Counts, LimitsAssumption DEF Gated
    <3>8. Running' # {} => HelpersOff >= 1
      BY <3>1 DEF Gated
    <3> QED
      BY <3>7, <3>8 DEF Gated
  <2> QED
    BY <2>4, <2>5
<1>7. ASSUME NEW p \in Procs, AddFails(p) \/ Forgets(p) PROVE Gated'
  <2>1. /\ Settles(p) /\ crossed \subseteq crossed'
        /\ UNCHANGED <<month, helped, late>>
    BY <1>7 DEF AddFails, Forgets, Settles
  <2>2. Done(month)' \subseteq Done(month)
    <3>1. CASE AddFails(p)
      <4>1. mine[p] \in crossed'
        BY <3>1 DEF AddFails
      <4> QED
        BY <2>1, <4>1, DoneSettles DEF Done
    <3>2. CASE Forgets(p)
      BY <2>1, <3>2, DoneSettles DEF Forgets, Adding
    <3> QED
      BY <1>7, <3>1, <3>2
  <2>3. Running' \subseteq Running
    BY <2>1, SettlesTyping DEF Running
  <2> QED
    BY <1>i, <2>1, <2>2, <2>3, FewerCounts
<1>8. CASE UNCHANGED vars
  <2>1. UNCHANGED <<month, pc, owes, mine, settled, helped, crossed, late>>
    BY <1>8 DEF vars, adding, history
  <2> QED
    BY <1>i, <2>1, DoneQuiet, FewerCounts DEF Running
<1> QED
  BY <1>1, <1>2, <1>3, <1>4, <1>5, <1>6, <1>7, <1>8 DEF Next

(* The monthly limit on helpers (daemon/ledger.py:104) is overrun by the   *)
(* helpers that run when it is reached and no further, counting the adds   *)
(* that crossed no other: the file is read at each start of a helper, and  *)
(* a process settles one before it starts the next (daemon/fanout.py:217). *)
THEOREM OvershootKept == Spec => []OvershootBounded
<1>1. Init => TypeOK /\ Past /\ Crossings /\ Kept /\ HelpedOnly /\ Gated
  <2>1. Init => Past
    BY DEF Init, Past, Empty
  <2>2. Init => Crossings /\ (\A p \in Procs : pc[p] = "idle") /\ settled[month] = {}
    BY LimitsAssumption DEF Init, Crossings, Adding, Month
  <2>3. Init => Running = {} /\ helped \cap Done(month) = {}
    BY DEF Init, Running
  <2>4. Init => Gated
    BY <2>1, <2>3, InitTyping, Counts, FS_EmptySet, LimitsAssumption DEF Gated
  <2> QED
    BY <2>1, <2>2, <2>4, InitTyping DEF Kept, Done, Adding, HelpedOnly
<1>2. TypeOK /\ Past /\ Crossings /\ Kept /\ HelpedOnly /\ Gated /\ [Next]_vars
        => TypeOK' /\ Past' /\ Crossings' /\ Kept' /\ HelpedOnly' /\ Gated'
  BY TypingStep, PastStep, CrossingsStep, KeptStep, HelpedOnlyStep, GatedStep
<1>3. TypeOK /\ Past /\ Gated => OvershootBounded
  BY Counts, LimitsAssumption DEF Gated, OvershootBounded
<1> QED
  BY <1>1, <1>2, <1>3, PTL DEF Spec
=============================================================================
