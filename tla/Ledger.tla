------------------------------- MODULE Ledger -------------------------------
(***************************************************************************)
(* The month-to-date spend ledger (daemon/ledger.py) and the processes     *)
(* that add to it: the brief, the Scout's sweep, a build, a helper started *)
(* by hand, and the reply loop.  They take no lock: an add stamps itself   *)
(* with a month, reads the record, drops its total when the record is of   *)
(* another month, and writes it back with its own spend on top.            *)
(*                                                                         *)
(* Three callers, three uses of the clock.  A wake passes the time of the  *)
(* add.  A helper started by hand passes the time it was started, up to a  *)
(* whole run earlier.  Chat and a build pass none, and the add then asks   *)
(* the clock twice: for its stamp, and for the month it keeps a total of.  *)
(*                                                                         *)
(* An add is known by its number, in the order of the stamps, and a total  *)
(* by the set of adds that are summed in it.                               *)
(***************************************************************************)
EXTENDS Naturals, FiniteSets

CONSTANTS
  Procs,       \* the processes that spend
  HelpersOff,  \* thresholds["helpers_off_usd"], in adds
  LastMonth,   \* bound: months
  MaxAdds,     \* bound: adds
  MaxFaults    \* bound: failed writes, processes that end with a spend unsettled

ASSUME LimitsAssumption ==
  /\ IsFiniteSet(Procs) /\ Procs # {}
  /\ HelpersOff \in Nat /\ LastMonth \in Nat \ {0}
  /\ MaxAdds \in Nat /\ MaxFaults \in Nat

Month == 1 .. LastMonth
Record == [month : Month, adds : SUBSET Nat]

(* What a process has spent on and not yet put in the ledger: a gated      *)
(* helper of a wake, its gaffer or AM, a chat or a build, a helper started *)
(* by hand.                                                                *)
Spending == {"helper", "gaffer", "bare", "hand"}

VARIABLES
  month,    \* the clock's
  file,     \* the record: its month and the adds in its total
  pc,       \* per process: is it spending, or in which step of an add?
  owes,     \* per process: what it spent on since it last settled, or "nothing"
  stamp,    \* per process: the month of the add it makes
  mine,     \*              its number
  base,     \*              the record it found, then the total it keeps of it
  made,     \* adds so far
  faults,
  \* History, read by properties only:
  settled,  \* per month: the adds stamped with it
  helped,   \* the adds of gated helpers
  crossed,  \* the adds that overlapped another one, or failed
  late      \* the months in which an add of an earlier month began after one
            \* of the month itself

adding == <<pc, owes, stamp, mine, base>>
history == <<settled, helped, crossed, late>>
vars == <<month, file, adding, made, faults, history>>

Empty == [month |-> 1, adds |-> {}]

Init ==
  /\ month = 1 /\ file = Empty
  /\ pc = [p \in Procs |-> "idle"] /\ owes = [p \in Procs |-> "nothing"]
  /\ stamp = [p \in Procs |-> 1] /\ mine = [p \in Procs |-> 0]
  /\ base = [p \in Procs |-> Empty]
  /\ made = 0 /\ faults = 0
  /\ settled = [m \in Month |-> {}]
  /\ helped = {} /\ crossed = {} /\ late = {}

Fault == faults < MaxFaults /\ faults' = faults + 1

Adding(p) == pc[p] # "idle"

(* The adds that are being made.                                           *)
Pending == {mine[p] : p \in {q \in Procs : Adding(q)}}

\* Faulty: last month's total is carried over.
TotalCarried(record, m) == record.adds

(* total: a record of another month reads as nothing.                      *)
Total(record, m) == IF record.month = m THEN record.adds ELSE {}

\* Faulty: the threshold itself is still allowed.
HelpersOnAt == Cardinality(Total(file, month)) <= HelpersOff

(* mode, for those it gates.                                               *)
HelpersOn == Cardinality(Total(file, month)) < HelpersOff

MonthTurns ==
  /\ month < LastMonth /\ month' = month + 1
  /\ UNCHANGED <<file, adding, made, faults, history>>

(* A helper, an analyst or the Scout of a wake is gated; each is settled   *)
(* before the next starts.                                                 *)
HelperSpends(p) ==
  /\ owes[p] = "nothing" /\ HelpersOn
  /\ owes' = [owes EXCEPT ![p] = "helper"]
  /\ UNCHANGED <<month, file, pc, stamp, mine, base, made, faults, history>>

(* The gaffer and the AM of a wake, a chat with what it asks of a helper,  *)
(* and a build are not gated.                                              *)
Spends(p, what) ==
  /\ owes[p] = "nothing"
  /\ owes' = [owes EXCEPT ![p] = what]
  /\ UNCHANGED <<month, file, pc, stamp, mine, base, made, faults, history>>

(* Nor is a helper started by hand, which only loses its search; the time  *)
(* of its start is the time of its add.                                    *)
HandSpends(p) ==
  /\ owes[p] = "nothing"
  /\ owes' = [owes EXCEPT ![p] = "hand"]
  /\ stamp' = [stamp EXCEPT ![p] = month]
  /\ UNCHANGED <<month, file, pc, mine, base, made, faults, history>>

(* The month of an add: of the time it is given, or of the clock.          *)
MonthOfAdd(p) == IF owes[p] = "hand" THEN stamp[p] ELSE month

(* The add begins: it has a month and, here, a number.                     *)
StampedWith(p, m) ==
  /\ pc[p] = "idle" /\ owes[p] # "nothing" /\ made < MaxAdds
  /\ pc' = [pc EXCEPT ![p] = "read"]
  /\ stamp' = [stamp EXCEPT ![p] = m]
  /\ mine' = [mine EXCEPT ![p] = made] /\ made' = made + 1
  /\ settled' = [settled EXCEPT ![MonthOfAdd(p)] = @ \cup {made}]
  /\ helped' = IF owes[p] = "helper" THEN helped \cup {made} ELSE helped
  /\ crossed' = IF Pending = {} THEN crossed ELSE crossed \cup Pending \cup {made}
  /\ late' = IF MonthOfAdd(p) < month /\ settled[month] # {}
                THEN late \cup {month} ELSE late
  /\ UNCHANGED <<month, file, owes, base, faults>>

\* Faulty: every process keeps the time it was started with.
StampsAtStart(p) == StampedWith(p, stamp[p])

Stamps(p) == StampedWith(p, MonthOfAdd(p))

Reads(p) ==
  /\ pc[p] = "read"
  /\ pc' = [pc EXCEPT ![p] = "sum"]
  /\ base' = [base EXCEPT ![p] = file]
  /\ UNCHANGED <<month, file, owes, stamp, mine, made, faults, history>>

(* Without a time of its own the add asks the clock again.                 *)
Sums(p) ==
  /\ pc[p] = "sum"
  /\ pc' = [pc EXCEPT ![p] = "write"]
  /\ LET m == IF owes[p] = "bare" THEN month ELSE stamp[p]
     IN  base' = [base EXCEPT ![p].adds = Total(base[p], m)]
  /\ UNCHANGED <<month, file, owes, stamp, mine, made, faults, history>>

(* The add of p is over, and what it kept to itself is gone.               *)
Settles(p) ==
  /\ pc' = [pc EXCEPT ![p] = "idle"] /\ owes' = [owes EXCEPT ![p] = "nothing"]
  /\ stamp' = [stamp EXCEPT ![p] = 1] /\ mine' = [mine EXCEPT ![p] = 0]
  /\ base' = [base EXCEPT ![p] = Empty]
  /\ UNCHANGED <<month, made, settled, helped, late>>

\* Faulty: the record keeps the month it was first made in.
WritesNoRollover(p) ==
  /\ pc[p] = "write"
  /\ file' = [file EXCEPT !.adds = base[p].adds \cup {mine[p]}]
  /\ Settles(p)
  /\ UNCHANGED <<faults, crossed>>

Writes(p) ==
  /\ pc[p] = "write"
  /\ file' = [month |-> stamp[p], adds |-> base[p].adds \cup {mine[p]}]
  /\ Settles(p)
  /\ UNCHANGED <<faults, crossed>>

(* A write that fails is swallowed; so is the add of a process that dies.  *)
AddFails(p) ==
  /\ Fault
  /\ Adding(p)
  /\ crossed' = crossed \cup {mine[p]}
  /\ Settles(p)
  /\ UNCHANGED file

(* A wake that raises or dies before it settles: the spend is forgotten.   *)
Forgets(p) ==
  /\ Fault
  /\ pc[p] = "idle" /\ owes[p] # "nothing"
  /\ Settles(p)
  /\ UNCHANGED <<file, crossed>>

Next ==
  \/ MonthTurns
  \/ \E p \in Procs :
       \/ HelperSpends(p) \/ (\E what \in {"gaffer", "bare"} : Spends(p, what))
       \/ HandSpends(p) \/ Stamps(p) \/ Reads(p) \/ Sums(p) \/ Writes(p)
       \/ AddFails(p) \/ Forgets(p)

Spec == Init /\ [][Next]_vars

-----------------------------------------------------------------------------
(* The variables have their types; an add that runs is counted, in a month *)
(* that has come, and no month is counted before it comes.                 *)
TypeOK ==
  /\ month \in Month /\ file \in Record
  /\ pc \in [Procs -> {"idle", "read", "sum", "write"}]
  /\ owes \in [Procs -> Spending \cup {"nothing"}]
  /\ stamp \in [Procs -> Month] /\ mine \in [Procs -> Nat] /\ base \in [Procs -> Record]
  /\ made \in Nat /\ faults \in Nat
  /\ settled \in [Month -> SUBSET Nat]
  /\ helped \subseteq Nat /\ crossed \subseteq Nat /\ late \subseteq Month
  /\ \A p \in Procs :
       Adding(p) => owes[p] # "nothing" /\ mine[p] \in settled[stamp[p]]

(* The adds of a month that are over, and that neither overlapped another  *)
(* add nor failed.                                                         *)
Done(m) == settled[m] \ (crossed \cup Pending)

(* The month's total never sums a spend of another month, whatever adds    *)
(* cross, whenever the month turns and however often an add asks the       *)
(* clock: the ledger may switch helpers off late, never early.  (A record  *)
(* of a month that is over may: it reads as nothing.)                      *)
CountsItsMonth == Total(file, month) \subseteq settled[month]

(* A spend is lost to the month's total only when its add overlapped       *)
(* another one or failed, or when an add of an earlier month began in the  *)
(* month: of the others the thresholds see every one.                      *)
LostOnlyIfCrossed == month \notin late => Done(month) \subseteq Total(file, month)

(* The limit on helpers is overrun by the helpers already running when it  *)
(* is reached, one to a process, and by no more: as far as adds do not     *)
(* cross, fail or come late.                                               *)
OvershootBounded ==
  month \notin late =>
    Cardinality(helped \cap Done(month)) <= HelpersOff + Cardinality(Procs) - 1
=============================================================================
