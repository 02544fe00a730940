---------------------------- MODULE FanoutProofs ----------------------------
(***************************************************************************)
(* What is proved of the fan-out, for any analysts, ceilings, rail and     *)
(* number of asks, sweeps and faults.                                      *)
(***************************************************************************)
EXTENDS Fanout, TLAPS

In(r, s) == \E i \in 1 .. Len(s) : s[i] = r

(* Taking the first element off a list.                                    *)
LEMMA TailFacts ==
  ASSUME NEW S, NEW s \in Seq(S), s # <<>>
  PROVE  /\ Head(s) \in S /\ Tail(s) \in Seq(S)
         /\ \A r : In(r, s) => r = Head(s) \/ In(r, Tail(s))
<1>1. Head(s) \in S /\ Tail(s) \in Seq(S)
  OBVIOUS
<1>2. ASSUME NEW r, In(r, s), r # Head(s) PROVE In(r, Tail(s))
  <2>1. PICK i \in 1 .. Len(s) : s[i] = r
    BY <1>2 DEF In
  <2>2. i # 1 /\ i \in Nat /\ Len(s) \in Nat
    BY <1>2, <2>1
  <2>3. Len(Tail(s)) = Len(s) - 1 /\ i - 1 \in 1 .. Len(Tail(s))
    BY <2>1, <2>2
  <2>4. Tail(s)[i - 1] = s[i]
    BY <2>2, <2>3
  <2> QED
    BY <2>1, <2>3, <2>4 DEF In
<1> QED
  BY <1>1, <1>2

(* The tasks of a brief: there are some, and a draft's name every reporter.*)
LEMMA TasksFacts ==
  /\ \A k \in Briefs : Tasks(k) \in Seq(Role \cup Errand) /\ Tasks(k) # <<>>
  /\ \A r \in Reporter : In(r, Tasks("draft"))
<1> DEFINE Closing == <<"plan", AM, "write">>
<1>1. Analysts \in Seq(Role \cup Errand) /\ Closing \in Seq(Role \cup Errand)
  BY RolesAssumption DEF Role, Reporter, Errand
<1>2. Len(Closing) = 3 /\ Closing[2] = AM
  OBVIOUS
<1>3. Tasks("draft") = Analysts \o Closing /\ Tasks("final") = <<Scout, "write">>
  BY DEF Tasks
<1>4. Tasks("draft") \in Seq(Role \cup Errand) /\ Tasks("draft") # <<>>
  BY <1>1, <1>2, <1>3
<1>5. Tasks("final") \in Seq(Role \cup Errand) /\ Tasks("final") # <<>>
  <2>1. Scout \in Role \cup Errand /\ "write" \in Role \cup Errand
    BY DEF Role, Errand
  <2>2. <<Scout, "write">> \in Seq(Role \cup Errand) /\ <<Scout, "write">> # <<>>
    BY <2>1
  <2> QED
    BY <1>3, <2>2
<1>6. ASSUME NEW r \in Analyst PROVE In(r, Tasks("draft"))
  <2>1. PICK i \in 1 .. Len(Analysts) : Analysts[i] = r
    BY RolesAssumption DEF Analyst
  <2>2. i \in 1 .. Len(Tasks("draft")) /\ Tasks("draft")[i] = r
    BY <1>1, <1>2, <1>3, <2>1
  <2> QED
    BY <2>2 DEF In
<1>7. In(AM, Tasks("draft"))
  <2>1. Len(Analysts) + 2 \in 1 .. Len(Tasks("draft"))
    BY <1>1, <1>2, <1>3
  <2>2. Tasks("draft")[Len(Analysts) + 2] = AM
    BY <1>1, <1>2, <1>3
  <2> QED
    BY <2>1, <2>2 DEF In
<1> QED
  BY <1>4, <1>5, <1>6, <1>7 DEF Briefs, Reporter

(* The record of a process whose task is done.                             *)
LEMMA AfterTaskFacts ==
  ASSUME NEW p \in Proc, NEW r \in ProcState, r.todo # <<>>
  PROVE  /\ AfterTask(p, r) \in ProcState
         /\ AfterTask(p, r).pc \in {"off", "task", "send"}
         /\ AfterTask(p, r).turns = 0
         /\ AfterTask(p, r).pc = "task" => AfterTask(p, r).todo # <<>>
         /\ AfterTask(p, r).pc = "send" => AfterTask(p, r).todo = <<>>
         /\ p = "brief" => AfterTask(p, r).pc # "off" /\ AfterTask(p, r).todo = Tail(r.todo)
<1>1. Tail(r.todo) \in Seq(Role \cup Errand)
  BY TailFacts DEF ProcState
<1>2. Idle \in ProcState
  BY DEF Idle, ProcState
<1> QED
  BY <1>1, <1>2 DEF AfterTask, ProcState, Idle

-----------------------------------------------------------------------------
LEMMA InitTyping == Init => TypeOK
<1>1. Idle \in ProcState
  BY DEF Idle, ProcState
<1> QED
  BY <1>1 DEF Init, TypeOK, Briefs, Idle, At

(* One process moves to a record of its type.                              *)
LEMMA Moves ==
  ASSUME TypeOK, NEW p \in Proc, NEW r \in ProcState,
         Becomes(p, r),
         r.pc \notin {"off", "send"} => r.todo # <<>>,
         r.pc \in {"loop", "report", "append"} => Head(r.todo) \in Role
  PROVE  /\ proc' \in [Proc -> ProcState]
         /\ \A q \in Proc : ~At(q, "off")' /\ ~At(q, "send")' => proc'[q].todo # <<>>
         /\ \A q \in Proc : proc'[q].pc \in {"loop", "report", "append"} => Task(q)' \in Role
BY DEF TypeOK, At, Task, Becomes

LEMMA AdvancesTyped ==
  ASSUME TypeOK, NEW p \in Proc, ~At(p, "off"), ~At(p, "send"), Advances(p)
  PROVE  /\ proc' \in [Proc -> ProcState]
         /\ \A q \in Proc : ~At(q, "off")' /\ ~At(q, "send")' => proc'[q].todo # <<>>
         /\ \A q \in Proc : proc'[q].pc \in {"loop", "report", "append"} => Task(q)' \in Role
<1>1. proc[p] \in ProcState /\ proc[p].todo # <<>>
  BY DEF TypeOK
<1>2. Becomes(p, AfterTask(p, proc[p]))
  BY DEF Advances
<1> QED
  BY <1>1, <1>2, AfterTaskFacts, Moves

LEMMA EndsTyped ==
  ASSUME TypeOK, NEW p \in Proc, Ends(p)
  PROVE  /\ proc' \in [Proc -> ProcState]
         /\ \A q \in Proc : ~At(q, "off")' /\ ~At(q, "send")' => proc'[q].todo # <<>>
         /\ \A q \in Proc : proc'[q].pc \in {"loop", "report", "append"} => Task(q)' \in Role
<1>1. Idle \in ProcState /\ Idle.pc = "off"
  BY DEF Idle, ProcState
<1> QED
  BY <1>1, Moves DEF Ends

(* A process that has a task keeps it and goes on to its report.           *)
LEMMA Reports ==
  ASSUME TypeOK, NEW p \in Proc, proc[p].todo # <<>>, Task(p) \in Role,
         NEW r \in ProcState, Becomes(p, r), r.todo = proc[p].todo
  PROVE  /\ proc' \in [Proc -> ProcState]
         /\ \A q \in Proc : ~At(q, "off")' /\ ~At(q, "send")' => proc'[q].todo # <<>>
         /\ \A q \in Proc : proc'[q].pc \in {"loop", "report", "append"} => Task(q)' \in Role
<1>1. Head(r.todo) \in Role
  BY DEF Task
<1> QED
  BY <1>1, Moves

(* More calls on a record; the rest of it stays.                           *)
LEMMA CallsFacts ==
  ASSUME NEW p \in Proc, NEW n \in Nat, NEW r \in ProcState, Calls(p, n, r)
  PROVE  \E s \in ProcState :
           /\ Becomes(p, s)
           /\ s.calls = r.calls + n
           /\ s.pc = r.pc /\ s.todo = r.todo /\ s.turns = r.turns /\ s.left = r.left
           /\ s.outcome = r.outcome
<1> DEFINE s == [r EXCEPT !.calls = @ + n]
<1>1. s \in ProcState
  BY DEF ProcState
<1>2. /\ s.calls = r.calls + n
      /\ s.pc = r.pc /\ s.todo = r.todo /\ s.turns = r.turns /\ s.left = r.left
      /\ s.outcome = r.outcome
  BY DEF ProcState
<1>3. Becomes(p, s)
  BY DEF Calls
<1> QED
  BY <1>1, <1>2, <1>3

(* A turn more in a record: the end of the loop, a nudge, n searches.      *)
LEMMA TurnTyped ==
  ASSUME NEW q \in ProcState, NEW outcome \in {"full", "failed"}
  PROVE  /\ [q EXCEPT !.turns = @ + 1, !.pc = "report", !.outcome = outcome] \in ProcState
         /\ [q EXCEPT !.turns = @ + 1, !.nudged = TRUE] \in ProcState
         /\ \A n \in Nat : q.left - n \in Nat
              => [q EXCEPT !.turns = @ + 1, !.left = @ - n] \in ProcState
<1>1. q.turns + 1 \in Nat
  BY DEF ProcState
<1>2. [q EXCEPT !.turns = @ + 1, !.pc = "report", !.outcome = outcome] \in ProcState
  BY <1>1 DEF ProcState
<1>3. [q EXCEPT !.turns = @ + 1, !.nudged = TRUE] \in ProcState
  BY <1>1 DEF ProcState
<1>4. ASSUME NEW n \in Nat, q.left - n \in Nat
      PROVE  [q EXCEPT !.turns = @ + 1, !.left = @ - n] \in ProcState
  BY <1>1, <1>4 DEF ProcState
<1> QED
  BY <1>2, <1>3, <1>4

(* What a turn of the tool loop does to the record of its process.         *)
LEMMA LoopFacts ==
  ASSUME TypeOK, NEW p \in Proc, Loops(p)
  PROVE  /\ At(p, "loop")
         /\ UNCHANGED <<window, folder, brief, counts, faults>>
         /\ \E s \in ProcState :
              /\ Becomes(p, s) /\ s.todo = proc[p].todo
              /\ \/ /\ s.pc = "loop" /\ s.turns = proc[p].turns + 1 /\ s.turns < Turns
                    /\ s.calls + s.left <= proc[p].calls + proc[p].left + 1
                 \/ /\ s.pc = "report" /\ s.calls = proc[p].calls + 1
<1>1. At(p, "loop") /\ UNCHANGED <<window, folder, brief, counts, faults>>
  BY DEF Loops, ModelReports, ModelIsCutOff, ModelGathers, WritesUp, MayTurn
<1> DEFINE q == proc[p]
<1>2. q \in ProcState /\ q.turns \in Nat /\ q.calls \in Nat /\ q.left \in Nat /\ q.pc = "loop"
  BY <1>1 DEF TypeOK, ProcState, At
<1> HIDE DEF q
<1>3. ASSUME NEW outcome \in {"full", "failed"},
             Calls(p, 1, [q EXCEPT !.turns = @ + 1, !.pc = "report", !.outcome = outcome])
      PROVE  \E s \in ProcState :
               Becomes(p, s) /\ s.todo = q.todo /\ s.pc = "report" /\ s.calls = q.calls + 1
  <2> DEFINE r == [q EXCEPT !.turns = @ + 1, !.pc = "report", !.outcome = outcome]
  <2>1. r \in ProcState
    BY <1>2, TurnTyped
  <2>2. r.todo = q.todo /\ r.pc = "report" /\ r.calls = q.calls
    BY <1>2 DEF ProcState
  <2>3. Calls(p, 1, r)
    BY <1>3
  <2> HIDE DEF r
  <2> QED
    BY <1>3, <2>1, <2>2, <2>3, CallsFacts, 1 \in Nat
<1>4. ASSUME NEW outcome \in {"full", "failed"}, ModelReports(p, outcome)
      PROVE  \E s \in ProcState :
               Becomes(p, s) /\ s.todo = q.todo /\ s.pc = "report" /\ s.calls = q.calls + 1
  BY <1>3, <1>4 DEF ModelReports, q
<1>5. ASSUME WritesUp(p)
      PROVE  \E s \in ProcState :
               Becomes(p, s) /\ s.todo = q.todo /\ s.pc = "report" /\ s.calls = q.calls + 1
  BY <1>3, <1>5 DEF WritesUp, q
<1>6. ASSUME ModelIsCutOff(p)
      PROVE  \E s \in ProcState :
               /\ Becomes(p, s) /\ s.todo = q.todo
               /\ s.pc = "loop" /\ s.turns = q.turns + 1 /\ s.turns < Turns
               /\ s.calls + s.left <= q.calls + q.left + 1
  <2> DEFINE r == [q EXCEPT !.turns = @ + 1, !.nudged = TRUE]
  <2>0. r \in ProcState
    BY <1>2, TurnTyped, "full" \in {"full", "failed"}
  <2>1. r.todo = q.todo /\ r.pc = "loop" /\ r.calls = q.calls
        /\ r.turns = q.turns + 1 /\ r.left = q.left
    BY <1>2 DEF ProcState
  <2>2. Calls(p, 1, r) /\ q.turns + 1 < Turns
    BY <1>6 DEF ModelIsCutOff, MayTurn, q
  <2> HIDE DEF r
  <2>3. PICK s \in ProcState :
          /\ Becomes(p, s) /\ s.calls = r.calls + 1
          /\ s.pc = r.pc /\ s.todo = r.todo /\ s.turns = r.turns /\ s.left = r.left
    BY <2>0, <2>1, <2>2, CallsFacts
  <2>4. s.calls + s.left <= q.calls + q.left + 1
    BY <1>2, <2>1, <2>3
  <2> QED
    BY <2>1, <2>2, <2>3, <2>4
<1>7. ASSUME NEW n \in 0 .. Searches, NEW c \in 0 .. Searches, ModelGathers(p, n, c)
      PROVE  \E s \in ProcState :
               /\ Becomes(p, s) /\ s.todo = q.todo
               /\ s.pc = "loop" /\ s.turns = q.turns + 1 /\ s.turns < Turns
               /\ s.calls + s.left <= q.calls + q.left + 1
  <2> DEFINE r == [q EXCEPT !.turns = @ + 1, !.left = @ - n]
  <2>1. n \in Nat /\ c \in Nat /\ n <= q.left /\ c <= n /\ q.left - n \in Nat
    BY <1>2, <1>7, CeilingsAssumption DEF ModelGathers, q
  <2>0. r \in ProcState
    BY <1>2, <2>1, TurnTyped, "full" \in {"full", "failed"}
  <2>2. r.todo = q.todo /\ r.pc = "loop" /\ r.calls = q.calls
        /\ r.turns = q.turns + 1 /\ r.left = q.left - n
    BY <1>2, <2>1 DEF ProcState
  <2>3. Calls(p, 1 + c, r) /\ q.turns + 1 < Turns
    BY <1>7 DEF ModelGathers, MayTurn, q
  <2> HIDE DEF r
  <2>4. PICK s \in ProcState :
          /\ Becomes(p, s) /\ s.calls = r.calls + (1 + c)
          /\ s.pc = r.pc /\ s.todo = r.todo /\ s.turns = r.turns /\ s.left = r.left
    BY <2>0, <2>1, <2>2, <2>3, CallsFacts
  <2>5. s.calls + s.left <= q.calls + q.left + 1
    BY <1>2, <2>1, <2>2, <2>4
  <2> QED
    BY <2>2, <2>3, <2>4, <2>5
<1>8. ASSUME \E outcome \in {"full", "failed"} : ModelReports(p, outcome)
      PROVE  \E s \in ProcState :
               Becomes(p, s) /\ s.todo = q.todo /\ s.pc = "report" /\ s.calls = q.calls + 1
  BY <1>4, <1>8
<1>9. ASSUME \E n \in 0 .. Searches, c \in 0 .. Searches : ModelGathers(p, n, c)
      PROVE  \E s \in ProcState :
               /\ Becomes(p, s) /\ s.todo = q.todo
               /\ s.pc = "loop" /\ s.turns = q.turns + 1 /\ s.turns < Turns
               /\ s.calls + s.left <= q.calls + q.left + 1
  BY <1>7, <1>9
<1> QED
  BY <1>1, <1>5, <1>6, <1>8, <1>9 DEF Loops, q

LEMMA LoopTyping ==
  ASSUME TypeOK, NEW p \in Proc, Loops(p)
  PROVE  TypeOK'
<1>1. PICK s \in ProcState : Becomes(p, s) /\ s.todo = proc[p].todo
  BY LoopFacts
<1>2. proc[p].todo # <<>> /\ Task(p) \in Role
  BY LoopFacts DEF TypeOK, At
<1> QED
  BY <1>1, <1>2, LoopFacts, Reports DEF TypeOK, folder, brief, counts

LEMMA HelperTyping ==
  ASSUME TypeOK, NEW p \in Proc,
         Keeps(p) \/ LedgerSkips(p) \/ RailSkips(p) \/ HelperStarts(p)
  PROVE  TypeOK'
<1>1. At(p, "task") /\ proc[p].todo # <<>> /\ Task(p) \in Role /\ proc[p] \in ProcState
  BY DEF Keeps, LedgerSkips, RailSkips, HelperStarts, MayRun, Running, At, TypeOK
<1>2. UNCHANGED <<window, folder, brief, counts, faults>>
  BY DEF Keeps, LedgerSkips, RailSkips, HelperStarts
<1>3. ASSUME NEW r \in ProcState, Becomes(p, r), r.todo = proc[p].todo PROVE TypeOK'
  BY <1>1, <1>2, <1>3, Reports DEF TypeOK, folder, brief, counts
<1>4. CASE Keeps(p)
  <2>1. Advances(p) /\ ~At(p, "off") /\ ~At(p, "send")
    BY <1>1, <1>4 DEF Keeps, At
  <2> QED
    BY <1>2, <2>1, AdvancesTyped DEF TypeOK, folder, brief, counts
<1>5. CASE LedgerSkips(p)
  <2> DEFINE r == [proc[p] EXCEPT !.pc = "report", !.outcome = "skipped"]
  <2>1. r \in ProcState /\ r.todo = proc[p].todo
    BY <1>1 DEF ProcState
  <2> QED
    BY <1>3, <1>5, <2>1 DEF LedgerSkips
<1>6. CASE RailSkips(p)
  <2> DEFINE r == [proc[p] EXCEPT !.hit = TRUE, !.pc = "report", !.outcome = "skipped"]
  <2>1. r \in ProcState /\ r.todo = proc[p].todo
    BY <1>1 DEF ProcState
  <2> QED
    BY <1>3, <1>6, <2>1 DEF RailSkips
<1>7. CASE HelperStarts(p)
  <2>1. PICK left \in {0, Searches} : Becomes(p, [proc[p] EXCEPT !.pc = "loop", !.left = left])
    BY <1>7 DEF HelperStarts
  <2> DEFINE r == [proc[p] EXCEPT !.pc = "loop", !.left = left]
  <2>2. left \in Nat
    BY CeilingsAssumption
  <2>3. r \in ProcState /\ r.todo = proc[p].todo
    BY <1>1, <2>2 DEF ProcState
  <2> QED
    BY <1>3, <2>1, <2>3
<1> QED
  BY <1>4, <1>5, <1>6, <1>7

(* A helper's report, and the gaffer's own calls.                          *)
LEMMA WriteTyping ==
  ASSUME TypeOK, NEW p \in Proc,
         \/ WritesReport(p) \/ IsRefused(p) \/ LocksLog(p) \/ AppendsEntry(p)
         \/ GafferPlans(p) \/ GafferWrites(p)
  PROVE  TypeOK'
<1>1. proc[p].pc \in {"task", "report", "append"} /\ ~At(p, "off") /\ ~At(p, "send")
  BY DEF WritesReport, IsRefused, LocksLog, AppendsEntry, GafferPlans, GafferWrites, Reporting, At
<1>2. proc[p].todo # <<>> /\ proc[p] \in ProcState
  BY <1>1 DEF TypeOK, At
<1>3. Task(p) \in Role => gaps \cup {Task(p)} \subseteq Role
  BY DEF TypeOK
<1>4. CASE WritesReport(p)
  <2>1. Task(p) \in Role
    BY <1>4 DEF WritesReport, Reporting, At, TypeOK
  <2>2. file' \in [Reporter -> {"none", "full", "stub", "note"}]
    BY <1>4, <2>1 DEF WritesReport, TypeOK, Role
  <2>3. gaps' \subseteq Role
    BY <1>3, <1>4, <2>1 DEF WritesReport, Delivered, NamesGap, TypeOK
  <2>4. Advances(p)
    BY <1>4 DEF WritesReport
  <2> QED
    BY <1>1, <1>4, <2>2, <2>3, <2>4, AdvancesTyped DEF WritesReport, TypeOK, counts
<1>5. CASE IsRefused(p)
  <2>1. Task(p) \in Role
    BY <1>5 DEF IsRefused, Reporting, At, TypeOK
  <2>2. gaps' \subseteq Role
    BY <1>3, <1>5, <2>1 DEF IsRefused, NamesGap, TypeOK
  <2>3. Advances(p)
    BY <1>5 DEF IsRefused
  <2> QED
    BY <1>1, <1>5, <2>2, <2>3, AdvancesTyped DEF IsRefused, TypeOK, counts, folder
<1>6. CASE LocksLog(p)
  <2> DEFINE r == [proc[p] EXCEPT !.pc = "append"]
  <2>1. r \in ProcState /\ r.todo = proc[p].todo /\ Becomes(p, r)
    BY <1>2, <1>6 DEF ProcState, LocksLog
  <2>2. Task(p) \in Role
    BY <1>6 DEF LocksLog, Role
  <2> QED
    BY <1>2, <1>6, <2>1, <2>2, Reports DEF LocksLog, TypeOK, counts, brief
<1>7. CASE AppendsEntry(p)
  <2>1. Task(p) \in Role
    BY <1>7 DEF AppendsEntry, Role
  <2>2. gaps' \subseteq Role
    BY <1>3, <1>7, <2>1 DEF AppendsEntry, Delivered, NamesGap, TypeOK
  <2>3. Advances(p)
    BY <1>7 DEF AppendsEntry
  <2> QED
    BY <1>1, <1>7, <2>2, <2>3, AdvancesTyped DEF AppendsEntry, TypeOK, counts
<1>8. CASE GafferPlans(p)
  <2> DEFINE r == [proc[p] EXCEPT !.calls = @ + 1]
  <2>1. proc[p].calls + 1 \in Nat
    BY <1>2 DEF ProcState
  <2>2. r \in ProcState /\ r.todo = proc[p].todo
    BY <1>2, <2>1 DEF ProcState
  <2>3. Becomes(p, AfterTask(p, r))
    BY <1>8 DEF GafferPlans
  <2> HIDE DEF r
  <2> QED
    BY <1>2, <1>8, <2>2, <2>3, AfterTaskFacts, Moves DEF GafferPlans, TypeOK, folder, brief, counts
<1>9. CASE GafferWrites(p)
  <2>1. Advances(p)
    BY <1>9 DEF GafferWrites
  <2> QED
    BY <1>1, <1>9, <2>1, AdvancesTyped DEF GafferWrites, TypeOK, folder, brief, counts
<1> QED
  BY <1>4, <1>5, <1>6, <1>7, <1>8, <1>9

(* What fails, and what is killed.                                         *)
LEMMA FailTyping ==
  ASSUME TypeOK, NEW p \in Proc, Fails(p)
  PROVE  TypeOK'
<1>1. faults' \in Nat
  BY DEF Fails, HelperFails, StubFails, WriteRaises, GafferFails, Killed, Fault, TypeOK
<1>2. CASE HelperFails(p)
  <2> DEFINE r == [proc[p] EXCEPT !.pc = "report", !.outcome = "failed"]
  <2>1. proc[p] \in ProcState /\ proc[p].todo # <<>> /\ Task(p) \in Role
    BY <1>2 DEF HelperFails, TypeOK, At
  <2>2. r \in ProcState /\ r.todo = proc[p].todo /\ Becomes(p, r)
    BY <1>2, <2>1 DEF ProcState, HelperFails
  <2> QED
    BY <1>1, <1>2, <2>1, <2>2, Reports DEF HelperFails, TypeOK, folder, brief, counts
<1>3. CASE StubFails(p)
  <2>1. proc[p].pc \in {"report", "append"} /\ Task(p) \in Role
    BY <1>3 DEF StubFails, At, TypeOK
  <2>2. gaps' \subseteq Role
    BY <1>3, <2>1 DEF StubFails, NamesGap, TypeOK
  <2>3. lock' \in Proc \cup {NONE} /\ logCopy' \in Nat
    BY <1>3 DEF StubFails, Unlocks, TypeOK
  <2>4. Advances(p) /\ ~At(p, "off") /\ ~At(p, "send")
    BY <1>3, <2>1 DEF StubFails, At
  <2> QED
    BY <1>1, <1>3, <2>2, <2>3, <2>4, AdvancesTyped DEF StubFails, TypeOK, counts
<1>4. CASE WriteRaises(p) \/ GafferFails(p) \/ Killed(p)
  <2>1. Ends(p)
    BY <1>4 DEF WriteRaises, GafferFails, Killed
  <2>2. lock' \in Proc \cup {NONE} /\ logCopy' \in Nat
        /\ fileCopy' \in {"none", "full", "stub", "note"}
    BY <1>4 DEF WriteRaises, GafferFails, Killed, Unlocks, TypeOK, folder
  <2>3. UNCHANGED <<window, file, log, entries, brief, counts>>
    BY <1>4 DEF WriteRaises, GafferFails, Killed, folder
  <2> QED
    BY <1>1, <2>1, <2>2, <2>3, EndsTyped DEF TypeOK, brief, counts
<1> QED
  BY <1>2, <1>3, <1>4 DEF Fails

(* The asks of chat.                                                       *)
LEMMA ChatTyping ==
  ASSUME TypeOK,
         SectionReads \/ SectionWrites \/ SectionFails \/ (\E role \in Role : AskAnswered(role))
  PROVE  TypeOK'
<1>0. "chat" \in Proc /\ proc["chat"] \in ProcState
  BY DEF Proc, TypeOK
<1>1. CASE SectionReads
  <2> DEFINE r == [proc["chat"] EXCEPT !.pc = "append"]
  <2>1. proc["chat"].todo # <<>> /\ Task("chat") \in Role
    BY <1>0, <1>1 DEF SectionReads, TypeOK, At
  <2>2. r \in ProcState /\ r.todo = proc["chat"].todo /\ Becomes("chat", r)
    BY <1>0, <1>1 DEF ProcState, SectionReads
  <2>3. fileCopy' \in {"none", "full", "stub", "note"}
    BY <1>1, <2>1 DEF SectionReads, TypeOK, Role
  <2> QED
    BY <1>0, <1>1, <2>1, <2>2, <2>3, Reports DEF SectionReads, TypeOK, brief, counts
<1>2. CASE SectionWrites
  <2>1. Task("chat") \in Reporter
    BY <1>0, <1>2 DEF SectionWrites, TypeOK, At, Role
  <2>2. file' \in [Reporter -> {"none", "full", "stub", "note"}]
    BY <1>2, <2>1 DEF SectionWrites, TypeOK
  <2> QED
    BY <1>0, <1>2, <2>2, EndsTyped DEF SectionWrites, TypeOK, brief, counts
<1>3. CASE SectionFails
  <2>1. faults' \in Nat /\ lock' \in Proc \cup {NONE} /\ logCopy' \in Nat
    BY <1>3 DEF SectionFails, Fault, Unlocks, TypeOK
  <2> QED
    BY <1>0, <1>3, <2>1, EndsTyped DEF SectionFails, TypeOK, brief, counts
<1>4. ASSUME NEW role \in Role, AskAnswered(role) PROVE TypeOK'
  <2> DEFINE r == [Idle EXCEPT !.pc = "report", !.todo = <<role>>, !.outcome = "full"]
  <2>1. <<role>> \in Seq(Role \cup Errand) /\ <<role>> # <<>> /\ Head(<<role>>) = role
    OBVIOUS
  <2>2. r \in ProcState /\ r.todo = <<role>>
    BY <2>1 DEF ProcState, Idle
  <2>3. asks' \in Nat
    <3>1. asks' = asks + 1
      BY <1>4 DEF AskAnswered
    <3>2. asks \in Nat
      BY DEF TypeOK
    <3> QED
      BY <3>1, <3>2
  <2>4. Becomes("chat", r)
    BY <1>4 DEF AskAnswered
  <2> QED
    BY <1>0, <1>4, <2>1, <2>2, <2>3, <2>4, Moves DEF AskAnswered, TypeOK, folder, brief
<1> QED
  BY <1>1, <1>2, <1>3, <1>4

(* The wakes.                                                              *)
LEMMA WakeTyping ==
  ASSUME TypeOK, BriefWakes \/ BriefSends \/ BriefSendFails \/ ScoutWakes \/ WindowMoves
  PROVE  TypeOK'
<1>0. /\ "brief" \in Proc /\ "scout" \in Proc
      /\ proc["brief"] \in ProcState /\ proc["scout"] \in ProcState
  BY DEF Proc, TypeOK
<1>1. ASSUME NEW p \in Proc, NEW tasks \in Seq(Role \cup Errand), tasks # <<>>, Wakes(p, tasks)
      PROVE  /\ proc' \in [Proc -> ProcState]
             /\ \A q \in Proc : ~At(q, "off")' /\ ~At(q, "send")' => proc'[q].todo # <<>>
             /\ \A q \in Proc : proc'[q].pc \in {"loop", "report", "append"} => Task(q)' \in Role
  <2> DEFINE r == [proc[p] EXCEPT !.pc = "task", !.todo = tasks]
  <2>1. proc[p] \in ProcState
    BY DEF TypeOK
  <2>2. r \in ProcState /\ r.todo = tasks /\ r.pc = "task"
    BY <2>1 DEF ProcState
  <2>3. Becomes(p, r)
    BY <1>1 DEF Wakes
  <2> HIDE DEF r
  <2> QED
    BY <1>1, <2>2, <2>3, Moves
<1>2. CASE BriefWakes
  <2>1. window \in Briefs /\ Wakes("brief", Tasks(window)) /\ gaps' = {}
    BY <1>2 DEF BriefWakes, TypeOK
  <2> QED
    BY <1>0, <1>1, <1>2, <2>1, TasksFacts DEF BriefWakes, TypeOK, folder, counts
<1>3. CASE BriefSends
  BY <1>0, <1>3, EndsTyped DEF BriefSends, TypeOK, folder, counts
<1>4. CASE BriefSendFails
  <2>1. faults' \in Nat
    BY <1>4 DEF BriefSendFails, Fault, TypeOK
  <2> QED
    BY <1>0, <1>4, <2>1, EndsTyped DEF BriefSendFails, TypeOK, folder, counts, brief
<1>5. CASE ScoutWakes
  <2>1. <<Scout>> \in Seq(Role \cup Errand) /\ <<Scout>> # <<>>
    BY DEF Role
  <2>2. sweeps' \in Nat /\ Wakes("scout", <<Scout>>)
    BY <1>5 DEF ScoutWakes, TypeOK
  <2> QED
    BY <1>0, <1>1, <1>5, <2>1, <2>2 DEF ScoutWakes, TypeOK, folder, brief
<1>6. CASE WindowMoves
  BY <1>6 DEF WindowMoves, TypeOK, Briefs, folder, brief, counts, At, Task
<1> QED
  BY <1>2, <1>3, <1>4, <1>5, <1>6

LEMMA StepTyping == TypeOK /\ [Next]_vars => TypeOK'
<1> SUFFICES ASSUME TypeOK, [Next]_vars PROVE TypeOK'
  OBVIOUS
<1>1. ASSUME NEW p \in Proc, Steps(p) PROVE TypeOK'
  BY <1>1, LoopTyping, HelperTyping, WriteTyping DEF Steps
<1>2. ASSUME NEW p \in Proc, Fails(p) PROVE TypeOK'
  BY <1>2, FailTyping
<1>3. CASE UNCHANGED vars
  BY <1>3 DEF TypeOK, vars, folder, brief, counts, At, Task
<1> QED
  BY <1>1, <1>2, <1>3, ChatTyping, WakeTyping
  DEF Next, BriefSteps, ChatSteps, Proc

(* The variables of the fan-out keep their types: a process between two    *)
(* tasks has one, and only a role's task runs or reports (run_draft,       *)
(* run_helper).                                                            *)
THEOREM FanoutWellTyped == Spec => []TypeOK
BY InitTyping, StepTyping, PTL DEF Spec

-----------------------------------------------------------------------------
(* The log: whoever is about to write it holds its lock, and has read all  *)
(* of it.                                                                  *)
Holder ==
  \A p \in Proc : At(p, "append") /\ Task(p) = Scout => lock = p /\ logCopy = log

Kept == Holder /\ NoEntryLost

(* A step that appends nothing: whatever else p does, it may let the lock  *)
(* go but does not come to append.                                         *)
LEMMA KeptAside ==
  ASSUME TypeOK, Kept, NEW p \in Proc, NEW r \in ProcState, Becomes(p, r),
         r.pc # "append" \/ Head(r.todo) # Scout,
         Unlocks(p) \/ UNCHANGED <<lock, logCopy>>,
         UNCHANGED <<log, entries>>
  PROVE  Kept'
BY DEF Kept, Holder, NoEntryLost, Becomes, Unlocks, At, Task, TypeOK

LEMMA KeptDone ==
  ASSUME TypeOK, Kept, NEW p \in Proc, ~At(p, "off"), ~At(p, "send"), Advances(p),
         Unlocks(p) \/ UNCHANGED <<lock, logCopy>>,
         UNCHANGED <<log, entries>>
  PROVE  Kept'
<1>1. proc[p] \in ProcState /\ proc[p].todo # <<>>
  BY DEF TypeOK
<1>2. /\ AfterTask(p, proc[p]) \in ProcState
      /\ AfterTask(p, proc[p]).pc # "append"
  BY <1>1, AfterTaskFacts
<1>3. Becomes(p, AfterTask(p, proc[p]))
  BY DEF Advances
<1> QED
  BY <1>2, <1>3, KeptAside

LEMMA KeptEnded ==
  ASSUME TypeOK, Kept, NEW p \in Proc, Ends(p),
         Unlocks(p) \/ UNCHANGED <<lock, logCopy>>,
         UNCHANGED <<log, entries>>
  PROVE  Kept'
<1>1. Idle \in ProcState /\ Idle.pc # "append"
  BY DEF Idle, ProcState
<1>2. Becomes(p, Idle)
  BY DEF Ends
<1> QED
  BY <1>1, <1>2, KeptAside

LEMMA KeptInit == Init => Kept
BY DEF Init, Kept, Holder, NoEntryLost, Idle, At

(* What p's steps do, those of the log itself apart.                       *)
LEMMA KeptSteps ==
  ASSUME TypeOK, Kept, NEW p \in Proc, Steps(p), ~LocksLog(p), ~AppendsEntry(p)
  PROVE  Kept'
<1>0. proc[p] \in ProcState
  BY DEF TypeOK
<1>1. CASE Keeps(p) \/ WritesReport(p) \/ IsRefused(p) \/ GafferWrites(p)
  BY <1>1, KeptDone
  DEF Keeps, WritesReport, IsRefused, GafferWrites, Running, Reporting, At, folder
<1>2. CASE LedgerSkips(p) \/ RailSkips(p)
  <2>1. PICK hit \in BOOLEAN :
          Becomes(p, [proc[p] EXCEPT !.hit = hit, !.pc = "report", !.outcome = "skipped"])
    BY <1>0, <1>2 DEF LedgerSkips, RailSkips, ProcState, Becomes
  <2>2. /\ [proc[p] EXCEPT !.hit = hit, !.pc = "report", !.outcome = "skipped"] \in ProcState
        /\ [proc[p] EXCEPT !.hit = hit, !.pc = "report", !.outcome = "skipped"].pc = "report"
    BY <1>0 DEF ProcState
  <2>3. UNCHANGED folder
    BY <1>2 DEF LedgerSkips, RailSkips
  <2> QED
    BY <2>1, <2>2, <2>3, KeptAside DEF folder
<1>3. CASE HelperStarts(p)
  <2>1. PICK left \in {0, Searches} : Becomes(p, [proc[p] EXCEPT !.pc = "loop", !.left = left])
    BY <1>3 DEF HelperStarts
  <2>2. left \in Nat
    BY CeilingsAssumption
  <2>3. /\ [proc[p] EXCEPT !.pc = "loop", !.left = left] \in ProcState
        /\ [proc[p] EXCEPT !.pc = "loop", !.left = left].pc = "loop"
    BY <1>0, <2>2 DEF ProcState
  <2>4. UNCHANGED folder
    BY <1>3 DEF HelperStarts
  <2> QED
    BY <2>1, <2>3, <2>4, KeptAside DEF folder
<1>4. CASE Loops(p)
  <2>1. PICK s \in ProcState : Becomes(p, s) /\ s.pc \in {"loop", "report"}
    BY <1>4, LoopFacts
  <2>2. UNCHANGED folder
    BY <1>4, LoopFacts
  <2> QED
    BY <2>1, <2>2, KeptAside DEF folder
<1>5. CASE GafferPlans(p)
  <2> DEFINE r == [proc[p] EXCEPT !.calls = @ + 1]
  <2>0. proc[p].todo # <<>>
    BY <1>5 DEF GafferPlans, TypeOK, At
  <2>1. proc[p].calls + 1 \in Nat
    BY <1>0 DEF ProcState
  <2>2. r \in ProcState /\ r.todo = proc[p].todo
    BY <1>0, <2>1 DEF ProcState
  <2>3. Becomes(p, AfterTask(p, r)) /\ UNCHANGED folder
    BY <1>5 DEF GafferPlans
  <2> HIDE DEF r
  <2>4. AfterTask(p, r) \in ProcState /\ AfterTask(p, r).pc # "append"
    BY <2>0, <2>2, AfterTaskFacts
  <2> QED
    BY <2>3, <2>4, KeptAside DEF folder
<1> QED
  BY <1>1, <1>2, <1>3, <1>4, <1>5 DEF Steps

LEMMA KeptLog ==
  ASSUME TypeOK, Kept, NEW p \in Proc, LocksLog(p) \/ AppendsEntry(p)
  PROVE  Kept'
<1>0. proc[p] \in ProcState /\ proc \in [Proc -> ProcState]
  BY DEF TypeOK
<1>1. CASE LocksLog(p)
  <2>1. \A q \in Proc : ~(At(q, "append") /\ Task(q) = Scout)
    BY <1>1, RolesAssumption DEF LocksLog, LockFree, Kept, Holder
  <2>2. \A q \in Proc : q # p => proc'[q] = proc[q]
    BY <1>0, <1>1 DEF LocksLog, Becomes
  <2>3. lock' = p /\ logCopy' = log /\ log' = log /\ entries' = entries
    BY <1>1 DEF LocksLog
  <2> QED
    BY <2>1, <2>2, <2>3 DEF Kept, Holder, NoEntryLost, At, Task
<1>2. CASE AppendsEntry(p)
  <2>1. lock = p /\ logCopy = log
    BY <1>2 DEF AppendsEntry, Kept, Holder
  <2>2. \A q \in Proc : q # p => ~(At(q, "append") /\ Task(q) = Scout)
    BY <2>1 DEF Kept, Holder
  <2>3. proc[p].todo # <<>>
    BY <1>2 DEF AppendsEntry, TypeOK, At
  <2>4. AfterTask(p, proc[p]).pc # "append"
    BY <1>0, <2>3, AfterTaskFacts
  <2>5. /\ proc'[p] = AfterTask(p, proc[p])
        /\ \A q \in Proc : q # p => proc'[q] = proc[q]
    BY <1>0, <1>2 DEF AppendsEntry, Advances, Becomes
  <2>6. log' = log + 1 /\ entries' = entries + 1
    BY <1>2, <2>1 DEF AppendsEntry
  <2>7. \A q \in Proc : ~(At(q, "append")' /\ Task(q)' = Scout)
    BY <2>2, <2>4, <2>5 DEF At, Task
  <2> QED
    BY <2>6, <2>7 DEF Kept, Holder, NoEntryLost
<1> QED
  BY <1>1, <1>2

LEMMA KeptFails ==
  ASSUME TypeOK, Kept, NEW p \in Proc, Fails(p)
  PROVE  Kept'
<1>1. CASE HelperFails(p)
  <2> DEFINE r == [proc[p] EXCEPT !.pc = "report", !.outcome = "failed"]
  <2>1. proc[p] \in ProcState
    BY DEF TypeOK
  <2>2. r \in ProcState /\ r.pc = "report" /\ Becomes(p, r)
    BY <1>1, <2>1 DEF ProcState, HelperFails
  <2> QED
    BY <1>1, <2>2, KeptAside DEF HelperFails, folder
<1>2. CASE StubFails(p)
  BY <1>2, KeptDone DEF StubFails, At
<1>3. CASE WriteRaises(p) \/ GafferFails(p) \/ Killed(p)
  BY <1>3, KeptEnded DEF WriteRaises, GafferFails, Killed, folder
<1> QED
  BY <1>1, <1>2, <1>3 DEF Fails

LEMMA KeptChat ==
  ASSUME TypeOK, Kept,
         SectionReads \/ SectionWrites \/ SectionFails \/ (\E role \in Role : AskAnswered(role))
  PROVE  Kept'
<1>0. "chat" \in Proc /\ proc["chat"] \in ProcState
  BY DEF Proc, TypeOK
<1>1. CASE SectionReads
  <2> DEFINE r == [proc["chat"] EXCEPT !.pc = "append"]
  <2>1. r \in ProcState /\ r.todo = proc["chat"].todo /\ Becomes("chat", r)
    BY <1>0, <1>1 DEF ProcState, SectionReads
  <2>2. Head(r.todo) # Scout
    BY <1>1, <2>1 DEF SectionReads, Task
  <2> QED
    BY <1>0, <1>1, <2>1, <2>2, KeptAside DEF SectionReads
<1>2. CASE SectionWrites \/ SectionFails
  BY <1>0, <1>2, KeptEnded DEF SectionWrites, SectionFails
<1>3. ASSUME NEW role \in Role, AskAnswered(role) PROVE Kept'
  <2> DEFINE r == [Idle EXCEPT !.pc = "report", !.todo = <<role>>, !.outcome = "full"]
  <2>1. <<role>> \in Seq(Role \cup Errand)
    OBVIOUS
  <2>2. r \in ProcState /\ r.pc = "report"
    BY <2>1 DEF ProcState, Idle
  <2>3. Becomes("chat", r) /\ UNCHANGED folder
    BY <1>3 DEF AskAnswered
  <2> QED
    BY <1>0, <2>2, <2>3, KeptAside DEF folder
<1> QED
  BY <1>1, <1>2, <1>3

LEMMA KeptWakes ==
  ASSUME TypeOK, Kept, BriefWakes \/ BriefSends \/ BriefSendFails \/ ScoutWakes \/ WindowMoves
  PROVE  Kept'
<1>0. /\ "brief" \in Proc /\ "scout" \in Proc
      /\ UNCHANGED folder
  BY DEF Proc, BriefWakes, BriefSends, BriefSendFails, ScoutWakes, WindowMoves
<1>1. ASSUME NEW p \in Proc, NEW tasks \in Seq(Role \cup Errand), Wakes(p, tasks) PROVE Kept'
  <2> DEFINE r == [proc[p] EXCEPT !.pc = "task", !.todo = tasks]
  <2>1. proc[p] \in ProcState
    BY DEF TypeOK
  <2>2. r \in ProcState /\ r.pc = "task"
    BY <2>1 DEF ProcState
  <2>3. Becomes(p, r)
    BY <1>1 DEF Wakes
  <2> QED
    BY <1>0, <2>2, <2>3, KeptAside DEF folder
<1>2. CASE BriefWakes
  <2>1. window \in Briefs /\ Wakes("brief", Tasks(window))
    BY <1>2 DEF BriefWakes, TypeOK
  <2> QED
    BY <1>0, <1>1, <2>1, TasksFacts
<1>3. CASE BriefSends \/ BriefSendFails
  BY <1>0, <1>3, KeptEnded DEF BriefSends, BriefSendFails, folder
<1>4. CASE ScoutWakes
  <2>1. <<Scout>> \in Seq(Role \cup Errand)
    BY DEF Role
  <2> QED
    BY <1>0, <1>1, <1>4, <2>1 DEF ScoutWakes
<1>5. CASE WindowMoves
  BY <1>5 DEF WindowMoves, folder, Kept, Holder, NoEntryLost, At, Task
<1> QED
  BY <1>2, <1>3, <1>4, <1>5

(* Neither entry is lost: the Scout log has every entry that was written,  *)
(* whatever sweeps, final deltas and asks of the Scout interleave, fail or *)
(* are killed (_append_scout's lock).                                      *)
THEOREM EntriesKept == Spec => []NoEntryLost
<1>1. TypeOK /\ Kept /\ [Next]_vars => Kept'
  <2> SUFFICES ASSUME TypeOK, Kept, [Next]_vars PROVE Kept'
    OBVIOUS
  <2>1. ASSUME NEW p \in Proc, Steps(p) PROVE Kept'
    BY <2>1, KeptSteps, KeptLog
  <2>2. ASSUME NEW p \in Proc, Fails(p) PROVE Kept'
    BY <2>2, KeptFails
  <2>3. CASE UNCHANGED vars
    BY <2>3 DEF vars, folder, Kept, Holder, NoEntryLost, At, Task
  <2> QED
    BY <2>1, <2>2, <2>3, KeptChat, KeptWakes DEF Next, BriefSteps, ChatSteps, Proc
<1>2. Kept => NoEntryLost
  BY DEF Kept
<1> QED
  BY <1>1, <1>2, KeptInit, FanoutWellTyped, PTL DEF Spec

-----------------------------------------------------------------------------
(* The rail.  What is left of a helper's searches and turns bounds what    *)
(* the wake may still call before the rail is looked at again.             *)
Within(r) ==
  /\ r.pc \in {"off", "task", "send"} => r.turns = 0
  /\ r.pc = "loop" => r.turns < Turns /\ r.calls + r.left < CallRail + Searches + r.turns
  /\ r.pc \in {"report", "append"} /\ r.outcome # "skipped"
       => r.calls < CallRail + Turns + Searches

Railed == \A p \in {"brief", "scout"} : Within(proc[p])

LEMMA RailedBounds == TypeOK /\ Railed => RailHolds
<1> SUFFICES ASSUME TypeOK, Railed, NEW p \in {"brief", "scout"},
                    proc[p].pc \in {"loop", "report", "append"}, Outcome(p) # "skipped"
             PROVE  proc[p].calls < CallRail + Turns + Searches
  BY DEF RailHolds
<1> DEFINE r == proc[p]
<1>1. r \in ProcState
  BY DEF TypeOK, Proc
<1>2. r.calls \in Nat /\ r.left \in Nat /\ r.turns \in Nat
  BY <1>1 DEF ProcState
<1>3. Within(r)
  BY DEF Railed
<1> HIDE DEF r
<1>4. CASE r.pc = "loop"
  <2>1. r.turns < Turns /\ r.calls + r.left < CallRail + Searches + r.turns
    BY <1>3, <1>4 DEF Within
  <2>2. r.calls < CallRail + Turns + Searches
    BY <1>2, <2>1, CeilingsAssumption
  <2> QED
    BY <2>2 DEF r
<1>5. CASE r.pc # "loop"
  <2>1. r.calls < CallRail + Turns + Searches
    BY <1>3, <1>5 DEF Within, r, Outcome
  <2> QED
    BY <2>1 DEF r
<1> QED
  BY <1>4, <1>5

(* One process moves, within the rail if it is a wake.                     *)
LEMMA RailedMoves ==
  ASSUME TypeOK, Railed, NEW p \in Proc, NEW r, Becomes(p, r), p # "chat" => Within(r)
  PROVE  Railed'
BY DEF Railed, Becomes, TypeOK, Proc

(* Between two tasks no helper has turns.                                  *)
LEMMA RailedDone ==
  ASSUME TypeOK, Railed, NEW p \in Proc, NEW r \in ProcState, r.todo # <<>>,
         Becomes(p, AfterTask(p, r))
  PROVE  Railed'
<1>1. Within(AfterTask(p, r))
  BY AfterTaskFacts DEF Within
<1> QED
  BY <1>1, RailedMoves

LEMMA RailedEnded ==
  ASSUME TypeOK, Railed, NEW p \in Proc, Ends(p)
  PROVE  Railed'
<1>1. Within(Idle)
  BY DEF Within, Idle
<1> QED
  BY <1>1, RailedMoves DEF Ends

LEMMA RailedInit == Init => Railed
BY DEF Init, Railed, Within, Idle, Proc

LEMMA RailedSteps ==
  ASSUME TypeOK, Railed, NEW p \in Proc, Steps(p)
  PROVE  Railed'
<1> DEFINE q == proc[p]
<1>0. q \in ProcState /\ (p # "chat" => Within(q))
  BY DEF TypeOK, Railed, Proc
<1>1. q.calls \in Nat /\ q.left \in Nat /\ q.turns \in Nat
  BY <1>0 DEF ProcState
<1>2. CASE Keeps(p) \/ WritesReport(p) \/ IsRefused(p) \/ AppendsEntry(p) \/ GafferWrites(p)
  <2>1. Becomes(p, AfterTask(p, q)) /\ ~At(p, "off") /\ ~At(p, "send")
    BY <1>2 DEF Keeps, WritesReport, IsRefused, AppendsEntry, GafferWrites, Running, Reporting,
                At, Advances
  <2>2. q.todo # <<>>
    BY <2>1 DEF TypeOK
  <2> QED
    BY <1>0, <2>1, <2>2, RailedDone
<1>3. CASE GafferPlans(p)
  <2> DEFINE r == [q EXCEPT !.calls = @ + 1]
  <2>1. q.todo # <<>>
    BY <1>3 DEF GafferPlans, TypeOK, At
  <2>2. q.calls + 1 \in Nat
    BY <1>1
  <2>3. r \in ProcState /\ r.todo = q.todo
    BY <1>0, <2>2 DEF ProcState
  <2>4. Becomes(p, AfterTask(p, r))
    BY <1>3 DEF GafferPlans
  <2> HIDE DEF r, q
  <2> QED
    BY <2>1, <2>3, <2>4, RailedDone
<1>4. CASE LedgerSkips(p) \/ RailSkips(p)
  <2>1. PICK hit \in BOOLEAN :
          Becomes(p, [q EXCEPT !.hit = hit, !.pc = "report", !.outcome = "skipped"])
    BY <1>0, <1>4 DEF LedgerSkips, RailSkips, ProcState, Becomes
  <2>2. Within([q EXCEPT !.hit = hit, !.pc = "report", !.outcome = "skipped"])
    BY <1>0 DEF ProcState, Within
  <2> QED
    BY <2>1, <2>2, RailedMoves
<1>5. CASE HelperStarts(p)
  <2>1. PICK left \in {0, Searches} : Becomes(p, [q EXCEPT !.pc = "loop", !.left = left])
    BY <1>5 DEF HelperStarts
  <2> DEFINE r == [q EXCEPT !.pc = "loop", !.left = left]
  <2>2. left \in Nat /\ left <= Searches
    BY CeilingsAssumption
  <2>3. q.pc = "task" /\ q.calls < CallRail
    BY <1>1, <1>5, CeilingsAssumption DEF HelperStarts, MayRun, Running, CallsCrossed, At
  <2>4. r.pc = "loop" /\ r.left = left /\ r.calls = q.calls /\ r.turns = q.turns
    BY <1>0 DEF ProcState
  <2> HIDE DEF r, q
  <2>5. ASSUME p # "chat" PROVE Within(r)
    <3>1. q.turns = 0
      BY <1>0, <2>3, <2>5 DEF Within
    <3>2. r.turns < Turns /\ r.calls + r.left < CallRail + Searches + r.turns
      BY <1>1, <2>2, <2>3, <2>4, <3>1, CeilingsAssumption
    <3> QED
      BY <2>4, <3>2 DEF Within
  <2> QED
    BY <2>1, <2>5, RailedMoves DEF r
<1>6. CASE Loops(p)
  <2>1. PICK s \in ProcState :
          /\ Becomes(p, s)
          /\ \/ /\ s.pc = "loop" /\ s.turns = q.turns + 1 /\ s.turns < Turns
                /\ s.calls + s.left <= q.calls + q.left + 1
             \/ /\ s.pc = "report" /\ s.calls = q.calls + 1
    BY <1>6, LoopFacts
  <2>2. q.pc = "loop"
    BY <1>6, LoopFacts DEF At
  <2>3. s.calls \in Nat /\ s.left \in Nat
    BY DEF ProcState
  <2> HIDE DEF q
  <2>4. ASSUME p # "chat" PROVE Within(s)
    <3>1. q.turns < Turns /\ q.calls + q.left < CallRail + Searches + q.turns
      BY <1>0, <2>2, <2>4 DEF Within
    <3>2. CASE /\ s.pc = "loop" /\ s.turns = q.turns + 1 /\ s.turns < Turns
               /\ s.calls + s.left <= q.calls + q.left + 1
      <4>1. s.calls + s.left < CallRail + Searches + s.turns
        BY <1>1, <2>3, <3>1, <3>2, CeilingsAssumption
      <4> QED
        BY <3>2, <4>1 DEF Within
    <3>3. CASE s.pc = "report" /\ s.calls = q.calls + 1
      <4>1. s.calls < CallRail + Turns + Searches
        BY <1>1, <3>1, <3>3, CeilingsAssumption
      <4> QED
        BY <3>3, <4>1 DEF Within
    <3> QED
      BY <2>1, <3>2, <3>3
  <2> QED
    BY <2>1, <2>4, RailedMoves
<1>7. CASE LocksLog(p)
  <2> DEFINE r == [q EXCEPT !.pc = "append"]
  <2>1. q.pc = "report" /\ Becomes(p, r)
    BY <1>7 DEF LocksLog, At
  <2>2. r.pc = "append" /\ r.calls = q.calls /\ r.outcome = q.outcome
    BY <1>0 DEF ProcState
  <2> HIDE DEF r, q
  <2>3. p # "chat" => Within(r)
    BY <1>0, <2>1, <2>2 DEF Within
  <2> QED
    BY <2>1, <2>3, RailedMoves
<1> QED
  BY <1>2, <1>3, <1>4, <1>5, <1>6, <1>7 DEF Steps

LEMMA RailedFails ==
  ASSUME TypeOK, Railed, NEW p \in Proc, Fails(p)
  PROVE  Railed'
<1> DEFINE q == proc[p]
<1>0. q \in ProcState /\ (p # "chat" => Within(q))
  BY DEF TypeOK, Railed, Proc
<1>1. CASE HelperFails(p)
  <2> DEFINE r == [q EXCEPT !.pc = "report", !.outcome = "failed"]
  <2>1. q.pc = "loop" /\ Becomes(p, r)
    BY <1>1 DEF HelperFails, At
  <2>2. r.pc = "report" /\ r.calls = q.calls
    BY <1>0 DEF ProcState
  <2>3. q.calls \in Nat /\ q.left \in Nat /\ q.turns \in Nat
    BY <1>0 DEF ProcState
  <2> HIDE DEF r, q
  <2>4. ASSUME p # "chat" PROVE Within(r)
    <3>1. q.turns < Turns /\ q.calls + q.left < CallRail + Searches + q.turns
      BY <1>0, <2>1, <2>4 DEF Within
    <3>2. r.calls < CallRail + Turns + Searches
      BY <2>2, <2>3, <3>1, CeilingsAssumption
    <3> QED
      BY <2>2, <3>2 DEF Within
  <2> QED
    BY <2>1, <2>4, RailedMoves
<1>2. CASE StubFails(p)
  <2>1. Becomes(p, AfterTask(p, q)) /\ ~At(p, "off") /\ ~At(p, "send")
    BY <1>2 DEF StubFails, At, Advances
  <2>2. q.todo # <<>>
    BY <2>1 DEF TypeOK
  <2> QED
    BY <1>0, <2>1, <2>2, RailedDone
<1>3. CASE WriteRaises(p) \/ GafferFails(p) \/ Killed(p)
  BY <1>3, RailedEnded DEF WriteRaises, GafferFails, Killed
<1> QED
  BY <1>1, <1>2, <1>3 DEF Fails

LEMMA RailedOthers ==
  ASSUME TypeOK, Railed,
         \/ SectionReads \/ SectionWrites \/ SectionFails \/ (\E role \in Role : AskAnswered(role))
         \/ BriefWakes \/ BriefSends \/ BriefSendFails \/ ScoutWakes \/ WindowMoves
  PROVE  Railed'
<1>0. {"brief", "scout", "chat"} \subseteq Proc
  BY DEF Proc
<1>1. ASSUME NEW p \in {"brief", "scout"}, NEW tasks, At(p, "off"), Wakes(p, tasks) PROVE Railed'
  <2> DEFINE r == [proc[p] EXCEPT !.pc = "task", !.todo = tasks]
  <2>1. proc[p] \in ProcState /\ proc[p].turns = 0
    BY <1>0, <1>1 DEF TypeOK, Railed, Within, At
  <2>2. Within(r)
    BY <2>1 DEF ProcState, Within
  <2> QED
    BY <1>0, <1>1, <2>2, RailedMoves DEF Wakes
<1>2. CASE BriefWakes \/ ScoutWakes
  BY <1>1, <1>2 DEF BriefWakes, ScoutWakes
<1>3. CASE BriefSends \/ BriefSendFails \/ SectionWrites \/ SectionFails
  BY <1>0, <1>3, RailedEnded DEF BriefSends, BriefSendFails, SectionWrites, SectionFails
<1>4. CASE SectionReads \/ (\E role \in Role : AskAnswered(role))
  BY <1>0, <1>4, RailedMoves DEF SectionReads, AskAnswered
<1>5. CASE WindowMoves
  BY <1>5 DEF WindowMoves, Railed
<1> QED
  BY <1>2, <1>3, <1>4, <1>5

(* A wake passes its calls rail by one helper's turns and searches at the  *)
(* most (WakeRails.exceeded is asked only before a helper, run_helper has  *)
(* its own ceilings).                                                      *)
THEOREM RailKept == Spec => []RailHolds
<1>1. TypeOK /\ Railed /\ [Next]_vars => Railed'
  <2> SUFFICES ASSUME TypeOK, Railed, [Next]_vars PROVE Railed'
    OBVIOUS
  <2>1. ASSUME NEW p \in Proc, Steps(p) PROVE Railed'
    BY <2>1, RailedSteps
  <2>2. ASSUME NEW p \in Proc, Fails(p) PROVE Railed'
    BY <2>2, RailedFails
  <2>3. CASE UNCHANGED vars
    BY <2>3 DEF vars, Railed
  <2> QED
    BY <2>1, <2>2, <2>3, RailedOthers DEF Next, BriefSteps, ChatSteps, Proc
<1> QED
  BY <1>1, RailedInit, RailedBounds, FanoutWellTyped, PTL DEF Spec

-----------------------------------------------------------------------------
(* A draft on its way has, for each reporter, a file, a gap or a task to   *)
(* come; one that goes out has no task to come.                            *)
Accounted ==
  kind = "draft" /\ ~At("brief", "off") =>
    \A r \in Reporter : file[r] # "none" \/ r \in gaps \/ In(r, proc["brief"].todo)

Emptied == At("brief", "send") => proc["brief"].todo = <<>>

Covered == Accounted /\ Emptied

LEMMA CoveredHolds == Covered => NeverSilent
<1>1. \A r : ~In(r, <<>>)
  BY DEF In
<1> QED
  BY <1>1 DEF Covered, Accounted, Emptied, NeverSilent, At

LEMMA CoveredInit == Init => Covered
BY DEF Init, Covered, Accounted, Emptied, Idle, At, Proc

(* No file and no gap of a draft is taken back.                            *)
Grows ==
  /\ kind' = kind /\ gaps \subseteq gaps'
  /\ \A r \in Reporter : file[r] # "none" => file'[r] # "none"

(* Another process moves, or the brief's keeps its tasks.                  *)
LEMMA CoveredAside ==
  ASSUME Covered, Grows,
         \/ proc'["brief"] = proc["brief"]
         \/ /\ ~At("brief", "off") /\ ~At("brief", "send")'
            /\ proc'["brief"].todo = proc["brief"].todo
         \/ At("brief", "off")'
  PROVE  Covered'
BY DEF Covered, Accounted, Emptied, Grows, At

(* The brief's wake is done with a task: the reporter of that name has a   *)
(* file or a gap.                                                          *)
LEMMA CoveredDone ==
  ASSUME TypeOK, Covered, Grows, ~At("brief", "off"), ~At("brief", "send"),
         NEW r \in ProcState, r.todo = proc["brief"].todo,
         Becomes("brief", AfterTask("brief", r)),
         Task("brief") \in Reporter =>
           file'[Task("brief")] # "none" \/ Task("brief") \in gaps'
  PROVE  Covered'
<1> DEFINE s == AfterTask("brief", r)
<1>1. "brief" \in Proc /\ r.todo # <<>>
  BY DEF Proc, TypeOK
<1>2. /\ s.todo = Tail(r.todo)
      /\ s.pc = "send" => s.todo = <<>>
  BY <1>1, AfterTaskFacts
<1>3. proc'["brief"] = s
  BY <1>1 DEF Becomes, TypeOK
<1>4. r.todo \in Seq(Role \cup Errand)
  BY DEF ProcState
<1> HIDE DEF s
<1>5. ASSUME NEW x \in Reporter, kind' = "draft"
      PROVE  file'[x] # "none" \/ x \in gaps' \/ In(x, s.todo)
  <2>1. file[x] # "none" \/ x \in gaps \/ In(x, r.todo)
    BY <1>5 DEF Covered, Accounted, Grows
  <2>2. CASE file[x] # "none" \/ x \in gaps
    BY <2>2 DEF Grows
  <2>3. CASE In(x, r.todo)
    <3>1. x = Head(r.todo) \/ In(x, Tail(r.todo))
      BY <1>1, <1>4, <2>3, TailFacts
    <3>2. Task("brief") = Head(r.todo)
      BY DEF Task
    <3> QED
      BY <1>2, <3>1, <3>2
  <2> QED
    BY <2>1, <2>2, <2>3
<1> QED
  BY <1>2, <1>3, <1>5 DEF Covered, Accounted, Emptied, At

LEMMA CoveredSteps ==
  ASSUME TypeOK, Covered, NEW p \in Proc, Steps(p)
  PROVE  Covered'
<1>0. proc[p] \in ProcState /\ proc \in [Proc -> ProcState]
  BY DEF TypeOK
<1>1. Grows
  <2>1. CASE WritesReport(p)
    BY <2>1 DEF WritesReport, Delivered, NamesGap, Grows, TypeOK
  <2>2. CASE IsRefused(p) \/ AppendsEntry(p)
    BY <2>2 DEF IsRefused, AppendsEntry, Delivered, NamesGap, Grows, folder
  <2>3. CASE Loops(p)
    BY <2>3, LoopFacts DEF Grows, folder, brief
  <2>4. CASE \/ Keeps(p) \/ LedgerSkips(p) \/ HelperStarts(p) \/ LocksLog(p)
            \/ GafferPlans(p) \/ GafferWrites(p) \/ RailSkips(p)
    BY <2>4 DEF Keeps, LedgerSkips, HelperStarts, LocksLog, GafferPlans, GafferWrites, RailSkips,
                Grows, folder, brief
  <2> QED
    BY <2>1, <2>2, <2>3, <2>4 DEF Steps
<1>2. ASSUME NEW q \in Proc, NEW r, q # "brief", Becomes(q, r)
      PROVE  proc'["brief"] = proc["brief"]
  BY <1>0, <1>2 DEF Becomes, Proc
<1>3. CASE p # "brief"
  <2>1. CASE Loops(p)
    BY <1>1, <1>2, <1>3, <2>1, LoopFacts, CoveredAside
  <2>2. CASE \/ Keeps(p) \/ LedgerSkips(p) \/ HelperStarts(p) \/ LocksLog(p)
            \/ GafferPlans(p) \/ GafferWrites(p) \/ RailSkips(p)
            \/ WritesReport(p) \/ IsRefused(p) \/ AppendsEntry(p)
    BY <1>1, <1>2, <1>3, <2>2, CoveredAside
    DEF Keeps, LedgerSkips, HelperStarts, LocksLog, GafferPlans, GafferWrites, RailSkips,
        WritesReport, IsRefused, AppendsEntry, Advances
  <2> QED
    BY <2>1, <2>2 DEF Steps
<1>4. CASE p = "brief"
  <2> DEFINE q == proc["brief"]
  <2>1. q \in ProcState /\ q.calls \in Nat /\ q.calls + 1 \in Nat
    BY <1>0, <1>4 DEF ProcState
  <2>2. ASSUME NEW r, Becomes("brief", r), r.todo = q.todo, r.pc # "send", ~At("brief", "off")
        PROVE  Covered'
    BY <1>0, <1>1, <1>4, <2>2, CoveredAside DEF Becomes, At
  <2>3. CASE Keeps(p) \/ WritesReport(p) \/ IsRefused(p) \/ AppendsEntry(p) \/ GafferWrites(p)
    <3>1. /\ Becomes("brief", AfterTask("brief", q))
          /\ ~At("brief", "off") /\ ~At("brief", "send")
      BY <1>4, <2>3 DEF Keeps, WritesReport, IsRefused, AppendsEntry, GafferWrites, Running,
                        Reporting, At, Advances
    <3>2. Task("brief") \in Reporter =>
            file'[Task("brief")] # "none" \/ Task("brief") \in gaps'
      <4>1. CASE Keeps(p)
        BY <1>4, <4>1 DEF Keeps, Exists, folder
      <4>2. CASE WritesReport(p)
        BY <1>4, <4>2 DEF WritesReport, TypeOK
      <4>3. CASE IsRefused(p)
        BY <1>4, <4>3 DEF IsRefused, Exists, folder
      <4>4. CASE AppendsEntry(p)
        BY <1>4, <4>4, RolesAssumption DEF AppendsEntry
      <4>5. CASE GafferWrites(p)
        BY <1>4, <4>5, RolesAssumption DEF GafferWrites, Role, Errand
      <4> QED
        BY <2>3, <4>1, <4>2, <4>3, <4>4, <4>5
    <3> QED
      BY <1>1, <2>1, <3>1, <3>2, CoveredDone
  <2>4. CASE GafferPlans(p)
    <3> DEFINE r == [q EXCEPT !.calls = @ + 1]
    <3>1. ~At("brief", "off") /\ ~At("brief", "send") /\ Becomes("brief", AfterTask("brief", r))
      BY <1>4, <2>4 DEF GafferPlans, At
    <3>2. r \in ProcState /\ r.todo = q.todo
      BY <2>1 DEF ProcState
    <3>3. Task("brief") \notin Reporter
      BY <1>4, <2>4, RolesAssumption DEF GafferPlans, Role, Errand
    <3> HIDE DEF r
    <3> QED
      BY <1>1, <3>1, <3>2, <3>3, CoveredDone
  <2>5. CASE LedgerSkips(p) \/ RailSkips(p) \/ HelperStarts(p) \/ LocksLog(p)
    <3>1. \E r : Becomes("brief", r) /\ r.todo = q.todo /\ r.pc # "send"
      <4>1. CASE LedgerSkips(p)
        <5> DEFINE r == [q EXCEPT !.pc = "report", !.outcome = "skipped"]
        <5>1. Becomes("brief", r)
          BY <1>4, <4>1 DEF LedgerSkips
        <5>2. r.todo = q.todo /\ r.pc # "send"
          BY <2>1 DEF ProcState
        <5> QED
          BY <5>1, <5>2
      <4>2. CASE RailSkips(p)
        <5> DEFINE r == [q EXCEPT !.hit = TRUE, !.pc = "report", !.outcome = "skipped"]
        <5>1. Becomes("brief", r)
          BY <1>4, <4>2 DEF RailSkips
        <5>2. r.todo = q.todo /\ r.pc # "send"
          BY <2>1 DEF ProcState
        <5> QED
          BY <5>1, <5>2
      <4>3. CASE HelperStarts(p)
        <5>1. PICK left \in {0, Searches} :
                Becomes("brief", [q EXCEPT !.pc = "loop", !.left = left])
          BY <1>4, <4>3 DEF HelperStarts
        <5> DEFINE r == [q EXCEPT !.pc = "loop", !.left = left]
        <5>2. r.todo = q.todo /\ r.pc # "send"
          BY <2>1 DEF ProcState
        <5> QED
          BY <5>1, <5>2
      <4>4. CASE LocksLog(p)
        <5> DEFINE r == [q EXCEPT !.pc = "append"]
        <5>1. Becomes("brief", r)
          BY <1>4, <4>4 DEF LocksLog
        <5>2. r.todo = q.todo /\ r.pc # "send"
          BY <2>1 DEF ProcState
        <5> QED
          BY <5>1, <5>2
      <4> QED
        BY <2>5, <4>1, <4>2, <4>3, <4>4
    <3>2. ~At("brief", "off")
      BY <1>4, <2>5 DEF LedgerSkips, RailSkips, HelperStarts, LocksLog, MayRun, Running, At
    <3> QED
      BY <2>2, <3>1, <3>2
  <2>6. CASE Loops(p)
    <3>1. PICK s \in ProcState : Becomes("brief", s) /\ s.todo = q.todo /\ s.pc # "send"
      BY <1>4, <2>6, LoopFacts
    <3>2. ~At("brief", "off")
      BY <1>4, <2>6, LoopFacts DEF At
    <3> QED
      BY <2>2, <3>1, <3>2
  <2> QED
    BY <1>4, <2>3, <2>4, <2>5, <2>6 DEF Steps
<1> QED
  BY <1>3, <1>4

LEMMA CoveredFails ==
  ASSUME TypeOK, Covered, NEW p \in Proc, Fails(p)
  PROVE  Covered'
<1>0. proc[p] \in ProcState /\ proc \in [Proc -> ProcState]
  BY DEF TypeOK
<1>1. Grows
  BY DEF Fails, HelperFails, StubFails, WriteRaises, GafferFails, Killed, NamesGap, Grows,
         folder, brief
<1>2. ASSUME NEW r, p # "brief", Becomes(p, r)
      PROVE  Covered'
  <2>1. proc'["brief"] = proc["brief"]
    BY <1>0, <1>2 DEF Becomes, Proc
  <2> QED
    BY <1>1, <2>1, CoveredAside
<1>3. CASE WriteRaises(p) \/ GafferFails(p) \/ Killed(p)
  <2>1. Becomes(p, Idle)
    BY <1>3 DEF WriteRaises, GafferFails, Killed, Ends
  <2>2. p = "brief" => At("brief", "off")'
    BY <1>0, <2>1 DEF Becomes, At, Idle
  <2> QED
    BY <1>1, <1>2, <2>1, <2>2, CoveredAside
<1>4. CASE HelperFails(p)
  <2> DEFINE r == [proc[p] EXCEPT !.pc = "report", !.outcome = "failed"]
  <2>1. r.todo = proc[p].todo /\ r.pc = "report"
    BY <1>0 DEF ProcState
  <2>2. Becomes(p, r) /\ ~At(p, "off")
    BY <1>4 DEF HelperFails, At
  <2> HIDE DEF r
  <2>3. p = "brief" => ~At("brief", "send")' /\ proc'["brief"].todo = proc["brief"].todo
    BY <1>0, <2>1, <2>2 DEF Becomes, At
  <2> QED
    BY <1>1, <1>2, <2>2, <2>3, CoveredAside
<1>5. CASE StubFails(p)
  <2>1. Becomes(p, AfterTask(p, proc[p])) /\ ~At(p, "off") /\ ~At(p, "send")
    BY <1>5 DEF StubFails, At, Advances
  <2>2. p = "brief" => Task("brief") \in gaps'
    BY <1>5 DEF StubFails, NamesGap
  <2> QED
    BY <1>0, <1>1, <1>2, <2>1, <2>2, CoveredDone
<1> QED
  BY <1>3, <1>4, <1>5 DEF Fails

LEMMA CoveredOthers ==
  ASSUME TypeOK, Covered,
         \/ SectionReads \/ SectionWrites \/ SectionFails \/ (\E role \in Role : AskAnswered(role))
         \/ BriefWakes \/ BriefSends \/ BriefSendFails \/ ScoutWakes \/ WindowMoves
  PROVE  Covered'
<1>0. {"brief", "scout", "chat"} \subseteq Proc /\ proc \in [Proc -> ProcState]
  BY DEF Proc, TypeOK
<1>1. CASE BriefWakes
  <2> DEFINE r == [proc["brief"] EXCEPT !.pc = "task", !.todo = Tasks(window)]
  <2>1. proc["brief"] \in ProcState /\ window \in Briefs
    BY <1>0 DEF TypeOK
  <2>2. r.pc = "task" /\ r.todo = Tasks(window)
    BY <2>1 DEF ProcState
  <2>3. proc'["brief"] = r /\ kind' = window
    BY <1>0, <1>1 DEF BriefWakes, Wakes, Becomes
  <2> HIDE DEF r
  <2> QED
    BY <2>2, <2>3, TasksFacts DEF Covered, Accounted, Emptied, At
<1>2. CASE BriefSends \/ BriefSendFails
  <2>1. Grows
    BY <1>2 DEF BriefSends, BriefSendFails, Grows, folder, brief
  <2>2. At("brief", "off")'
    BY <1>0, <1>2 DEF BriefSends, BriefSendFails, Ends, Becomes, Idle, At
  <2> QED
    BY <2>1, <2>2, CoveredAside
<1>3. CASE \/ SectionReads \/ SectionWrites \/ SectionFails \/ ScoutWakes \/ WindowMoves
          \/ (\E role \in Role : AskAnswered(role))
  <2>1. Grows
    BY <1>3 DEF SectionReads, SectionWrites, SectionFails, ScoutWakes, WindowMoves, AskAnswered,
                Grows, folder, brief, TypeOK
  <2>2. proc'["brief"] = proc["brief"]
    BY <1>0, <1>3 DEF SectionReads, SectionWrites, SectionFails, ScoutWakes, WindowMoves,
                AskAnswered, Becomes, Ends, Wakes
  <2> QED
    BY <2>1, <2>2, CoveredAside
<1> QED
  BY <1>1, <1>2, <1>3

(* When the draft goes out every analyst and the AM have a file or are     *)
(* named in its footer (run_draft, gaps).                                  *)
THEOREM GapOrFile == Spec => []NeverSilent
<1>1. TypeOK /\ Covered /\ [Next]_vars => Covered'
  <2> SUFFICES ASSUME TypeOK, Covered, [Next]_vars PROVE Covered'
    OBVIOUS
  <2>1. ASSUME NEW p \in Proc, Steps(p) PROVE Covered'
    BY <2>1, CoveredSteps
  <2>2. ASSUME NEW p \in Proc, Fails(p) PROVE Covered'
    BY <2>2, CoveredFails
  <2>3. CASE UNCHANGED vars
    BY <2>3 DEF vars, folder, brief, Covered, Accounted, Emptied, At
  <2> QED
    BY <2>1, <2>2, <2>3, CoveredOthers DEF Next, BriefSteps, ChatSteps, Proc
<1> QED
  BY <1>1, CoveredInit, CoveredHolds, FanoutWellTyped, PTL DEF Spec
=============================================================================
