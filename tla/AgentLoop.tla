------------------------------- MODULE AgentLoop -------------------------------
(***************************************************************************)
(* run_agent (agent.py), the tool loop that chat and the engineer are run  *)
(* by: a model turn, the calls of its reply one after the other, and the   *)
(* ceilings looked at between turns only.  What a tool does belongs to the *)
(* module that uses the loop.                                              *)
(***************************************************************************)
EXTENDS Integers, FiniteSets

CONSTANTS
    TurnCap,    \* Caps.turns
    ToolCap,    \* Tool.cap of the one capped tool
    MaxCalls    \* bound: calls in one reply

VARIABLE ag     \* ag[a]: the loop of agent a, see AgentType

Agents == {"engineer", "chat"}

\* Who passes finish_on_cap: the reply loop does, run_build does not.
Finishing == {"chat"}

\* `text` is whether last_content is not blank, `calls` what is left of the
\* reply at hand, `used` how often the capped tool ran.
AgentType == [pc : {"off", "top", "calls", "finish", "over"}, turns : 0..(TurnCap + 1),
              calls : 0..MaxCalls, used : 0..ToolCap, text : BOOLEAN,
              status : {"ok", "stopped", "turns", "clock", "error"},
              reply : {"blank", "text", "placeholder"}]

Off == [pc |-> "off", turns |-> 0, calls |-> 0, used |-> 0, text |-> FALSE,
        status |-> "ok", reply |-> "blank"]
Started == [Off EXCEPT !.pc = "top"]

\* Faulty: the cap is looked at one turn late.
SpentLate(r) == r.turns > TurnCap

Spent(r) == r.turns >= TurnCap

\* What is left when nothing was said in the end: the last text, or a fixed line.
Fallback(r) == [r EXCEPT !.pc = "over",
                         !.reply = IF @ = "blank" THEN IF r.text THEN "text" ELSE "placeholder" ELSE @]

\* Faulty: a reply that only calls tools is not counted.
TurnUncounted(r, k, said) ==
    [r EXCEPT !.turns = IF k = 0 THEN @ + 1 ELSE @, !.calls = k, !.text = @ \/ said,
              !.pc = IF k = 0 THEN "over" ELSE "calls",
              !.reply = IF k = 0 /\ said THEN "text" ELSE @]

\* One llm.chat: k calls, or none and the loop is over.
Turned(r, k, said) ==
    [r EXCEPT !.turns = @ + 1, !.calls = k, !.text = @ \/ said,
              !.pc = IF k = 0 THEN "over" ELSE "calls",
              !.reply = IF k = 0 /\ said THEN "text" ELSE @]

Turn(a, stop) ==
    /\ ag[a].pc = "top" /\ ~stop /\ ~Spent(ag[a])
    /\ \E k \in 0..MaxCalls, said \in BOOLEAN : ag' = [ag EXCEPT ![a] = Turned(@, k, said)]

\* The loop is broken: a brake, a ceiling (minutes and cost may be reached
\* before any turn) or an error of the model.
Broken(r, a, why) ==
    IF a \in Finishing /\ r.turns > 0 /\ why # "stopped"
    THEN [r EXCEPT !.pc = "finish", !.status = why]
    ELSE Fallback([r EXCEPT !.status = why])

Break(a, stop) ==
    /\ ag[a].pc = "top"
    /\ \E why \in {"stopped", "turns", "clock", "error"} :
         /\ (why = "stopped") = stop
         /\ ~stop => (why = "turns") = Spent(ag[a])
         /\ ag' = [ag EXCEPT ![a] = Broken(@, a, why)]

\* One more toolless turn; its failure leaves the fallback.
Finish(a) ==
    /\ ag[a].pc = "finish"
    /\ \/ \E said \in BOOLEAN :
            ag' = [ag EXCEPT ![a] = Fallback([ag[a] EXCEPT !.turns = @ + 1,
                                                !.reply = IF said THEN "text" ELSE "blank"])]
       \/ ag' = [ag EXCEPT ![a] = Fallback(@)]

\* A call of the reply is answered: by the tool, by an error text, by a refusal.
Called(r) == [r EXCEPT !.calls = @ - 1, !.pc = IF @ = "calls" /\ r.calls = 1 THEN "top" ELSE @]

AnswerCall(a) == ag[a].pc = "calls" /\ ag' = [ag EXCEPT ![a] = Called(@)]

\* Faulty: the cap of a tool is never looked at.
UnderAnyCap(r) == r.used < ToolCap + 1

\* A capped tool past its cap is refused (AnswerCall), below it it runs.
UnderToolCap(r) == r.used < ToolCap

CappedCall(a) ==
    /\ ag[a].pc = "calls" /\ UnderToolCap(ag[a])
    /\ ag' = [ag EXCEPT ![a] = [Called(ag[a]) EXCEPT !.used = @ + 1]]

=============================================================================
