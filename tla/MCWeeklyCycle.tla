--------------------------- MODULE MCWeeklyCycle ---------------------------
(***************************************************************************)
(* WeeklyCycle on a season of two gameweeks at most, with one plain plan   *)
(* and one that plays a chip.  A stop is pressed, the other messages are   *)
(* typed: a press the gate does not take and typed text that reaches the   *)
(* model both occur.                                                       *)
(***************************************************************************)
EXTENDS WeeklyCycle

CONSTANTS plain, chip

PlainAndChip == {plain, chip}
OnlyChip == {chip}

Typed(t) == [token |-> t, pressed |-> FALSE]
Pressed(t) == [token |-> t, pressed |-> TRUE]
YesStopChat == {Typed("yes"), Pressed("stop"), Typed("chat")}
=============================================================================
