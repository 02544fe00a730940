----------------------------- MODULE ReviewDuty -----------------------------
(***************************************************************************)
(* What the post-gameweek review owes its chats (review.run_review), with  *)
(* no wake, no reply and no file in it: gameweeks settle, and each one     *)
(* from the first reviewed is reviewed in its turn, told to every chat     *)
(* before it counts as done and before the next one is begun.  A chat may  *)
(* be told more than once.                                                 *)
(***************************************************************************)
EXTENDS Naturals

CONSTANTS Chats

VARIABLES
  settled,    \* the last gameweek that is finished and data-checked
  reviewed,   \* the last one reviewed, 0 before the first
  current,    \* the one being reviewed, or 0
  served      \* the chats that have been told of it

Init == settled = 0 /\ reviewed = 0 /\ current = 0 /\ served = {}

Settle == settled' = settled + 1 /\ UNCHANGED <<reviewed, current, served>>

(* A review is begun, or begun afresh for the newest gameweek while none   *)
(* has been reviewed.                                                      *)
Begin(gw) ==
  /\ gw \in 1..settled /\ gw # current
  /\ IF reviewed = 0 THEN gw = settled ELSE current = 0 /\ gw = reviewed + 1
  /\ current' = gw /\ served' = {}
  /\ UNCHANGED <<settled, reviewed>>

Serve(chat) ==
  /\ current # 0
  /\ served' = served \cup {chat}
  /\ UNCHANGED <<settled, reviewed, current>>

Mark ==
  /\ current # 0 /\ served = Chats
  /\ reviewed' = current /\ current' = 0
  /\ UNCHANGED <<settled, served>>

Next ==
  \/ Settle \/ Begin(settled) \/ Begin(reviewed + 1)
  \/ (\E chat \in Chats : Serve(chat)) \/ Mark

Spec == Init /\ [][Next]_<<settled, reviewed, current, served>>
=============================================================================
