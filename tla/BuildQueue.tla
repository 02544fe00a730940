----------------------------- MODULE BuildQueue -----------------------------
(***************************************************************************)
(* What the build gate promises of commissioned builds (daemon/build.py,   *)
(* "one build pends and one runs at a time"), with no file, no process id  *)
(* and no copy in it.  One message at a time is served, and only it moves  *)
(* the queue: an issue is queued in answer to a chat and only when none    *)
(* is; it leaves the queue by being started on a `build` or cancelled on a *)
(* `cancel build`, and by nothing else.  A build that ends, and a daemon   *)
(* that restarts, leave the queue alone, but that a daemon stopped at the  *)
(* very start of a build may find its issue queued as before.              *)
(***************************************************************************)
CONSTANTS Issues, NONE

VARIABLES
  queued,    \* the issue that waits for a `build`, or NONE
  running,   \* the issue whose build runs, or NONE
  request    \* what the message being served asks for, or "none"

Init == queued = NONE /\ running = NONE /\ request = "none"

(* A message is taken up.                                                  *)
Ask(what) ==
  /\ request = "none"
  /\ request' = what /\ UNCHANGED <<queued, running>>

(* A message is done with and has changed nothing: a `cancel build` only   *)
(* when there is nothing to cancel.                                        *)
Drop ==
  /\ \/ request \in {"start", "chat"}
     \/ request = "cancel" /\ queued = NONE /\ running = NONE
  /\ request' = "none" /\ UNCHANGED <<queued, running>>

(* A command with nothing to act on goes to the model as a chat.           *)
AsChat ==
  /\ request \in {"start", "cancel"} /\ queued = NONE /\ running = NONE
  /\ request' = "chat" /\ UNCHANGED <<queued, running>>

(* A build block in the reply.                                             *)
Queue(issue) ==
  /\ request = "chat" /\ queued = NONE
  /\ queued' = issue /\ request' = "none" /\ UNCHANGED running

(* `build` or `build #N`: the queued one, or another when none is queued.  *)
Start(issue) ==
  /\ request = "start" /\ running = NONE /\ queued \in {NONE, issue}
  /\ running' = issue /\ queued' = NONE /\ request' = "starting"

(* The start is on record; a build that was over by then no longer runs.   *)
Started ==
  /\ request = "starting"
  /\ running' \in {running, NONE} /\ request' = "none" /\ UNCHANGED queued

(* `cancel build`: both slots at once.                                     *)
Cancel ==
  /\ request = "cancel"
  /\ queued # NONE \/ running # NONE
  /\ queued' = NONE /\ running' = NONE /\ request' = "none"

(* The build ends, or is killed.                                           *)
End ==
  /\ running # NONE
  /\ running' = NONE /\ UNCHANGED <<queued, request>>

(* The daemon is stopped, its build and its message with it.               *)
Restart ==
  /\ \/ queued' = queued
     \/ request = "starting" /\ queued' = running
  /\ running' = NONE /\ request' = "none"

Next ==
  \/ \E what \in {"start", "cancel", "chat"} : Ask(what)
  \/ \E issue \in Issues : Queue(issue) \/ Start(issue)
  \/ Drop \/ AsChat \/ Started \/ Cancel \/ End \/ Restart

Spec == Init /\ [][Next]_<<queued, running, request>>
=============================================================================
