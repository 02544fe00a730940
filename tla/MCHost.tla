-------------------------------- MODULE MCHost --------------------------------
(* Two chats, a player who is fit, injured or missing, four moves and       *)
(* merges.                                                                  *)
EXTENDS Host

===============================================================================
