--------------------------- MODULE MCUserCommands ---------------------------
(* Two chats and the operator's settings, competed for by two workers.       *)
EXTENDS UserCommands
=============================================================================
