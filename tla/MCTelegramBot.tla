--------------------------- MODULE MCTelegramBot ----------------------------
(* Two bots, one chat of each and one that is routed to a bot that is gone;  *)
(* queues of capacity one.                                                   *)
EXTENDS TelegramBot

MCRoute == [c \in Chats |-> CASE c = "c1" -> 1 [] c = "c2" -> 2 [] OTHER -> 7]
=============================================================================
