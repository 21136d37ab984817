------------------------- MODULE MCConnectorManager -------------------------
(* One exchange with two streams, whose connector can be replaced twice;     *)
(* channels of capacity one, so that each is full at times, and two ticks,   *)
(* which share a key or share the coalescer's notification.                  *)
EXTENDS ConnectorManager
=============================================================================
