------------------------ MODULE MCNotificationRouter ------------------------
(* NotificationRouter on small instances: one chat, with a step of two       *)
(* levels or of one, and two workers.                                        *)
EXTENDS NotificationRouter

CONSTANTS u1, u2, w1, w2

Steps12 == [u \in Users |-> IF u = u1 THEN 1 ELSE 2]
=============================================================================
