-------------------------- MODULE MCPlayerSessions --------------------------
(* Values for model checking PlayerSessions.                               *)
EXTENDS PlayerSessions

CONSTANTS l1, l2, l3, d1, d2

MCDeviceOf == [l \in Logins |-> IF l = l2 THEN d2 ELSE d1]
=============================================================================
