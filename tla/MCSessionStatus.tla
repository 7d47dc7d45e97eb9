--------------------------- MODULE MCSessionStatus ---------------------------
(* A client that cancels, and two that follow the session.                *)
EXTENDS SessionStatus, TLC

CONSTANTS c1, s1, s2
=============================================================================
