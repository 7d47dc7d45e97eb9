--------------------------- MODULE MCJobRegistry ---------------------------
(* Three requests, two of them for the same session, and one slot.         *)
EXTENDS JobRegistry, TLC

CONSTANTS r1, r2, r3, s1, s2, c1, c2

MCSessionOf == (r1 :> s1) @@ (r2 :> s1) @@ (r3 :> s2)
=============================================================================
