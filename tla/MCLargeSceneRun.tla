--------------------------- MODULE MCLargeSceneRun ---------------------------
(* Two contents of everything that can be edited.                           *)
EXTENDS LargeSceneRun, TLC

CONSTANTS s1, s2, i1, i2, g1, g2, t1, t2

MCSymmetry ==
  Permutations({s1, s2}) \cup Permutations({i1, i2})
    \cup Permutations({g1, g2}) \cup Permutations({t1, t2})
=============================================================================
