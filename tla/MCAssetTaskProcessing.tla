----------------------- MODULE MCAssetTaskProcessing -----------------------
(* Two items of one asset: an optional one that depends on a required one. *)
EXTENDS AssetTaskProcessing, TLC

CONSTANTS a, b, r1, r2, p1, p2, d1, d2

MCDependsOn == (a :> {}) @@ (b :> {a})

MCSymmetry ==
  Permutations({r1, r2}) \cup Permutations({p1, p2}) \cup Permutations({d1, d2})
=============================================================================
