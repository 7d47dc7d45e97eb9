---------------------- MODULE MCTextureVariationService ----------------------
(* Two callers, one upload and two jobs for one thread without a queue.    *)
EXTENDS TextureVariationService, TLC

CONSTANTS c1, c2, j1, j2, u1
=============================================================================
