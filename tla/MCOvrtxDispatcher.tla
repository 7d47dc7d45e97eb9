-------------------------- MODULE MCOvrtxDispatcher --------------------------
(* One worker and two requests that render.                                 *)
EXTENDS OvrtxDispatcher, TLC

CONSTANTS c1, c2, h1, h2, h3

(* Requests are alike and so are handles.  Only for the safety run.         *)
Symmetry == Permutations(Clients) \cup Permutations(Handles)
=============================================================================
