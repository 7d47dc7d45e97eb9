---------------------------- MODULE PhasePipeline ----------------------------
(***************************************************************************)
(* What the coordinator of a large-scene run promises, without files or    *)
(* digests: phases are done strictly in order, one at a time, and going    *)
(* back to a phase gives up everything done from that phase on.            *)
(***************************************************************************)
EXTENDS Naturals

CONSTANT Last   (* the number of phases *)

VARIABLES
  done,   (* how many phases are completed, from the first on               *)
  stage   (* what happens to the next one: "absent" before the run exists   *)

vars == <<done, stage>>

Init == done = 0 /\ stage = "absent"

Create == stage = "absent" /\ stage' = "ready" /\ UNCHANGED done

Begin == done < Last /\ stage = "ready" /\ stage' = "running" /\ UNCHANGED done

Complete ==
  /\ stage = "running"
  /\ done' = done + 1
  /\ stage' = IF done + 1 < Last THEN "ready" ELSE "finished"

Fail == stage \in {"ready", "running"} /\ stage' = "failed" /\ UNCHANGED done

(* Back to the phase after the first k, or a fresh start of the next one.   *)
Return(k) ==
  /\ stage # "absent"
  /\ k <= done /\ k < Last
  /\ done' = k
  /\ stage' = "ready"

Next == Create \/ Begin \/ Complete \/ Fail \/ \E k \in 0..(Last - 1) : Return(k)

Spec == Init /\ [][Next]_vars
=============================================================================
