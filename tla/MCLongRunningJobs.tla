------------------------- MODULE MCLongRunningJobs -------------------------
(* Two jobs, one reader, room for one loaded job.  The log of one job has   *)
(* room for an event of its runner or a cancellation, the other only for    *)
(* its three of the manager.                                                *)
EXTENDS LongRunningJobs, TLC

CONSTANTS j1, j2, f1

EventsBound == [j \in {j1, j2} |-> IF j = j1 THEN 4 ELSE 3]
=============================================================================
