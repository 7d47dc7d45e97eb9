----------------------------- MODULE JobLifecycle -----------------------------
(***************************************************************************)
(* What the job services promise of a job: an id that is used once, work   *)
(* that starts at most once, one result that stays, and possibly an end of *)
(* its record.  No more than Capacity jobs are open at a time.             *)
(***************************************************************************)
EXTENDS Naturals, FiniteSets

CONSTANTS
  Jobs,
  Results,      (* how a job may end                                        *)
  Unstarted,    (* the results a job may have without having been started   *)
  Capacity      (* bound on the jobs that are queued or active              *)

VARIABLE job

Open == {j \in Jobs : job[j] \in {"queued", "active"}}
Ended == {j \in Jobs : job[j] \in Results}

Init == job = [j \in Jobs |-> "new"]

(* An operation that submits a job may forget some of those that ended.    *)
Submit(j, forgotten) ==
  /\ job[j] = "new"
  /\ forgotten \subseteq Ended
  /\ Cardinality(Open) < Capacity
  /\ job' = [i \in Jobs |-> IF i = j THEN "queued"
                            ELSE IF i \in forgotten THEN "forgotten" ELSE job[i]]

Start(j) ==
  /\ job[j] = "queued"
  /\ job' = [job EXCEPT ![j] = "active"]

(* A job ends on its own, or several at a time.                            *)
End(js, r) ==
  /\ \A j \in js : job[j] = "active" \/ (job[j] = "queued" /\ r \in Unstarted)
  /\ job' = [j \in Jobs |-> IF j \in js THEN r ELSE job[j]]

Forget(js) ==
  /\ js \subseteq Ended
  /\ job' = [j \in Jobs |-> IF j \in js THEN "forgotten" ELSE job[j]]

Next ==
  \/ \E j \in Jobs : Start(j) \/ \E js \in SUBSET Jobs : Submit(j, js)
  \/ \E js \in SUBSET Jobs : Forget(js) \/ \E r \in Results : End(js, r)

Spec == Init /\ [][Next]_job
=============================================================================
