------------------------------ MODULE WorkLedger ------------------------------
(***************************************************************************)
(* What an asset-task processing run promises whoever reads its files: a   *)
(* work item is completed in one step, together with its result and with a *)
(* decision that rests on what was completed before, and it stays so.  No  *)
(* locks, no files and no crashes here: AssetTaskProcessing implements     *)
(* this with several files that are replaced one at a time.                *)
(***************************************************************************)
EXTENDS Naturals

CONSTANTS Items, Required, DependsOn, Results, Evidence, Digests, MaxRevision,
          None

VARIABLES
  frozen,   (* the task requests the run is for                             *)
  plan,     (* the number of plan revisions recorded                        *)
  work,     (* where each work item stands                                  *)
  outcome,  (* the result and the decision of each completed item           *)
  report    (* the last sealed result: what the three above were then       *)
vars == <<frozen, plan, work, outcome, report>>

Decision == [evidence: Evidence, revision: 1..MaxRevision,
             informedBy: SUBSET Items, request: Digests]
Outcome == [result: Results, decision: Decision]

Done == {i \in Items : work[i] = "completed"}
Closed == {i \in Items : work[i] \in {"completed", "waived"}}

Init ==
  /\ frozen = None
  /\ plan = 0
  /\ work = [i \in Items |-> "open"]
  /\ outcome = [i \in Items |-> None]
  /\ report = None

Prepare(d) ==
  /\ frozen = None
  /\ frozen' = d
  /\ UNCHANGED <<plan, work, outcome, report>>

RecordPlan ==
  /\ frozen # None
  /\ plan < MaxRevision
  /\ plan' = plan + 1
  /\ UNCHANGED <<frozen, work, outcome, report>>

Move(i, from, to) ==
  /\ work[i] = from
  /\ work' = [work EXCEPT ![i] = to]
  /\ UNCHANGED <<frozen, plan, outcome, report>>

Begin(i) == plan > 0 /\ DependsOn[i] \subseteq Closed /\ Move(i, "open", "running")
Fail(i) == Move(i, "running", "open")
Waive(i) == frozen # None /\ Move(i, "open", "waived")

(* A decision is for the frozen requests, follows a recorded plan and was   *)
(* informed by items that were completed before this step.                  *)
Grounded(decision) ==
  /\ decision.request = frozen
  /\ decision.revision <= plan
  /\ decision.informedBy \subseteq Done

Complete(js) ==
  /\ \A j \in js : work[j] = "running" /\ DependsOn[j] \subseteq Closed
  /\ work' = [i \in Items |-> IF i \in js THEN "completed" ELSE work[i]]
  /\ outcome' \in [Items -> Outcome \cup {None}]
  /\ \A i \in Items : IF i \in js
                        THEN outcome'[i] \in Outcome /\ Grounded(outcome'[i].decision)
                        ELSE outcome'[i] = outcome[i]
  /\ UNCHANGED <<frozen, plan, report>>

Seal ==
  /\ plan > 0 /\ Required \subseteq Closed
  /\ report' = [plan |-> plan, work |-> work, outcome |-> outcome]
  /\ UNCHANGED <<frozen, plan, work, outcome>>

Next ==
  \/ \E d \in Digests : Prepare(d)
  \/ RecordPlan
  \/ \E i \in Items : Begin(i) \/ Fail(i) \/ Waive(i)
  \/ \E js \in SUBSET Items : Complete(js)
  \/ Seal

Spec == Init /\ [][Next]_vars
=============================================================================
