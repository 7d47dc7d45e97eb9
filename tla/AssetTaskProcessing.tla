------------------------- MODULE AssetTaskProcessing -------------------------
(***************************************************************************)
(* Workflow 2 of a large-scene run: the durable execution state of one     *)
(* asset-task processing run                                               *)
(* (content_agent_workflows/asset_task_processing/runtime.py).             *)
(*                                                                         *)
(* A run is a directory of files.  Every operation takes the run's file    *)
(* lock, loads what it needs, validates, and then replaces one or several  *)
(* files.  Replacing one file is atomic; an operation that replaces        *)
(* several can die between two of them, and the operating system then      *)
(* releases the lock.  An action below is one such replacement, so that a  *)
(* Crash can fall between any two; what an operation only reads or refuses *)
(* is a guard.                                                             *)
(***************************************************************************)
EXTENDS Naturals, Sequences

CONSTANTS
  Items,        (* the work items of the inventory                          *)
  Required,     (* those whose task is required                             *)
  DependsOn,    (* item -> the items its task depends on, for its asset     *)
  Results,      (* result and validation files an agent may commit          *)
  Evidence,     (* what a ledger entry says, beyond its provenance          *)
  Plans,        (* texts of agent plans                                     *)
  Digests,      (* contents of the task request files                       *)
  MaxRevision,  (* bound on the plan revisions                              *)
  MaxAttempts,  (* bound on the attempts at one item                        *)
  MaxCrashes,   (* bound on the crashes                                     *)
  None          (* no item, no result, no entry, no plan, no digest, no seal *)

ASSUME ConstantsAssumption ==
  /\ Required \subseteq Items
  /\ DependsOn \in [Items -> SUBSET Items]
  /\ MaxRevision \in Nat \ {0} /\ MaxAttempts \in Nat /\ MaxCrashes \in Nat
  /\ None \notin Items \cup Results \cup Evidence \cup Plans \cup Digests

VARIABLES
  present,      (* which of the files of ProcessingPaths exist              *)
  frozen,       (* task_request_digests, in inventory and run state         *)
  status,       (* run state: status of each item                           *)
  attempts,     (* run state: attempt_count of each item                    *)
  result,       (* run state: result_path and validation_path of each item  *)
  index,        (* results index: the entries of each item, oldest first    *)
  ledger,       (* decision ledger: the entry of each item                  *)
  pointer,      (* agent_plan/current.json: its revision, 0 when absent     *)
  plans,        (* agent_plan/revision-NNNN.md                              *)
  sealed,       (* processing_result.json: the artifacts its digest covers  *)
  request,      (* the task request files, which the run does not own       *)
  op,           (* the operation that holds the lock                        *)
  crashes

stateFile == <<status, attempts, result>>
planFiles == <<pointer, plans>>
vars == <<present, frozen, status, attempts, result, index, ledger, pointer,
          plans, sealed, request, op, crashes>>

RunFiles == {"inventory", "state", "index", "ledger"}
OpenOrWaived == {"planned", "failed", "deferred", "waived"}  \* fault: waived too
Open == {"planned", "failed", "deferred"}
Resolved == {"completed", "waived"}
Statuses == {"planned", "failed", "deferred", "running"} \cup Resolved
Revisions == 1..MaxRevision

(* A result document and the ledger entry that goes with it.  Both carry    *)
(* the plan revision and the citations, and commit refuses a pair that      *)
(* disagrees, so a payload has one of each.                                 *)
Payload == [result: Results, evidence: Evidence, revision: Revisions,
            informedBy: SUBSET Items, request: Digests]
LedgerEntry == [evidence: Evidence, revision: Revisions,
                informedBy: SUBSET Items, request: Digests]
ASSUME EntryAssumption == None \notin LedgerEntry
EntryOf(p) == [evidence |-> p.evidence, revision |-> p.revision,
               informedBy |-> p.informedBy, request |-> p.request]

IndexEntry == [status: Resolved, result: Results \cup {None}]
CompletedEntry(r) == [status |-> "completed", result |-> r]
WaivedEntry == [status |-> "waived", result |-> None]

Idle == [pc |-> "idle", item |-> None, payload |-> None]
Holding(pc, i, p) == [pc |-> pc, item |-> i, payload |-> p]

CommitSteps == {"commitLedger", "commitIndex", "commitState"}
Operations ==
  {Idle}
  \cup {Holding(pc, None, None) : pc \in
         {"prepareState", "prepareIndex", "prepareLedger", "planPointer", "seal"}}
  \cup {Holding("waiveState", i, None) : i \in Items}
  \cup {Holding(pc, i, p) : pc \in CommitSteps, i \in Items, p \in Payload}

(* What the output digest of a sealed result is computed from.  Plan        *)
(* revisions are reached through the pointer and never rewritten.           *)
Artifacts == [status |-> status, attempts |-> attempts, result |-> result,
              index |-> index, ledger |-> ledger, pointer |-> pointer,
              request |-> request]
Snapshot == [status: [Items -> Statuses], attempts: [Items -> 0..MaxAttempts],
             result: [Items -> Results \cup {None}],
             index: [Items -> Seq(IndexEntry)],
             ledger: [Items -> LedgerEntry \cup {None}],
             pointer: 0..MaxRevision, request: Digests]
ASSUME SnapshotAssumption == None \notin Snapshot
-----------------------------------------------------------------------------
TypeOK ==
  /\ present \subseteq RunFiles
  /\ frozen \in Digests \cup {None}
  /\ status \in [Items -> Statuses]
  /\ attempts \in [Items -> 0..MaxAttempts]
  /\ result \in [Items -> Results \cup {None}]
  /\ index \in [Items -> Seq(IndexEntry)]
  /\ ledger \in [Items -> LedgerEntry \cup {None}]
  /\ pointer \in 0..MaxRevision
  /\ plans \in [Revisions -> Plans \cup {None}]
  /\ sealed = None \/ sealed \in Snapshot
  /\ request \in Digests
  /\ op \in Operations
  /\ crashes \in 0..MaxCrashes

Init ==
  /\ present = {}
  /\ frozen = None
  /\ status = [i \in Items |-> "planned"]
  /\ attempts = [i \in Items |-> 0]
  /\ result = [i \in Items |-> None]
  /\ index = [i \in Items |-> <<>>]
  /\ ledger = [i \in Items |-> None]
  /\ pointer = 0
  /\ plans = [r \in Revisions |-> None]
  /\ sealed = None
  /\ request \in Digests
  /\ op = Idle
  /\ crashes = 0

(* _load_run: inventory and state load, and no task request has changed.    *)
RunLoads == {"inventory", "state"} \subseteq present /\ request = frozen

(* AssetTaskResultsIndex refuses a second entry for a work item.            *)
UniqueEntries == \A i \in Items : Len(index[i]) <= 1
IndexLoads == "index" \in present /\ UniqueEntries

Lock == op.pc = "idle"
Release == op' = Idle
-----------------------------------------------------------------------------
(***************************************************************************)
(* prepare_processing_run: four files, in this order, none of which may    *)
(* exist.  The request digests were read before the lock was taken, so     *)
(* they are those of some earlier moment.                                  *)
(***************************************************************************)
PrepareInventory(d) ==
  /\ Lock
  /\ present = {}
  /\ present' = {"inventory"}
  /\ frozen' = d
  /\ op' = Holding("prepareState", None, None)
  /\ UNCHANGED <<stateFile, index, ledger, planFiles, sealed, request, crashes>>

PrepareWrite(pc, file, next) ==
  /\ op.pc = pc
  /\ present' = present \cup {file}
  /\ op' = next
  /\ UNCHANGED <<frozen, stateFile, index, ledger, planFiles, sealed, request,
                 crashes>>

PrepareState ==
  PrepareWrite("prepareState", "state", Holding("prepareIndex", None, None))
PrepareIndex ==
  PrepareWrite("prepareIndex", "index", Holding("prepareLedger", None, None))
PrepareLedger == PrepareWrite("prepareLedger", "ledger", Idle)

(***************************************************************************)
(* record_plan: the revision file first, then the pointer to it.           *)
(***************************************************************************)
RecordPlanRevision(text) ==
  /\ Lock /\ RunLoads
  /\ pointer < MaxRevision
  /\ plans[pointer + 1] = None
  /\ plans' = [plans EXCEPT ![pointer + 1] = text]
  /\ op' = Holding("planPointer", None, None)
  /\ UNCHANGED <<present, frozen, stateFile, index, ledger, pointer, sealed,
                 request, crashes>>

RecordPlanPointer ==
  /\ op.pc = "planPointer"
  /\ pointer' = pointer + 1
  /\ Release
  /\ UNCHANGED <<present, frozen, stateFile, index, ledger, plans, sealed,
                 request, crashes>>

(***************************************************************************)
(* begin_work_item and fail_work_item replace the state file only.         *)
(***************************************************************************)
\* Fault: a dependency that is being worked on counts as satisfied.
DependenciesStarted(i) ==
  \A d \in DependsOn[i] : status[d] \in Resolved \cup {"running"}

DependenciesSatisfied(i) == \A d \in DependsOn[i] : status[d] \in Resolved

Begin(i) ==
  /\ Lock /\ RunLoads
  /\ pointer > 0
  /\ status[i] \in Open
  /\ DependenciesSatisfied(i)
  /\ attempts[i] < MaxAttempts
  /\ status' = [status EXCEPT ![i] = "running"]
  /\ attempts' = [attempts EXCEPT ![i] = @ + 1]
  /\ result' = [result EXCEPT ![i] = None]
  /\ UNCHANGED <<present, frozen, index, ledger, planFiles, sealed, request, op,
                 crashes>>

Fail(i) ==
  /\ Lock /\ RunLoads
  /\ status[i] = "running"
  /\ status' = [status EXCEPT ![i] = "failed"]
  /\ UNCHANGED <<present, frozen, attempts, result, index, ledger, planFiles,
                 sealed, request, op, crashes>>
-----------------------------------------------------------------------------
(***************************************************************************)
(* commit_work_item: every check, then ledger, index and state, each       *)
(* written only when it does not hold the item yet, so that repeating an   *)
(* interrupted commit finishes it.                                         *)
(***************************************************************************)
MatchesAnyIndex(i, p) == TRUE  \* fault: the indexed files are not compared
MatchesIndex(i, p) == index[i] \in {<<>>, <<CompletedEntry(p.result)>>}
MatchesLedger(i, p) == ledger[i] \in {None, EntryOf(p)}

\* Fault: a running item may be cited as a prior result.
CommitCitingUnfinished(i, p) ==
  /\ RunLoads
  /\ status[i] \in {"running", "completed"}
  /\ p.request = frozen
  /\ p.revision <= pointer
  /\ \A j \in p.informedBy : status[j] \in {"running", "completed"}
  /\ IndexLoads /\ MatchesIndex(i, p)
  /\ "ledger" \in present /\ MatchesLedger(i, p)

CommitAccepted(i, p) ==
  /\ RunLoads
  /\ status[i] \in {"running", "completed"}
  /\ p.request = frozen
  /\ p.revision <= pointer
  /\ \A j \in p.informedBy : status[j] = "completed"
  /\ IndexLoads /\ MatchesIndex(i, p)
  /\ "ledger" \in present /\ MatchesLedger(i, p)

CommitValidate(i, p) ==
  /\ Lock
  /\ CommitAccepted(i, p)
  /\ op' = Holding("commitLedger", i, p)
  /\ UNCHANGED <<present, frozen, stateFile, index, ledger, planFiles, sealed,
                 request, crashes>>

CommitLedger ==
  /\ op.pc = "commitLedger"
  /\ ledger' = [ledger EXCEPT
                   ![op.item] = IF @ = None THEN EntryOf(op.payload) ELSE @]
  /\ op' = [op EXCEPT !.pc = "commitIndex"]
  /\ UNCHANGED <<present, frozen, stateFile, index, planFiles, sealed, request,
                 crashes>>

CommitIndex ==
  /\ op.pc = "commitIndex"
  /\ index' = [index EXCEPT
                  ![op.item] = IF @ = <<>>
                                 THEN <<CompletedEntry(op.payload.result)>>
                                 ELSE @]
  /\ op' = [op EXCEPT !.pc = "commitState"]
  /\ UNCHANGED <<present, frozen, stateFile, ledger, planFiles, sealed, request,
                 crashes>>

(* An item already completed is left as it is: the repeated commit returns. *)
CommitState ==
  /\ op.pc = "commitState"
  /\ status' = [status EXCEPT ![op.item] = "completed"]
  /\ result' = [result EXCEPT ![op.item] =
                  IF status[op.item] = "completed" THEN @ ELSE op.payload.result]
  /\ Release
  /\ UNCHANGED <<present, frozen, attempts, index, ledger, planFiles, sealed,
                 request, crashes>>

(***************************************************************************)
(* waive_work_item: the index entry, then the state with its waiver.       *)
(***************************************************************************)
\* Fault: the waived entry replaces the entries of the item.
WaiveIndexReplacing(i) ==
  /\ Lock /\ RunLoads
  /\ status[i] \in Open
  /\ IndexLoads
  /\ index' = [index EXCEPT ![i] = <<WaivedEntry>>]
  /\ op' = Holding("waiveState", i, None)
  /\ UNCHANGED <<present, frozen, stateFile, ledger, planFiles, sealed, request,
                 crashes>>

WaiveIndex(i) ==
  /\ Lock /\ RunLoads
  /\ status[i] \in Open
  /\ IndexLoads
  /\ index' = [index EXCEPT ![i] = Append(@, WaivedEntry)]
  /\ op' = Holding("waiveState", i, None)
  /\ UNCHANGED <<present, frozen, stateFile, ledger, planFiles, sealed, request,
                 crashes>>

WaiveState ==
  /\ op.pc = "waiveState"
  /\ status' = [status EXCEPT ![op.item] = "waived"]
  /\ Release
  /\ UNCHANGED <<present, frozen, attempts, result, index, ledger, planFiles,
                 sealed, request, crashes>>
-----------------------------------------------------------------------------
(***************************************************************************)
(* finalize_processing_run.  It first completes the running items that an  *)
(* interrupted commit left in both ledger and index, in one write of the   *)
(* state, and refuses when one is in only one of them.  It then seals the  *)
(* result when every required item is resolved.                            *)
(***************************************************************************)
Touched(i) == status[i] = "running" /\ (index[i] # <<>> \/ ledger[i] # None)

Recoverable(i) ==
  /\ ledger[i] # None
  /\ \E r \in Results : index[i] = <<CompletedEntry(r)>>
  /\ ledger[i].request = frozen
  /\ \A j \in ledger[i].informedBy : status[j] = "completed"

\* Fault: the index entry, not its result, becomes the result of the item.
FinalizeRecoverEntry ==
  /\ Lock /\ RunLoads /\ IndexLoads /\ "ledger" \in present
  /\ \A i \in Items : Touched(i) => Recoverable(i)
  /\ status' = [i \in Items |-> IF Touched(i) THEN "completed" ELSE status[i]]
  /\ result' = [i \in Items |-> IF Touched(i) THEN index[i][1] ELSE result[i]]
  /\ op' = Holding("seal", None, None)
  /\ UNCHANGED <<present, frozen, attempts, index, ledger, planFiles, sealed,
                 request, crashes>>

FinalizeRecover ==
  /\ Lock /\ RunLoads /\ IndexLoads /\ "ledger" \in present
  /\ \A i \in Items : Touched(i) => Recoverable(i)
  /\ status' = [i \in Items |-> IF Touched(i) THEN "completed" ELSE status[i]]
  /\ result' = [i \in Items |->
                  IF Touched(i) THEN index[i][1].result ELSE result[i]]
  /\ op' = Holding("seal", None, None)
  /\ UNCHANGED <<present, frozen, attempts, index, ledger, planFiles, sealed,
                 request, crashes>>

RequiredTried ==  \* fault: a failed item counts as resolved
  \A i \in Required : status[i] \in Resolved \cup {"failed"}
RequiredResolved == \A i \in Required : status[i] \in Resolved

FinalizeSeal ==
  /\ op.pc = "seal"
  /\ pointer > 0 /\ RequiredResolved
  /\ sealed' = Artifacts
  /\ Release
  /\ UNCHANGED <<present, frozen, stateFile, index, ledger, planFiles, request,
                 crashes>>

FinalizeRefuse ==
  /\ op.pc = "seal"
  /\ ~(pointer > 0 /\ RequiredResolved)
  /\ Release
  /\ UNCHANGED <<present, frozen, stateFile, index, ledger, planFiles, sealed,
                 request, crashes>>
-----------------------------------------------------------------------------
(* The process that holds the lock dies between two of its writes.          *)
Crash ==
  /\ op.pc # "idle"
  /\ crashes < MaxCrashes
  /\ crashes' = crashes + 1
  /\ Release
  /\ UNCHANGED <<present, frozen, stateFile, index, ledger, planFiles, sealed,
                 request>>

(* Somebody edits, or restores, the task request files.                     *)
EditRequest(d) ==
  /\ request' = d
  /\ UNCHANGED <<present, frozen, stateFile, index, ledger, planFiles, sealed,
                 op, crashes>>

Next ==
  \/ \E d \in Digests : PrepareInventory(d)
  \/ PrepareState \/ PrepareIndex \/ PrepareLedger
  \/ \E text \in Plans : RecordPlanRevision(text)
  \/ RecordPlanPointer
  \/ \E i \in Items : Begin(i)
  \/ \E i \in Items : Fail(i)
  \/ \E i \in Items, p \in Payload : CommitValidate(i, p)
  \/ CommitLedger \/ CommitIndex \/ CommitState
  \/ \E i \in Items : WaiveIndex(i)
  \/ WaiveState
  \/ FinalizeRecover \/ FinalizeSeal \/ FinalizeRefuse
  \/ Crash
  \/ \E d \in Digests : EditRequest(d)

Spec == Init /\ [][Next]_vars
-----------------------------------------------------------------------------
(***************************************************************************)
(* Properties                                                              *)
(***************************************************************************)

IndexedAs(i, s) == \E n \in 1..Len(index[i]) : index[i][n].status = s

(* The large-scene gate (gates.py, _validate_processing and                 *)
(* validate_handoff) on the sealed result: its digest is still that of the  *)
(* artifacts, and state, index and ledger agree item by item.               *)
HandoffValid ==
  /\ sealed = Artifacts
  /\ request = frozen
  /\ IndexLoads
  /\ \A i \in Items :
       /\ i \in Required => status[i] \in Resolved
       /\ status[i] = "completed" <=> IndexedAs(i, "completed")
       /\ IndexedAs(i, "waived") => status[i] = "waived"
       /\ i \in Required /\ status[i] = "waived" => IndexedAs(i, "waived")
       /\ ledger[i] # None <=> IndexedAs(i, "completed")
       /\ ledger[i] # None => /\ ledger[i].request = frozen
                              /\ ledger[i].revision <= pointer
                              /\ \A j \in ledger[i].informedBy :
                                   IndexedAs(j, "completed")

(* An item that a dead process left half committed: the ledger or the       *)
(* index holds it as done and the state does not.                           *)
HalfCommitted(i) ==
  /\ status[i] # "completed"
  /\ \/ ledger[i] # None
     \/ IndexedAs(i, "completed")

(* Whatever died when, a completed item is one whose result was indexed     *)
(* once and whose decision is in the ledger: the order ledger, index, state *)
(* of commit_work_item, and the refusals of begin, waive and commit.        *)
CompletedIsDurable ==
  \A i \in Items : status[i] = "completed" =>
    /\ result[i] # None
    /\ index[i] = <<CompletedEntry(result[i])>>
    /\ ledger[i] # None

(* The decision ledger is sound memory even where the commit was never      *)
(* finished: each entry is for the request that was frozen, cites a plan    *)
(* revision that exists, was informed by completed items only, and no two   *)
(* decisions (nor one) cite each other.                                     *)
LedgerSound ==
  \A i \in Items : ledger[i] # None =>
    /\ ledger[i].request = frozen
    /\ ledger[i].revision <= pointer
    /\ \A r \in 1..ledger[i].revision : plans[r] # None
    /\ \A j \in ledger[i].informedBy :
         status[j] = "completed" /\ i \notin ledger[j].informedBy

(* Decisions can be replayed in an order in which each one finds what it    *)
(* cites already there: among any of them there is one that cites none of   *)
(* the others, so no chain of citations, however long, closes.              *)
CitationsWellFounded ==
  \A S \in SUBSET {i \in Items : ledger[i] # None} :
    S # {} => \E i \in S : ledger[i].informedBy \cap S = {}

(* No item is worked on, or done, before the items its task depends on are  *)
(* resolved, and a resolved item never falls back and strands its           *)
(* dependents (begin_work_item with _dependencies_satisfied).               *)
DependencyOrder ==
  \A i \in Items : status[i] \in {"running", "completed", "failed"} =>
    \A d \in DependsOn[i] : status[d] \in {"completed", "waived"}

(* Only a crash makes the durable files disagree: as long as none has       *)
(* happened and nobody holds the lock, no item is half committed, waivers   *)
(* are in both state and index, and the run is wholly prepared or absent.   *)
AgreeWithoutCrash ==
  crashes = 0 /\ op.pc = "idle" =>
    /\ present \in {{}, RunFiles}
    /\ UniqueEntries
    /\ \A i \in Items : ~HalfCommitted(i)
    /\ \A i \in Items : index[i] = <<WaivedEntry>> <=> status[i] = "waived"
    /\ \A r \in Revisions : plans[r] # None <=> r <= pointer

(* A result that finalize sealed, and nothing changed since, passes the     *)
(* gate unless a crash left an item half committed or a waiver in the index *)
(* only: finalize checks less than the gate, and this is all it misses.     *)
SealPassesGate ==
  (/\ sealed = Artifacts
   /\ request = frozen
   /\ \A i \in Items : ~HalfCommitted(i)
   /\ \A i \in Items : IndexedAs(i, "waived") => status[i] = "waived")
  => HandoffValid

(* A seal never covers a running item that is in the ledger or the index:   *)
(* finalize either completes the interrupted commit or refuses.             *)
SealHasNoInterruptedCommit ==
  sealed # None =>
    \A i \in Items : sealed.status[i] = "running" =>
      sealed.ledger[i] = None /\ sealed.index[i] = <<>>

(* What is committed stays: a completed item is never reopened, replaced or *)
(* waived, no ledger entry is lost or rewritten, and no index entry is      *)
(* removed or replaced (commit_work_item rewrites both files whole).        *)
CommittedStays ==
  [][\A i \in Items :
       /\ status[i] = "completed" =>
            /\ status'[i] = "completed" /\ result'[i] = result[i]
            /\ index'[i] = index[i]
       /\ ledger[i] # None => ledger'[i] = ledger[i]
       /\ \A n \in 1..Len(index[i]) : index'[i][n] = index[i][n]]_vars

(* A plan revision, once written, is never rewritten, also when the process *)
(* died before the pointer moved to it (record_plan).                       *)
PlanRevisionsImmutable ==
  [][\A r \in Revisions : plans[r] # None => plans'[r] = plans[r]]_vars

-----------------------------------------------------------------------------
(***************************************************************************)
(* "Validate and atomically index one completed work item" is what         *)
(* commit_work_item says of its three writes.  Read through the state file *)
(* an item is completed in one step: only then do its index entry and its  *)
(* ledger entry count.                                                     *)
(***************************************************************************)
WorkIn(states) == [i \in Items |-> IF states[i] \in Open THEN "open" ELSE states[i]]
OutcomeIn(states, entries, decisions) ==
  [i \in Items |-> IF states[i] = "completed"
                     THEN [result |-> entries[i][1].result,
                           decision |-> decisions[i]]
                     ELSE None]

Promised == INSTANCE WorkLedger WITH
  plan <- pointer,
  work <- WorkIn(status),
  outcome <- OutcomeIn(status, index, ledger),
  report <- IF sealed = None THEN None
              ELSE [plan |-> sealed.pointer,
                    work |-> WorkIn(sealed.status),
                    outcome |-> OutcomeIn(sealed.status, sealed.index,
                                          sealed.ledger)]

(* Whatever dies between whichever writes, and however a commit is repeated *)
(* or recovered by finalize, a run's files show what a ledger without locks *)
(* and crashes would: an item starts after its dependencies, is completed   *)
(* together with its result and a decision that rests on items completed    *)
(* before it, and a sealed result is one state of that ledger.              *)
ImplementsWorkLedger == Promised!Spec
-----------------------------------------------------------------------------
(***************************************************************************)
(* What the lock protects: while an operation holds it, what it validated  *)
(* stays true up to its last write.  With the invariants above this is     *)
(* inductive.                                                              *)
(***************************************************************************)
PlanPending ==
  /\ \A r \in 1..pointer : plans[r] # None
  /\ op.pc = "planPointer" => pointer < MaxRevision /\ plans[pointer + 1] # None

CommitPending ==
  op.pc \in CommitSteps =>
    /\ present # {}
    /\ status[op.item] \in {"running", "completed"}
    /\ op.payload.request = frozen
    /\ op.payload.revision <= pointer
    /\ \A j \in op.payload.informedBy : status[j] = "completed"
    /\ MatchesIndex(op.item, op.payload) /\ MatchesLedger(op.item, op.payload)
    /\ op.pc # "commitLedger" => ledger[op.item] = EntryOf(op.payload)
    /\ op.pc = "commitState" =>
         index[op.item] = <<CompletedEntry(op.payload.result)>>

WaivePending == op.pc = "waiveState" => status[op.item] \in Open

SealPending ==
  op.pc = "seal" => \A i \in Items : status[i] = "running" =>
    ledger[i] = None /\ index[i] = <<>>

LedgerOnlyInRun == present = {} => \A i \in Items : ledger[i] = None

Inductive ==
  /\ TypeOK
  /\ PlanPending /\ CommitPending /\ WaivePending /\ SealPending
  /\ LedgerOnlyInRun
  /\ CompletedIsDurable /\ LedgerSound /\ DependencyOrder
  /\ SealHasNoInterruptedCommit
-----------------------------------------------------------------------------
(* fail_work_item says that it leaves the item retryable.  A retry produces *)
(* another result and another decision: a commit of them must not collide   *)
(* with what the failed attempt left in index and ledger.                   *)
FailLeavesRetryable ==
  [][\A i \in Items : status[i] = "running" /\ status'[i] = "failed" =>
       \A p \in Payload : MatchesIndex(i, p) /\ MatchesLedger(i, p)]_vars

(* It does so as long as no process died: what collides with the retry is   *)
(* only ever the remains of a commit that a crash interrupted.              *)
RetryableWithoutCrash ==
  [][crashes = 0 => \A i \in Items : status[i] = "running" /\ status'[i] = "failed" =>
       \A p \in Payload : MatchesIndex(i, p) /\ MatchesLedger(i, p)]_vars
=============================================================================
