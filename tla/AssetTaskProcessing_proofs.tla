---------------------- MODULE AssetTaskProcessing_proofs ----------------------
(***************************************************************************)
(* Proofs about AssetTaskProcessing, for every set of items, every         *)
(* dependency relation and every bound.                                    *)
(***************************************************************************)
EXTENDS AssetTaskProcessing, TLAPS

(* An item's index entries after a waiver, a commit or nothing are entries. *)
LEMMA IndexTypes ==
  /\ <<>> \in Seq(IndexEntry)
  /\ \A r \in Results : <<CompletedEntry(r)>> \in Seq(IndexEntry)
  /\ \A s \in Seq(IndexEntry) : Append(s, WaivedEntry) \in Seq(IndexEntry)
<1>1. WaivedEntry \in IndexEntry
  BY DEF WaivedEntry, IndexEntry, Resolved
<1>2. \A r \in Results : CompletedEntry(r) \in IndexEntry
  BY DEF CompletedEntry, IndexEntry, Resolved
<1>3. QED
  BY <1>1, <1>2

(* The ledger entry of a payload is a ledger entry.                         *)
LEMMA EntryType == \A p \in Payload : EntryOf(p) \in LedgerEntry
  BY DEF EntryOf, Payload, LedgerEntry

(* Who may hold the lock.                                                   *)
LEMMA OperationShape ==
  /\ Idle \in Operations
  /\ \A pc \in {"prepareState", "prepareIndex", "prepareLedger", "planPointer",
                "seal"} : Holding(pc, None, None) \in Operations
  /\ \A i \in Items : Holding("waiveState", i, None) \in Operations
  /\ \A pc \in CommitSteps, i \in Items, p \in Payload :
       Holding(pc, i, p) \in Operations
  /\ \A o \in Operations : o.pc = "waiveState" => o.item \in Items
  /\ \A o \in Operations : o.pc \in CommitSteps =>
       /\ o.item \in Items
       /\ o.payload \in Payload
       /\ \A pc \in CommitSteps :
            /\ [o EXCEPT !.pc = pc] = Holding(pc, o.item, o.payload)
            /\ [o EXCEPT !.pc = pc] \in Operations
<1>1. Idle \in Operations
  BY DEF Operations
<1>2. ASSUME NEW pc \in {"prepareState", "prepareIndex", "prepareLedger",
                         "planPointer", "seal"}
      PROVE  Holding(pc, None, None) \in Operations
  BY DEF Operations
<1>3. ASSUME NEW i \in Items PROVE Holding("waiveState", i, None) \in Operations
  BY DEF Operations
<1>4. ASSUME NEW pc \in CommitSteps, NEW i \in Items, NEW p \in Payload
      PROVE  Holding(pc, i, p) \in Operations
  BY DEF Operations
<1>5. ASSUME NEW o \in Operations, o.pc = "waiveState" PROVE o.item \in Items
  BY <1>5 DEF Operations, Holding, Idle, CommitSteps
<1>6. ASSUME NEW o \in Operations, o.pc \in CommitSteps
      PROVE  /\ o.item \in Items
             /\ o.payload \in Payload
             /\ \A pc \in CommitSteps :
                  /\ [o EXCEPT !.pc = pc] = Holding(pc, o.item, o.payload)
                  /\ [o EXCEPT !.pc = pc] \in Operations
  <2>1. PICK pc \in CommitSteps, i \in Items, p \in Payload :
               o = [pc |-> pc, item |-> i, payload |-> p]
    BY <1>6 DEF Operations, Holding, Idle, CommitSteps
  <2>2. \A q \in CommitSteps : [o EXCEPT !.pc = q] = Holding(q, i, p)
    BY <2>1 DEF Holding
  <2>3. o.item = i /\ o.payload = p
    BY <2>1
  <2>4. QED
    BY <2>2, <2>3, <1>4
<1>7. QED
  BY <1>1, <1>2, <1>3, <1>4, <1>5, <1>6

(* Every variable keeps its type, whatever crashes and whoever edits the    *)
(* task requests.                                                           *)
LEMMA TypeStep == TypeOK /\ PlanPending /\ [Next]_vars => TypeOK'
<1> SUFFICES ASSUME TypeOK, PlanPending, [Next]_vars PROVE TypeOK'
  OBVIOUS
<1> USE ConstantsAssumption DEF TypeOK, Lock, Release, stateFile, planFiles
<1>1. ASSUME NEW d \in Digests, PrepareInventory(d) PROVE TypeOK'
  BY <1>1, OperationShape DEF PrepareInventory, RunFiles
<1>2. CASE PrepareState
  BY <1>2, OperationShape DEF PrepareState, PrepareWrite, RunFiles
<1>3. CASE PrepareIndex
  BY <1>3, OperationShape DEF PrepareIndex, PrepareWrite, RunFiles
<1>4. CASE PrepareLedger
  BY <1>4, OperationShape DEF PrepareLedger, PrepareWrite, RunFiles
<1>5. ASSUME NEW text \in Plans, RecordPlanRevision(text) PROVE TypeOK'
  BY <1>5, OperationShape DEF RecordPlanRevision, Revisions
<1>6. CASE RecordPlanPointer
  BY <1>6, OperationShape DEF RecordPlanPointer, PlanPending
<1>7. ASSUME NEW i \in Items, Begin(i) PROVE TypeOK'
  BY <1>7, OperationShape DEF Begin, Statuses
<1>8. ASSUME NEW i \in Items, Fail(i) PROVE TypeOK'
  BY <1>8, OperationShape DEF Fail, Statuses
<1>9. ASSUME NEW i \in Items, NEW p \in Payload, CommitValidate(i, p)
      PROVE TypeOK'
  BY <1>9, OperationShape DEF CommitValidate, CommitSteps
<1>10. CASE CommitLedger
  <2>1. op.item \in Items /\ op.payload \in Payload /\ op' \in Operations
    BY <1>10, OperationShape DEF CommitLedger, CommitSteps
  <2>2. ledger' \in [Items -> LedgerEntry \cup {None}]
    BY <1>10, <2>1, EntryType DEF CommitLedger
  <2>3. QED
    BY <1>10, <2>1, <2>2 DEF CommitLedger
<1>11. CASE CommitIndex
  <2>1. op.item \in Items /\ op.payload \in Payload /\ op' \in Operations
    BY <1>11, OperationShape DEF CommitIndex, CommitSteps
  <2>2. op.payload.result \in Results
    BY <2>1 DEF Payload
  <2>3. index' \in [Items -> Seq(IndexEntry)]
    BY <1>11, <2>1, <2>2, IndexTypes DEF CommitIndex
  <2>4. QED
    BY <1>11, <2>1, <2>3 DEF CommitIndex
<1>12. CASE CommitState
  BY <1>12, OperationShape DEF CommitState, CommitSteps, Payload, Statuses, Resolved
<1>13. ASSUME NEW i \in Items, WaiveIndex(i) PROVE TypeOK'
  BY <1>13, OperationShape, IndexTypes DEF WaiveIndex
<1>14. CASE WaiveState
  BY <1>14, OperationShape DEF WaiveState, Statuses, Resolved
<1>15. CASE FinalizeRecover
  BY <1>15, OperationShape DEF FinalizeRecover, Recoverable, CompletedEntry, Statuses, Resolved
<1>16. CASE FinalizeSeal
  BY <1>16, OperationShape DEF FinalizeSeal, Artifacts, Snapshot
<1>17. CASE FinalizeRefuse
  BY <1>17, OperationShape DEF FinalizeRefuse
<1>18. CASE Crash
  BY <1>18, OperationShape DEF Crash
<1>19. ASSUME NEW d \in Digests, EditRequest(d) PROVE TypeOK'
  BY <1>19, OperationShape DEF EditRequest
<1>20. CASE UNCHANGED vars
  BY <1>20, OperationShape DEF vars
<1>21. QED
  BY <1>1, <1>2, <1>3, <1>4, <1>5, <1>6, <1>7, <1>8, <1>9, <1>10, <1>11,
     <1>12, <1>13, <1>14, <1>15, <1>16, <1>17, <1>18, <1>19, <1>20 DEF Next

(* A plan pointer never moves past the revisions that were written.         *)
LEMMA PlanStep == TypeOK /\ PlanPending /\ [Next]_vars => PlanPending'
<1> SUFFICES ASSUME TypeOK, PlanPending, [Next]_vars PROVE PlanPending'
  OBVIOUS
<1>1. ASSUME UNCHANGED planFiles, op'.pc # "planPointer" \/ op' = op
      PROVE  PlanPending'
  BY <1>1 DEF PlanPending, planFiles
<1>2. ASSUME NEW text \in Plans, RecordPlanRevision(text) PROVE PlanPending'
  BY <1>2, ConstantsAssumption
  DEF RecordPlanRevision, PlanPending, TypeOK, Revisions, Holding
<1>3. CASE RecordPlanPointer
  BY <1>3, ConstantsAssumption
  DEF RecordPlanPointer, PlanPending, TypeOK, Release, Idle
<1>4. CASE (\E d \in Digests : PrepareInventory(d))
           \/ PrepareState \/ PrepareIndex \/ PrepareLedger
  BY <1>1, <1>4 DEF PrepareInventory, PrepareState, PrepareIndex, PrepareLedger,
     PrepareWrite, Holding, Idle
<1>5. CASE \E i \in Items : Begin(i) \/ Fail(i)
  BY <1>1, <1>5 DEF Begin, Fail
<1>6. CASE \E i \in Items, p \in Payload : CommitValidate(i, p)
  BY <1>1, <1>6 DEF CommitValidate, Holding
<1>7. CASE CommitLedger \/ CommitIndex
  <2>1. PICK pc \in CommitSteps : op' = Holding(pc, op.item, op.payload)
    BY <1>7, OperationShape DEF TypeOK, CommitLedger, CommitIndex, CommitSteps
  <2>2. op'.pc # "planPointer"
    BY <2>1 DEF Holding, CommitSteps
  <2>3. QED
    BY <1>1, <1>7, <2>2 DEF CommitLedger, CommitIndex
<1>8. CASE CommitState \/ WaiveState
  BY <1>1, <1>8 DEF CommitState, WaiveState, Release, Idle
<1>9. CASE \E i \in Items : WaiveIndex(i)
  BY <1>1, <1>9 DEF WaiveIndex, Holding
<1>10. CASE FinalizeRecover \/ FinalizeSeal \/ FinalizeRefuse
  BY <1>1, <1>10 DEF FinalizeRecover, FinalizeSeal, FinalizeRefuse, Release,
     Holding, Idle
<1>11. CASE Crash \/ (\E d \in Digests : EditRequest(d)) \/ UNCHANGED vars
  BY <1>1, <1>11 DEF Crash, EditRequest, vars, planFiles, Release, Idle
<1>12. QED
  BY <1>2, <1>3, <1>4, <1>5, <1>6, <1>7, <1>8, <1>9, <1>10, <1>11 DEF Next

(* Type correctness: every file of a run holds what its model declares,     *)
(* in every behaviour of the operations of runtime.py, crashes included.    *)
THEOREM TypeCorrect == Spec => []TypeOK
<1>1. Init => TypeOK /\ PlanPending
  BY ConstantsAssumption, IndexTypes, OperationShape
  DEF Init, TypeOK, PlanPending, Idle, Statuses, RunFiles, Revisions
<1>2. TypeOK /\ PlanPending /\ [Next]_vars => (TypeOK /\ PlanPending)'
  BY TypeStep, PlanStep
<1>3. QED
  BY <1>1, <1>2, PTL DEF Spec

-----------------------------------------------------------------------------
(* Which steps change an item's status, result, index or ledger entry.      *)
LEMMA ItemSteps ==
  [Next]_vars =>
    \/ \E i \in Items : Begin(i) \/ Fail(i) \/ WaiveIndex(i)
    \/ CommitLedger \/ CommitIndex \/ CommitState
    \/ WaiveState
    \/ FinalizeRecover
    \/ UNCHANGED <<status, result, index, ledger>>
<1> SUFFICES ASSUME [Next]_vars
             PROVE  \/ \E i \in Items : Begin(i) \/ Fail(i) \/ WaiveIndex(i)
                    \/ CommitLedger \/ CommitIndex \/ CommitState
                    \/ WaiveState
                    \/ FinalizeRecover
                    \/ UNCHANGED <<status, result, index, ledger>>
  OBVIOUS
<1> USE DEF stateFile
<1>1. CASE (\E d \in Digests : PrepareInventory(d))
           \/ PrepareState \/ PrepareIndex \/ PrepareLedger
  BY <1>1 DEF PrepareInventory, PrepareState, PrepareIndex, PrepareLedger,
     PrepareWrite
<1>2. CASE (\E text \in Plans : RecordPlanRevision(text)) \/ RecordPlanPointer
  BY <1>2 DEF RecordPlanRevision, RecordPlanPointer
<1>3. CASE \E i \in Items, p \in Payload : CommitValidate(i, p)
  BY <1>3 DEF CommitValidate
<1>4. CASE FinalizeSeal \/ FinalizeRefuse \/ Crash
           \/ (\E d \in Digests : EditRequest(d)) \/ UNCHANGED vars
  BY <1>4 DEF FinalizeSeal, FinalizeRefuse, Crash, EditRequest, vars
<1>5. QED
  BY <1>1, <1>2, <1>3, <1>4 DEF Next

(* Files are added to a run and never removed, its frozen digests are       *)
(* written once, its plan only grows.                                       *)
LEMMA MonotoneStep ==
  TypeOK /\ PlanPending /\ [Next]_vars =>
    /\ present \subseteq present'
    /\ present # {} => frozen' = frozen
    /\ pointer <= pointer'
    /\ \A r \in Revisions : plans[r] # None => plans'[r] = plans[r]
<1> SUFFICES ASSUME TypeOK, PlanPending, [Next]_vars
             PROVE  /\ present \subseteq present'
                    /\ present # {} => frozen' = frozen
                    /\ pointer <= pointer'
                    /\ \A r \in Revisions : plans[r] # None => plans'[r] = plans[r]
  OBVIOUS
<1>0. pointer \in Nat
  BY ConstantsAssumption DEF TypeOK
<1>1. CASE \E d \in Digests : PrepareInventory(d)
  BY <1>0, <1>1 DEF PrepareInventory, planFiles
<1>2. CASE PrepareState \/ PrepareIndex \/ PrepareLedger
  BY <1>0, <1>2 DEF PrepareState, PrepareIndex, PrepareLedger, PrepareWrite,
     planFiles
<1>3. CASE \E text \in Plans : RecordPlanRevision(text)
  BY <1>0, <1>3 DEF RecordPlanRevision, TypeOK
<1>4. CASE RecordPlanPointer
  BY <1>0, <1>4 DEF RecordPlanPointer
<1>5. CASE UNCHANGED <<present, frozen, planFiles>>
  BY <1>0, <1>5 DEF planFiles
<1>6. CASE \E i \in Items : Begin(i) \/ Fail(i) \/ WaiveIndex(i)
  BY <1>5, <1>6 DEF Begin, Fail, WaiveIndex
<1>7. CASE \E i \in Items, p \in Payload : CommitValidate(i, p)
  BY <1>5, <1>7 DEF CommitValidate
<1>8. CASE CommitLedger \/ CommitIndex \/ CommitState \/ WaiveState
  BY <1>5, <1>8 DEF CommitLedger, CommitIndex, CommitState, WaiveState
<1>9. CASE FinalizeRecover \/ FinalizeSeal \/ FinalizeRefuse
  BY <1>5, <1>9 DEF FinalizeRecover, FinalizeSeal, FinalizeRefuse
<1>10. CASE Crash \/ (\E d \in Digests : EditRequest(d)) \/ UNCHANGED vars
  BY <1>5, <1>10 DEF Crash, EditRequest, vars, planFiles
<1>11. QED
  BY <1>1, <1>2, <1>3, <1>4, <1>6, <1>7, <1>8, <1>9, <1>10 DEF Next
-----------------------------------------------------------------------------
(* While an operation is between two writes, nobody else writes: the steps  *)
(* after which a commit, a waiver or a seal is pending.                     *)
LEMMA PendingSteps ==
  TypeOK /\ [Next]_vars =>
    \/ op'.pc \notin CommitSteps \cup {"waiveState", "seal"}
    \/ \E i \in Items, p \in Payload : CommitValidate(i, p)
    \/ CommitLedger \/ CommitIndex
    \/ \E i \in Items : WaiveIndex(i)
    \/ FinalizeRecover
    \/ UNCHANGED <<present, frozen, stateFile, index, ledger, planFiles, sealed,
                   op>>
<1> SUFFICES ASSUME TypeOK, [Next]_vars
             PROVE  \/ op'.pc \notin CommitSteps \cup {"waiveState", "seal"}
                    \/ \E i \in Items, p \in Payload : CommitValidate(i, p)
                    \/ CommitLedger \/ CommitIndex
                    \/ \E i \in Items : WaiveIndex(i)
                    \/ FinalizeRecover
                    \/ UNCHANGED <<present, frozen, stateFile, index, ledger,
                                   planFiles, sealed, op>>
  OBVIOUS
<1> USE DEF CommitSteps
<1>1. CASE (\E d \in Digests : PrepareInventory(d))
           \/ PrepareState \/ PrepareIndex \/ PrepareLedger
  BY <1>1 DEF PrepareInventory, PrepareState, PrepareIndex, PrepareLedger,
     PrepareWrite, Holding, Idle
<1>2. CASE (\E text \in Plans : RecordPlanRevision(text)) \/ RecordPlanPointer
  BY <1>2 DEF RecordPlanRevision, RecordPlanPointer, Release, Holding, Idle
<1>3. CASE \E i \in Items : Begin(i) \/ Fail(i)
  BY <1>3 DEF Begin, Fail, Lock
<1>4. CASE CommitState \/ WaiveState \/ FinalizeSeal \/ FinalizeRefuse \/ Crash
  BY <1>4 DEF CommitState, WaiveState, FinalizeSeal, FinalizeRefuse, Crash,
     Release, Idle
<1>5. CASE (\E d \in Digests : EditRequest(d)) \/ UNCHANGED vars
  BY <1>5 DEF EditRequest, vars, stateFile, planFiles
<1>6. QED
  BY <1>1, <1>2, <1>3, <1>4, <1>5 DEF Next

(* A payload's ledger entry is not the absent one.                          *)
LEMMA EntryPresent == \A p \in Payload : EntryOf(p) # None
  BY EntryType, EntryAssumption

(* What commit_work_item validated holds up to its last write.              *)
LEMMA CommitPendingStep == Inductive /\ [Next]_vars => CommitPending'
<1> SUFFICES ASSUME Inductive, [Next]_vars, op'.pc \in CommitSteps
             PROVE  CommitPending'
  BY DEF CommitPending
<1>t. TypeOK /\ CommitPending
  BY DEF Inductive
<1>1. ASSUME NEW i \in Items, NEW p \in Payload, CommitValidate(i, p)
      PROVE  CommitPending'
  BY <1>1 DEF CommitValidate, CommitAccepted, CommitPending, Holding, RunLoads,
     IndexLoads, MatchesIndex, MatchesLedger, CommitSteps, stateFile, planFiles
<1>2. CASE CommitLedger
  <2>1. op.item \in Items /\ op.payload \in Payload
        /\ op' = Holding("commitIndex", op.item, op.payload)
    BY <1>2, <1>t, OperationShape DEF CommitLedger, CommitSteps, TypeOK
  <2>2. op.pc \in CommitSteps
    BY <1>2 DEF CommitLedger, CommitSteps
  <2>3. ledger' = [ledger EXCEPT ![op.item] = EntryOf(op.payload)]
    BY <1>2, <1>t, <2>1, <2>2 DEF CommitLedger, CommitPending, MatchesLedger, TypeOK
  <2>4. ledger'[op.item] = EntryOf(op.payload)
    BY <1>t, <2>1, <2>3 DEF TypeOK
  <2>5. QED
    BY <1>2, <1>t, <2>1, <2>2, <2>4
    DEF CommitLedger, CommitPending, Holding, MatchesIndex, MatchesLedger,
        stateFile, planFiles
<1>3. CASE CommitIndex
  <2>1. op.item \in Items /\ op.payload \in Payload
        /\ op' = Holding("commitState", op.item, op.payload)
    BY <1>3, <1>t, OperationShape DEF CommitIndex, CommitSteps, TypeOK
  <2>2. op.pc \in CommitSteps /\ op.pc # "commitLedger"
    BY <1>3 DEF CommitIndex, CommitSteps
  <2>3. index'[op.item] = <<CompletedEntry(op.payload.result)>>
    BY <1>3, <1>t, <2>1, <2>2 DEF CommitIndex, CommitPending, MatchesIndex, TypeOK
  <2>4. QED
    BY <1>3, <1>t, <2>1, <2>2, <2>3
    DEF CommitIndex, CommitPending, Holding, MatchesIndex, MatchesLedger,
        stateFile, planFiles
<1>4. CASE \E i \in Items : WaiveIndex(i)
  BY <1>4 DEF WaiveIndex, Holding, CommitSteps
<1>5. CASE FinalizeRecover
  BY <1>5 DEF FinalizeRecover, Holding, CommitSteps
<1>6. CASE UNCHANGED <<present, frozen, stateFile, index, ledger, planFiles,
                       sealed, op>>
  BY <1>6, <1>t DEF CommitPending, MatchesIndex, MatchesLedger, stateFile, planFiles
<1>7. QED
  BY <1>t, <1>1, <1>2, <1>3, <1>4, <1>5, <1>6, PendingSteps

(* Nobody touches an item between the two writes of its waiver, nor any     *)
(* running item between the recovery and the seal of finalize.              *)
LEMMA WaiveSealStep ==
  Inductive /\ [Next]_vars => WaivePending' /\ SealPending'
<1> SUFFICES ASSUME Inductive, [Next]_vars,
                    op'.pc \in {"waiveState", "seal"}
             PROVE  WaivePending' /\ SealPending'
  BY DEF WaivePending, SealPending
<1>t. TypeOK /\ WaivePending /\ SealPending
  BY DEF Inductive
<1>1. CASE \E i \in Items, p \in Payload : CommitValidate(i, p)
  BY <1>1 DEF CommitValidate, Holding
<1>2. CASE CommitLedger \/ CommitIndex
  <2>1. PICK pc \in CommitSteps : op' = Holding(pc, op.item, op.payload)
    BY <1>2, <1>t, OperationShape DEF TypeOK, CommitLedger, CommitIndex, CommitSteps
  <2>2. QED
    BY <2>1 DEF Holding, CommitSteps
<1>3. CASE \E i \in Items : WaiveIndex(i)
  BY <1>3 DEF WaiveIndex, Holding, WaivePending, SealPending, stateFile
<1>4. CASE FinalizeRecover
  <2>1. \A i \in Items : status'[i] = "running" =>
          status[i] = "running" /\ ledger[i] = None /\ index[i] = <<>>
    BY <1>4, <1>t DEF FinalizeRecover, Touched, TypeOK
  <2>2. QED
    BY <1>4, <2>1 DEF FinalizeRecover, Holding, WaivePending, SealPending
<1>5. CASE UNCHANGED <<present, frozen, stateFile, index, ledger, planFiles,
                       sealed, op>>
  BY <1>5, <1>t DEF WaivePending, SealPending, stateFile
<1>6. QED
  BY <1>t, <1>1, <1>2, <1>3, <1>4, <1>5, PendingSteps DEF CommitSteps

(* Only finalize writes the sealed result.                                  *)
LEMMA SealWriter == [Next]_vars => FinalizeSeal \/ sealed' = sealed
<1> SUFFICES ASSUME [Next]_vars PROVE FinalizeSeal \/ sealed' = sealed
  OBVIOUS
<1>1. CASE (\E d \in Digests : PrepareInventory(d))
           \/ PrepareState \/ PrepareIndex \/ PrepareLedger
  BY <1>1 DEF PrepareInventory, PrepareState, PrepareIndex, PrepareLedger,
     PrepareWrite
<1>2. CASE (\E text \in Plans : RecordPlanRevision(text)) \/ RecordPlanPointer
  BY <1>2 DEF RecordPlanRevision, RecordPlanPointer
<1>3. CASE \E i \in Items : Begin(i) \/ Fail(i) \/ WaiveIndex(i)
  BY <1>3 DEF Begin, Fail, WaiveIndex
<1>4. CASE \E i \in Items, p \in Payload : CommitValidate(i, p)
  BY <1>4 DEF CommitValidate
<1>5. CASE CommitLedger \/ CommitIndex \/ CommitState \/ WaiveState
  BY <1>5 DEF CommitLedger, CommitIndex, CommitState, WaiveState
<1>6. CASE FinalizeRecover \/ FinalizeRefuse
  BY <1>6 DEF FinalizeRecover, FinalizeRefuse
<1>7. CASE Crash \/ (\E d \in Digests : EditRequest(d)) \/ UNCHANGED vars
  BY <1>7 DEF Crash, EditRequest, vars
<1>8. QED
  BY <1>1, <1>2, <1>3, <1>4, <1>5, <1>6, <1>7 DEF Next

(* The seal records the artifacts of a moment when every interrupted commit *)
(* had been recovered.                                                      *)
LEMMA SealStep == Inductive /\ [Next]_vars => SealHasNoInterruptedCommit'
<1> SUFFICES ASSUME Inductive, [Next]_vars PROVE SealHasNoInterruptedCommit'
  OBVIOUS
<1>1. CASE FinalizeSeal
  BY <1>1 DEF FinalizeSeal, Inductive, SealPending, SealHasNoInterruptedCommit,
     Artifacts
<1>2. CASE sealed' = sealed
  BY <1>2 DEF Inductive, SealHasNoInterruptedCommit
<1>3. QED
  BY <1>1, <1>2, SealWriter
-----------------------------------------------------------------------------
(* What is committed stays: completed items, ledger entries, index entries. *)
LEMMA CommittedStep ==
  Inductive /\ [Next]_vars =>
    \A i \in Items :
      /\ status[i] = "completed" =>
           /\ status'[i] = "completed" /\ result'[i] = result[i]
           /\ index'[i] = index[i]
      /\ ledger[i] # None => ledger'[i] = ledger[i]
      /\ \A n \in 1..Len(index[i]) : index'[i][n] = index[i][n]
<1> DEFINE Stays(i) ==
      /\ status[i] = "completed" =>
           /\ status'[i] = "completed" /\ result'[i] = result[i]
           /\ index'[i] = index[i]
      /\ ledger[i] # None => ledger'[i] = ledger[i]
      /\ \A n \in 1..Len(index[i]) : index'[i][n] = index[i][n]
<1> SUFFICES ASSUME Inductive, [Next]_vars, NEW i \in Items PROVE Stays(i)
  OBVIOUS
<1>t. TypeOK /\ CompletedIsDurable /\ WaivePending
  BY DEF Inductive
<1>o. /\ op.pc = "waiveState" => op.item \in Items
      /\ op.pc \in CommitSteps => op.item \in Items
  BY <1>t, OperationShape DEF TypeOK
<1>1. CASE \E j \in Items : Begin(j) \/ Fail(j)
  BY <1>1, <1>t DEF Begin, Fail, TypeOK, Open
<1>2. CASE \E j \in Items : WaiveIndex(j)
  <2>1. PICK j \in Items : WaiveIndex(j)
    BY <1>2
  <2>2. index[j] \in Seq(IndexEntry) /\ index'[j] = Append(index[j], WaivedEntry)
    BY <1>t, <2>1 DEF WaiveIndex, TypeOK
  <2>3. \A n \in 1..Len(index[j]) : index'[j][n] = index[j][n]
    BY <2>2
  <2>4. i # j => index'[i] = index[i]
    BY <1>t, <2>1 DEF WaiveIndex, TypeOK
  <2>5. QED
    BY <1>t, <2>1, <2>3, <2>4 DEF WaiveIndex, Open, stateFile
<1>3. CASE CommitLedger
  BY <1>3, <1>t, <1>o DEF CommitLedger, CommitSteps, TypeOK, stateFile
<1>4. CASE CommitIndex
  <2>1. op.item \in Items
    BY <1>4, <1>o DEF CommitIndex, CommitSteps
  <2>2. index[i] # <<>> => index'[i] = index[i]
    BY <1>4, <1>t, <2>1 DEF CommitIndex, TypeOK
  <2>3. status[i] = "completed" => index[i] # <<>>
    <3>1. \A e : <<e>> # <<>>
      OBVIOUS
    <3>2. QED
      BY <1>t, <3>1 DEF CompletedIsDurable
  <2>4. \A n \in 1..Len(index[i]) : index'[i][n] = index[i][n]
    BY <2>2
  <2>5. QED
    BY <1>4, <2>2, <2>3, <2>4 DEF CommitIndex, stateFile
<1>5. CASE CommitState
  BY <1>5, <1>t, <1>o DEF CommitState, CommitSteps, TypeOK
<1>6. CASE WaiveState
  BY <1>6, <1>t, <1>o DEF WaiveState, WaivePending, TypeOK, Open
<1>7. CASE FinalizeRecover
  BY <1>7, <1>t DEF FinalizeRecover, Touched, TypeOK
<1>8. CASE UNCHANGED <<status, result, index, ledger>>
  BY <1>8
<1>9. QED
  BY <1>1, <1>2, <1>3, <1>4, <1>5, <1>6, <1>7, <1>8, ItemSteps

(* An item becomes completed only by the last write of its commit, or by    *)
(* finalize when both ledger and index already hold it; it then is durable. *)
LEMMA DurableStep == Inductive /\ [Next]_vars => CompletedIsDurable'
<1> SUFFICES ASSUME Inductive, [Next]_vars, NEW i \in Items,
                    status'[i] = "completed"
             PROVE  /\ result'[i] # None
                    /\ index'[i] = <<CompletedEntry(result'[i])>>
                    /\ ledger'[i] # None
  BY DEF CompletedIsDurable
<1>t. TypeOK /\ CompletedIsDurable /\ CommitPending
  BY DEF Inductive
<1>1. CASE status[i] = "completed"
  BY <1>1, <1>t, CommittedStep DEF CompletedIsDurable
<1>2. CASE status[i] # "completed"
  <2>1. CASE \E j \in Items : Begin(j) \/ Fail(j) \/ WaiveIndex(j)
    BY <1>2, <1>t, <2>1 DEF Begin, Fail, WaiveIndex, stateFile, TypeOK
  <2>2. CASE CommitLedger \/ CommitIndex
    BY <1>2, <2>2 DEF CommitLedger, CommitIndex, stateFile
  <2>3. CASE CommitState
    <3>1. op.item \in Items /\ op.payload \in Payload /\ op.pc \in CommitSteps
      BY <1>t, <2>3, OperationShape DEF CommitState, CommitSteps, TypeOK
    <3>2. op.payload.result \in Results
      BY <3>1 DEF Payload
    <3>3. i = op.item
      BY <1>2, <1>t, <2>3, <3>1 DEF CommitState, TypeOK
    <3>4. result'[i] = op.payload.result
      BY <1>2, <1>t, <2>3, <3>3 DEF CommitState, TypeOK
    <3>5. index[i] = <<CompletedEntry(op.payload.result)>>
          /\ ledger[i] = EntryOf(op.payload)
      BY <1>t, <2>3, <3>1, <3>3 DEF CommitState, CommitPending
    <3>6. ledger[i] # None
      BY <3>1, <3>5, EntryPresent
    <3>7. QED
      BY <2>3, <3>2, <3>4, <3>5, <3>6, ConstantsAssumption DEF CommitState
  <2>4. CASE WaiveState
    BY <1>2, <1>t, <2>4, OperationShape DEF WaiveState, TypeOK
  <2>5. CASE FinalizeRecover
    <3>1. Touched(i) /\ Recoverable(i)
      BY <1>2, <2>5 DEF FinalizeRecover
    <3>2. PICK r \in Results : index[i] = <<CompletedEntry(r)>>
      BY <3>1 DEF Recoverable
    <3>3. result'[i] = index[i][1].result
      BY <2>5, <3>1 DEF FinalizeRecover
    <3>4. result'[i] = r
      BY <3>2, <3>3 DEF CompletedEntry
    <3>5. QED
      BY <2>5, <3>1, <3>2, <3>4, ConstantsAssumption
      DEF FinalizeRecover, Recoverable
  <2>6. CASE UNCHANGED <<status, result, index, ledger>>
    BY <1>2, <2>6
  <2>7. QED
    BY <2>1, <2>2, <2>3, <2>4, <2>5, <2>6, ItemSteps
<1>3. QED
  BY <1>1, <1>2

(* A resolved item stays resolved, and work starts only by begin_work_item. *)
LEMMA DependencyStep == Inductive /\ [Next]_vars => DependencyOrder'
<1> DEFINE Begun(s) == s \in {"running", "completed", "failed"}
<1>t. Inductive => TypeOK /\ DependencyOrder /\ CommitPending /\ WaivePending
  BY DEF Inductive
<1>o. Inductive =>
        /\ op.pc = "waiveState" => op.item \in Items
        /\ op.pc \in CommitSteps => op.item \in Items
  BY <1>t, OperationShape DEF TypeOK
<1>1. ASSUME Inductive, [Next]_vars, NEW d \in Items,
             status[d] \in {"completed", "waived"}
      PROVE  status'[d] \in {"completed", "waived"}
  <2>1. CASE \E j \in Items : Begin(j) \/ Fail(j) \/ WaiveIndex(j)
    BY <1>1, <1>t, <2>1 DEF Begin, Fail, WaiveIndex, stateFile, TypeOK, Open
  <2>2. CASE CommitLedger \/ CommitIndex
    BY <1>1, <2>2 DEF CommitLedger, CommitIndex, stateFile
  <2>3. CASE CommitState \/ WaiveState
    BY <1>1, <1>t, <1>o, <2>3 DEF CommitState, WaiveState, CommitSteps, TypeOK
  <2>4. CASE FinalizeRecover
    BY <1>1, <1>t, <2>4 DEF FinalizeRecover, TypeOK
  <2>5. CASE UNCHANGED <<status, result, index, ledger>>
    BY <1>1, <2>5
  <2>6. QED
    BY <1>1, <2>1, <2>2, <2>3, <2>4, <2>5, ItemSteps
<1>2. ASSUME Inductive, [Next]_vars, NEW i \in Items, Begun(status'[i]),
             ~Begun(status[i])
      PROVE  \A d \in DependsOn[i] : status[d] \in {"completed", "waived"}
  <2>1. CASE \E j \in Items : Begin(j)
    BY <1>2, <1>t, <2>1 DEF Begin, DependenciesSatisfied, Resolved, TypeOK
  <2>2. CASE \E j \in Items : Fail(j) \/ WaiveIndex(j)
    BY <1>2, <1>t, <2>2 DEF Fail, WaiveIndex, stateFile, TypeOK
  <2>3. CASE CommitLedger \/ CommitIndex
    BY <1>2, <2>3 DEF CommitLedger, CommitIndex, stateFile
  <2>4. CASE CommitState
    BY <1>2, <1>t, <1>o, <2>4 DEF CommitState, CommitSteps, CommitPending, TypeOK
  <2>5. CASE WaiveState
    BY <1>2, <1>t, <1>o, <2>5 DEF WaiveState, TypeOK
  <2>6. CASE FinalizeRecover
    BY <1>2, <1>t, <2>6 DEF FinalizeRecover, Touched, TypeOK
  <2>7. CASE UNCHANGED <<status, result, index, ledger>>
    BY <1>2, <2>7
  <2>8. QED
    BY <1>2, <2>1, <2>2, <2>3, <2>4, <2>5, <2>6, <2>7, ItemSteps
<1>3. ASSUME Inductive, [Next]_vars, NEW i \in Items, Begun(status'[i]),
             NEW d \in DependsOn[i]
      PROVE  status'[d] \in {"completed", "waived"}
  <2>1. d \in Items
    BY ConstantsAssumption
  <2>2. status[d] \in {"completed", "waived"}
    BY <1>2, <1>3, <1>t DEF DependencyOrder
  <2>3. QED
    BY <1>1, <1>3, <2>1, <2>2
<1>4. QED
  BY <1>3 DEF DependencyOrder
-----------------------------------------------------------------------------
(* The only new ledger entry a step can make is that of the pending commit. *)
LEMMA NewEntry ==
  ASSUME Inductive, [Next]_vars, NEW i \in Items,
         ledger[i] = None, ledger'[i] # None
  PROVE  /\ op.pc = "commitLedger" /\ op.item = i /\ op.payload \in Payload
         /\ ledger' = [ledger EXCEPT ![i] = EntryOf(op.payload)]
         /\ status' = status
<1>t. TypeOK
  BY DEF Inductive
<1>1. CASE CommitLedger
  <2>1. op.item \in Items /\ op.payload \in Payload
    BY <1>1, <1>t, OperationShape DEF CommitLedger, CommitSteps, TypeOK
  <2>2. op.item = i
    BY <1>1, <1>t, <2>1 DEF CommitLedger, TypeOK
  <2>3. ledger' = [ledger EXCEPT ![i] = EntryOf(op.payload)]
    BY <1>1, <1>t, <2>2 DEF CommitLedger, TypeOK
  <2>4. QED
    BY <1>1, <2>1, <2>2, <2>3 DEF CommitLedger, stateFile
<1>2. CASE ledger' = ledger
  BY <1>2
<1>3. CASE \E j \in Items : Begin(j) \/ Fail(j) \/ WaiveIndex(j)
  BY <1>2, <1>3 DEF Begin, Fail, WaiveIndex
<1>4. CASE CommitIndex \/ CommitState \/ WaiveState \/ FinalizeRecover
  BY <1>2, <1>4 DEF CommitIndex, CommitState, WaiveState, FinalizeRecover
<1>5. QED
  BY <1>1, <1>2, <1>3, <1>4, ItemSteps

(* The ledger of a run that does not exist is empty.                        *)
LEMMA LedgerOnlyInRunStep == Inductive /\ [Next]_vars => LedgerOnlyInRun'
<1> SUFFICES ASSUME Inductive, [Next]_vars, present' = {}, NEW i \in Items,
                    ledger'[i] # None
             PROVE  FALSE
  BY DEF LedgerOnlyInRun
<1>1. TypeOK /\ PlanPending /\ CommitPending /\ LedgerOnlyInRun
  BY DEF Inductive
<1>2. present = {}
  BY <1>1, MonotoneStep
<1>3. ledger[i] = None
  BY <1>1, <1>2 DEF LedgerOnlyInRun
<1>4. op.pc = "commitLedger"
  BY <1>3, NewEntry
<1>5. QED
  BY <1>1, <1>2, <1>4 DEF CommitPending, CommitSteps

(* Decisions are entered for the frozen request, under a written plan       *)
(* revision and informed by completed items, which are never reopened.      *)
LEMMA LedgerSoundStep == Inductive /\ [Next]_vars => LedgerSound'
<1> DEFINE Sound(e) ==
      /\ e.request = frozen
      /\ e.revision \in Revisions /\ e.revision <= pointer
      /\ \A j \in e.informedBy : j \in Items /\ status[j] = "completed"
<1> SUFFICES ASSUME Inductive, [Next]_vars PROVE LedgerSound'
  OBVIOUS
<1>t. /\ TypeOK /\ PlanPending /\ CommitPending /\ LedgerOnlyInRun
      /\ CompletedIsDurable /\ LedgerSound
  BY DEF Inductive
<1>m. /\ present # {} => frozen' = frozen
      /\ pointer \in Nat /\ pointer' \in Nat /\ pointer <= pointer'
      /\ PlanPending'
  BY <1>t, MonotoneStep, PlanStep, TypeStep, ConstantsAssumption DEF TypeOK
<1>1. ASSUME NEW i \in Items, ledger[i] # None
      PROVE  Sound(ledger[i]) /\ ledger'[i] = ledger[i] /\ frozen' = frozen
  <2>1. ledger[i] \in LedgerEntry
    BY <1>1, <1>t DEF TypeOK
  <2>2. ledger[i].revision \in Revisions /\ ledger[i].informedBy \subseteq Items
    BY <2>1 DEF LedgerEntry
  <2>3. QED
    BY <1>1, <1>t, <1>m, <2>2, CommittedStep DEF LedgerSound, LedgerOnlyInRun
<1>2. ASSUME NEW i \in Items, ledger[i] = None, ledger'[i] # None
      PROVE  Sound(ledger'[i]) /\ frozen' = frozen
  <2>1. op.pc = "commitLedger" /\ op.item = i /\ op.payload \in Payload
        /\ ledger'[i] = EntryOf(op.payload)
    BY <1>2, <1>t, NewEntry DEF TypeOK
  <2>2. /\ op.payload.request = frozen /\ op.payload.revision <= pointer
        /\ \A j \in op.payload.informedBy : status[j] = "completed"
        /\ present # {}
    BY <1>t, <2>1 DEF CommitPending, CommitSteps
  <2>3. op.payload.revision \in Revisions /\ op.payload.informedBy \subseteq Items
    BY <2>1 DEF Payload
  <2>4. QED
    BY <1>m, <2>1, <2>2, <2>3 DEF EntryOf
<1>3. ASSUME NEW i \in Items, ledger'[i] # None
      PROVE  Sound(ledger'[i]) /\ frozen' = frozen
  BY <1>1, <1>2, <1>3
<1>4. ASSUME NEW i \in Items, ledger'[i] # None, NEW j \in ledger'[i].informedBy
      PROVE  i \notin ledger'[j].informedBy
  <2>1. j \in Items /\ status[j] = "completed"
    BY <1>3, <1>4
  <2>2. ledger[j] # None /\ ledger'[j] = ledger[j]
    BY <1>1, <1>t, <2>1 DEF CompletedIsDurable
  <2>3. CASE ledger[i] # None
    BY <1>1, <1>4, <1>t, <2>2, <2>3 DEF LedgerSound
  <2>4. CASE ledger[i] = None
    BY <1>1, <1>t, <2>1, <2>2, <2>4 DEF CompletedIsDurable
  <2>5. QED
    BY <2>3, <2>4
<1>5. ASSUME NEW i \in Items, ledger'[i] # None
      PROVE  /\ ledger'[i].request = frozen'
             /\ ledger'[i].revision <= pointer'
             /\ \A r \in 1..ledger'[i].revision : plans'[r] # None
             /\ \A j \in ledger'[i].informedBy : status'[j] = "completed"
  <2>1. Sound(ledger'[i]) /\ frozen' = frozen
    BY <1>3, <1>5
  <2>2. ledger'[i].revision \in Nat /\ ledger'[i].revision <= pointer'
    BY <1>m, <2>1, ConstantsAssumption DEF Revisions
  <2>3. \A r \in 1..ledger'[i].revision : plans'[r] # None
    BY <1>m, <2>2 DEF PlanPending
  <2>4. \A j \in ledger'[i].informedBy : status'[j] = "completed"
    BY <2>1, CommittedStep
  <2>5. QED
    BY <2>1, <2>2, <2>3, <2>4
<1>6. QED
  BY <1>4, <1>5 DEF LedgerSound

-----------------------------------------------------------------------------
(* The inductive invariant: what the lock protects, and the four safety     *)
(* properties that rest on it and on each other.                            *)
THEOREM InductiveHolds == Spec => []Inductive
<1>1. Init => Inductive
  <2> SUFFICES ASSUME Init PROVE Inductive
    OBVIOUS
  <2>1. TypeOK
    BY ConstantsAssumption, IndexTypes, OperationShape
    DEF Init, TypeOK, Statuses, RunFiles, Revisions
  <2>2. PlanPending /\ CommitPending /\ WaivePending /\ SealPending
    BY DEF Init, PlanPending, CommitPending, WaivePending, SealPending, Idle,
       CommitSteps
  <2>3. LedgerOnlyInRun /\ CompletedIsDurable /\ LedgerSound /\ DependencyOrder
        /\ SealHasNoInterruptedCommit
    BY DEF Init, LedgerOnlyInRun, CompletedIsDurable, LedgerSound,
       DependencyOrder, SealHasNoInterruptedCommit
  <2>4. QED
    BY <2>1, <2>2, <2>3 DEF Inductive
<1>2. Inductive /\ [Next]_vars => Inductive'
  <2> SUFFICES ASSUME Inductive, [Next]_vars PROVE Inductive'
    OBVIOUS
  <2>1. TypeOK' /\ PlanPending'
    BY TypeStep, PlanStep DEF Inductive
  <2>2. CommitPending' /\ WaivePending' /\ SealPending' /\ LedgerOnlyInRun'
    BY CommitPendingStep, WaiveSealStep, LedgerOnlyInRunStep
  <2>3. CompletedIsDurable' /\ LedgerSound' /\ DependencyOrder'
        /\ SealHasNoInterruptedCommit'
    BY DurableStep, LedgerSoundStep, DependencyStep, SealStep
  <2>4. QED
    BY <2>1, <2>2, <2>3 DEF Inductive
<1>3. QED
  BY <1>1, <1>2, PTL DEF Spec

(* Whatever dies when, a completed item has one indexed result and a        *)
(* recorded decision (the write order of commit_work_item).                 *)
THEOREM CompletedDurable == Spec => []CompletedIsDurable
<1>1. Inductive => CompletedIsDurable
  BY DEF Inductive
<1>2. QED
  BY <1>1, InductiveHolds, PTL

(* Ledger entries cite completed items, written plan revisions and the      *)
(* frozen request, and never each other (commit_work_item).                 *)
THEOREM LedgerIsSound == Spec => []LedgerSound
<1>1. Inductive => LedgerSound
  BY DEF Inductive
<1>2. QED
  BY <1>1, InductiveHolds, PTL

(* Work never runs ahead of its dependencies (begin_work_item).             *)
THEOREM DependenciesFirst == Spec => []DependencyOrder
<1>1. Inductive => DependencyOrder
  BY DEF Inductive
<1>2. QED
  BY <1>1, InductiveHolds, PTL

(* finalize_processing_run never seals over an interrupted commit.          *)
THEOREM SealsRecovered == Spec => []SealHasNoInterruptedCommit
<1>1. Inductive => SealHasNoInterruptedCommit
  BY DEF Inductive
<1>2. QED
  BY <1>1, InductiveHolds, PTL

(* No operation undoes what an earlier one committed.                       *)
THEOREM CommitsStay == Spec => CommittedStays
<1>1. Inductive /\ [Next]_vars =>
        [\A i \in Items :
           /\ status[i] = "completed" =>
                /\ status'[i] = "completed" /\ result'[i] = result[i]
                /\ index'[i] = index[i]
           /\ ledger[i] # None => ledger'[i] = ledger[i]
           /\ \A n \in 1..Len(index[i]) : index'[i][n] = index[i][n]]_vars
  BY CommittedStep
<1>2. QED
  BY <1>1, InductiveHolds, PTL DEF Spec, CommittedStays

(* No operation rewrites a plan revision (record_plan).                     *)
THEOREM PlansStay == Spec => PlanRevisionsImmutable
<1>1. Inductive /\ [Next]_vars =>
        [\A r \in Revisions : plans[r] # None => plans'[r] = plans[r]]_vars
  BY MonotoneStep DEF Inductive
<1>2. QED
  BY <1>1, InductiveHolds, PTL DEF Spec, PlanRevisionsImmutable
-----------------------------------------------------------------------------
(***************************************************************************)
(* What the gate looks at and the seal does not.                           *)
(***************************************************************************)

(* A waived item has a waived entry: the index is written first.            *)
WaiverIndexed ==
  /\ \A i \in Items : status[i] = "waived" => IndexedAs(i, "waived")
  /\ op.pc = "waiveState" => IndexedAs(op.item, "waived")

(* What finalize has checked of the index and of the required items stays   *)
(* true of what it sealed.                                                  *)
SealChecked ==
  /\ op.pc = "seal" => "index" \in present /\ UniqueEntries
  /\ sealed # None =>
       /\ "index" \in present
       /\ \A i \in Items : Len(sealed.index[i]) <= 1
       /\ \A i \in Required : sealed.status[i] \in Resolved

(* Entries are only appended to an index, so what it says once it says for  *)
(* ever.                                                                    *)
LEMMA IndexedStep ==
  ASSUME Inductive, [Next]_vars, NEW i \in Items, NEW s, IndexedAs(i, s)
  PROVE  IndexedAs(i, s)'
<1>t. TypeOK
  BY DEF Inductive
<1>1. PICK n \in 1..Len(index[i]) : index[i][n].status = s
  BY DEF IndexedAs
<1>2. index'[i][n] = index[i][n]
  BY <1>1, CommittedStep
<1>3. n \in 1..Len(index'[i])
  <2>0. index[i] \in Seq(IndexEntry) /\ Len(index[i]) \in Nat
    BY <1>t DEF TypeOK
  <2>1. CASE \E j \in Items : WaiveIndex(j)
    <3>1. PICK j \in Items : WaiveIndex(j)
      BY <2>1
    <3>2. i # j => index'[i] = index[i]
      BY <1>t, <3>1 DEF WaiveIndex, TypeOK
    <3>3. i = j => index'[i] = Append(index[i], WaivedEntry)
      BY <1>t, <3>1 DEF WaiveIndex, TypeOK
    <3>4. Len(Append(index[i], WaivedEntry)) = Len(index[i]) + 1
      BY <2>0
    <3>5. QED
      BY <1>1, <2>0, <3>2, <3>3, <3>4
  <2>2. CASE CommitIndex
    <3>1. op.item \in Items
      BY <1>t, <2>2, OperationShape DEF CommitIndex, CommitSteps, TypeOK
    <3>2. index[i] # <<>>
      BY <1>1, <2>0
    <3>3. index'[i] = index[i]
      BY <1>t, <2>2, <3>1, <3>2 DEF CommitIndex, TypeOK
    <3>4. QED
      BY <1>1, <3>3
  <2>3. CASE index' = index
    BY <1>1, <2>3
  <2>4. CASE \E j \in Items : Begin(j) \/ Fail(j)
    BY <2>3, <2>4 DEF Begin, Fail
  <2>5. CASE CommitLedger \/ CommitState \/ WaiveState \/ FinalizeRecover
    BY <2>3, <2>5 DEF CommitLedger, CommitState, WaiveState, FinalizeRecover
  <2>6. QED
    BY <2>1, <2>2, <2>3, <2>4, <2>5, ItemSteps
<1>4. QED
  BY <1>1, <1>2, <1>3 DEF IndexedAs

(* waive_work_item writes the index before the state.                       *)
LEMMA WaiverStep == Inductive /\ WaiverIndexed /\ [Next]_vars => WaiverIndexed'
<1> SUFFICES ASSUME Inductive, WaiverIndexed, [Next]_vars PROVE WaiverIndexed'
  OBVIOUS
<1>t. TypeOK
  BY DEF Inductive
<1>1. ASSUME NEW i \in Items, status'[i] = "waived" PROVE IndexedAs(i, "waived")'
  <2>1. CASE status[i] = "waived"
    BY <1>1, <2>1, IndexedStep DEF WaiverIndexed
  <2>2. CASE status[i] # "waived"
    <3>1. CASE \E j \in Items : Begin(j) \/ Fail(j) \/ WaiveIndex(j)
      BY <1>1, <1>t, <2>2, <3>1 DEF Begin, Fail, WaiveIndex, stateFile, TypeOK
    <3>2. CASE CommitLedger \/ CommitIndex
      BY <1>1, <2>2, <3>2 DEF CommitLedger, CommitIndex, stateFile
    <3>3. CASE CommitState
      <4>1. op.item \in Items
        BY <1>t, <3>3, OperationShape DEF CommitState, CommitSteps, TypeOK
      <4>2. QED
        BY <1>1, <1>t, <2>2, <3>3, <4>1 DEF CommitState, TypeOK
    <3>4. CASE WaiveState
      <4>1. op.item \in Items
        BY <1>t, <3>4, OperationShape DEF WaiveState, TypeOK
      <4>2. i = op.item /\ op.pc = "waiveState"
        BY <1>1, <1>t, <2>2, <3>4, <4>1 DEF WaiveState, TypeOK
      <4>3. IndexedAs(i, "waived")
        BY <4>2 DEF WaiverIndexed
      <4>4. QED
        BY <4>3, IndexedStep
    <3>5. CASE FinalizeRecover
      BY <1>1, <1>t, <2>2, <3>5 DEF FinalizeRecover, TypeOK
    <3>6. CASE UNCHANGED <<status, result, index, ledger>>
      BY <1>1, <2>2, <3>6
    <3>7. QED
      BY <3>1, <3>2, <3>3, <3>4, <3>5, <3>6, ItemSteps
  <2>3. QED
    BY <2>1, <2>2
<1>2. ASSUME op'.pc = "waiveState" PROVE IndexedAs(op.item, "waived")'
  <2>1. CASE \E i \in Items : WaiveIndex(i)
    <3>1. PICK i \in Items : WaiveIndex(i)
      BY <2>1
    <3>2. op'.item = i
      BY <3>1 DEF WaiveIndex, Holding
    <3>3. index[i] \in Seq(IndexEntry) /\ index'[i] = Append(index[i], WaivedEntry)
      BY <1>t, <3>1 DEF WaiveIndex, TypeOK
    <3>4. Len(index'[i]) = Len(index[i]) + 1 /\ Len(index[i]) \in Nat
          /\ index'[i][Len(index[i]) + 1] = WaivedEntry
      BY <3>3
    <3>5. WaivedEntry.status = "waived"
      BY DEF WaivedEntry
    <3>6. QED
      BY <3>2, <3>4, <3>5 DEF IndexedAs
  <2>2. CASE UNCHANGED <<present, frozen, stateFile, index, ledger, planFiles,
                         sealed, op>>
    BY <1>2, <2>2 DEF WaiverIndexed, IndexedAs
  <2>3. CASE \E i \in Items, p \in Payload : CommitValidate(i, p)
    BY <1>2, <2>3 DEF CommitValidate, Holding
  <2>4. CASE CommitLedger \/ CommitIndex
    <3>1. PICK pc \in CommitSteps : op' = Holding(pc, op.item, op.payload)
      BY <1>t, <2>4, OperationShape
      DEF TypeOK, CommitLedger, CommitIndex, CommitSteps
    <3>2. QED
      BY <1>2, <3>1 DEF Holding, CommitSteps
  <2>5. CASE FinalizeRecover
    BY <1>2, <2>5 DEF FinalizeRecover, Holding
  <2>6. QED
    BY <1>2, <1>t, <2>1, <2>2, <2>3, <2>4, <2>5, PendingSteps
<1>3. QED
  BY <1>1, <1>2 DEF WaiverIndexed

(* Nobody writes the index between the recovery and the seal of finalize,   *)
(* and no file of a run is ever removed.                                    *)
LEMMA SealCheckedStep == Inductive /\ SealChecked /\ [Next]_vars => SealChecked'
<1> SUFFICES ASSUME Inductive, SealChecked, [Next]_vars PROVE SealChecked'
  OBVIOUS
<1>t. TypeOK /\ PlanPending
  BY DEF Inductive
<1>1. ASSUME op'.pc = "seal" PROVE "index" \in present' /\ UniqueEntries'
  <2>1. CASE \E i \in Items : WaiveIndex(i)
    BY <1>1, <2>1 DEF WaiveIndex, Holding
  <2>2. CASE UNCHANGED <<present, frozen, stateFile, index, ledger, planFiles,
                         sealed, op>>
    BY <1>1, <2>2 DEF SealChecked, UniqueEntries
  <2>3. CASE \E i \in Items, p \in Payload : CommitValidate(i, p)
    BY <1>1, <2>3 DEF CommitValidate, Holding
  <2>4. CASE CommitLedger \/ CommitIndex
    <3>1. PICK pc \in CommitSteps : op' = Holding(pc, op.item, op.payload)
      BY <1>t, <2>4, OperationShape
      DEF TypeOK, CommitLedger, CommitIndex, CommitSteps
    <3>2. QED
      BY <1>1, <3>1 DEF Holding, CommitSteps
  <2>5. CASE FinalizeRecover
    BY <2>5 DEF FinalizeRecover, IndexLoads, UniqueEntries
  <2>6. QED
    BY <1>1, <1>t, <2>1, <2>2, <2>3, <2>4, <2>5, PendingSteps
<1>2. ASSUME sealed' # None
      PROVE  /\ "index" \in present'
             /\ \A i \in Items : Len(sealed'.index[i]) <= 1
             /\ \A i \in Required : sealed'.status[i] \in Resolved
  <2>1. CASE FinalizeSeal
    <3>1. sealed' = Artifacts /\ present' = present
          /\ "index" \in present /\ UniqueEntries /\ RequiredResolved
      BY <2>1 DEF FinalizeSeal, SealChecked
    <3>2. Artifacts.index = index /\ Artifacts.status = status
      BY DEF Artifacts
    <3>3. QED
      BY <3>1, <3>2 DEF UniqueEntries, RequiredResolved
  <2>2. CASE sealed' = sealed
    BY <1>2, <1>t, <2>2, MonotoneStep DEF SealChecked
  <2>3. FinalizeSeal \/ sealed' = sealed
    BY SealWriter
  <2>4. QED
    BY <2>1, <2>2, <2>3
<1>3. QED
  BY <1>1, <1>2 DEF SealChecked

(* What finalize sealed and nothing changed since passes the gate of the    *)
(* coordinator, up to what a crash left: finalize_processing_run against    *)
(* _validate_processing and validate_handoff.                               *)
THEOREM SealsPass == Spec => []SealPassesGate
<1>1. Init => WaiverIndexed /\ SealChecked
  BY DEF Init, WaiverIndexed, SealChecked, Idle
<1>2. Inductive /\ WaiverIndexed /\ SealChecked => SealPassesGate
  <2> SUFFICES ASSUME Inductive, WaiverIndexed, SealChecked,
                      sealed = Artifacts, request = frozen,
                      \A i \in Items : ~HalfCommitted(i),
                      \A i \in Items : IndexedAs(i, "waived") => status[i] = "waived"
               PROVE  HandoffValid
    BY DEF SealPassesGate
  <2>t. TypeOK /\ CompletedIsDurable /\ LedgerSound
    BY DEF Inductive
  <2>1. sealed # None
    <3>1. Artifacts \in Snapshot
      BY <2>t DEF TypeOK, Artifacts, Snapshot
    <3>2. QED
      BY <3>1, SnapshotAssumption
  <2>2. Artifacts.index = index /\ Artifacts.status = status
    BY DEF Artifacts
  <2>3. IndexLoads
    BY <2>1, <2>2 DEF SealChecked, IndexLoads, UniqueEntries
  <2>4. \A i \in Required : status[i] \in Resolved
    BY <2>1, <2>2 DEF SealChecked
  <2>5. ASSUME NEW i \in Items, status[i] = "completed"
        PROVE  IndexedAs(i, "completed") /\ ledger[i] # None
    <3>1. index[i] = <<CompletedEntry(result[i])>> /\ ledger[i] # None
      BY <2>5, <2>t DEF CompletedIsDurable
    <3>2. Len(index[i]) = 1 /\ index[i][1].status = "completed"
      BY <3>1 DEF CompletedEntry
    <3>3. QED
      BY <3>1, <3>2 DEF IndexedAs
  <2>6. \A i \in Items : ledger[i] # None \/ IndexedAs(i, "completed") =>
                           status[i] = "completed"
    BY DEF HalfCommitted
  <2>7. ASSUME NEW i \in Items, ledger[i] # None
        PROVE  /\ ledger[i].request = frozen
               /\ ledger[i].revision <= pointer
               /\ \A j \in ledger[i].informedBy : IndexedAs(j, "completed")
    <3>1. ledger[i] \in LedgerEntry
      BY <2>7, <2>t DEF TypeOK
    <3>2. ledger[i].informedBy \subseteq Items
      BY <3>1 DEF LedgerEntry
    <3>3. QED
      BY <2>5, <2>7, <2>t, <3>2 DEF LedgerSound
  <2>8. QED
    BY <2>3, <2>4, <2>5, <2>6, <2>7 DEF HandoffValid, WaiverIndexed
<1>3. QED
  BY <1>1, <1>2, InductiveHolds, WaiverStep, SealCheckedStep, PTL DEF Spec
-----------------------------------------------------------------------------
(***************************************************************************)
(* What holds as long as nobody crashed, between two writes as well.       *)
(***************************************************************************)

(* An item that nobody commits and that is not completed has no decision,   *)
(* and in the index its waiver or nothing.                                  *)
Settled(i) ==
  IF status[i] = "completed" \/ (op.pc \in CommitSteps /\ op.item = i)
    THEN TRUE
    ELSE /\ ledger[i] = None
         /\ index[i] = IF status[i] = "waived" \/ (op.pc = "waiveState" /\ op.item = i)
                         THEN <<WaivedEntry>> ELSE <<>>

PrepareSteps == {"prepareState", "prepareIndex", "prepareLedger"}

(* The files there are, by how far the preparation is.                      *)
PreparedSoFar ==
  /\ op.pc = "prepareState" => present = {"inventory"}
  /\ op.pc = "prepareIndex" => present = {"inventory", "state"}
  /\ op.pc = "prepareLedger" => present = {"inventory", "state", "index"}
  /\ op.pc \notin PrepareSteps => present \in {{}, RunFiles}

(* The plan revisions there are, by where the pointer is.                   *)
PlannedSoFar ==
  \A r \in Revisions :
    plans[r] # None <=> r <= pointer \/ (op.pc = "planPointer" /\ r = pointer + 1)

InStep ==
  crashes = 0 =>
    /\ PreparedSoFar
    /\ PlannedSoFar
    /\ \A i \in Items : Settled(i)

(* The steps of the operations that write no file of an item, and what they *)
(* leave.                                                                   *)
LEMMA RunSteps ==
  TypeOK /\ [Next]_vars =>
    \/ \E d \in Digests : PrepareInventory(d)
    \/ PrepareState \/ PrepareIndex \/ PrepareLedger
    \/ \E text \in Plans : RecordPlanRevision(text)
    \/ RecordPlanPointer
    \/ /\ UNCHANGED <<present, planFiles>>
       /\ \/ op' = op
          \/ /\ op.pc \notin PrepareSteps \cup {"planPointer"}
             /\ op'.pc \notin PrepareSteps \cup {"planPointer"}
          \/ crashes' # 0
<1> SUFFICES ASSUME TypeOK, [Next]_vars
             PROVE  \/ \E d \in Digests : PrepareInventory(d)
                    \/ PrepareState \/ PrepareIndex \/ PrepareLedger
                    \/ \E text \in Plans : RecordPlanRevision(text)
                    \/ RecordPlanPointer
                    \/ /\ UNCHANGED <<present, planFiles>>
                       /\ \/ op' = op
                          \/ /\ op.pc \notin PrepareSteps \cup {"planPointer"}
                             /\ op'.pc \notin PrepareSteps \cup {"planPointer"}
                          \/ crashes' # 0
  OBVIOUS
<1> USE DEF PrepareSteps
<1>1. CASE \E i \in Items : Begin(i) \/ Fail(i)
  BY <1>1 DEF Begin, Fail
<1>2. CASE \E i \in Items : WaiveIndex(i)
  BY <1>2 DEF WaiveIndex, Holding, Lock
<1>3. CASE \E i \in Items, p \in Payload : CommitValidate(i, p)
  BY <1>3 DEF CommitValidate, Holding, Lock
<1>4. CASE CommitLedger \/ CommitIndex
  <2>1. PICK pc \in CommitSteps : op' = Holding(pc, op.item, op.payload)
    BY <1>4, OperationShape DEF TypeOK, CommitLedger, CommitIndex, CommitSteps
  <2>2. op'.pc \in CommitSteps
    BY <2>1 DEF Holding
  <2>3. QED
    BY <1>4, <2>2 DEF CommitLedger, CommitIndex, CommitSteps
<1>5. CASE CommitState \/ WaiveState
  BY <1>5 DEF CommitState, WaiveState, Release, Idle
<1>6. CASE FinalizeRecover \/ FinalizeSeal \/ FinalizeRefuse
  BY <1>6 DEF FinalizeRecover, FinalizeSeal, FinalizeRefuse, Release, Lock,
     Holding, Idle
<1>7. CASE Crash
  BY <1>7 DEF Crash, TypeOK
<1>8. CASE (\E d \in Digests : EditRequest(d)) \/ UNCHANGED vars
  BY <1>8 DEF EditRequest, vars, planFiles
<1>9. QED
  BY <1>1, <1>2, <1>3, <1>4, <1>5, <1>6, <1>7, <1>8 DEF Next

(* prepare_processing_run and record_plan finish what they began.           *)
LEMMA RunStep ==
  ASSUME Inductive, [Next]_vars, crashes' = 0, PreparedSoFar, PlannedSoFar
  PROVE  PreparedSoFar' /\ PlannedSoFar'
<1>t. TypeOK
  BY DEF Inductive
<1>p. pointer \in Nat /\ pointer <= MaxRevision /\ MaxRevision \in Nat
  BY <1>t, ConstantsAssumption DEF TypeOK
<1>1. CASE \E d \in Digests : PrepareInventory(d)
  BY <1>1 DEF PrepareInventory, PreparedSoFar, PlannedSoFar, PrepareSteps,
     Holding, Lock, planFiles
<1>2. CASE PrepareState
  BY <1>2 DEF PrepareState, PrepareWrite, PreparedSoFar, PlannedSoFar,
     PrepareSteps, Holding, planFiles
<1>3. CASE PrepareIndex
  BY <1>3 DEF PrepareIndex, PrepareWrite, PreparedSoFar, PlannedSoFar,
     PrepareSteps, Holding, planFiles
<1>4. CASE PrepareLedger
  BY <1>4 DEF PrepareLedger, PrepareWrite, PreparedSoFar, PlannedSoFar,
     PrepareSteps, Idle, RunFiles, planFiles
<1>5. ASSUME NEW text \in Plans, RecordPlanRevision(text)
      PROVE  PreparedSoFar' /\ PlannedSoFar'
  <2>1. PreparedSoFar'
    BY <1>5 DEF RecordPlanRevision, PreparedSoFar, PrepareSteps, Holding, Lock
  <2>2. text # None
    BY ConstantsAssumption
  <2>3. \A r \in Revisions : plans'[r] = IF r = pointer + 1 THEN text ELSE plans[r]
    BY <1>5, <1>t DEF RecordPlanRevision, TypeOK
  <2>4. op.pc = "idle" /\ op'.pc = "planPointer" /\ pointer' = pointer
    BY <1>5 DEF RecordPlanRevision, Holding, Lock
  <2>5. QED
    BY <1>p, <2>1, <2>2, <2>3, <2>4 DEF PlannedSoFar, Revisions
<1>6. CASE RecordPlanPointer
  <2>1. op.pc = "planPointer" /\ op'.pc = "idle" /\ pointer' = pointer + 1
        /\ plans' = plans /\ present' = present
    BY <1>6 DEF RecordPlanPointer, Release, Idle
  <2>2. QED
    BY <1>p, <2>1 DEF PreparedSoFar, PlannedSoFar, PrepareSteps, Revisions
<1>7. CASE /\ UNCHANGED <<present, planFiles>>
           /\ \/ op' = op
              \/ /\ op.pc \notin PrepareSteps \cup {"planPointer"}
                 /\ op'.pc \notin PrepareSteps \cup {"planPointer"}
  BY <1>7 DEF PreparedSoFar, PlannedSoFar, PrepareSteps, planFiles
<1>8. QED
  BY <1>t, <1>1, <1>2, <1>3, <1>4, <1>5, <1>6, <1>7, RunSteps

(* A step that changes nothing of the items, nor which of them is being     *)
(* committed or waived, leaves them settled.                                *)
LEMMA SettledStays ==
  ASSUME UNCHANGED <<status, index, ledger>>,
         op' = op \/ (op.pc \notin CommitSteps \cup {"waiveState"}
                      /\ op'.pc \notin CommitSteps \cup {"waiveState"}),
         NEW i \in Items, Settled(i)
  PROVE  Settled(i)'
  BY DEF Settled

(* commit, waive, begin and fail leave every item but theirs as it is, and  *)
(* theirs settled once their last write is done.                            *)
LEMMA SettledStep ==
  ASSUME Inductive, [Next]_vars, crashes' = 0, NEW i \in Items,
         \A j \in Items : Settled(j)
  PROVE  Settled(i)'
<1>t. TypeOK /\ WaivePending
  BY DEF Inductive
<1>1. CASE \E j \in Items : Begin(j) \/ Fail(j)
  BY <1>1, <1>t DEF Begin, Fail, Lock, Open, CommitSteps, Settled, TypeOK
<1>2. CASE \E j \in Items : WaiveIndex(j)
  <2>1. PICK j \in Items : WaiveIndex(j)
    BY <1>2
  <2>2. op.pc = "idle" /\ op'.pc = "waiveState" /\ op'.item = j
        /\ status' = status /\ ledger' = ledger /\ status[j] \in Open
    BY <2>1 DEF WaiveIndex, Lock, Holding, stateFile
  <2>3. CASE i = j
    <3>1. index[j] = <<>> /\ ledger[j] = None
      BY <2>2 DEF Settled, CommitSteps, Open
    <3>2. index'[j] = Append(<<>>, WaivedEntry)
      BY <2>1, <3>1, <1>t DEF WaiveIndex, TypeOK
    <3>3. index'[j] = <<WaivedEntry>>
      BY <3>2
    <3>4. QED
      BY <2>2, <2>3, <3>1, <3>3 DEF Settled, CommitSteps
  <2>4. CASE i # j
    <3>1. index'[i] = index[i]
      BY <2>1, <2>4, <1>t DEF WaiveIndex, TypeOK
    <3>2. QED
      BY <2>2, <2>4, <3>1 DEF Settled, CommitSteps
  <2>5. QED
    BY <2>3, <2>4
<1>3. CASE \E j \in Items, p \in Payload : CommitValidate(j, p)
  BY <1>3 DEF CommitValidate, Lock, Holding, Settled, CommitSteps, stateFile
<1>4. CASE CommitLedger \/ CommitIndex
  <2>1. op.item \in Items /\ op.pc \in CommitSteps
    BY <1>4, <1>t, OperationShape DEF CommitLedger, CommitIndex, CommitSteps, TypeOK
  <2>2. PICK pc \in CommitSteps : op' = Holding(pc, op.item, op.payload)
    BY <1>4, <1>t, OperationShape DEF TypeOK, CommitLedger, CommitIndex, CommitSteps
  <2>3. op'.item = op.item /\ op'.pc \in CommitSteps
    BY <2>2 DEF Holding
  <2>4. i # op.item => index'[i] = index[i] /\ ledger'[i] = ledger[i]
    BY <1>4, <1>t, <2>1 DEF CommitLedger, CommitIndex, TypeOK
  <2>5. status' = status
    BY <1>4 DEF CommitLedger, CommitIndex, stateFile
  <2>6. QED
    BY <2>1, <2>3, <2>4, <2>5 DEF Settled, CommitSteps
<1>5. CASE CommitState
  <2>1. op.item \in Items
    BY <1>5, <1>t, OperationShape DEF CommitState, CommitSteps, TypeOK
  <2>2. QED
    BY <1>5, <1>t, <2>1 DEF CommitState, Release, Idle, Settled, CommitSteps, TypeOK
<1>6. CASE WaiveState
  <2>1. op.item \in Items /\ status[op.item] \in Open
    BY <1>6, <1>t, OperationShape DEF WaiveState, WaivePending, TypeOK
  <2>2. QED
    BY <1>6, <1>t, <2>1
    DEF WaiveState, Release, Idle, Settled, CommitSteps, Open, TypeOK
<1>7. CASE FinalizeRecover
  BY <1>7, <1>t DEF FinalizeRecover, Lock, Holding, Settled, CommitSteps, Touched,
     TypeOK
<1>8. CASE FinalizeSeal \/ FinalizeRefuse
  BY <1>8, SettledStays DEF FinalizeSeal, FinalizeRefuse, Release, Idle, CommitSteps,
     stateFile
<1>9. CASE Crash
  BY <1>9, <1>t DEF Crash, TypeOK
<1>10. CASE (\E d \in Digests : EditRequest(d)) \/ UNCHANGED vars
  BY <1>10, SettledStays DEF EditRequest, vars, stateFile
<1>11. CASE (\E d \in Digests : PrepareInventory(d))
            \/ PrepareState \/ PrepareIndex \/ PrepareLedger
  BY <1>11, SettledStays DEF PrepareInventory, PrepareState, PrepareIndex,
     PrepareLedger, PrepareWrite, Lock, Holding, Idle, CommitSteps, stateFile
<1>12. CASE (\E text \in Plans : RecordPlanRevision(text)) \/ RecordPlanPointer
  BY <1>12, SettledStays DEF RecordPlanRevision, RecordPlanPointer, Lock, Release,
     Holding, Idle, CommitSteps, stateFile
<1>13. QED
  BY <1>1, <1>2, <1>3, <1>4, <1>5, <1>6, <1>7, <1>8, <1>9, <1>10, <1>11, <1>12
  DEF Next

(* A crash is never forgotten.                                              *)
LEMMA CrashesGrow ==
  ASSUME TypeOK, [Next]_vars, crashes' = 0
  PROVE  crashes = 0
<1>1. CASE Crash
  BY <1>1 DEF Crash, TypeOK
<1>2. CASE crashes' = crashes
  BY <1>2
<1>3. Crash \/ crashes' = crashes
  BY DEF Next, vars, PrepareInventory, PrepareState, PrepareIndex, PrepareLedger,
     PrepareWrite, RecordPlanRevision, RecordPlanPointer, Begin, Fail,
     CommitValidate, CommitLedger, CommitIndex, CommitState, WaiveIndex, WaiveState,
     FinalizeRecover, FinalizeSeal, FinalizeRefuse, EditRequest
<1>4. QED
  BY <1>1, <1>2, <1>3

(* Without a crash every operation finishes what it began.                  *)
LEMMA InStepHolds == Spec => []InStep
<1>1. Init => InStep
  BY DEF Init, InStep, PreparedSoFar, PlannedSoFar, Settled, Idle, PrepareSteps,
     CommitSteps, RunFiles, Revisions
<1>2. Inductive /\ InStep /\ [Next]_vars => InStep'
  <2> SUFFICES ASSUME Inductive, InStep, [Next]_vars, crashes' = 0
               PROVE  PreparedSoFar' /\ PlannedSoFar' /\ \A i \in Items : Settled(i)'
    BY DEF InStep
  <2>1. crashes = 0
    BY CrashesGrow DEF Inductive
  <2>2. PreparedSoFar /\ PlannedSoFar /\ \A i \in Items : Settled(i)
    BY <2>1 DEF InStep
  <2>3. PreparedSoFar' /\ PlannedSoFar'
    BY <2>2, RunStep
  <2>4. \A i \in Items : Settled(i)'
    BY <2>2, SettledStep
  <2>5. QED
    BY <2>3, <2>4
<1>3. QED
  BY <1>1, <1>2, InductiveHolds, PTL DEF Spec

(* Only a crash makes the files of a run disagree: every operation of       *)
(* runtime.py that ends leaves state, index, ledger and plan in step.       *)
THEOREM AgreeTogether == Spec => []AgreeWithoutCrash
<1>1. Inductive /\ InStep => AgreeWithoutCrash
  <2> SUFFICES ASSUME Inductive, InStep, crashes = 0, op.pc = "idle"
               PROVE  /\ present \in {{}, RunFiles}
                      /\ UniqueEntries
                      /\ \A i \in Items : ~HalfCommitted(i)
                      /\ \A i \in Items :
                           index[i] = <<WaivedEntry>> <=> status[i] = "waived"
                      /\ \A r \in Revisions : plans[r] # None <=> r <= pointer
    BY DEF AgreeWithoutCrash
  <2>t. CompletedIsDurable
    BY DEF Inductive
  <2>1. present \in {{}, RunFiles}
        /\ \A r \in Revisions : plans[r] # None <=> r <= pointer
    BY DEF InStep, PreparedSoFar, PlannedSoFar, PrepareSteps
  <2>2. ASSUME NEW i \in Items
        PROVE  /\ Len(index[i]) <= 1
               /\ ~HalfCommitted(i)
               /\ index[i] = <<WaivedEntry>> <=> status[i] = "waived"
    <3>1. Settled(i)
      BY DEF InStep
    <3>2. CASE status[i] = "completed"
      <4>1. index[i] = <<CompletedEntry(result[i])>>
        BY <3>2, <2>t DEF CompletedIsDurable
      <4>2. CompletedEntry(result[i]) # WaivedEntry
        BY DEF CompletedEntry, WaivedEntry
      <4>3. Len(index[i]) = 1 /\ index[i][1] = CompletedEntry(result[i])
        BY <4>1
      <4>4. index[i] # <<WaivedEntry>>
        BY <4>2, <4>3
      <4>5. QED
        BY <3>2, <4>3, <4>4 DEF HalfCommitted
    <3>3. CASE status[i] = "waived"
      <4>1. index[i] = <<WaivedEntry>> /\ ledger[i] = None
        BY <3>1, <3>3 DEF Settled, CommitSteps
      <4>2. Len(index[i]) = 1 /\ index[i][1].status = "waived"
        BY <4>1 DEF WaivedEntry
      <4>3. ~IndexedAs(i, "completed")
        BY <4>2 DEF IndexedAs
      <4>4. QED
        BY <3>3, <4>1, <4>2, <4>3 DEF HalfCommitted
    <3>4. CASE status[i] \notin {"completed", "waived"}
      <4>1. index[i] = <<>> /\ ledger[i] = None
        BY <3>1, <3>4 DEF Settled, CommitSteps
      <4>2. Len(index[i]) = 0 /\ index[i] # <<WaivedEntry>>
        BY <4>1
      <4>3. ~IndexedAs(i, "completed")
        BY <4>2 DEF IndexedAs
      <4>4. QED
        BY <3>4, <4>1, <4>2, <4>3 DEF HalfCommitted
    <3>5. QED
      BY <3>2, <3>3, <3>4
  <2>3. QED
    BY <2>1, <2>2 DEF UniqueEntries
<1>2. QED
  BY <1>1, InStepHolds, InductiveHolds, PTL

(* fail_work_item says it leaves the item retryable; it does when nobody    *)
(* crashed, for a retry with any result and any decision.                   *)
THEOREM RetryNeedsNoCrash == Spec => RetryableWithoutCrash
<1>1. Inductive /\ InStep /\ [Next]_vars =>
        [crashes = 0 =>
           \A i \in Items : status[i] = "running" /\ status'[i] = "failed" =>
             \A p \in Payload : MatchesIndex(i, p) /\ MatchesLedger(i, p)]_vars
  <2> SUFFICES ASSUME Inductive, InStep, [Next]_vars, crashes = 0, NEW i \in Items,
                      status[i] = "running", status'[i] = "failed"
               PROVE  index[i] = <<>> /\ ledger[i] = None
    BY DEF MatchesIndex, MatchesLedger
  <2>t. TypeOK /\ WaivePending
    BY DEF Inductive
  <2>1. \E j \in Items : Fail(j)
    BY <2>t, ItemSteps, OperationShape
    DEF Begin, WaiveIndex, CommitLedger, CommitIndex, CommitState, WaiveState,
        FinalizeRecover, CommitSteps, TypeOK, stateFile
  <2>2. op.pc = "idle"
    BY <2>1 DEF Fail, Lock
  <2>3. Settled(i)
    BY DEF InStep
  <2>4. QED
    BY <2>2, <2>3 DEF Settled, CommitSteps
<1>2. QED
  BY <1>1, InStepHolds, InductiveHolds, PTL DEF Spec, RetryableWithoutCrash
-----------------------------------------------------------------------------
(***************************************************************************)
(* The files, read through the state file, implement WorkLedger.           *)
(***************************************************************************)

(* A run has frozen its requests as soon as any of its files exists, and    *)
(* only an operation on such a run holds the lock.                          *)
FrozenWithFiles ==
  /\ present = {} <=> frozen = None
  /\ op.pc # "idle" => frozen # None

(* Files and frozen requests come together, and stay.                       *)
LEMMA FrozenStep ==
  TypeOK /\ FrozenWithFiles /\ [Next]_vars => FrozenWithFiles'
<1> SUFFICES ASSUME TypeOK, FrozenWithFiles, [Next]_vars PROVE FrozenWithFiles'
  OBVIOUS
<1>t. request \in Digests /\ None \notin Digests
  BY ConstantsAssumption DEF TypeOK
<1>0. Idle.pc = "idle"
  BY DEF Idle
<1> USE <1>t, <1>0 DEF FrozenWithFiles, Release, Lock
<1>1. CASE \E d \in Digests : PrepareInventory(d)
  BY <1>1 DEF PrepareInventory
<1>2. CASE PrepareState \/ PrepareIndex \/ PrepareLedger
  BY <1>2 DEF PrepareState, PrepareIndex, PrepareLedger, PrepareWrite
<1>3. CASE (\E text \in Plans : RecordPlanRevision(text)) \/ RecordPlanPointer
  BY <1>3 DEF RecordPlanRevision, RecordPlanPointer, RunLoads
<1>4. CASE \E i \in Items : Begin(i) \/ Fail(i) \/ WaiveIndex(i)
  BY <1>4 DEF Begin, Fail, WaiveIndex, RunLoads
<1>5. CASE \E i \in Items, p \in Payload : CommitValidate(i, p)
  BY <1>5 DEF CommitValidate, CommitAccepted, RunLoads
<1>6. CASE CommitLedger \/ CommitIndex \/ CommitState \/ WaiveState
  BY <1>6 DEF CommitLedger, CommitIndex, CommitState, WaiveState
<1>7. CASE FinalizeRecover \/ FinalizeSeal \/ FinalizeRefuse
  BY <1>7 DEF FinalizeRecover, FinalizeSeal, FinalizeRefuse, RunLoads
<1>8. CASE Crash \/ (\E d \in Digests : EditRequest(d)) \/ UNCHANGED vars
  BY <1>8 DEF Crash, EditRequest, vars
<1>9. QED
  BY <1>1, <1>2, <1>3, <1>4, <1>5, <1>6, <1>7, <1>8 DEF Next

(* What WorkLedger is shown does not change while the status of every item  *)
(* stays: the entries of a completed item are there to stay.                *)
LEMMA SameWork ==
  ASSUME Inductive, [Next]_vars, status' = status
  PROVE  /\ WorkIn(status') = WorkIn(status)
         /\ OutcomeIn(status', index', ledger') = OutcomeIn(status, index, ledger)
<1>1. \A i \in Items : status[i] = "completed" =>
        index'[i] = index[i] /\ ledger'[i] = ledger[i]
  BY CommittedStep DEF Inductive, CompletedIsDurable
<1>2. QED
  BY <1>1 DEF WorkIn, OutcomeIn

(* An item that moves between open, running and waived takes no outcome     *)
(* along.                                                                   *)
LEMMA MovedWork ==
  ASSUME TypeOK, NEW i \in Items, NEW s \in Statuses \ {"completed"},
         status[i] # "completed", status' = [status EXCEPT ![i] = s],
         UNCHANGED <<index, ledger>>
  PROVE  /\ WorkIn(status') =
              [WorkIn(status) EXCEPT ![i] = IF s \in Open THEN "open" ELSE s]
         /\ OutcomeIn(status', index', ledger') = OutcomeIn(status, index, ledger)
<1>1. \A j \in Items : status'[j] = IF j = i THEN s ELSE status[j]
  BY DEF TypeOK
<1>2. WorkIn(status') =
        [WorkIn(status) EXCEPT ![i] = IF s \in Open THEN "open" ELSE s]
  BY <1>1 DEF WorkIn
<1>3. OutcomeIn(status', index', ledger') = OutcomeIn(status, index, ledger)
  BY <1>1 DEF OutcomeIn
<1>4. QED
  BY <1>2, <1>3

(* Completing items that run, are indexed and are in the ledger is          *)
(* completing them in one step.                                             *)
LEMMA CompletedWork ==
  ASSUME Inductive, NEW js \in SUBSET Items,
         \A j \in js :
           /\ status[j] = "running"
           /\ ledger[j] # None
           /\ \E r \in Results : index[j] = <<CompletedEntry(r)>>,
         status' = [i \in Items |-> IF i \in js THEN "completed" ELSE status[i]],
         UNCHANGED <<frozen, pointer, index, ledger, sealed>>
  PROVE  Promised!Complete(js)
<1>t. TypeOK /\ LedgerSound /\ DependencyOrder
  BY DEF Inductive
<1>1. \A j \in js : DependsOn[j] \subseteq Items
  BY ConstantsAssumption
<1>2. \A j \in js : WorkIn(status)[j] = "running"
  BY DEF WorkIn, Open
<1>3. \A j \in js : DependsOn[j] \subseteq Promised!Closed
  BY <1>t, <1>1 DEF DependencyOrder, Promised!Closed, WorkIn, Open
<1>4. WorkIn(status') =
        [i \in Items |-> IF i \in js THEN "completed" ELSE WorkIn(status)[i]]
  BY DEF WorkIn, Open
<1> DEFINE out == OutcomeIn(status', index', ledger')
<1>5. ASSUME NEW j \in js
      PROVE  out[j] \in Promised!Outcome /\ Promised!Grounded(out[j].decision)
  <2>1. PICK r \in Results : index[j] = <<CompletedEntry(r)>>
    OBVIOUS
  <2>2. out[j] = [result |-> r, decision |-> ledger[j]]
    BY <2>1 DEF OutcomeIn, CompletedEntry
  <2>3. ledger[j] \in LedgerEntry
    BY <1>t DEF TypeOK
  <2>4. ledger[j] \in Promised!Decision
    BY <2>3 DEF LedgerEntry, Promised!Decision, Revisions
  <2>5. Promised!Grounded(ledger[j])
    BY <1>t, <2>3 DEF LedgerSound, Promised!Grounded, Promised!Done, WorkIn, Open,
       LedgerEntry
  <2>6. QED
    BY <2>2, <2>4, <2>5 DEF Promised!Outcome
<1>6. \A i \in Items \ js : out[i] = OutcomeIn(status, index, ledger)[i]
  BY DEF OutcomeIn
<1>7. ASSUME NEW i \in Items, status[i] = "completed"
      PROVE  OutcomeIn(status, index, ledger)[i] \in Promised!Outcome
  <2>1. /\ result[i] \in Results /\ ledger[i] \in LedgerEntry
        /\ index[i] = <<CompletedEntry(result[i])>>
    BY <1>7, <1>t DEF Inductive, CompletedIsDurable, TypeOK
  <2>2. OutcomeIn(status, index, ledger)[i] =
          [result |-> result[i], decision |-> ledger[i]]
    BY <1>7, <2>1 DEF OutcomeIn, CompletedEntry
  <2>3. QED
    BY <2>1, <2>2 DEF Promised!Outcome, Promised!Decision, LedgerEntry, Revisions
<1>8. out \in [Items -> Promised!Outcome \cup {None}]
  <2>1. \A i \in Items : out[i] \in Promised!Outcome \cup {None}
    <3>1. \A i \in Items \ js : status[i] # "completed" => out[i] = None
      BY DEF OutcomeIn
    <3>2. QED
      BY <1>5, <1>6, <1>7, <3>1
  <2>2. out = [i \in Items |-> out[i]]
    BY DEF OutcomeIn
  <2>3. QED
    BY <2>1, <2>2
<1>9. \A i \in Items :
        IF i \in js
          THEN out[i] \in Promised!Outcome /\ Promised!Grounded(out[i].decision)
          ELSE out[i] = OutcomeIn(status, index, ledger)[i]
  BY <1>5, <1>6
<1>10. QED
  BY <1>2, <1>3, <1>4, <1>8, <1>9 DEF Promised!Complete

(* Every step of the run is a step of WorkLedger, or none of its business:  *)
(* the writes of one commit but the last, the preparation but its first,    *)
(* what a crash cuts short and what others do to the request files.         *)
LEMMA LedgerStep ==
  Inductive /\ FrozenWithFiles /\ [Next]_vars
    => [Promised!Next]_(Promised!vars)
<1> SUFFICES ASSUME Inductive, FrozenWithFiles, [Next]_vars
             PROVE  Promised!Next \/ UNCHANGED Promised!vars
  OBVIOUS
<1>t. TypeOK /\ TypeOK'
  BY TypeStep DEF Inductive
<1>i. /\ op.pc = "waiveState" => op.item \in Items
      /\ op.pc \in CommitSteps => op.item \in Items /\ op.payload \in Payload
  BY <1>t, OperationShape DEF TypeOK
<1>0. ASSUME status' = status, UNCHANGED <<frozen, pointer, sealed>>
      PROVE  UNCHANGED Promised!vars
  BY <1>0, SameWork DEF Promised!vars
<1>1. ASSUME NEW d \in Digests, PrepareInventory(d)
      PROVE  Promised!Prepare(d)
  BY <1>1, SameWork DEF PrepareInventory, FrozenWithFiles, Promised!Prepare,
     stateFile, planFiles
<1>2. CASE PrepareState \/ PrepareIndex \/ PrepareLedger
  BY <1>0, <1>2 DEF PrepareState, PrepareIndex, PrepareLedger, PrepareWrite,
     stateFile, planFiles
<1>3. CASE \E text \in Plans : RecordPlanRevision(text)
  BY <1>0, <1>3 DEF RecordPlanRevision, stateFile
<1>4. CASE RecordPlanPointer
  <2>1. pointer < MaxRevision
    BY <1>4 DEF RecordPlanPointer, Inductive, PlanPending
  <2>2. Promised!RecordPlan
    BY <1>4, <2>1, SameWork DEF RecordPlanPointer, FrozenWithFiles,
       Promised!RecordPlan, stateFile
  <2>3. QED
    BY <2>2 DEF Promised!Next
<1>5. ASSUME NEW i \in Items, Begin(i) PROVE Promised!Begin(i)
  <2>1. DependsOn[i] \subseteq Promised!Closed
    BY <1>5, ConstantsAssumption DEF Begin, DependenciesSatisfied, Resolved,
       Promised!Closed, WorkIn, Open
  <2>2. WorkIn(status)[i] = "open"
    BY <1>5 DEF Begin, WorkIn
  <2>3. /\ WorkIn(status') = [WorkIn(status) EXCEPT ![i] = "running"]
        /\ OutcomeIn(status', index', ledger') = OutcomeIn(status, index, ledger)
    BY <1>5, <1>t, MovedWork DEF Begin, Open, Statuses
  <2>4. QED
    BY <1>5, <2>1, <2>2, <2>3 DEF Begin, Promised!Begin, Promised!Move, planFiles
<1>6. ASSUME NEW i \in Items, Fail(i) PROVE Promised!Fail(i)
  <2>1. WorkIn(status)[i] = "running"
    BY <1>6 DEF Fail, WorkIn, Open
  <2>2. /\ WorkIn(status') = [WorkIn(status) EXCEPT ![i] = "open"]
        /\ OutcomeIn(status', index', ledger') = OutcomeIn(status, index, ledger)
    BY <1>6, <1>t, MovedWork DEF Fail, Open, Statuses
  <2>3. QED
    BY <1>6, <2>1, <2>2 DEF Fail, Promised!Fail, Promised!Move, planFiles
<1>7. CASE \E i \in Items, p \in Payload : CommitValidate(i, p)
  BY <1>0, <1>7 DEF CommitValidate, stateFile, planFiles
<1>8. CASE CommitLedger \/ CommitIndex
  BY <1>0, <1>8 DEF CommitLedger, CommitIndex, stateFile, planFiles
<1>9. CASE CommitState
  <2>1. /\ op.item \in Items /\ op.payload \in Payload
        /\ status[op.item] \in {"running", "completed"}
        /\ ledger[op.item] = EntryOf(op.payload)
        /\ index[op.item] = <<CompletedEntry(op.payload.result)>>
    BY <1>9, <1>i DEF CommitState, Inductive, CommitPending, CommitSteps
  <2>2. CASE status[op.item] = "completed"
    <3>1. status' = status
      BY <1>9, <1>t, <2>1, <2>2 DEF CommitState, TypeOK
    <3>2. QED
      BY <1>0, <1>9, <3>1 DEF CommitState, planFiles
  <2>3. CASE status[op.item] = "running"
    <3>1. status' = [i \in Items |->
                       IF i \in {op.item} THEN "completed" ELSE status[i]]
      BY <1>9, <1>t, <2>1 DEF CommitState, TypeOK
    <3>2. ledger[op.item] # None
      BY <2>1, EntryPresent
    <3>3. op.payload.result \in Results
      BY <2>1 DEF Payload
    <3>4. Promised!Complete({op.item})
      BY <1>9, <2>1, <2>3, <3>1, <3>2, <3>3, CompletedWork
      DEF CommitState, planFiles
    <3>5. QED
      BY <2>1, <3>4 DEF Promised!Next
  <2>4. QED
    BY <2>1, <2>2, <2>3
<1>10. CASE \E i \in Items : WaiveIndex(i)
  BY <1>0, <1>10 DEF WaiveIndex, stateFile, planFiles
<1>11. CASE WaiveState
  <2>1. op.item \in Items /\ status[op.item] \in Open
    BY <1>11, <1>i DEF WaiveState, Inductive, WaivePending
  <2>2. WorkIn(status)[op.item] = "open"
    BY <2>1 DEF WorkIn
  <2>3. /\ WorkIn(status') = [WorkIn(status) EXCEPT ![op.item] = "waived"]
        /\ OutcomeIn(status', index', ledger') = OutcomeIn(status, index, ledger)
    BY <1>11, <1>t, <2>1, MovedWork DEF WaiveState, Open, Statuses, Resolved
  <2>4. Promised!Waive(op.item)
    BY <1>11, <2>2, <2>3 DEF WaiveState, FrozenWithFiles, Promised!Waive,
       Promised!Move, planFiles
  <2>5. QED
    BY <2>1, <2>4 DEF Promised!Next
<1>12. CASE FinalizeRecover
  <2> DEFINE js == {i \in Items : Touched(i)}
  <2>1. \A j \in js : /\ status[j] = "running"
                      /\ ledger[j] # None
                      /\ \E r \in Results : index[j] = <<CompletedEntry(r)>>
    BY <1>12 DEF FinalizeRecover, Touched, Recoverable
  <2>2. status' = [i \in Items |-> IF i \in js THEN "completed" ELSE status[i]]
    BY <1>12 DEF FinalizeRecover
  <2>3. Promised!Complete(js)
    <3> HIDE DEF js
    <3>1. js \in SUBSET Items
      BY DEF js
    <3>2. QED
      BY <1>12, <2>1, <2>2, <3>1, CompletedWork DEF FinalizeRecover, planFiles
  <2>4. QED
    BY <2>3 DEF Promised!Next
<1>13. CASE FinalizeSeal
  <2>1. Required \subseteq Promised!Closed
    BY <1>13, ConstantsAssumption DEF FinalizeSeal, RequiredResolved, Resolved,
       Promised!Closed, WorkIn, Open
  <2>2. sealed' = Artifacts /\ sealed' # None
    BY <1>13, <1>t, SnapshotAssumption DEF FinalizeSeal, Artifacts, Snapshot, TypeOK
  <2>3. Promised!Seal
    BY <1>13, <2>1, <2>2, SameWork DEF FinalizeSeal, Artifacts, Promised!Seal,
       stateFile, planFiles
  <2>4. QED
    BY <2>3 DEF Promised!Next
<1>14. CASE FinalizeRefuse \/ Crash \/ (\E d \in Digests : EditRequest(d))
            \/ UNCHANGED vars
  BY <1>0, <1>14 DEF FinalizeRefuse, Crash, EditRequest, vars, stateFile, planFiles
<1>15. QED
  BY <1>1, <1>2, <1>3, <1>4, <1>5, <1>6, <1>7, <1>8, <1>9, <1>10, <1>11, <1>12,
     <1>13, <1>14 DEF Next, Promised!Next

(* The run's files implement the ledger without locks, files and crashes:   *)
(* "atomically index one completed work item" (commit_work_item) is true of *)
(* what the state file says, for every crash between its three writes.      *)
THEOREM LedgerImplemented == Spec => ImplementsWorkLedger
<1>1. Init => Promised!Init /\ FrozenWithFiles
  <2> SUFFICES ASSUME Init PROVE Promised!Init /\ FrozenWithFiles
    OBVIOUS
  <2>1. WorkIn(status) = [i \in Items |-> "open"]
    BY DEF Init, WorkIn, Open
  <2>2. OutcomeIn(status, index, ledger) = [i \in Items |-> None]
    BY DEF Init, OutcomeIn
  <2>3. QED
    BY <2>1, <2>2 DEF Init, Promised!Init, FrozenWithFiles, Idle
<1>2. Inductive /\ FrozenWithFiles /\ [Next]_vars => FrozenWithFiles'
  BY FrozenStep DEF Inductive
<1>3. QED
  BY <1>1, <1>2, LedgerStep, InductiveHolds, PTL
  DEF Spec, ImplementsWorkLedger, Promised!Spec
-----------------------------------------------------------------------------
(***************************************************************************)
(* Citations.                                                              *)
(***************************************************************************)

(* A new decision cites completed items, and no decision cites an item that *)
(* is not completed: it cites none that cites it.                           *)
LEMMA CitationsStep ==
  Inductive /\ CitationsWellFounded /\ [Next]_vars => CitationsWellFounded'
<1> SUFFICES ASSUME Inductive, CitationsWellFounded, [Next]_vars,
                    NEW S \in SUBSET {i \in Items : ledger'[i] # None}, S # {}
             PROVE  \E i \in S : ledger'[i].informedBy \cap S = {}
  BY DEF CitationsWellFounded
<1>t. TypeOK /\ CompletedIsDurable /\ LedgerSound
  BY DEF Inductive
<1>1. \A i \in Items : ledger[i] # None => ledger'[i] = ledger[i]
  BY CommittedStep
<1>2. CASE \A i \in S : ledger[i] # None
  <2>1. PICK i \in S : ledger[i].informedBy \cap S = {}
    BY <1>2 DEF CitationsWellFounded
  <2>2. QED
    BY <1>1, <1>2, <2>1
<1>3. ASSUME NEW n \in S, ledger[n] = None
      PROVE  \E i \in S : ledger'[i].informedBy \cap S = {}
  <2>1. /\ op.pc = "commitLedger" /\ op.item = n /\ op.payload \in Payload
        /\ ledger' = [ledger EXCEPT ![n] = EntryOf(op.payload)]
    BY <1>3, NewEntry
  <2>2. \A j \in S \ {n} : ledger[j] # None /\ ledger'[j] = ledger[j]
    BY <1>t, <2>1 DEF TypeOK
  <2>3. /\ ledger'[n].informedBy \subseteq Items
        /\ \A j \in ledger'[n].informedBy : ledger[j] # None
    <3>1. ledger'[n].informedBy = op.payload.informedBy
      BY <1>t, <2>1 DEF TypeOK, EntryOf
    <3>2. \A j \in op.payload.informedBy : status[j] = "completed"
      BY <2>1 DEF Inductive, CommitPending, CommitSteps
    <3>3. op.payload.informedBy \subseteq Items
      BY <2>1 DEF Payload
    <3>4. QED
      BY <1>t, <3>1, <3>2, <3>3 DEF CompletedIsDurable
  <2>4. CASE S = {n}
    BY <1>3, <2>3, <2>4
  <2>5. CASE S # {n}
    <3>1. S \ {n} # {} /\ S \ {n} \in SUBSET {i \in Items : ledger[i] # None}
      BY <2>2, <2>5
    <3>2. PICK i \in S \ {n} : ledger[i].informedBy \cap (S \ {n}) = {}
      BY <3>1 DEF CitationsWellFounded
    <3>3. n \notin ledger[i].informedBy
      <4>1. \A j \in ledger[i].informedBy : status[j] = "completed"
        BY <1>t, <2>2, <3>2 DEF LedgerSound
      <4>2. status[n] # "completed"
        BY <1>3, <1>t DEF CompletedIsDurable
      <4>3. QED
        BY <4>1, <4>2
    <3>4. QED
      BY <2>2, <3>2, <3>3
  <2>6. QED
    BY <2>4, <2>5
<1>4. QED
  BY <1>2, <1>3

(* No chain of citations in the decision ledger closes, however often       *)
(* commits were interrupted and repeated (commit_work_item).                *)
THEOREM CitationsFound == Spec => []CitationsWellFounded
<1>1. Init => CitationsWellFounded
  BY DEF Init, CitationsWellFounded
<1>2. QED
  BY <1>1, CitationsStep, InductiveHolds, PTL DEF Spec
=============================================================================
