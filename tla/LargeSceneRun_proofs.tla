------------------------- MODULE LargeSceneRun_proofs -------------------------
(***************************************************************************)
(* Proofs about LargeSceneRun, for every content of every file and         *)
(* whatever is edited when.                                                *)
(***************************************************************************)
EXTENDS LargeSceneRun, TLAPS

(* The run before it is created, and the shape of its phases.               *)
Shape ==
  /\ DOMAIN phases = Phases
  /\ \A k \in Phases : phases[k].status \in Statuses
  /\ created \in BOOLEAN
  /\ ~created => \A k \in Phases : Status(k) = "pending"

(* Only the phases after the first one that is not completed can be pending *)
(* or invalidated.                                                          *)
Frontier ==
  created =>
    /\ Status(decomposition) \notin {"pending", "invalidated"}
    /\ \A k \in {processing, collection} :
         Status(k - 1) = "completed" => Status(k) \notin {"pending", "invalidated"}

Chain == Shape /\ Frontier /\ InputChain /\ CurrentIsNext

(* The phases are the three of PHASE_ORDER.                                 *)
LEMMA PhasesAre == Phases = {1, 2, 3}
  BY DEF Phases, decomposition, collection

(* The steps that change the run file.                                      *)
LEMMA RunSteps ==
  [Next]_vars =>
    \/ \E s \in Scenes, i \in Inputs, g \in Guidance \cup {None} : CreateRun(s, i, g)
    \/ \E k \in Phases : \/ BeginPhase(k) \/ CompletePhase(k) \/ RejectHandoff(k)
                         \/ FailPhase(k) \/ InvalidateFrom(k)
    \/ \E g \in Guidance : ReviseInstructions(g)
    \/ UNCHANGED runFile
  BY DEF Next, vars, WriteFiles, SealResult, EditSource, runFile

(* The phases keep their shape.                                             *)
LEMMA ShapeStep == Shape /\ [Next]_vars => Shape'
<1> SUFFICES ASSUME Shape, [Next]_vars PROVE Shape'
  OBVIOUS
<1> USE DEF Shape, Status, Statuses, Phase
<1>1. ASSUME NEW s \in Scenes, NEW i \in Inputs, NEW g \in Guidance \cup {None},
             CreateRun(s, i, g)
      PROVE  Shape'
  BY <1>1 DEF CreateRun
<1>2. ASSUME NEW k \in Phases, BeginPhase(k) PROVE Shape'
  BY <1>2 DEF BeginPhase
<1>3. ASSUME NEW k \in Phases, CompletePhase(k) PROVE Shape'
  BY <1>3 DEF CompletePhase, Accepted
<1>4. ASSUME NEW k \in Phases, RejectHandoff(k) PROVE Shape'
  BY <1>4 DEF RejectHandoff
<1>5. ASSUME NEW k \in Phases, FailPhase(k) PROVE Shape'
  BY <1>5 DEF FailPhase
<1>6. ASSUME NEW k \in Phases, InvalidateFrom(k) PROVE Shape'
  BY <1>6 DEF InvalidateFrom, ResetFrom
<1>7. ASSUME NEW g \in Guidance, ReviseInstructions(g) PROVE Shape'
  BY <1>7 DEF ReviseInstructions, ResetFrom
<1>8. CASE UNCHANGED runFile
  BY <1>8 DEF runFile
<1>9. QED
  BY <1>1, <1>2, <1>3, <1>4, <1>5, <1>6, <1>7, <1>8, RunSteps

(* The statuses and digests of the phases stay in line.                     *)
LEMMA ChainStep == Chain /\ [Next]_vars => Chain'
<1> SUFFICES ASSUME Chain, [Next]_vars
             PROVE  Frontier' /\ InputChain' /\ CurrentIsNext'
  BY ShapeStep DEF Chain
<1>s. Shape /\ Frontier /\ InputChain /\ CurrentIsNext /\ Shape'
  BY ShapeStep DEF Chain
<1> DEFINE Claim == Frontier' /\ InputChain' /\ CurrentIsNext'
<1> USE PhasesAre DEF Shape, Frontier, InputChain, CurrentIsNext, Status, Statuses,
        Phase, Done, Completed, decomposition, processing, collection
<1>1. ASSUME NEW s \in Scenes, NEW i \in Inputs, NEW g \in Guidance \cup {None},
             CreateRun(s, i, g)
      PROVE  Claim
  BY <1>1, <1>s DEF CreateRun
<1>2. ASSUME NEW k \in Phases, BeginPhase(k) PROVE Claim
  BY <1>2, <1>s DEF BeginPhase
<1>3. ASSUME NEW k \in Phases, CompletePhase(k) PROVE Claim
  BY <1>3, <1>s DEF CompletePhase, Accepted, Successor
<1>4. ASSUME NEW k \in Phases, RejectHandoff(k) PROVE Claim
  BY <1>4, <1>s DEF RejectHandoff
<1>5. ASSUME NEW k \in Phases, FailPhase(k) PROVE Claim
  BY <1>5, <1>s DEF FailPhase
<1>6. ASSUME NEW k \in Phases, InvalidateFrom(k) PROVE Claim
  BY <1>6, <1>s DEF InvalidateFrom, ResetFrom, InputOf
<1>7. ASSUME NEW g \in Guidance, ReviseInstructions(g) PROVE Claim
  BY <1>7, <1>s DEF ReviseInstructions, ResetFrom
<1>8. CASE UNCHANGED runFile
  BY <1>8, <1>s DEF runFile
<1>9. QED
  BY <1>1, <1>2, <1>3, <1>4, <1>5, <1>6, <1>7, <1>8, RunSteps

(* The statuses and digests of the phases are in line in every state.       *)
THEOREM ChainHolds == Spec => []Chain
<1>1. Init => Chain
  <2> SUFFICES ASSUME Init PROVE Chain
    OBVIOUS
  <2>1. created = FALSE /\ DOMAIN phases = Phases
        /\ \A k \in Phases : phases[k].status = "pending"
    BY DEF Init, Phase
  <2>2. QED
    BY <2>1, PhasesAre
    DEF Chain, Shape, Frontier, InputChain, CurrentIsNext, Status, Statuses,
        processing, collection
<1>2. Chain /\ [Next]_vars => Chain'
  BY ChainStep
<1>3. QED
  BY <1>1, <1>2, PTL DEF Spec

(* A phase that is ready, at work, done or failed has for input what its    *)
(* completed predecessor was accepted with.                                 *)
THEOREM InputsChain == Spec => []InputChain
<1>1. Chain => InputChain
  BY DEF Chain
<1>2. QED
  BY <1>1, ChainHolds, PTL

(* run.current_phase is the first phase that is not completed.              *)
THEOREM CurrentIsRight == Spec => []CurrentIsNext
<1>1. Chain => CurrentIsNext
  BY DEF Chain
<1>2. QED
  BY <1>1, ChainHolds, PTL

-----------------------------------------------------------------------------
(* Every step of the coordinator is one of the pipeline of phases.          *)
LEMMA PipelineStep == Chain /\ [Next]_vars => [Pipeline!Next]_(Pipeline!vars)
<1> SUFFICES ASSUME Chain, [Next]_vars PROVE [Pipeline!Next]_(Pipeline!vars)
  OBVIOUS
<1>s. Shape /\ Frontier /\ InputChain /\ CurrentIsNext
  BY DEF Chain
<1> USE PhasesAre DEF Shape, Frontier, InputChain, Status, Statuses, Phase, Done,
        Completed, Stage, decomposition, processing, collection
<1>1. ASSUME NEW s \in Scenes, NEW i \in Inputs, NEW g \in Guidance \cup {None},
             CreateRun(s, i, g)
      PROVE  Pipeline!Create
  BY <1>1, <1>s DEF CreateRun, Pipeline!Create
<1>2. ASSUME NEW k \in Phases, BeginPhase(k) PROVE Pipeline!Begin
  BY <1>2, <1>s DEF BeginPhase, Pipeline!Begin
<1>3. ASSUME NEW k \in Phases, CompletePhase(k) PROVE Pipeline!Complete
  BY <1>3, <1>s DEF CompletePhase, Accepted, Pipeline!Complete
<1>4. ASSUME NEW k \in Phases, RejectHandoff(k) PROVE Pipeline!Fail
  BY <1>4, <1>s DEF RejectHandoff, Pipeline!Fail
<1>5. ASSUME NEW k \in Phases, FailPhase(k) PROVE Pipeline!Fail
  BY <1>5, <1>s DEF FailPhase, Pipeline!Fail
<1>6. ASSUME NEW k \in Phases, InvalidateFrom(k) PROVE Pipeline!Return(k - 1)
  BY <1>6, <1>s DEF InvalidateFrom, ResetFrom, InputOf, Pipeline!Return
<1>7. ASSUME NEW g \in Guidance, ReviseInstructions(g) PROVE Pipeline!Return(1)
  BY <1>7, <1>s DEF ReviseInstructions, ResetFrom, Pipeline!Return
<1>8. CASE UNCHANGED runFile
  BY <1>8, <1>s DEF runFile, Pipeline!vars
<1>9. \A k \in Phases : k - 1 \in 0..(3 - 1)
  OBVIOUS
<1>10. QED
  BY <1>1, <1>2, <1>3, <1>4, <1>5, <1>6, <1>7, <1>8, <1>9, RunSteps
  DEF Pipeline!Next

(* The coordinator implements the pipeline of phases: strictly in order,    *)
(* one at a time, and going back gives up all that followed.                *)
THEOREM ImplementsPipeline == Spec => PipelineSpec
<1>1. Init => Pipeline!Init
  BY PhasesAre DEF Init, Pipeline!Init, Done, Stage, Completed, Status, Phase,
     decomposition, processing, collection
<1>2. Chain /\ [Next]_vars => [Pipeline!Next]_(Pipeline!vars)
  BY PipelineStep
<1>3. QED
  BY <1>1, <1>2, ChainHolds, PTL DEF Spec, PipelineSpec, Pipeline!Spec

-----------------------------------------------------------------------------
(* What the gate accepted: the digest of the artifacts as they were then.   *)
LEMMA AcceptedFiles ==
  ASSUME NEW k \in Phases, HandoffValid(k)
  PROVE  \A j \in FilesOf[k] : doc[k].output.files[j] = files[j]
  BY DEF HandoffValid, OutputDigest

(* Which files a result covers.                                             *)
LEMMA Covered ==
  /\ decomposition \in FilesOf[decomposition]
  /\ decomposition \in FilesOf[processing]
  /\ processing \in FilesOf[processing]
  BY DEF FilesOf, decomposition, processing, collection

(* The accepted task results follow the instructions of the run.            *)
LEMMA GuidanceStep ==
  Chain /\ GuidanceFollowed /\ [Next]_vars => GuidanceFollowed'
<1> SUFFICES ASSUME Chain, GuidanceFollowed, [Next]_vars PROVE GuidanceFollowed'
  OBVIOUS
<1>s. Shape
  BY DEF Chain
<1> USE PhasesAre DEF Shape, GuidanceFollowed, Status, Phase, decomposition,
        processing, collection
<1>1. ASSUME NEW s \in Scenes, NEW i \in Inputs, NEW g \in Guidance \cup {None},
             CreateRun(s, i, g)
      PROVE  GuidanceFollowed'
  BY <1>1, <1>s DEF CreateRun
<1>2. ASSUME NEW k \in Phases, BeginPhase(k) PROVE GuidanceFollowed'
  BY <1>2, <1>s DEF BeginPhase
<1>3. ASSUME NEW k \in Phases, CompletePhase(k) PROVE GuidanceFollowed'
  <2>1. k = processing /\ guidance # None =>
          doc[k].output.files[processing].about = guidance
    BY <1>3, AcceptedFiles, Covered DEF CompletePhase, HandoffValid
  <2>2. QED
    BY <1>3, <1>s, <2>1 DEF CompletePhase, Accepted
<1>4. ASSUME NEW k \in Phases, RejectHandoff(k) PROVE GuidanceFollowed'
  BY <1>4, <1>s DEF RejectHandoff
<1>5. ASSUME NEW k \in Phases, FailPhase(k) PROVE GuidanceFollowed'
  BY <1>5, <1>s DEF FailPhase
<1>6. ASSUME NEW k \in Phases, InvalidateFrom(k) PROVE GuidanceFollowed'
  BY <1>6, <1>s DEF InvalidateFrom, ResetFrom
<1>7. ASSUME NEW g \in Guidance, ReviseInstructions(g) PROVE GuidanceFollowed'
  BY <1>7, <1>s DEF ReviseInstructions, ResetFrom
<1>8. CASE UNCHANGED runFile
  BY <1>8 DEF runFile
<1>9. QED
  BY <1>1, <1>2, <1>3, <1>4, <1>5, <1>6, <1>7, <1>8, RunSteps

(* However often the instructions are revised, a completed Workflow 2 has   *)
(* followed those the run has.                                              *)
THEOREM GuidanceIsFollowed == Spec => []GuidanceFollowed
<1>1. Init => GuidanceFollowed
  BY PhasesAre DEF Init, GuidanceFollowed, Status, Phase, processing
<1>2. Chain /\ GuidanceFollowed /\ [Next]_vars => GuidanceFollowed'
  BY GuidanceStep
<1>3. QED
  BY <1>1, <1>2, ChainHolds, PTL DEF Spec

(* Workflows 2 and 3 work for the scene the run has frozen.                 *)
LEMMA SceneStep ==
  Chain /\ WorkIsForFrozenScene /\ [Next]_vars => WorkIsForFrozenScene'
<1> SUFFICES ASSUME Chain, WorkIsForFrozenScene, [Next]_vars
             PROVE  WorkIsForFrozenScene'
  OBVIOUS
<1>s. Shape /\ InputChain
  BY DEF Chain
<1> USE PhasesAre DEF Shape, InputChain, WorkIsForFrozenScene, Status, Phase,
        decomposition, processing, collection
<1>1. ASSUME NEW s \in Scenes, NEW i \in Inputs, NEW g \in Guidance \cup {None},
             CreateRun(s, i, g)
      PROVE  WorkIsForFrozenScene'
  BY <1>1, <1>s DEF CreateRun
<1>2. ASSUME NEW k \in Phases, BeginPhase(k) PROVE WorkIsForFrozenScene'
  <2>1. k > 1 => phases[k - 1].output.files[1].about = sourceDigest.scene
    BY <1>2, AcceptedFiles, Covered
    DEF BeginPhase, Prerequisites, HandoffValid, CurrentSource, Source
  <2>2. QED
    BY <1>2, <1>s, <2>1 DEF BeginPhase
<1>3. ASSUME NEW k \in Phases, CompletePhase(k) PROVE WorkIsForFrozenScene'
  BY <1>3, <1>s DEF CompletePhase, Accepted
<1>4. ASSUME NEW k \in Phases, RejectHandoff(k) PROVE WorkIsForFrozenScene'
  BY <1>4, <1>s DEF RejectHandoff
<1>5. ASSUME NEW k \in Phases, FailPhase(k) PROVE WorkIsForFrozenScene'
  BY <1>5, <1>s DEF FailPhase
<1>6. ASSUME NEW k \in Phases, InvalidateFrom(k) PROVE WorkIsForFrozenScene'
  BY <1>6, <1>s DEF InvalidateFrom, ResetFrom
<1>7. ASSUME NEW g \in Guidance, ReviseInstructions(g) PROVE WorkIsForFrozenScene'
  BY <1>7, <1>s DEF ReviseInstructions, ResetFrom
<1>8. CASE UNCHANGED runFile
  BY <1>8 DEF runFile
<1>9. QED
  BY <1>1, <1>2, <1>3, <1>4, <1>5, <1>6, <1>7, <1>8, RunSteps

(* Whatever was edited, restored or sealed again in between, a phase is at  *)
(* work only on manifests of the frozen scene file.                         *)
THEOREM SceneIsFrozen == Spec => []WorkIsForFrozenScene
<1>1. Init => WorkIsForFrozenScene
  <2> SUFFICES ASSUME Init PROVE WorkIsForFrozenScene
    OBVIOUS
  <2>1. \A k \in Phases : phases[k].status = "pending"
    BY DEF Init, Phase
  <2>2. QED
    BY <2>1, PhasesAre DEF WorkIsForFrozenScene, Status, processing, collection
<1>2. Chain /\ WorkIsForFrozenScene /\ [Next]_vars => WorkIsForFrozenScene'
  BY SceneStep
<1>3. QED
  BY <1>1, <1>2, ChainHolds, PTL DEF Spec

(* An accepted result is replaced only by going back.                       *)
LEMMA AcceptedStep ==
  Chain /\ [Next]_vars =>
    \A k \in Phases : phases'[k].status = "completed" =>
      \/ phases'[k] = phases[k]
      \/ Status(k) = "running" /\ phases'[k].input = phases[k].input
<1> SUFFICES ASSUME Chain, [Next]_vars, NEW j \in Phases,
                    phases'[j].status = "completed"
             PROVE  \/ phases'[j] = phases[j]
                    \/ Status(j) = "running" /\ phases'[j].input = phases[j].input
  OBVIOUS
<1>s. DOMAIN phases = Phases
  BY DEF Chain, Shape
<1> USE DEF Status, Phase
<1>1. CASE \E s \in Scenes, i \in Inputs, g \in Guidance \cup {None} :
             CreateRun(s, i, g)
  BY <1>1, <1>s DEF CreateRun
<1>2. CASE \E k \in Phases : BeginPhase(k) \/ RejectHandoff(k) \/ FailPhase(k)
  BY <1>2, <1>s DEF BeginPhase, RejectHandoff, FailPhase
<1>3. CASE \E k \in Phases : CompletePhase(k)
  BY <1>3, <1>s DEF CompletePhase, Accepted
<1>4. CASE (\E k \in Phases : InvalidateFrom(k))
           \/ (\E g \in Guidance : ReviseInstructions(g))
  BY <1>4, <1>s DEF InvalidateFrom, ReviseInstructions, ResetFrom
<1>5. CASE UNCHANGED runFile
  BY <1>5 DEF runFile
<1>6. QED
  BY <1>1, <1>2, <1>3, <1>4, <1>5, RunSteps

(* An output digest, once accepted, is an identity.                         *)
THEOREM AcceptedIsKept == Spec => AcceptedStays
<1>1. Chain /\ [Next]_vars =>
        [\A k \in Phases : phases'[k].status = "completed" =>
           \/ phases'[k] = phases[k]
           \/ Status(k) = "running" /\ phases'[k].input = phases[k].input]_vars
  BY AcceptedStep
<1>2. QED
  BY <1>1, ChainHolds, PTL DEF Spec, AcceptedStays

-----------------------------------------------------------------------------
(* Runs whose instructions are revised only while the layers and request    *)
(* artifacts are as frozen, which revise_additional_instructions does not   *)
(* check (_verify_source_inputs is not among its calls).                    *)
CarefulNext ==
  /\ Next
  /\ \A g \in Guidance : ReviseInstructions(g) => inputs = sourceDigest.inputs
CarefulSpec == Init /\ [][CarefulNext]_vars

(* The decomposition is of the inputs the run has frozen.                   *)
DecompositionIsCurrent ==
  created => phases[decomposition].input.inputs = sourceDigest.inputs

(* No operation but a careless revision parts the two.                      *)
LEMMA CurrentStep ==
  Chain /\ DecompositionIsCurrent /\ [CarefulNext]_vars => DecompositionIsCurrent'
<1> SUFFICES ASSUME Chain, DecompositionIsCurrent, [CarefulNext]_vars
             PROVE  DecompositionIsCurrent'
  OBVIOUS
<1>s. Shape
  BY DEF Chain
<1>n. [Next]_vars
  BY DEF CarefulNext
<1> USE PhasesAre DEF Shape, DecompositionIsCurrent, Phase, decomposition,
        processing, collection
<1>1. ASSUME NEW s \in Scenes, NEW i \in Inputs, NEW g \in Guidance \cup {None},
             CreateRun(s, i, g)
      PROVE  DecompositionIsCurrent'
  BY <1>1, <1>s DEF CreateRun
<1>2. ASSUME NEW k \in Phases, BeginPhase(k) PROVE DecompositionIsCurrent'
  BY <1>2, <1>s DEF BeginPhase
<1>3. ASSUME NEW k \in Phases, CompletePhase(k) PROVE DecompositionIsCurrent'
  BY <1>3, <1>s DEF CompletePhase, Accepted
<1>4. ASSUME NEW k \in Phases, RejectHandoff(k) PROVE DecompositionIsCurrent'
  BY <1>4, <1>s DEF RejectHandoff
<1>5. ASSUME NEW k \in Phases, FailPhase(k) PROVE DecompositionIsCurrent'
  BY <1>5, <1>s DEF FailPhase
<1>6. ASSUME NEW k \in Phases, InvalidateFrom(k) PROVE DecompositionIsCurrent'
  BY <1>6, <1>s DEF InvalidateFrom, ResetFrom, InputOf, CurrentSource, Source
<1>7. ASSUME NEW g \in Guidance, ReviseInstructions(g) PROVE DecompositionIsCurrent'
  <2>1. inputs = sourceDigest.inputs
    <3>1. CASE CarefulNext
      BY <1>7, <3>1 DEF CarefulNext
    <3>2. CASE UNCHANGED vars
      BY <1>7, <3>2 DEF ReviseInstructions, vars, runFile
    <3>3. QED
      BY <3>1, <3>2
  <2>2. QED
    BY <1>7, <1>s, <2>1 DEF ReviseInstructions, ResetFrom, Source
<1>8. CASE UNCHANGED runFile
  BY <1>8 DEF runFile
<1>9. QED
  BY <1>1, <1>2, <1>3, <1>4, <1>5, <1>6, <1>7, <1>8, <1>n, RunSteps

(* As long as no revision meets edited inputs, Workflows 2 and 3 work on a  *)
(* decomposition of the inputs the run has frozen: the revision is the only *)
(* way to what the run large_scene_inputs finds, and a check of the frozen  *)
(* inputs in it would be enough.                                            *)
THEOREM OnlyRevisionsPart == CarefulSpec => []WorkIsForFrozenInputs
<1>1. Init => Chain /\ DecompositionIsCurrent
  <2> SUFFICES ASSUME Init PROVE Chain /\ DecompositionIsCurrent
    OBVIOUS
  <2>1. created = FALSE /\ DOMAIN phases = Phases
        /\ \A k \in Phases : phases[k].status = "pending"
    BY DEF Init, Phase
  <2>2. QED
    BY <2>1, PhasesAre
    DEF Chain, Shape, Frontier, InputChain, CurrentIsNext, Status, Statuses,
        processing, collection, DecompositionIsCurrent
<1>2. Chain /\ [CarefulNext]_vars => Chain'
  BY ChainStep DEF CarefulNext
<1>3. Chain /\ DecompositionIsCurrent /\ [CarefulNext]_vars => DecompositionIsCurrent'
  BY CurrentStep
<1>4. Chain /\ DecompositionIsCurrent => WorkIsForFrozenInputs
  BY PhasesAre DEF Chain, Shape, DecompositionIsCurrent, WorkIsForFrozenInputs,
     Status, processing, collection
<1>5. QED
  BY <1>1, <1>2, <1>3, <1>4, PTL DEF CarefulSpec

-----------------------------------------------------------------------------
(* The run file and the disk the gate reads, apart from the phases.         *)
Disk ==
  /\ guidance \in Guidance \cup {None}
  /\ current \in Phases \cup {None}
  /\ scene \in Scenes /\ inputs \in Inputs
  /\ files \in [Phases -> [text: Texts, about: Scenes \cup Guidance \cup {None}] \cup {None}]
  /\ DOMAIN doc = Phases
  /\ edits \in 0..MaxEdits

(* Whoever writes them, they keep their types.                              *)
LEMMA DiskStep == Disk /\ [Next]_vars => Disk'
<1> SUFFICES ASSUME Disk, [Next]_vars PROVE Disk'
  OBVIOUS
<1> USE PhasesAre DEF Disk
<1>1. ASSUME NEW s \in Scenes, NEW i \in Inputs, NEW g \in Guidance \cup {None},
             CreateRun(s, i, g)
      PROVE  Disk'
  BY <1>1 DEF CreateRun, disk, decomposition
<1>2. ASSUME NEW k \in Phases, CompletePhase(k) PROVE Disk'
  BY <1>2 DEF CompletePhase, Successor, disk, collection
<1>3. ASSUME NEW k \in Phases,
             BeginPhase(k) \/ RejectHandoff(k) \/ FailPhase(k) \/ InvalidateFrom(k)
      PROVE  Disk'
  BY <1>3 DEF BeginPhase, RejectHandoff, FailPhase, InvalidateFrom, disk
<1>4. ASSUME NEW g \in Guidance, ReviseInstructions(g) PROVE Disk'
  BY <1>4 DEF ReviseInstructions, disk, processing
<1>5. ASSUME NEW k \in Phases, NEW t \in Texts, WriteFiles(k, t) PROVE Disk'
  <2>1. About[k] \in Scenes \cup Guidance \cup {None}
    BY DEF About
  <2>2. edits' \in 0..MaxEdits
    BY <1>5, RunAssumption DEF WriteFiles
  <2>3. files' \in [Phases -> [text: Texts, about: Scenes \cup Guidance \cup {None}] \cup {None}]
    BY <1>5, <2>1 DEF WriteFiles
  <2>4. QED
    BY <1>5, <2>2, <2>3 DEF WriteFiles, runFile
<1>6. ASSUME NEW k \in Phases, NEW passed \in BOOLEAN, SealResult(k, passed) PROVE Disk'
  BY <1>6 DEF SealResult, runFile
<1>7. ASSUME NEW s \in Scenes, NEW i \in Inputs, EditSource(s, i) PROVE Disk'
  BY <1>7, RunAssumption DEF EditSource, runFile
<1>8. CASE UNCHANGED vars
  BY <1>8 DEF vars, runFile, disk
<1>9. QED
  BY <1>1, <1>2, <1>3, <1>4, <1>5, <1>6, <1>7, <1>8 DEF Next

(* The run file, the artifacts and the result documents keep their types,   *)
(* for any scenes, instructions and number of edits.                        *)
THEOREM TypeCorrect == Spec => []TypeOK
<1>1. Init => Disk
  BY RunAssumption DEF Init, Disk
<1>2. Disk /\ [Next]_vars => Disk'
  BY DiskStep
<1>3. Disk /\ Chain => TypeOK
  BY DEF Disk, Chain, Shape, TypeOK
<1>4. QED
  BY <1>1, <1>2, <1>3, ChainHolds, PTL DEF Spec
=============================================================================
