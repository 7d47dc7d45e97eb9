---------------------------- MODULE LargeSceneRun ----------------------------
(***************************************************************************)
(* The coordinator of a large-scene run (large_scene/state.py): one file,  *)
(* large_scene_run.json, that says how far each of the three workflows is. *)
(*                                                                         *)
(* Every operation takes the file lock, loads the file, checks, and        *)
(* replaces it whole, so it is one action, and a crash leaves the file of  *)
(* before or of after.  What the lock does not protect is everything the   *)
(* gate reads: the source scene, the artifacts of the phases and their     *)
(* result documents, which agents write, and anybody may edit, at any      *)
(* time.  A digest is modelled as what it is computed from.                *)
(***************************************************************************)
EXTENDS Naturals

CONSTANTS
  Scenes,     (* contents of the root file of the source scene              *)
  Inputs,     (* contents of its other layers and of the request artifacts  *)
  Guidance,   (* texts of additional instructions                           *)
  Texts,      (* contents of the artifacts of a phase                       *)
  MaxEdits,   (* bound on the files written outside the coordinator         *)
  None        (* no digest, no document, no artifact, no instructions       *)

ASSUME RunAssumption == MaxEdits \in Nat

decomposition == 1
processing == 2
collection == 3
Phases == decomposition..collection

VARIABLES
  created,       (* the run file exists                                     *)
  guidance,      (* run.additional_instructions                             *)
  sourceDigest,  (* run.source_input_digest                                 *)
  phases,        (* run.phases                                              *)
  current,       (* run.current_phase                                       *)
  scene, inputs, (* the source on disk                                      *)
  files,         (* the artifacts of each phase on disk                     *)
  doc,           (* the result document of each phase on disk               *)
  edits

runFile == <<created, guidance, sourceDigest, phases, current>>
disk == <<scene, inputs, files, doc, edits>>
vars == <<runFile, disk>>

Statuses == {"pending", "ready", "running", "completed", "failed", "invalidated"}
Phase(status, input, output) ==
  [status |-> status, input |-> input, output |-> output]

Source(s, i, g) == [scene |-> s, inputs |-> i, guidance |-> g]
CurrentSource == Source(scene, inputs, guidance)

(* What a sealed result covers besides its own claims: the files of these   *)
(* phases and the result documents of those.  The gate insists on it        *)
(* (_require_artifact).                                                     *)
FilesOf == <<{decomposition}, {decomposition, processing}, {processing, collection}>>
ResultsOf == <<{}, {}, {processing}>>

OutputDigest(k, input, passed) ==
  [input |-> input, passed |-> passed,
   files |-> [j \in FilesOf[k] |-> files[j]],
   results |-> [j \in ResultsOf[k] |-> doc[j]]]
-----------------------------------------------------------------------------
TypeOK ==
  /\ created \in BOOLEAN
  /\ guidance \in Guidance \cup {None}
  /\ DOMAIN phases = Phases
  /\ \A k \in Phases : phases[k].status \in Statuses
  /\ current \in Phases \cup {None}
  /\ scene \in Scenes /\ inputs \in Inputs
  /\ files \in [Phases -> [text: Texts, about: Scenes \cup Guidance \cup {None}]
                            \cup {None}]
  /\ DOMAIN doc = Phases
  /\ edits \in 0..MaxEdits

Init ==
  /\ created = FALSE
  /\ guidance = None
  /\ sourceDigest = None
  /\ phases = [k \in Phases |-> Phase("pending", None, None)]
  /\ current = None
  /\ scene \in Scenes /\ inputs \in Inputs
  /\ files = [k \in Phases |-> None]
  /\ doc = [k \in Phases |-> None]
  /\ edits = 0
-----------------------------------------------------------------------------
(***************************************************************************)
(* validate_handoff: the document of a phase is for the input the phase    *)
(* has, reports success, and its digest is that of the artifacts as they   *)
(* are now.  The manifest catalog must be that of the scene as it is now,  *)
(* and the task requests must carry the instructions of the run.           *)
(***************************************************************************)
\* Fault: the task requests may carry other instructions.
HandoffOfAnyGuidance(k) ==
  /\ doc[k] # None
  /\ doc[k].input = phases[k].input
  /\ doc[k].passed
  /\ doc[k].output = OutputDigest(k, doc[k].input, doc[k].passed)
  /\ k \in {decomposition, processing} => files[decomposition].about = scene

HandoffValid(k) ==
  /\ doc[k] # None
  /\ doc[k].input = phases[k].input
  /\ doc[k].passed
  /\ doc[k].output = OutputDigest(k, doc[k].input, doc[k].passed)
  /\ k \in {decomposition, processing} => files[decomposition].about = scene
  /\ k = processing /\ guidance # None => files[processing].about = guidance

(* create_run digested the source before it took the lock.                  *)
CreateRun(s, i, g) ==
  /\ ~created
  /\ created' = TRUE
  /\ guidance' = g
  /\ sourceDigest' = Source(s, i, g)
  /\ phases' = [phases EXCEPT
                  ![decomposition] = Phase("ready", Source(s, i, g), None)]
  /\ current' = decomposition
  /\ UNCHANGED disk

(* _verify_prerequisites                                                    *)
PredecessorAccepted(k) ==  \* fault: the source is not verified
  /\ k = decomposition => phases[k].input = CurrentSource
  /\ k > decomposition =>
       /\ phases[k - 1].status = "completed"
       /\ phases[k].input = phases[k - 1].output
       /\ HandoffValid(k - 1)
       /\ doc[k - 1].output = phases[k - 1].output

Prerequisites(k) ==
  /\ sourceDigest = CurrentSource
  /\ k = decomposition => phases[k].input = CurrentSource
  /\ k > decomposition =>
       /\ phases[k - 1].status = "completed"
       /\ phases[k].input = phases[k - 1].output
       /\ HandoffValid(k - 1)
       /\ doc[k - 1].output = phases[k - 1].output

BeginPhase(k) ==
  /\ created
  /\ phases[k].status = "ready"
  /\ Prerequisites(k)
  /\ phases' = [phases EXCEPT ![k] = Phase("running", @.input, @.output)]
  /\ current' = k
  /\ UNCHANGED <<created, guidance, sourceDigest, disk>>

(* complete_phase with a valid handoff makes the successor ready ...        *)
AcceptedUnsealed(k) ==  \* fault: its output is not recorded
  Phase("completed", phases[k].input, phases[k].output)
Accepted(k) == Phase("completed", phases[k].input, doc[k].output)

Following(k) == k + 1  \* fault: also after the last phase
Successor(k) == IF k = collection THEN None ELSE k + 1

CompletePhase(k) ==
  /\ created
  /\ phases[k].status = "running"
  /\ HandoffValid(k)
  /\ phases' = [j \in Phases |->
                  IF j = k THEN Accepted(k)
                  ELSE IF j = k + 1 THEN Phase("ready", doc[k].output, None)
                  ELSE phases[j]]
  /\ current' = Successor(k)
  /\ UNCHANGED <<created, guidance, sourceDigest, disk>>

(* ... and with an invalid one is durably failed.                           *)
RejectHandoff(k) ==
  /\ created
  /\ phases[k].status = "running"
  /\ ~HandoffValid(k)
  /\ LET claimed == IF doc[k] = None THEN None ELSE doc[k].output
     IN  phases' = [phases EXCEPT ![k] = Phase("failed", @.input, claimed)]
  /\ current' = k
  /\ UNCHANGED <<created, guidance, sourceDigest, disk>>

FailPhase(k) ==
  /\ created
  /\ phases[k].status \in {"ready", "running"}
  /\ phases' = [phases EXCEPT ![k] = Phase("failed", @.input, @.output)]
  /\ current' = k
  /\ UNCHANGED <<created, guidance, sourceDigest, disk>>

(* Phase k is ready again for this input, what followed it is void.         *)
ResetOnly(k, input) ==  \* fault: what followed it is left alone
  [phases EXCEPT ![k] = Phase("ready", input, None)]

ResetFrom(k, input) ==
  [j \in Phases |-> IF j < k THEN phases[j]
                    ELSE IF j = k THEN Phase("ready", input, None)
                    ELSE Phase("invalidated", None, None)]

InputOf(k) == IF k = decomposition THEN CurrentSource ELSE phases[k - 1].output

InvalidateFrom(k) ==
  /\ created
  /\ k > decomposition =>
       phases[k - 1].status = "completed" /\ phases[k - 1].output # None
  /\ sourceDigest' = IF k = decomposition THEN CurrentSource ELSE sourceDigest
  /\ phases' = ResetFrom(k, InputOf(k))
  /\ current' = k
  /\ UNCHANGED <<created, guidance, disk>>

(* revise_additional_instructions digests the source anew and keeps the     *)
(* decomposition.                                                           *)
ReviseInstructions(g) ==
  /\ created
  /\ phases[decomposition].status = "completed"
  /\ phases[decomposition].output # None
  /\ guidance # g
  /\ guidance' = g
  /\ sourceDigest' = Source(scene, inputs, g)
  /\ phases' = ResetFrom(processing, phases[decomposition].output)
  /\ current' = processing
  /\ UNCHANGED <<created, disk>>
-----------------------------------------------------------------------------
(***************************************************************************)
(* The agents and everybody else.  The artifacts of a phase are written    *)
(* for the scene, or the instructions, of that moment.  A result is sealed *)
(* with the input its phase has and the artifacts it has then.             *)
(***************************************************************************)
About == <<scene, guidance, None>>

WriteFiles(k, text) ==
  /\ edits < MaxEdits
  /\ edits' = edits + 1
  /\ files' = [files EXCEPT ![k] = [text |-> text, about |-> About[k]]]
  /\ UNCHANGED <<runFile, scene, inputs, doc>>

SealResult(k, passed) ==
  /\ phases[k].input # None
  /\ \A j \in FilesOf[k] : files[j] # None
  /\ \A j \in ResultsOf[k] : doc[j] # None
  /\ doc' = [doc EXCEPT ![k] =
               [input |-> phases[k].input, passed |-> passed,
                output |-> OutputDigest(k, phases[k].input, passed)]]
  /\ UNCHANGED <<runFile, scene, inputs, files, edits>>

EditSource(s, i) ==
  /\ edits < MaxEdits
  /\ edits' = edits + 1
  /\ scene' = s /\ inputs' = i
  /\ UNCHANGED <<runFile, files, doc>>

Next ==
  \/ \E s \in Scenes, i \in Inputs, g \in Guidance \cup {None} : CreateRun(s, i, g)
  \/ \E k \in Phases : \/ BeginPhase(k) \/ CompletePhase(k) \/ RejectHandoff(k)
                       \/ FailPhase(k) \/ InvalidateFrom(k)
  \/ \E g \in Guidance : ReviseInstructions(g)
  \/ \E k \in Phases, t \in Texts : WriteFiles(k, t)
  \/ \E k \in Phases, passed \in BOOLEAN : SealResult(k, passed)
  \/ \E s \in Scenes, i \in Inputs : EditSource(s, i)

Spec == Init /\ [][Next]_vars
-----------------------------------------------------------------------------
(***************************************************************************)
(* Properties                                                              *)
(***************************************************************************)
Status(k) == phases[k].status

(* The digests form a chain: a phase that is ready, at work, done or failed *)
(* has for input the very output its completed predecessor was accepted     *)
(* with, so that invalidate_from can always return to it.                   *)
InputChain ==
  \A k \in {processing, collection} :
    Status(k) \in {"ready", "running", "completed", "failed"} =>
      Status(k - 1) = "completed" /\ phases[k].input = phases[k - 1].output

(* The accepted task results were made under the instructions the run has,  *)
(* however often these were revised (revise_additional_instructions keeps   *)
(* the input digest of Workflow 2, so that the digest chain cannot tell).   *)
GuidanceFollowed ==
  Status(processing) = "completed" /\ guidance # None =>
    phases[processing].output.files[processing].about = guidance

(* Workflows 2 and 3 work on a manifest catalog of the scene file the run   *)
(* has frozen, whatever was edited, restored or sealed in between.          *)
WorkIsForFrozenScene ==
  \A k \in {processing, collection} : Status(k) \in {"running", "completed"} =>
    phases[k - 1].output.files[decomposition].about = sourceDigest.scene

(* An accepted output digest is an identity: it and its input stay as they  *)
(* are for as long as the phase stays completed, and a phase is completed   *)
(* only from running.                                                       *)
AcceptedStays ==
  [][\A k \in Phases : phases'[k].status = "completed" =>
       \/ phases'[k] = phases[k]
       \/ Status(k) = "running" /\ phases'[k].input = phases[k].input]_vars

(* The coordinator implements the pipeline of phases.                       *)
Completed == {k \in Phases : Status(k) = "completed"}
Done ==
  IF collection \in Completed THEN 3
  ELSE IF processing \in Completed THEN 2
  ELSE IF decomposition \in Completed THEN 1 ELSE 0
Stage ==
  IF ~created THEN "absent"
  ELSE IF Done = 3 THEN "finished"
  ELSE Status(Done + 1)
Pipeline == INSTANCE PhasePipeline WITH Last <- 3, done <- Done, stage <- Stage
PipelineSpec == Pipeline!Spec

(* run.current_phase, which the launchers resume from, is the first phase   *)
(* that is not completed.                                                   *)
CurrentIsNext ==
  created => current = IF Done = 3 THEN None ELSE Done + 1
-----------------------------------------------------------------------------
(* "Source scene or request artifacts changed; invalidate from              *)
(* decomposition" (_verify_source_inputs): the later workflows work on a    *)
(* decomposition of the frozen inputs.  A revision of the instructions      *)
(* freezes the inputs anew and keeps the decomposition.                     *)
WorkIsForFrozenInputs ==
  \A k \in {processing, collection} : Status(k) \in {"running", "completed"} =>
    phases[decomposition].input.inputs = sourceDigest.inputs
=============================================================================
