------------------------ MODULE TextureVariationService ------------------------
(***************************************************************************)
(* The in-memory job service of the texture generation apps                *)
(* (apps/texture_gen_service_common/service.py): it takes uploads, runs    *)
(* jobs on a thread pool and forgets what is older than its time to live.  *)
(*                                                                         *)
(* One lock protects the tables of jobs and uploads.  Directories are      *)
(* deleted outside it, from a list made under it, so that an action is one *)
(* critical section of a caller or of a worker, or one deletion.  A caller *)
(* is a thread that uses the service; the app uses it from its event loop, *)
(* which is the case of one caller.                                        *)
(***************************************************************************)
EXTENDS Naturals, FiniteSets

CONSTANTS
  Jobs,          (* ids of jobs, each drawn once (uuid4)                    *)
  Uploads,       (* asset ids, each drawn once                              *)
  Callers,
  MaxWorkers,
  MaxQueueSize,
  None           (* no job, no upload                                       *)

ASSUME ServiceAssumption ==
  /\ IsFiniteSet(Jobs)
  /\ MaxWorkers \in Nat \ {0}
  /\ MaxQueueSize \in Nat
  /\ None \notin Jobs \cup Uploads

VARIABLES
  status,          (* of the record of a job: new before it has one,        *)
                   (* evicted when it is taken out of _jobs                 *)
  completedAt,     (* no, recent, or expired: longer ago than               *)
                   (* terminal_job_ttl_sec                                  *)
  cancelEvent,     (* the jobs whose cancel_event is set                    *)
  work,            (* of each job: its future and, once a thread has it,    *)
                   (* where _run_job is                                     *)
  outputs,         (* the jobs whose output directory exists                *)
  pendingOutputs,  (* _pending_output_cleanup                               *)
  uploads,         (* the asset ids in _uploads                             *)
  claim,           (* claimed_job_id of each upload                         *)
  expired,         (* the uploads created longer ago than upload_ttl_sec    *)
  files,           (* the uploads whose directory exists                    *)
  pendingUploads,  (* _pending_upload_cleanup                               *)
  todo,            (* of each caller: the jobs and uploads it still cleans  *)
  cleaning,        (* of each caller: the job whose uploads it is deleting, *)
                   (* and the upload it has deleted and not yet taken out   *)
  phase            (* running, stopping (in shutdown()), stopped            *)

jobVars == <<status, completedAt, cancelEvent, work>>
uploadVars == <<uploads, claim, expired, files, pendingUploads>>
outputVars == <<outputs, pendingOutputs>>
callerVars == <<todo, cleaning>>
vars == <<jobVars, uploadVars, outputVars, callerVars, phase>>

Terminal == {"completed", "failed", "cancelled"}
Statuses == {"new", "queued", "processing", "evicted"} \cup Terminal
Settling == {"completing", "failing", "cancelling"}  \* what is about to be written
Held == {"picked", "checked", "generating"} \cup Settling  \* a thread has it
Works == {"none", "pending", "dropped", "done"} \cup Held
Unsettled == {"pending"} \cup Held

Known == {j \in Jobs : status[j] \notin {"new", "evicted"}}  \* _jobs
WithStatus(s) == {j \in Jobs : status[j] = s}
Nothing == [jobs |-> {}, uploads |-> {}]
Resting == [job |-> None, upload |-> None]
Free(c) == phase = "running" /\ todo[c] = Nothing /\ cleaning[c] = Resting
-----------------------------------------------------------------------------
TypeOK ==
  /\ status \in [Jobs -> Statuses]
  /\ completedAt \in [Jobs -> {"no", "recent", "expired"}]
  /\ cancelEvent \in SUBSET Jobs
  /\ work \in [Jobs -> Works]
  /\ outputs \in SUBSET Jobs
  /\ pendingOutputs \in SUBSET Jobs
  /\ uploads \in SUBSET Uploads
  /\ claim \in [Uploads -> Jobs \cup {None}]
  /\ expired \in SUBSET Uploads
  /\ files \in SUBSET Uploads
  /\ pendingUploads \in SUBSET Uploads
  /\ todo \in [Callers -> [jobs: SUBSET Jobs, uploads: SUBSET Uploads]]
  /\ cleaning \in [Callers -> [job: Jobs \cup {None}, upload: Uploads \cup {None}]]
  /\ phase \in {"running", "stopping", "stopped"}

Init ==
  /\ status = [j \in Jobs |-> "new"]
  /\ completedAt = [j \in Jobs |-> "no"]
  /\ cancelEvent = {}
  /\ work = [j \in Jobs |-> "none"]
  /\ outputs = {}
  /\ pendingOutputs = {}
  /\ uploads = {}
  /\ claim = [u \in Uploads |-> None]
  /\ expired = {}
  /\ files = {}
  /\ pendingUploads = {}
  /\ todo = [c \in Callers |-> Nothing]
  /\ cleaning = [c \in Callers |-> Resting]
  /\ phase = "running"
-----------------------------------------------------------------------------
(***************************************************************************)
(* Eviction.  Every operation below but cancel() and register_upload()     *)
(* begins with it, under the lock, and ends with the deletions, outside.   *)
(***************************************************************************)
Evictable == {j \in Known : completedAt[j] = "expired"}
Kept == [j \in Jobs |-> IF j \in Evictable THEN "evicted" ELSE status[j]]

EvictTerminal == pendingOutputs' = pendingOutputs \cup Evictable

EvictUnclaimedUploads ==
  pendingUploads' =
    pendingUploads \cup {u \in uploads \cap expired : claim[u] = None}

ListCleanup(c) ==
  todo' = [todo EXCEPT ![c] = [jobs |-> pendingOutputs', uploads |-> pendingUploads']]

ProcessingFull ==  \* fault: jobs that are queued are not counted
  Cardinality(WithStatus("processing")) >= MaxWorkers + MaxQueueSize

Full ==
  Cardinality(WithStatus("processing")) + Cardinality(WithStatus("queued"))
    >= MaxWorkers + MaxQueueSize
-----------------------------------------------------------------------------
(***************************************************************************)
(* Operations of the callers                                               *)
(***************************************************************************)

(* The file is complete before the upload is registered.  An id that was   *)
(* deleted is claimed or expired, so that no id is used twice.             *)
RegisterUpload(c, u) ==
  /\ Free(c)
  /\ u \notin uploads \cup files \cup expired
  /\ claim[u] = None
  /\ files' = files \cup {u}
  /\ uploads' = uploads \cup {u}
  /\ UNCHANGED <<jobVars, claim, expired, pendingUploads, outputVars, callerVars, phase>>

(* A request may use an upload that is registered, not about to be deleted *)
(* and not claimed by another job.                                         *)
ClaimableIfFree(u) == u \in uploads /\ claim[u] = None  \* fault: also when about to be deleted

Claimable(u) ==
  /\ u \in uploads
  /\ u \notin pendingUploads'
  /\ claim[u] = None

Submit(c, j, us) ==
  /\ Free(c)
  /\ status[j] = "new"
  /\ EvictTerminal
  /\ EvictUnclaimedUploads
  /\ ~Full
  /\ \A u \in us : Claimable(u)
  /\ claim' = [u \in Uploads |-> IF u \in us THEN j ELSE claim[u]]
  /\ status' = [Kept EXCEPT ![j] = "queued"]
  /\ work' = [work EXCEPT ![j] = "pending"]
  /\ ListCleanup(c)
  /\ UNCHANGED <<completedAt, cancelEvent, outputs, uploads, expired, files,
                 cleaning, phase>>

(* A full service answers busy after its cleanup; a request with an upload *)
(* it may not use is refused before: what it evicted is left to others.    *)
SubmitRefused(c, us) ==
  /\ Free(c)
  /\ \E j \in Jobs : status[j] = "new"
  /\ EvictTerminal
  /\ EvictUnclaimedUploads
  /\ ~Full
  /\ \E u \in us : ~Claimable(u)
  /\ status' = Kept
  /\ UNCHANGED <<completedAt, cancelEvent, work, outputs, uploads, claim, expired,
                 files, callerVars, phase>>

(* get_status(), health() and a submit() that finds the service full.      *)
Poll(c) ==
  /\ Free(c)
  /\ EvictTerminal
  /\ EvictUnclaimedUploads
  /\ status' = Kept
  /\ ListCleanup(c)
  /\ UNCHANGED <<completedAt, cancelEvent, work, outputs, uploads, claim, expired,
                 files, cleaning, phase>>

(* get_upload() evicts uploads only.                                       *)
GetUpload(c) ==
  /\ Free(c)
  /\ EvictUnclaimedUploads
  /\ todo' = [todo EXCEPT ![c].uploads = pendingUploads']
  /\ UNCHANGED <<jobVars, outputVars, uploads, claim, expired, files, cleaning, phase>>

(* future.cancel() succeeds as long as no thread has taken the job.        *)
CancelAssumed(j) == TRUE  \* fault: its result is not looked at
FutureCancelled(j) == work[j] = "pending"

Cancel(c, j) ==
  /\ Free(c)
  /\ status[j] \in {"queued", "processing"}
  /\ cancelEvent' = cancelEvent \cup {j}
  /\ work' = [work EXCEPT ![j] = IF @ = "pending" THEN "dropped" ELSE @]
  /\ IF FutureCancelled(j)
     THEN /\ status' = [status EXCEPT ![j] = "cancelled"]
          /\ completedAt' = [completedAt EXCEPT ![j] = "recent"]
     ELSE UNCHANGED <<status, completedAt>>
  /\ UNCHANGED <<uploadVars, outputVars, callerVars, phase>>
-----------------------------------------------------------------------------
(***************************************************************************)
(* Deletions of a caller, outside the lock: first the output directories,  *)
(* each followed by the uploads the job had claimed, then the uploads that *)
(* nobody claimed.  rmtree may fail: the entry stays pending.              *)
(***************************************************************************)
DeleteOutput(c, j) ==
  /\ cleaning[c] = Resting
  /\ j \in todo[c].jobs
  /\ todo' = [todo EXCEPT ![c].jobs = @ \ {j}]
  /\ \/ /\ outputs' = outputs \ {j}
        /\ cleaning' = [cleaning EXCEPT ![c].job = j]
     \/ j \in outputs /\ UNCHANGED <<outputs, cleaning>>
  /\ UNCHANGED <<jobVars, pendingOutputs, uploadVars, phase>>

ClaimedBy(j) == {u \in uploads : claim[u] = j}

DeleteClaimedUpload(c, u) ==
  /\ cleaning[c].job # None /\ cleaning[c].upload = None
  /\ u \in ClaimedBy(cleaning[c].job)
  /\ \/ /\ files' = files \ {u}
        /\ cleaning' = [cleaning EXCEPT ![c].upload = u]
     \/ /\ u \in files
        /\ cleaning' = [cleaning EXCEPT ![c] = Resting]
        /\ UNCHANGED files
  /\ UNCHANGED <<jobVars, outputVars, uploads, claim, expired, pendingUploads, todo, phase>>

OutputCleanedOnce(c) ==  \* fault: the uploads are not waited for
  /\ cleaning[c].job # None
  /\ pendingOutputs' = pendingOutputs \ {cleaning[c].job}
  /\ cleaning' = [cleaning EXCEPT ![c] = Resting]
  /\ UNCHANGED <<jobVars, outputs, uploadVars, todo, phase>>

OutputCleaned(c) ==
  /\ cleaning[c].job # None /\ cleaning[c].upload = None
  /\ ClaimedBy(cleaning[c].job) = {}
  /\ pendingOutputs' = pendingOutputs \ {cleaning[c].job}
  /\ cleaning' = [cleaning EXCEPT ![c] = Resting]
  /\ UNCHANGED <<jobVars, outputs, uploadVars, todo, phase>>

DeleteUpload(c, u) ==
  /\ cleaning[c] = Resting
  /\ todo[c].jobs = {}
  /\ u \in todo[c].uploads
  /\ todo' = [todo EXCEPT ![c].uploads = @ \ {u}]
  /\ \/ /\ u \notin uploads
        /\ pendingUploads' = pendingUploads \ {u}
        /\ UNCHANGED <<files, cleaning>>
     \/ /\ u \in uploads
        /\ files' = files \ {u}
        /\ cleaning' = [cleaning EXCEPT ![c].upload = u]
        /\ UNCHANGED pendingUploads
     \/ u \in uploads \cap files /\ UNCHANGED <<files, cleaning, pendingUploads>>
  /\ UNCHANGED <<jobVars, outputVars, uploads, claim, expired, phase>>

(* Under the lock again: the deleted upload is taken out of _uploads, and, *)
(* unless it went with its job, out of the pending ones.                   *)
UploadDeleted(c) ==
  LET u == cleaning[c].upload IN
  /\ u # None
  /\ uploads' = uploads \ {u}
  /\ pendingUploads' =
       IF cleaning[c].job = None THEN pendingUploads \ {u} ELSE pendingUploads
  /\ cleaning' = [cleaning EXCEPT ![c].upload = None]
  /\ UNCHANGED <<jobVars, outputVars, claim, expired, files, todo, phase>>
-----------------------------------------------------------------------------
(***************************************************************************)
(* A worker thread in _run_job.  The pool runs pending futures, at most    *)
(* MaxWorkers at a time (in any order here, the oldest first in the pool). *)
(***************************************************************************)
BusyForEver == {j \in Jobs : work[j] \in Held \cup {"done"}}  \* fault: a thread is not given back
Busy == {j \in Jobs : work[j] \in Held}

PickUp(j) ==
  /\ work[j] = "pending"
  /\ Cardinality(Busy) < MaxWorkers
  /\ work' = [work EXCEPT ![j] = "picked"]
  /\ UNCHANGED <<status, completedAt, cancelEvent, uploadVars, outputVars, callerVars, phase>>

CheckCancel(j) ==
  /\ work[j] = "picked"
  /\ work' = [work EXCEPT ![j] = IF j \in cancelEvent THEN "cancelling" ELSE "checked"]
  /\ UNCHANGED <<status, completedAt, cancelEvent, uploadVars, outputVars, callerVars, phase>>

(* _update() to processing, and the output directory.                      *)
StartProcessing(j) ==
  /\ work[j] = "checked"
  /\ j \in Known
  /\ status' = [status EXCEPT ![j] = "processing"]
  /\ outputs' = outputs \cup {j}
  /\ work' = [work EXCEPT ![j] = "generating"]
  /\ UNCHANGED <<completedAt, cancelEvent, pendingOutputs, uploadVars, callerVars, phase>>

(* backend.generate() returns, raises an error that carries a partial      *)
(* result, or raises: only the first and the last look at cancel_event.    *)
Generate(j) ==
  /\ work[j] = "generating"
  /\ \E outcome \in {"completing", "failing"} :
       \/ work' = [work EXCEPT ![j] = IF j \in cancelEvent THEN "cancelling" ELSE outcome]
       \/ outcome = "failing" /\ work' = [work EXCEPT ![j] = outcome]
  /\ UNCHANGED <<status, completedAt, cancelEvent, uploadVars, outputVars, callerVars, phase>>

WrittenAsIs ==  \* fault: no status for a job that was cancelled
  [completing |-> "completed", failing |-> "failed", cancelling |-> "cancelling"]
Written == [completing |-> "completed", failing |-> "failed", cancelling |-> "cancelled"]

(* The last _update(): completed_at keeps an earlier value.                *)
Settle(j) ==
  /\ work[j] \in Settling
  /\ j \in Known
  /\ status' = [status EXCEPT ![j] = Written[work[j]]]
  /\ completedAt' = [completedAt EXCEPT ![j] = IF @ = "no" THEN "recent" ELSE @]
  /\ work' = [work EXCEPT ![j] = "done"]
  /\ UNCHANGED <<cancelEvent, uploadVars, outputVars, callerVars, phase>>
-----------------------------------------------------------------------------
(* Time passes: what was recent is now older than its time to live.        *)
JobExpires(j) ==
  /\ j \in Known
  /\ completedAt[j] = "recent"
  /\ completedAt' = [completedAt EXCEPT ![j] = "expired"]
  /\ UNCHANGED <<status, cancelEvent, work, uploadVars, outputVars, callerVars, phase>>

UploadExpires(u) ==
  /\ u \in uploads \ expired
  /\ expired' = expired \cup {u}
  /\ UNCHANGED <<jobVars, uploads, claim, files, pendingUploads, outputVars, callerVars, phase>>

(* shutdown(), at the end of the app's lifespan, when no request is left:  *)
(* under the lock first, then the pending futures are cancelled.           *)
Shutdown ==
  /\ \A c \in Callers : Free(c)
  /\ cancelEvent' = cancelEvent \cup Known
  /\ status' = [j \in Jobs |-> IF status[j] = "queued" THEN "cancelled" ELSE status[j]]
  /\ completedAt' = [j \in Jobs |-> IF status[j] = "queued" THEN "recent" ELSE completedAt[j]]
  /\ phase' = "stopping"
  /\ UNCHANGED <<work, uploadVars, outputVars, callerVars>>

ShutdownExecutor ==
  /\ phase = "stopping"
  /\ work' = [j \in Jobs |-> IF work[j] = "pending" THEN "dropped" ELSE work[j]]
  /\ phase' = "stopped"
  /\ UNCHANGED <<status, completedAt, cancelEvent, uploadVars, outputVars, callerVars>>
-----------------------------------------------------------------------------
Call(c) ==
  \/ Poll(c)
  \/ GetUpload(c)
  \/ \E u \in Uploads : RegisterUpload(c, u)
  \/ \E us \in SUBSET Uploads : SubmitRefused(c, us) \/ \E j \in Jobs : Submit(c, j, us)
  \/ \E j \in Jobs : Cancel(c, j)

Cleanup(c) ==
  \/ \E j \in Jobs : DeleteOutput(c, j)
  \/ \E u \in Uploads : DeleteClaimedUpload(c, u) \/ DeleteUpload(c, u)
  \/ OutputCleaned(c)
  \/ UploadDeleted(c)

RunJob(j) ==
  \/ PickUp(j)
  \/ CheckCancel(j)
  \/ StartProcessing(j)
  \/ Generate(j)
  \/ Settle(j)

Next ==
  \/ \E c \in Callers : Call(c) \/ Cleanup(c)
  \/ \E j \in Jobs : RunJob(j) \/ JobExpires(j)
  \/ \E u \in Uploads : UploadExpires(u)
  \/ Shutdown
  \/ ShutdownExecutor

(***************************************************************************)
(* Threads of the pool go on, a backend returns or raises, and shutdown()  *)
(* does not stop half way.  Nothing obliges anybody to call.               *)
(***************************************************************************)
Fairness ==
  /\ \A j \in Jobs : WF_vars(RunJob(j))
  /\ WF_vars(ShutdownExecutor)

Spec == Init /\ [][Next]_vars /\ Fairness
-----------------------------------------------------------------------------
(***************************************************************************)
(* Properties                                                              *)
(***************************************************************************)

(* As long as the work of a job may still read them, the uploads it        *)
(* claimed are registered and on disk: no cleanup, of a list made before   *)
(* the claim or after it, deletes the input of a job.                      *)
InputsKept ==
  \A u \in Uploads :
    claim[u] # None /\ work[claim[u]] \in Unsettled => u \in uploads \cap files

(* Nothing of an evicted job is forgotten: while its directory or one of   *)
(* its uploads is left, it is on the list of what is to be cleaned.        *)
NothingOrphaned ==
  \A j \in WithStatus("evicted") :
    j \in outputs \/ ClaimedBy(j) # {} => j \in pendingOutputs

(* A job is evicted only when no thread will write its status or its       *)
(* directory again.                                                        *)
EvictedIsOver ==
  \A j \in WithStatus("evicted") : work[j] \in {"dropped", "done"}

(* A status that says how a job ended stays until the job is evicted, as   *)
(* long as the service runs.                                               *)
ResultStays ==
  [][\A j \in Jobs :
       phase = "running" /\ status[j] \in Terminal => status'[j] \in {status[j], "evicted"}]_vars

(* Every job that was submitted ends: its status says so, and no thread is *)
(* left that would change it.                                              *)
EveryJobEnds ==
  \A j \in Jobs :
    status[j] = "queued" ~> /\ status[j] \in Terminal \cup {"evicted"}
                            /\ work[j] \in {"dropped", "done"}

(* The service keeps the promises of JobLifecycle, the bound included.  A  *)
(* job is queued until a thread starts to process it, and how it ended is  *)
(* its status once its work is over.                                       *)
LifecycleOf(j) ==
  CASE work[j] = "none" -> "new"
    [] work[j] \in {"pending", "picked", "checked"} -> "queued"
    [] work[j] \in {"generating", "completing", "failing"} -> "active"
    [] work[j] = "cancelling" -> IF j \in outputs THEN "active" ELSE "queued"
    [] OTHER -> IF status[j] = "evicted" THEN "forgotten" ELSE status[j]

LifecycleJob == [j \in Jobs |-> LifecycleOf(j)]

Lifecycle ==
  INSTANCE JobLifecycle WITH
    Results <- Terminal,
    Unstarted <- {"cancelled"},
    Capacity <- MaxWorkers + MaxQueueSize,
    job <- LifecycleJob

LifecycleSpec == Lifecycle!Spec
=============================================================================
