--------------------- MODULE TextureVariationService_proofs ---------------------
(***************************************************************************)
(* Proofs about TextureVariationService, for every number of jobs,         *)
(* uploads, callers and threads, and every length of the queue.            *)
(***************************************************************************)
EXTENDS TextureVariationService, FiniteSetTheorems, TLAPS

Over == {"dropped", "done"}  \* of a job no thread has or will get
Open == {"queued", "processing"}

(* What the status of a job says of its work, as long as the service runs, *)
(* and of an evicted job for ever.                                         *)
JobOk(j) ==
  /\ status[j] = "new" => work[j] = "none"
  /\ status[j] = "evicted" => work[j] \in Over
  /\ status[j] \in Terminal => completedAt[j] # "no"
  /\ phase = "running" =>
       /\ completedAt[j] # "no" => work[j] \in Over
       /\ status[j] \in Open <=> work[j] \in Unsettled

(* An upload that is about to be deleted is not, and will not be, claimed. *)
Lost(u) ==
  /\ claim[u] = None
  /\ u \in expired
  /\ u \in pendingUploads \/ u \notin uploads

UploadOk(u) ==
  /\ claim[u] # None => status[claim[u]] # "new"
  /\ u \in pendingUploads => claim[u] = None /\ u \in expired
  /\ u \in uploads \ files => u \in pendingUploads \/ claim[u] # None
  /\ claim[u] # None /\ work[claim[u]] \in Unsettled => u \in uploads \cap files

(* A caller deletes what belongs to evicted jobs, or to none.              *)
CallerOk(c) ==
  /\ \A j \in todo[c].jobs : status[j] = "evicted"
  /\ \A u \in todo[c].uploads : Lost(u)
  /\ cleaning[c].job # None =>
       status[cleaning[c].job] = "evicted" /\ cleaning[c].job \notin outputs
  /\ cleaning[c].upload # None =>
       IF cleaning[c].job = None THEN Lost(cleaning[c].upload)
       ELSE claim[cleaning[c].upload] = cleaning[c].job

Inductive ==
  /\ TypeOK
  /\ \A j \in Jobs : JobOk(j)
  /\ \A j \in pendingOutputs : status[j] = "evicted"
  /\ \A u \in Uploads : UploadOk(u)
  /\ \A c \in Callers : CallerOk(c)
  /\ NothingOrphaned

(* The names of statuses and places, spelled out.                          *)
LEMMA Names ==
  /\ Terminal = {"completed", "failed", "cancelled"}
  /\ Statuses = {"new", "queued", "processing", "evicted",
                  "completed", "failed", "cancelled"}
  /\ Settling = {"completing", "failing", "cancelling"}
  /\ Held = {"picked", "checked", "generating", "completing", "failing", "cancelling"}
  /\ Works = {"none", "pending", "dropped", "done", "picked", "checked", "generating",
               "completing", "failing", "cancelling"}
  /\ Unsettled = {"pending", "picked", "checked", "generating",
                   "completing", "failing", "cancelling"}
  BY DEF Terminal, Statuses, Settling, Held, Works, Unsettled

(* What an operation that evicts does to the tables.                       *)
Evicts ==
  /\ phase = "running" /\ phase' = phase
  /\ EvictTerminal
  /\ EvictUnclaimedUploads
  /\ UNCHANGED <<completedAt, cancelEvent, outputs, uploads, expired, files, cleaning>>

(* A step is one of these, or changes nothing.                             *)
LEMMA NextCases ==
  ASSUME [Next]_vars
  PROVE \/ \E c \in Callers : Call(c) \/ Cleanup(c)
        \/ \E j \in Jobs : RunJob(j) \/ JobExpires(j)
        \/ \E u \in Uploads : UploadExpires(u)
        \/ Shutdown \/ ShutdownExecutor
        \/ UNCHANGED vars
  BY DEF Next
-----------------------------------------------------------------------------
(* Evicted jobs are out of the table, whatever the operation.              *)
LEMMA KeptType ==
  ASSUME TypeOK
  PROVE /\ Kept \in [Jobs -> Statuses]
        /\ Evictable \subseteq Jobs
        /\ \A j \in Jobs : Kept[j] = IF j \in Evictable THEN "evicted" ELSE status[j]
        /\ \A j \in Evictable : /\ status[j] \notin {"new", "evicted"}
                                 /\ completedAt[j] = "expired"
  BY Names DEF TypeOK, Kept, Evictable, Known

(* The pending uploads after an eviction are uploads.                      *)
LEMMA EvictTypes ==
  ASSUME TypeOK
  PROVE /\ EvictTerminal => pendingOutputs' \in SUBSET Jobs
        /\ EvictUnclaimedUploads => pendingUploads' \in SUBSET Uploads
  BY KeptType DEF TypeOK, EvictTerminal, EvictUnclaimedUploads

(* What an assignment to one field of what a caller does changes.          *)
LEMMA TodoJobs ==
  ASSUME TypeOK, NEW c \in Callers, NEW X \in SUBSET Jobs, NEW f,
         f = [todo EXCEPT ![c].jobs = X]
  PROVE /\ f \in [Callers -> [jobs: SUBSET Jobs, uploads: SUBSET Uploads]]
        /\ f[c].jobs = X /\ f[c].uploads = todo[c].uploads
        /\ \A d \in Callers : d # c => f[d] = todo[d]
<1> DEFINE r == [jobs |-> X, uploads |-> todo[c].uploads]
<1>1. todo \in [Callers -> [jobs: SUBSET Jobs, uploads: SUBSET Uploads]]
  BY DEF TypeOK
<1>2. /\ [todo[c] EXCEPT !.jobs = X] = r
      /\ r \in [jobs: SUBSET Jobs, uploads: SUBSET Uploads]
      /\ r.jobs = X /\ r.uploads = todo[c].uploads
  BY <1>1
<1>3. f = [todo EXCEPT ![c] = r]
  BY <1>2
<1> HIDE DEF r
<1>4. QED
  BY <1>1, <1>2, <1>3

(* The same for the uploads it cleans.                                     *)
LEMMA TodoUploads ==
  ASSUME TypeOK, NEW c \in Callers, NEW X \in SUBSET Uploads, NEW f,
         f = [todo EXCEPT ![c].uploads = X]
  PROVE /\ f \in [Callers -> [jobs: SUBSET Jobs, uploads: SUBSET Uploads]]
        /\ f[c].uploads = X /\ f[c].jobs = todo[c].jobs
        /\ \A d \in Callers : d # c => f[d] = todo[d]
<1> DEFINE r == [jobs |-> todo[c].jobs, uploads |-> X]
<1>1. todo \in [Callers -> [jobs: SUBSET Jobs, uploads: SUBSET Uploads]]
  BY DEF TypeOK
<1>2. /\ [todo[c] EXCEPT !.uploads = X] = r
      /\ r \in [jobs: SUBSET Jobs, uploads: SUBSET Uploads]
      /\ r.uploads = X /\ r.jobs = todo[c].jobs
  BY <1>1
<1>3. f = [todo EXCEPT ![c] = r]
  BY <1>2
<1> HIDE DEF r
<1>4. QED
  BY <1>1, <1>2, <1>3

(* The same for the job whose uploads it is deleting.                      *)
LEMMA CleaningJob ==
  ASSUME TypeOK, NEW c \in Callers, NEW X \in Jobs \cup {None}, NEW f,
         f = [cleaning EXCEPT ![c].job = X]
  PROVE /\ f \in [Callers -> [job: Jobs \cup {None}, upload: Uploads \cup {None}]]
        /\ f[c].job = X /\ f[c].upload = cleaning[c].upload
        /\ \A d \in Callers : d # c => f[d] = cleaning[d]
<1> DEFINE r == [job |-> X, upload |-> cleaning[c].upload]
<1>1. cleaning \in [Callers -> [job: Jobs \cup {None}, upload: Uploads \cup {None}]]
  BY DEF TypeOK
<1>2. /\ [cleaning[c] EXCEPT !.job = X] = r
      /\ r \in [job: Jobs \cup {None}, upload: Uploads \cup {None}]
      /\ r.job = X /\ r.upload = cleaning[c].upload
  BY <1>1
<1>3. f = [cleaning EXCEPT ![c] = r]
  BY <1>2
<1> HIDE DEF r
<1>4. QED
  BY <1>1, <1>2, <1>3

(* The same for the upload it has deleted.                                 *)
LEMMA CleaningUpload ==
  ASSUME TypeOK, NEW c \in Callers, NEW X \in Uploads \cup {None}, NEW f,
         f = [cleaning EXCEPT ![c].upload = X]
  PROVE /\ f \in [Callers -> [job: Jobs \cup {None}, upload: Uploads \cup {None}]]
        /\ f[c].upload = X /\ f[c].job = cleaning[c].job
        /\ \A d \in Callers : d # c => f[d] = cleaning[d]
<1> DEFINE r == [job |-> cleaning[c].job, upload |-> X]
<1>1. cleaning \in [Callers -> [job: Jobs \cup {None}, upload: Uploads \cup {None}]]
  BY DEF TypeOK
<1>2. /\ [cleaning[c] EXCEPT !.upload = X] = r
      /\ r \in [job: Jobs \cup {None}, upload: Uploads \cup {None}]
      /\ r.upload = X /\ r.job = cleaning[c].job
  BY <1>1
<1>3. f = [cleaning EXCEPT ![c] = r]
  BY <1>2
<1> HIDE DEF r
<1>4. QED
  BY <1>1, <1>2, <1>3

(* And when it has nothing to delete.                                      *)
LEMMA CleaningRests ==
  ASSUME TypeOK, NEW c \in Callers, NEW f, f = [cleaning EXCEPT ![c] = Resting]
  PROVE /\ f \in [Callers -> [job: Jobs \cup {None}, upload: Uploads \cup {None}]]
        /\ f[c].job = None /\ f[c].upload = None
        /\ \A d \in Callers : d # c => f[d] = cleaning[d]
  BY DEF TypeOK, Resting

(* The tables keep their types.                                            *)
LEMMA TypeStep ==
  ASSUME TypeOK, [Next]_vars
  PROVE TypeOK'
<1>1. ASSUME NEW c \in Callers, NEW u \in Uploads, RegisterUpload(c, u) PROVE TypeOK'
  BY <1>1 DEF TypeOK, RegisterUpload, jobVars, outputVars, callerVars
<1>2. ASSUME NEW c \in Callers, NEW j \in Jobs, NEW us \in SUBSET Uploads, Submit(c, j, us)
      PROVE TypeOK'
  <2>1. /\ pendingOutputs' \in SUBSET Jobs /\ pendingUploads' \in SUBSET Uploads
    BY <1>2, EvictTypes DEF Submit
  <2>2. status' \in [Jobs -> Statuses] /\ work' \in [Jobs -> Works]
    BY <1>2, KeptType, Names DEF TypeOK, Submit
  <2>3. claim' \in [Uploads -> Jobs \cup {None}]
    BY <1>2 DEF TypeOK, Submit
  <2>4. todo' \in [Callers -> [jobs: SUBSET Jobs, uploads: SUBSET Uploads]]
    BY <1>2, <2>1 DEF TypeOK, Submit, ListCleanup
  <2>5. QED
    BY <1>2, <2>1, <2>2, <2>3, <2>4 DEF TypeOK, Submit
<1>3. ASSUME NEW c \in Callers,
             Poll(c) \/ GetUpload(c) \/ \E us \in SUBSET Uploads : SubmitRefused(c, us)
      PROVE TypeOK'
  <2>1. /\ pendingOutputs' \in SUBSET Jobs /\ pendingUploads' \in SUBSET Uploads
    BY <1>3, EvictTypes DEF Poll, GetUpload, SubmitRefused, outputVars, TypeOK
  <2>2. status' \in [Jobs -> Statuses]
    BY <1>3, KeptType DEF TypeOK, Poll, GetUpload, SubmitRefused, jobVars
  <2>3. todo' \in [Callers -> [jobs: SUBSET Jobs, uploads: SUBSET Uploads]]
    <3>1. CASE GetUpload(c)
      BY <3>1, <2>1, TodoUploads DEF GetUpload
    <3>2. CASE Poll(c)
      BY <3>2, <2>1 DEF TypeOK, Poll, ListCleanup
    <3>3. CASE UNCHANGED todo
      BY <3>3 DEF TypeOK
    <3>4. QED
      BY <1>3, <3>1, <3>2, <3>3 DEF SubmitRefused, callerVars
  <2>4. QED
    BY <1>3, <2>1, <2>2, <2>3
    DEF TypeOK, Poll, GetUpload, SubmitRefused, jobVars, outputVars, callerVars
<1>4. ASSUME NEW c \in Callers, NEW j \in Jobs, Cancel(c, j) PROVE TypeOK'
  BY <1>4, Names DEF TypeOK, Cancel, uploadVars, outputVars, callerVars
<1>5. ASSUME NEW c \in Callers, NEW j \in Jobs, DeleteOutput(c, j) PROVE TypeOK'
  <2>1. todo' = [todo EXCEPT ![c].jobs = todo[c].jobs \ {j}] /\ todo[c].jobs \ {j} \in SUBSET Jobs
    BY <1>5 DEF TypeOK, DeleteOutput
  <2>2. cleaning' = [cleaning EXCEPT ![c].job = j] \/ cleaning' = cleaning
    BY <1>5 DEF DeleteOutput
  <2>3. todo' \in [Callers -> [jobs: SUBSET Jobs, uploads: SUBSET Uploads]]
    BY <2>1, TodoJobs
  <2>4. cleaning' \in [Callers -> [job: Jobs \cup {None}, upload: Uploads \cup {None}]]
    BY <2>2, CleaningJob DEF TypeOK
  <2>5. QED
    BY <1>5, <2>3, <2>4 DEF TypeOK, DeleteOutput, jobVars, uploadVars
<1>6. ASSUME NEW c \in Callers, NEW u \in Uploads, DeleteClaimedUpload(c, u) PROVE TypeOK'
  BY <1>6 DEF TypeOK, DeleteClaimedUpload, jobVars, outputVars, Resting
<1>7. ASSUME NEW c \in Callers, NEW u \in Uploads, DeleteUpload(c, u) PROVE TypeOK'
  <2>1. todo' = [todo EXCEPT ![c].uploads = todo[c].uploads \ {u}]
        /\ todo[c].uploads \ {u} \in SUBSET Uploads
    BY <1>7 DEF TypeOK, DeleteUpload
  <2>2. cleaning' = [cleaning EXCEPT ![c].upload = u] \/ cleaning' = cleaning
    BY <1>7 DEF DeleteUpload
  <2>3. todo' \in [Callers -> [jobs: SUBSET Jobs, uploads: SUBSET Uploads]]
    BY <2>1, TodoUploads
  <2>4. cleaning' \in [Callers -> [job: Jobs \cup {None}, upload: Uploads \cup {None}]]
    BY <2>2, CleaningUpload DEF TypeOK
  <2>5. QED
    BY <1>7, <2>3, <2>4 DEF TypeOK, DeleteUpload, jobVars, outputVars
<1>8. ASSUME NEW c \in Callers, OutputCleaned(c) \/ UploadDeleted(c) PROVE TypeOK'
  <2>1. \/ cleaning' = [cleaning EXCEPT ![c] = Resting]
        \/ cleaning' = [cleaning EXCEPT ![c].upload = None]
    BY <1>8 DEF OutputCleaned, UploadDeleted
  <2>2. cleaning' \in [Callers -> [job: Jobs \cup {None}, upload: Uploads \cup {None}]]
    BY <2>1, CleaningRests, CleaningUpload
  <2>3. QED
    BY <1>8, <2>2 DEF TypeOK, OutputCleaned, UploadDeleted, jobVars, uploadVars, outputVars
<1>9. ASSUME NEW j \in Jobs, RunJob(j) PROVE TypeOK'
  BY <1>9, Names DEF TypeOK, RunJob, PickUp, CheckCancel, StartProcessing, Generate, Settle,
                     Written, uploadVars, outputVars, callerVars
<1>10. ASSUME NEW j \in Jobs, JobExpires(j) PROVE TypeOK'
  BY <1>10 DEF TypeOK, JobExpires, uploadVars, outputVars, callerVars
<1>11. ASSUME NEW u \in Uploads, UploadExpires(u) PROVE TypeOK'
  BY <1>11 DEF TypeOK, UploadExpires, jobVars, outputVars, callerVars
<1>12. ASSUME Shutdown \/ ShutdownExecutor PROVE TypeOK'
  BY <1>12, Names DEF TypeOK, Shutdown, ShutdownExecutor, Known,
                      uploadVars, outputVars, callerVars
<1>13. ASSUME UNCHANGED vars PROVE TypeOK'
  BY <1>13 DEF TypeOK, vars, jobVars, uploadVars, outputVars, callerVars
<1>14. QED
  BY <1>1, <1>2, <1>3, <1>4, <1>5, <1>6, <1>7, <1>8, <1>9, <1>10, <1>11, <1>12, <1>13,
     NextCases DEF Call, Cleanup
-----------------------------------------------------------------------------
(* The steps that leave the tables of jobs alone.                          *)
LEMMA JobsUntouched ==
  ASSUME NEW c \in Callers,
         Cleanup(c) \/ GetUpload(c) \/ \E u \in Uploads : RegisterUpload(c, u)
  PROVE UNCHANGED jobVars /\ UNCHANGED phase
  BY DEF Cleanup, GetUpload, RegisterUpload, DeleteOutput, DeleteClaimedUpload, DeleteUpload,
         OutputCleaned, UploadDeleted

(* An operation that evicts takes out jobs that are over.                  *)
LEMMA EvictedJobs ==
  ASSUME TypeOK, \A j \in Jobs : JobOk(j), phase = "running", NEW i \in Evictable
  PROVE work[i] \in Over
  BY KeptType DEF JobOk

(* The status and the work of a job stay in line.                          *)
LEMMA JobsStep ==
  ASSUME TypeOK, \A j \in Jobs : JobOk(j), [Next]_vars, NEW i \in Jobs
  PROVE JobOk(i)'
<1>1. JobOk(i)
  OBVIOUS
<1>2. ASSUME NEW c \in Callers, NEW j \in Jobs, NEW us \in SUBSET Uploads, Submit(c, j, us)
      PROVE JobOk(i)'
  <2>1. /\ phase = "running" /\ phase' = phase /\ completedAt' = completedAt
        /\ status[j] = "new"
        /\ status' = [Kept EXCEPT ![j] = "queued"]
        /\ work' = [work EXCEPT ![j] = "pending"]
    BY <1>2 DEF Submit, Free
  <2>2. CASE i = j
    <3>1. status'[i] = "queued" /\ work'[i] = "pending" /\ completedAt[i] = "no"
      BY <1>1, <2>1, <2>2, KeptType, Names DEF TypeOK, JobOk, Over
    <3>2. QED
      BY <2>1, <3>1, Names DEF JobOk, Open
  <2>3. CASE i # j
    <3>1. status'[i] = Kept[i] /\ work'[i] = work[i]
      BY <2>1, <2>3, KeptType DEF TypeOK
    <3>2. CASE i \in Evictable
      BY <1>1, <2>1, <3>1, <3>2, EvictedJobs, KeptType, Names DEF JobOk, Over, Open
    <3>3. CASE i \notin Evictable
      BY <1>1, <2>1, <3>1, <3>3, KeptType DEF JobOk
    <3>4. QED
      BY <3>2, <3>3
  <2>4. QED
    BY <2>2, <2>3
<1>3. ASSUME NEW c \in Callers, Poll(c) \/ \E us \in SUBSET Uploads : SubmitRefused(c, us)
      PROVE JobOk(i)'
  <2>1. /\ phase = "running" /\ phase' = phase /\ completedAt' = completedAt
        /\ status' = Kept /\ work' = work
    BY <1>3 DEF Poll, SubmitRefused, Free
  <2>2. CASE i \in Evictable
    BY <1>1, <2>1, <2>2, EvictedJobs, KeptType, Names DEF JobOk, Over, Open
  <2>3. CASE i \notin Evictable
    BY <1>1, <2>1, <2>3, KeptType DEF JobOk
  <2>4. QED
    BY <2>2, <2>3
<1>4. ASSUME NEW c \in Callers, NEW j \in Jobs, Cancel(c, j) PROVE JobOk(i)'
  <2>1. CASE i = j /\ work[j] = "pending"
    BY <1>4, <2>1, Names DEF TypeOK, JobOk, Cancel, FutureCancelled, Over, Open, Free
  <2>2. CASE i = j /\ work[j] # "pending"
    BY <1>1, <1>4, <2>2 DEF TypeOK, JobOk, Cancel, FutureCancelled
  <2>3. CASE i # j
    BY <1>1, <1>4, <2>3 DEF TypeOK, JobOk, Cancel
  <2>4. QED
    BY <2>1, <2>2, <2>3
<1>5. ASSUME NEW c \in Callers,
             Cleanup(c) \/ GetUpload(c) \/ \E u \in Uploads : RegisterUpload(c, u)
      PROVE JobOk(i)'
  BY <1>1, <1>5, JobsUntouched DEF jobVars, JobOk
<1>6. ASSUME NEW j \in Jobs, PickUp(j) \/ CheckCancel(j) \/ Generate(j) PROVE JobOk(i)'
  <2>1. UNCHANGED <<status, completedAt, phase>>
    BY <1>6 DEF PickUp, CheckCancel, Generate
  <2>2. work'[i] = work[i] \/ (work[i] \in Unsettled /\ work'[i] \in Unsettled)
    BY <1>6, Names DEF TypeOK, PickUp, CheckCancel, Generate
  <2>3. QED
    BY <1>1, <2>1, <2>2, Names DEF JobOk, Over
<1>7. ASSUME NEW j \in Jobs, StartProcessing(j) PROVE JobOk(i)'
  BY <1>1, <1>7, Names DEF TypeOK, JobOk, StartProcessing, Known, Over, Open
<1>8. ASSUME NEW j \in Jobs, Settle(j) PROVE JobOk(i)'
  <2>1. CASE i = j
    <3>1. work'[i] = "done" /\ status'[i] \in Terminal /\ completedAt'[i] # "no"
      BY <1>8, <2>1, Names DEF TypeOK, Settle, Written
    <3>2. QED
      BY <3>1, Names DEF JobOk, Over, Open
  <2>2. CASE i # j
    BY <1>1, <1>8, <2>2 DEF TypeOK, JobOk, Settle
  <2>3. QED
    BY <2>1, <2>2
<1>9. ASSUME NEW j \in Jobs, JobExpires(j) PROVE JobOk(i)'
  BY <1>1, <1>9 DEF TypeOK, JobOk, JobExpires
<1>10. ASSUME NEW u \in Uploads, UploadExpires(u) PROVE JobOk(i)'
  BY <1>1, <1>10 DEF JobOk, UploadExpires, jobVars
<1>11. ASSUME Shutdown PROVE JobOk(i)'
  BY <1>1, <1>11, Names DEF TypeOK, JobOk, Shutdown, Over, Open
<1>12. ASSUME ShutdownExecutor PROVE JobOk(i)'
  BY <1>1, <1>12, Names DEF TypeOK, JobOk, ShutdownExecutor, Over, Open
<1>13. ASSUME UNCHANGED vars PROVE JobOk(i)'
  BY <1>1, <1>13 DEF JobOk, vars, jobVars
<1>14. QED
  BY <1>2, <1>3, <1>4, <1>5, <1>6, <1>7, <1>8, <1>9, <1>10, <1>11, <1>12, <1>13,
     NextCases DEF Call, RunJob

(* A job is submitted once, stays evicted, and is only new to begin with.  *)
LEMMA StatusStays ==
  ASSUME TypeOK, \A j \in Jobs : JobOk(j), [Next]_vars, NEW i \in Jobs
  PROVE /\ status[i] = "evicted" => status'[i] = "evicted"
        /\ status[i] # "new" => status'[i] # "new"
        /\ work'[i] \in Unsettled => work[i] \in Unsettled \/ status[i] = "new"
<1> USE Names DEF TypeOK
<1>1. ASSUME NEW c \in Callers, Call(c)
      PROVE /\ status[i] = "evicted" => status'[i] = "evicted"
            /\ status[i] # "new" => status'[i] # "new"
            /\ work'[i] \in Unsettled => work[i] \in Unsettled \/ status[i] = "new"
  <2>1. CASE \E j \in Jobs, us \in SUBSET Uploads : Submit(c, j, us)
    BY <2>1, KeptType DEF Submit
  <2>2. CASE Poll(c) \/ \E us \in SUBSET Uploads : SubmitRefused(c, us)
    BY <2>2, KeptType DEF Poll, SubmitRefused
  <2>3. CASE \E j \in Jobs : Cancel(c, j)
    BY <2>3 DEF Cancel
  <2>4. CASE GetUpload(c) \/ \E u \in Uploads : RegisterUpload(c, u)
    BY <2>4, JobsUntouched DEF jobVars
  <2>5. QED
    BY <1>1, <2>1, <2>2, <2>3, <2>4 DEF Call
<1>2. ASSUME NEW c \in Callers, Cleanup(c) PROVE UNCHANGED jobVars
  BY <1>2, JobsUntouched
<1>3. ASSUME NEW j \in Jobs, RunJob(j) \/ JobExpires(j)
      PROVE /\ status[i] = "evicted" => status'[i] = "evicted"
            /\ status[i] # "new" => status'[i] # "new"
            /\ work'[i] \in Unsettled => work[i] \in Unsettled \/ status[i] = "new"
  BY <1>3 DEF RunJob, JobExpires, PickUp, CheckCancel, StartProcessing, Generate, Settle,
              Written, Known
<1>4. ASSUME Shutdown \/ ShutdownExecutor
      PROVE /\ status[i] = "evicted" => status'[i] = "evicted"
            /\ status[i] # "new" => status'[i] # "new"
            /\ work'[i] \in Unsettled => work[i] \in Unsettled \/ status[i] = "new"
  BY <1>4 DEF Shutdown, ShutdownExecutor
<1>5. ASSUME (\E u \in Uploads : UploadExpires(u)) \/ UNCHANGED vars PROVE UNCHANGED jobVars
  BY <1>5 DEF UploadExpires, vars
<1>6. QED
  BY <1>1, <1>2, <1>3, <1>4, <1>5, NextCases DEF jobVars
-----------------------------------------------------------------------------
(* A step that leaves the uploads alone keeps what is said of them.        *)
LEMMA UploadsUntouched ==
  ASSUME TypeOK, \A j \in Jobs : JobOk(j), [Next]_vars, NEW u \in Uploads, UploadOk(u),
         UNCHANGED uploadVars
  PROVE UploadOk(u)'
<1>1. claim' = claim /\ uploads' = uploads /\ expired' = expired /\ files' = files
      /\ pendingUploads' = pendingUploads
  BY DEF uploadVars
<1>2. CASE claim[u] = None
  BY <1>1, <1>2 DEF UploadOk
<1>3. CASE claim[u] # None
  <2>1. claim[u] \in Jobs
    BY <1>3 DEF TypeOK
  <2>2. /\ status'[claim[u]] # "new"
        /\ work'[claim[u]] \in Unsettled => work[claim[u]] \in Unsettled
    BY <1>3, <2>1, StatusStays DEF UploadOk
  <2>3. QED
    BY <1>1, <2>2 DEF UploadOk
<1>4. QED
  BY <1>2, <1>3

(* The steps that do.                                                      *)
LEMMA UploadsTouched ==
  ASSUME [Next]_vars
  PROVE \/ UNCHANGED uploadVars
        \/ \E c \in Callers :
             \/ \E u \in Uploads :
                  RegisterUpload(c, u) \/ DeleteClaimedUpload(c, u) \/ DeleteUpload(c, u)
             \/ \E j \in Jobs, us \in SUBSET Uploads : Submit(c, j, us)
             \/ Poll(c) \/ GetUpload(c) \/ \E us \in SUBSET Uploads : SubmitRefused(c, us)
             \/ UploadDeleted(c)
        \/ \E u \in Uploads : UploadExpires(u)
<1>1. ASSUME NEW c \in Callers, \E j \in Jobs : Cancel(c, j) \/ DeleteOutput(c, j)
      PROVE UNCHANGED uploadVars
  BY <1>1 DEF Cancel, DeleteOutput
<1>2. ASSUME NEW c \in Callers, OutputCleaned(c) PROVE UNCHANGED uploadVars
  BY <1>2 DEF OutputCleaned
<1>3. ASSUME NEW j \in Jobs, RunJob(j) \/ JobExpires(j) PROVE UNCHANGED uploadVars
  BY <1>3 DEF RunJob, JobExpires, PickUp, CheckCancel, StartProcessing, Generate, Settle
<1>4. ASSUME Shutdown \/ ShutdownExecutor PROVE UNCHANGED uploadVars
  BY <1>4 DEF Shutdown, ShutdownExecutor
<1>5. ASSUME UNCHANGED vars PROVE UNCHANGED uploadVars
  BY <1>5 DEF vars
<1>6. QED
  BY <1>1, <1>2, <1>3, <1>4, <1>5, NextCases DEF Call, Cleanup

(* A claimed upload of unsettled work is registered and on disk: the       *)
(* argument for one upload v and one step.                                 *)
LEMMA UploadsStep ==
  ASSUME Inductive, [Next]_vars, NEW v \in Uploads
  PROVE UploadOk(v)'
<1>1. /\ UploadOk(v) /\ TypeOK /\ (\A j \in Jobs : JobOk(j)) /\ \A c \in Callers : CallerOk(c)
  BY DEF Inductive
<1>2. /\ claim[v] \in Jobs \cup {None}
      /\ \A j \in Jobs : status[j] # "new" => status'[j] # "new"
      /\ \A j \in Jobs : status[j] # "new" /\ work'[j] \in Unsettled => work[j] \in Unsettled
  BY <1>1, StatusStays DEF TypeOK
<1>3. ASSUME NEW c \in Callers, NEW u \in Uploads, RegisterUpload(c, u) PROVE UploadOk(v)'
  BY <1>1, <1>2, <1>3 DEF RegisterUpload, UploadOk, jobVars
<1>4. ASSUME NEW c \in Callers, NEW j \in Jobs, NEW us \in SUBSET Uploads, Submit(c, j, us)
      PROVE UploadOk(v)'
  <2>1. /\ uploads' = uploads /\ files' = files /\ expired' = expired
        /\ pendingUploads' = pendingUploads \cup {u \in uploads \cap expired : claim[u] = None}
        /\ \A u \in us : u \in uploads /\ u \notin pendingUploads' /\ claim[u] = None
        /\ claim'[v] = IF v \in us THEN j ELSE claim[v]
    BY <1>4 DEF Submit, EvictUnclaimedUploads, Claimable
  <2>2. status'[j] = "queued"
    BY <1>1, <1>4, KeptType DEF Submit, TypeOK
  <2>3. CASE v \in us
    <3>1. v \in uploads \cap files /\ v \notin pendingUploads' /\ claim'[v] = j /\ j # None
      BY <1>1, <2>1, <2>3, ServiceAssumption DEF UploadOk
    <3>2. QED
      BY <2>1, <2>2, <3>1 DEF UploadOk
  <2>4. CASE v \notin us
    BY <1>1, <1>2, <2>1, <2>4 DEF UploadOk
  <2>5. QED
    BY <2>3, <2>4
<1>5. ASSUME NEW c \in Callers,
             Poll(c) \/ GetUpload(c) \/ \E us \in SUBSET Uploads : SubmitRefused(c, us)
      PROVE UploadOk(v)'
  <2>1. /\ uploads' = uploads /\ files' = files /\ expired' = expired /\ claim' = claim
        /\ pendingUploads' = pendingUploads \cup {u \in uploads \cap expired : claim[u] = None}
    BY <1>5 DEF Poll, GetUpload, SubmitRefused, EvictUnclaimedUploads
  <2>2. QED
    BY <1>1, <1>2, <2>1 DEF UploadOk
<1>6. ASSUME NEW c \in Callers, NEW u \in Uploads, DeleteClaimedUpload(c, u) PROVE UploadOk(v)'
  <2>1. /\ UNCHANGED <<status, work, uploads, claim, expired, pendingUploads>>
        /\ files' = files \ {u} \/ files' = files
        /\ cleaning[c].job # None /\ claim[u] = cleaning[c].job
    BY <1>6 DEF DeleteClaimedUpload, jobVars, ClaimedBy
  <2>2. claim[u] \in Jobs /\ status[claim[u]] = "evicted"
    BY <1>1, <2>1 DEF CallerOk, TypeOK
  <2>3. work[claim[u]] \notin Unsettled
    BY <1>1, <2>2, Names DEF JobOk, Over
  <2>4. QED
    BY <1>1, <2>1, <2>3 DEF UploadOk
<1>7. ASSUME NEW c \in Callers, NEW u \in Uploads, DeleteUpload(c, u) PROVE UploadOk(v)'
  <2>1. /\ UNCHANGED <<status, work, uploads, claim, expired>>
        /\ \/ u \notin uploads /\ pendingUploads' = pendingUploads \ {u} /\ files' = files
           \/ /\ u \in uploads /\ pendingUploads' = pendingUploads
              /\ files' = files \ {u} \/ files' = files
        /\ u \in todo[c].uploads
    BY <1>7 DEF DeleteUpload, jobVars
  <2>2. Lost(u)
    BY <1>1, <2>1 DEF CallerOk
  <2>3. QED
    BY <1>1, <2>1, <2>2 DEF UploadOk, Lost
<1>8. ASSUME NEW c \in Callers, UploadDeleted(c) PROVE UploadOk(v)'
  <2> DEFINE u == cleaning[c].upload
  <2>1. /\ UNCHANGED <<status, work, claim, expired, files>> /\ u # None
        /\ uploads' = uploads \ {u}
        /\ pendingUploads' =
             IF cleaning[c].job = None THEN pendingUploads \ {u} ELSE pendingUploads
    BY <1>8 DEF UploadDeleted, jobVars
  <2>2. /\ cleaning[c].job = None => Lost(u)
        /\ cleaning[c].job # None => claim[u] = cleaning[c].job
                                     /\ status[cleaning[c].job] = "evicted"
        /\ cleaning[c].job \in Jobs \cup {None}
    BY <1>1, <2>1 DEF CallerOk, TypeOK
  <2>3. claim[u] # None => work[claim[u]] \notin Unsettled
    BY <1>1, <2>2, Names DEF JobOk, Over, Lost
  <2> HIDE DEF u
  <2>4. QED
    BY <1>1, <2>1, <2>3 DEF UploadOk
<1>9. ASSUME NEW u \in Uploads, UploadExpires(u) PROVE UploadOk(v)'
  BY <1>1, <1>9 DEF UploadExpires, UploadOk, jobVars
<1>10. ASSUME UNCHANGED uploadVars PROVE UploadOk(v)'
  BY <1>1, <1>10, UploadsUntouched
<1>11. QED
  BY <1>3, <1>4, <1>5, <1>6, <1>7, <1>8, <1>9, <1>10, UploadsTouched
-----------------------------------------------------------------------------
(* An upload is claimed once, and one that is lost stays so.               *)
LEMMA ClaimsStay ==
  ASSUME Inductive, [Next]_vars, NEW v \in Uploads
  PROVE /\ claim[v] # None => claim'[v] = claim[v]
        /\ Lost(v) => Lost(v)'
<1>1. TypeOK /\ UploadOk(v) /\ \A c \in Callers : CallerOk(c)
  BY DEF Inductive
<1>2. CASE UNCHANGED uploadVars
  BY <1>2 DEF uploadVars, Lost
<1>3. ASSUME NEW c \in Callers, NEW j \in Jobs, NEW us \in SUBSET Uploads, Submit(c, j, us)
      PROVE /\ claim[v] # None => claim'[v] = claim[v]
            /\ Lost(v) => Lost(v)'
  BY <1>1, <1>3 DEF Submit, EvictUnclaimedUploads, Claimable, Lost
<1>4. ASSUME NEW c \in Callers, NEW u \in Uploads,
             RegisterUpload(c, u) \/ DeleteClaimedUpload(c, u) \/ DeleteUpload(c, u)
      PROVE claim' = claim /\ (Lost(v) => Lost(v)')
  BY <1>4 DEF RegisterUpload, DeleteClaimedUpload, DeleteUpload, Lost
<1>5. ASSUME NEW c \in Callers,
             Poll(c) \/ GetUpload(c) \/ \E us \in SUBSET Uploads : SubmitRefused(c, us)
      PROVE claim' = claim /\ (Lost(v) => Lost(v)')
  BY <1>5 DEF Poll, GetUpload, SubmitRefused, EvictUnclaimedUploads, Lost
<1>6. ASSUME NEW c \in Callers, UploadDeleted(c) PROVE claim' = claim /\ (Lost(v) => Lost(v)')
  BY <1>6 DEF UploadDeleted, Lost
<1>7. ASSUME NEW u \in Uploads, UploadExpires(u) PROVE claim' = claim /\ (Lost(v) => Lost(v)')
  BY <1>7 DEF UploadExpires, Lost
<1>8. QED
  BY <1>2, <1>3, <1>4, <1>5, <1>6, <1>7, UploadsTouched

(* What a caller has to clean and is deleting comes from the lists made    *)
(* under the lock.                                                         *)
Lists(d) ==
  /\ todo'[d].jobs \subseteq todo[d].jobs \cup pendingOutputs'
  /\ todo'[d].uploads \subseteq todo[d].uploads \cup pendingUploads'
Deletes(d) ==
  /\ cleaning'[d].job # None =>
       \/ cleaning'[d].job = cleaning[d].job
       \/ cleaning'[d].job \in todo[d].jobs /\ cleaning'[d].job \notin outputs'
  /\ cleaning'[d].upload # None =>
       \/ cleaning'[d] = cleaning[d]
       \/ cleaning'[d].job = None /\ cleaning'[d].upload \in todo[d].uploads
       \/ cleaning'[d].job # None /\ claim[cleaning'[d].upload] = cleaning'[d].job

(* So it is in every step.                                                 *)
LEMMA CallersMove ==
  ASSUME TypeOK, [Next]_vars, NEW d \in Callers
  PROVE Lists(d) /\ Deletes(d)
<1>1. CASE UNCHANGED callerVars
  BY <1>1 DEF callerVars, Lists, Deletes
<1>2. ASSUME NEW c \in Callers,
             Poll(c) \/ \E j \in Jobs, us \in SUBSET Uploads : Submit(c, j, us)
      PROVE Lists(d) /\ Deletes(d)
  <2>1. todo' = [todo EXCEPT ![c] = [jobs |-> pendingOutputs', uploads |-> pendingUploads']]
        /\ cleaning' = cleaning
    BY <1>2 DEF Poll, Submit, ListCleanup
  <2>2. todo'[d] = todo[d] \/ todo'[d] = [jobs |-> pendingOutputs', uploads |-> pendingUploads']
    BY <2>1 DEF TypeOK
  <2>3. QED
    BY <2>1, <2>2 DEF Lists, Deletes
<1>3. ASSUME NEW c \in Callers, GetUpload(c) PROVE Lists(d) /\ Deletes(d)
  <2>1. /\ todo' = [todo EXCEPT ![c].uploads = pendingUploads'] /\ cleaning' = cleaning
        /\ pendingUploads' \in SUBSET Uploads
    BY <1>3, EvictTypes DEF GetUpload
  <2>2. QED
    BY <2>1, TodoUploads DEF Lists, Deletes
<1>4. ASSUME NEW c \in Callers, NEW j \in Jobs, DeleteOutput(c, j)
      PROVE Lists(d) /\ Deletes(d)
  <2>1. /\ todo' = [todo EXCEPT ![c].jobs = todo[c].jobs \ {j}]
        /\ todo[c].jobs \ {j} \in SUBSET Jobs
        /\ cleaning[c] = Resting /\ j \in todo[c].jobs
        /\ \/ cleaning' = [cleaning EXCEPT ![c].job = j] /\ outputs' = outputs \ {j}
           \/ cleaning' = cleaning
    BY <1>4 DEF DeleteOutput, TypeOK
  <2>2. Lists(d)
    BY <2>1, TodoJobs DEF Lists
  <2>3. CASE cleaning' = [cleaning EXCEPT ![c].job = j] /\ outputs' = outputs \ {j}
    <3>1. /\ cleaning'[c].job = j /\ cleaning'[c].upload = cleaning[c].upload
          /\ d # c => cleaning'[d] = cleaning[d]
      BY <2>3, CleaningJob
    <3>2. QED
      BY <2>1, <2>2, <2>3, <3>1 DEF Deletes, Resting
  <2>4. CASE cleaning' = cleaning
    BY <2>2, <2>4 DEF Deletes
  <2>5. QED
    BY <2>1, <2>2, <2>3, <2>4
<1>5. ASSUME NEW c \in Callers, NEW u \in Uploads, DeleteClaimedUpload(c, u)
      PROVE Lists(d) /\ Deletes(d)
  <2>1. /\ todo' = todo /\ cleaning[c].job # None /\ claim[u] = cleaning[c].job
        /\ \/ cleaning' = [cleaning EXCEPT ![c].upload = u]
           \/ cleaning' = [cleaning EXCEPT ![c] = Resting]
    BY <1>5 DEF DeleteClaimedUpload, ClaimedBy
  <2>2. \/ d # c /\ cleaning'[d] = cleaning[d]
        \/ d = c /\ cleaning'[c].job = cleaning[c].job /\ cleaning'[c].upload = u
        \/ d = c /\ cleaning'[c].job = None /\ cleaning'[c].upload = None
    BY <2>1, CleaningUpload, CleaningRests
  <2>3. QED
    BY <2>1, <2>2 DEF Lists, Deletes
<1>6. ASSUME NEW c \in Callers, NEW u \in Uploads, DeleteUpload(c, u)
      PROVE Lists(d) /\ Deletes(d)
  <2>1. /\ todo' = [todo EXCEPT ![c].uploads = todo[c].uploads \ {u}]
        /\ todo[c].uploads \ {u} \in SUBSET Uploads
        /\ cleaning[c] = Resting /\ u \in todo[c].uploads
        /\ cleaning' = [cleaning EXCEPT ![c].upload = u] \/ cleaning' = cleaning
    BY <1>6 DEF DeleteUpload, TypeOK
  <2>2. Lists(d)
    BY <2>1, TodoUploads DEF Lists
  <2>3. CASE cleaning' = [cleaning EXCEPT ![c].upload = u]
    <3>1. /\ cleaning'[c].upload = u /\ cleaning'[c].job = cleaning[c].job
          /\ d # c => cleaning'[d] = cleaning[d]
      BY <2>3, CleaningUpload
    <3>2. QED
      BY <2>1, <2>2, <3>1 DEF Deletes, Resting
  <2>4. CASE cleaning' = cleaning
    BY <2>2, <2>4 DEF Deletes
  <2>5. QED
    BY <2>1, <2>2, <2>3, <2>4
<1>7. ASSUME NEW c \in Callers, OutputCleaned(c) PROVE Lists(d) /\ Deletes(d)
  <2>1. todo' = todo /\ cleaning' = [cleaning EXCEPT ![c] = Resting]
    BY <1>7 DEF OutputCleaned
  <2>2. QED
    BY <2>1, CleaningRests DEF Lists, Deletes
<1>8. ASSUME NEW c \in Callers, UploadDeleted(c) PROVE Lists(d) /\ Deletes(d)
  <2>1. todo' = todo /\ cleaning' = [cleaning EXCEPT ![c].upload = None]
    BY <1>8 DEF UploadDeleted
  <2>2. QED
    BY <2>1, CleaningUpload DEF Lists, Deletes
<1>9. ASSUME NEW c \in Callers,
             \/ \E u \in Uploads : RegisterUpload(c, u)
             \/ \E us \in SUBSET Uploads : SubmitRefused(c, us)
             \/ \E j \in Jobs : Cancel(c, j)
      PROVE UNCHANGED callerVars
  BY <1>9 DEF RegisterUpload, SubmitRefused, Cancel
<1>10. ASSUME NEW j \in Jobs, RunJob(j) \/ JobExpires(j) PROVE UNCHANGED callerVars
  BY <1>10 DEF RunJob, JobExpires, PickUp, CheckCancel, StartProcessing, Generate, Settle
<1>11. ASSUME Shutdown \/ ShutdownExecutor \/ UNCHANGED vars \/ \E u \in Uploads : UploadExpires(u)
       PROVE UNCHANGED callerVars
  BY <1>11 DEF Shutdown, ShutdownExecutor, UploadExpires, vars
<1>12. QED
  BY <1>1, <1>2, <1>3, <1>4, <1>5, <1>6, <1>7, <1>8, <1>9, <1>10, <1>11, NextCases
  DEF Call, Cleanup
-----------------------------------------------------------------------------
(* Jobs become pending for cleanup when they are evicted, and their        *)
(* directories do not come back.                                           *)
LEMMA OutputsMove ==
  ASSUME TypeOK, [Next]_vars
  PROVE /\ \A j \in pendingOutputs' : j \in pendingOutputs \/ (j \in Jobs /\ status'[j] = "evicted")
        /\ \A j \in outputs' : j \in outputs \/ (j \in Jobs /\ status'[j] # "evicted")
<1>1. CASE UNCHANGED outputVars
  BY <1>1 DEF outputVars
<1>2. ASSUME NEW c \in Callers, NEW j \in Jobs, NEW us \in SUBSET Uploads, Submit(c, j, us)
      PROVE /\ \A i \in pendingOutputs' : i \in pendingOutputs
                                          \/ (i \in Jobs /\ status'[i] = "evicted")
            /\ outputs' = outputs
  <2>1. \A i \in Evictable : i \in Jobs /\ i # j /\ status'[i] = "evicted"
    BY <1>2, KeptType DEF Submit, TypeOK
  <2>2. QED
    BY <1>2, <2>1 DEF Submit, EvictTerminal
<1>3. ASSUME NEW c \in Callers, Poll(c) \/ \E us \in SUBSET Uploads : SubmitRefused(c, us)
      PROVE /\ \A i \in pendingOutputs' : i \in pendingOutputs
                                          \/ (i \in Jobs /\ status'[i] = "evicted")
            /\ outputs' = outputs
  BY <1>3, KeptType DEF Poll, SubmitRefused, EvictTerminal
<1>4. ASSUME NEW c \in Callers, (\E j \in Jobs : DeleteOutput(c, j)) \/ OutputCleaned(c)
      PROVE pendingOutputs' \subseteq pendingOutputs /\ outputs' \subseteq outputs
  BY <1>4 DEF DeleteOutput, OutputCleaned
<1>5. ASSUME NEW j \in Jobs, StartProcessing(j)
      PROVE pendingOutputs' = pendingOutputs /\ outputs' = outputs \cup {j}
            /\ status'[j] # "evicted"
  BY <1>5 DEF StartProcessing, TypeOK
<1>6. ASSUME NEW c \in Callers,
             \/ GetUpload(c) \/ UploadDeleted(c) \/ \E j \in Jobs : Cancel(c, j)
             \/ \E u \in Uploads :
                  RegisterUpload(c, u) \/ DeleteClaimedUpload(c, u) \/ DeleteUpload(c, u)
      PROVE UNCHANGED outputVars
  BY <1>6 DEF GetUpload, UploadDeleted, Cancel, RegisterUpload, DeleteClaimedUpload, DeleteUpload
<1>7. ASSUME NEW j \in Jobs,
             PickUp(j) \/ CheckCancel(j) \/ Generate(j) \/ Settle(j) \/ JobExpires(j)
      PROVE UNCHANGED outputVars
  BY <1>7 DEF JobExpires, PickUp, CheckCancel, Generate, Settle
<1>8. ASSUME Shutdown \/ ShutdownExecutor \/ UNCHANGED vars \/ \E u \in Uploads : UploadExpires(u)
      PROVE UNCHANGED outputVars
  BY <1>8 DEF Shutdown, ShutdownExecutor, UploadExpires, vars
<1>9. QED
  BY <1>1, <1>2, <1>3, <1>4, <1>5, <1>6, <1>7, <1>8, NextCases DEF Call, Cleanup, RunJob

(* What a caller deletes stays what nobody needs.                          *)
LEMMA CallersStep ==
  ASSUME Inductive, [Next]_vars, \A u \in Uploads : UploadOk(u)', NEW d \in Callers
  PROVE CallerOk(d)'
<1>1. /\ TypeOK /\ (\A j \in Jobs : JobOk(j)) /\ CallerOk(d)
      /\ \A j \in pendingOutputs : j \in Jobs /\ status[j] = "evicted"
  BY DEF Inductive, TypeOK
<1>2. TypeOK'
  BY <1>1, TypeStep
<1>3. Lists(d) /\ Deletes(d)
  BY <1>1, CallersMove
<1>4. \A j \in Jobs : status[j] = "evicted" => status'[j] = "evicted"
  BY <1>1, StatusStays
<1>5. \A j \in todo[d].jobs \cup pendingOutputs' : j \in Jobs /\ status'[j] = "evicted"
  BY <1>1, <1>4, OutputsMove DEF CallerOk, TypeOK
<1>6. \A u \in todo[d].uploads \cup pendingUploads' : u \in Uploads /\ Lost(u)'
  <2>1. \A u \in todo[d].uploads : u \in Uploads /\ Lost(u)'
    BY <1>1, ClaimsStay DEF CallerOk, TypeOK
  <2>2. \A u \in pendingUploads' : u \in Uploads /\ Lost(u)'
    BY <1>2 DEF UploadOk, Lost, TypeOK
  <2>3. QED
    BY <2>1, <2>2
<1>7. (\A j \in todo[d].jobs : status[j] = "evicted")'
  BY <1>3, <1>5 DEF Lists
<1>8. (\A u \in todo[d].uploads : Lost(u))'
  BY <1>3, <1>6 DEF Lists
<1>9. (cleaning[d].job # None =>
        status[cleaning[d].job] = "evicted" /\ cleaning[d].job \notin outputs)'
  <2>1. CASE cleaning'[d].job = cleaning[d].job /\ cleaning[d].job # None
    <3>1. cleaning[d].job \in Jobs /\ status[cleaning[d].job] = "evicted"
          /\ cleaning[d].job \notin outputs
      BY <1>1, <2>1 DEF CallerOk, TypeOK
    <3>2. QED
      BY <1>1, <1>4, <2>1, <3>1, OutputsMove
  <2>2. CASE cleaning'[d].job \in todo[d].jobs /\ cleaning'[d].job \notin outputs'
    BY <1>5, <2>2
  <2>3. QED
    BY <1>3, <2>1, <2>2 DEF Deletes
<1>10. (cleaning[d].upload # None =>
         IF cleaning[d].job = None THEN Lost(cleaning[d].upload)
         ELSE claim[cleaning[d].upload] = cleaning[d].job)'
  <2>1. CASE cleaning'[d] = cleaning[d] /\ cleaning[d].upload # None
    <3>1. cleaning[d].upload \in Uploads /\ cleaning[d].job \in Jobs \cup {None}
      BY <1>1, <2>1 DEF TypeOK
    <3>2. QED
      BY <1>1, <2>1, <3>1, ClaimsStay DEF CallerOk
  <2>2. CASE cleaning'[d].job = None /\ cleaning'[d].upload \in todo[d].uploads
    BY <1>6, <2>2
  <2>3. CASE /\ cleaning'[d].job # None /\ cleaning'[d].upload # None
             /\ claim[cleaning'[d].upload] = cleaning'[d].job
    <3>1. cleaning'[d].upload \in Uploads
      BY <1>2, <2>3 DEF TypeOK
    <3>2. QED
      BY <2>3, <3>1, ClaimsStay
  <2>4. QED
    BY <1>3, <2>1, <2>2, <2>3 DEF Deletes
<1>11. QED
  BY <1>7, <1>8, <1>9, <1>10 DEF CallerOk

(* The uploads of a job are claimed before it is evicted.                  *)
LEMMA OrphansStep ==
  ASSUME Inductive, [Next]_vars
  PROVE NothingOrphaned'
<1>1. TypeOK /\ NothingOrphaned /\ (\A j \in Jobs : JobOk(j)) /\ \A c \in Callers : CallerOk(c)
  BY DEF Inductive
<1> SUFFICES ASSUME NEW i \in Jobs, status'[i] = "evicted",
                    i \in outputs' \/ ClaimedBy(i)' # {}
             PROVE i \in pendingOutputs'
  BY DEF NothingOrphaned, WithStatus
<1>2. status[i] = "evicted" =>
        (i \in outputs \/ ClaimedBy(i) # {} => i \in pendingOutputs)
  BY <1>1 DEF NothingOrphaned, WithStatus
<1>3. i \in outputs' => i \in outputs
  BY <1>1, OutputsMove
<1>4. ASSUME NEW c \in Callers, NEW j \in Jobs, NEW us \in SUBSET Uploads, Submit(c, j, us)
      PROVE i \in pendingOutputs'
  <2>1. i # j /\ (i \in Evictable \/ status[i] = "evicted")
    BY <1>1, <1>4, KeptType DEF Submit, TypeOK
  <2>2. ClaimedBy(i)' \subseteq ClaimedBy(i)
    <3>1. uploads' = uploads /\ \A u \in Uploads : claim'[u] = j \/ claim'[u] = claim[u]
      BY <1>4 DEF Submit
    <3>2. uploads \subseteq Uploads
      BY <1>1 DEF TypeOK
    <3>3. QED
      BY <2>1, <3>1, <3>2 DEF ClaimedBy
  <2>3. QED
    BY <1>2, <1>3, <1>4, <2>1, <2>2 DEF Submit, EvictTerminal
<1>5. ASSUME NEW c \in Callers, Poll(c) \/ \E us \in SUBSET Uploads : SubmitRefused(c, us)
      PROVE i \in pendingOutputs'
  <2>1. i \in Evictable \/ status[i] = "evicted"
    BY <1>1, <1>5, KeptType DEF Poll, SubmitRefused
  <2>2. ClaimedBy(i)' = ClaimedBy(i)
    BY <1>5 DEF Poll, SubmitRefused, ClaimedBy
  <2>3. QED
    BY <1>2, <1>3, <1>5, <2>1, <2>2 DEF Poll, SubmitRefused, EvictTerminal
<1>6. ASSUME NEW c \in Callers, OutputCleaned(c) PROVE i \in pendingOutputs'
  <2>1. /\ status' = status /\ uploads' = uploads /\ claim' = claim
        /\ pendingOutputs' = pendingOutputs \ {cleaning[c].job}
        /\ ClaimedBy(cleaning[c].job) = {} /\ cleaning[c].job # None
    BY <1>6 DEF OutputCleaned, jobVars, uploadVars
  <2>2. cleaning[c].job \notin outputs
    BY <1>1, <2>1 DEF CallerOk
  <2>3. ClaimedBy(i)' = ClaimedBy(i)
    BY <2>1 DEF ClaimedBy
  <2>4. QED
    BY <1>2, <1>3, <2>1, <2>2, <2>3
<1>7. ASSUME NEW c \in Callers, NEW u \in Uploads, RegisterUpload(c, u) PROVE i \in pendingOutputs'
  <2>1. ClaimedBy(i)' = ClaimedBy(i)
    <3>1. claim' = claim /\ uploads' = uploads \cup {u} /\ claim[u] = None /\ None \notin Jobs
      BY <1>7, ServiceAssumption DEF RegisterUpload
    <3>2. QED
      BY <3>1 DEF ClaimedBy
  <2>2. QED
    BY <1>2, <1>3, <1>7, <2>1 DEF RegisterUpload, jobVars, outputVars
<1>8. ASSUME NEW c \in Callers,
             \/ UploadDeleted(c) \/ GetUpload(c)
             \/ \E u \in Uploads : DeleteClaimedUpload(c, u) \/ DeleteUpload(c, u)
             \/ \E j \in Jobs : DeleteOutput(c, j)
      PROVE i \in pendingOutputs'
  <2>1. status' = status /\ pendingOutputs' = pendingOutputs /\ claim' = claim
        /\ uploads' \subseteq uploads
    BY <1>8 DEF UploadDeleted, GetUpload, DeleteClaimedUpload, DeleteUpload, DeleteOutput,
                jobVars, outputVars, uploadVars
  <2>2. ClaimedBy(i)' \subseteq ClaimedBy(i)
    BY <2>1 DEF ClaimedBy
  <2>3. QED
    BY <1>2, <1>3, <2>1, <2>2
<1>9. ASSUME /\ pendingOutputs' = pendingOutputs /\ UNCHANGED uploadVars
             /\ status'[i] = status[i]
      PROVE i \in pendingOutputs'
  <2>1. ClaimedBy(i)' = ClaimedBy(i)
    BY <1>9 DEF ClaimedBy, uploadVars
  <2>2. QED
    BY <1>2, <1>3, <1>9, <2>1
<1>10. ASSUME NEW j \in Jobs, RunJob(j) \/ JobExpires(j) PROVE i \in pendingOutputs'
  <2>1. status[i] = "evicted"
    BY <1>1, <1>10, Names
    DEF RunJob, JobExpires, PickUp, CheckCancel, StartProcessing, Generate, Settle, Written, TypeOK
  <2>2. pendingOutputs' = pendingOutputs /\ UNCHANGED uploadVars
    BY <1>10 DEF RunJob, JobExpires, PickUp, CheckCancel, StartProcessing, Generate, Settle,
                 outputVars
  <2>3. QED
    BY <1>9, <2>1, <2>2
<1>11. ASSUME NEW c \in Callers, NEW j \in Jobs, Cancel(c, j) PROVE i \in pendingOutputs'
  <2>1. status[i] = "evicted"
    BY <1>1, <1>11 DEF Cancel, TypeOK
  <2>2. QED
    BY <1>9, <1>11, <2>1 DEF Cancel, outputVars
<1>12. ASSUME Shutdown \/ ShutdownExecutor PROVE i \in pendingOutputs'
  <2>1. status[i] = "evicted"
    BY <1>12 DEF Shutdown, ShutdownExecutor
  <2>2. QED
    BY <1>9, <1>12, <2>1 DEF Shutdown, ShutdownExecutor, outputVars
<1>13. ASSUME NEW u \in Uploads, UploadExpires(u) PROVE i \in pendingOutputs'
  <2>1. status' = status /\ pendingOutputs' = pendingOutputs /\ ClaimedBy(i)' = ClaimedBy(i)
    BY <1>13 DEF UploadExpires, jobVars, outputVars, ClaimedBy
  <2>2. QED
    BY <1>2, <1>3, <2>1
<1>14. ASSUME UNCHANGED vars PROVE i \in pendingOutputs'
  BY <1>9, <1>14 DEF vars, jobVars, outputVars
<1>15. QED
  BY <1>4, <1>5, <1>6, <1>7, <1>8, <1>10, <1>11, <1>12, <1>13, <1>14, NextCases
  DEF Call, Cleanup
-----------------------------------------------------------------------------
(* The service starts with empty tables.                                   *)
LEMMA InductiveInit == Init => Inductive
<1> SUFFICES ASSUME Init PROVE Inductive
  OBVIOUS
<1>1. TypeOK
  BY Names DEF Init, TypeOK, Nothing, Resting
<1>2. ASSUME NEW j \in Jobs PROVE JobOk(j)
  BY Names DEF Init, JobOk, Open
<1>3. ASSUME NEW u \in Uploads PROVE UploadOk(u)
  BY DEF Init, UploadOk
<1>4. ASSUME NEW c \in Callers PROVE CallerOk(c)
  BY DEF Init, CallerOk, Nothing, Resting
<1>5. pendingOutputs = {} /\ NothingOrphaned
  BY DEF Init, NothingOrphaned, WithStatus
<1>6. QED
  BY <1>1, <1>2, <1>3, <1>4, <1>5 DEF Inductive

(* Every step keeps the invariant.                                         *)
LEMMA InductiveStep ==
  ASSUME Inductive, [Next]_vars
  PROVE Inductive'
<1>1. TypeOK /\ (\A j \in Jobs : JobOk(j)) /\ \A j \in pendingOutputs : j \in Jobs /\ status[j] = "evicted"
  BY DEF Inductive, TypeOK
<1>2. TypeOK'
  BY <1>1, TypeStep
<1>3. (\A j \in Jobs : JobOk(j))'
  BY <1>1, JobsStep
<1>4. (\A j \in pendingOutputs : status[j] = "evicted")'
  BY <1>1, OutputsMove, StatusStays
<1>5. \A u \in Uploads : UploadOk(u)'
  BY UploadsStep
<1>6. (\A c \in Callers : CallerOk(c))'
  BY <1>5, CallersStep
<1>7. NothingOrphaned'
  BY OrphansStep
<1>8. QED
  BY <1>2, <1>3, <1>4, <1>5, <1>6, <1>7 DEF Inductive

(* The inductive invariant: the status of a job, its work and what callers *)
(* are deleting agree, for any order of their critical sections.           *)
THEOREM InductiveHolds == Spec => []Inductive
  BY InductiveInit, InductiveStep, PTL DEF Spec

(* The tables of the service keep their types.                             *)
THEOREM TypeCorrect == Spec => []TypeOK
<1>1. Inductive => TypeOK
  BY DEF Inductive
<1>2. QED
  BY <1>1, InductiveHolds, PTL

(* No cleanup deletes the input of a job that may still read it.           *)
THEOREM InputsCorrect == Spec => []InputsKept
<1>1. Inductive => InputsKept
  BY DEF Inductive, InputsKept, UploadOk
<1>2. QED
  BY <1>1, InductiveHolds, PTL

(* What is left of an evicted job is on the list of what is to be cleaned. *)
THEOREM OrphansCorrect == Spec => []NothingOrphaned
<1>1. Inductive => NothingOrphaned
  BY DEF Inductive
<1>2. QED
  BY <1>1, InductiveHolds, PTL

(* A job is evicted only when no thread will write its status or its       *)
(* directory again.                                                        *)
THEOREM EvictedCorrect == Spec => []EvictedIsOver
<1>1. Inductive => EvictedIsOver
  BY DEF Inductive, EvictedIsOver, JobOk, WithStatus, Over
<1>2. QED
  BY <1>1, InductiveHolds, PTL

(* How a job ended is not rewritten: one step.                             *)
LEMMA ResultStep ==
  ASSUME Inductive, [Next]_vars, NEW i \in Jobs, phase = "running", status[i] \in Terminal
  PROVE status'[i] \in {status[i], "evicted"}
<1>1. TypeOK /\ JobOk(i)
  BY DEF Inductive
<1>2. work[i] \in Over
  BY <1>1 DEF JobOk
<1>3. ASSUME NEW c \in Callers, NEW j \in Jobs, NEW us \in SUBSET Uploads, Submit(c, j, us)
      PROVE status'[i] \in {status[i], "evicted"}
  BY <1>1, <1>3, KeptType, Names DEF Submit, TypeOK
<1>4. ASSUME NEW c \in Callers, Poll(c) \/ \E us \in SUBSET Uploads : SubmitRefused(c, us)
      PROVE status'[i] \in {status[i], "evicted"}
  BY <1>1, <1>4, KeptType DEF Poll, SubmitRefused
<1>5. ASSUME NEW c \in Callers, NEW j \in Jobs, Cancel(c, j)
      PROVE status'[i] \in {status[i], "evicted"}
  BY <1>1, <1>5, Names DEF Cancel, TypeOK
<1>6. ASSUME NEW c \in Callers,
             Cleanup(c) \/ GetUpload(c) \/ \E u \in Uploads : RegisterUpload(c, u)
      PROVE status' = status
  BY <1>6, JobsUntouched DEF jobVars
<1>7. ASSUME NEW j \in Jobs, RunJob(j) \/ JobExpires(j) PROVE status'[i] = status[i]
  BY <1>1, <1>2, <1>7, Names
  DEF RunJob, JobExpires, PickUp, CheckCancel, StartProcessing, Generate, Settle, Over, TypeOK
<1>8. ASSUME Shutdown PROVE status'[i] = status[i]
  BY <1>8, Names DEF Shutdown
<1>9. ASSUME ShutdownExecutor \/ UNCHANGED vars \/ \E u \in Uploads : UploadExpires(u)
      PROVE status' = status
  BY <1>9 DEF ShutdownExecutor, UploadExpires, vars, jobVars
<1>10. QED
  BY <1>3, <1>4, <1>5, <1>6, <1>7, <1>8, <1>9, NextCases DEF Call

(* A status that says how a job ended stays until the job is evicted.      *)
THEOREM ResultCorrect == Spec => ResultStays
<1>1. Inductive /\ [Next]_vars =>
        [\A j \in Jobs : phase = "running" /\ status[j] \in Terminal =>
                        status'[j] \in {status[j], "evicted"}]_vars
  BY ResultStep
<1>2. QED
  BY <1>1, InductiveHolds, PTL DEF Spec, ResultStays
-----------------------------------------------------------------------------
(* No more jobs are at work or wait for a thread than the service is       *)
(* configured for, though it counts statuses that others write.            *)
Working == {j \in Jobs : work[j] \in Unsettled}
WorkBounded == Cardinality(Working) <= MaxWorkers + MaxQueueSize

(* Sets of jobs can be counted.                                            *)
LEMMA JobsCounted ==
  ASSUME NEW S \in SUBSET Jobs
  PROVE IsFiniteSet(S) /\ Cardinality(S) \in Nat
  BY ServiceAssumption, FS_Subset, FS_CardinalityType

(* While the service runs, what it counts is the work.                     *)
LEMMA CountIsWork ==
  ASSUME Inductive, phase = "running"
  PROVE Cardinality(WithStatus("processing")) + Cardinality(WithStatus("queued"))
          = Cardinality(Working)
<1>1. Working = WithStatus("processing") \cup WithStatus("queued")
  BY DEF Inductive, JobOk, Working, WithStatus, Open
<1>2. WithStatus("processing") \cap WithStatus("queued") = {}
  BY DEF WithStatus
<1>3. /\ IsFiniteSet(WithStatus("processing")) /\ IsFiniteSet(WithStatus("queued"))
      /\ Cardinality(WithStatus("processing")) \in Nat
      /\ Cardinality(WithStatus("queued")) \in Nat
  BY JobsCounted DEF WithStatus
<1>4. Cardinality(Working) =
        Cardinality(WithStatus("processing")) + Cardinality(WithStatus("queued"))
          - Cardinality(WithStatus("processing") \cap WithStatus("queued"))
  BY <1>1, <1>3, FS_Union
<1>5. Cardinality(WithStatus("processing") \cap WithStatus("queued")) = 0
  BY <1>2, FS_EmptySet
<1>6. QED
  BY <1>3, <1>4, <1>5

(* Only submit() adds to the work.                                         *)
LEMMA WorkAdded ==
  ASSUME TypeOK, [Next]_vars
  PROVE \/ Working' \subseteq Working
        \/ \E j \in Jobs : Working' \subseteq Working \cup {j} /\ phase = "running" /\ ~Full
<1>1. ASSUME NEW c \in Callers, NEW j \in Jobs, NEW us \in SUBSET Uploads, Submit(c, j, us)
      PROVE Working' \subseteq Working \cup {j} /\ phase = "running" /\ ~Full
  BY <1>1 DEF Submit, Free, Working, TypeOK
<1>2. ASSUME NEW c \in Callers, NEW j \in Jobs, Cancel(c, j) PROVE Working' \subseteq Working
  BY <1>2, Names DEF Cancel, Working, TypeOK
<1>3. ASSUME NEW c \in Callers,
             \/ Cleanup(c) \/ GetUpload(c) \/ \E u \in Uploads : RegisterUpload(c, u)
             \/ Poll(c) \/ \E us \in SUBSET Uploads : SubmitRefused(c, us)
      PROVE work' = work
  BY <1>3, JobsUntouched DEF jobVars, Poll, SubmitRefused
<1>4. ASSUME NEW j \in Jobs, RunJob(j) \/ JobExpires(j) PROVE Working' \subseteq Working
  BY <1>4, Names
  DEF RunJob, JobExpires, PickUp, CheckCancel, StartProcessing, Generate, Settle, Working, TypeOK
<1>5. ASSUME Shutdown \/ ShutdownExecutor PROVE Working' \subseteq Working
  BY <1>5, Names DEF Shutdown, ShutdownExecutor, Working
<1>6. ASSUME UNCHANGED vars \/ \E u \in Uploads : UploadExpires(u) PROVE work' = work
  BY <1>6 DEF UploadExpires, vars, jobVars
<1>7. QED
  BY <1>1, <1>2, <1>3, <1>4, <1>5, <1>6, NextCases DEF Call, Working

(* The bound holds from step to step.                                      *)
LEMMA BoundStep ==
  ASSUME Inductive, WorkBounded, [Next]_vars
  PROVE WorkBounded'
<1>1. /\ IsFiniteSet(Working) /\ Cardinality(Working) \in Nat
      /\ IsFiniteSet(Working') /\ Cardinality(Working') \in Nat
      /\ MaxWorkers \in Nat /\ MaxQueueSize \in Nat
  BY JobsCounted, ServiceAssumption DEF Working
<1>2. CASE Working' \subseteq Working
  BY <1>1, <1>2, FS_Subset DEF WorkBounded
<1>3. ASSUME NEW j \in Jobs, Working' \subseteq Working \cup {j}, phase = "running", ~Full
      PROVE WorkBounded'
  <2>1. Cardinality(Working) < MaxWorkers + MaxQueueSize
    BY <1>1, <1>3, CountIsWork DEF Full
  <2>2. /\ IsFiniteSet(Working \cup {j}) /\ Cardinality(Working \cup {j}) \in Nat
        /\ Cardinality(Working \cup {j}) <= Cardinality(Working) + 1
    <3>1. /\ IsFiniteSet(Working \cup {j})
          /\ Cardinality(Working \cup {j}) =
               IF j \in Working THEN Cardinality(Working) ELSE Cardinality(Working) + 1
      BY <1>1, FS_AddElement
    <3>2. QED
      BY <1>1, <3>1
  <2>3. Cardinality(Working') <= Cardinality(Working \cup {j})
    BY <1>3, <2>2, FS_Subset
  <2>4. QED
    BY <1>1, <2>1, <2>2, <2>3 DEF WorkBounded
<1>4. QED
  BY <1>2, <1>3, WorkAdded DEF Inductive

(* So the queue and the threads never hold more work than they may.        *)
THEOREM BoundCorrect == Spec => []WorkBounded
<1>1. Init => WorkBounded
  <2>1. ASSUME Init PROVE Working = {}
    BY <2>1, Names DEF Init, Working
  <2>2. QED
    BY <2>1, FS_EmptySet, ServiceAssumption DEF WorkBounded
<1>2. Inductive /\ WorkBounded /\ [Next]_vars => WorkBounded'
  BY BoundStep
<1>3. QED
  BY <1>1, <1>2, InductiveHolds, PTL DEF Spec
-----------------------------------------------------------------------------
(* The service implements JobLifecycle.  A job has a directory from the    *)
(* time a thread starts to process it, and once shutdown() has begun the   *)
(* jobs that still wait for a thread are cancelled.                        *)
Located(j) ==
  /\ work[j] \in {"none", "pending", "picked", "checked"} => j \notin outputs
  /\ work[j] = "generating" => j \in outputs
  /\ work[j] = "pending" =>
       status[j] = IF phase = "running" THEN "queued" ELSE "cancelled"
  /\ work[j] \in Over => status[j] \in Terminal \cup {"evicted"}

(* The directory of a job that is not over is not deleted.                 *)
LEMMA LocatedStep ==
  ASSUME Inductive, \A j \in Jobs : Located(j), [Next]_vars, NEW i \in Jobs
  PROVE Located(i)'
<1>1. TypeOK /\ JobOk(i) /\ Located(i) /\ \A c \in Callers : CallerOk(c)
  BY DEF Inductive
<1>2. ASSUME NEW c \in Callers, NEW j \in Jobs, NEW us \in SUBSET Uploads, Submit(c, j, us)
      PROVE Located(i)'
  <2>1. /\ phase = "running" /\ phase' = phase /\ outputs' = outputs /\ status[j] = "new"
        /\ status' = [Kept EXCEPT ![j] = "queued"] /\ work' = [work EXCEPT ![j] = "pending"]
    BY <1>2 DEF Submit, Free
  <2>2. i = j => work[i] = "none" /\ status'[i] = "queued"
    BY <1>1, <2>1, KeptType DEF JobOk
  <2>3. i # j => /\ work'[i] = work[i] /\ (work[i] = "pending" => status'[i] = status[i])
                 /\ status'[i] \in {status[i], "evicted"}
    BY <1>1, <2>1, KeptType, EvictedJobs DEF TypeOK, Over, Inductive
  <2>4. i = j => work'[i] = "pending"
    BY <1>1, <2>1 DEF TypeOK
  <2>5. QED
    BY <1>1, <2>1, <2>2, <2>3, <2>4, Names DEF Located, Over
<1>3. ASSUME NEW c \in Callers, NEW j \in Jobs, Cancel(c, j) PROVE Located(i)'
  BY <1>1, <1>3, Names DEF Cancel, FutureCancelled, Free, Located, TypeOK, outputVars, Over, JobOk, Open
<1>4. ASSUME NEW c \in Callers, Poll(c) \/ \E us \in SUBSET Uploads : SubmitRefused(c, us)
      PROVE Located(i)'
  <2>1. /\ phase = "running" /\ phase' = phase /\ outputs' = outputs
        /\ status' = Kept /\ work' = work
    BY <1>4 DEF Poll, SubmitRefused, Free
  <2>2. /\ work[i] = "pending" => status'[i] = status[i]
        /\ status'[i] \in {status[i], "evicted"}
    BY <1>1, <2>1, KeptType, EvictedJobs DEF Over, Inductive
  <2>3. QED
    BY <1>1, <2>1, <2>2 DEF Located
<1>5. ASSUME NEW c \in Callers, NEW j \in Jobs, DeleteOutput(c, j) PROVE Located(i)'
  <2>1. /\ UNCHANGED <<status, work, phase>> /\ status[j] = "evicted"
        /\ outputs' = outputs \/ outputs' = outputs \ {j}
    BY <1>1, <1>5 DEF DeleteOutput, jobVars, CallerOk
  <2>2. i = j => work[i] # "generating"
    BY <1>1, <2>1 DEF JobOk, Over
  <2>3. QED
    BY <1>1, <2>1, <2>2 DEF Located
<1>6. ASSUME NEW c \in Callers,
             \/ GetUpload(c) \/ OutputCleaned(c) \/ UploadDeleted(c)
             \/ \E u \in Uploads :
                  RegisterUpload(c, u) \/ DeleteClaimedUpload(c, u) \/ DeleteUpload(c, u)
      PROVE UNCHANGED <<status, work, phase, outputs>>
  BY <1>6 DEF GetUpload, OutputCleaned, UploadDeleted, RegisterUpload, DeleteClaimedUpload,
              DeleteUpload, jobVars, outputVars
<1>7. ASSUME NEW j \in Jobs, RunJob(j) \/ JobExpires(j) PROVE Located(i)'
  <2>1. CASE StartProcessing(j)
    BY <1>1, <2>1, Names DEF StartProcessing, Located, TypeOK, Over
  <2>2. CASE Settle(j)
    BY <1>1, <2>2, Names DEF Settle, Written, Located, TypeOK, Over, outputVars
  <2>3. CASE PickUp(j) \/ CheckCancel(j) \/ Generate(j) \/ JobExpires(j)
    BY <1>1, <2>3, Names
    DEF JobExpires, PickUp, CheckCancel, Generate, Located, TypeOK, outputVars, Over
  <2>4. QED
    BY <1>7, <2>1, <2>2, <2>3 DEF RunJob
<1>8. ASSUME Shutdown PROVE Located(i)'
  BY <1>1, <1>8, Names DEF Shutdown, Free, Located, JobOk, Open, TypeOK, Statuses, outputVars
<1>9. ASSUME ShutdownExecutor PROVE Located(i)'
  BY <1>1, <1>9, Names DEF ShutdownExecutor, Located, TypeOK, outputVars, Over
<1>10. ASSUME UNCHANGED vars \/ \E u \in Uploads : UploadExpires(u)
       PROVE UNCHANGED <<status, work, phase, outputs>>
  BY <1>10 DEF vars, UploadExpires, jobVars, outputVars
<1>11. QED
  BY <1>1, <1>2, <1>3, <1>4, <1>5, <1>6, <1>7, <1>8, <1>9, <1>10, NextCases
  DEF Call, Cleanup, Located

(* What JobLifecycle sees of a job.                                        *)
LEMMA LifecycleValues ==
  ASSUME NEW j \in Jobs
  PROVE /\ LifecycleJob[j] = LifecycleOf(j) /\ LifecycleJob'[j] = LifecycleOf(j)'
        /\ work[j] = "none" => LifecycleOf(j) = "new"
        /\ work[j] \in {"pending", "picked", "checked"} => LifecycleOf(j) = "queued"
        /\ work[j] \in {"generating", "completing", "failing"} => LifecycleOf(j) = "active"
        /\ work[j] = "cancelling" =>
             LifecycleOf(j) = IF j \in outputs THEN "active" ELSE "queued"
        /\ work[j] \in Over =>
             LifecycleOf(j) = IF status[j] = "evicted" THEN "forgotten" ELSE status[j]
  BY DEF LifecycleJob, LifecycleOf, Over

(* And after the step.                                                     *)
LEMMA LifecycleValuesNext ==
  ASSUME NEW j \in Jobs
  PROVE /\ work'[j] = "none" => LifecycleOf(j)' = "new"
        /\ work'[j] \in {"pending", "picked", "checked"} => LifecycleOf(j)' = "queued"
        /\ work'[j] \in {"generating", "completing", "failing"} => LifecycleOf(j)' = "active"
        /\ work'[j] = "cancelling" =>
             LifecycleOf(j)' = IF j \in outputs' THEN "active" ELSE "queued"
        /\ work'[j] \in Over =>
             LifecycleOf(j)' = IF status'[j] = "evicted" THEN "forgotten" ELSE status'[j]
  BY DEF LifecycleOf, Over

(* A step in which the work of a job does not change, nor where its        *)
(* directory or status would tell, does not show.                          *)
LEMMA LifecycleStays ==
  ASSUME TypeOK, NEW j \in Jobs, work'[j] = work[j],
         work[j] = "cancelling" => (j \in outputs' <=> j \in outputs),
         work[j] \in Over => status'[j] = status[j]
  PROVE LifecycleOf(j)' = LifecycleOf(j)
<1>1. work[j] \in {"none", "pending", "picked", "checked", "generating", "completing", "failing",
                   "cancelling"} \cup Over
  BY Names DEF TypeOK, Over
<1>2. QED
  BY <1>1, LifecycleValues, LifecycleValuesNext

(* An open job of JobLifecycle is one at work, and an evictable one ended. *)
LEMMA LifecycleOpen ==
  ASSUME Inductive, \A j \in Jobs : Located(j)
  PROVE /\ Lifecycle!Open = Working
        /\ phase = "running" => Evictable \subseteq Lifecycle!Ended
<1>1. TypeOK /\ \A j \in Jobs : JobOk(j)
  BY DEF Inductive
<1>2. ASSUME NEW j \in Jobs
      PROVE LifecycleJob[j] \in {"queued", "active"} <=> work[j] \in Unsettled
  <2>1. CASE work[j] \in Unsettled
    BY <2>1, LifecycleValues, Names
  <2>2. CASE work[j] = "none"
    BY <2>2, LifecycleValues, Names
  <2>3. CASE work[j] \in Over
    <3>1. LifecycleJob[j] = IF status[j] = "evicted" THEN "forgotten" ELSE status[j]
      BY <2>3, LifecycleValues
    <3>2. status[j] \notin {"queued", "active"}
      BY <2>3, Names DEF Located
    <3>3. QED
      BY <2>3, <3>1, <3>2, Names DEF Over
  <2>4. QED
    BY <1>1, <2>1, <2>2, <2>3, Names DEF TypeOK, Over
<1>3. ASSUME phase = "running", NEW j \in Evictable PROVE j \in Jobs /\ LifecycleJob[j] \in Terminal
  <2>1. j \in Jobs /\ work[j] \in Over /\ status[j] # "evicted"
    BY <1>1, <1>3, EvictedJobs, KeptType
  <2>2. LifecycleJob[j] = status[j]
    BY <2>1, LifecycleValues
  <2>3. QED
    BY <2>1, <2>2 DEF Located
<1>4. QED
  BY <1>2, <1>3 DEF Lifecycle!Open, Lifecycle!Ended, Working

(* A step of the service is one of JobLifecycle, or does not show.         *)
LEMMA LifecycleStep ==
  ASSUME Inductive, WorkBounded, \A j \in Jobs : Located(j), [Next]_vars
  PROVE [Lifecycle!Next]_LifecycleJob
<1>1. /\ TypeOK /\ TypeOK' /\ (\A j \in Jobs : JobOk(j)) /\ \A c \in Callers : CallerOk(c)
  BY TypeStep DEF Inductive
<1>2. LifecycleJob = [j \in Jobs |-> LifecycleOf(j)] /\ LifecycleJob' = [j \in Jobs |-> LifecycleOf(j)']
  BY DEF LifecycleJob
<1>3. (\A j \in Jobs : LifecycleOf(j)' = LifecycleOf(j)) => LifecycleJob' = LifecycleJob
  BY <1>2
<1>4. ASSUME NEW c \in Callers, NEW j \in Jobs, NEW us \in SUBSET Uploads, Submit(c, j, us)
      PROVE Lifecycle!Submit(j, Evictable)
  <2>1. /\ phase = "running" /\ outputs' = outputs /\ status[j] = "new" /\ ~Full
        /\ status' = [Kept EXCEPT ![j] = "queued"] /\ work' = [work EXCEPT ![j] = "pending"]
    BY <1>4 DEF Submit, Free
  <2>2. LifecycleJob[j] = "new" /\ LifecycleOf(j)' = "queued"
    BY <1>1, <2>1, LifecycleValues, LifecycleValuesNext DEF JobOk, TypeOK
  <2>3. ASSUME NEW i \in Evictable PROVE i # j /\ LifecycleOf(i)' = "forgotten"
    <3>1. i \in Jobs /\ i # j /\ work'[i] \in Over /\ status'[i] = "evicted"
      BY <1>1, <2>1, <2>3, KeptType, EvictedJobs DEF TypeOK
    <3>2. QED
      BY <3>1, LifecycleValuesNext
  <2>4. ASSUME NEW i \in Jobs \ Evictable, i # j PROVE LifecycleOf(i)' = LifecycleOf(i)
    BY <1>1, <2>1, <2>4, KeptType, LifecycleStays DEF TypeOK
  <2>5. Cardinality(Lifecycle!Open) < MaxWorkers + MaxQueueSize
    <3>1. Cardinality(Working) \in Nat /\ MaxWorkers \in Nat /\ MaxQueueSize \in Nat
      BY JobsCounted, ServiceAssumption DEF Working
    <3>2. QED
      BY <2>1, <3>1, CountIsWork, LifecycleOpen DEF Full
  <2>6. Evictable \subseteq Lifecycle!Ended
    BY <2>1, LifecycleOpen
  <2>7. LifecycleJob' = [i \in Jobs |-> IF i = j THEN "queued"
                                      ELSE IF i \in Evictable THEN "forgotten"
                                      ELSE LifecycleJob[i]]
    BY <1>2, <2>2, <2>3, <2>4
  <2>8. QED
    <3>1. Lifecycle!Cardinality(Lifecycle!Open) = Cardinality(Lifecycle!Open)
      BY DEF Lifecycle!Cardinality, Cardinality
    <3>2. QED
      BY <2>2, <2>5, <2>6, <2>7, <3>1 DEF Lifecycle!Submit
<1>5. ASSUME NEW c \in Callers, Poll(c) \/ \E us \in SUBSET Uploads : SubmitRefused(c, us)
      PROVE Lifecycle!Forget(Evictable)
  <2>1. /\ phase = "running" /\ outputs' = outputs /\ status' = Kept /\ work' = work
    BY <1>5 DEF Poll, SubmitRefused, Free
  <2>2. ASSUME NEW i \in Evictable PROVE LifecycleOf(i)' = "forgotten"
    <3>1. i \in Jobs /\ work'[i] \in Over /\ status'[i] = "evicted"
      BY <1>1, <2>1, <2>2, KeptType, EvictedJobs
    <3>2. QED
      BY <3>1, LifecycleValuesNext
  <2>3. ASSUME NEW i \in Jobs \ Evictable PROVE LifecycleOf(i)' = LifecycleOf(i)
    BY <1>1, <2>1, <2>3, KeptType, LifecycleStays
  <2>4. Evictable \subseteq Lifecycle!Ended
    BY <2>1, LifecycleOpen
  <2>5. QED
    BY <1>2, <2>2, <2>3, <2>4 DEF Lifecycle!Forget
<1>6. ASSUME NEW c \in Callers, NEW j \in Jobs, Cancel(c, j)
      PROVE Lifecycle!End({j}, "cancelled") \/ LifecycleJob' = LifecycleJob
  <2>1. outputs' = outputs /\ \A i \in Jobs \ {j} : work'[i] = work[i] /\ status'[i] = status[i]
    BY <1>1, <1>6 DEF Cancel, outputVars, TypeOK
  <2>2. \A i \in Jobs \ {j} : LifecycleOf(i)' = LifecycleOf(i)
    BY <1>1, <2>1, LifecycleStays
  <2>3. CASE work[j] = "pending"
    <3>1. work'[j] = "dropped" /\ status'[j] = "cancelled"
      BY <1>1, <1>6, <2>3 DEF Cancel, FutureCancelled, TypeOK
    <3>2. LifecycleJob[j] = "queued" /\ LifecycleOf(j)' = "cancelled"
      BY <2>3, <3>1, LifecycleValues, LifecycleValuesNext DEF Over
    <3>3. QED
      BY <1>2, <2>2, <3>2 DEF Lifecycle!End
  <2>4. CASE work[j] # "pending"
    <3>1. work'[j] = work[j] /\ status'[j] = status[j]
      BY <1>1, <1>6, <2>4 DEF Cancel, FutureCancelled, TypeOK
    <3>2. QED
      BY <1>1, <1>3, <2>1, <2>2, <3>1, LifecycleStays
  <2>5. QED
    BY <2>3, <2>4
<1>7. ASSUME NEW c \in Callers, NEW j \in Jobs, DeleteOutput(c, j)
      PROVE LifecycleJob' = LifecycleJob
  <2>1. /\ UNCHANGED <<status, work>> /\ status[j] = "evicted"
        /\ outputs' = outputs \/ outputs' = outputs \ {j}
    BY <1>1, <1>7 DEF DeleteOutput, jobVars, CallerOk
  <2>2. work[j] # "cancelling"
    BY <1>1, <2>1 DEF JobOk, Over
  <2>3. QED
    BY <1>1, <1>3, <2>1, <2>2, LifecycleStays
<1>8. ASSUME UNCHANGED <<status, work, outputs>> PROVE LifecycleJob' = LifecycleJob
  BY <1>1, <1>3, <1>8, LifecycleStays
<1>9. ASSUME NEW c \in Callers,
             \/ GetUpload(c) \/ OutputCleaned(c) \/ UploadDeleted(c)
             \/ \E u \in Uploads :
                  RegisterUpload(c, u) \/ DeleteClaimedUpload(c, u) \/ DeleteUpload(c, u)
      PROVE UNCHANGED <<status, work, outputs>>
  BY <1>9 DEF GetUpload, OutputCleaned, UploadDeleted, RegisterUpload, DeleteClaimedUpload,
              DeleteUpload, jobVars, outputVars
<1>10. ASSUME NEW j \in Jobs, StartProcessing(j) PROVE Lifecycle!Start(j)
  <2>1. LifecycleJob[j] = "queued" /\ LifecycleOf(j)' = "active"
    BY <1>1, <1>10, LifecycleValues, LifecycleValuesNext DEF StartProcessing, TypeOK
  <2>2. ASSUME NEW i \in Jobs \ {j} PROVE LifecycleOf(i)' = LifecycleOf(i)
    BY <1>1, <1>10, <2>2, LifecycleStays DEF StartProcessing, TypeOK
  <2>3. QED
    BY <1>2, <2>1, <2>2 DEF Lifecycle!Start
<1>11. ASSUME NEW j \in Jobs, PickUp(j) \/ CheckCancel(j) \/ Generate(j)
       PROVE LifecycleJob' = LifecycleJob
  <2>1. outputs' = outputs /\ status' = status /\ \A i \in Jobs \ {j} : work'[i] = work[i]
    BY <1>1, <1>11 DEF PickUp, CheckCancel, Generate, outputVars, TypeOK
  <2>2. LifecycleOf(j)' = LifecycleOf(j)
    <3>1. \/ /\ work[j] \in {"pending", "picked"}
             /\ work'[j] \in {"picked", "checked", "cancelling"}
          \/ work[j] = "generating" /\ work'[j] \in {"completing", "failing", "cancelling"}
      BY <1>1, <1>11 DEF PickUp, CheckCancel, Generate, TypeOK
    <3>2. QED
      BY <2>1, <3>1, LifecycleValues, LifecycleValuesNext DEF Located
  <2>3. QED
    BY <1>1, <1>3, <2>1, <2>2, LifecycleStays
<1>12. ASSUME NEW j \in Jobs, Settle(j) PROVE \E r \in Terminal : Lifecycle!End({j}, r)
  <2>1. /\ outputs' = outputs /\ work'[j] = "done"
        /\ work[j] \in Settling /\ status'[j] = Written[work[j]]
        /\ \A i \in Jobs \ {j} : work'[i] = work[i] /\ status'[i] = status[i]
    BY <1>1, <1>12 DEF Settle, outputVars, TypeOK
  <2>2. status'[j] \in Terminal /\ (work[j] = "cancelling" => status'[j] = "cancelled")
    BY <2>1, Names DEF Written
  <2>3. /\ LifecycleOf(j)' = status'[j]
        /\ LifecycleJob[j] \in {"active", "queued"}
        /\ LifecycleJob[j] = "queued" => work[j] = "cancelling"
    BY <2>1, <2>2, LifecycleValues, LifecycleValuesNext, Names DEF Over
  <2>4. \A i \in Jobs \ {j} : LifecycleOf(i)' = LifecycleOf(i)
    BY <1>1, <2>1, LifecycleStays
  <2>5. Lifecycle!End({j}, status'[j])
    BY <1>2, <2>2, <2>3, <2>4 DEF Lifecycle!End
  <2>6. QED
    BY <2>2, <2>5
<1>13. ASSUME (\E j \in Jobs : JobExpires(j)) \/ (\E u \in Uploads : UploadExpires(u)) \/ UNCHANGED vars
       PROVE UNCHANGED <<status, work, outputs>>
  BY <1>13 DEF JobExpires, UploadExpires, vars, jobVars, outputVars
<1>14. ASSUME Shutdown PROVE LifecycleJob' = LifecycleJob
  <2>1. work' = work /\ outputs' = outputs /\ \A j \in Jobs : status[j] # "queued" => status'[j] = status[j]
    BY <1>14 DEF Shutdown, outputVars
  <2>2. \A j \in Jobs : work[j] \in Over => status[j] # "queued"
    BY Names DEF Located
  <2>3. QED
    BY <1>1, <1>3, <2>1, <2>2, LifecycleStays
<1>15. ASSUME ShutdownExecutor
       PROVE Lifecycle!End({j \in Jobs : work[j] = "pending"}, "cancelled")
  <2> DEFINE js == {j \in Jobs : work[j] = "pending"}
  <2>1. ASSUME NEW j \in js PROVE LifecycleJob[j] = "queued" /\ LifecycleOf(j)' = "cancelled"
    <3>1. work'[j] = "dropped" /\ status'[j] = "cancelled"
      BY <1>15, <2>1 DEF ShutdownExecutor, Located
    <3>2. QED
      BY <2>1, <3>1, LifecycleValues, LifecycleValuesNext DEF Over
  <2>2. ASSUME NEW j \in Jobs \ js PROVE LifecycleOf(j)' = LifecycleOf(j)
    BY <1>1, <1>15, <2>2, LifecycleStays DEF ShutdownExecutor, outputVars
  <2> HIDE DEF js
  <2>3. LifecycleJob' = [j \in Jobs |-> IF j \in js THEN "cancelled" ELSE LifecycleJob[j]]
    BY <1>2, <2>1, <2>2
  <2>4. QED
    BY <2>1, <2>3 DEF Lifecycle!End, js
<1>16. "cancelled" \in Terminal /\ Evictable \in SUBSET Jobs
  BY <1>1, Names, KeptType
<1>17. QED
  BY <1>4, <1>5, <1>6, <1>7, <1>8, <1>9, <1>10, <1>11, <1>12, <1>13, <1>14, <1>15, <1>16, NextCases
  DEF Call, Cleanup, RunJob, Lifecycle!Next

(* The service implements JobLifecycle: a job is started at most once, has *)
(* one result, and the bound on what is open holds.                        *)
THEOREM ImplementsLifecycle == Spec => LifecycleSpec
<1>1. Init => Lifecycle!Init
  <2>1. ASSUME Init, NEW j \in Jobs PROVE LifecycleOf(j) = "new"
    BY <2>1, LifecycleValues DEF Init
  <2>2. QED
    BY <2>1 DEF Lifecycle!Init, LifecycleJob
<1>2. Init => \A j \in Jobs : Located(j)
  BY DEF Init, Located, Over
<1>3. Inductive /\ (\A j \in Jobs : Located(j)) /\ [Next]_vars => (\A j \in Jobs : Located(j))'
  BY LocatedStep
<1>4. Inductive /\ WorkBounded /\ (\A j \in Jobs : Located(j)) /\ [Next]_vars
        => [Lifecycle!Next]_LifecycleJob
  BY LifecycleStep
<1>5. QED
  BY <1>1, <1>2, <1>3, <1>4, InductiveHolds, BoundCorrect, PTL
  DEF Spec, LifecycleSpec, Lifecycle!Spec
=============================================================================
