# A TLA+ development for the USD content agents

TLA+ modules, TLC configurations and TLAPS proofs about the parts of this
repository that keep state, survive crashes or run concurrently. Paths below
are relative to the repository; `CAW` stands for
`agentic/packages/content_agent_workflows/content_agent_workflows`.

To check everything by hand: `tlc -config X.cfg MCModule.tla` for each run of
the table in section 4, `tlapm Module_proofs.tla` for each proof module.

## 1. Inventory

The repository is a collection of agents that split, texture, rig and validate
USD scenes, with the services those agents call. Most of its lines are
computations over USD stages, prompts and vendored code. What follows is where
it keeps state of its own.

| Component | State | Operations | What is hard |
|---|---|---|---|
| Asset-task processing runtime, `CAW/asset_task_processing/runtime.py` | a run directory: inventory, state, results index, decision ledger, plan revisions and their pointer, sealed result | prepare, record_plan, begin, commit, fail, waive, finalize | operations that replace several files and die in between; repetition of what was half done; a seal that goes stale |
| Large-scene coordinator, `CAW/large_scene/state.py`, `gates.py` | one run file: three phases with statuses and digests, the frozen source digest, the instructions | create, begin, complete, fail, invalidate, revise | everything the gate reads is written by others at any time; the digest chain must notice |
| OVRTX dispatcher, `apps/ovrtx_rendering_api/service/dispatcher.py` | one `WorkerState` per GPU, one process each | start, stop, health checks, restarts, render | three kinds of threads share the fields; no lock is held while a worker is polled, spawned or stopped |
| Texture variation service, `apps/texture_gen_service_common/service.py` | jobs, uploads, pending deletions, an executor | upload, submit, cancel, status, run, evict, shutdown | workers against cancel, shutdown and eviction; deletions outside of the lock |
| Long-running jobs, `world_understanding/agentic/harness/jobs.py` | jobs in memory, `job_state.json` and `events.jsonl` on disk | start, run, emit, cancel, resume, list, follow, reload | cancel against the first step of a job; two files per event; reload after a restart |
| Job registry of the physics service, `apps/physics_agent_service/service/runtime/registry.py` | session to task, semaphore, lease heartbeats | reserve, start, release, cancel, cleanup | cancellation at every await; ownership lost while queued |
| Session status of the texture agent service, `apps/texture_agent_service/service`: `runtime/bus.py`, `workers/executor.py`, `session/manager.py`, `routers/` | metadata on disk with a cancel marker, the snapshot of the event bus, event streams | emit, run the tasks, drain, cancel, delete, clean up, stream | three records of one status; check and write are two awaits; pool threads that outlive the coroutine that awaits them |
| The registries and buses of the other agent services | the same, in variants | the same | the same |
| Session stores, `apps/*/service/storage/s3_store.py` | objects with conditional writes, generation leases | update, claim, heartbeat | several replicas of a service |
| usd-cli sessions and daemon | a daemon process and a stage | open, call, close | daemon death, stale sockets |
| Asset composition, validation checkpoints, embedded artifact store | files of one workflow | sequential steps | crashes between files |

How they interact: the coordinator hands Workflow 2 the input digest of its
phase; the asset-task runtime works under it and seals `processing_result.json`;
the coordinator's gate reads state, index, ledger and plan back from that result
before it completes the phase, and again before Workflow 3 begins. The agents
of Workflow 2 render through the services, whose requests reach the dispatcher.
The agent services put their jobs into a registry and their progress onto the
event bus, which writes to the session store; the texture agent service has its
textures generated by the texture variation service. The harness runs its long
tools as long-running jobs. Beyond digests and requests these parts share no
state.

For each of the parts that are modelled, what makes it correct:

- *Asset-task runtime.* A completed item has one indexed result and one ledger
  entry, whatever died when. The ledger is sound memory: frozen request, plan
  revisions that exist, completed citations only. Dependencies come first. What
  is committed stays. A seal covers no half-done commit, and passes the gate.
- *Coordinator.* Phases are done in order, each on the very output its
  predecessor was accepted with; accepted results are immutable; accepted work
  is for the frozen scene and the current instructions; one can always resume.
- *Dispatcher.* One render per worker at a time; another process for a GPU only
  when the earlier ones have exited or were killed; a restart never kills a
  render in flight; for dead and unhealthy workers another is spawned.
- *Texture variation service.* The uploads a job claimed are there as long as
  it may read them; nothing of an evicted job is left behind without being on a
  list; a result stays; there is never more open work than threads and queue
  have room for; every job ends.
- *Long-running jobs.* A result that was reported is found again after a
  restart; a log tells one end, the one the snapshot has, whatever runners emit
  into it; a cancellation that was accepted is kept; a reader misses no event;
  every job ends.
- *Job registry.* One job per session; slots are conserved, whoever is
  cancelled where; a job cancelled in the queue does not run; every job ends.
- *Session status.* Nobody is told that a session has ended while a thread is
  still at work on its files, unless the thread outlived the deadline of its
  drain; a session with any thread at work is not deleted; what has ended stays
  so, in the snapshot and on disk (on disk it does not, see `session_final`);
  event streams end.

The list of what is hard to test, each at its line, is `hazards` in
`PROJECT.json`. The components that are not modelled are listed there as well,
with the reason.

## 2. Plan

Order: what decides whether an expensive run of agents is lost or accepted
wrongly comes first, then the service that everything renders through, then the
job services.

1. `AssetTaskProcessing`, which implements `WorkLedger` (abstract) - done,
   proved.
2. `PhasePipeline` (abstract) and `LargeSceneRun`, which implements it - done,
   proved.
3. `OvrtxDispatcher` - done; its safety properties are proved.
4. `JobLifecycle` (abstract) and `TextureVariationService`, which implements
   it - done, proved.
5. `LongRunningJobs`, which implements `JobLifecycle` as long as writes
   succeed - done, proved.
6. `JobRegistry`, after the physics service, which implements `JobLifecycle` -
   done, proved.
7. `SessionStatus`, after the texture agent service - done for one run of a
   session; its safety properties are proved.
8. Left: the variants of the registry in the other services (without the proof
   of ownership; with a cleanup that survives repeated cancellation), and of the
   bus; regeneration of a session and the store it shares with other replicas,
   in `SessionStatus`; the session stores with their leases; a composition of
   `LargeSceneRun` and `AssetTaskProcessing`: what a completed Workflow 2 means
   for its items.

## 3. Modules

### WorkLedger, AssetTaskProcessing

One variable per file of `ProcessingPaths`, or per part of one: `present` (which
of the four files of the run exist), `frozen` (the task request digests),
`status`, `attempts`, `result` (the state file), `index`, `ledger`, `pointer`
and `plans` (the plan), `sealed` (what the digest of the sealed result covers),
`request` (the task request files, which are not the run's) and `op`, the
operation that holds the file lock and how far it is.

An operation that replaces one file is one action. One that replaces several is
an action per replacement, guarded by `op`, with everything it checks in the
first; a `Crash` between any two drops the lock and forgets the operation, as
the operating system does. Repeating the operation is then just another call.
`FinalizeRecover` is the recovery pass of finalize, `FinalizeSeal` its end.

Abstractions. Ledger entry and result document carry the same provenance (commit
refuses a pair that disagrees), so a `Payload` is both. Result files are taken
as immutable: a path stands for its content. The transitions log, timestamps,
reasons and the revision number of the state are left out. A waiver is in the
state exactly when the status is `waived`. `deferred` is a status the model
admits and the runtime never sets. The recovery visits items in an order; the
order does not matter because a citation is of a completed item (`LedgerSound`).
The request digests of prepare are read before the lock, so they are any.

`WorkLedger` is what `commit_work_item` says of itself ("validate and atomically
index one completed work item") and what the other operations owe it, without
locks, files and crashes: an item is begun when what it depends on is closed, it
is completed in one step together with its result and a decision that rests on
what was completed before, and what is completed, sealed or frozen stays. As an
implementation of it, a run is read through its state file, which is the last
one a commit replaces: `WorkIn` is the status of an item there, `OutcomeIn` the
result of a completed item with the decision the ledger has of it, and a plan
revision counts once the pointer names it. The steps before the state is
replaced are stutters, so a commit that dies half way has not happened, and one
that finalize recovers happens then; a recovery completes several items in one
step. A sealed result is what state, ledger and plan were at the seal.

### PhasePipeline, LargeSceneRun

`LargeSceneRun` has the run file (`created`, `guidance`, `sourceDigest`,
`phases`, `current`) and the disk the gate looks at (`scene`, `inputs`, `files`,
`doc`). Every operation of `state.py` takes the lock, loads the file and replaces
it whole, so it is one action; completing a phase is two, one for an accepted
and one for a rejected handoff, which is durably failed. `WriteFiles`,
`SealResult` and `EditSource` are the agents and everybody else.

A digest is modelled as what it is computed from, that is, without collisions.
`FilesOf` and `ResultsOf` say whose files and documents a result must cover,
which `_require_artifact` in the validators of `gates.py` enforces; the
artifacts of a phase are one value that says for what scene or instructions
they were made. The audit log, result paths and error texts are left out.

`PhasePipeline` is what the coordinator promises without files: phases strictly
in order, one at a time, going back gives up everything after. It is a PROPERTY
of the run and a theorem, with `Done` and `Stage` as refinement mapping.

### OvrtxDispatcher

A thread is a health check (at most one per worker, as the monitor gathers them)
or a client that renders. `task[t]` is where it is; an action is what it does
between two points where another thread may run. The fields of `WorkerState`
are the variables of their names; `unhealthySince` and `restartDue` hold what the
code compares with the clock, and `Elapse` lets time pass, also while a thread is
on its way. `life` is what the worker processes really do, which the dispatcher
only sees through `poll`, `/health` and the answers to renders: a process boots,
gets the port if nobody has it and exits otherwise, and may die at any time. One
that is stopped exits, or is `killed` and lives on: `_stop_process` waits 5 s for
it, logs that it did not exit, and its caller spawns the next. A killed process
answers nothing and keeps its port until it is gone, so that its successors fail
to bind and exit, each noticed and replaced after its cooldown.

Abstractions. `render` and `render_protocol_v3_upload` differ in wording only
and share their actions. Waiting in the queue, and its timeout, changes no
state. Telemetry, `restart_count` and `last_error` are left out. Handles of dead
processes are used again.

### JobLifecycle

What the job services promise of a job, without threads or files: an id is used
once, work starts at most once, one result stays, the record may be forgotten
after it, and no more than `Capacity` jobs are open. `Unstarted` says with which
results a job may end that never began. Three services implement it, each with a
mapping of its own: the texture variation service, the long-running jobs and the
job registry.

### TextureVariationService

The tables of the service are the variables `status`, `completedAt`,
`cancelEvent` (jobs), `uploads`, `claim`, `expired` (uploads) and the two sets of
pending deletions; `files` and `outputs` are the directories that exist, `work`
the future of each job and, once a thread has it, where `_run_job` is.
One action is one critical section of a caller or a worker, or one deletion:
`todo` and `cleaning` are the list a caller made under the lock and where it is
in it outside of the lock. A deletion may fail (`rmtree` with an error); the
entry then stays pending for somebody else. `Shutdown` and `ShutdownExecutor`
are the two halves of `shutdown()`.

Abstractions. The clock is `recent` or `expired`, on either side of a time to
live. A caller is a thread; the app calls in from its event loop, which is the
case of one caller, but the service has a lock for more. The order of the
executor's queue and of evictions is left open. The backend returns, raises, or
raises with a partial result. Progress and result payloads are
left out.

As an implementation of `JobLifecycle` a job is queued until a thread starts to
process it, and its status counts as its result once its work is over:
`shutdown()` writes `cancelled` over a job that a thread has just picked up and
that completes after all, which is no change of a result under this mapping, and
the reason why `ResultStays` is for a service that runs.

### LongRunningJobs

`status`, `events` and `cancelEvent` are a job in memory, `disk` and `log` its
two files, `thread` its thread. The manager holds one lock over each change: the
job in memory, the line appended to the log, the snapshot replaced. `Begin`
starts such a section, `AppendEvent` and `PersistState` are its writes, and
`block` says which of them comes next; nobody else can step in, but the process
may die (`Crash`) and a write may fail (`WriteFails`, with the exception going
where it goes in the code: to the caller, to the runner, to the exception
handler, or out of the thread). `Emit` is the callback a runner is given: it
takes any name for the event, `completed` and `failed` included, and never asks
whether the job has ended. A thread or task that the runner left behind calls it
after the end, and then it loads a job that was evicted; only a new process ends
that (`gone`). `resume()` is two sections, and what it found in
the first may be evicted before the second. Loading a job whose snapshot is not
of an ended one makes it failed, and saves that. Followers are readers of
`event_batches()`, which ask again after a restart with the index they expect.

Abstractions. Eviction takes any ended job, the code the oldest. A row of a log
is its event and the status it was written with; messages, progress, timestamps
and the data a runner adds to a row are left out. Torn
last lines of a log are not modelled. There is one manager on a directory.

As an implementation of `JobLifecycle` a job is what its snapshot says, and one
that nobody loaded and whose process died has failed.

### JobRegistry

`entry` is `_tasks`, `free` the value of the semaphore; per request `pc` is where
it and later its task is, `capacity` and `heartbeat` its two helper tasks,
`cancelled` a cancellation that is not delivered yet. Everything runs on one
event loop: an action is what a task does between two awaits that suspend it.
`Gate` and `Proof` are the wait for a slot or the loss of ownership and the
final proof of ownership; `Cleanup`, the drains and `End` are the `finally`
block, which another cancellation aborts (`AbortCleanup`). `Cancel` is the
request that cancels a task and waits for it. `LoseOwnership` is another replica
that takes the session over, with the heartbeat as the only one to notice.

A request that `release()`s its reservation may ask again.

As an implementation of `JobLifecycle` a request is a job from `start()` on; it
is queued up to the end of its proof of ownership, active while its pipeline
runs, and ended where its cleanup begins. A job cancelled in the queue
(`discarded`) has that as its result from then on, so that its late turns must be
stutters. `Capacity` is the number of sessions the requests are for: no session
has two open jobs.

Abstractions. The semaphore grants its slot to any waiter. A pipeline ends when
it wants, cancelled or not; a cancel request gives up waiting only for a job
whose pipeline runs, as everything else in a task takes a few turns of the loop. What the pipeline does is `SessionStatus`'s part,
for the texture agent service.

### SessionStatus

Three records of one status: `disk` with `marker` (the metadata and the
`.cancel` file), `snap` with `queue` and `deleted` (the event bus), and `stream`
(what event streams were told). `worker` is `execute_pipeline_async`: startup, per
task a check, an announcement, the task in a pool thread, a report; then
packaging in a thread, publishing and the completion. `em` is the `emit()` each
coroutine is in, step by step, as its read and its write of the status on disk
are two awaits. An action goes from one await to the next, together with the
call to a pool thread that ended it. `task.cancel()` takes the two apart:
`CancelTask` leaves a write whose await was cancelled in `late`, to reach the
disk at any time or never. A cancelled task of the pipeline is drained
(`Drains`, `DrainRaises`); past the deadline the session is marked `stalled`
until the thread returns. A cancel request drops the marker, marks the metadata,
emits `cancelling`, and cancels the task. Deletion is two steps, the files and
the bus. Streams of a session share one queue, so that one of them takes the
event that ends them all; the others look at the session again.

Abstractions. The two startup events are one. A closing event counts in `queue`,
others do not. The pool thread of a task is `stepRunning`; a late return of a
stalled one is `StalledReturns`. Left out: the live metadata and the log of
events, heartbeats of streams, the store that other replicas share,
`regenerate`, several runs of a session, and writes of the metadata that fail.

## 4. Runs

| Run | Checks | Shows |
|---|---|---|
| `asset_task` | 5 invariants, 1 action property, the refinement of `WorkLedger` | durable files agree through two crashes; items are completed in one step |
| `asset_task_retry` | `FailLeavesRetryable` violated | a failed attempt whose commit had died cannot be replaced |
| `large_scene` | 4 invariants, the refinement of `PhasePipeline` | the digest chain holds under edits |
| `large_scene_inputs` | `WorkIsForFrozenInputs` violated | a revision freezes edited inputs under an old decomposition |
| `dispatcher` | 4 invariants | interleavings of checks, renders, shutdown, processes that outlive the kill |
| `dispatcher_recovery` | 2 liveness properties | for dead and unhealthy workers another is spawned, or that spawn fails |
| `texture_service` | 3 invariants, 1 action property, 1 liveness property, the refinement of `JobLifecycle` | no input is deleted under a job, nothing is orphaned, the bound holds |
| `long_running_jobs` | 5 invariants, 1 liveness property, the refinement of `JobLifecycle` | what was reported survives restarts; a log tells one end; readers miss nothing |
| `job_registry` | 3 invariants, 1 liveness property, the refinement of `JobLifecycle` | slots and sessions under cancellation at every await; no job twice, none after its cancellation |
| `job_registry_slot` | `CleanupSurvivesCancel` violated | a second cancellation aborts the cleanup, and the slot is lost |
| `session_status` | 2 invariants, 1 action property, 1 liveness property | no end is told over a thread at work; the bus knows the end of every run; streams end |
| `session_final` | `FinalStatusStays` violated | the bus's check and write let `cancelling` replace a final status |

Bounds, and why they are enough:

- `asset_task`: two items, `a` required and `b` optional and dependent on `a`,
  which gives a dependency, a citation and an optional item; two results, so
  that a repeated commit can disagree; two plan revisions; two attempts, a
  failure and its retry; two crashes, one in an operation and one in its
  repetition; two request contents, to change and to restore. One evidence text
  is enough: entries already differ in their citations and revisions.
  Items are not symmetric; results, plans and digests are.
- `large_scene`: two scenes and two instructions, to change and to restore, and
  five edits, which is one per file of two phases and a change and restoration
  of the source. Results can be sealed without bound. Only the contents that a
  property tells apart vary in a run: a second layer content in
  `large_scene_inputs`. (`Texts`, other contents of the same artifacts, has one
  value: with two the instance is out of reach. The proofs are for any.)
- `dispatcher`: one GPU, because workers interact only where a request picks the
  first idle one; two clients, for two requests after each other or at a time;
  three process handles, the known one, one that outlived its kill and one too
  many (`Handles`, which are symmetric); one such survivor at a time
  (`MaxSurvivors`); one failing spawn (`MaxSpawnFailures`). 807,000 states. With
  one client and two handles in `dispatcher_recovery`, where liveness makes
  states expensive. The service may stop, hence no deadlock check in these two.
- `texture_service`: two callers, of which one cleans what the other claims; two
  jobs, one upload they both want; one thread and no queue, so that the bound is
  met by one job, and met again after it.
- `long_running_jobs`: two jobs with room for one in memory, so that ended ones
  are evicted and loaded again; one follower; one outcome besides the canceled
  and failed ones, which every runner may have; one name for the events of
  runners, that of a successful end (`RunnerEvents`); four rows in the log of one
  job and three in that of the other (`MaxEvents`): a normal life and a
  cancellation or an event of the runner before or after the end. A job that has
  not ended keeps one row for its end (`HasRoom`), so that the bound never stops a
  job; and one fault, a crash or a failing write, at every place (`MaxFaults`).
  332,620 states. What a second restart finds is left to the proofs.
- `job_registry`: three requests, two of one session and one of another, one
  slot: one job runs, one is queued, one is refused or comes later. Two
  cancellers, for a cancellation of what is being cancelled. Everything may
  come to rest, hence no deadlock check.
- `session_status`: two tasks, so that there is a check between tasks and a
  cancellation after the first; one client that cancels again and again without
  bound, so that a cancellation hits a run that an earlier one has already
  taken to its handlers; two streams, which share a queue. A session can come
  to rest, hence no deadlock check. `session_final` needs one task, one stream.

Fairness, and why the code justifies it:

- `OvrtxDispatcher`: threads that can run do run (the monitor starts checks for
  ever, a request to a worker has a timeout), and time passes. Nothing is
  assumed of the worker processes, of spawning, or of the clients calling in.
  The two liveness properties hold while the service runs and no render has
  restarted a worker: a stale health answer can then let a second restart in,
  and after it the code promises nothing. They promise a spawned process
  (`Spawning`), a report of the worker itself, or a spawn that failed
  (`Abandoned`).
- `TextureVariationService`: the threads of the pool go on and a backend returns
  or raises; `shutdown()` does not stop half way. Nobody has to call.
- `LongRunningJobs`: whoever has the lock goes on, a runner returns or raises,
  a reader that follows keeps reading. Jobs end unless the process dies or a
  write fails.
- `JobRegistry`: the loop gives every task its turn, a free semaphore grants,
  the store answers the heartbeat. Jobs end unless an aborted cleanup has kept a
  slot.
- `SessionStatus`: the loop gives every coroutine its turn, calls to pool
  threads return or raise, a queued job gets its slot. Nothing is assumed of
  cancel requests, deletions or late writes. `StreamsEnd` leaves out a run that
  is over with a live status on disk, which `session_final` shows to be possible.
- The coordinator and the asset-task runtime have none: nothing in them happens
  by itself.

Every property of a passing run has a mutant, a plausible bug in one mapped
definition (its form stands before the definition, marked as fault), under which
TLC finds the property violated.

The models show more that no run is devoted to, as nothing in the repository
promises otherwise. A waiver repeated after a crash adds a second entry to the
results index, which then no longer loads. A preparation that died between its
four files is neither a run nor can it be prepared again. Completing Workflow 3
looks only at the direct predecessor's manifests again. A health answer that is
older than a restart by a render can lead to a second process on a GPU. A check
can outlive `stop()`. When a process cannot be spawned for a worker, the worker
is left without one for ever (`dispatcher.py:422`: the fields are cleared first,
and a check restarts only what has exited or was once unhealthy outside of
`starting`), although the service's README (`apps/ovrtx_rendering_api/README.md:155`)
documents `OVRTX_WORKER_RESTART_COOLDOWN` as the "Seconds before restarting
exited or unhealthy workers"; `DeadIsReplaced` and `UnhealthyIsResolved` name it
as their exception. A crash between the two writes of an end leaves a log that
says how a job ended, and a job that is failed when it is loaded again. A cancellation that hits the worker in its own handler of
a cancellation can leave a session live on disk although its run is over.

A comment and a test of the texture agent service describe an executor that is
no longer there. `routers/sessions_router.py:67-75`: "The executor's outer
exception handler can persist status="failed" directly via
SessionManager.update_session() without emitting a FAILED event to the bus, so
the bus snapshot may still carry a stale RUNNING/COMPLETED status", and
`tests/unit/test_session_view_consistency.py:224-250` builds that state by hand.
The handler writes the status and then emits the event
(`workers/executor.py:4507-4537`), which is `RecordCrash` in the model, and
`SnapshotTellsEnd` is checked and proved of it: after a run that failed the
snapshot has ended. A stale snapshot remains possible when a cancellation hits
the handler between the two, which is the exception in the property, and when
the `emit` itself raises, which the handler logs and the model leaves out. The
guard that the comment explains is harmless and covers these two cases. It is no
finding with a run, because the comment says what may happen, and no run can
refute that.

## 5. Proofs

All theorems hold for every value of the constants that satisfies the named
assumptions of the modules: `ConstantsAssumption`, `EntryAssumption` and
`SnapshotAssumption`, `RunAssumption`, `DispatcherAssumption`,
`ServiceAssumption`, `ManagerAssumption`, `RegistryAssumption`,
`SessionAssumption`. They say that sets are finite where the code counts, that
limits are numbers, and that `None` is none of the values it stands beside.

`AssetTaskProcessing_proofs` proves the type invariant, and then `Inductive`.
The safety properties are not inductive alone: a step such as the last write of
a commit relies on checks made three actions earlier. `Inductive` adds what the
lock protects: `CommitPending` (what commit validated still holds, and what it
has written so far), `WaivePending`, `SealPending`, `PlanPending`, and that no
ledger entry exists before the run does. The proof goes by lemmas: `ItemSteps`
and `PendingSteps` say which actions touch what, `MonotoneStep` what only
grows, and each conjunct has a lemma with a step per action that can disturb it.
Completed items, ledger and dependencies need each other: a completed item is
never reopened, so a citation stays one of a completed item. From `Inductive`
follow `CompletedIsDurable`, `LedgerSound`, `DependencyOrder`, and the action
property `CommittedStays`.

The refinement of `WorkLedger` goes by what a step may change: `SameWork` and
`MovedWork` are the steps that complete nothing, `CompletedWork` is the write of
the state by a commit or a recovery. Its difficulty is that the decision of the
item is in the ledger before the item is completed: `CommitPending` says that it
is grounded already then, and `FrozenWithFiles` that the requests it is for are
frozen once the files exist. `CitationsFound` says that no chain of citations in
the ledger closes, however long: an item is not completed when its entry is
written, and entries cite completed items only, so that no earlier one cites it.

`SealPassesGate` needs besides `Inductive` that a waived item is indexed
(`WaiverIndexed`) and that what finalize checked is still true of what it sealed
(`SealChecked`); `AgreeWithoutCrash`, for a run that has not crashed, that every
file is as far as the operation under way: `InStep`, made of `PreparedSoFar`,
`PlannedSoFar` and `Settled`. `RetryNeedsNoCrash` rests on `InStep` as well and is
about the finding of `asset_task_retry`: as long as nobody has crashed, a failed
item accepts any result and any decision again, so that what the run finds needs
a crash in a commit.

`LargeSceneRun_proofs` proves the type invariant and `Chain`: the shape of the
phases, where the frontier of the pipeline is, and `InputChain`. `Frontier` is
the strengthening: a phase is pending or invalidated only behind one that is not
completed, so that the pipeline never stops in the middle. On it rest the
refinement of `PhasePipeline` (each action maps to one of the abstract steps, or
a stutter) and, with invariants of their own, `GuidanceFollowed` and
`WorkIsForFrozenScene`. `OnlyRevisionsPart` is about the finding of
`large_scene_inputs`: in a run in which no revision of the instructions meets
edited inputs (`CarefulSpec`), the decomposition always is of the frozen inputs
(`DecompositionIsCurrent`). The revision is the only way to the finding, and a
check of the frozen inputs in it would be enough.

`OvrtxDispatcher_proofs` proves, for any number of GPUs, clients and process
handles, the type invariant and then `Supervised`, of which the properties are
consequences. `SingleFlight` alone says nothing of who comes and goes: `Counted`
has each worker held by nobody or by one request. That at most one process of a GPU
boots or serves (`MonitorKeepsOne`) is true only because the health check of a
worker knows where that one is at each of its steps: in `process`, popped and
about to be stopped, exited or killed, or spawned and not yet assigned (`Known`),
and because before `start()` is done no thread runs (`Starting`). Killed
processes may be any number, beside it. A restart spares a render because what it has taken out of service
is idle and not ready (`Spared`), so that nobody acquires it. `Lonely` keeps all
this as long as no render restarts a worker by itself; the hypothesis is needed,
because a health answer from before such a restart makes a second one. The proof
splits a step by whose it is (`NextCases`): a health check, a request, or
neither; one lemma each says what it can touch.

`TextureVariationService_proofs`. `InputsKept` is about a list made under the
lock and used outside it, so the invariant is about the lists: what a caller
still deletes is `Lost` (it is not claimed, has expired, and is pending or
already taken out of the table, so that nobody will claim it) or belongs to an
evicted job (`CallerOk`), and an evicted job has no work left (`JobOk`). With
`UploadOk` this gives `InputsKept` and `NothingOrphaned`. The bound is not
counted by the code as it is stated: the code counts statuses, the bound is on
futures and threads; `WorkBounded` is proved from the agreement of the two while
the service runs. The refinement needs besides where the output directory is
made (`Located`), which tells a job cancelled before its start from one
cancelled after.

`LongRunningJobs_proofs`. `Inductive` has one part for every run (`Base`,
`CancelIsKept`, what a reader is reading) and one for runs in which no write has
failed: memory and disk agree but for the section that is writing (`InLine`), a
section only ends what has not ended (`InSection`), a thread is over when its
job has ended (`ThreadOk`), the log tells one end and agrees with the snapshot
(`LogOk`, on `Chain`: rows before the end, the manager's event for it, rows of
the same status after it; `EndWritten` where the snapshot is yet to follow), and
what a reader had is in the log (`Had`). An emitted row keeps this whatever its
name, because its status is the job's (`SoundRevives` when the job is loaded for
it). Each kind of step,
beginning a section, its two writes, loading, a crash, is a lemma of its own.
The refinement needs `Stage`: what a section will save follows on what the
snapshot says.

`JobRegistry_proofs`. A slot is held by those who were granted it and have not
given it back (`Slots`); `CapacityOf` ties that to where a task is, so that
every way out gives back exactly what it holds. A job cancelled in the queue is
`Doomed`: the cancellation is still to be delivered, or its heartbeat has taken
it over, or it is past the point where it could start. That never more than
`MaxConcurrent` jobs run (`RunningBounded`) follows from the slots, and so does `SlotsComeBack`: a slot
that is not free is held by a task that is still to give it back, or by one whose
cleanup was aborted, which is the finding of `job_registry_slot` and the only way
to lose a slot.

The refinement of `JobLifecycle` needs a count: a request that starts finds room
(`RoomToStart`) because the open jobs map one to one to sessions and its own
session has none. That a job cancelled in the queue stays out is `Doomed`. That
no entry of a finished job is left (`NoDeadEntry`) is not local: the wrapper may
never run, or its cleanup be aborted, and then the entry is the business of a
cancel request that waits. `Attended` says that such a request exists from the
moment the cancellation is delivered up to the removal of the entry; it rests on
cancel requests giving up only while a pipeline runs.

`SessionStatus_proofs`. `EmittersOk` says which event each coroutine may be
emitting, which for the worker follows from where it is. `Phases` then says that
before the worker comes to report an end nothing has ended in any of the three
records, that a thread that runs after that is marked, and that a deleted
session has none. `NoWorkAfterEnd` follows, for any
number of tasks, of clients that cancel and of streams.

`OnlyCancelsReopen` is about the finding of `session_final`. A final status on
disk is reopened by the bus's write of a cancelling event, whose check was an
await ago, or by a live status whose write outlived its cancelled await, and by
nothing else: the worker's own live writes come before any end. `EndsAreTold`
says (`SnapshotTellsEnd`) that the snapshot of a run that is over has ended, and
that a snapshot that has ended stays so. An event of the end of
the pipeline sets no status when it is taken for the end of the step the snapshot
is at, and cancel requests emit in between; the invariant (`Reported`) is that
the last step is over in the snapshot before the worker publishes. The two
exceptions are in the statement: a cancellation in the worker's own handler, and
a job cancelled before it began, whose wrapper is still to tell.

Proved and not run, as each follows closely from what is run:
`SealHasNoInterruptedCommit`, `PlanRevisionsImmutable`, `DependencyOrder` (part
of the refinement), `CitationsWellFounded` and `RetryableWithoutCrash` of the
asset tasks, `CurrentIsNext`, `AcceptedStays` and `OnlyRevisionsPart` of the
coordinator, `EvictedIsOver` and `WorkBounded` of the texture service,
`LogIsComplete` and `ResultStays` of the long-running jobs, `RunningBounded`,
`CancelledStaysOut` (part of the refinement), `NoDeadEntry` and `SlotsComeBack`
of the registry, and `ReopenedOnlyByCancels` of the session.

Only model-checked: liveness, which the prover does not reach: `DeadIsReplaced`
and `UnhealthyIsResolved` of the dispatcher, `EveryJobEnds` of the texture
service, the long-running jobs and the registry, `StreamsEnd` of the session.
Every safety property of a passing run is proved.

## 6. What the models do not say

File locks, atomic replacement of a file and the collision-freeness of digests
are assumed, not modelled. Agents are arbitrary within what the gate can see:
the models say nothing of the quality of their work. Work on USD content,
rendering, geometry and physics, the launchers and prompts, transports to model
endpoints, telemetry, the dashboard and deployment are not modelled: they are
sequential computations or plumbing without state that a model could check.
They are also most of the repository's lines, of which the models therefore
stand for a small share.

Of the services: the registries of the texture, material and joint agent
services and the buses of the physics and material ones are variants of what is
modelled, and not modelled themselves. Of the texture agent service the
regeneration of a session, the store that replicas share, and calls to pool
threads that a cancellation leaves unshielded while they copy files (loading the
inputs, synchronising the artifacts) are left out; of the long-running jobs a
second manager on the same root. Session stores, the usd-cli daemon, asset
composition and the validation checkpoints are candidates for later
(section 2).
