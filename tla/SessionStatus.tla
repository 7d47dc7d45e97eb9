---------------------------- MODULE SessionStatus ----------------------------
(***************************************************************************)
(* The status of one session of the texture agent service, from the        *)
(* moment its job is registered: who reports it, who keeps it and who is   *)
(* told (apps/texture_agent_service/service: workers/executor.py,          *)
(* runtime/bus.py, session/manager.py and the handlers of routers/).       *)
(*                                                                         *)
(* There are three records of a status: the session's metadata on disk,    *)
(* the snapshot of the event bus, and what event streams were told.  All   *)
(* coroutines run in one event loop, so an action is what one of them does *)
(* from one await to the next, together with the call to a pool thread     *)
(* that ended the await.  Only task.cancel() separates the two: a call     *)
(* whose await was cancelled may still run, later, or never.               *)
(***************************************************************************)
EXTENDS Naturals

CONSTANTS
  Cancellers,  (* clients that POST /cancel, each as often as it likes      *)
  Streams,     (* GET /events requests                                      *)
  NumSteps,    (* the tasks of the pipeline                                 *)
  None         (* no step, no status                                        *)

Live == {"pending", "running", "cancelling"}
Ended == {"completed", "failed", "cancelled"}   \* _TERMINAL_STATUSES
Statuses == Live \cup Ended
Emitters == {"worker", "wrapper"} \cup Cancellers
Steps == 0..NumSteps                            \* 0 is pipeline_startup

ASSUME SessionAssumption ==
  /\ NumSteps \in Nat \ {0}
  /\ {"worker", "wrapper"} \cap Cancellers = {}
  /\ None \notin Statuses /\ None \notin Steps

VARIABLES
  disk,         (* status in the session's metadata, or "gone"              *)
  marker,       (* the .cancel file                                         *)
  snap,         (* the bus's snapshot of the session: status, current step  *)
  queue,        (* how many events of its queue close a stream              *)
  deleted,      (* is the session in _deleted_sessions?                     *)
  worker,       (* where execute_pipeline_async is, and its current task    *)
  em,           (* the emit() each coroutine is in                          *)
  stepRunning,  (* does a pool thread run a task of the pipeline?           *)
  stalled,      (* the marker of a thread that outlived its drain           *)
  late,         (* status writes whose await was cancelled, by canceller    *)
  canceller,    (* where each cancel request is                             *)
  stream        (* where each event stream is; "done": its client was told  *)

bus == <<snap, queue, deleted>>
thread == <<stepRunning, stalled>>
vars == <<disk, marker, bus, worker, em, thread, late, canceller, stream>>

EventStates ==
  {"running", "completed", "pipeline_completed", "failed", "cancelled", "cancelling"}
Closing == {"pipeline_completed", "failed", "cancelled"}
Event(state, step) == [state |-> state, step |-> step]
Quiet == [pc |-> "none", event |-> Event("running", None)]
WorkerSteps ==
  {"queued", "startup", "check", "announce", "step", "drainStep", "report",
   "package", "drainPackage", "publish", "completing", "failing", "stopping",
   "clearStopped", "recordCancelled", "clearCancelled", "cancelled", "crash",
   "crashed", "over"}
-----------------------------------------------------------------------------
TypeOK ==
  /\ disk \in Statuses \cup {"gone"}
  /\ marker \in BOOLEAN
  /\ snap \in [status: Statuses, step: Steps \cup {None}]
  /\ queue \in Nat
  /\ deleted \in BOOLEAN
  /\ worker \in [pc: WorkerSteps, step: Steps]
  /\ em \in [Emitters -> [pc: {"none", "exists", "apply", "read", "write"},
                          event: [state: EventStates, step: Steps \cup {None}]]]
  /\ stepRunning \in BOOLEAN
  /\ stalled \in BOOLEAN
  /\ late \in [Cancellers -> Statuses \cup {None}]
  /\ canceller \in [Cancellers -> {"idle", "mark", "note", "emit"}]
  /\ stream \in [Streams -> {"idle", "checked", "opened", "openedNew", "waiting",
                             "waitingNew", "done"}]

(* create_session wrote "pending", seed_pending_session the snapshot.       *)
Init ==
  /\ disk = "pending"
  /\ marker = FALSE
  /\ snap = [status |-> "pending", step |-> None]
  /\ queue = 0
  /\ deleted = FALSE
  /\ worker = [pc |-> "queued", step |-> 0]
  /\ em = [a \in Emitters |-> Quiet]
  /\ stepRunning = FALSE
  /\ stalled = FALSE
  /\ late = [c \in Cancellers |-> None]
  /\ canceller = [c \in Cancellers |-> "idle"]
  /\ stream = [s \in Streams |-> "idle"]

(* update_session: the metadata of a deleted session is not written again.  *)
Written(s) == IF disk = "gone" THEN disk ELSE s
-----------------------------------------------------------------------------
(***************************************************************************)
(* EventBus.emit: does the session exist, apply the event to the snapshot  *)
(* and queue it, then, when it changed the status, read the status on disk *)
(* and write the new one in another call.  The live fields and the log,    *)
(* which come last, tell nothing of the status.                            *)
(***************************************************************************)
Emits(a, state, step) ==
  em' = [em EXCEPT ![a] = [pc |-> "exists", event |-> Event(state, step)]]
Emitted(a) == em[a].pc = "none"

EmitExists(a) ==
  /\ em[a].pc = "exists"
  /\ em' = [em EXCEPT ![a].pc = IF disk = "gone" THEN "none" ELSE "apply"]
  /\ UNCHANGED <<disk, marker, bus, worker, thread, late, canceller, stream>>

(* _apply_event_to_state: does e begin a step, end the current one, set the *)
(* status, and is that status to be persisted?                              *)
Begins(e) == e.state = "running" /\ snap.step # e.step
EndsAnyStep(e) ==  \* fault: whichever step the event is of
  e.state \in {"completed", "pipeline_completed"}
EndsStep(e) ==
  e.state \in {"completed", "pipeline_completed"} /\ snap.step = e.step
SetsStatus(e) ==
  \/ Begins(e)
  \/ e.state = "pipeline_completed" /\ ~EndsStep(e)
  \/ e.state \in {"failed", "cancelled"}
  \/ e.state = "cancelling" /\ snap.status \notin Ended
Persists(e) == SetsStatus(e) /\ (Begins(e) => snap.status = "pending")
StatusOf(e) == IF e.state = "pipeline_completed" THEN "completed" ELSE e.state

Applied(e) ==
  [status |-> IF SetsStatus(e) THEN StatusOf(e) ELSE snap.status,
   step   |-> IF Begins(e) THEN e.step
              ELSE IF EndsStep(e) \/ e.state = "pipeline_completed" THEN None
              ELSE snap.step]

EmitApply(a) ==
  /\ em[a].pc = "apply"
  /\ ~deleted
  /\ LET e == em[a].event IN
       /\ snap' = Applied(e)
       /\ queue' = IF e.state \in Closing THEN queue + 1 ELSE queue
       /\ em' = [em EXCEPT ![a].pc = IF Persists(e) THEN "read" ELSE "none"]
  /\ UNCHANGED <<disk, marker, deleted, worker, thread, late, canceller, stream>>

EmitDrop(a) ==
  /\ em[a].pc = "apply"
  /\ deleted
  /\ em' = [em EXCEPT ![a].pc = "none"]
  /\ UNCHANGED <<disk, marker, bus, worker, thread, late, canceller, stream>>

(* _persist_status skips a status that would reopen an ended session.       *)
EmitRead(a) ==
  /\ em[a].pc = "read"
  /\ em' = [em EXCEPT ![a].pc =
              IF disk \in Ended /\ StatusOf(em[a].event) \notin Ended
                THEN "none" ELSE "write"]
  /\ UNCHANGED <<disk, marker, bus, worker, thread, late, canceller, stream>>

\* Fault: the name of the event is written, not its status.
EmitWriteState(a) ==
  /\ em[a].pc = "write"
  /\ disk' = Written(em[a].event.state)
  /\ em' = [em EXCEPT ![a].pc = "none"]
  /\ UNCHANGED <<marker, bus, worker, thread, late, canceller, stream>>

EmitWrite(a) ==
  /\ em[a].pc = "write"
  /\ disk' = Written(StatusOf(em[a].event))
  /\ em' = [em EXCEPT ![a].pc = "none"]
  /\ UNCHANGED <<marker, bus, worker, thread, late, canceller, stream>>

EmitStep(a) ==
  \/ EmitExists(a) \/ EmitApply(a) \/ EmitDrop(a)
  \/ EmitRead(a) \/ EmitWrite(a)
-----------------------------------------------------------------------------
(***************************************************************************)
(* execute_pipeline_async, with the slot of the registry and the worker    *)
(* lock of the session, which it holds until it is over.                   *)
(***************************************************************************)
Goes(pc) == worker' = [worker EXCEPT !.pc = pc]

Start ==
  /\ worker.pc = "queued"
  /\ Goes("startup") /\ Emits("worker", "running", 0)
  /\ UNCHANGED <<disk, marker, bus, thread, late, canceller, stream>>

(* The inputs are loaded, and the pipeline is made; status "running".       *)
RecordRunning ==
  /\ worker.pc = "startup" /\ Emitted("worker")
  /\ disk' = Written("running")
  /\ worker' = [pc |-> "check", step |-> 1]
  /\ UNCHANGED <<marker, bus, em, thread, late, canceller, stream>>

StartupRaises ==
  /\ worker.pc = "startup" /\ Emitted("worker")
  /\ Goes("crash")
  /\ UNCHANGED <<disk, marker, bus, em, thread, late, canceller, stream>>

(* is_cancelled, between two tasks.                                         *)
StopsHere ==
  /\ worker.pc = "check" /\ marker
  /\ Goes("stopping") /\ Emits("worker", "cancelled", worker.step)
  /\ UNCHANGED <<disk, marker, bus, thread, late, canceller, stream>>

GoesOn ==
  /\ worker.pc = "check" /\ ~marker
  /\ Goes("announce") /\ Emits("worker", "running", worker.step)
  /\ UNCHANGED <<disk, marker, bus, thread, late, canceller, stream>>

StepBegins ==
  /\ worker.pc = "announce" /\ Emitted("worker")
  /\ Goes("step") /\ stepRunning' = TRUE
  /\ UNCHANGED <<disk, marker, bus, em, stalled, late, canceller, stream>>

StepReturns ==
  /\ worker.pc = "step"
  /\ stepRunning' = FALSE
  /\ Goes("report") /\ Emits("worker", "completed", worker.step)
  /\ UNCHANGED <<disk, marker, bus, stalled, late, canceller, stream>>

StepRaises ==
  /\ worker.pc = "step"
  /\ stepRunning' = FALSE
  /\ Goes("failing") /\ Emits("worker", "failed", worker.step)
  /\ UNCHANGED <<disk, marker, bus, stalled, late, canceller, stream>>

NextStep ==
  /\ worker.pc = "report" /\ Emitted("worker")
  /\ worker.step < NumSteps
  /\ worker' = [pc |-> "check", step |-> worker.step + 1]
  /\ UNCHANGED <<disk, marker, bus, em, thread, late, canceller, stream>>

(* After the last task a thread packages the output, when there is one.     *)
Package ==
  /\ worker.pc = "report" /\ Emitted("worker")
  /\ worker.step = NumSteps
  /\ \/ Goes("package") /\ stepRunning' = TRUE
     \/ Goes("publish") /\ UNCHANGED stepRunning
  /\ UNCHANGED <<disk, marker, bus, em, stalled, late, canceller, stream>>

Packaged ==   \* or the packaging raised, which is only noted
  /\ worker.pc = "package"
  /\ stepRunning' = FALSE
  /\ Goes("publish")
  /\ UNCHANGED <<disk, marker, bus, em, stalled, late, canceller, stream>>

(* The artifacts and the results are published: then the pipeline is done.  *)
Published ==
  /\ worker.pc = "publish"
  /\ Goes("completing") /\ Emits("worker", "pipeline_completed", worker.step)
  /\ UNCHANGED <<disk, marker, bus, thread, late, canceller, stream>>

PublishRaises ==
  /\ worker.pc = "publish"
  /\ Goes("crash")
  /\ UNCHANGED <<disk, marker, bus, em, thread, late, canceller, stream>>

RecordFailed ==
  /\ worker.pc = "failing" /\ Emitted("worker")
  /\ disk' = Written("failed")
  /\ Goes("over")
  /\ UNCHANGED <<marker, bus, em, thread, late, canceller, stream>>

RecordStopped ==
  /\ worker.pc = "stopping" /\ Emitted("worker")
  /\ disk' = Written("cancelled")
  /\ Goes("clearStopped")
  /\ UNCHANGED <<marker, bus, em, thread, late, canceller, stream>>

ClearStopped ==
  /\ worker.pc = "clearStopped"
  /\ marker' = FALSE
  /\ Goes("over")
  /\ UNCHANGED <<disk, bus, em, thread, late, canceller, stream>>

(* except CancelledError: disk first, then the marker, then the event.      *)
RecordCancelled ==
  /\ worker.pc = "recordCancelled"
  /\ disk' = Written("cancelled")
  /\ Goes("clearCancelled")
  /\ UNCHANGED <<marker, bus, em, thread, late, canceller, stream>>

ClearCancelled ==
  /\ worker.pc = "clearCancelled"
  /\ marker' = FALSE
  /\ Goes("cancelled") /\ Emits("worker", "cancelled", None)
  /\ UNCHANGED <<disk, bus, thread, late, canceller, stream>>

(* except Exception: disk first, then the event.                            *)
RecordCrash ==
  /\ worker.pc = "crash"
  /\ disk' = Written("failed")
  /\ Goes("crashed") /\ Emits("worker", "failed", None)
  /\ UNCHANGED <<marker, bus, thread, late, canceller, stream>>

IsOver ==
  /\ worker.pc \in {"completing", "cancelled", "crashed"} /\ Emitted("worker")
  /\ Goes("over")
  /\ UNCHANGED <<disk, marker, bus, em, thread, late, canceller, stream>>

(***************************************************************************)
(* _drain_cancelled_step: a cancelled coroutine waits for its thread, and  *)
(* only then is cancelled.  A task that raises meanwhile fails the run; a  *)
(* packaging that raises is noted, and the cancellation with it forgotten. *)
(* Past the deadline the session is marked, until the thread is done.      *)
(***************************************************************************)
Drains ==
  /\ worker.pc \in {"drainStep", "drainPackage"}
  /\ stepRunning' = FALSE
  /\ Goes("recordCancelled")
  /\ UNCHANGED <<disk, marker, bus, em, stalled, late, canceller, stream>>

DrainRaises ==
  /\ stepRunning' = FALSE
  /\ \/ /\ worker.pc = "drainStep"
        /\ Goes("failing") /\ Emits("worker", "failed", worker.step)
     \/ /\ worker.pc = "drainPackage"
        /\ Goes("publish") /\ UNCHANGED em
  /\ UNCHANGED <<disk, marker, bus, stalled, late, canceller, stream>>

\* Fault: the session is not marked.
DrainTimesOutUnmarked ==
  /\ \/ /\ worker.pc = "drainStep"
        /\ Goes("failing") /\ Emits("worker", "failed", worker.step)
     \/ /\ worker.pc = "drainPackage"
        /\ Goes("crash") /\ UNCHANGED em
  /\ UNCHANGED <<disk, marker, bus, thread, late, canceller, stream>>

DrainTimesOut ==
  /\ stalled' = TRUE
  /\ \/ /\ worker.pc = "drainStep"
        /\ Goes("failing") /\ Emits("worker", "failed", worker.step)
     \/ /\ worker.pc = "drainPackage"
        /\ Goes("crash") /\ UNCHANGED em
  /\ UNCHANGED <<disk, marker, bus, stepRunning, late, canceller, stream>>

StalledReturns ==
  /\ stalled
  /\ stepRunning' = FALSE /\ stalled' = FALSE
  /\ UNCHANGED <<disk, marker, bus, worker, em, late, canceller, stream>>

WorkerStep ==
  \/ Start \/ RecordRunning \/ StartupRaises \/ StopsHere \/ GoesOn
  \/ StepBegins \/ StepReturns \/ StepRaises \/ NextStep
  \/ Package \/ Packaged \/ Published \/ PublishRaises
  \/ RecordFailed \/ RecordStopped \/ ClearStopped
  \/ RecordCancelled \/ ClearCancelled \/ RecordCrash \/ IsOver
  \/ Drains \/ DrainRaises \/ DrainTimesOut
-----------------------------------------------------------------------------
(***************************************************************************)
(* POST /cancel: the request is refused when the session has ended; then   *)
(* request_cancellation, the cancelling event, and task.cancel().          *)
(***************************************************************************)
CancelAccepted(c) ==
  /\ canceller[c] = "idle" /\ disk \in Live
  /\ canceller' = [canceller EXCEPT ![c] = "mark"]
  /\ UNCHANGED <<disk, marker, bus, worker, em, thread, late, stream>>

DropMarker(c) ==
  /\ canceller[c] = "mark" /\ disk # "gone"
  /\ marker' = TRUE
  /\ canceller' = [canceller EXCEPT ![c] = "note"]
  /\ UNCHANGED <<disk, bus, worker, em, thread, late, stream>>

MarkCancelling(c) ==
  /\ canceller[c] = "note" \/ (canceller[c] = "mark" /\ disk = "gone")
  /\ disk' = IF disk \in Live THEN "cancelling" ELSE disk
  /\ canceller' = [canceller EXCEPT ![c] = "emit"]
  /\ Emits(c, "cancelling", snap.step)
  /\ UNCHANGED <<marker, bus, worker, thread, late, stream>>

(* Where a CancelledError leaves the coroutine: it waits for its thread;    *)
(* inside an except clause it gives up; elsewhere it records cancelled.     *)
Handlers == {"recordCancelled", "clearCancelled", "cancelled", "crash", "crashed"}
Draining == {"drainStep", "drainPackage"}
Interrupted(pc) ==
  IF pc = "step" THEN "drainStep"
  ELSE IF pc = "package" THEN "drainPackage"
  ELSE IF pc \in Handlers THEN "over" ELSE "recordCancelled"

(* The status write the worker awaits, if it awaits one.                    *)
AwaitedWrite ==
  IF em["worker"].pc = "write" THEN StatusOf(em["worker"].event)
  ELSE IF ~Emitted("worker") THEN None
  ELSE IF worker.pc = "startup" THEN "running"
  ELSE IF worker.pc \in {"stopping", "recordCancelled"} THEN "cancelled"
  ELSE IF worker.pc \in {"failing", "crash"} THEN "failed"
  ELSE None

CancelTask(c) ==
  /\ canceller[c] = "emit" /\ Emitted(c)
  /\ worker.pc \notin {"queued", "over"} \cup Draining
  /\ Goes(Interrupted(worker.pc))
  /\ em' = [em EXCEPT !["worker"] = Quiet]
  /\ \E w \in {None, AwaitedWrite} : late' = [late EXCEPT ![c] = w]
  /\ marker' \in IF worker.pc \in {"clearStopped", "clearCancelled"}
                   THEN {marker, FALSE} ELSE {marker}
  /\ canceller' = [canceller EXCEPT ![c] = "idle"]
  /\ UNCHANGED <<disk, bus, thread, stream>>

(* The cancelled task never started: _cancel_never_started_callback.        *)
CancelQueued(c) ==
  /\ canceller[c] = "emit" /\ Emitted(c)
  /\ worker.pc = "queued"
  /\ disk' = Written("cancelled")
  /\ Goes("over") /\ Emits("wrapper", "cancelled", None)
  /\ canceller' = [canceller EXCEPT ![c] = "idle"]
  /\ UNCHANGED <<marker, bus, thread, late, stream>>

(* The worker is over, or its drain takes no notice.                        *)
CancelIgnored(c) ==
  /\ canceller[c] = "emit" /\ Emitted(c)
  /\ worker.pc \in {"over"} \cup Draining
  /\ canceller' = [canceller EXCEPT ![c] = "idle"]
  /\ UNCHANGED <<disk, marker, bus, worker, em, thread, late, stream>>

(* A write whose await was cancelled reaches the disk.                      *)
LateWrite(c) ==
  /\ late[c] # None
  /\ disk' = Written(late[c])
  /\ late' = [late EXCEPT ![c] = None]
  /\ UNCHANGED <<marker, bus, worker, em, thread, canceller, stream>>

CancellerStep(c) ==
  \/ DropMarker(c) \/ MarkCancelling(c)
  \/ CancelTask(c) \/ CancelQueued(c) \/ CancelIgnored(c)
-----------------------------------------------------------------------------
(***************************************************************************)
(* DELETE and the TTL loop: the files, under the worker lock and only when *)
(* no thread is marked; then cleanup_session.                              *)
(***************************************************************************)
DeleteSession ==
  /\ disk # "gone"
  /\ worker.pc = "over" /\ ~stalled
  /\ disk' = "gone"
  /\ UNCHANGED <<marker, bus, worker, em, thread, late, canceller, stream>>

CleanupSession ==
  /\ disk = "gone" /\ ~deleted
  /\ deleted' = TRUE
  /\ queue' = 1
  /\ UNCHANGED <<disk, marker, snap, worker, em, thread, late, canceller, stream>>

(***************************************************************************)
(* GET /events.  A stream keeps the snapshot it found and the queue it     *)
(* registered; streams of a session share one queue, and one registered    *)
(* after the cleanup is new and stays empty.  After 30 s without an event  *)
(* it looks at the session again.                                          *)
(***************************************************************************)
StreamChecks(s) ==
  /\ stream[s] = "idle" /\ disk # "gone"
  /\ stream' = [stream EXCEPT ![s] = "checked"]
  /\ UNCHANGED <<disk, marker, bus, worker, em, thread, late, canceller>>

StreamOpens(s) ==
  /\ stream[s] = "checked"
  /\ stream' = [stream EXCEPT ![s] = IF deleted THEN "openedNew" ELSE "opened"]
  /\ UNCHANGED <<disk, marker, bus, worker, em, thread, late, canceller>>

StreamStarts(s) ==
  /\ stream[s] \in {"opened", "openedNew"}
  /\ stream' = [stream EXCEPT ![s] =
                  IF snap.status \in Ended THEN "done"
                  ELSE IF @ = "opened" THEN "waiting" ELSE "waitingNew"]
  /\ UNCHANGED <<disk, marker, bus, worker, em, thread, late, canceller>>

StreamGets(s) ==
  /\ stream[s] = "waiting" /\ queue > 0
  /\ queue' = queue - 1
  /\ stream' = [stream EXCEPT ![s] = "done"]
  /\ UNCHANGED <<disk, marker, snap, deleted, worker, em, thread, late, canceller>>

\* Fault: only the existence of the session is looked at again.
StreamTimesOutGone(s) ==
  /\ stream[s] = "waitingNew" \/ (stream[s] = "waiting" /\ queue = 0)
  /\ disk = "gone"
  /\ stream' = [stream EXCEPT ![s] = "done"]
  /\ UNCHANGED <<disk, marker, bus, worker, em, thread, late, canceller>>

StreamTimesOut(s) ==
  /\ stream[s] = "waitingNew" \/ (stream[s] = "waiting" /\ queue = 0)
  /\ disk \in Ended \cup {"gone"}
  /\ stream' = [stream EXCEPT ![s] = "done"]
  /\ UNCHANGED <<disk, marker, bus, worker, em, thread, late, canceller>>

StreamStep(s) ==
  \/ StreamOpens(s) \/ StreamStarts(s) \/ StreamGets(s) \/ StreamTimesOut(s)

Next ==
  \/ \E a \in Emitters : EmitStep(a)
  \/ WorkerStep \/ StalledReturns
  \/ \E c \in Cancellers : CancelAccepted(c) \/ CancellerStep(c) \/ LateWrite(c)
  \/ DeleteSession \/ CleanupSession
  \/ \E s \in Streams : StreamChecks(s) \/ StreamStep(s)

(* The event loop gives every coroutine its turn, calls to pool threads     *)
(* return or raise, a queued job gets its slot.                             *)
Fairness ==
  /\ WF_vars(WorkerStep)
  /\ \A a \in Emitters : WF_vars(EmitStep(a))
  /\ \A s \in Streams : WF_vars(StreamStep(s))

Spec == Init /\ [][Next]_vars /\ Fairness
-----------------------------------------------------------------------------
(***************************************************************************)
(* Properties                                                              *)
(***************************************************************************)

(* Who is told that a session has ended, or finds it deleted, finds no      *)
(* thread still at work on its files; a thread that outlived its drain      *)
(* keeps the session from being deleted (the drain, the stalled marker and  *)
(* the refusals of delete_session).                                         *)
NoWorkAfterEnd ==
  stepRunning =>
    /\ disk # "gone"
    /\ ~stalled => /\ snap.status \notin Ended
                   /\ \A s \in Streams : stream[s] # "done"

(* The bus knows how it ended: when a run is over its snapshot has ended    *)
(* (unless a cancellation hit the worker in its own handler, or before it   *)
(* began, when its wrapper is still to tell), and what has ended stays so,  *)
(* though cancel requests keep emitting into the same snapshot and an event *)
(* that ends a step sets no status.  That includes the outermost handler:   *)
(* it emits "failed" after it has written it (executor.py:4528), although   *)
(* sessions_router.py:67 still says that it emits nothing and leaves a      *)
(* stale "running" behind.  An emit() that raises is not modelled.          *)
SnapshotTellsEnd ==
  [][/\ snap.status \in Ended => snap'.status \in Ended
     /\ worker.pc # "over" /\ worker'.pc = "over" =>
          \/ snap'.status \in Ended
          \/ \E c \in Cancellers : CancelTask(c) /\ worker.pc \in Handlers
          \/ \E c \in Cancellers : CancelQueued(c)]_vars

(* A stream ends, also one whose event another stream took or that opened   *)
(* too late for it, unless the run is over and left a status on disk that   *)
(* has not ended.                                                           *)
StreamsEnd ==
  \A s \in Streams :
    stream[s] \in {"waiting", "waitingNew"} ~>
      \/ stream[s] = "done"
      \/ worker.pc = "over" /\ disk \in Live

(* cancel_pipeline on its two writers of "cancelling": if the worker        *)
(* finished in the meantime, "neither will downgrade the final status".     *)
FinalStatusStays == [][(disk \in Ended) => (disk' \notin Live)]_vars
=============================================================================
