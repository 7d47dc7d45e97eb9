--------------------------- MODULE OvrtxDispatcher ---------------------------
(***************************************************************************)
(* The parent of the OVRTX rendering service                               *)
(* (apps/ovrtx_rendering_api/service/dispatcher.py): it runs one private   *)
(* worker process per GPU, polls their health, restarts them, and hands    *)
(* each render to a worker that is ready.                                  *)
(*                                                                         *)
(* One condition variable protects the fields of WorkerState, but no       *)
(* operation holds it while it talks to a worker or spawns or stops one.   *)
(* An action is what a thread does between two points where another may    *)
(* run.  A thread is either the health check of a worker, started by the   *)
(* monitor and never more than one per worker, or a request that renders.  *)
(***************************************************************************)
EXTENDS Naturals, FiniteSets

CONSTANTS
  NumGpus,           (* number of workers, in the order of their ports      *)
  Clients,           (* threads that render                                 *)
  Handles,           (* process handles of one GPU; those of dead processes *)
                     (* are used again                                      *)
  MaxSpawnFailures,  (* bound on the times a process cannot be created      *)
  MaxSurvivors,      (* bound on the killed processes that have not exited  *)
  None               (* no process, no worker, nothing seen                 *)

Gpus == 1..NumGpus
Threads == Gpus \cup Clients  \* gpu g is also the name of its health check

ASSUME DispatcherAssumption ==
  /\ NumGpus \in Nat \ {0}
  /\ MaxSpawnFailures \in Nat
  /\ MaxSurvivors \in Nat
  /\ Clients \cap Gpus = {}
  /\ None \notin Gpus \cup Handles

VARIABLES
  phase,             (* of the service: starting, running, stopping, stopped *)
  turn,              (* the worker that start() or stop() is at             *)
  process,           (* WorkerState.process                                 *)
  ready, status, inFlight, restartRequested,  (* of WorkerState             *)
  unhealthySince,    (* of WorkerState: no, recent, or overdue: older than  *)
                     (* restart_cooldown_seconds                            *)
  restartDue,        (* next_restart_at has passed                          *)
  life,              (* of each process: booting, up (serves the port),     *)
                     (* killed (sent the signal but not gone: it answers    *)
                     (* nothing and keeps its port), exited                 *)
  task,              (* what each thread is doing                           *)
  spawnFailures,
  renderRestarted    (* history: a render restarted a worker by itself      *)

fields == <<ready, status, inFlight, restartRequested, unhealthySince, restartDue>>
service == <<phase, turn>>
history == <<spawnFailures, renderRestarted>>
vars == <<service, process, fields, life, task, history>>

Reports == {"healthy", "initializing", "unhealthy"}
Answers == {"ok", "error", "retryable"}
CheckSteps == {"poll", "exited", "due", "health", "apply"}
RenderSteps == {"post", "rendering", "unhealthy", "release"}
RestartSteps == {"restart", "stop", "clear", "popen", "assign"}

Doing(pc, g, h, s) == [pc |-> pc, gpu |-> g, handle |-> h, seen |-> s]
Idle(t) == Doing("idle", IF t \in Gpus THEN t ELSE None, None, None)
At(t, pc) == task[t].pc = pc
Goto(t, pc) == task' = [task EXCEPT ![t] = Doing(pc, @.gpu, @.handle, @.seen)]
Rest(t) == task' = [task EXCEPT ![t] = Idle(t)]

Alive(g) == {h \in Handles : life[g][h] # "exited"}
Serving(g) == {h \in Handles : life[g][h] = "up"}
Running(g) == {h \in Handles : life[g][h] \in {"booting", "up"}}
HoldsPort(g) == {h \in Handles : life[g][h] \in {"up", "killed"}}
Survivors == {p \in Gpus \X Handles : life[p[1]][p[2]] = "killed"}
Unused(g) ==
  {h \in Handles \ Alive(g) :
     process[g] # h /\ \A t \in Threads : task[t].gpu = g => task[t].handle # h}
Becomes(g, h, l) == life' = [life EXCEPT ![g] = [@ EXCEPT ![h] = l]]
Spawned(g, h) == Becomes(g, h, "booting")

(* _stop_process: a process that has not exited 5 s after the kill is       *)
(* logged, and the caller goes on as if it had.                             *)
NotStopped(g, h) == life' = life  \* fault: the process is not terminated
Stopped(g, h) ==
  \/ h = None /\ life' = life
  \/ h # None /\ Becomes(g, h, "exited")
  \/ /\ h \in Alive(g)
     /\ h \in Running(g) => Cardinality(Survivors) < MaxSurvivors
     /\ Becomes(g, h, "killed")
-----------------------------------------------------------------------------
TypeOK ==
  /\ phase \in {"starting", "running", "stopping", "stopped"}
  /\ turn \in 1..(NumGpus + 1)
  /\ process \in [Gpus -> Handles \cup {None}]
  /\ ready \in [Gpus -> BOOLEAN]
  /\ status \in [Gpus -> Reports \cup {"starting", "restarting", "exited"}]
  /\ inFlight \in [Gpus -> Nat]
  /\ restartRequested \in [Gpus -> BOOLEAN]
  /\ unhealthySince \in [Gpus -> {"no", "recent", "overdue"}]
  /\ restartDue \in [Gpus -> BOOLEAN]
  /\ life \in [Gpus -> [Handles -> {"booting", "up", "killed", "exited"}]]
  /\ task \in [Threads ->
                 [pc: {"idle"} \cup CheckSteps \cup RenderSteps \cup RestartSteps,
                  gpu: Gpus \cup {None}, handle: Handles \cup {None},
                  seen: Reports \cup Answers \cup {"failed", None}]]
  /\ \A t \in Threads : task[t].gpu = None => At(t, "idle")
  /\ \A g \in Gpus : task[g].gpu = g /\ task[g].pc \notin RenderSteps
  /\ \A g \in Gpus : At(g, "apply") => task[g].seen \in Reports \cup {"failed"}
  /\ \A c \in Clients : task[c].pc \notin CheckSteps
  /\ spawnFailures \in 0..MaxSpawnFailures
  /\ renderRestarted \in BOOLEAN

Init ==
  /\ phase = "starting"
  /\ turn = 1
  /\ process = [g \in Gpus |-> None]
  /\ ready = [g \in Gpus |-> FALSE]
  /\ status = [g \in Gpus |-> "starting"]
  /\ inFlight = [g \in Gpus |-> 0]
  /\ restartRequested = [g \in Gpus |-> FALSE]
  /\ unhealthySince = [g \in Gpus |-> "no"]
  /\ restartDue = [g \in Gpus |-> TRUE]
  /\ life = [g \in Gpus |-> [h \in Handles |-> "exited"]]
  /\ task = [t \in Threads |-> Idle(t)]
  /\ spawnFailures = 0
  /\ renderRestarted = FALSE
-----------------------------------------------------------------------------
(***************************************************************************)
(* start(), before there is another thread: one worker after the other,    *)
(* and when one cannot be spawned, those that were are stopped.            *)
(***************************************************************************)
StartWorker(h) ==
  /\ phase = "starting" /\ turn \in Gpus
  /\ h \in Unused(turn)
  /\ Spawned(turn, h)
  /\ process' = [process EXCEPT ![turn] = h]
  /\ turn' = turn + 1
  /\ phase' = IF turn = NumGpus THEN "running" ELSE phase
  /\ UNCHANGED <<fields, task, history>>

StartFails ==
  /\ phase = "starting" /\ turn \in Gpus
  /\ spawnFailures < MaxSpawnFailures
  /\ spawnFailures' = spawnFailures + 1
  /\ \E survive \in SUBSET Gpus :
       /\ Cardinality(survive) <= MaxSurvivors
       /\ life' = [g \in Gpus |-> [h \in Handles |->
                     IF process[g] # h \/ life[g][h] = "exited" THEN life[g][h]
                     ELSE IF g \in survive THEN "killed" ELSE "exited"]]
  /\ phase' = "stopped"
  /\ UNCHANGED <<turn, process, fields, task, renderRestarted>>

(***************************************************************************)
(* stop().  The server has drained its requests.  The monitor task is      *)
(* cancelled, which starts no new check and ends none.                     *)
(***************************************************************************)
BeginStop ==
  /\ phase = "running"
  /\ \A c \in Clients : At(c, "idle")
  /\ phase' = "stopping" /\ turn' = 1
  /\ UNCHANGED <<process, fields, life, task, history>>

StopWorker ==
  /\ phase = "stopping" /\ turn \in Gpus
  /\ Stopped(turn, process[turn])
  /\ turn' = turn + 1
  /\ phase' = IF turn = NumGpus THEN "stopped" ELSE phase
  /\ UNCHANGED <<process, fields, task, history>>
-----------------------------------------------------------------------------
(***************************************************************************)
(* _check_worker.  It reads worker.process without the lock.               *)
(***************************************************************************)
CheckRead(g) ==
  /\ At(g, "idle") /\ phase = "running"
  /\ task' = [task EXCEPT ![g] = Doing("poll", g, process[g], None)]
  /\ UNCHANGED <<service, process, fields, life, history>>

Exited(g, h) == h # None /\ h \notin Alive(g)

CheckPoll(g) ==
  /\ At(g, "poll")
  /\ Goto(g, IF Exited(g, task[g].handle) THEN "exited" ELSE "health")
  /\ UNCHANGED <<service, process, fields, life, history>>

CheckHealth(g, report) ==
  /\ At(g, "health")
  /\ report \in Reports => Serving(g) # {}
  /\ task' = [task EXCEPT ![g] = Doing("apply", g, None, report)]
  /\ UNCHANGED <<service, process, fields, life, history>>

(* What the worker, or whoever serves its port, reported is applied however *)
(* much later; a worker that is starting may fail to answer.                *)
ReportedAsSeen(g, report) == report  \* fault: no status for a failure
Reported(g, report) ==
  IF report # "failed" THEN report
  ELSE IF status[g] = "starting" THEN "starting" ELSE "unhealthy"

SinceAgain(g, s) ==  \* fault: it counts from the last failure, not the first
  IF s \in {"healthy", "initializing"} THEN "no"
  ELSE IF s # "starting" THEN "recent"
  ELSE unhealthySince[g]

SinceFirst(g, s) ==
  IF s \in {"healthy", "initializing"} THEN "no"
  ELSE IF s # "starting" /\ unhealthySince[g] = "no" THEN "recent"
  ELSE unhealthySince[g]

CheckApply(g) ==
  /\ At(g, "apply")
  /\ LET s == Reported(g, task[g].seen)
     IN  /\ ready' = [ready EXCEPT ![g] = s = "healthy"]
         /\ status' = [status EXCEPT ![g] = s]
         /\ unhealthySince' = [unhealthySince EXCEPT ![g] = SinceFirst(g, s)]
  /\ Goto(g, "restart")
  /\ UNCHANGED <<service, process, inFlight, restartRequested, restartDue, life,
                 history>>

(* _mark_worker_exited, then _restart_worker_if_due: the cooldown starts    *)
(* when the exit is noticed first.                                          *)
CooldownEachTime(g) == FALSE  \* fault: whenever it is noticed
CooldownOnce(g) == restartDue[g] /\ status[g] = "exited"

MarkExited(g) ==
  /\ At(g, "exited")
  /\ restartDue' = [restartDue EXCEPT ![g] = CooldownOnce(g)]
  /\ ready' = [ready EXCEPT ![g] = FALSE]
  /\ status' = [status EXCEPT ![g] = "exited"]
  /\ unhealthySince' = [unhealthySince EXCEPT ![g] = "no"]
  /\ restartRequested' = [restartRequested EXCEPT ![g] = FALSE]
  /\ Goto(g, "due")
  /\ UNCHANGED <<service, process, inFlight, life, history>>

RestartExited(g) ==
  /\ At(g, "due")
  /\ IF restartDue[g]
       THEN task' = [task EXCEPT ![g] = Doing("clear", g, None, None)]
       ELSE Rest(g)
  /\ UNCHANGED <<service, process, fields, life, history>>
-----------------------------------------------------------------------------
(***************************************************************************)
(* _restart_unhealthy_worker_if_due, by a check or by a render: take the   *)
(* process out under the lock, stop it, and start another.                 *)
(***************************************************************************)
DueWhenAsked(g) ==  \* fault: a render in flight does not defer a restart
  restartRequested[g] \/ (~ready[g] /\ unhealthySince[g] = "overdue")

Due(g) ==
  /\ inFlight[g] = 0
  /\ restartRequested[g] \/ (~ready[g] /\ unhealthySince[g] = "overdue")

RestartPop(t) ==
  LET g == task[t].gpu IN
  /\ At(t, "restart")
  /\ Due(g)
  /\ process' = [process EXCEPT ![g] = None]
  /\ ready' = [ready EXCEPT ![g] = FALSE]
  /\ status' = [status EXCEPT ![g] = "restarting"]
  /\ unhealthySince' = [unhealthySince EXCEPT ![g] = "no"]
  /\ restartRequested' = [restartRequested EXCEPT ![g] = FALSE]
  /\ task' = [task EXCEPT ![t] = Doing("stop", g, process[g], None)]
  /\ UNCHANGED <<service, inFlight, restartDue, life, history>>

RestartNotDue(t) ==
  /\ At(t, "restart")
  /\ ~Due(task[t].gpu)
  /\ Rest(t)
  /\ UNCHANGED <<service, process, fields, life, history>>

StopProcess(t) ==
  /\ At(t, "stop")
  /\ Stopped(task[t].gpu, task[t].handle)
  /\ task' = [task EXCEPT ![t] = Doing("clear", @.gpu, None, None)]
  /\ UNCHANGED <<service, process, fields, history>>

(* _start_worker *)
ClearWorker(t) ==
  LET g == task[t].gpu IN
  /\ At(t, "clear")
  /\ process' = [process EXCEPT ![g] = None]
  /\ ready' = [ready EXCEPT ![g] = FALSE]
  /\ status' = [status EXCEPT ![g] = "starting"]
  /\ unhealthySince' = [unhealthySince EXCEPT ![g] = "no"]
  /\ restartRequested' = [restartRequested EXCEPT ![g] = FALSE]
  /\ Goto(t, "popen")
  /\ UNCHANGED <<service, inFlight, restartDue, life, history>>

Popen(t, h) ==
  LET g == task[t].gpu IN
  /\ At(t, "popen")
  /\ h \in Unused(g)
  /\ Spawned(g, h)
  /\ task' = [task EXCEPT ![t] = Doing("assign", g, h, None)]
  /\ UNCHANGED <<service, process, fields, history>>

PopenFails(t) ==
  /\ At(t, "popen")
  /\ spawnFailures < MaxSpawnFailures
  /\ spawnFailures' = spawnFailures + 1
  /\ Rest(t)
  /\ UNCHANGED <<service, process, fields, life, renderRestarted>>

AssignProcess(t) ==
  /\ At(t, "assign")
  /\ process' = [process EXCEPT ![task[t].gpu] = task[t].handle]
  /\ Rest(t)
  /\ UNCHANGED <<service, fields, life, history>>
-----------------------------------------------------------------------------
(***************************************************************************)
(* render and render_protocol_v3_upload                                    *)
(***************************************************************************)
AnyReady(g) == ready[g]  \* fault: also one that renders

(* _acquire_worker: the first idle one of those that are ready              *)
Available(g) == ready[g] /\ inFlight[g] = 0

Acquire(c, g) ==
  /\ At(c, "idle") /\ phase = "running"
  /\ Available(g)
  /\ \A k \in 1..(g - 1) : ~Available(k)
  /\ inFlight' = [inFlight EXCEPT ![g] = @ + 1]
  /\ task' = [task EXCEPT ![c] = Doing("post", g, None, None)]
  /\ UNCHANGED <<service, process, ready, status, restartRequested,
                 unhealthySince, restartDue, life, history>>

Post(c, h) ==
  /\ At(c, "post")
  /\ h \in Serving(task[c].gpu)
  /\ task' = [task EXCEPT ![c] = Doing("rendering", @.gpu, h, None)]
  /\ UNCHANGED <<service, process, fields, life, history>>

(* Nobody listens, or who rendered is gone, or the request timed out.       *)
PostFails(c) ==
  /\ \/ At(c, "post") /\ Serving(task[c].gpu) = {}
     \/ At(c, "rendering")
  /\ task' = [task EXCEPT ![c] = Doing("unhealthy", @.gpu, None, "error")]
  /\ UNCHANGED <<service, process, fields, life, history>>

Answer(c, answer) ==
  /\ At(c, "rendering")
  /\ task[c].handle \in Serving(task[c].gpu)
  /\ task' = [task EXCEPT ![c] =
       Doing(IF answer = "ok" THEN "release" ELSE "unhealthy", @.gpu, None, answer)]
  /\ UNCHANGED <<service, process, fields, life, history>>

MarkUnhealthy(c) ==
  LET g == task[c].gpu
      now == task[c].seen = "retryable"
  IN
  /\ At(c, "unhealthy")
  /\ ready' = [ready EXCEPT ![g] = FALSE]
  /\ status' = [status EXCEPT ![g] = "unhealthy"]
  /\ unhealthySince' = [unhealthySince EXCEPT ![g] =
                          IF now THEN "overdue" ELSE IF @ = "no" THEN "recent" ELSE @]
  /\ restartRequested' = [restartRequested EXCEPT ![g] = @ \/ now]
  /\ Goto(c, "release")
  /\ UNCHANGED <<service, process, inFlight, restartDue, life, history>>

Release(c) ==
  LET g == task[c].gpu IN
  /\ At(c, "release")
  /\ inFlight' = [inFlight EXCEPT ![g] = IF @ > 0 THEN @ - 1 ELSE 0]
  /\ IF task[c].seen = "retryable"
       THEN /\ task' = [task EXCEPT ![c] = Doing("restart", g, None, None)]
            /\ renderRestarted' = TRUE
       ELSE Rest(c) /\ UNCHANGED renderRestarted
  /\ UNCHANGED <<service, process, ready, status, restartRequested,
                 unhealthySince, restartDue, life, spawnFailures>>
-----------------------------------------------------------------------------
(***************************************************************************)
(* Outside of the dispatcher: time passes, and worker processes come up,   *)
(* which fails when another one has the port, and die.                     *)
(***************************************************************************)
Elapse(g) ==
  /\ \/ /\ unhealthySince[g] = "recent"
        /\ unhealthySince' = [unhealthySince EXCEPT ![g] = "overdue"]
        /\ UNCHANGED restartDue
     \/ /\ ~restartDue[g]
        /\ restartDue' = [restartDue EXCEPT ![g] = TRUE]
        /\ UNCHANGED unhealthySince
  /\ UNCHANGED <<service, process, ready, status, inFlight, restartRequested,
                 life, task, history>>

ComeUp(g, h) ==
  /\ life[g][h] = "booting"
  /\ Becomes(g, h, IF HoldsPort(g) = {} THEN "up" ELSE "exited")
  /\ UNCHANGED <<service, process, fields, task, history>>

Die(g, h) ==
  /\ h \in Alive(g)
  /\ Becomes(g, h, "exited")
  /\ UNCHANGED <<service, process, fields, task, history>>

Restart(t) ==
  \/ RestartPop(t) \/ RestartNotDue(t) \/ StopProcess(t) \/ ClearWorker(t)
  \/ \E h \in Handles : Popen(t, h)
  \/ PopenFails(t) \/ AssignProcess(t)

Check(g) ==
  \/ CheckRead(g) \/ CheckPoll(g) \/ CheckApply(g)
  \/ \E report \in Reports \cup {"failed"} : CheckHealth(g, report)
  \/ MarkExited(g) \/ RestartExited(g) \/ Restart(g)

Render(c) ==
  \/ \E h \in Handles : Post(c, h)
  \/ PostFails(c)
  \/ \E answer \in Answers : Answer(c, answer)
  \/ MarkUnhealthy(c) \/ Release(c) \/ Restart(c)

Next ==
  \/ \E h \in Handles : StartWorker(h)
  \/ StartFails \/ BeginStop \/ StopWorker
  \/ \E g \in Gpus : Check(g)
  \/ \E c \in Clients, g \in Gpus : Acquire(c, g)
  \/ \E c \in Clients : Render(c)
  \/ \E g \in Gpus : Elapse(g)
  \/ \E g \in Gpus, h \in Handles : ComeUp(g, h) \/ Die(g, h)

(* Threads run, requests answer or time out, and time passes.  That a       *)
(* worker comes up, dies, or the service is stopped is never certain.       *)
Fairness ==
  /\ \A g \in Gpus : WF_vars(Check(g)) /\ WF_vars(Elapse(g))
  /\ \A c \in Clients : WF_vars(Render(c))

Spec == Init /\ [][Next]_vars /\ Fairness
-----------------------------------------------------------------------------
(***************************************************************************)
(* Properties                                                              *)
(***************************************************************************)
Holders(g) == {c \in Clients : task[c].gpu = g /\ task[c].pc \in RenderSteps}

(* Each worker is single-flight: in_flight counts the requests that hold    *)
(* the worker, whatever failed or was restarted in between, and there is    *)
(* never more than one (_acquire_worker, the finally of render).            *)
SingleFlight ==
  \A g \in Gpus : inFlight[g] = Cardinality(Holders(g)) /\ inFlight[g] <= 1

(* As long as the health check alone restarts workers, a process of a GPU   *)
(* is spawned only when every earlier one has exited or has been killed,    *)
(* also when workers die, fail to answer, cannot be spawned, or the service *)
(* stops: at most one is up or on its way up.  That a killed one is gone is *)
(* not promised: _stop_process waits for it 5 s and no longer.              *)
MonitorKeepsOne ==
  ~renderRestarted => \A g \in Gpus : \A h, k \in Running(g) : h = k

(* As long as the health check alone restarts workers, it never stops a     *)
(* process that is rendering: in_flight defers the restart, and from then   *)
(* on nobody can acquire the worker.                                        *)
RestartSparesRenders ==
  ~renderRestarted =>
    \A g \in Gpus, c \in Clients :
      At(g, "stop") /\ At(c, "rendering") /\ task[c].gpu = g =>
        task[c].handle # task[g].handle

Undisturbed == phase = "running" /\ ~renderRestarted

(* A process was spawned for the worker just now.                           *)
Spawning(g) == \E t \in Threads : At(t, "assign") /\ task[t].gpu = g

(* The spawn failed.  The code never tries again by itself: the worker has  *)
(* no process that could be seen to exit, and stays "starting" whatever its *)
(* health checks say.                                                       *)
Abandoned(g) ==
  /\ process[g] = None /\ status[g] = "starting"
  /\ \A t \in Threads : task[t].gpu = g => task[t].pc \notin {"popen", "assign"}

(* For a worker whose process died another one is spawned, after its        *)
(* cooldown, or the spawn fails.                                            *)
DeadIsReplaced ==
  \A g \in Gpus, h \in Handles :
    (Undisturbed /\ process[g] = h /\ h \notin Alive(g))
      ~> (Spawning(g) \/ Abandoned(g) \/ ~Undisturbed)

(* A worker that is unhealthy reports again that it is healthy or on its    *)
(* way, or, once its cooldown is over and the render that holds it has      *)
(* returned, another process is spawned for it or that spawn fails.         *)
UnhealthyIsResolved ==
  \A g \in Gpus :
    (Undisturbed /\ status[g] = "unhealthy")
      ~> (\/ status[g] \in {"healthy", "initializing"}
          \/ Spawning(g) \/ Abandoned(g) \/ ~Undisturbed)
=============================================================================
