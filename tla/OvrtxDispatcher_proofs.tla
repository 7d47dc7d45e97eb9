------------------------ MODULE OvrtxDispatcher_proofs ------------------------
(***************************************************************************)
(* Proofs about OvrtxDispatcher, for every number of GPUs, of clients and  *)
(* of process handles, and whatever the timing is.                         *)
(***************************************************************************)
EXTENDS OvrtxDispatcher, FiniteSetTheorems, TLAPS

Status == Reports \cup {"starting", "restarting", "exited"}
Steps == {"idle"} \cup CheckSteps \cup RenderSteps \cup RestartSteps
Tasks == [pc: Steps, gpu: Gpus \cup {None}, handle: Handles \cup {None},
          seen: Reports \cup Answers \cup {"failed", None}]
Lives == [Gpus -> [Handles -> {"booting", "up", "killed", "exited"}]]

(* What a thread may be doing.                                              *)
Allowed(t, d) ==
  /\ d \in Tasks
  /\ d.gpu = None => d.pc = "idle"
  /\ t \in Gpus => d.gpu = t /\ d.pc \notin RenderSteps
  /\ d.pc = "apply" => d.seen \in Reports \cup {"failed"}
  /\ t \in Clients => d.pc \notin CheckSteps

(* The type invariant in parts.                                             *)
ServiceOK ==
  /\ phase \in {"starting", "running", "stopping", "stopped"}
  /\ turn \in 1..(NumGpus + 1)
  /\ spawnFailures \in 0..MaxSpawnFailures
  /\ renderRestarted \in BOOLEAN
WorkersOK ==
  /\ process \in [Gpus -> Handles \cup {None}]
  /\ ready \in [Gpus -> BOOLEAN]
  /\ status \in [Gpus -> Status]
  /\ inFlight \in [Gpus -> Nat]
  /\ restartRequested \in [Gpus -> BOOLEAN]
  /\ unhealthySince \in [Gpus -> {"no", "recent", "overdue"}]
  /\ restartDue \in [Gpus -> BOOLEAN]
LivesOK == life \in Lives
TasksOK ==
  /\ DOMAIN task = Threads
  /\ task = [t \in Threads |-> task[t]]
  /\ \A t \in Threads : Allowed(t, task[t])

(* These parts are the type invariant.                                      *)
LEMMA TypeParts == TypeOK <=> ServiceOK /\ WorkersOK /\ LivesOK /\ TasksOK
<1>1. TypeOK => ServiceOK /\ WorkersOK /\ LivesOK
  BY DEF TypeOK, ServiceOK, WorkersOK, LivesOK, Status, Lives
<1>2. ASSUME TypeOK PROVE TasksOK
  <2>1. task \in [Threads -> Tasks]
    BY <1>2 DEF TypeOK, Tasks, Steps
  <2>2. ASSUME NEW t \in Threads PROVE Allowed(t, task[t])
    <3>1. task[t].pc = "apply" => task[t].seen \in Reports \cup {"failed"}
      BY <1>2, <2>2 DEF TypeOK, At, Threads, CheckSteps
    <3>2. QED
      BY <1>2, <2>1, <2>2, <3>1 DEF TypeOK, Allowed, At
  <2>3. QED
    BY <2>1, <2>2 DEF TasksOK
<1>3. ASSUME ServiceOK, WorkersOK, LivesOK, TasksOK PROVE TypeOK
  <2>1. task \in [Threads -> Tasks]
    BY <1>3 DEF TasksOK, Allowed
  <2>2. \A t \in Threads : task[t].gpu = None => At(t, "idle")
    BY <1>3 DEF TasksOK, Allowed, At
  <2>3. \A g \in Gpus : task[g].gpu = g /\ task[g].pc \notin RenderSteps
    BY <1>3 DEF TasksOK, Allowed, Threads
  <2>4. \A g \in Gpus : At(g, "apply") => task[g].seen \in Reports \cup {"failed"}
    BY <1>3 DEF TasksOK, Allowed, Threads, At
  <2>5. \A c \in Clients : task[c].pc \notin CheckSteps
    BY <1>3 DEF TasksOK, Allowed, Threads
  <2>6. QED
    BY <1>3, <2>1, <2>2, <2>3, <2>4, <2>5
    DEF TypeOK, ServiceOK, WorkersOK, LivesOK, Status, Lives, Tasks, Steps
<1>4. QED
  BY <1>1, <1>2, <1>3

(* A thread that goes on to something it may do leaves the others alone.    *)
LEMMA OneTask ==
  ASSUME TasksOK, NEW t \in Threads, NEW d, Allowed(t, d),
         task' = [task EXCEPT ![t] = d]
  PROVE  TasksOK' /\ task'[t] = d /\ \A u \in Threads \ {t} : task'[u] = task[u]
  BY DEF TasksOK

(* Any thread may rest.                                                     *)
LEMMA IdleTask == \A t \in Threads : Allowed(t, Idle(t))
  BY DispatcherAssumption
  DEF Allowed, Idle, Doing, Tasks, Steps, Threads, RenderSteps, CheckSteps

Seen == Reports \cup Answers \cup {"failed", None}

(* What a health check may go on to.                                        *)
LEMMA CheckTask ==
  ASSUME NEW g \in Gpus, NEW pc \in CheckSteps \cup RestartSteps,
         NEW h \in Handles \cup {None}, NEW s \in Seen,
         pc = "apply" => s \in Reports \cup {"failed"}
  PROVE  Allowed(g, Doing(pc, g, h, s))
<1>1. Doing(pc, g, h, s) \in Tasks
  BY DEF Doing, Tasks, Steps, Seen
<1>2. pc \notin RenderSteps
  BY DEF CheckSteps, RestartSteps, RenderSteps
<1>3. g \notin Clients /\ g # None
  BY DispatcherAssumption
<1>4. QED
  BY <1>1, <1>2, <1>3 DEF Allowed, Doing

(* What a render may go on to.                                              *)
LEMMA RenderTask ==
  ASSUME NEW c \in Clients, NEW g \in Gpus, NEW pc \in RenderSteps \cup RestartSteps,
         NEW h \in Handles \cup {None}, NEW s \in Seen
  PROVE  Allowed(c, Doing(pc, g, h, s))
<1>1. Doing(pc, g, h, s) \in Tasks
  BY DEF Doing, Tasks, Steps, Seen
<1>2. pc \notin CheckSteps /\ pc # "apply"
  BY DEF CheckSteps, RestartSteps, RenderSteps
<1>3. c \notin Gpus /\ g # None
  BY DispatcherAssumption
<1>4. QED
  BY <1>1, <1>2, <1>3 DEF Allowed, Doing

(* What a restart, whoever runs it, may go on to.                           *)
LEMMA RestartTask ==
  ASSUME TasksOK, NEW t \in Threads, NEW pc \in RestartSteps, ~At(t, "idle"),
         NEW h \in Handles \cup {None}, NEW s \in Seen
  PROVE  /\ task[t].gpu \in Gpus
         /\ Allowed(t, Doing(pc, task[t].gpu, h, s))
<1>1. task[t] \in Tasks /\ task[t].gpu \in Gpus
  BY DEF TasksOK, Allowed, At, Tasks
<1>2. CASE t \in Gpus
  <2>1. pc # "apply"
    BY DEF RestartSteps
  <2>2. QED
    BY <1>1, <1>2, <2>1, CheckTask DEF TasksOK, Allowed
<1>3. CASE t \in Clients
  BY <1>1, <1>3, RenderTask
<1>4. QED
  BY <1>1, <1>2, <1>3 DEF Threads

-----------------------------------------------------------------------------
Only(t) == \A u \in Threads \ {t} : task'[u] = task[u]

(* A step of a restart is one of the thread that began it alone.            *)
LEMMA RestartMoves ==
  ASSUME TasksOK, WorkersOK, NEW t \in Threads, Restart(t)
  PROVE  /\ task[t].gpu \in Gpus
         /\ TasksOK' /\ Only(t)
<1>1. ~At(t, "idle")
  BY DEF Restart, RestartPop, RestartNotDue, StopProcess, ClearWorker, Popen,
     PopenFails, AssignProcess, At
<1>2. PICK g \in Gpus : task[t].gpu = g
  BY <1>1 DEF TasksOK, Allowed, At, Tasks
<1>3. task[t].handle \in Handles \cup {None} /\ task[t].seen \in Seen
  BY DEF TasksOK, Allowed, Tasks, Seen
<1>4. \A pc \in RestartSteps, h \in Handles \cup {None}, s \in Seen :
        Allowed(t, Doing(pc, g, h, s))
  BY <1>1, <1>2, RestartTask
<1>5. None \in Seen
  BY DEF Seen
<1>6. {"restart", "stop", "clear", "popen", "assign"} \subseteq RestartSteps
  BY DEF RestartSteps
<1>7. CASE RestartPop(t)
  <2>1. process[g] \in Handles \cup {None}
    BY DEF WorkersOK
  <2>2. Allowed(t, Doing("stop", g, process[g], None))
    BY <2>1, <1>4, <1>5, <1>6
  <2>3. QED
    BY <1>2, <1>7, <2>2, OneTask DEF RestartPop, Only
<1>8. CASE RestartNotDue(t) \/ PopenFails(t) \/ AssignProcess(t)
  <2>1. task' = [task EXCEPT ![t] = Idle(t)]
    BY <1>8 DEF RestartNotDue, PopenFails, AssignProcess, Rest
  <2>2. QED
    BY <1>2, <2>1, IdleTask, OneTask DEF Only
<1>9. CASE StopProcess(t)
  <2>1. task' = [task EXCEPT ![t] = Doing("clear", g, None, None)]
    BY <1>2, <1>9 DEF StopProcess
  <2>2. Allowed(t, Doing("clear", g, None, None))
    BY <1>4, <1>5, <1>6
  <2>3. QED
    BY <1>2, <2>1, <2>2, OneTask DEF Only
<1>10. CASE ClearWorker(t)
  <2>1. task' = [task EXCEPT ![t] = Doing("popen", g, task[t].handle, task[t].seen)]
    BY <1>2, <1>10 DEF ClearWorker, Goto
  <2>2. Allowed(t, Doing("popen", g, task[t].handle, task[t].seen))
    BY <1>3, <1>4, <1>6
  <2>3. QED
    BY <1>2, <2>1, <2>2, OneTask DEF Only
<1>11. ASSUME NEW h \in Handles, Popen(t, h) PROVE TasksOK' /\ Only(t)
  <2>1. task' = [task EXCEPT ![t] = Doing("assign", g, h, None)]
    BY <1>2, <1>11 DEF Popen
  <2>2. Allowed(t, Doing("assign", g, h, None))
    BY <1>4, <1>5, <1>6
  <2>3. QED
    BY <2>1, <2>2, OneTask DEF Only
<1>12. QED
  BY <1>2, <1>7, <1>8, <1>9, <1>10, <1>11 DEF Restart

(* A step of a health check is one of its thread alone.                     *)
LEMMA CheckMoves ==
  ASSUME TasksOK, WorkersOK, NEW g \in Gpus, Check(g)
  PROVE  TasksOK' /\ Only(g)
<1>1. g \in Threads
  BY DEF Threads
<1>2. task[g].gpu = g /\ task[g].handle \in Handles \cup {None} /\ task[g].seen \in Seen
  BY <1>1 DEF TasksOK, Allowed, Tasks, Seen
<1>3. \A pc \in CheckSteps \cup RestartSteps, h \in Handles \cup {None}, s \in Seen :
        (pc = "apply" => s \in Reports \cup {"failed"}) => Allowed(g, Doing(pc, g, h, s))
  BY CheckTask
<1>4. None \in Seen /\ None \in Handles \cup {None} /\ Reports \cup {"failed"} \subseteq Seen
  BY DEF Seen
<1>5. CASE CheckRead(g)
  <2>1. process[g] \in Handles \cup {None}
    BY DEF WorkersOK
  <2>2. Allowed(g, Doing("poll", g, process[g], None))
    BY <1>3, <1>4, <2>1 DEF CheckSteps
  <2>3. QED
    BY <1>1, <1>5, <2>2, OneTask DEF CheckRead, Only
<1>6. CASE CheckPoll(g) \/ CheckApply(g) \/ MarkExited(g)
  <2>1. PICK pc \in {"exited", "health", "restart", "due"} :
          task' = [task EXCEPT ![g] = Doing(pc, g, task[g].handle, task[g].seen)]
    BY <1>2, <1>6 DEF CheckPoll, CheckApply, MarkExited, Goto
  <2>2. Allowed(g, Doing(pc, g, task[g].handle, task[g].seen))
    BY <1>2, <1>3 DEF CheckSteps, RestartSteps
  <2>3. QED
    BY <1>1, <2>1, <2>2, OneTask DEF Only
<1>7. ASSUME NEW report \in Reports \cup {"failed"}, CheckHealth(g, report)
      PROVE  TasksOK' /\ Only(g)
  <2>1. Allowed(g, Doing("apply", g, None, report))
    BY <1>3, <1>4 DEF CheckSteps
  <2>2. QED
    BY <1>1, <1>7, <2>1, OneTask DEF CheckHealth, Only
<1>8. CASE RestartExited(g)
  <2>1. Allowed(g, Doing("clear", g, None, None)) /\ Allowed(g, Idle(g))
    BY <1>1, <1>3, <1>4, IdleTask DEF RestartSteps
  <2>2. CASE restartDue[g]
    BY <1>1, <1>8, <2>1, <2>2, OneTask DEF RestartExited, Only
  <2>3. CASE ~restartDue[g]
    BY <1>1, <1>8, <2>1, <2>3, OneTask DEF RestartExited, Rest, Only
  <2>4. QED
    BY <2>2, <2>3
<1>9. CASE Restart(g)
  BY <1>1, <1>9, RestartMoves
<1>10. QED
  BY <1>5, <1>6, <1>7, <1>8, <1>9 DEF Check

(* A step of a request is one of its thread alone.                          *)
LEMMA RenderMoves ==
  ASSUME TasksOK, WorkersOK, NEW c \in Clients,
         Render(c) \/ \E g \in Gpus : Acquire(c, g)
  PROVE  TasksOK' /\ Only(c)
<1>1. c \in Threads
  BY DEF Threads
<1>2. task[c].handle \in Handles \cup {None} /\ task[c].seen \in Seen
  BY <1>1 DEF TasksOK, Allowed, Tasks, Seen
<1>3. None \in Seen /\ None \in Handles \cup {None} /\ Answers \subseteq Seen
  BY DEF Seen
<1>4. ASSUME NEW g \in Gpus, Acquire(c, g) PROVE TasksOK' /\ Only(c)
  <2>1. Allowed(c, Doing("post", g, None, None))
    BY <1>3, RenderTask DEF RenderSteps
  <2>2. QED
    BY <1>1, <1>4, <2>1, OneTask DEF Acquire, Only
<1>5. ASSUME ~At(c, "idle") PROVE task[c].gpu \in Gpus
  BY <1>1, <1>5 DEF TasksOK, Allowed, Tasks, At
<1>6. ASSUME NEW h \in Handles, Post(c, h) PROVE TasksOK' /\ Only(c)
  <2>1. task[c].gpu \in Gpus
    BY <1>5, <1>6 DEF Post, At
  <2>2. Allowed(c, Doing("rendering", task[c].gpu, h, None))
    BY <1>3, <2>1, RenderTask DEF RenderSteps
  <2>3. QED
    BY <1>1, <1>6, <2>2, OneTask DEF Post, Only
<1>7. CASE PostFails(c)
  <2>1. task[c].gpu \in Gpus
    BY <1>5, <1>7 DEF PostFails, At
  <2>2. Allowed(c, Doing("unhealthy", task[c].gpu, None, "error"))
    BY <1>3, <2>1, RenderTask DEF RenderSteps, Answers
  <2>3. QED
    BY <1>1, <1>7, <2>2, OneTask DEF PostFails, Only
<1>8. ASSUME NEW answer \in Answers, Answer(c, answer) PROVE TasksOK' /\ Only(c)
  <2>1. task[c].gpu \in Gpus
    BY <1>5, <1>8 DEF Answer, At
  <2>2. PICK pc \in RenderSteps :
          task' = [task EXCEPT ![c] = Doing(pc, task[c].gpu, None, answer)]
    BY <1>8 DEF Answer, RenderSteps
  <2>3. Allowed(c, Doing(pc, task[c].gpu, None, answer))
    BY <1>3, <2>1, RenderTask
  <2>4. QED
    BY <1>1, <2>2, <2>3, OneTask DEF Only
<1>9. CASE MarkUnhealthy(c)
  <2>1. task[c].gpu \in Gpus
    BY <1>5, <1>9 DEF MarkUnhealthy, At
  <2>2. Allowed(c, Doing("release", task[c].gpu, task[c].handle, task[c].seen))
    BY <1>2, <2>1, RenderTask DEF RenderSteps
  <2>3. QED
    BY <1>1, <1>9, <2>2, OneTask DEF MarkUnhealthy, Goto, Only
<1>10. CASE Release(c)
  <2>1. task[c].gpu \in Gpus
    BY <1>5, <1>10 DEF Release, At
  <2>2. Allowed(c, Doing("restart", task[c].gpu, None, None)) /\ Allowed(c, Idle(c))
    BY <1>1, <1>3, <2>1, RenderTask, IdleTask DEF RestartSteps
  <2>3. CASE task[c].seen = "retryable"
    BY <1>1, <1>10, <2>2, <2>3, OneTask DEF Release, Only
  <2>4. CASE task[c].seen # "retryable"
    BY <1>1, <1>10, <2>2, <2>4, OneTask DEF Release, Rest, Only
  <2>5. QED
    BY <2>3, <2>4
<1>11. CASE Restart(c)
  BY <1>1, <1>11, RestartMoves
<1>12. QED
  BY <1>4, <1>6, <1>7, <1>8, <1>9, <1>10, <1>11 DEF Render

-----------------------------------------------------------------------------
Same(k) == process'[k] = process[k] /\ ready'[k] = ready[k] /\ life'[k] = life[k]

(* A process that is spawned, comes up or exits leaves the others alone.    *)
LEMMA OneLife ==
  ASSUME LivesOK, NEW g \in Gpus, NEW h \in Handles,
         NEW v \in {"booting", "up", "killed", "exited"},
         Becomes(g, h, v)
  PROVE  /\ LivesOK'
         /\ \A k \in Gpus \ {g} : life'[k] = life[k]
         /\ Running(g)' = IF v \in {"booting", "up"}
                         THEN Running(g) \cup {h} ELSE Running(g) \ {h}
<1>1. life[g] \in [Handles -> {"booting", "up", "killed", "exited"}]
  BY DEF LivesOK, Lives
<1>2. [life[g] EXCEPT ![h] = v] \in [Handles -> {"booting", "up", "killed", "exited"}]
  BY <1>1
<1>3. life' = [life EXCEPT ![g] = [life[g] EXCEPT ![h] = v]]
  BY DEF Becomes
<1>4. LivesOK' /\ \A k \in Gpus \ {g} : life'[k] = life[k]
  BY <1>2, <1>3 DEF LivesOK, Lives
<1>5. life'[g] = [life[g] EXCEPT ![h] = v]
  BY <1>3 DEF LivesOK, Lives
<1>6. QED
  BY <1>1, <1>4, <1>5 DEF Running

(* Stopping a process takes it, and no other, from those that are running,  *)
(* whether it exits or survives the kill.                                   *)
LEMMA StoppedLife ==
  ASSUME LivesOK, NEW g \in Gpus, NEW h \in Handles \cup {None}, Stopped(g, h)
  PROVE  /\ LivesOK'
         /\ \A k \in Gpus \ {g} : life'[k] = life[k]
         /\ Running(g)' = Running(g) \ {h}
<1>1. CASE h = None
  <2>1. life' = life /\ None \notin Running(g)
    BY <1>1, DispatcherAssumption DEF Stopped, Alive, Running
  <2>2. QED
    BY <1>1, <2>1 DEF LivesOK, Running
<1>2. CASE h # None
  <2>1. PICK l \in {"killed", "exited"} : Becomes(g, h, l)
    BY <1>2 DEF Stopped
  <2>2. QED
    BY <1>2, <2>1, OneLife
<1>3. QED
  BY <1>1, <1>2

(* A restart touches one worker, and neither the service nor in_flight.     *)
LEMMA RestartFrame ==
  ASSUME TypeOK, NEW t \in Threads, Restart(t)
  PROVE  /\ ServiceOK' /\ WorkersOK' /\ LivesOK'
         /\ UNCHANGED <<phase, turn, inFlight, renderRestarted>>
         /\ \A k \in Gpus \ {task[t].gpu} : Same(k)
<1>1. ServiceOK /\ WorkersOK /\ LivesOK /\ TasksOK
  BY TypeParts
<1>2. PICK g \in Gpus : task[t].gpu = g
  BY <1>1, RestartMoves
<1>3. task[t].handle \in Handles \cup {None}
  BY <1>1 DEF TasksOK, Allowed, Tasks
<1>4. CASE RestartPop(t) \/ ClearWorker(t)
  <2>1. ServiceOK' /\ LivesOK' /\ UNCHANGED <<phase, turn, inFlight, renderRestarted, life>>
    BY <1>1, <1>4 DEF RestartPop, ClearWorker, service, history, ServiceOK, LivesOK
  <2>2. PICK s \in {"restarting", "starting"} :
          /\ process' = [process EXCEPT ![g] = None]
          /\ ready' = [ready EXCEPT ![g] = FALSE]
          /\ status' = [status EXCEPT ![g] = s]
          /\ unhealthySince' = [unhealthySince EXCEPT ![g] = "no"]
          /\ restartRequested' = [restartRequested EXCEPT ![g] = FALSE]
          /\ UNCHANGED <<inFlight, restartDue>>
    BY <1>2, <1>4 DEF RestartPop, ClearWorker
  <2>3. s \in Status
    BY DEF Status
  <2>4. WorkersOK'
    BY <1>1, <2>2, <2>3 DEF WorkersOK
  <2>5. \A k \in Gpus \ {g} : process'[k] = process[k] /\ ready'[k] = ready[k]
    BY <1>1, <2>2 DEF WorkersOK
  <2>6. QED
    BY <1>2, <2>1, <2>4, <2>5 DEF Same
<1>5. CASE RestartNotDue(t) \/ PopenFails(t)
  <2>1. UNCHANGED <<phase, turn, inFlight, renderRestarted, life, process, ready>>
    BY <1>5 DEF RestartNotDue, PopenFails, service, history, fields
  <2>2. WorkersOK' /\ LivesOK'
    BY <1>1, <1>5 DEF RestartNotDue, PopenFails, fields, WorkersOK, LivesOK
  <2>3. spawnFailures' \in 0..MaxSpawnFailures
    BY <1>1, <1>5, DispatcherAssumption
    DEF RestartNotDue, PopenFails, history, ServiceOK
  <2>4. QED
    BY <1>1, <1>2, <2>1, <2>2, <2>3 DEF Same, ServiceOK
<1>6. CASE StopProcess(t)
  <2>1. Stopped(g, task[t].handle)
    BY <1>2, <1>6 DEF StopProcess
  <2>2. LivesOK' /\ \A k \in Gpus \ {g} : life'[k] = life[k]
    BY <1>1, <1>3, <2>1, StoppedLife
  <2>3. UNCHANGED <<service, process, fields, history>>
    BY <1>6 DEF StopProcess
  <2>4. QED
    BY <1>1, <1>2, <2>2, <2>3 DEF service, fields, history, ServiceOK, WorkersOK, Same
<1>7. ASSUME NEW h \in Handles, Popen(t, h)
      PROVE  /\ ServiceOK' /\ WorkersOK' /\ LivesOK'
             /\ UNCHANGED <<phase, turn, inFlight, renderRestarted>>
             /\ \A k \in Gpus \ {g} : Same(k)
  <2>1. Becomes(g, h, "booting")
    BY <1>2, <1>7 DEF Popen, Spawned
  <2>2. LivesOK' /\ \A k \in Gpus \ {g} : life'[k] = life[k]
    BY <1>1, <2>1, OneLife
  <2>3. UNCHANGED <<service, process, fields, history>>
    BY <1>7 DEF Popen
  <2>4. QED
    BY <1>1, <1>2, <2>2, <2>3 DEF service, fields, history, ServiceOK, WorkersOK, Same
<1>8. CASE AssignProcess(t)
  <2>1. ServiceOK' /\ LivesOK' /\ UNCHANGED <<phase, turn, inFlight, renderRestarted, life>>
    BY <1>1, <1>8 DEF AssignProcess, service, history, fields, ServiceOK, LivesOK
  <2>2. WorkersOK' /\ \A k \in Gpus \ {g} : process'[k] = process[k] /\ ready'[k] = ready[k]
    BY <1>1, <1>2, <1>3, <1>8 DEF AssignProcess, fields, WorkersOK
  <2>3. QED
    BY <1>2, <2>1, <2>2 DEF Same
<1>9. QED
  BY <1>2, <1>4, <1>5, <1>6, <1>7, <1>8 DEF Restart

(* A health check touches its own worker, and neither the service nor       *)
(* in_flight.                                                               *)
LEMMA CheckFrame ==
  ASSUME TypeOK, NEW g \in Gpus, Check(g)
  PROVE  /\ ServiceOK' /\ WorkersOK' /\ LivesOK'
         /\ UNCHANGED <<phase, turn, inFlight, renderRestarted>>
         /\ \A k \in Gpus \ {g} : Same(k)
<1>1. ServiceOK /\ WorkersOK /\ LivesOK /\ TasksOK
  BY TypeParts
<1>2. g \in Threads /\ task[g].gpu = g
  BY <1>1 DEF TasksOK, Allowed, Threads
<1>3. CASE \/ CheckRead(g) \/ CheckPoll(g) \/ RestartExited(g)
           \/ \E report \in Reports \cup {"failed"} : CheckHealth(g, report)
  <2>1. UNCHANGED <<service, process, fields, life, history>>
    BY <1>3 DEF CheckRead, CheckPoll, RestartExited, CheckHealth
  <2>2. QED
    BY <1>1, <2>1 DEF service, fields, history, ServiceOK, WorkersOK, LivesOK, Same
<1>4. CASE CheckApply(g) \/ MarkExited(g)
  <2>1. UNCHANGED <<service, process, inFlight, life, history>>
    BY <1>4 DEF CheckApply, MarkExited
  <2>2. PICK b \in BOOLEAN, s \in Status, u \in {"no", "recent", "overdue"} :
          /\ ready' = [ready EXCEPT ![g] = b]
          /\ status' = [status EXCEPT ![g] = s]
          /\ unhealthySince' = [unhealthySince EXCEPT ![g] = u]
    <3>1. CASE CheckApply(g)
      <4> DEFINE s == Reported(g, task[g].seen)
      <4>1. task[g].seen \in Reports \cup {"failed"}
        BY <1>1, <1>2, <3>1 DEF CheckApply, At, TasksOK, Allowed
      <4>2. s \in Status
        BY <4>1 DEF Reported, Status, Reports
      <4>3. SinceFirst(g, s) \in {"no", "recent", "overdue"}
        BY <1>1 DEF SinceFirst, WorkersOK
      <4>4. (s = "healthy") \in BOOLEAN
        OBVIOUS
      <4>5. QED
        BY <3>1, <4>2, <4>3, <4>4 DEF CheckApply
    <3>2. CASE MarkExited(g)
      BY <3>2 DEF MarkExited, Status
    <3>3. QED
      BY <1>4, <3>1, <3>2
  <2>3. restartRequested' \in [Gpus -> BOOLEAN] /\ restartDue' \in [Gpus -> BOOLEAN]
    BY <1>1, <1>4 DEF CheckApply, MarkExited, CooldownOnce, WorkersOK
  <2>4. WorkersOK'
    BY <1>1, <2>1, <2>2, <2>3 DEF WorkersOK
  <2>5. \A k \in Gpus \ {g} : ready'[k] = ready[k]
    BY <1>1, <2>2 DEF WorkersOK
  <2>6. QED
    BY <1>1, <2>1, <2>4, <2>5 DEF service, history, ServiceOK, LivesOK, Same
<1>5. CASE Restart(g)
  BY <1>2, <1>5, RestartFrame
<1>6. QED
  BY <1>3, <1>4, <1>5 DEF Check

(* A request that does not restart a worker changes no process, and makes   *)
(* no worker ready.                                                         *)
LEMMA RenderFrame ==
  ASSUME TypeOK, NEW c \in Clients, Render(c) \/ \E g \in Gpus : Acquire(c, g)
  PROVE  /\ ServiceOK' /\ WorkersOK' /\ LivesOK'
         /\ UNCHANGED <<phase, turn>>
         /\ \/ Restart(c)
            \/ /\ UNCHANGED <<process, life>>
               /\ \A k \in Gpus : ready'[k] => ready[k]
<1>1. ServiceOK /\ WorkersOK /\ LivesOK /\ TasksOK
  BY TypeParts
<1>2. c \in Threads
  BY DEF Threads
<1>3. ASSUME ~At(c, "idle") PROVE task[c].gpu \in Gpus
  BY <1>1, <1>2, <1>3 DEF TasksOK, Allowed, Tasks, At
<1>4. CASE \E g \in Gpus : Acquire(c, g)
  <2>1. PICK g \in Gpus : Acquire(c, g)
    BY <1>4
  <2>2. UNCHANGED <<service, process, ready, status, restartRequested,
                    unhealthySince, restartDue, life, history>>
    BY <2>1 DEF Acquire
  <2>3. inFlight' \in [Gpus -> Nat]
    BY <1>1, <2>1 DEF Acquire, WorkersOK
  <2>4. QED
    BY <1>1, <2>2, <2>3 DEF service, history, ServiceOK, WorkersOK, LivesOK
<1>5. CASE \/ \E h \in Handles : Post(c, h)
           \/ PostFails(c) \/ \E answer \in Answers : Answer(c, answer)
  <2>1. UNCHANGED <<service, process, fields, life, history>>
    BY <1>5 DEF Post, PostFails, Answer
  <2>2. QED
    BY <1>1, <2>1 DEF service, fields, history, ServiceOK, WorkersOK, LivesOK
<1>6. CASE MarkUnhealthy(c)
  <2>1. UNCHANGED <<service, process, inFlight, restartDue, life, history>>
    BY <1>6 DEF MarkUnhealthy
  <2>2. PICK g \in Gpus : task[c].gpu = g
    BY <1>3, <1>6 DEF MarkUnhealthy, At
  <2>3. ready' = [ready EXCEPT ![g] = FALSE] /\ status' = [status EXCEPT ![g] = "unhealthy"]
    BY <1>6, <2>2 DEF MarkUnhealthy
  <2>4. "unhealthy" \in Status
    BY DEF Status, Reports
  <2>5. unhealthySince' \in [Gpus -> {"no", "recent", "overdue"}]
    BY <1>1, <1>6, <2>2 DEF MarkUnhealthy, WorkersOK
  <2>6. restartRequested' \in [Gpus -> BOOLEAN]
    <3>1. (task[c].seen = "retryable") \in BOOLEAN
      OBVIOUS
    <3>2. PICK b \in BOOLEAN : restartRequested' = [restartRequested EXCEPT ![g] = @ \/ b]
      BY <1>6, <2>2, <3>1 DEF MarkUnhealthy
    <3>3. QED
      BY <1>1, <3>2 DEF WorkersOK
  <2>7. WorkersOK'
    BY <1>1, <2>1, <2>3, <2>4, <2>5, <2>6 DEF WorkersOK
  <2>8. \A k \in Gpus : ready'[k] => ready[k]
    BY <1>1, <2>3 DEF WorkersOK
  <2>9. QED
    BY <1>1, <2>1, <2>7, <2>8 DEF service, history, ServiceOK, LivesOK
<1>7. CASE Release(c)
  <2>1. UNCHANGED <<service, process, ready, status, restartRequested,
                    unhealthySince, restartDue, life, spawnFailures>>
    BY <1>7 DEF Release
  <2>2. PICK g \in Gpus : task[c].gpu = g
    BY <1>3, <1>7 DEF Release, At
  <2>3. inFlight' \in [Gpus -> Nat]
    BY <1>1, <1>7, <2>2 DEF Release, WorkersOK
  <2>4. renderRestarted' \in BOOLEAN
    BY <1>1, <1>7 DEF Release, ServiceOK
  <2>5. QED
    BY <1>1, <2>1, <2>3, <2>4 DEF service, ServiceOK, WorkersOK, LivesOK
<1>8. CASE Restart(c)
  BY <1>2, <1>8, RestartFrame
<1>9. QED
  BY <1>4, <1>5, <1>6, <1>7, <1>8 DEF Render

(* start() and stop(), time, and the worker processes are no thread's.      *)
Outside ==
  \/ \E h \in Handles : StartWorker(h)
  \/ StartFails \/ BeginStop \/ StopWorker
  \/ \E g \in Gpus : Elapse(g)
  \/ \E g \in Gpus, h \in Handles : ComeUp(g, h) \/ Die(g, h)

(* Outside of start(), what no thread does leaves a worker's fields as they *)
(* are, and at most takes away processes.                                   *)
LEMMA OutsideFrame ==
  ASSUME TypeOK, Outside
  PROVE  /\ ServiceOK' /\ WorkersOK' /\ LivesOK'
         /\ UNCHANGED <<task, ready, inFlight, renderRestarted>>
         /\ \/ /\ UNCHANGED process
               /\ phase' # "starting" \/ UNCHANGED <<phase, turn>>
               /\ \A g \in Gpus : Running(g)' \subseteq Running(g)
            \/ \E h \in Handles : StartWorker(h)
<1>1. ServiceOK /\ WorkersOK /\ LivesOK /\ TasksOK
  BY TypeParts
<1>2. ASSUME NEW g \in Gpus PROVE process[g] \in Handles \cup {None}
  BY <1>1 DEF WorkersOK
<1>3. turn \in Gpus => turn + 1 \in 1..(NumGpus + 1)
  BY DispatcherAssumption DEF Gpus
<1>4. ASSUME NEW h \in Handles, StartWorker(h)
      PROVE  /\ ServiceOK' /\ WorkersOK' /\ LivesOK'
             /\ UNCHANGED <<task, ready, inFlight, renderRestarted>>
  <2>1. turn \in Gpus /\ Spawned(turn, h) /\ UNCHANGED <<fields, task, history>>
    BY <1>4 DEF StartWorker
  <2>2. LivesOK'
    BY <1>1, <2>1, OneLife DEF Spawned
  <2>3. WorkersOK'
    BY <1>1, <1>4, <2>1 DEF StartWorker, fields, WorkersOK
  <2>4. ServiceOK'
    BY <1>1, <1>3, <1>4, <2>1 DEF StartWorker, history, ServiceOK
  <2>5. QED
    BY <2>1, <2>2, <2>3, <2>4 DEF fields, history
<1>5. CASE StartFails
  <2>1. UNCHANGED <<turn, process, fields, task, renderRestarted>> /\ phase' = "stopped"
    BY <1>5 DEF StartFails
  <2>2. spawnFailures' \in 0..MaxSpawnFailures
    BY <1>1, <1>5, DispatcherAssumption DEF StartFails, ServiceOK
  <2>3. PICK survive \in SUBSET Gpus :
          life' = [g \in Gpus |-> [h \in Handles |->
                    IF process[g] # h \/ life[g][h] = "exited" THEN life[g][h]
                    ELSE IF g \in survive THEN "killed" ELSE "exited"]]
    BY <1>5 DEF StartFails
  <2>4. LivesOK'
    BY <1>1, <2>3 DEF LivesOK, Lives
  <2>5. \A g \in Gpus : Running(g)' \subseteq Running(g)
    BY <2>3 DEF Running
  <2>6. QED
    BY <1>1, <2>1, <2>2, <2>4, <2>5 DEF fields, ServiceOK, WorkersOK
<1>6. CASE BeginStop
  <2>1. /\ UNCHANGED <<process, fields, life, task, history>>
        /\ phase' = "stopping" /\ turn' = 1
    BY <1>6 DEF BeginStop
  <2>2. ServiceOK' /\ WorkersOK' /\ LivesOK'
    BY <1>1, <2>1, DispatcherAssumption
    DEF fields, history, ServiceOK, WorkersOK, LivesOK
  <2>3. QED
    BY <2>1, <2>2 DEF fields, history, Running
<1>7. CASE StopWorker
  <2>1. PICK g \in Gpus : g = turn
    BY <1>7 DEF StopWorker
  <2>2. Stopped(g, process[g]) /\ UNCHANGED <<process, fields, task, history>>
    BY <1>7, <2>1 DEF StopWorker
  <2>3. /\ LivesOK'
        /\ \A k \in Gpus \ {g} : life'[k] = life[k]
        /\ Running(g)' \subseteq Running(g)
    BY <1>1, <1>2, <2>2, StoppedLife
  <2>4. ServiceOK' /\ phase' # "starting"
    BY <1>1, <1>3, <1>7, <2>2 DEF StopWorker, history, ServiceOK
  <2>5. WorkersOK'
    BY <1>1, <2>2 DEF fields, WorkersOK
  <2>6. \A k \in Gpus : Running(k)' \subseteq Running(k)
    BY <2>3 DEF Running
  <2>7. QED
    BY <2>2, <2>3, <2>4, <2>5, <2>6 DEF fields, history
<1>8. ASSUME NEW g \in Gpus, Elapse(g)
      PROVE  /\ ServiceOK' /\ WorkersOK' /\ LivesOK'
             /\ UNCHANGED <<task, ready, inFlight, renderRestarted, process, phase, turn, life>>
  <2>1. UNCHANGED <<service, process, ready, status, inFlight, restartRequested,
                    life, task, history>>
    BY <1>8 DEF Elapse
  <2>2. /\ unhealthySince' \in [Gpus -> {"no", "recent", "overdue"}]
        /\ restartDue' \in [Gpus -> BOOLEAN]
    BY <1>1, <1>8 DEF Elapse, WorkersOK
  <2>3. QED
    BY <1>1, <2>1, <2>2 DEF service, history, ServiceOK, WorkersOK, LivesOK
<1>9. ASSUME NEW g \in Gpus, NEW h \in Handles, ComeUp(g, h) \/ Die(g, h)
      PROVE  /\ ServiceOK' /\ WorkersOK' /\ LivesOK'
             /\ UNCHANGED <<task, ready, inFlight, renderRestarted, process, phase, turn>>
             /\ \A k \in Gpus : Running(k)' \subseteq Running(k)
  <2>1. UNCHANGED <<service, process, fields, task, history>>
    BY <1>9 DEF ComeUp, Die
  <2>2. PICK v \in {"up", "exited"} :
          Becomes(g, h, v) /\ (v = "up" => h \in Running(g))
    BY <1>9 DEF ComeUp, Die, Running
  <2>3. /\ LivesOK'
        /\ \A k \in Gpus \ {g} : life'[k] = life[k]
        /\ Running(g)' = IF v = "up" THEN Running(g) \cup {h} ELSE Running(g) \ {h}
    BY <1>1, <2>2, OneLife
  <2>4. \A k \in Gpus : Running(k)' \subseteq Running(k)
    BY <2>2, <2>3 DEF Running
  <2>5. QED
    BY <1>1, <2>1, <2>3, <2>4 DEF service, fields, history, ServiceOK, WorkersOK
<1>10. UNCHANGED life => \A g \in Gpus : Running(g)' \subseteq Running(g)
  BY DEF Running
<1>11. QED
  BY <1>4, <1>5, <1>6, <1>7, <1>8, <1>9, <1>10 DEF Outside

(* Every step is a health check's, a request's, or no thread's.             *)
LEMMA NextCases ==
  ASSUME Next
  PROVE  \/ \E g \in Gpus : Check(g)
         \/ \E c \in Clients : Render(c) \/ \E g \in Gpus : Acquire(c, g)
         \/ Outside
  BY DEF Next, Outside

(* The parts of the type invariant after a step.                            *)
LEMMA NextTypeParts == TypeOK' <=> ServiceOK' /\ WorkersOK' /\ LivesOK' /\ TasksOK'
  BY TypeParts, PTL

(* The variables keep their types.                                          *)
LEMMA TypeStep ==
  ASSUME TypeOK, [Next]_vars
  PROVE  TypeOK'
<1>1. ServiceOK /\ WorkersOK /\ LivesOK /\ TasksOK
  BY TypeParts
<1>2. CASE UNCHANGED vars
  BY <1>2 DEF vars, service, fields, history, TypeOK, At
<1>3. ASSUME NEW g \in Gpus, Check(g) PROVE TypeOK'
  BY <1>1, <1>3, CheckMoves, CheckFrame, NextTypeParts
<1>4. ASSUME NEW c \in Clients, Render(c) \/ \E g \in Gpus : Acquire(c, g)
      PROVE  TypeOK'
  BY <1>1, <1>4, RenderMoves, RenderFrame, NextTypeParts
<1>5. CASE Outside
  <2>1. ServiceOK' /\ WorkersOK' /\ LivesOK' /\ task' = task
    BY <1>5, OutsideFrame
  <2>2. TasksOK'
    BY <1>1, <2>1 DEF TasksOK
  <2>3. QED
    BY <2>1, <2>2, NextTypeParts
<1>6. QED
  BY <1>2, <1>3, <1>4, <1>5, NextCases

(* The service starts with every variable of its type.                      *)
LEMMA InitType == Init => TypeOK
<1>1. SUFFICES ASSUME Init PROVE TypeOK
  OBVIOUS
<1>2. ServiceOK
  <2>1. phase = "starting" /\ turn = 1 /\ spawnFailures = 0 /\ renderRestarted = FALSE
    BY <1>1 DEF Init
  <2>2. 1 \in 1..(NumGpus + 1) /\ 0 \in 0..MaxSpawnFailures
    BY DispatcherAssumption
  <2>3. QED
    BY <2>1, <2>2 DEF ServiceOK
<1>3. WorkersOK
  BY <1>1 DEF Init, WorkersOK, Status
<1>4. LivesOK
  BY <1>1 DEF Init, LivesOK, Lives
<1>5. TasksOK
  BY <1>1, IdleTask DEF Init, TasksOK
<1>6. QED
  BY <1>2, <1>3, <1>4, <1>5, TypeParts

(* The fields of the workers, the processes and what the threads are doing  *)
(* have their types in every reachable state.                               *)
THEOREM TypeCorrect == Spec => []TypeOK
  BY InitType, TypeStep, PTL DEF Spec

-----------------------------------------------------------------------------
(***************************************************************************)
(* The inductive invariant.                                                *)
(***************************************************************************)
(* in_flight of a worker is the number of requests that hold it, 0 or 1.    *)
Counted(g) ==
  \/ inFlight[g] = 0 /\ Holders(g) = {}
  \/ inFlight[g] = 1 /\ \E c \in Clients : Holders(g) = {c}

(* Before start() is done no thread runs, and there is no process for a     *)
(* worker that it has not reached.                                          *)
Starting(g) ==
  phase = "starting" =>
    /\ \A t \in Threads : At(t, "idle")
    /\ g >= turn => process[g] = None /\ Running(g) = {}

(* Where the one process of a worker is known, as long as only its health   *)
(* check restarts it.                                                       *)
Known(g) ==
  LET pc == task[g].pc IN
  /\ pc = "poll" => task[g].handle = process[g]
  /\ pc \in {"exited", "due", "clear", "popen"} => Running(g) = {}
  /\ pc \in {"stop", "assign"} => Running(g) \subseteq {task[g].handle}
  /\ pc \notin {"stop", "assign"} => Running(g) \subseteq {process[g]}

(* A worker that is being stopped serves no request.                        *)
Spared(g) == At(g, "stop") => inFlight[g] = 0 /\ ~ready[g]

Lonely ==
  ~renderRestarted =>
    /\ \A c \in Clients : task[c].pc \notin RestartSteps
    /\ \A g \in Gpus : Known(g) /\ Spared(g)

Supervised ==
  /\ TypeOK
  /\ \A g \in Gpus : Counted(g) /\ Starting(g)
  /\ Lonely

-----------------------------------------------------------------------------
(* A restart that goes on is still one, or its thread rests.                *)
LEMMA RestartGoesOn ==
  ASSUME TasksOK, WorkersOK, NEW t \in Threads, Restart(t)
  PROVE  task[t].pc \in RestartSteps /\ task'[t].pc \in RestartSteps \cup {"idle"}
<1>1. task[t].pc \in RestartSteps
  BY DEF Restart, RestartPop, RestartNotDue, StopProcess, ClearWorker, Popen,
     PopenFails, AssignProcess, At, RestartSteps
<1>2. PICK pc \in RestartSteps \cup {"idle"} : \E g, h, s :
        task' = [task EXCEPT ![t] = Doing(pc, g, h, s)]
  BY DEF Restart, RestartPop, RestartNotDue, StopProcess, ClearWorker, Popen,
     PopenFails, AssignProcess, Rest, Idle, Goto, RestartSteps
<1>3. QED
  BY <1>1, <1>2 DEF TasksOK, Doing

(* The requests that hold a worker change only as one acquires or releases  *)
(* it.                                                                      *)
LEMMA SameHolders ==
  ASSUME NEW t \in Threads, Only(t),
         t \in Clients =>
           \/ task[t].pc \notin RenderSteps /\ task'[t].pc \notin RenderSteps
           \/ /\ task[t].pc \in RenderSteps /\ task'[t].pc \in RenderSteps
              /\ task'[t].gpu = task[t].gpu
  PROVE  \A g \in Gpus : Holders(g)' = Holders(g)
  BY DEF Only, Holders, Threads

(* in_flight keeps counting the requests that hold the worker.              *)
LEMMA CountedStep ==
  ASSUME TypeOK, \A g \in Gpus : Counted(g), [Next]_vars
  PROVE  \A g \in Gpus : Counted(g)'
<1>1. ServiceOK /\ WorkersOK /\ LivesOK /\ TasksOK
  BY TypeParts
<1>2. ASSUME inFlight' = inFlight, \A g \in Gpus : Holders(g)' = Holders(g)
      PROVE  \A g \in Gpus : Counted(g)'
  BY <1>2 DEF Counted
<1>3. CASE UNCHANGED vars
  <2>1. UNCHANGED <<inFlight, task>>
    BY <1>3 DEF vars, fields
  <2>2. QED
    BY <1>2, <2>1 DEF Holders
<1>4. ASSUME NEW k \in Gpus, Check(k) PROVE \A g \in Gpus : Counted(g)'
  <2>1. k \in Threads /\ k \notin Clients
    BY DispatcherAssumption DEF Threads
  <2>2. Only(k) /\ inFlight' = inFlight
    BY <1>1, <1>4, CheckMoves, CheckFrame
  <2>3. QED
    BY <1>2, <2>1, <2>2, SameHolders
<1>5. CASE Outside
  <2>1. UNCHANGED <<inFlight, task>>
    BY <1>5, OutsideFrame
  <2>2. QED
    BY <1>2, <2>1 DEF Holders
<1>6. ASSUME NEW c \in Clients, NEW k \in Gpus, Acquire(c, k)
      PROVE  \A g \in Gpus : Counted(g)'
  <2>1. Only(c) /\ c \in Threads
    BY <1>1, <1>6, RenderMoves DEF Threads
  <2>2. task[c].pc = "idle" /\ inFlight[k] = 0
    BY <1>6 DEF Acquire, At, Available
  <2>3. task'[c].pc = "post" /\ task'[c].gpu = k
    BY <1>1, <1>6, <2>1 DEF Acquire, Doing, TasksOK
  <2>4. Holders(k) = {}
    BY <2>2 DEF Counted
  <2>5. Holders(k)' = {c}
    BY <2>1, <2>3, <2>4 DEF Holders, Only, Threads, RenderSteps
  <2>6. \A g \in Gpus \ {k} : Holders(g)' = Holders(g)
    BY <2>1, <2>2, <2>3 DEF Holders, Only, Threads, RenderSteps
  <2>7. inFlight'[k] = 1 /\ \A g \in Gpus \ {k} : inFlight'[g] = inFlight[g]
    BY <1>1, <1>6, <2>2 DEF Acquire, WorkersOK
  <2>8. QED
    BY <2>5, <2>6, <2>7 DEF Counted
<1>7. ASSUME NEW c \in Clients,
             \/ \E h \in Handles : Post(c, h)
             \/ PostFails(c) \/ \E answer \in Answers : Answer(c, answer)
             \/ MarkUnhealthy(c)
      PROVE  \A g \in Gpus : Counted(g)'
  <2>1. Only(c) /\ c \in Threads
    BY <1>1, <1>7, RenderMoves DEF Threads, Render
  <2>2. inFlight' = inFlight
    BY <1>7 DEF Post, PostFails, Answer, MarkUnhealthy, fields
  <2>3. task[c].pc \in RenderSteps
    BY <1>7 DEF Post, PostFails, Answer, MarkUnhealthy, At, RenderSteps
  <2>4. PICK pc \in RenderSteps : \E h, s :
          task' = [task EXCEPT ![c] = Doing(pc, @.gpu, h, s)]
    BY <1>7 DEF Post, PostFails, Answer, MarkUnhealthy, Goto, RenderSteps
  <2>5. task'[c].pc \in RenderSteps /\ task'[c].gpu = task[c].gpu
    BY <1>1, <2>1, <2>4 DEF TasksOK, Doing
  <2>6. QED
    BY <1>2, <2>1, <2>2, <2>3, <2>5, SameHolders
<1>8. ASSUME NEW c \in Clients, Release(c) PROVE \A g \in Gpus : Counted(g)'
  <2>1. Only(c) /\ c \in Threads
    BY <1>1, <1>8, RenderMoves DEF Threads, Render
  <2>2. task[c].pc = "release"
    BY <1>8 DEF Release, At
  <2>3. PICK k \in Gpus : task[c].gpu = k
    BY <1>1, <2>1, <2>2 DEF TasksOK, Allowed, Tasks
  <2>4. task'[c].pc \notin RenderSteps
    BY <1>1, <1>8, <2>1 DEF Release, Rest, Idle, Doing, TasksOK, RenderSteps
  <2>5. c \in Holders(k)
    BY <2>2, <2>3 DEF Holders, RenderSteps
  <2>6. inFlight[k] = 1 /\ Holders(k) = {c}
    BY <2>5 DEF Counted
  <2>7. Holders(k)' = {} /\ \A g \in Gpus \ {k} : Holders(g)' = Holders(g)
    BY <2>1, <2>3, <2>4, <2>6 DEF Holders, Only, Threads
  <2>8. inFlight'[k] = 0 /\ \A g \in Gpus \ {k} : inFlight'[g] = inFlight[g]
    BY <1>1, <1>8, <2>3, <2>6 DEF Release, WorkersOK
  <2>9. QED
    BY <2>7, <2>8 DEF Counted
<1>9. ASSUME NEW c \in Clients, Restart(c) PROVE \A g \in Gpus : Counted(g)'
  <2>1. c \in Threads
    BY DEF Threads
  <2>2. Only(c) /\ inFlight' = inFlight
    BY <1>1, <1>9, <2>1, RestartMoves, RestartFrame
  <2>3. task[c].pc \notin RenderSteps /\ task'[c].pc \notin RenderSteps
    BY <1>1, <1>9, <2>1, RestartGoesOn DEF RestartSteps, RenderSteps
  <2>4. QED
    BY <1>2, <2>1, <2>2, <2>3, SameHolders
<1>10. QED
  BY <1>3, <1>4, <1>5, <1>6, <1>7, <1>8, <1>9, NextCases DEF Render

(* start() goes from worker to worker.                                      *)
LEMMA StartingStep ==
  ASSUME TypeOK, \A g \in Gpus : Starting(g), [Next]_vars
  PROVE  \A g \in Gpus : Starting(g)'
<1>1. SUFFICES ASSUME NEW g \in Gpus, phase' = "starting"
               PROVE  /\ \A t \in Threads : At(t, "idle")'
                      /\ g >= turn' => process'[g] = None /\ Running(g)' = {}
  BY DEF Starting
<1>2. CASE UNCHANGED vars
  <2>1. UNCHANGED <<phase, turn, process, life, task>>
    BY <1>2 DEF vars, service
  <2>2. QED
    BY <1>1, <2>1 DEF Starting, At, Running
<1>3. ASSUME phase = "starting" PROVE \A t \in Threads : At(t, "idle")
  BY <1>3 DEF Starting
<1>4. ASSUME NEW k \in Gpus, Check(k) PROVE FALSE
  <2>1. k \in Threads /\ phase = "starting"
    BY <1>1, <1>4, CheckFrame DEF Threads
  <2>2. At(k, "idle")
    BY <1>3, <2>1
  <2>3. QED
    BY <1>4, <2>1, <2>2
    DEF Check, CheckRead, CheckPoll, CheckHealth, CheckApply, MarkExited,
        RestartExited, Restart, RestartPop, RestartNotDue, StopProcess,
        ClearWorker, Popen, PopenFails, AssignProcess, At
<1>5. ASSUME NEW c \in Clients, Render(c) \/ \E k \in Gpus : Acquire(c, k) PROVE FALSE
  <2>1. c \in Threads /\ phase = "starting"
    BY <1>1, <1>5, RenderFrame DEF Threads
  <2>2. At(c, "idle")
    BY <1>3, <2>1
  <2>3. QED
    BY <1>5, <2>1, <2>2
    DEF Acquire, Render, Post, PostFails, Answer, MarkUnhealthy, Release,
        Restart, RestartPop, RestartNotDue, StopProcess,
        ClearWorker, Popen, PopenFails, AssignProcess, At
<1>6. ASSUME NEW h \in Handles, StartWorker(h)
      PROVE  /\ \A t \in Threads : At(t, "idle")'
             /\ g >= turn' => process'[g] = None /\ Running(g)' = {}
  <2>1. phase = "starting" /\ turn \in Gpus /\ turn' = turn + 1 /\ task' = task
    BY <1>6 DEF StartWorker
  <2>2. \A t \in Threads : At(t, "idle")'
    BY <1>3, <2>1 DEF At
  <2>3. ASSUME g >= turn' PROVE g >= turn /\ g # turn
    BY <2>1, <2>3 DEF Gpus
  <2>4. ASSUME g # turn PROVE process'[g] = process[g] /\ life'[g] = life[g]
    BY <1>6, <2>4 DEF StartWorker, Spawned, Becomes
  <2>5. ASSUME g >= turn PROVE process[g] = None /\ Running(g) = {}
    BY <2>1, <2>5 DEF Starting
  <2>6. QED
    BY <2>2, <2>3, <2>4, <2>5 DEF Running
<1>7. CASE Outside
  <2>1. UNCHANGED task
    BY <1>7, OutsideFrame
  <2>2. CASE UNCHANGED <<process, phase, turn>> /\ Running(g)' \subseteq Running(g)
    BY <1>1, <2>1, <2>2 DEF Starting, At
  <2>3. QED
    BY <1>1, <1>6, <1>7, <2>2, OutsideFrame
<1>8. QED
  BY <1>2, <1>4, <1>5, <1>7, NextCases

(* What leaves a worker and its health check alone, and at most takes away  *)
(* processes, leaves it known where its process is.                         *)
LEMMA KnownKept ==
  ASSUME NEW g \in Gpus, Known(g), task'[g] = task[g], process'[g] = process[g],
         Running(g)' \subseteq Running(g)
  PROVE  Known(g)'
  BY DEF Known

(* The health check always knows where the process of its worker is, and    *)
(* stops it only when nobody renders.                                       *)
LEMMA CheckKnows ==
  ASSUME TypeOK, NEW g \in Gpus, Known(g), Spared(g), Check(g)
  PROVE  Known(g)' /\ Spared(g)'
<1>1. ServiceOK /\ WorkersOK /\ LivesOK /\ TasksOK
  BY TypeParts
<1>2. g \in Threads /\ task[g].gpu = g /\ task[g].handle \in Handles \cup {None}
  BY <1>1 DEF TasksOK, Allowed, Threads, Tasks
<1>3. \A d : task' = [task EXCEPT ![g] = d] => task'[g] = d
  BY <1>1, <1>2 DEF TasksOK
<1>4. UNCHANGED life => Running(g)' = Running(g)
  BY DEF Running
<1>5. ASSUME task'[g].pc # "stop" PROVE Spared(g)'
  BY <1>5 DEF Spared, At
<1>6. CASE CheckRead(g)
  <2>1. task'[g] = Doing("poll", g, process[g], None) /\ UNCHANGED <<process, life>>
    BY <1>3, <1>6 DEF CheckRead
  <2>2. task[g].pc = "idle"
    BY <1>6 DEF CheckRead, At
  <2>3. QED
    BY <1>4, <1>5, <2>1, <2>2 DEF Doing, Known
<1>7. CASE CheckPoll(g)
  <2>1. /\ task'[g].pc = IF Exited(g, task[g].handle) THEN "exited" ELSE "health"
        /\ UNCHANGED <<process, life>>
    BY <1>3, <1>7 DEF CheckPoll, Goto, Doing
  <2>2. task[g].pc = "poll"
    BY <1>7 DEF CheckPoll, At
  <2>3. task[g].handle = process[g] /\ Running(g) \subseteq {process[g]}
    BY <2>2 DEF Known
  <2>4. Exited(g, task[g].handle) => Running(g) = {}
    BY <2>3 DEF Exited, Alive, Running
  <2>5. QED
    BY <1>4, <1>5, <2>1, <2>3, <2>4 DEF Known
<1>8. ASSUME NEW report \in Reports \cup {"failed"}, CheckHealth(g, report)
      PROVE  Known(g)' /\ Spared(g)'
  <2>1. task'[g].pc = "apply" /\ UNCHANGED <<process, life>>
    BY <1>3, <1>8 DEF CheckHealth, Doing
  <2>2. task[g].pc = "health"
    BY <1>8 DEF CheckHealth, At
  <2>3. QED
    BY <1>4, <1>5, <2>1, <2>2 DEF Known
<1>9. CASE CheckApply(g)
  <2>1. task'[g].pc = "restart" /\ UNCHANGED <<process, life>>
    BY <1>3, <1>9 DEF CheckApply, Goto, Doing
  <2>2. task[g].pc = "apply"
    BY <1>9 DEF CheckApply, At
  <2>3. QED
    BY <1>4, <1>5, <2>1, <2>2 DEF Known
<1>10. CASE MarkExited(g)
  <2>1. task'[g].pc = "due" /\ UNCHANGED <<process, life>>
    BY <1>3, <1>10 DEF MarkExited, Goto, Doing
  <2>2. task[g].pc = "exited"
    BY <1>10 DEF MarkExited, At
  <2>3. QED
    BY <1>4, <1>5, <2>1, <2>2 DEF Known
<1>11. CASE RestartExited(g)
  <2>1. task'[g].pc \in {"clear", "idle"} /\ UNCHANGED <<process, life>>
    BY <1>3, <1>11 DEF RestartExited, Rest, Idle, Doing
  <2>2. task[g].pc = "due"
    BY <1>11 DEF RestartExited, At
  <2>3. QED
    BY <1>4, <1>5, <2>1, <2>2 DEF Known
<1>12. CASE RestartPop(g)
  <2>1. task'[g] = Doing("stop", g, process[g], None) /\ UNCHANGED <<life, inFlight>>
    BY <1>2, <1>3, <1>12 DEF RestartPop
  <2>2. task[g].pc = "restart" /\ inFlight[g] = 0
    BY <1>2, <1>12 DEF RestartPop, At, Due
  <2>3. ready'[g] = FALSE
    BY <1>1, <1>2, <1>12 DEF RestartPop, WorkersOK
  <2>4. QED
    BY <1>4, <2>1, <2>2, <2>3 DEF Known, Spared, At, Doing
<1>13. CASE RestartNotDue(g) \/ PopenFails(g)
  <2>1. task'[g].pc = "idle" /\ UNCHANGED <<process, life>>
    BY <1>3, <1>13 DEF RestartNotDue, PopenFails, Rest, Idle, Doing
  <2>2. task[g].pc \in {"restart", "popen"}
    BY <1>13 DEF RestartNotDue, PopenFails, At
  <2>3. QED
    BY <1>4, <1>5, <2>1, <2>2 DEF Known
<1>14. CASE StopProcess(g)
  <2>1. task'[g].pc = "clear" /\ UNCHANGED process
    BY <1>3, <1>14 DEF StopProcess, Doing
  <2>2. Stopped(g, task[g].handle) /\ task[g].pc = "stop"
    BY <1>2, <1>14 DEF StopProcess, At
  <2>3. Running(g)' = {}
    BY <1>1, <1>2, <2>2, StoppedLife DEF Known
  <2>4. QED
    BY <1>5, <2>1, <2>3 DEF Known
<1>15. CASE ClearWorker(g)
  <2>1. task'[g].pc = "popen" /\ UNCHANGED life
    BY <1>3, <1>15 DEF ClearWorker, Goto, Doing
  <2>2. task[g].pc = "clear"
    BY <1>15 DEF ClearWorker, At
  <2>3. QED
    BY <1>4, <1>5, <2>1, <2>2 DEF Known
<1>16. ASSUME NEW h \in Handles, Popen(g, h) PROVE Known(g)' /\ Spared(g)'
  <2>1. task'[g] = Doing("assign", g, h, None) /\ UNCHANGED process
    BY <1>2, <1>3, <1>16 DEF Popen
  <2>2. task[g].pc = "popen"
    BY <1>16 DEF Popen, At
  <2>3. Becomes(g, h, "booting")
    BY <1>2, <1>16 DEF Popen, Spawned
  <2>4. Running(g)' = {h}
    BY <1>1, <2>2, <2>3, OneLife DEF Known
  <2>5. QED
    BY <1>5, <2>1, <2>4 DEF Known, Doing
<1>17. CASE AssignProcess(g)
  <2>1. task'[g].pc = "idle" /\ UNCHANGED life /\ process'[g] = task[g].handle
    BY <1>1, <1>2, <1>3, <1>17 DEF AssignProcess, Rest, Idle, Doing, WorkersOK
  <2>2. task[g].pc = "assign"
    BY <1>17 DEF AssignProcess, At
  <2>3. QED
    BY <1>4, <1>5, <2>1, <2>2 DEF Known
<1>18. QED
  BY <1>6, <1>7, <1>8, <1>9, <1>10, <1>11, <1>12, <1>13, <1>14, <1>15, <1>16, <1>17
  DEF Check, Restart

(* As long as no render restarts a worker by itself, each health check has  *)
(* its worker to itself.                                                    *)
LEMMA LonelyStep ==
  ASSUME TypeOK, \A g \in Gpus : Counted(g) /\ Starting(g), Lonely, [Next]_vars
  PROVE  Lonely'
<1>1. ServiceOK /\ WorkersOK /\ LivesOK /\ TasksOK
  BY TypeParts
<1>2. SUFFICES ASSUME ~renderRestarted'
               PROVE  /\ \A c \in Clients : task'[c].pc \notin RestartSteps
                      /\ \A g \in Gpus : Known(g)' /\ Spared(g)'
  BY DEF Lonely
<1>3. \A c \in Clients : c \in Threads /\ c \notin Gpus
  BY DispatcherAssumption DEF Threads
<1>4. \A g \in Gpus : g \in Threads /\ g \notin Clients
  BY DispatcherAssumption DEF Threads
<1>5. ASSUME ~renderRestarted
      PROVE  /\ \A c \in Clients : task[c].pc \notin RestartSteps
             /\ \A g \in Gpus : Known(g) /\ Spared(g)
  BY <1>5 DEF Lonely
<1>6. UNCHANGED life => \A g \in Gpus : Running(g)' = Running(g)
  BY DEF Running
<1>7. CASE UNCHANGED vars
  <2>1. UNCHANGED <<process, ready, inFlight, life, task, renderRestarted>>
    BY <1>7 DEF vars, fields, history
  <2>2. \A g \in Gpus : Spared(g)'
    BY <1>2, <1>5, <2>1 DEF Spared, At
  <2>3. QED
    BY <1>2, <1>5, <1>6, <2>1, <2>2, KnownKept
<1>8. ASSUME NEW k \in Gpus, Check(k)
      PROVE  /\ \A c \in Clients : task'[c].pc \notin RestartSteps
             /\ \A g \in Gpus : Known(g)' /\ Spared(g)'
  <2>1. Only(k) /\ UNCHANGED <<inFlight, renderRestarted>>
    BY <1>1, <1>8, CheckMoves, CheckFrame
  <2>2. \A t \in Threads \ {k} : task'[t] = task[t]
    BY <2>1 DEF Only
  <2>3. \A c \in Clients : task'[c].pc \notin RestartSteps
    BY <1>2, <1>3, <1>5, <2>1, <2>2
  <2>4. Known(k)' /\ Spared(k)'
    BY <1>2, <1>5, <1>8, <2>1, CheckKnows
  <2>5. ASSUME NEW g \in Gpus \ {k} PROVE Known(g)' /\ Spared(g)'
    <3>1. task'[g] = task[g]
      BY <1>4, <2>2
    <3>2. Same(g)
      BY <1>8, CheckFrame
    <3>3. Known(g) /\ Spared(g)
      BY <1>2, <1>5, <2>1
    <3>4. Running(g)' = Running(g)
      BY <3>2 DEF Same, Running
    <3>5. Known(g)'
      BY <3>1, <3>2, <3>3, <3>4, KnownKept DEF Same
    <3>6. QED
      BY <2>1, <3>1, <3>2, <3>3, <3>5 DEF Same, Spared, At
  <2>6. QED
    BY <2>3, <2>4, <2>5
<1>9. ASSUME NEW c \in Clients, Render(c) \/ \E k \in Gpus : Acquire(c, k)
      PROVE  /\ \A d \in Clients : task'[d].pc \notin RestartSteps
             /\ \A g \in Gpus : Known(g)' /\ Spared(g)'
  <2>1. Only(c) /\ TasksOK'
    BY <1>1, <1>9, RenderMoves
  <2>2. ~renderRestarted
    <3>1. ASSUME Restart(c) PROVE renderRestarted' = renderRestarted
      BY <1>3, <3>1, RestartFrame
    <3>2. CASE Release(c)
      BY <1>2, <3>2 DEF Release
    <3>3. QED
      BY <1>2, <1>9, <3>1, <3>2
      DEF Acquire, Render, Post, PostFails, Answer, MarkUnhealthy, history
  <2>3. ~Restart(c)
    BY <1>1, <1>3, <1>5, <2>2, RestartGoesOn
  <2>4. task'[c].pc \notin RestartSteps
    <3>1. CASE Release(c)
      <4>1. task' = [task EXCEPT ![c] = Idle(c)]
        BY <1>2, <3>1 DEF Release, Rest
      <4>2. task'[c].pc = "idle"
        BY <1>1, <1>3, <4>1 DEF TasksOK, Idle, Doing
      <4>3. QED
        BY <4>2 DEF RestartSteps
    <3>2. CASE ~Release(c)
      <4>1. PICK pc \in RenderSteps : \E g, h, s :
              task' = [task EXCEPT ![c] = Doing(pc, g, h, s)]
        BY <1>9, <2>3, <3>2
        DEF Acquire, Render, Post, PostFails, Answer, MarkUnhealthy, Goto, RenderSteps
      <4>2. task'[c].pc \in RenderSteps
        BY <1>1, <1>3, <4>1 DEF TasksOK, Doing
      <4>3. QED
        BY <4>2 DEF RenderSteps, RestartSteps
    <3>3. QED
      BY <3>1, <3>2
  <2>5. \A d \in Clients : task'[d].pc \notin RestartSteps
    BY <1>3, <1>5, <2>1, <2>2, <2>4 DEF Only
  <2>6. UNCHANGED <<process, life>> /\ \A g \in Gpus : ready'[g] => ready[g]
    BY <1>9, <2>3, RenderFrame
  <2>7. ASSUME NEW g \in Gpus PROVE Known(g)' /\ Spared(g)'
    <3>1. task'[g] = task[g]
      BY <1>3, <1>4, <2>1 DEF Only
    <3>2. Known(g) /\ Spared(g)
      BY <1>5, <2>2
    <3>3. Known(g)'
      BY <1>6, <2>6, <3>1, <3>2, KnownKept
    <3>4. ASSUME At(g, "stop") PROVE inFlight'[g] = 0 /\ ~ready'[g]
      <4>1. inFlight[g] = 0 /\ ~ready[g]
        BY <3>2, <3>4 DEF Spared
      <4>2. CASE \E k \in Gpus : Acquire(c, k)
        <5>1. PICK k \in Gpus : Acquire(c, k)
          BY <4>2
        <5>2. k # g /\ inFlight' = [inFlight EXCEPT ![k] = @ + 1]
          BY <4>1, <5>1 DEF Acquire, Available
        <5>3. inFlight'[g] = inFlight[g]
          BY <1>1, <5>2 DEF WorkersOK
        <5>4. QED
          BY <2>6, <4>1, <5>3
      <4>3. CASE Release(c)
        <5>1. c \in Holders(task[c].gpu) /\ task[c].gpu \in Gpus
          BY <1>1, <1>3, <4>3 DEF Release, At, Holders, RenderSteps, TasksOK, Allowed, Tasks
        <5>2. task[c].gpu # g
          BY <4>1, <5>1 DEF Counted
        <5>3. inFlight'[g] = inFlight[g]
          BY <1>1, <4>3, <5>2 DEF Release, WorkersOK
        <5>4. QED
          BY <2>6, <4>1, <5>3
      <4>4. CASE Render(c) /\ ~Release(c)
        <5>1. inFlight' = inFlight
          BY <2>3, <4>4 DEF Render, Post, PostFails, Answer, MarkUnhealthy, fields
        <5>2. QED
          BY <2>6, <4>1, <5>1
      <4>5. QED
        BY <1>9, <4>2, <4>3, <4>4
    <3>5. QED
      BY <3>1, <3>3, <3>4 DEF Spared, At
  <2>8. QED
    BY <2>5, <2>7
<1>10. CASE Outside
  <2>1. UNCHANGED <<task, ready, inFlight, renderRestarted>>
    BY <1>10, OutsideFrame
  <2>2. \A c \in Clients : task'[c].pc \notin RestartSteps
    BY <1>2, <1>5, <2>1
  <2>3. \A g \in Gpus : Known(g) /\ Spared(g) /\ Spared(g)'
    BY <1>2, <1>5, <2>1 DEF Spared, At
  <2>4. CASE UNCHANGED process /\ \A g \in Gpus : Running(g)' \subseteq Running(g)
    BY <2>1, <2>2, <2>3, <2>4, KnownKept
  <2>5. ASSUME NEW h \in Handles, StartWorker(h), NEW g \in Gpus PROVE Known(g)'
    <3>1. phase = "starting" /\ turn \in Gpus /\ Spawned(turn, h)
      BY <2>5 DEF StartWorker
    <3>2. CASE g = turn
      <4>1. At(g, "idle") /\ Running(g) = {}
        BY <1>4, <3>1, <3>2 DEF Starting, Gpus
      <4>2. Running(g)' = {h}
        BY <1>1, <3>1, <3>2, <4>1, OneLife DEF Spawned
      <4>3. process'[g] = h
        BY <1>1, <2>5, <3>2 DEF StartWorker, WorkersOK
      <4>4. QED
        BY <2>1, <4>1, <4>2, <4>3 DEF Known, At
    <3>3. CASE g # turn
      <4>1. process'[g] = process[g]
        BY <2>5, <3>3 DEF StartWorker
      <4>2. life'[g] = life[g]
        BY <3>1, <3>3 DEF Spawned, Becomes
      <4>3. Running(g)' = Running(g)
        BY <4>2 DEF Running
      <4>4. QED
        BY <2>1, <2>3, <4>1, <4>3, KnownKept
    <3>4. QED
      BY <3>2, <3>3
  <2>6. QED
    BY <1>10, <2>2, <2>3, <2>4, <2>5, OutsideFrame
<1>11. QED
  BY <1>7, <1>8, <1>9, <1>10, NextCases

(* The inductive invariant holds in every reachable state.                  *)
THEOREM SupervisedCorrect == Spec => []Supervised
<1>1. Init => Supervised
  <2>1. SUFFICES ASSUME Init PROVE Supervised
    OBVIOUS
  <2>2. \A t \in Threads : task[t].pc = "idle" /\ task[t].handle = None
    BY <2>1 DEF Init, Idle, Doing
  <2>3. \A g \in Gpus : Running(g) = {}
    BY <2>1 DEF Init, Running
  <2>4. ASSUME NEW g \in Gpus PROVE Counted(g) /\ Starting(g) /\ Known(g) /\ Spared(g)
    <3>1. g \in Threads /\ inFlight[g] = 0 /\ process[g] = None
      BY <2>1 DEF Init, Threads
    <3>2. Holders(g) = {}
      BY <2>2 DEF Holders, Threads, RenderSteps
    <3>3. Counted(g)
      BY <3>1, <3>2 DEF Counted
    <3>4. Starting(g)
      BY <2>2, <2>3, <3>1 DEF Starting, At
    <3>5. Known(g) /\ Spared(g)
      BY <2>2, <2>3, <3>1 DEF Known, Spared, At
    <3>6. QED
      BY <3>3, <3>4, <3>5
  <2>5. \A c \in Clients : task[c].pc \notin RestartSteps
    BY <2>2 DEF Threads, RestartSteps
  <2>6. QED
    BY <2>1, <2>4, <2>5, InitType DEF Supervised, Lonely
<1>2. Supervised /\ [Next]_vars => Supervised'
  BY TypeStep, CountedStep, StartingStep, LonelyStep DEF Supervised
<1>3. QED
  BY <1>1, <1>2, PTL DEF Spec

(* in_flight counts the requests that hold the worker, and there is never   *)
(* more than one, whatever fails or is restarted in between.                *)
THEOREM SingleFlightCorrect == Spec => []SingleFlight
<1>1. ASSUME Supervised PROVE SingleFlight
  <2>1. SUFFICES ASSUME NEW g \in Gpus
                 PROVE  inFlight[g] = Cardinality(Holders(g)) /\ inFlight[g] <= 1
    BY DEF SingleFlight
  <2>2. CASE inFlight[g] = 0 /\ Holders(g) = {}
    BY <2>2, FS_EmptySet
  <2>3. ASSUME NEW c \in Clients, inFlight[g] = 1, Holders(g) = {c}
        PROVE  inFlight[g] = Cardinality(Holders(g)) /\ inFlight[g] <= 1
    <3>1. Cardinality({c}) = 1
      BY FS_Singleton
    <3>2. QED
      BY <2>3, <3>1
  <2>4. QED
    BY <1>1, <2>2, <2>3 DEF Supervised, Counted
<1>2. QED
  BY <1>1, SupervisedCorrect, PTL

(* As long as the health check alone restarts workers, at most one process  *)
(* of a GPU is up or on its way up: the earlier ones exited or were killed. *)
THEOREM MonitorKeepsOneCorrect == Spec => []MonitorKeepsOne
<1>1. ASSUME Supervised PROVE MonitorKeepsOne
  <2>1. SUFFICES ASSUME ~renderRestarted, NEW g \in Gpus
                 PROVE  \A h, k \in Running(g) : h = k
    BY DEF MonitorKeepsOne
  <2>2. Known(g)
    BY <1>1, <2>1 DEF Supervised, Lonely
  <2>3. \E h : Running(g) \subseteq {h}
    BY <2>2 DEF Known
  <2>4. QED
    BY <2>3
<1>2. QED
  BY <1>1, SupervisedCorrect, PTL

(* As long as the health check alone restarts workers, it never stops a     *)
(* process that is rendering.                                               *)
THEOREM RestartSparesRendersCorrect == Spec => []RestartSparesRenders
<1>1. ASSUME Supervised PROVE RestartSparesRenders
  <2>1. SUFFICES ASSUME ~renderRestarted, NEW g \in Gpus, NEW c \in Clients,
                        At(g, "stop"), At(c, "rendering"), task[c].gpu = g
                 PROVE  FALSE
    BY DEF RestartSparesRenders
  <2>2. inFlight[g] = 0
    BY <1>1, <2>1 DEF Supervised, Lonely, Spared
  <2>3. c \in Holders(g)
    BY <2>1 DEF Holders, At, RenderSteps
  <2>4. QED
    BY <1>1, <2>2, <2>3 DEF Supervised, Counted
<1>2. QED
  BY <1>1, SupervisedCorrect, PTL
=============================================================================
