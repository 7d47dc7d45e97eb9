---------------------------- MODULE LongRunningJobs ----------------------------
(***************************************************************************)
(* The manager of long-running harness jobs                                *)
(* (world_understanding/agentic/harness/jobs.py): a thread per job, a      *)
(* snapshot job_state.json and a log events.jsonl of each job on disk, and *)
(* readers that follow the log, over a restart if they ask again.          *)
(*                                                                         *)
(* One lock is held over each change: the job and its list of events in    *)
(* memory, then the line appended to the log, then the snapshot replaced.  *)
(* The process may die between them, and either write may fail; nobody     *)
(* else can step in.                                                       *)
(***************************************************************************)
EXTENDS Naturals, Sequences, FiniteSets

CONSTANTS
  Jobs,            (* job ids, each drawn once                              *)
  Followers,       (* readers of event_batches()                            *)
  Outcomes,        (* what _status_from_result makes of a runner's results  *)
  RunnerEvents,    (* the names of the events that runners emit             *)
  MaxLoadedJobs,
  MaxEvents,       (* bound on the length of the log of each job              *)
  MaxFaults,       (* bound on the restarts of the process and the writes   *)
                   (* that fail, together                                   *)
  None

Terminal == {"succeeded", "failed", "canceled", "blocked"}  \* TERMINAL_STATUSES
Live == {"queued", "running", "cancel_requested"}
EventOf == [succeeded |-> "completed", failed |-> "failed",
            canceled |-> "canceled", blocked |-> "blocked"]
Events == {"queued", "started", "log", "cancel_requested"}
            \cup {EventOf[s] : s \in Terminal}

(* A row of a log: the event, and the status of the job as it was emitted.  *)
Rows == [event: Events, status: Live \cup Terminal]

ASSUME ManagerAssumption ==
  /\ IsFiniteSet(Jobs)
  /\ Outcomes \subseteq Terminal
  /\ RunnerEvents \subseteq Events
  /\ MaxLoadedJobs \in Nat \ {0}
  /\ MaxEvents \in [Jobs -> Nat] /\ MaxFaults \in Nat
  /\ None \notin Jobs

VARIABLES
  status,       (* of each job in _jobs; absent when it is not loaded       *)
  events,       (* its list of events in memory                             *)
  cancelEvent,  (* the jobs whose cancel_event is set                       *)
  thread,       (* of each job: none, started, running (the runner), raised *)
                (* (an exception is on its way to the handler), dead (what  *)
                (* the runner left behind may still run), cut (its process  *)
                (* died before it ended), gone (nothing of it runs)         *)
  disk,         (* the status in job_state.json; absent without one         *)
  log,          (* events.jsonl                                             *)
  block,        (* the critical section that has begun: its job, which one  *)
                (* it is, what it writes next, and its row                  *)
  resumedFrom,  (* of each job                                              *)
  resuming,     (* the job that resume() is about to replace                *)
  reader,       (* of each follower: its job, next_index and whether it is  *)
                (* idle, following, cut off by a crash, or at the end       *)
  crashes, writeErrors

memory == <<status, events, cancelEvent>>
files == <<disk, log>>
bounds == <<crashes, writeErrors>>
vars == <<memory, thread, files, block, resumedFrom, resuming, reader, bounds>>

Sections == {"start", "run", "emit", "cancel", "finish", "handle"}
NoBlock == [job |-> None, section |-> "none", write |-> "none", row |-> None]
Unlocked == block = NoBlock
-----------------------------------------------------------------------------
TypeOK ==
  /\ status \in [Jobs -> Live \cup Terminal \cup {"absent"}]
  /\ events \in [Jobs -> Seq(Rows)]
  /\ cancelEvent \in SUBSET Jobs
  /\ thread \in [Jobs ->
       {"none", "started", "running", "raised", "dead", "cut", "gone"}]
  /\ disk \in [Jobs -> Live \cup Terminal \cup {"absent"}]
  /\ log \in [Jobs -> Seq(Rows)]
  /\ block \in {NoBlock} \cup
       [job: Jobs, section: Sections, write: {"event", "state"}, row: Rows]
  /\ resumedFrom \in [Jobs -> Jobs \cup {None}]
  /\ resuming \in Jobs \cup {None}
  /\ reader \in [Followers -> [job: Jobs \cup {None}, next: Nat,
                               at: {"idle", "following", "cut", "end"}]]
  /\ crashes \in 0..MaxFaults
  /\ writeErrors \in 0..MaxFaults

Init ==
  /\ status = [j \in Jobs |-> "absent"]
  /\ events = [j \in Jobs |-> <<>>]
  /\ cancelEvent = {}
  /\ thread = [j \in Jobs |-> "none"]
  /\ disk = [j \in Jobs |-> "absent"]
  /\ log = [j \in Jobs |-> <<>>]
  /\ block = NoBlock
  /\ resumedFrom = [j \in Jobs |-> None]
  /\ resuming = None
  /\ reader = [f \in Followers |-> [job |-> None, next |-> 0, at |-> "idle"]]
  /\ crashes = 0
  /\ writeErrors = 0
-----------------------------------------------------------------------------
(***************************************************************************)
(* _emit_locked and _persist_locked: the section sets the status and       *)
(* appends an event in memory; its two writes follow.                      *)
(***************************************************************************)
Row(e, s) == [event |-> e, status |-> s]
Enter(j, section, row) ==
  block' = [job |-> j, section |-> section, write |-> "event", row |-> row]

Begin(j, section, s, e) ==
  /\ Unlocked
  /\ status' = [status EXCEPT ![j] = s]
  /\ events' = [events EXCEPT ![j] = Append(@, Row(e, s))]
  /\ Enter(j, section, Row(e, s))
  /\ UNCHANGED <<files, reader, bounds>>

AppendEvent ==
  /\ block.write = "event"
  /\ log' = [log EXCEPT ![block.job] = Append(@, block.row)]
  /\ block' = [block EXCEPT !.write = "state"]
  /\ UNCHANGED <<memory, thread, disk, resumedFrom, resuming, reader, bounds>>

(***************************************************************************)
(* _evict_loaded_jobs_locked: above the limit, ended jobs whose thread is  *)
(* over leave the memory (any of them here, the oldest first in the code). *)
(***************************************************************************)
Over(j) == thread[j] \in {"none", "dead", "cut", "gone"}

Evict(s, e) ==
  LET loaded == {j \in Jobs : s[j] # "absent"}
      evictable == {j \in loaded : s[j] \in Terminal /\ Over(j)}
  IN \E gone \in SUBSET evictable :
       /\ \/ Cardinality(loaded \ gone) = MaxLoadedJobs
          \/ Cardinality(loaded) <= MaxLoadedJobs /\ gone = {}
          \/ Cardinality(loaded \ gone) > MaxLoadedJobs /\ gone = evictable
       /\ status' = [j \in Jobs |-> IF j \in gone THEN "absent" ELSE s[j]]
       /\ events' = [j \in Jobs |-> IF j \in gone THEN <<>> ELSE e[j]]
       /\ cancelEvent' = cancelEvent \ gone

(* The snapshot is replaced and the section ends: a new job's thread is    *)
(* started, a thread goes on, or ends after an eviction that spares its    *)
(* own job.  A job that emit() has loaded may have left the memory again,  *)
(* and is as it was on disk.                                               *)
PersistState ==
  /\ block.write = "state"
  /\ LET j == block.job IN
     /\ disk' = [disk EXCEPT ![j] = IF status[j] = "absent" THEN @ ELSE status[j]]
     /\ thread' = [thread EXCEPT ![j] =
          CASE block.section = "start" -> "started"
            [] block.section = "run" -> "running"
            [] block.section \in {"finish", "handle"} -> "dead"
            [] OTHER -> @]
  /\ IF block.section \in {"finish", "handle"}
     THEN Evict(status, events)
     ELSE UNCHANGED memory
  /\ block' = NoBlock
  /\ UNCHANGED <<log, resumedFrom, resuming, reader, bounds>>

(* A write fails and the exception leaves the section: in start() and      *)
(* cancel() to the caller, in emit() to whoever emits, of which the runner *)
(* may let it pass; after a result to the exception handler; otherwise it  *)
(* ends the thread, before it has a runner or after.                       *)
WriteFails ==
  /\ ~Unlocked
  /\ crashes + writeErrors < MaxFaults
  /\ writeErrors' = writeErrors + 1
  /\ LET raised == CASE block.section = "finish" -> {"raised"}
                     [] block.section = "run" -> {"gone"}
                     [] block.section = "handle" -> {"dead"}
                     [] block.section = "emit" /\ thread[block.job] = "running"
                          -> {"running", "raised"}
                     [] OTHER -> {thread[block.job]}
     IN \E t \in raised : thread' = [thread EXCEPT ![block.job] = t]
  /\ block' = NoBlock
  /\ UNCHANGED <<memory, files, resumedFrom, resuming, reader, crashes>>
-----------------------------------------------------------------------------
(***************************************************************************)
(* Loading.  A job whose snapshot is not of an ended one was left by a     *)
(* process that died: it is loaded as failed, and saved so.                *)
(***************************************************************************)
Known(j) == status[j] # "absent" \/ disk[j] # "absent"
Loaded(j) == IF disk[j] \in Terminal THEN disk[j] ELSE "failed"
StatusOf(j) == IF status[j] = "absent" THEN Loaded(j) ELSE status[j]
EventsOf(j) == IF status[j] = "absent" THEN log[j] ELSE events[j]

(* Bound: a job that has not ended leaves room in its log for its end.      *)
HasRoom(j) ==
  Len(EventsOf(j)) + (IF StatusOf(j) \in Terminal THEN 0 ELSE 1) < MaxEvents[j]

LoadUnsaved(js) ==  \* fault: not saved
  /\ Evict([j \in Jobs |-> IF j \in js THEN Loaded(j) ELSE status[j]],
           [j \in Jobs |-> IF j \in js THEN log[j] ELSE events[j]])
  /\ UNCHANGED files

Load(js) ==
  /\ Evict([j \in Jobs |-> IF j \in js THEN Loaded(j) ELSE status[j]],
           [j \in Jobs |-> IF j \in js THEN log[j] ELSE events[j]])
  /\ disk' = [j \in Jobs |-> IF j \in js THEN Loaded(j) ELSE disk[j]]
  /\ UNCHANGED log

(* _get_job_locked: the caller uses the job, also when it is evicted again.*)
Get(j) ==
  /\ Unlocked
  /\ Known(j)
  /\ IF status[j] = "absent" THEN Load({j}) ELSE UNCHANGED <<memory, files>>

(* snapshot(); cancel() of an ended job; resume() of one that is not.      *)
Snapshot(j) ==
  /\ Get(j)
  /\ UNCHANGED <<thread, block, resumedFrom, resuming, reader, bounds>>

(* list() loads what it finds.                                             *)
List ==
  /\ Unlocked
  /\ Load({j \in Jobs : status[j] = "absent" /\ disk[j] # "absent"})
  /\ UNCHANGED <<thread, block, resumedFrom, resuming, reader, bounds>>
-----------------------------------------------------------------------------
(***************************************************************************)
(* Operations of the callers                                               *)
(***************************************************************************)
Fresh(j) == ~Known(j) /\ log[j] = <<>> /\ thread[j] = "none"

(* Which of the unused ids a new job gets makes no difference.             *)
Start(j, from) ==
  /\ Fresh(j)
  /\ j = CHOOSE i \in Jobs : Fresh(i)
  /\ resumedFrom' = [resumedFrom EXCEPT ![j] = from]
  /\ Begin(j, "start", "queued", "queued")
  /\ UNCHANGED <<cancelEvent, thread>>

Resumable(i) == StatusOf(i) \in Terminal

(* resume() copies the request of an ended job under the lock, and starts  *)
(* a new job from it in a section of its own.                              *)
Resume(i) ==
  /\ resuming = None
  /\ \E j \in Jobs : Fresh(j)  \* bound: an id is left
  /\ Resumable(i)
  /\ Get(i)
  /\ resuming' = i
  /\ UNCHANGED <<thread, block, resumedFrom, reader, bounds>>

StartNew(j) == Start(j, None) /\ UNCHANGED resuming
StartResumed(j) == resuming # None /\ Start(j, resuming) /\ resuming' = None

CancelAny(j) ==  \* fault: also a job that has ended
  /\ status[j] # "absent"
  /\ HasRoom(j)
  /\ Begin(j, "cancel", "cancel_requested", "cancel_requested")
  /\ cancelEvent' = cancelEvent \cup {j}
  /\ UNCHANGED <<thread, resumedFrom, resuming>>

Cancel(j) ==
  /\ status[j] \in Live
  /\ HasRoom(j)
  /\ Begin(j, "cancel", "cancel_requested", "cancel_requested")
  /\ cancelEvent' = cancelEvent \cup {j}
  /\ UNCHANGED <<thread, resumedFrom, resuming>>
-----------------------------------------------------------------------------
(***************************************************************************)
(* The thread of a job: _run_job                                           *)
(***************************************************************************)
RunUncancelled(j) ==  \* fault: nobody ends a job that was cancelled before
  /\ thread[j] = "started" /\ j \notin cancelEvent
  /\ Begin(j, "run", "running", "started")
  /\ UNCHANGED <<cancelEvent, thread, resumedFrom, resuming>>

Run(j) ==
  /\ thread[j] = "started"
  /\ Begin(j, "run", "running", "started")
  /\ UNCHANGED <<cancelEvent, thread, resumedFrom, resuming>>

(* emit_callback.  The event has any name the emitter gives it.  Nothing    *)
(* asks whether the job has ended: a thread or task that the runner left    *)
(* behind emits too, and loads the job when it has been evicted, which may  *)
(* evict it again.                                                          *)
Emit(j, e) ==
  LET row == Row(e, StatusOf(j)) IN
  /\ Unlocked
  /\ thread[j] \in {"running", "raised", "dead"}
  /\ Known(j)
  /\ HasRoom(j)
  /\ IF status[j] = "absent"
     THEN /\ Evict([status EXCEPT ![j] = Loaded(j)],
                   [events EXCEPT ![j] = Append(log[j], row)])
          /\ disk' = [disk EXCEPT ![j] = Loaded(j)]
     ELSE /\ events' = [events EXCEPT ![j] = Append(@, row)]
          /\ UNCHANGED <<status, cancelEvent, disk>>
  /\ Enter(j, "emit", row)
  /\ UNCHANGED <<log, thread, resumedFrom, resuming, reader, bounds>>

CancelInStatus(j) == status[j] = "cancel_requested"  \* fault: the event is not looked at
CancelSeen(j) == j \in cancelEvent

FinishSwapped(j, r) ==  \* fault: the status and the event are exchanged
  /\ thread[j] = "running"
  /\ LET s == IF CancelSeen(j) THEN "canceled" ELSE r
     IN Begin(j, "finish", EventOf[s], s)
  /\ UNCHANGED <<cancelEvent, thread, resumedFrom, resuming>>

(* The runner returns a result.                                            *)
Finish(j, r) ==
  /\ thread[j] = "running"
  /\ LET s == IF CancelSeen(j) THEN "canceled" ELSE r
     IN Begin(j, "finish", s, EventOf[s])
  /\ UNCHANGED <<cancelEvent, thread, resumedFrom, resuming>>

(* The runner raises LongRunCancelled or CancelledError.                   *)
FinishCancelled(j) ==
  /\ thread[j] = "running"
  /\ Begin(j, "handle", "canceled", "canceled")
  /\ UNCHANGED <<cancelEvent, thread, resumedFrom, resuming>>

(* The runner, or a write that failed, raises anything else.               *)
HandleAgain(j) ==  \* fault: also after the end was recorded
  /\ thread[j] \in {"running", "raised", "dead"}
  /\ LET s == IF CancelSeen(j) THEN "canceled" ELSE "failed"
     IN Begin(j, "handle", s, EventOf[s])
  /\ UNCHANGED <<cancelEvent, thread, resumedFrom, resuming>>

Handle(j) ==
  /\ thread[j] \in {"running", "raised"}
  /\ LET s == IF CancelSeen(j) THEN "canceled" ELSE "failed"
     IN Begin(j, "handle", s, EventOf[s])
  /\ UNCHANGED <<cancelEvent, thread, resumedFrom, resuming>>
-----------------------------------------------------------------------------
(***************************************************************************)
(* A reader of event_batches(): it gets every event it has not had, waits, *)
(* and returns when it has had those of an ended job.  After a restart it  *)
(* asks again, since the next event it expects.                            *)
(***************************************************************************)
Follow(f, j) ==
  /\ Unlocked
  /\ Known(j)
  /\ \/ reader[f].at = "idle"
     \/ reader[f].at = "cut" /\ reader[f].job = j
  /\ reader' = [reader EXCEPT ![f] = [job |-> j, next |-> @.next, at |-> "following"]]
  /\ UNCHANGED <<memory, thread, files, block, resumedFrom, resuming, bounds>>

Ended(f) == StatusOf(reader[f].job) \in Terminal
More(f) == reader[f].next < Len(EventsOf(reader[f].job))

NextIndexUnlessEnded(f) ==  \* fault: the last batch is not given
  IF More(f) /\ ~Ended(f) THEN Len(EventsOf(reader[f].job)) ELSE reader[f].next
NextIndex(f) == IF More(f) THEN Len(EventsOf(reader[f].job)) ELSE reader[f].next

Answers(f) == More(f) \/ Ended(f)

Batch(f) ==
  /\ reader[f].at = "following"
  /\ Answers(f)
  /\ Get(reader[f].job)
  /\ reader' = [reader EXCEPT ![f].next = NextIndex(f),
                             ![f].at = IF Ended(f) THEN "end" ELSE "following"]
  /\ UNCHANGED <<thread, block, resumedFrom, resuming, bounds>>

(* The process dies; another one is started on the same directory.         *)
Crash ==
  /\ crashes + writeErrors < MaxFaults
  /\ crashes' = crashes + 1
  /\ status' = [j \in Jobs |-> "absent"]
  /\ events' = [j \in Jobs |-> <<>>]
  /\ cancelEvent' = {}
  /\ thread' = [j \in Jobs |->
       CASE thread[j] \in {"started", "running", "raised"} -> "cut"
         [] thread[j] = "dead" -> "gone"
         [] OTHER -> thread[j]]
  /\ block' = NoBlock
  /\ reader' = [f \in Followers |->
       [reader[f] EXCEPT !.at = IF @ = "following" THEN "cut" ELSE @]]
  /\ resuming' = None
  /\ UNCHANGED <<files, resumedFrom, writeErrors>>
-----------------------------------------------------------------------------
RunJob(j) ==
  \/ Run(j)
  \/ FinishCancelled(j)
  \/ Handle(j)
  \/ \E r \in Outcomes : Finish(j, r)

Writes == AppendEvent \/ PersistState \/ WriteFails

Next ==
  \/ Writes
  \/ List
  \/ \E j \in Jobs :
       \/ RunJob(j)
       \/ \E e \in RunnerEvents : Emit(j, e)
       \/ StartNew(j)
       \/ StartResumed(j)
       \/ Cancel(j)
       \/ Snapshot(j)
       \/ Resume(j)
  \/ \E f \in Followers : Batch(f) \/ \E j \in Jobs : Follow(f, j)
  \/ Crash

(***************************************************************************)
(* A thread that has the lock goes on, a runner returns or raises, a       *)
(* reader that follows keeps reading.                                      *)
(***************************************************************************)
Fairness ==
  /\ WF_vars(Writes)
  /\ \A j \in Jobs : WF_vars(RunJob(j))
  /\ \A f \in Followers : WF_vars(Batch(f))

Spec == Init /\ [][Next]_vars /\ Fairness
-----------------------------------------------------------------------------
(***************************************************************************)
(* Properties.  What a write that failed leaves behind is not promised     *)
(* anything: most properties are about the runs without one.               *)
(***************************************************************************)
WritesSucceed == writeErrors = 0

(* Whoever is told how a job ended is told the same after a restart.       *)
ReportedIsDurable ==
  WritesSucceed /\ Unlocked =>
    \A j \in Jobs : status[j] \in Terminal => disk[j] = status[j]

(* The list in memory, from which the index of an event is taken, is the   *)
(* log on disk, but for the event being written.                           *)
LogIsComplete ==
  WritesSucceed =>
    \A j \in Jobs : status[j] # "absent" =>
      events[j] = IF block.job = j /\ block.write = "event"
                  THEN Append(log[j], block.row) ELSE log[j]

(* A log tells one end.  Once a row has the status of an ended job the      *)
(* later ones have the same, whoever emits them under whatever name; the    *)
(* first of them is the manager's event for that end.  A snapshot that says *)
(* how the job ended agrees with the last row, unless the job was failed    *)
(* because its process died before the thread was through.                  *)
LogEndsOnce ==
  WritesSucceed =>
    \A j \in Jobs :
      /\ \A n \in 1..Len(log[j]) : log[j][n].status \in Terminal =>
           IF n > 1 /\ log[j][n - 1].status \in Terminal
           THEN log[j][n].status = log[j][n - 1].status
           ELSE log[j][n].event = EventOf[log[j][n].status]
      /\ \A n \in 1..(Len(log[j]) - 1) :
           log[j][n].status \in Terminal => log[j][n + 1].status \in Terminal
      /\ disk[j] \in Terminal =>
           \/ log[j][Len(log[j])].status = disk[j]
           \/ disk[j] = "failed" /\ thread[j] = "cut"

(* A cancellation that was accepted is not lost, also when the thread      *)
(* begins after it and overwrites the status, or a write fails.            *)
CancelIsKept ==
  \A j \in cancelEvent : status[j] \in Terminal => status[j] = "canceled"

(* What a reader was given is in the log: after a restart the next event   *)
(* is the one it expects.  A reader that was told the end has had all but  *)
(* what was emitted after the end.                                         *)
ReadersMissNothing ==
  WritesSucceed =>
    \A f \in Followers : reader[f].job # None =>
      /\ reader[f].next <= Len(log[reader[f].job])
      /\ reader[f].at = "end" /\ reader[f].next < Len(log[reader[f].job]) =>
           /\ reader[f].next > 0
           /\ log[reader[f].job][reader[f].next].status \in Terminal

(* A job that ends on disk stays as it is, whoever loads it again.         *)
ResultStays ==
  [][\A j \in Jobs :
       writeErrors' = 0 /\ disk[j] \in Terminal => disk'[j] = disk[j]]_vars

(* Every job ends, unless the process dies or a write fails.               *)
EveryJobEnds ==
  \A j \in Jobs :
    status[j] \in Live ~> status[j] \in Terminal \cup {"absent"} \/ ~WritesSucceed

(* As long as no write fails the manager keeps the promises of             *)
(* JobLifecycle: a job is what job_state.json says, and a job of a process *)
(* that died has failed.                                                   *)
LifecycleOf(j) ==
  IF disk[j] = "absent" THEN "new"
  ELSE IF disk[j] \in Terminal THEN disk[j]
  ELSE IF status[j] = "absent" THEN "failed"
  ELSE IF disk[j] = "queued" THEN "queued" ELSE "active"

LifecycleJob == [j \in Jobs |-> LifecycleOf(j)]

Lifecycle ==
  INSTANCE JobLifecycle WITH
    Results <- Terminal,
    Unstarted <- {"failed"},
    Capacity <- Cardinality(Jobs),
    job <- LifecycleJob

LifecycleWhileWritesSucceed ==
  /\ Lifecycle!Init
  /\ [][writeErrors' = 0 => Lifecycle!Next \/ UNCHANGED LifecycleJob]_vars
=============================================================================
