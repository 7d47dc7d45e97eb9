------------------------------ MODULE JobRegistry ------------------------------
(***************************************************************************)
(* The registry of pipeline jobs of the physics agent service              *)
(* (apps/physics_agent_service/service/runtime/registry.py): one entry per *)
(* session, a semaphore for the jobs that run, and, while a job is queued, *)
(* a heartbeat that renews the lease on the generation of its session.     *)
(*                                                                         *)
(* Everything runs on one event loop: an action is what a task does        *)
(* between two awaits that suspend it.  The registry's lock is never held  *)
(* over such an await, and awaiting a task that is done does not suspend.  *)
(***************************************************************************)
EXTENDS Naturals, FiniteSets

CONSTANTS
  Requests,       (* requests that start a job, each with its own task      *)
  Sessions,
  SessionOf,      (* the session of each request                            *)
  Cancellers,     (* requests in cancel()                                   *)
  MaxConcurrent,
  Reserved,       (* _RESERVED                                              *)
  None

ASSUME RegistryAssumption ==
  /\ IsFiniteSet(Requests)
  /\ SessionOf \in [Requests -> Sessions]
  /\ MaxConcurrent \in Nat
  /\ Reserved \notin Requests \cup {None}
  /\ None \notin Requests

VARIABLES
  entry,       (* _tasks: the task or reservation of each session           *)
  pc,          (* where the request, and later its task, is                 *)
  capacity,    (* its semaphore_task: none, asking, granted, cancelled      *)
  heartbeat,   (* its heartbeat_task: none, beating, and how it ended:      *)
               (* owned (True), lost (False, or an exception)               *)
  owner,       (* the requests whose generation is still the active one     *)
  cancelled,   (* the tasks with a cancellation that is not delivered yet   *)
  discarded,   (* history: the jobs that were cancelled in the queue        *)
  free,        (* the value of the semaphore                                *)
  waiting      (* of each canceller: the task it waits for                  *)

taskVars == <<pc, capacity, heartbeat, cancelled>>
vars == <<entry, taskVars, owner, discarded, free, waiting>>

Queued == {"created", "gate", "proof"}
Draining == {"drain capacity", "drain heartbeat"}  \* the awaits of the finally block
Finished == {"over", "aborted"}  \* aborted: by an exception out of that block
Alive == Queued \cup Draining \cup {"running"}
-----------------------------------------------------------------------------
TypeOK ==
  /\ entry \in [Sessions -> Requests \cup {None, Reserved}]
  /\ pc \in [Requests -> {"idle", "reserved"} \cup Alive \cup Finished]
  /\ capacity \in [Requests -> {"none", "asking", "granted", "cancelled"}]
  /\ heartbeat \in [Requests -> {"none", "beating", "owned", "lost"}]
  /\ owner \in SUBSET Requests
  /\ cancelled \in SUBSET Requests
  /\ discarded \in SUBSET Requests
  /\ free \in 0..MaxConcurrent
  /\ waiting \in [Cancellers -> Requests \cup {None}]

Init ==
  /\ entry = [s \in Sessions |-> None]
  /\ pc = [r \in Requests |-> "idle"]
  /\ capacity = [r \in Requests |-> "none"]
  /\ heartbeat = [r \in Requests |-> "none"]
  /\ owner = Requests
  /\ cancelled = {}
  /\ discarded = {}
  /\ free = MaxConcurrent
  /\ waiting = [c \in Cancellers |-> None]
-----------------------------------------------------------------------------
(***************************************************************************)
(* A request: reserve(), then start() or release()                         *)
(***************************************************************************)
AvailableUnlessReserved(s) == entry[s] # Reserved  \* fault: also over a job that is alive

Available(s) ==
  /\ entry[s] # Reserved
  /\ entry[s] \in Requests => pc[entry[s]] \in Finished

Reserve(r) ==
  /\ pc[r] = "idle"
  /\ Available(SessionOf[r])
  /\ entry' = [entry EXCEPT ![SessionOf[r]] = Reserved]
  /\ pc' = [pc EXCEPT ![r] = "reserved"]
  /\ UNCHANGED <<capacity, heartbeat, cancelled, owner, discarded, free, waiting>>

Release(r) ==
  /\ pc[r] = "reserved"
  /\ entry[SessionOf[r]] = Reserved
  /\ entry' = [entry EXCEPT ![SessionOf[r]] = None]
  /\ pc' = [pc EXCEPT ![r] = "idle"]
  /\ UNCHANGED <<capacity, heartbeat, cancelled, owner, discarded, free, waiting>>

Start(r) ==
  /\ pc[r] = "reserved"
  /\ entry[SessionOf[r]] = Reserved
  /\ entry' = [entry EXCEPT ![SessionOf[r]] = r]
  /\ pc' = [pc EXCEPT ![r] = "created"]
  /\ UNCHANGED <<capacity, heartbeat, cancelled, owner, discarded, free, waiting>>
-----------------------------------------------------------------------------
(***************************************************************************)
(* The task of a job: _run_with_cleanup()                                  *)
(***************************************************************************)

(* A task that is cancelled before its first turn never runs its cleanup.  *)
CancelledBeforeStart(r) ==
  /\ pc[r] = "created"
  /\ r \in cancelled
  /\ pc' = [pc EXCEPT ![r] = "over"]
  /\ cancelled' = cancelled \ {r}
  /\ UNCHANGED <<entry, capacity, heartbeat, owner, discarded, free, waiting>>

BeginGate(r) ==
  /\ pc[r] = "created"
  /\ r \notin cancelled
  /\ pc' = [pc EXCEPT ![r] = "gate"]
  /\ heartbeat' = [heartbeat EXCEPT ![r] = "beating"]
  /\ capacity' = [capacity EXCEPT ![r] = "asking"]
  /\ UNCHANGED <<entry, cancelled, owner, discarded, free, waiting>>

(* The slot is given back if the task has one, also when the cancellation  *)
(* came after acquire() had returned and before the task looked.           *)
HoldsRecorded(r) == capacity[r] = "granted" /\ pc[r] \in {"proof", "running"}  \* fault
Holds(r) == capacity[r] = "granted"

ReleasedAlways(r) == free + 1  \* fault: also a slot that was not acquired
Released(r) == IF Holds(r) THEN free + 1 ELSE free

(* The end of the cleanup, after its last await that suspends.             *)
End(r) ==
  /\ free' = Released(r)
  /\ pc' = [pc EXCEPT ![r] = "over"]
  /\ entry' = [s \in Sessions |-> IF s = SessionOf[r] /\ entry[s] = r THEN None ELSE entry[s]]
  /\ UNCHANGED <<capacity, heartbeat>>

EndHeartbeat(r) ==
  IF heartbeat[r] = "beating"
  THEN /\ heartbeat' = [heartbeat EXCEPT ![r] = "lost"]
       /\ pc' = [pc EXCEPT ![r] = "drain heartbeat"]
       /\ UNCHANGED <<entry, capacity, free>>
  ELSE End(r)

(* The finally block up to its first await that suspends.                  *)
Cleanup(r) ==
  IF capacity[r] = "asking"
  THEN /\ capacity' = [capacity EXCEPT ![r] = "cancelled"]
       /\ pc' = [pc EXCEPT ![r] = "drain capacity"]
       /\ UNCHANGED <<entry, heartbeat, free>>
  ELSE EndHeartbeat(r)

(* _wait_for_queue_gate() returns for the first of the two.                *)
AnsweredBoth(r) == capacity[r] = "granted" /\ heartbeat[r] = "lost"  \* fault: for both
Answered(r) == capacity[r] = "granted" \/ heartbeat[r] = "lost"

Gate(r) ==
  /\ pc[r] = "gate"
  /\ r \in cancelled \/ Answered(r)
  /\ IF r \in cancelled \/ heartbeat[r] = "lost"
     THEN Cleanup(r)
     ELSE /\ pc' = [pc EXCEPT ![r] = "proof"]
          /\ UNCHANGED <<entry, capacity, heartbeat, free>>
  /\ cancelled' = cancelled \ {r}
  /\ UNCHANGED <<owner, discarded, waiting>>

(* The slot is held until the heartbeat has read the ownership again.      *)
OwnsOrNot(r) == TRUE  \* fault: the result of the heartbeat is not looked at
Owns(r) == heartbeat[r] = "owned"

Proof(r) ==
  /\ pc[r] = "proof"
  /\ heartbeat[r] # "beating"
  /\ IF r \notin cancelled /\ Owns(r)
     THEN /\ pc' = [pc EXCEPT ![r] = "running"]
          /\ UNCHANGED <<entry, capacity, heartbeat, free>>
     ELSE Cleanup(r)
  /\ cancelled' = cancelled \ {r}
  /\ UNCHANGED <<owner, discarded, waiting>>

(* The pipeline returns or raises, cancelled or not: one that works in a   *)
(* thread may take its time.                                               *)
PipelineEnds(r) ==
  /\ pc[r] = "running"
  /\ End(r)
  /\ UNCHANGED <<cancelled, owner, discarded, waiting>>

(* The awaits of the cleanup.  A second cancellation is raised by them,    *)
(* and what is left of the cleanup is not done.                            *)
DrainCapacity(r) ==
  /\ pc[r] = "drain capacity"
  /\ r \notin cancelled
  /\ EndHeartbeat(r)
  /\ UNCHANGED <<cancelled, owner, discarded, waiting>>

DrainHeartbeat(r) ==
  /\ pc[r] = "drain heartbeat"
  /\ r \notin cancelled
  /\ End(r)
  /\ UNCHANGED <<cancelled, owner, discarded, waiting>>

AbortCleanup(r) ==
  /\ pc[r] \in Draining
  /\ r \in cancelled
  /\ pc' = [pc EXCEPT ![r] = "aborted"]
  /\ cancelled' = cancelled \ {r}
  /\ UNCHANGED <<entry, capacity, heartbeat, owner, discarded, free, waiting>>
-----------------------------------------------------------------------------
(***************************************************************************)
(* The semaphore and the heartbeat                                         *)
(***************************************************************************)

(* Any waiter here, the first one in the semaphore.                        *)
Grant(r) ==
  /\ capacity[r] = "asking"
  /\ free > 0
  /\ capacity' = [capacity EXCEPT ![r] = "granted"]
  /\ free' = free - 1
  /\ UNCHANGED <<entry, pc, heartbeat, cancelled, owner, discarded, waiting>>

(* maintain_generation_lease() returns False when the ownership is lost,   *)
(* and True when it has read it after the capacity was announced.          *)
Heartbeat(r) ==
  /\ heartbeat[r] = "beating"
  /\ \/ r \notin owner /\ heartbeat' = [heartbeat EXCEPT ![r] = "lost"]
     \/ /\ r \in owner /\ pc[r] = "proof"
        /\ heartbeat' = [heartbeat EXCEPT ![r] = "owned"]
  /\ UNCHANGED <<entry, pc, capacity, cancelled, owner, discarded, free, waiting>>

(* Another replica takes the session over.  It makes no difference before  *)
(* the heartbeat begins or after it has ended.                             *)
LoseOwnership(r) ==
  /\ heartbeat[r] = "beating"
  /\ r \in owner
  /\ owner' = owner \ {r}
  /\ UNCHANGED <<entry, taskVars, discarded, free, waiting>>
-----------------------------------------------------------------------------
(***************************************************************************)
(* cancel().  A task that awaits the heartbeat passes the cancellation on  *)
(* to it, and maintain_generation_lease() returns False.                   *)
(***************************************************************************)
Cancel(c, s) ==
  LET r == entry[s] IN
  /\ waiting[c] = None
  /\ r \in Requests
  /\ pc[r] \in Alive
  /\ IF pc[r] = "proof" /\ heartbeat[r] = "beating"
     THEN /\ heartbeat' = [heartbeat EXCEPT ![r] = "lost"]
          /\ UNCHANGED cancelled
     ELSE /\ cancelled' = IF pc[r] = "running" THEN cancelled ELSE cancelled \cup {r}
          /\ UNCHANGED heartbeat
  /\ discarded' = IF pc[r] \in Queued THEN discarded \cup {r} ELSE discarded
  /\ waiting' = [waiting EXCEPT ![c] = r]
  /\ UNCHANGED <<entry, pc, capacity, owner, free>>

(* The task is done: an entry that still has it is removed.                *)
ClearedAny(r, s) == s = SessionOf[r]  \* fault: whatever the entry is by now
Cleared(r, s) == s = SessionOf[r] /\ entry[s] = r

CancelDone(c) ==
  LET r == waiting[c] IN
  /\ r # None
  /\ pc[r] \in Finished
  /\ entry' = [s \in Sessions |-> IF Cleared(r, s) THEN None ELSE entry[s]]
  /\ waiting' = [waiting EXCEPT ![c] = None]
  /\ UNCHANGED <<taskVars, owner, discarded, free>>

(* A pipeline that drains longer than the grace period is left alone.      *)
CancelTimesOut(c) ==
  /\ waiting[c] # None
  /\ pc[waiting[c]] = "running"
  /\ waiting' = [waiting EXCEPT ![c] = None]
  /\ UNCHANGED <<entry, taskVars, owner, discarded, free>>
-----------------------------------------------------------------------------
Turn(r) ==
  \/ CancelledBeforeStart(r)
  \/ BeginGate(r)
  \/ Gate(r)
  \/ Proof(r)
  \/ PipelineEnds(r)
  \/ DrainCapacity(r)
  \/ DrainHeartbeat(r)
  \/ AbortCleanup(r)

Next ==
  \/ \E r \in Requests :
       \/ Reserve(r)
       \/ Release(r)
       \/ Start(r)
       \/ Turn(r)
       \/ Grant(r)
       \/ Heartbeat(r)
       \/ LoseOwnership(r)
  \/ \E c \in Cancellers :
       \/ \E s \in Sessions : Cancel(c, s)
       \/ CancelDone(c)
       \/ CancelTimesOut(c)

(***************************************************************************)
(* The loop gives every task its turn, the semaphore its slots, and a      *)
(* store that can be read again answers the heartbeat.                     *)
(***************************************************************************)
Fairness ==
  \A r \in Requests : WF_vars(Turn(r)) /\ WF_vars(Grant(r)) /\ WF_vars(Heartbeat(r))

Spec == Init /\ [][Next]_vars /\ Fairness
-----------------------------------------------------------------------------
(***************************************************************************)
(* Properties                                                              *)
(***************************************************************************)

(* The entry of a session is the one job of it that is not finished, or    *)
(* the one reservation: nothing that cleans up after a job takes away what *)
(* a later request has put there.                                          *)
OneJobPerSession ==
  \A r \in Requests :
    /\ pc[r] \in Alive => entry[SessionOf[r]] = r
    /\ pc[r] = "reserved" =>
         /\ entry[SessionOf[r]] = Reserved
         /\ \A q \in Requests \ {r} : pc[q] = "reserved" => SessionOf[q] # SessionOf[r]

(* Every slot is free, or held by one task: one that ends, is cancelled in *)
(* the queue or loses its session gives its slot back once.  (A cleanup    *)
(* that is aborted keeps it, see CleanupSurvivesCancel.)                   *)
SlotsConserved ==
  free + Cardinality({r \in Requests : capacity[r] = "granted" /\ pc[r] # "over"})
    = MaxConcurrent

(* A job that was cancelled in the queue does not run, also when capacity  *)
(* or the proof of ownership came at the same time.                        *)
CancelledStaysOut == \A r \in discarded : pc[r] # "running"

(* A job that is over leaves no entry behind, or one that a caller of       *)
(* cancel() is about to remove: also where the wrapper never ran or its     *)
(* cleanup was aborted.                                                     *)
NoDeadEntry ==
  \A s \in Sessions : entry[s] \in Requests /\ pc[entry[s]] \in Finished =>
    \E c \in Cancellers : waiting[c] = entry[s]

(* Every job that was started ends, unless an aborted cleanup keeps the    *)
(* slot it waits for.                                                      *)
EveryJobEnds ==
  \A r \in Requests :
    pc[r] = "created" ~> \/ pc[r] \in Finished
                         \/ \E q \in Requests : pc[q] = "aborted"

(* What _run_with_cleanup() says of itself: a slot it has waited for is    *)
(* cleaned up when it ends, whoever cancels it how often.                  *)
CleanupSurvivesCancel ==
  \A r \in Requests : pc[r] = "aborted" => capacity[r] # "granted"
-----------------------------------------------------------------------------
(***************************************************************************)
(* JobLifecycle: a job exists from start() on, is active while its         *)
(* pipeline runs, and has ended where its cleanup begins.  The capacity is *)
(* one job for each session that any request is for.                       *)
(***************************************************************************)
Served == {SessionOf[r] : r \in Requests}

LifecycleOf(r) ==
  IF pc[r] \in {"idle", "reserved"} THEN "new"
  ELSE IF pc[r] = "running" THEN "active"
  ELSE IF r \in discarded THEN "cancelled"
  ELSE IF pc[r] \in Queued THEN "queued" ELSE "ended"

LifecycleJob == [r \in Requests |-> LifecycleOf(r)]

Lifecycle ==
  INSTANCE JobLifecycle WITH
    Jobs <- Requests,
    Results <- {"cancelled", "ended"},
    Unstarted <- {"cancelled", "ended"},
    Capacity <- Cardinality(Served),
    job <- LifecycleJob

(* What the registry makes of a request is a job: it is started once, only  *)
(* from the queue, never again after it was cancelled there or has ended,   *)
(* and never beside another open job of its session.                        *)
LifecycleSpec == Lifecycle!Spec
=============================================================================
