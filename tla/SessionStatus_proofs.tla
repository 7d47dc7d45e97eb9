------------------------ MODULE SessionStatus_proofs ------------------------
(***************************************************************************)
(* Proofs about SessionStatus, for every number of tasks, of clients that  *)
(* cancel and of event streams.                                            *)
(***************************************************************************)
EXTENDS SessionStatus, TLAPS

(* Where the worker is before anything ended, and while a thread runs.     *)
Before ==
  {"queued", "startup", "check", "announce", "step", "drainStep", "report",
   "package", "drainPackage", "publish"}
Working == {"step", "drainStep", "package", "drainPackage"}

(* Where the worker awaits an emit(), and of which event.                  *)
Emitting ==
  {"startup", "announce", "report", "completing", "failing", "stopping",
   "cancelled", "crashed"}
EventAt(pc) ==
  IF pc \in {"startup", "announce"} THEN "running"
  ELSE IF pc = "report" THEN "completed"
  ELSE IF pc = "completing" THEN "pipeline_completed"
  ELSE IF pc \in {"failing", "crashed"} THEN "failed"
  ELSE "cancelled"

EmittersOk ==
  /\ em["worker"].pc # "none" =>
       worker.pc \in Emitting /\ em["worker"].event.state = EventAt(worker.pc)
  /\ em["wrapper"].pc # "none" =>
       worker.pc = "over" /\ em["wrapper"].event.state = "cancelled"
  /\ \A c \in Cancellers : em[c].pc # "none" => em[c].event.state = "cancelling"
  /\ \A a \in Emitters :
       em[a].pc \in {"read", "write"} => em[a].event.state # "completed"

NothingEnded ==
  /\ snap.status \notin Ended
  /\ disk \in Live
  /\ queue = 0
  /\ ~stalled
  /\ \A c \in Cancellers : late[c] = None
  /\ \A s \in Streams : stream[s] # "done"

(* Until the worker reports an end nothing has ended; a thread that still  *)
(* runs after that is marked; a deleted session has no thread.             *)
Phases ==
  /\ worker.pc \in Before => NothingEnded
  /\ stepRunning => worker.pc \in Working \/ stalled
  /\ disk = "gone" => worker.pc = "over" /\ ~stepRunning
  /\ deleted => disk = "gone"

Inductive == TypeOK /\ EmittersOk /\ Phases
-----------------------------------------------------------------------------
Places == {"none", "exists", "apply", "read", "write"}
Events == [state: EventStates, step: Steps \cup {None}]
Ems == [Emitters -> [pc: Places, event: Events]]

(* The values a status, a step or an event may have, spelled out.          *)
LEMMA Names ==
  /\ Statuses = {"pending", "running", "cancelling", "completed", "failed", "cancelled"}
  /\ 0 \in Steps /\ 1 \in Steps
  /\ \A n \in Steps : n < NumSteps => n + 1 \in Steps
  /\ \A c \in Cancellers : c # "worker" /\ c # "wrapper"
  BY SessionAssumption, SMT DEF Statuses, Live, Ended, Steps

(* What a coroutine that begins an emit() changes: its own event.          *)
LEMMA EmitsFacts ==
  ASSUME em \in Ems, NEW a \in Emitters, NEW state \in EventStates,
         NEW step \in Steps \cup {None}, Emits(a, state, step)
  PROVE /\ em' \in Ems
        /\ em'[a].pc = "exists" /\ em'[a].event.state = state
        /\ \A b \in Emitters : b # a => em'[b] = em[b]
  <1>1. [pc |-> "exists", event |-> Event(state, step)] \in [pc: Places, event: Events]
    BY DEF Event, Places, Events
  <1> QED
    BY <1>1 DEF Emits, Ems, Event

(* What a step of an emit() changes: where it is, and not its event.       *)
LEMMA EmPcFacts ==
  ASSUME em \in Ems, NEW a \in Emitters, NEW p \in Places,
         em' = [em EXCEPT ![a].pc = p]
  PROVE /\ em' \in Ems
        /\ em'[a].pc = p /\ em'[a].event = em[a].event
        /\ \A b \in Emitters : b # a => em'[b] = em[b]
  <1>1. em[a] \in [pc: Places, event: Events]
    BY DEF Ems
  <1>2. [em[a] EXCEPT !.pc = p] \in [pc: Places, event: Events]
    BY <1>1
  <1>3. em' = [em EXCEPT ![a] = [em[a] EXCEPT !.pc = p]]
    OBVIOUS
  <1>4. em'[a] = [em[a] EXCEPT !.pc = p]
    BY <1>3 DEF Ems
  <1> QED
    BY <1>1, <1>2, <1>3, <1>4 DEF Ems

(* Where the worker goes; its current task stays.                          *)
LEMMA GoesFacts ==
  ASSUME worker \in [pc: WorkerSteps, step: Steps], NEW p \in WorkerSteps, Goes(p)
  PROVE /\ worker' \in [pc: WorkerSteps, step: Steps]
        /\ worker'.pc = p /\ worker'.step = worker.step
  BY DEF Goes

(* A written status is one, unless the session is gone and stays so.       *)
LEMMA WrittenFacts ==
  ASSUME NEW s, disk' = Written(s)
  PROVE /\ disk = "gone" => disk' = "gone"
        /\ disk # "gone" => disk' = s
  BY DEF Written

(* The status of an event is a status, and has ended when the event tells  *)
(* an end.                                                                 *)
LEMMA StatusFacts ==
  ASSUME NEW e \in Events
  PROVE /\ StatusOf(e) \in Statuses
        /\ e.state \in Closing => StatusOf(e) \in Ended
        /\ e.state \in {"running", "cancelling"} => StatusOf(e) \in Live
  BY DEF StatusOf, Events, EventStates, Statuses, Live, Ended, Closing
-----------------------------------------------------------------------------
(* The worker's own steps keep the types.                                  *)
LEMMA WorkerTypes ==
  ASSUME TypeOK, WorkerStep
  PROVE TypeOK'
  <1> USE Names, GoesFacts, EmitsFacts
      DEF Ems, Places, Events, Emitters, EventStates, WorkerSteps, bus, thread
  <1>1. CASE Start
    BY <1>1 DEF TypeOK, Start, Written, Goes, Emits, Event
  <1>2. CASE RecordRunning
    BY <1>2 DEF TypeOK, RecordRunning, Written, Goes, Emits, Event
  <1>3. CASE StartupRaises
    BY <1>3 DEF TypeOK, StartupRaises, Written, Goes, Emits, Event
  <1>4. CASE StopsHere
    BY <1>4 DEF TypeOK, StopsHere, Written, Goes, Emits, Event
  <1>5. CASE GoesOn
    BY <1>5 DEF TypeOK, GoesOn, Written, Goes, Emits, Event
  <1>6. CASE StepBegins
    BY <1>6 DEF TypeOK, StepBegins, Written, Goes, Emits, Event
  <1>7. CASE StepReturns
    BY <1>7 DEF TypeOK, StepReturns, Written, Goes, Emits, Event
  <1>8. CASE StepRaises
    BY <1>8 DEF TypeOK, StepRaises, Written, Goes, Emits, Event
  <1>9. CASE NextStep
    BY <1>9 DEF TypeOK, NextStep, Written, Goes, Emits, Event
  <1>10. CASE Package
    BY <1>10 DEF TypeOK, Package, Written, Goes, Emits, Event
  <1>11. CASE Packaged
    BY <1>11 DEF TypeOK, Packaged, Written, Goes, Emits, Event
  <1>12. CASE Published
    BY <1>12 DEF TypeOK, Published, Written, Goes, Emits, Event
  <1>13. CASE PublishRaises
    BY <1>13 DEF TypeOK, PublishRaises, Written, Goes, Emits, Event
  <1>14. CASE RecordFailed
    BY <1>14 DEF TypeOK, RecordFailed, Written, Goes, Emits, Event
  <1>15. CASE RecordStopped
    BY <1>15 DEF TypeOK, RecordStopped, Written, Goes, Emits, Event
  <1>16. CASE ClearStopped
    BY <1>16 DEF TypeOK, ClearStopped, Written, Goes, Emits, Event
  <1>17. CASE RecordCancelled
    BY <1>17 DEF TypeOK, RecordCancelled, Written, Goes, Emits, Event
  <1>18. CASE ClearCancelled
    BY <1>18 DEF TypeOK, ClearCancelled, Written, Goes, Emits, Event
  <1>19. CASE RecordCrash
    BY <1>19 DEF TypeOK, RecordCrash, Written, Goes, Emits, Event
  <1>20. CASE IsOver
    BY <1>20 DEF TypeOK, IsOver, Written, Goes, Emits, Event
  <1>21. CASE Drains
    BY <1>21 DEF TypeOK, Drains, Written, Goes, Emits, Event
  <1>22. CASE DrainRaises
    BY <1>22 DEF TypeOK, DrainRaises, Written, Goes, Emits, Event
  <1>23. CASE DrainTimesOut
    BY <1>23 DEF TypeOK, DrainTimesOut, Written, Goes, Emits, Event
  <1> QED
    BY <1>1, <1>2, <1>3, <1>4, <1>5, <1>6, <1>7, <1>8, <1>9, <1>10, <1>11, <1>12, <1>13, <1>14, <1>15, <1>16, <1>17, <1>18, <1>19, <1>20, <1>21, <1>22, <1>23 DEF WorkerStep

(* What the worker emits is what its place says.                           *)
LEMMA WorkerEmitters ==
  ASSUME Inductive, WorkerStep
  PROVE EmittersOk'
  <1> USE Names, GoesFacts, EmitsFacts
      DEF Ems, Places, Events, Emitters, EventStates, WorkerSteps, bus, thread,
          EmittersOk, Emitting, EventAt
  <1>1. CASE Start
    BY <1>1 DEF Inductive, TypeOK, Start, Emitted, Written, Goes, Emits, Event
  <1>2. CASE RecordRunning
    BY <1>2 DEF Inductive, TypeOK, RecordRunning, Emitted, Written, Goes, Emits, Event
  <1>3. CASE StartupRaises
    BY <1>3 DEF Inductive, TypeOK, StartupRaises, Emitted, Written, Goes, Emits, Event
  <1>4. CASE StopsHere
    BY <1>4 DEF Inductive, TypeOK, StopsHere, Emitted, Written, Goes, Emits, Event
  <1>5. CASE GoesOn
    BY <1>5 DEF Inductive, TypeOK, GoesOn, Emitted, Written, Goes, Emits, Event
  <1>6. CASE StepBegins
    BY <1>6 DEF Inductive, TypeOK, StepBegins, Emitted, Written, Goes, Emits, Event
  <1>7. CASE StepReturns
    BY <1>7 DEF Inductive, TypeOK, StepReturns, Emitted, Written, Goes, Emits, Event
  <1>8. CASE StepRaises
    BY <1>8 DEF Inductive, TypeOK, StepRaises, Emitted, Written, Goes, Emits, Event
  <1>9. CASE NextStep
    BY <1>9 DEF Inductive, TypeOK, NextStep, Emitted, Written, Goes, Emits, Event
  <1>10. CASE Package
    BY <1>10 DEF Inductive, TypeOK, Package, Emitted, Written, Goes, Emits, Event
  <1>11. CASE Packaged
    BY <1>11 DEF Inductive, TypeOK, Packaged, Emitted, Written, Goes, Emits, Event
  <1>12. CASE Published
    BY <1>12 DEF Inductive, TypeOK, Published, Emitted, Written, Goes, Emits, Event
  <1>13. CASE PublishRaises
    BY <1>13 DEF Inductive, TypeOK, PublishRaises, Emitted, Written, Goes, Emits, Event
  <1>14. CASE RecordFailed
    BY <1>14 DEF Inductive, TypeOK, RecordFailed, Emitted, Written, Goes, Emits, Event
  <1>15. CASE RecordStopped
    BY <1>15 DEF Inductive, TypeOK, RecordStopped, Emitted, Written, Goes, Emits, Event
  <1>16. CASE ClearStopped
    BY <1>16 DEF Inductive, TypeOK, ClearStopped, Emitted, Written, Goes, Emits, Event
  <1>17. CASE RecordCancelled
    BY <1>17 DEF Inductive, TypeOK, RecordCancelled, Emitted, Written, Goes, Emits, Event
  <1>18. CASE ClearCancelled
    BY <1>18 DEF Inductive, TypeOK, ClearCancelled, Emitted, Written, Goes, Emits, Event
  <1>19. CASE RecordCrash
    BY <1>19 DEF Inductive, TypeOK, RecordCrash, Emitted, Written, Goes, Emits, Event
  <1>20. CASE IsOver
    BY <1>20 DEF Inductive, TypeOK, IsOver, Emitted, Written, Goes, Emits, Event
  <1>21. CASE Drains
    BY <1>21 DEF Inductive, TypeOK, Drains, Emitted, Written, Goes, Emits, Event
  <1>22. CASE DrainRaises
    BY <1>22 DEF Inductive, TypeOK, DrainRaises, Emitted, Written, Goes, Emits, Event
  <1>23. CASE DrainTimesOut
    BY <1>23 DEF Inductive, TypeOK, DrainTimesOut, Emitted, Written, Goes, Emits, Event
  <1> QED
    BY <1>1, <1>2, <1>3, <1>4, <1>5, <1>6, <1>7, <1>8, <1>9, <1>10, <1>11, <1>12, <1>13, <1>14, <1>15, <1>16, <1>17, <1>18, <1>19, <1>20, <1>21, <1>22, <1>23 DEF WorkerStep

(* The worker reports an end only once no unmarked thread of it runs.      *)
LEMMA WorkerPhases ==
  ASSUME Inductive, WorkerStep
  PROVE Phases'
  <1> USE Names, GoesFacts, EmitsFacts
      DEF Ems, Places, Events, Emitters, EventStates, WorkerSteps, bus, thread,
          EmittersOk, Emitting, Phases, NothingEnded, Before, Working, Live, Ended, Statuses
  <1>1. CASE Start
    BY <1>1 DEF Inductive, TypeOK, Start, Emitted, Written, Goes, Emits, Event
  <1>2. CASE RecordRunning
    BY <1>2 DEF Inductive, TypeOK, RecordRunning, Emitted, Written, Goes, Emits, Event
  <1>3. CASE StartupRaises
    BY <1>3 DEF Inductive, TypeOK, StartupRaises, Emitted, Written, Goes, Emits, Event
  <1>4. CASE StopsHere
    BY <1>4 DEF Inductive, TypeOK, StopsHere, Emitted, Written, Goes, Emits, Event
  <1>5. CASE GoesOn
    BY <1>5 DEF Inductive, TypeOK, GoesOn, Emitted, Written, Goes, Emits, Event
  <1>6. CASE StepBegins
    BY <1>6 DEF Inductive, TypeOK, StepBegins, Emitted, Written, Goes, Emits, Event
  <1>7. CASE StepReturns
    BY <1>7 DEF Inductive, TypeOK, StepReturns, Emitted, Written, Goes, Emits, Event
  <1>8. CASE StepRaises
    BY <1>8 DEF Inductive, TypeOK, StepRaises, Emitted, Written, Goes, Emits, Event
  <1>9. CASE NextStep
    BY <1>9 DEF Inductive, TypeOK, NextStep, Emitted, Written, Goes, Emits, Event
  <1>10. CASE Package
    BY <1>10 DEF Inductive, TypeOK, Package, Emitted, Written, Goes, Emits, Event
  <1>11. CASE Packaged
    BY <1>11 DEF Inductive, TypeOK, Packaged, Emitted, Written, Goes, Emits, Event
  <1>12. CASE Published
    BY <1>12 DEF Inductive, TypeOK, Published, Emitted, Written, Goes, Emits, Event
  <1>13. CASE PublishRaises
    BY <1>13 DEF Inductive, TypeOK, PublishRaises, Emitted, Written, Goes, Emits, Event
  <1>14. CASE RecordFailed
    BY <1>14 DEF Inductive, TypeOK, RecordFailed, Emitted, Written, Goes, Emits, Event
  <1>15. CASE RecordStopped
    BY <1>15 DEF Inductive, TypeOK, RecordStopped, Emitted, Written, Goes, Emits, Event
  <1>16. CASE ClearStopped
    BY <1>16 DEF Inductive, TypeOK, ClearStopped, Emitted, Written, Goes, Emits, Event
  <1>17. CASE RecordCancelled
    BY <1>17 DEF Inductive, TypeOK, RecordCancelled, Emitted, Written, Goes, Emits, Event
  <1>18. CASE ClearCancelled
    BY <1>18 DEF Inductive, TypeOK, ClearCancelled, Emitted, Written, Goes, Emits, Event
  <1>19. CASE RecordCrash
    BY <1>19 DEF Inductive, TypeOK, RecordCrash, Emitted, Written, Goes, Emits, Event
  <1>20. CASE IsOver
    BY <1>20 DEF Inductive, TypeOK, IsOver, Emitted, Written, Goes, Emits, Event
  <1>21. CASE Drains
    BY <1>21 DEF Inductive, TypeOK, Drains, Emitted, Written, Goes, Emits, Event
  <1>22. CASE DrainRaises
    BY <1>22 DEF Inductive, TypeOK, DrainRaises, Emitted, Written, Goes, Emits, Event
  <1>23. CASE DrainTimesOut
    BY <1>23 DEF Inductive, TypeOK, DrainTimesOut, Emitted, Written, Goes, Emits, Event
  <1> QED
    BY <1>1, <1>2, <1>3, <1>4, <1>5, <1>6, <1>7, <1>8, <1>9, <1>10, <1>11, <1>12, <1>13, <1>14, <1>15, <1>16, <1>17, <1>18, <1>19, <1>20, <1>21, <1>22, <1>23 DEF WorkerStep
-----------------------------------------------------------------------------
(* The snapshot an event leaves.                                           *)
LEMMA AppliedFacts ==
  ASSUME NEW e \in Events, snap \in [status: Statuses, step: Steps \cup {None}]
  PROVE /\ Applied(e) \in [status: Statuses, step: Steps \cup {None}]
        /\ Applied(e).status = IF SetsStatus(e) THEN StatusOf(e) ELSE snap.status
  BY StatusFacts DEF Applied, Begins, Events

(* A step of an emit() keeps the types.                                    *)
LEMMA EmitTypes ==
  ASSUME TypeOK, NEW a \in Emitters, EmitStep(a)
  PROVE TypeOK'
  <1> USE EmPcFacts DEF bus, thread, Places
  <1>1. em \in Ems /\ em[a].event \in Events
    BY DEF TypeOK, Ems, Places, Events
  <1>2. CASE EmitExists(a)
    BY <1>1, <1>2 DEF TypeOK, EmitExists, Ems, Events
  <1>3. CASE EmitApply(a)
    <2>1. snap' \in [status: Statuses, step: Steps \cup {None}]
      BY <1>1, <1>3, AppliedFacts DEF TypeOK, EmitApply
    <2>2. queue' \in Nat
      BY <1>3 DEF TypeOK, EmitApply
    <2>3. em' \in Ems
      BY <1>1, <1>3 DEF EmitApply
    <2> QED
      BY <1>3, <2>1, <2>2, <2>3 DEF TypeOK, EmitApply, Ems, Events
  <1>4. CASE EmitDrop(a)
    BY <1>1, <1>4 DEF TypeOK, EmitDrop, Ems, Events
  <1>5. CASE EmitRead(a)
    BY <1>1, <1>5 DEF TypeOK, EmitRead, Ems, Events
  <1>6. CASE EmitWrite(a)
    BY <1>1, <1>6, StatusFacts DEF TypeOK, EmitWrite, Written, Ems, Events
  <1> QED
    BY <1>2, <1>3, <1>4, <1>5, <1>6 DEF EmitStep

(* An emit() stays with its coroutine and its event.                       *)
LEMMA EmitEmitters ==
  ASSUME Inductive, NEW a \in Emitters, EmitStep(a)
  PROVE EmittersOk'
  <1>1. em \in Ems
    BY DEF Inductive, TypeOK, Ems, Places, Events
  <1>2. /\ em'[a].event = em[a].event
        /\ em[a].pc # "none"
        /\ em'[a].pc \in {"read", "write"} => em'[a].event.state # "completed"
        /\ \A b \in Emitters : b # a => em'[b] = em[b]
    <2> USE <1>1, EmPcFacts DEF Places, bus, thread
    <2>1. CASE EmitExists(a)
      BY <2>1 DEF EmitExists
    <2>2. CASE EmitApply(a)
      BY <2>2 DEF EmitApply, Persists, SetsStatus, Begins
    <2>3. CASE EmitDrop(a)
      BY <2>3 DEF EmitDrop
    <2>4. CASE EmitRead(a)
      BY <2>4 DEF EmitRead, Inductive, EmittersOk
    <2>5. CASE EmitWrite(a)
      BY <2>5 DEF EmitWrite
    <2> QED
      BY <2>1, <2>2, <2>3, <2>4, <2>5 DEF EmitStep
  <1>3. worker' = worker
    BY DEF EmitStep, EmitExists, EmitApply, EmitDrop, EmitRead, EmitWrite
  <1>4. \A b \in Emitters :
         /\ em'[b].event = em[b].event
         /\ em'[b].pc # "none" => em[b].pc # "none"
    BY <1>2
  <1>5. \A b \in Emitters :
         em'[b].pc \in {"read", "write"} => em'[b].event.state # "completed"
    BY <1>2 DEF Inductive, EmittersOk
  <1> QED
    BY <1>3, <1>4, <1>5 DEF Inductive, EmittersOk, Emitters

(* Before anything ended, no event that is emitted tells an end.           *)
LEMMA MildEvents ==
  ASSUME Inductive, worker.pc \in Before, NEW a \in Emitters, em[a].pc # "none"
  PROVE em[a].event.state \in {"running", "completed", "cancelling"}
  BY Names DEF Inductive, EmittersOk, Emitters, Emitting, EventAt, Before

(* An emit() tells no end before the worker has one to report.             *)
LEMMA EmitPhases ==
  ASSUME Inductive, NEW a \in Emitters, EmitStep(a)
  PROVE Phases'
  <1>1. em \in Ems /\ em[a].event \in Events
    BY DEF Inductive, TypeOK, Ems, Places, Events
  <1> USE <1>1, MildEvents, StatusFacts, AppliedFacts DEF bus, thread
  <1>2. CASE EmitExists(a)
    BY <1>2 DEF EmitExists, Inductive, Phases, NothingEnded
  <1>3. CASE EmitApply(a)
    <2>1. worker.pc \in Before => NothingEnded'
      BY <1>3 DEF EmitApply, Inductive, TypeOK, Phases, NothingEnded, SetsStatus,
                  StatusOf, Closing, Begins, Live, Ended
    <2> QED
      BY <1>3, <2>1 DEF EmitApply, Inductive, Phases
  <1>4. CASE EmitDrop(a)
    BY <1>4 DEF EmitDrop, Inductive, Phases, NothingEnded
  <1>5. CASE EmitRead(a)
    BY <1>5 DEF EmitRead, Inductive, Phases, NothingEnded
  <1>6. CASE EmitWrite(a)
    <2>1. worker.pc \in Before => NothingEnded'
      BY <1>6 DEF EmitWrite, Written, Inductive, EmittersOk, Phases, NothingEnded,
                  Live, Ended
    <2> QED
      BY <1>6, <2>1, Names DEF EmitWrite, Written, Inductive, Phases
  <1> QED
    BY <1>2, <1>3, <1>4, <1>5, <1>6 DEF EmitStep
-----------------------------------------------------------------------------
(* A request leaves the types, the emitters and the phases as they must be *)
(* up to task.cancel().                                                    *)
LEMMA RequestStep ==
  ASSUME Inductive, NEW c \in Cancellers,
         CancelAccepted(c) \/ DropMarker(c) \/ MarkCancelling(c) \/ CancelIgnored(c)
  PROVE Inductive'
  <1> USE Names DEF bus, thread
  <1>1. c \in Emitters /\ em \in Ems
    BY DEF Emitters, Inductive, TypeOK, Ems, Places, Events
  <1>2. CASE CancelAccepted(c)
    BY <1>2 DEF CancelAccepted, Inductive, TypeOK, EmittersOk, Phases, NothingEnded
  <1>3. CASE DropMarker(c)
    BY <1>3 DEF DropMarker, Inductive, TypeOK, EmittersOk, Phases, NothingEnded
  <1>4. CASE MarkCancelling(c)
    <2>1. /\ em' \in Ems
          /\ em'[c].pc = "exists" /\ em'[c].event.state = "cancelling"
          /\ \A b \in Emitters : b # c => em'[b] = em[b]
      BY <1>1, <1>4, EmitsFacts DEF MarkCancelling, Inductive, TypeOK, EventStates
    <2>2. TypeOK'
      BY <1>4, <2>1 DEF MarkCancelling, Inductive, TypeOK, Ems, Places, Events
    <2>3. EmittersOk'
      BY <1>4, <2>1 DEF MarkCancelling, Inductive, EmittersOk, Emitters
    <2>4. Phases'
      BY <1>4 DEF MarkCancelling, Inductive, Phases, NothingEnded, Live
    <2> QED
      BY <2>2, <2>3, <2>4 DEF Inductive
  <1>5. CASE CancelIgnored(c)
    BY <1>5 DEF CancelIgnored, Inductive, TypeOK, EmittersOk, Phases, NothingEnded
  <1> QED
    BY <1>2, <1>3, <1>4, <1>5

(* A task that is cancelled drains its thread or goes on to record it.     *)
LEMMA CancelTaskStep ==
  ASSUME Inductive, NEW c \in Cancellers, CancelTask(c)
  PROVE Inductive'
  <1> USE Names DEF bus, thread
  <1>1. /\ em \in Ems /\ "worker" \in Emitters /\ em["worker"].event \in Events
        /\ Quiet \in [pc: Places, event: Events]
    BY DEF Emitters, Inductive, TypeOK, Ems, Places, Events, Quiet, Event, EventStates
  <1>2. /\ em' \in Ems /\ em'["worker"] = Quiet
        /\ \A b \in Emitters : b # "worker" => em'[b] = em[b]
    BY <1>1 DEF CancelTask, Ems
  <1>3. Interrupted(worker.pc) \in WorkerSteps
    BY DEF Interrupted, WorkerSteps
  <1>4. /\ worker' \in [pc: WorkerSteps, step: Steps]
        /\ worker'.pc = Interrupted(worker.pc)
    BY <1>3, GoesFacts DEF CancelTask, Inductive, TypeOK
  <1>5. AwaitedWrite \in Statuses \cup {None}
    BY <1>1, StatusFacts DEF AwaitedWrite
  <1>6. TypeOK'
    <2>1. PICK w \in {None, AwaitedWrite} : late' = [late EXCEPT ![c] = w]
      BY DEF CancelTask
    <2>2. late' \in [Cancellers -> Statuses \cup {None}]
      BY <1>5, <2>1 DEF Inductive, TypeOK
    <2> QED
      BY <1>2, <1>4, <2>2 DEF CancelTask, Inductive, TypeOK, Ems, Places, Events
  <1>7. EmittersOk'
    <2>1. worker.pc # "over"
      BY DEF CancelTask
    <2>2. em'["worker"].pc = "none"
      BY <1>2 DEF Quiet
    <2>3. em'["wrapper"] = em["wrapper"] /\ em["wrapper"].pc = "none"
      BY <1>2, <2>1 DEF Inductive, EmittersOk, Emitters
    <2>4. \A b \in Cancellers : em'[b] = em[b]
      BY <1>2 DEF Emitters
    <2>5. \A b \in Emitters : b = "worker" \/ em'[b] = em[b]
      BY <1>2
    <2> QED
      BY <2>2, <2>3, <2>4, <2>5 DEF Inductive, EmittersOk
  <1>8. Phases'
    <2>1. /\ worker.pc \in Working <=> worker'.pc \in Working
          /\ worker'.pc \in Before => worker.pc \in {"step", "package"}
      BY <1>4 DEF CancelTask, Interrupted, Working, Before, Draining, Handlers
    <2>2. worker.pc \in {"step", "package"} => AwaitedWrite = None
      BY DEF Inductive, EmittersOk, Emitting, AwaitedWrite, Emitted
    <2>3. worker'.pc \in Before => NothingEnded'
      BY <2>1, <2>2 DEF CancelTask, Inductive, TypeOK, Phases, NothingEnded, Before
    <2> QED
      BY <2>1, <2>3 DEF CancelTask, Inductive, Phases
  <1> QED
    BY <1>6, <1>7, <1>8 DEF Inductive

(* A task that never started is over, and only the wrapper tells its end.  *)
LEMMA CancelQueuedStep ==
  ASSUME Inductive, NEW c \in Cancellers, CancelQueued(c)
  PROVE Inductive'
  <1> USE Names DEF bus, thread
  <1>1. em \in Ems /\ "wrapper" \in Emitters
    BY DEF Emitters, Inductive, TypeOK, Ems, Places, Events
  <1>2. /\ em' \in Ems
        /\ em'["wrapper"].event.state = "cancelled"
        /\ em'["wrapper"].pc = "exists"
        /\ \A b \in Emitters : b # "wrapper" => em'[b] = em[b]
    BY <1>1, EmitsFacts DEF CancelQueued, EventStates
  <1>3. worker' \in [pc: WorkerSteps, step: Steps] /\ worker'.pc = "over"
    BY GoesFacts DEF CancelQueued, Inductive, TypeOK, WorkerSteps
  <1>4. TypeOK'
    BY <1>2, <1>3 DEF CancelQueued, Written, Inductive, TypeOK, Ems, Places, Events
  <1>5. EmittersOk'
    BY <1>2, <1>3 DEF CancelQueued, Inductive, EmittersOk, Emitters, Emitting
  <1>6. Phases'
    BY <1>3 DEF CancelQueued, Written, Inductive, Phases, Before, Working
  <1> QED
    BY <1>4, <1>5, <1>6 DEF Inductive

(* A write that comes late finds that something has ended, or is no write. *)
LEMMA LateWriteStep ==
  ASSUME Inductive, NEW c \in Cancellers, LateWrite(c)
  PROVE Inductive'
  <1> USE Names DEF bus, thread
  <1>1. TypeOK'
    BY DEF LateWrite, Written, Inductive, TypeOK
  <1>2. EmittersOk'
    BY DEF LateWrite, Inductive, EmittersOk
  <1>3. Phases'
    BY DEF LateWrite, Written, Inductive, TypeOK, Phases, NothingEnded
  <1> QED
    BY <1>1, <1>2, <1>3 DEF Inductive

(* Deletion waits for the worker and for a marked thread.                  *)
LEMMA DeletionStep ==
  ASSUME Inductive, DeleteSession \/ CleanupSession \/ StalledReturns
  PROVE Inductive'
  <1> USE DEF bus, thread
  <1>1. CASE DeleteSession
    BY <1>1 DEF DeleteSession, Inductive, TypeOK, EmittersOk, Phases, Before, Working
  <1>2. CASE CleanupSession
    BY <1>2 DEF CleanupSession, Inductive, TypeOK, EmittersOk, Phases, NothingEnded,
                Before, Live
  <1>3. CASE StalledReturns
    BY <1>3 DEF StalledReturns, Inductive, TypeOK, EmittersOk, Phases, NothingEnded
  <1> QED
    BY <1>1, <1>2, <1>3

(* No stream ends before something has ended.                              *)
LEMMA StreamsStep ==
  ASSUME Inductive, NEW s \in Streams, StreamChecks(s) \/ StreamStep(s)
  PROVE Inductive'
  <1> USE DEF bus, thread
  <1>1. /\ UNCHANGED <<disk, marker, snap, deleted, worker, em, stepRunning, stalled,
                       late, canceller>>
        /\ stream' \in [Streams -> {"idle", "checked", "opened", "openedNew",
                                     "waiting", "waitingNew", "done"}]
        /\ queue' \in Nat
        /\ \A t \in Streams : t # s => stream'[t] = stream[t]
    BY DEF StreamChecks, StreamStep, StreamOpens, StreamStarts, StreamGets,
           StreamTimesOut, Inductive, TypeOK
  <1>2. NothingEnded => queue' = 0 /\ stream'[s] # "done"
    BY DEF StreamChecks, StreamStep, StreamOpens, StreamStarts, StreamGets,
           StreamTimesOut, Inductive, TypeOK, NothingEnded, Live, Ended
  <1>3. NothingEnded => NothingEnded'
    BY <1>1, <1>2 DEF NothingEnded
  <1> QED
    BY <1>1, <1>3 DEF Inductive, TypeOK, EmittersOk, Phases
-----------------------------------------------------------------------------
(* Every step keeps the inductive invariant.                               *)
LEMMA InductiveStep ==
  ASSUME Inductive, [Next]_vars
  PROVE Inductive'
  <1>1. ASSUME NEW a \in Emitters, EmitStep(a)
        PROVE Inductive'
    BY <1>1, EmitTypes, EmitEmitters, EmitPhases DEF Inductive
  <1>2. CASE WorkerStep
    BY <1>2, WorkerTypes, WorkerEmitters, WorkerPhases DEF Inductive
  <1>3. ASSUME NEW c \in Cancellers,
               CancelAccepted(c) \/ CancellerStep(c) \/ LateWrite(c)
        PROVE Inductive'
    BY <1>3, RequestStep, CancelTaskStep, CancelQueuedStep, LateWriteStep
       DEF CancellerStep
  <1>4. CASE DeleteSession \/ CleanupSession \/ StalledReturns
    BY <1>4, DeletionStep
  <1>5. ASSUME NEW s \in Streams, StreamChecks(s) \/ StreamStep(s)
        PROVE Inductive'
    BY <1>5, StreamsStep
  <1>6. CASE UNCHANGED vars
    BY <1>6 DEF vars, bus, thread, Inductive, TypeOK, EmittersOk, Phases, NothingEnded
  <1> QED
    BY <1>1, <1>2, <1>3, <1>4, <1>5, <1>6 DEF Next

(* The inductive invariant: the worker's place says what it may emit, and  *)
(* until that is an end nothing has ended.                                 *)
THEOREM InductiveHolds == Spec => []Inductive
  <1>1. Init => Inductive
    <2> SUFFICES ASSUME Init PROVE Inductive
      OBVIOUS
    <2> USE Names DEF Init
    <2>1. Quiet \in [pc: Places, event: Events] /\ Quiet.pc = "none"
      BY DEF Quiet, Event, Places, Events, EventStates
    <2>2. TypeOK
      BY <2>1 DEF TypeOK, Places, Events, WorkerSteps
    <2>3. EmittersOk
      BY <2>1 DEF EmittersOk, Emitters
    <2>4. Phases
      BY DEF Phases, NothingEnded, Live, Ended
    <2> QED
      BY <2>2, <2>3, <2>4 DEF Inductive
  <1>2. Inductive /\ [Next]_vars => Inductive'
    BY InductiveStep
  <1> QED
    BY <1>1, <1>2, PTL DEF Spec

(* The records of a session's status keep their types.                     *)
THEOREM TypeCorrect == Spec => []TypeOK
  <1>1. Inductive => TypeOK
    BY DEF Inductive
  <1> QED
    BY <1>1, InductiveHolds, PTL

(* Nobody is told of an end, and no session is deleted, over an unmarked   *)
(* thread that still works.                                                *)
THEOREM WorkEndsFirst == Spec => []NoWorkAfterEnd
  <1>1. Inductive => NoWorkAfterEnd
    BY DEF Inductive, Phases, NothingEnded, NoWorkAfterEnd, Before, Working
  <1> QED
    BY <1>1, InductiveHolds, PTL

(* No event reopens a snapshot that has ended.                             *)
LEMMA SnapshotStep ==
  ASSUME Inductive, [Next]_vars, snap.status \in Ended
  PROVE snap'.status \in Ended
  <1>1. CASE snap' = snap
    BY <1>1
  <1>2. ASSUME NEW a \in Emitters, EmitApply(a)
        PROVE snap'.status \in Ended
    <2>1. em[a].pc # "none" /\ em[a].event \in Events
      BY <1>2 DEF EmitApply, Inductive, TypeOK, Events
    <2>2. em[a].event.state \in Closing \/ em[a].event.state = "cancelling"
      <3>1. worker.pc \notin Before
        BY DEF Inductive, Phases, NothingEnded
      <3> QED
        BY <2>1, <3>1, Names
           DEF Inductive, EmittersOk, Emitters, Emitting, EventAt, Before, Closing
    <2>3. SetsStatus(em[a].event) => em[a].event.state # "cancelling"
      BY DEF SetsStatus, Begins
    <2>4. snap'.status = IF SetsStatus(em[a].event) THEN StatusOf(em[a].event)
                         ELSE snap.status
      BY <1>2, <2>1, AppliedFacts DEF EmitApply, Inductive, TypeOK
    <2> QED
      BY <2>1, <2>2, <2>3, <2>4, StatusFacts
  <1>3. (snap' = snap) \/ (\E a \in Emitters : EmitApply(a))
    BY DEF Next, vars, bus, EmitStep, EmitExists, EmitDrop, EmitRead, EmitWrite,
           StalledReturns, CancelAccepted, CancellerStep, DropMarker, MarkCancelling,
           CancelTask, CancelQueued, CancelIgnored, LateWrite, DeleteSession,
           CleanupSession, StreamChecks, StreamStep, StreamOpens, StreamStarts,
           StreamGets, StreamTimesOut, WorkerStep, Start, RecordRunning,
           StartupRaises, StopsHere, GoesOn, StepBegins, StepReturns, StepRaises,
           NextStep, Package, Packaged, Published, PublishRaises, RecordFailed,
           RecordStopped, ClearStopped, RecordCancelled, ClearCancelled, RecordCrash,
           IsOver, Drains, DrainRaises, DrainTimesOut
  <1> QED
    BY <1>1, <1>2, <1>3

-----------------------------------------------------------------------------
(* Who writes a live status over one that has ended: the cancelling event  *)
(* of a cancel request, whose read of the disk is an await ago, or a write *)
(* whose await was cancelled.                                              *)
Reopens(c) ==
  \/ EmitWrite(c) /\ em[c].event.state = "cancelling"
  \/ LateWrite(c) /\ late[c] \in Live
ReopenedOnlyByCancels ==
  [][(disk \in Ended) /\ disk' \in Live => (\E c \in Cancellers : Reopens(c))]_vars

(* The worker's own writes of a live status come before anything has ended;*)
(* its emits after that tell an end.                                       *)
LEMMA ReopenStep ==
  ASSUME Inductive, [Next]_vars, disk \in Ended, disk' \in Live
  PROVE \E c \in Cancellers : Reopens(c)
  <1> USE Names DEF Live, Ended
  <1>1. disk' # disk
    OBVIOUS
  <1>2. worker.pc \notin Before
    BY DEF Inductive, Phases, NothingEnded
  <1>3. \/ \E a \in Emitters : EmitWrite(a)
        \/ RecordRunning
        \/ \E c \in Cancellers : MarkCancelling(c) \/ LateWrite(c)
    BY <1>1 DEF Next, vars, bus, thread, EmitStep, EmitExists, EmitApply, EmitDrop,
           EmitRead, StalledReturns, CancelAccepted, CancellerStep, DropMarker,
           CancelTask, CancelQueued, CancelIgnored, Written, DeleteSession,
           CleanupSession, StreamChecks, StreamStep, StreamOpens, StreamStarts,
           StreamGets, StreamTimesOut, WorkerStep, Start,
           StartupRaises, StopsHere, GoesOn, StepBegins, StepReturns, StepRaises,
           NextStep, Package, Packaged, Published, PublishRaises, RecordFailed,
           RecordStopped, ClearStopped, RecordCancelled, ClearCancelled, RecordCrash,
           IsOver, Drains, DrainRaises, DrainTimesOut
  <1>4. CASE RecordRunning
    BY <1>2, <1>4 DEF RecordRunning, Before
  <1>5. ASSUME NEW c \in Cancellers, MarkCancelling(c)
        PROVE FALSE
    BY <1>5 DEF MarkCancelling
  <1>6. ASSUME NEW c \in Cancellers, LateWrite(c)
        PROVE Reopens(c)
    <2>1. disk' = late[c]
      BY <1>6 DEF LateWrite, Written
    <2> QED
      BY <1>6, <2>1 DEF Reopens
  <1>7. ASSUME NEW a \in Emitters, EmitWrite(a)
        PROVE a \in Cancellers /\ Reopens(a)
    <2>1. em[a].pc = "write" /\ em[a].event \in Events /\ disk' = StatusOf(em[a].event)
      BY <1>7 DEF EmitWrite, Written, Inductive, TypeOK, Events
    <2>2. em[a].event.state \notin Closing
      BY <2>1, StatusFacts
    <2>3. a # "wrapper"
      BY <2>1, <2>2 DEF Inductive, EmittersOk, Closing
    <2>4. a # "worker"
      BY <1>2, <2>1, <2>2
         DEF Inductive, EmittersOk, Emitting, EventAt, Before, Closing
    <2>5. a \in Cancellers
      BY <2>3, <2>4 DEF Emitters
    <2> QED
      BY <1>7, <2>1, <2>5 DEF Reopens, Inductive, EmittersOk
  <1> QED
    BY <1>3, <1>4, <1>5, <1>6, <1>7

(* What the run session_final finds has two causes and no third: a final   *)
(* status on disk is reopened only by the bus's write of a cancelling      *)
(* event, or by a live status whose write outlived its await.              *)
THEOREM OnlyCancelsReopen == Spec => ReopenedOnlyByCancels
  <1>1. Inductive /\ [Next]_vars =>
          [(disk \in Ended) /\ disk' \in Live => (\E c \in Cancellers : Reopens(c))]_vars
    BY ReopenStep
  <1> QED
    BY <1>1, InductiveHolds, PTL DEF Spec, ReopenedOnlyByCancels
-----------------------------------------------------------------------------
(* pipeline_completed sets the status of the snapshot unless it is taken   *)
(* for the end of the step the snapshot is at; so the last step must be    *)
(* over there before.                                                      *)
StepIsOver ==
  /\ worker.pc \in {"report", "completing"} /\ ~Emitted("worker") =>
       em["worker"].event.step = worker.step
  /\ worker.pc \in {"package", "drainPackage", "publish", "completing"} =>
       snap.step # worker.step
  /\ worker.pc = "report" /\ Emitted("worker") => snap.step # worker.step

(* Where the worker reports an end, and has reported it.                   *)
Reporting == {"completing", "failing", "stopping", "cancelled", "crashed"}
HasReported ==
  worker.pc = "clearStopped" \/
  (worker.pc \in Reporting /\ em["worker"].pc \notin {"exists", "apply"})
Reported == StepIsOver /\ (HasReported => snap.status \in Ended)

(* An event keeps the step it was emitted for.                             *)
LEMMA EmitsStep ==
  ASSUME em \in Ems, NEW a \in Emitters, NEW state, NEW step, Emits(a, state, step)
  PROVE em'[a].event.step = step /\ em'[a].pc = "exists"
  BY DEF Emits, Ems, Event

(* What the worker does between its emits.                                 *)
LEMMA WorkerReports ==
  ASSUME Inductive, Reported, WorkerStep
  PROVE Reported'
  <1>0. /\ em \in Ems /\ "worker" \in Emitters
        /\ worker \in [pc: WorkerSteps, step: Steps]
    BY DEF Inductive, TypeOK, Ems, Places, Events, Emitters
  <1> USE <1>0, GoesFacts, EmitsStep
      DEF Reported, StepIsOver, HasReported, Reporting, Emitted, WorkerSteps, bus
  <1>1. CASE Start
    BY <1>1 DEF Start, Goes
  <1>2. CASE RecordRunning
    BY <1>2 DEF RecordRunning, Goes
  <1>3. CASE StartupRaises
    BY <1>3 DEF StartupRaises, Goes
  <1>4. CASE StopsHere
    BY <1>4 DEF StopsHere, Goes
  <1>5. CASE GoesOn
    BY <1>5 DEF GoesOn, Goes
  <1>6. CASE StepBegins
    BY <1>6 DEF StepBegins, Goes
  <1>7. CASE StepReturns
    BY <1>7 DEF StepReturns, Goes
  <1>8. CASE StepRaises
    BY <1>8 DEF StepRaises, Goes
  <1>9. CASE NextStep
    BY <1>9 DEF NextStep, Goes
  <1>10. CASE Package
    BY <1>10 DEF Package, Goes
  <1>11. CASE Packaged
    BY <1>11 DEF Packaged, Goes
  <1>12. CASE Published
    BY <1>12 DEF Published, Goes
  <1>13. CASE PublishRaises
    BY <1>13 DEF PublishRaises, Goes
  <1>14. CASE RecordFailed
    BY <1>14 DEF RecordFailed, Goes
  <1>15. CASE RecordStopped
    BY <1>15 DEF RecordStopped, Goes
  <1>16. CASE ClearStopped
    BY <1>16 DEF ClearStopped, Goes
  <1>17. CASE RecordCancelled
    BY <1>17 DEF RecordCancelled, Goes
  <1>18. CASE ClearCancelled
    BY <1>18 DEF ClearCancelled, Goes
  <1>19. CASE RecordCrash
    BY <1>19 DEF RecordCrash, Goes
  <1>20. CASE IsOver
    BY <1>20 DEF IsOver, Goes
  <1>21. CASE Drains
    BY <1>21 DEF Drains, Goes
  <1>22. CASE DrainRaises
    BY <1>22 DEF DrainRaises, Goes
  <1>23. CASE DrainTimesOut
    BY <1>23 DEF DrainTimesOut, Goes
  <1> QED
    BY <1>1, <1>2, <1>3, <1>4, <1>5, <1>6, <1>7, <1>8, <1>9, <1>10, <1>11,
       <1>12, <1>13, <1>14, <1>15, <1>16, <1>17, <1>18, <1>19, <1>20, <1>21, <1>22, <1>23 DEF WorkerStep

(* A step of the worker's emit(): the snapshot takes the event over.       *)
LEMMA WorkerEmitReports ==
  ASSUME Inductive, Reported, EmitStep("worker")
  PROVE Reported'
  <1> DEFINE e == em["worker"].event
  <1>1. em \in Ems /\ "worker" \in Emitters /\ e \in Events
        /\ worker.step \in Steps /\ None \notin Steps
    BY SessionAssumption DEF Inductive, TypeOK, Ems, Places, Events, Emitters
  <1>2. worker' = worker /\ em'["worker"].event = e /\ em["worker"].pc # "none"
    BY <1>1, EmPcFacts
       DEF EmitStep, EmitExists, EmitApply, EmitDrop, EmitRead, EmitWrite, Places
  <1>3. worker.pc \in Emitting /\ e.state = EventAt(worker.pc)
    BY <1>2 DEF Inductive, EmittersOk
  <1>4. worker.pc \in {"report", "completing"} => e.step = worker.step
    BY <1>2 DEF Reported, StepIsOver, Emitted
  <1>5. CASE worker.pc \notin Reporting \cup {"report"}
    BY <1>2, <1>3, <1>5 DEF Reported, StepIsOver, HasReported, Reporting, Emitting
  <1>6. CASE worker.pc \in Reporting \cup {"report"}
    <2>1. disk # "gone" /\ ~deleted
      BY <1>6 DEF Inductive, Phases, Reporting
    <2>2. CASE EmitExists("worker")
      <3>1. em'["worker"].pc = "apply"
        BY <1>1, <2>1, <2>2, EmPcFacts DEF EmitExists, Places
      <3>2. snap' = snap
        BY <2>2 DEF EmitExists, bus
      <3> QED
        BY <1>2, <1>3, <1>4, <3>1, <3>2
           DEF Reported, StepIsOver, HasReported, Reporting, Emitted, Emitting
    <2>3. CASE EmitApply("worker")
      <3>1. snap' = Applied(e)
        BY <2>3 DEF EmitApply
      <3>2. worker.pc = "report" => snap'.step # worker.step
        BY <1>1, <1>3, <1>4, <3>1 DEF EventAt, Applied, Begins, EndsStep
      <3>3. worker.pc = "completing" =>
              snap'.step # worker.step /\ snap'.status = "completed"
        BY <1>1, <1>3, <1>4, <3>1
           DEF EventAt, Applied, Begins, EndsStep, SetsStatus, StatusOf,
               Reported, StepIsOver
      <3>4. worker.pc \in Reporting => snap'.status \in Ended
        BY <1>3, <3>1, <3>3
           DEF EventAt, Applied, SetsStatus, StatusOf, Reporting, Ended
      <3> QED
        BY <1>2, <1>3, <1>4, <3>2, <3>3, <3>4
           DEF Reported, StepIsOver, HasReported, Reporting, Emitted, Emitting
    <2>4. CASE EmitDrop("worker")
      BY <2>1, <2>4 DEF EmitDrop
    <2>5. CASE EmitRead("worker") \/ EmitWrite("worker")
      <3>1. snap' = snap /\ em["worker"].pc \in {"read", "write"}
        BY <2>5 DEF EmitRead, EmitWrite, bus
      <3>2. worker.pc # "report"
        BY <1>1, <1>3, <3>1 DEF Inductive, EmittersOk, EventAt
      <3> QED
        BY <1>2, <1>3, <1>4, <3>1, <3>2
           DEF Reported, StepIsOver, HasReported, Reporting, Emitted, Emitting
    <2> QED
      BY <2>2, <2>3, <2>4, <2>5 DEF EmitStep
  <1> QED
    BY <1>5, <1>6

(* task.cancel() takes the worker away from where it reports an end.       *)
LEMMA CancelReports ==
  ASSUME Inductive, Reported, NEW c \in Cancellers, CancelTask(c) \/ CancelQueued(c)
  PROVE Reported'
  <1> USE DEF Reported, StepIsOver, HasReported, Reporting
  <1>1. CASE CancelQueued(c)
    BY <1>1, GoesFacts DEF CancelQueued, Inductive, TypeOK, WorkerSteps
  <1>2. CASE CancelTask(c)
    <2>1. Interrupted(worker.pc) \in
            {"drainStep", "drainPackage", "over", "recordCancelled"}
      BY DEF Interrupted
    <2>2. worker'.pc = Interrupted(worker.pc) /\ worker'.step = worker.step
      BY <1>2, <2>1, GoesFacts DEF CancelTask, Inductive, TypeOK, WorkerSteps
    <2>3. snap' = snap
      BY <1>2 DEF CancelTask, bus
    <2>4. worker'.pc = "drainPackage" => worker.pc = "package"
      BY <2>2 DEF Interrupted, Handlers
    <2> QED
      BY <2>1, <2>2, <2>3, <2>4
  <1> QED
    BY <1>1, <1>2

(* Nobody else moves the worker, its emit() or the step of its snapshot,   *)
(* or reopens the snapshot.                                                *)
LEMMA OthersReport ==
  ASSUME Inductive, Reported, [Next]_vars,
         ~WorkerStep, ~EmitStep("worker"),
         \A c \in Cancellers : ~CancelTask(c) /\ ~CancelQueued(c)
  PROVE Reported' /\ worker' = worker
  <1>1. em \in Ems /\ "worker" \in Emitters
        /\ \A c \in Cancellers : c \in Emitters /\ c # "worker"
    BY Names DEF Inductive, TypeOK, Ems, Places, Events, Emitters
  <1>2. worker' = worker /\ em'["worker"] = em["worker"]
    <2>1. ASSUME NEW a \in Emitters, EmitStep(a)
          PROVE worker' = worker /\ em'["worker"] = em["worker"]
      BY <1>1, <2>1, EmPcFacts
         DEF EmitStep, EmitExists, EmitApply, EmitDrop, EmitRead, EmitWrite, Places
    <2>2. ASSUME NEW c \in Cancellers, MarkCancelling(c)
          PROVE worker' = worker /\ em'["worker"] = em["worker"]
      BY <1>1, <2>2 DEF MarkCancelling, Emits, Ems
    <2> QED
      BY <2>1, <2>2
         DEF Next, vars, bus, StalledReturns, CancelAccepted, CancellerStep,
             DropMarker, CancelIgnored, LateWrite, DeleteSession, CleanupSession,
             StreamChecks, StreamStep, StreamOpens, StreamStarts, StreamGets,
             StreamTimesOut
  <1>3. worker.pc # "over" => snap'.step = snap.step
    <2>1. ASSUME NEW a \in Emitters, EmitApply(a), worker.pc # "over"
          PROVE snap'.step = snap.step
      <3>1. a \in Cancellers
        BY <2>1 DEF EmitStep, EmitApply, Inductive, EmittersOk, Emitters
      <3>2. em[a].event.state = "cancelling"
        BY <2>1, <3>1 DEF EmitApply, Inductive, EmittersOk
      <3> QED
        BY <2>1, <3>2 DEF EmitApply, Applied, Begins, EndsStep
    <2>2. snap' = snap \/ \E a \in Emitters : EmitApply(a)
      BY DEF Next, vars, bus, EmitStep, EmitExists, EmitDrop, EmitRead, EmitWrite,
             StalledReturns, CancelAccepted, CancellerStep, DropMarker,
             MarkCancelling, CancelIgnored, LateWrite, DeleteSession,
             CleanupSession, StreamChecks, StreamStep, StreamOpens, StreamStarts,
             StreamGets, StreamTimesOut
    <2> QED
      BY <2>1, <2>2
  <1>4. snap.status \in Ended => snap'.status \in Ended
    BY SnapshotStep
  <1> QED
    BY <1>2, <1>3, <1>4 DEF Reported, StepIsOver, HasReported, Reporting, Emitted

(* Every step keeps it.                                                    *)
LEMMA ReportedStep ==
  ASSUME Inductive, Reported, [Next]_vars
  PROVE Reported'
  BY WorkerReports, WorkerEmitReports, CancelReports, OthersReport

(* The worker comes to its end from where it has reported one.             *)
LEMMA EndStep ==
  ASSUME Inductive, Reported, [Next]_vars, worker.pc # "over", worker'.pc = "over"
  PROVE \/ snap'.status \in Ended
        \/ \E c \in Cancellers : CancelTask(c) /\ worker.pc \in Handlers
        \/ \E c \in Cancellers : CancelQueued(c)
  <1>1. CASE WorkerStep
    <2>1. RecordFailed \/ ClearStopped \/ IsOver
      BY <1>1, GoesFacts
         DEF Inductive, TypeOK, WorkerSteps, WorkerStep, Start, RecordRunning,
             StartupRaises, StopsHere, GoesOn, StepBegins, StepReturns, StepRaises,
             NextStep, Package, Packaged, Published, PublishRaises, RecordStopped,
             RecordCancelled, ClearCancelled, RecordCrash, Drains, DrainRaises,
             DrainTimesOut
    <2>2. HasReported
      BY <2>1 DEF RecordFailed, ClearStopped, IsOver, HasReported, Reporting, Emitted
    <2> QED
      BY <2>2, SnapshotStep DEF Reported
  <1>2. ASSUME NEW c \in Cancellers, CancelTask(c)
        PROVE worker.pc \in Handlers
    <2>1. worker'.pc = Interrupted(worker.pc)
      BY <1>2, GoesFacts DEF CancelTask, Interrupted, Inductive, TypeOK, WorkerSteps
    <2> QED
      BY <2>1 DEF Interrupted
  <1>3. CASE EmitStep("worker")
    BY <1>3 DEF EmitStep, EmitExists, EmitApply, EmitDrop, EmitRead, EmitWrite
  <1> QED
    BY <1>1, <1>2, <1>3, OthersReport

(* The event bus learns of the end of every run and keeps it, for any      *)
(* number of tasks and of clients that cancel.                             *)
THEOREM EndsAreTold == Spec => SnapshotTellsEnd
  <1>1. Init => Reported
    BY DEF Init, Reported, StepIsOver, HasReported, Reporting
  <1>2. Inductive /\ Reported /\ [Next]_vars => Reported'
    BY ReportedStep
  <1>3. Inductive /\ Reported /\ [Next]_vars =>
          [/\ snap.status \in Ended => snap'.status \in Ended
           /\ worker.pc # "over" /\ worker'.pc = "over" =>
                \/ snap'.status \in Ended
                \/ \E c \in Cancellers : CancelTask(c) /\ worker.pc \in Handlers
                \/ \E c \in Cancellers : CancelQueued(c)]_vars
    BY EndStep, SnapshotStep
  <1> QED
    BY <1>1, <1>2, <1>3, InductiveHolds, PTL DEF Spec, SnapshotTellsEnd
=============================================================================
