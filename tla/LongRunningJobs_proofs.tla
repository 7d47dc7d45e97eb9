------------------------ MODULE LongRunningJobs_proofs ------------------------
(***************************************************************************)
(* Proofs about LongRunningJobs, for every number of jobs, readers, loaded *)
(* jobs, events, restarts and failed writes.                               *)
(***************************************************************************)
EXTENDS LongRunningJobs, SequenceTheorems, FiniteSetTheorems, TLAPS

JobStatus == Live \cup Terminal \cup {"absent"}
RowStatus == Live \cup Terminal
Threads == {"none", "started", "running", "raised", "dead", "cut", "gone"}
Blocks == [job: Jobs, section: Sections, write: {"event", "state"}, row: Rows]
Ending == {"finish", "handle"}  \* the sections that end a job

(* The type invariant, but for the reader and the bounds.                  *)
Typed ==
  /\ status \in [Jobs -> JobStatus]
  /\ events \in [Jobs -> Seq(Rows)]
  /\ cancelEvent \in SUBSET Jobs
  /\ thread \in [Jobs -> Threads]
  /\ disk \in [Jobs -> JobStatus]
  /\ log \in [Jobs -> Seq(Rows)]
  /\ block \in {NoBlock} \cup Blocks
  /\ crashes \in Nat
  /\ writeErrors \in Nat

(* The statuses, events and sections, spelled out.                         *)
LEMMA Names ==
  /\ Terminal = {"succeeded", "failed", "canceled", "blocked"}
  /\ Live = {"queued", "running", "cancel_requested"}
  /\ JobStatus = {"queued", "running", "cancel_requested", "succeeded", "failed", "canceled",
                  "blocked", "absent"}
  /\ RowStatus = {"queued", "running", "cancel_requested", "succeeded", "failed", "canceled",
                  "blocked"}
  /\ Events = {"queued", "started", "log", "cancel_requested", "completed", "failed",
               "canceled", "blocked"}
  /\ EventOf["succeeded"] = "completed" /\ EventOf["failed"] = "failed"
  /\ EventOf["canceled"] = "canceled" /\ EventOf["blocked"] = "blocked"
<1>1. /\ EventOf["succeeded"] = "completed" /\ EventOf["failed"] = "failed"
      /\ EventOf["canceled"] = "canceled" /\ EventOf["blocked"] = "blocked"
  BY DEF EventOf
<1>2. {EventOf[s] : s \in Terminal} = {"completed", "failed", "canceled", "blocked"}
  BY <1>1 DEF Terminal
<1>3. QED
  BY <1>1, <1>2 DEF Terminal, Live, JobStatus, RowStatus, Events

(* A section that may begin: what it sets and appends, and for which job.  *)
MayBegin(j, section, s, e) ==
  \/ section = "start" /\ Fresh(j) /\ s = "queued" /\ e = "queued"
  \/ section = "cancel" /\ status[j] \in Live /\ s = "cancel_requested"
       /\ e = "cancel_requested"
  \/ section = "run" /\ thread[j] = "started" /\ s = "running" /\ e = "started"
  \/ /\ section = "emit" /\ thread[j] \in {"running", "raised", "dead"}
     /\ status[j] # "absent" /\ s = status[j]
  \/ /\ section \in Ending /\ thread[j] \in {"running", "raised"}
     /\ s \in Terminal /\ e = EventOf[s] /\ (j \in cancelEvent => s = "canceled")

Begins(j, section, s, e) ==
  /\ Begin(j, section, s, e)
  /\ MayBegin(j, section, s, e)
  /\ thread' = thread
  /\ cancelEvent' = IF section = "cancel" THEN cancelEvent \cup {j} ELSE cancelEvent

(* An event of a job that has left the memory, which is loaded for it.      *)
Revives(j, e) == Emit(j, e) /\ status[j] = "absent"

Loads(js) ==
  /\ Unlocked
  /\ js \subseteq {j \in Jobs : status[j] = "absent" /\ disk[j] # "absent"}
  /\ Load(js)
  /\ UNCHANGED <<thread, block, bounds>>

Quiet == UNCHANGED <<memory, thread, files, block, bounds>>

(* An operation that gets a job loads it or leaves everything alone.       *)
LEMMA GetCases ==
  ASSUME NEW j \in Jobs, Get(j), UNCHANGED <<thread, block, bounds>>
  PROVE Loads({j}) \/ Quiet
  BY DEF Get, Loads, Quiet, Known

(* Whatever a reader does: a step writes, loads, begins a section, or is   *)
(* quiet.                                                                  *)
LEMMA NextCases ==
  ASSUME Typed, [Next]_vars,
         \A f \in Followers : reader[f].at = "following" => reader[f].job \in Jobs
  PROVE \/ \E j \in Jobs, section \in Sections, s \in RowStatus, e \in Events :
             Begins(j, section, s, e)
        \/ \E j \in Jobs, e \in Events : Revives(j, e)
        \/ AppendEvent \/ PersistState \/ WriteFails \/ Crash
        \/ \E js \in SUBSET Jobs : Loads(js)
        \/ Quiet
<1> DEFINE Some == \E j \in Jobs, section \in Sections, s \in RowStatus, e \in Events :
                    Begins(j, section, s, e)
<1>1. ASSUME NEW j \in Jobs, RunJob(j) PROVE Some
  <2>1. CASE Run(j)
    BY <2>1, Names DEF Run, Begins, MayBegin, Sections
  <2>2. CASE FinishCancelled(j)
    BY <2>2, Names DEF FinishCancelled, Begins, MayBegin, Sections, Ending
  <2>3. CASE Handle(j)
    BY <2>3, Names DEF Handle, Begins, MayBegin, Sections, Ending, CancelSeen
  <2>4. ASSUME NEW r \in Outcomes, Finish(j, r) PROVE Some
    <3> DEFINE s == IF CancelSeen(j) THEN "canceled" ELSE r
    <3>1. s \in Terminal /\ s \in RowStatus /\ EventOf[s] \in Events
      BY ManagerAssumption, Names
    <3>2. Begins(j, "finish", s, EventOf[s])
      BY <2>4, <3>1 DEF Finish, Begins, MayBegin, Ending, CancelSeen
    <3>3. QED
      BY <3>1, <3>2 DEF Sections
  <2>5. QED
    BY <1>1, <2>1, <2>2, <2>3, <2>4 DEF RunJob
<1>2. ASSUME NEW j \in Jobs, StartNew(j) \/ StartResumed(j) \/ Cancel(j)
      PROVE Some
  BY <1>2, Names DEF Typed, StartNew, StartResumed, Start, Cancel, Begins, MayBegin, Sections
<1>3. ASSUME NEW j \in Jobs, NEW e \in RunnerEvents, Emit(j, e)
      PROVE Some \/ Revives(j, e)
  <2>1. SUFFICES ASSUME status[j] # "absent" PROVE Some
    BY <1>3 DEF Revives
  <2>2. status[j] \in RowStatus /\ StatusOf(j) = status[j]
    BY <2>1, Names DEF Typed, StatusOf
  <2>3. status = [status EXCEPT ![j] = status[j]]
    BY DEF Typed
  <2>4. Begins(j, "emit", status[j], e)
    BY <1>3, <2>1, <2>2, <2>3 DEF Emit, Begins, Begin, MayBegin, files, bounds
  <2>5. QED
    BY <2>2, <2>4, ManagerAssumption DEF Sections
<1>4. ASSUME NEW j \in Jobs, Snapshot(j) \/ Resume(j) PROVE Loads({j}) \/ Quiet
  BY <1>4, GetCases DEF Snapshot, Resume
<1>5. ASSUME List PROVE \E js \in SUBSET Jobs : Loads(js)
  BY <1>5 DEF List, Loads
<1>6. ASSUME NEW f \in Followers, Batch(f) PROVE reader[f].job \in Jobs /\ (Loads({reader[f].job}) \/ Quiet)
  BY <1>6, GetCases DEF Batch
<1>7. ASSUME NEW f \in Followers, NEW j \in Jobs, Follow(f, j) PROVE Quiet
  BY <1>7 DEF Follow, Quiet
<1>8. ASSUME UNCHANGED vars PROVE Quiet
  BY <1>8 DEF vars, Quiet
<1>9. QED
  <2>1. \A j \in Jobs : {j} \in SUBSET Jobs
    OBVIOUS
  <2>2. RunnerEvents \subseteq Events
    BY ManagerAssumption
  <2>3. QED
    BY <1>1, <1>2, <1>3, <1>4, <1>5, <1>6, <1>7, <1>8, <2>1, <2>2 DEF Next, Writes
-----------------------------------------------------------------------------
(* What the beginning of a section does, and to whom.                      *)
LEMMA BeginFacts ==
  ASSUME Typed, NEW j \in Jobs, NEW section \in Sections, NEW s \in RowStatus,
         NEW e \in Events, Begins(j, section, s, e)
  PROVE /\ block = NoBlock
        /\ status' = [status EXCEPT ![j] = s] /\ status'[j] = s
        /\ Row(e, s) \in Rows /\ Row(e, s).event = e /\ Row(e, s).status = s
        /\ events' = [events EXCEPT ![j] = Append(events[j], Row(e, s))]
        /\ events'[j] = Append(events[j], Row(e, s))
        /\ \A i \in Jobs : i # j => status'[i] = status[i] /\ events'[i] = events[i]
        /\ block' \in Blocks
        /\ block'.job = j /\ block'.section = section /\ block'.write = "event"
        /\ block'.row = Row(e, s)
        /\ disk' = disk /\ log' = log /\ thread' = thread
        /\ crashes' = crashes /\ writeErrors' = writeErrors
        /\ cancelEvent' = IF section = "cancel" THEN cancelEvent \cup {j} ELSE cancelEvent
<1>1. /\ block = NoBlock
      /\ status' = [status EXCEPT ![j] = s]
      /\ events' = [events EXCEPT ![j] = Append(events[j], Row(e, s))]
      /\ block' = [job |-> j, section |-> section, write |-> "event", row |-> Row(e, s)]
      /\ disk' = disk /\ log' = log /\ thread' = thread
      /\ crashes' = crashes /\ writeErrors' = writeErrors
      /\ cancelEvent' = IF section = "cancel" THEN cancelEvent \cup {j} ELSE cancelEvent
  BY DEF Begins, Begin, Enter, Unlocked, files, bounds
<1>2. Row(e, s) \in Rows /\ Row(e, s).event = e /\ Row(e, s).status = s
  BY DEF Row, Rows, RowStatus
<1>3. /\ block' \in Blocks /\ block'.job = j /\ block'.section = section
      /\ block'.write = "event" /\ block'.row = Row(e, s)
  BY <1>1, <1>2 DEF Blocks
<1>4. QED
  BY <1>1, <1>2, <1>3 DEF Typed

(* An appended event is the last one.                                      *)
LEMMA AppendFacts ==
  ASSUME NEW s \in Seq(Rows), NEW e \in Rows
  PROVE /\ Append(s, e) \in Seq(Rows)
        /\ Len(Append(s, e)) = Len(s) + 1
        /\ Append(s, e)[Len(Append(s, e))] = e
        /\ \A n \in 1..Len(s) : Append(s, e)[n] = s[n]
        /\ Len(s) \in Nat
  BY AppendProperties, LenProperties

(* What an eviction leaves of a job: nothing, or everything.               *)
Left(i, s, e) ==
  \/ /\ status'[i] = "absent" /\ events'[i] = <<>> /\ i \notin cancelEvent'
     /\ s[i] \in Terminal /\ Over(i)
  \/ /\ status'[i] = s[i] /\ events'[i] = e[i]
     /\ i \in cancelEvent' <=> i \in cancelEvent

(* So it does, and the tables keep their types.                            *)
LEMMA EvictFacts ==
  ASSUME Typed, NEW s \in [Jobs -> JobStatus], NEW e \in [Jobs -> Seq(Rows)], Evict(s, e)
  PROVE /\ status' \in [Jobs -> JobStatus] /\ events' \in [Jobs -> Seq(Rows)]
        /\ cancelEvent' \in SUBSET Jobs
        /\ \A i \in Jobs : Left(i, s, e)
<1>1. PICK gone \in SUBSET {j \in Jobs : s[j] \in Terminal /\ Over(j)} :
        /\ status' = [j \in Jobs |-> IF j \in gone THEN "absent" ELSE s[j]]
        /\ events' = [j \in Jobs |-> IF j \in gone THEN <<>> ELSE e[j]]
        /\ cancelEvent' = cancelEvent \ gone
  BY DEF Evict
<1>2. <<>> \in Seq(Rows)
  OBVIOUS
<1>3. /\ \A i \in Jobs : status'[i] = IF i \in gone THEN "absent" ELSE s[i]
      /\ \A i \in Jobs : events'[i] = IF i \in gone THEN <<>> ELSE e[i]
      /\ \A i \in Jobs : i \in cancelEvent' <=> i \in cancelEvent /\ i \notin gone
      /\ \A i \in gone : s[i] \in Terminal /\ Over(i)
  BY <1>1
<1>4. \A i \in Jobs : Left(i, s, e)
  BY <1>3 DEF Left
<1>5. status' \in [Jobs -> JobStatus] /\ events' \in [Jobs -> Seq(Rows)]
  BY <1>1, <1>2, Names
<1>6. QED
  BY <1>1, <1>4, <1>5 DEF Typed

(* What loading some jobs does.                                            *)
AfterLoad(js) == [j \in Jobs |-> IF j \in js THEN Loaded(j) ELSE status[j]]
LogAfterLoad(js) == [j \in Jobs |-> IF j \in js THEN log[j] ELSE events[j]]

(* They are those that have a snapshot and are not in memory.              *)
LEMMA LoadFacts ==
  ASSUME Typed, NEW js \in SUBSET Jobs, Loads(js)
  PROVE /\ block = NoBlock /\ block' = block /\ thread' = thread /\ log' = log
        /\ crashes' = crashes /\ writeErrors' = writeErrors
        /\ \A i \in js : status[i] = "absent" /\ disk[i] # "absent" /\ Loaded(i) \in Terminal
        /\ disk' \in [Jobs -> JobStatus]
        /\ \A i \in Jobs : disk'[i] = IF i \in js THEN Loaded(i) ELSE disk[i]
        /\ status' \in [Jobs -> JobStatus] /\ events' \in [Jobs -> Seq(Rows)]
        /\ cancelEvent' \in SUBSET Jobs
        /\ \A i \in js : Left(i, [j \in js |-> Loaded(j)], log)
        /\ \A i \in Jobs \ js : Left(i, status, events)
<1>1. \A i \in Jobs : Loaded(i) \in Terminal /\ Loaded(i) \in JobStatus
  BY Names DEF Loaded
<1>2. AfterLoad(js) \in [Jobs -> JobStatus] /\ LogAfterLoad(js) \in [Jobs -> Seq(Rows)]
  BY <1>1 DEF Typed, AfterLoad, LogAfterLoad
<1>3. /\ Evict(AfterLoad(js), LogAfterLoad(js)) /\ log' = log
      /\ disk' = [j \in Jobs |-> IF j \in js THEN Loaded(j) ELSE disk[j]]
  BY DEF Loads, Load, AfterLoad, LogAfterLoad
<1>4. /\ \A i \in Jobs : Left(i, AfterLoad(js), LogAfterLoad(js))
      /\ status' \in [Jobs -> JobStatus] /\ events' \in [Jobs -> Seq(Rows)]
      /\ cancelEvent' \in SUBSET Jobs
  BY <1>2, <1>3, EvictFacts
<1>5. /\ \A i \in js : Left(i, [j \in js |-> Loaded(j)], log)
      /\ \A i \in Jobs \ js : Left(i, status, events)
  BY <1>4 DEF Left, AfterLoad, LogAfterLoad
<1>6. disk' \in [Jobs -> JobStatus]
  BY <1>1, <1>3 DEF Typed
<1>7. QED
  BY <1>1, <1>3, <1>4, <1>5, <1>6 DEF Loads, Unlocked, bounds

(* What emitting an event of a job that is not in memory does.             *)
LEMMA ReviveFacts ==
  ASSUME Typed, NEW j \in Jobs, NEW e \in Events, Revives(j, e)
  PROVE LET row == Row(e, Loaded(j)) IN
        /\ block = NoBlock /\ status[j] = "absent" /\ disk[j] # "absent"
        /\ thread[j] \in {"running", "raised", "dead"}
        /\ Loaded(j) \in Terminal /\ row \in Rows /\ row.status = Loaded(j)
        /\ block' \in Blocks /\ block'.job = j /\ block'.section = "emit"
        /\ block'.write = "event" /\ block'.row = row
        /\ disk' \in [Jobs -> JobStatus]
        /\ \A i \in Jobs : disk'[i] = IF i = j THEN Loaded(j) ELSE disk[i]
        /\ thread' = thread /\ log' = log
        /\ crashes' = crashes /\ writeErrors' = writeErrors
        /\ status' \in [Jobs -> JobStatus] /\ events' \in [Jobs -> Seq(Rows)]
        /\ cancelEvent' \in SUBSET Jobs
        /\ status'[j] \in {"absent", Loaded(j)}
        /\ status'[j] = "absent" => events'[j] = <<>>
        /\ status'[j] # "absent" => events'[j] = Append(log[j], row)
        /\ j \in cancelEvent' => j \in cancelEvent
        /\ \A i \in Jobs \ {j} : Left(i, status, events)
<1> DEFINE row == Row(e, Loaded(j))
           s == [status EXCEPT ![j] = Loaded(j)]
           ev == [events EXCEPT ![j] = Append(log[j], row)]
<1>1. status[j] = "absent" /\ StatusOf(j) = Loaded(j)
  BY DEF Revives, StatusOf
<1>2. Loaded(j) \in Terminal /\ Loaded(j) \in JobStatus /\ "absent" \notin Terminal
  BY Names DEF Loaded
<1>3. row \in Rows /\ row.status = Loaded(j)
  BY <1>2 DEF Row, Rows
<1>4. /\ Evict(s, ev) /\ disk' = [disk EXCEPT ![j] = Loaded(j)]
      /\ block = NoBlock /\ thread[j] \in {"running", "raised", "dead"}
      /\ disk[j] # "absent"
      /\ block' = [job |-> j, section |-> "emit", write |-> "event", row |-> row]
      /\ thread' = thread /\ log' = log /\ crashes' = crashes /\ writeErrors' = writeErrors
  BY <1>1 DEF Revives, Emit, Enter, Unlocked, Known, bounds
<1>5. s \in [Jobs -> JobStatus] /\ ev \in [Jobs -> Seq(Rows)]
  BY <1>2, <1>3, AppendFacts DEF Typed
<1>6. /\ s[j] = Loaded(j) /\ ev[j] = Append(log[j], row)
      /\ \A i \in Jobs \ {j} : s[i] = status[i] /\ ev[i] = events[i]
  BY DEF Typed
<1>7. /\ block' \in Blocks /\ block'.job = j /\ block'.section = "emit"
      /\ block'.write = "event" /\ block'.row = row
  BY <1>3, <1>4 DEF Blocks, Sections
<1>8. disk' \in [Jobs -> JobStatus] /\ \A i \in Jobs : disk'[i] = IF i = j THEN Loaded(j) ELSE disk[i]
  BY <1>2, <1>4 DEF Typed
<1> HIDE DEF s, ev
<1>9. /\ status' \in [Jobs -> JobStatus] /\ events' \in [Jobs -> Seq(Rows)]
      /\ cancelEvent' \in SUBSET Jobs
      /\ \A i \in Jobs : Left(i, s, ev)
  BY <1>4, <1>5, EvictFacts
<1>10. \A i \in Jobs \ {j} : Left(i, status, events)
  BY <1>6, <1>9 DEF Left
<1>11. /\ status'[j] \in {"absent", Loaded(j)}
       /\ status'[j] = "absent" => events'[j] = <<>>
       /\ status'[j] # "absent" => events'[j] = Append(log[j], row)
       /\ j \in cancelEvent' => j \in cancelEvent
  BY <1>2, <1>6, <1>9 DEF Left
<1>12. QED
  BY <1>1, <1>2, <1>3, <1>4, <1>7, <1>8, <1>9, <1>10, <1>11

(* What the end of a section does.                                         *)
LEMMA PersistFacts ==
  ASSUME Typed, PersistState
  PROVE /\ block \in Blocks /\ block.write = "state" /\ block' = NoBlock /\ log' = log
        /\ crashes' = crashes /\ writeErrors' = writeErrors
        /\ disk' \in [Jobs -> JobStatus]
        /\ \A i \in Jobs : disk'[i] =
             IF i = block.job /\ status[i] # "absent" THEN status[i] ELSE disk[i]
        /\ thread' \in [Jobs -> Threads]
        /\ \A i \in Jobs : i # block.job => thread'[i] = thread[i]
        /\ block.section = "start" => thread'[block.job] = "started"
        /\ block.section = "run" => thread'[block.job] = "running"
        /\ block.section \in Ending => thread'[block.job] = "dead"
        /\ block.section \in {"emit", "cancel"} => thread'[block.job] = thread[block.job]
        /\ block.section \notin Ending => UNCHANGED memory
        /\ status' \in [Jobs -> JobStatus] /\ events' \in [Jobs -> Seq(Rows)]
        /\ cancelEvent' \in SUBSET Jobs
        /\ \A i \in Jobs : Left(i, status, events)
<1>1. block \in Blocks /\ block.write = "state" /\ block' = NoBlock /\ log' = log
  BY DEF Typed, PersistState, NoBlock, files
<1>2. block.job \in Jobs /\ block.section \in Sections
  BY <1>1 DEF Blocks
<1> DEFINE t == CASE block.section = "start" -> "started"
                  [] block.section = "run" -> "running"
                  [] block.section \in {"finish", "handle"} -> "dead"
                  [] OTHER -> thread[block.job]
<1>3. thread' = [thread EXCEPT ![block.job] = t]
  BY DEF PersistState
<1>4. /\ block.section = "start" => t = "started"
      /\ block.section = "run" => t = "running"
      /\ block.section \in Ending => t = "dead"
      /\ block.section \in {"emit", "cancel"} => t = thread[block.job]
      /\ t \in Threads
  BY <1>2 DEF Ending, Sections, Threads, Typed
<1> HIDE DEF t
<1>5. /\ thread' \in [Jobs -> Threads] /\ thread'[block.job] = t
      /\ \A i \in Jobs : i # block.job => thread'[i] = thread[i]
  BY <1>2, <1>3, <1>4 DEF Typed
<1>6. /\ disk' \in [Jobs -> JobStatus]
      /\ \A i \in Jobs : disk'[i] =
           IF i = block.job /\ status[i] # "absent" THEN status[i] ELSE disk[i]
      /\ crashes' = crashes /\ writeErrors' = writeErrors
  BY <1>2 DEF PersistState, bounds, Typed
<1>7. CASE block.section \in Ending
  <2>1. Evict(status, events)
    BY <1>7 DEF PersistState, Ending
  <2>2. /\ status' \in [Jobs -> JobStatus] /\ events' \in [Jobs -> Seq(Rows)]
        /\ cancelEvent' \in SUBSET Jobs
        /\ \A i \in Jobs : Left(i, status, events)
    BY <2>1, EvictFacts DEF Typed
  <2>3. QED
    BY <1>1, <1>4, <1>5, <1>6, <1>7, <2>2
<1>8. CASE block.section \notin Ending
  <2>1. UNCHANGED memory
    BY <1>8 DEF PersistState, Ending
  <2>2. \A i \in Jobs : Left(i, status, events)
    BY <2>1 DEF Left, memory
  <2>3. QED
    BY <1>1, <1>4, <1>5, <1>6, <1>8, <2>1, <2>2 DEF Typed, memory
<1>9. QED
  BY <1>7, <1>8
-----------------------------------------------------------------------------
(***************************************************************************)
(* The inductive invariant                                                 *)
(***************************************************************************)
Last(s) == s[Len(s)]

(* A job that is not in memory has nobody who works on it, but for one who *)
(* emits what its runner left behind.                                      *)
Base(i) ==
  status[i] = "absent" =>
    /\ Over(i) /\ i \notin cancelEvent /\ events[i] = <<>>
    /\ block.job = i => block.section = "emit"

Writing(i) == block.job = i /\ block.write = "event"

(* What is in memory is on disk, but for the section that is writing; a    *)
(* snapshot of a job that was going on is left behind only by a crash.     *)
InLine(i) ==
  /\ status[i] # "absent" =>
       events[i] = IF Writing(i) THEN Append(log[i], block.row) ELSE log[i]
  /\ status[i] # "absent" /\ block.job # i => disk[i] = status[i]
  /\ status[i] = "absent" /\ disk[i] \in Live => thread[i] = "cut"

(* An event tells the status of the snapshot; any other section is one of  *)
(* a job that has not ended, and tells the status it will save.            *)
InSection(i) ==
  block.job = i =>
    /\ thread[i] \in {"none", "started", "running", "dead"}
    /\ thread[i] = "none" => block.section = "start"
    /\ block.write = "state" => Len(log[i]) > 0 /\ Last(log[i]) = block.row
    /\ IF block.section = "emit"
       THEN /\ disk[i] # "absent" /\ block.row.status = disk[i]
            /\ status[i] \in {"absent", disk[i]}
            /\ thread[i] \in {"running", "dead"}
       ELSE /\ disk[i] \notin Terminal /\ thread[i] # "dead"
            /\ status[i] # "absent" /\ block.row.status = status[i]
            /\ IF block.section \in Ending
               THEN /\ status[i] \in Terminal /\ thread[i] = "running"
                    /\ block.row.event = EventOf[status[i]]
               ELSE status[i] \notin Terminal

ThreadOk(i) ==
  /\ disk[i] # "absent" => thread[i] # "none"
  /\ thread[i] # "raised"
  /\ disk[i] \in Live => thread[i] \in {"started", "running", "cut"}
  /\ thread[i] = "cut" => status[i] \in Terminal \cup {"absent"}
  /\ status[i] \in Terminal =>
       \/ thread[i] \in {"dead", "cut", "gone"}
       \/ block.job = i /\ block.section \in Ending

(* The log before its end has been saved, and after.                       *)
EndWritten(i) == block.job = i /\ block.section \in Ending /\ block.write = "state"

Chain(s) ==
  /\ \A n \in 1..Len(s) : s[n].status \in Terminal =>
       IF n > 1 /\ s[n - 1].status \in Terminal
       THEN s[n].status = s[n - 1].status
       ELSE s[n].event = EventOf[s[n].status]
  /\ \A n \in 1..(Len(s) - 1) : s[n].status \in Terminal => s[n + 1].status \in Terminal

LogOk(i) ==
  /\ Chain(log[i])
  /\ disk[i] # "absent" => Len(log[i]) > 0
  /\ disk[i] \in Terminal =>
       \/ Last(log[i]).status = disk[i]
       \/ disk[i] = "failed" /\ thread[i] = "cut"
  /\ Len(log[i]) > 0 /\ Last(log[i]).status \in Terminal =>
       disk[i] \in Terminal \/ thread[i] = "cut" \/ EndWritten(i)

Sound(i) == InLine(i) /\ InSection(i) /\ ThreadOk(i) /\ LogOk(i)

(* Where a reader is, and what it has had.                                 *)
Reading(f) ==
  /\ reader[f] \in [job: Jobs \cup {None}, next: Nat, at: {"idle", "following", "cut", "end"}]
  /\ IF reader[f].at = "idle" THEN reader[f].job = None /\ reader[f].next = 0
     ELSE reader[f].job \in Jobs

Had(f) ==
  reader[f].job # None =>
    /\ reader[f].next <= Len(log[reader[f].job])
    /\ reader[f].at = "end" =>
         /\ disk[reader[f].job] \in Terminal
         /\ reader[f].next < Len(log[reader[f].job]) =>
              /\ reader[f].next > 0
              /\ log[reader[f].job][reader[f].next].status \in Terminal

Inductive ==
  /\ Typed
  /\ \A i \in Jobs : Base(i)
  /\ CancelIsKept
  /\ reader \in [Followers -> [job: Jobs \cup {None}, next: Nat,
                               at: {"idle", "following", "cut", "end"}]]
  /\ \A f \in Followers : Reading(f)
  /\ WritesSucceed => (\A i \in Jobs : Sound(i)) /\ \A f \in Followers : Had(f)

(* The job of a section is not None.                                       *)
LEMMA BlockCases ==
  ASSUME Typed
  PROVE /\ block = NoBlock => \A i \in Jobs : block.job # i
        /\ block # NoBlock => /\ block.job \in Jobs /\ block.section \in Sections
                              /\ block.write \in {"event", "state"} /\ block \in Blocks
        /\ block.write \in {"event", "state"} => block # NoBlock
  BY ManagerAssumption DEF Typed, Blocks, NoBlock
-----------------------------------------------------------------------------
(* What a section appends to the log.                                      *)
LEMMA AppendEventFacts ==
  ASSUME Typed, AppendEvent
  PROVE /\ block \in Blocks /\ block.write = "event" /\ block.job \in Jobs
        /\ block.row \in Rows
        /\ log' \in [Jobs -> Seq(Rows)]
        /\ log'[block.job] = Append(log[block.job], block.row)
        /\ \A i \in Jobs : i # block.job => log'[i] = log[i]
        /\ block' \in Blocks /\ block'.job = block.job /\ block'.section = block.section
        /\ block'.row = block.row /\ block'.write = "state"
        /\ UNCHANGED <<memory, thread, disk, reader, bounds>>
<1>1. block \in Blocks /\ block.write = "event" /\ block.job \in Jobs
  BY BlockCases DEF AppendEvent
<1>2. block.row \in Rows
  BY <1>1 DEF Blocks
<1>3. Append(log[block.job], block.row) \in Seq(Rows)
  BY <1>1, <1>2, AppendFacts DEF Typed
<1>4. /\ log' \in [Jobs -> Seq(Rows)]
      /\ log'[block.job] = Append(log[block.job], block.row)
      /\ \A i \in Jobs : i # block.job => log'[i] = log[i]
  BY <1>1, <1>3 DEF AppendEvent, Typed
<1>5. block' = [block EXCEPT !.write = "state"]
  BY DEF AppendEvent
<1>6. block' \in Blocks /\ block'.job = block.job /\ block'.section = block.section
      /\ block'.row = block.row /\ block'.write = "state"
  BY <1>1, <1>5 DEF Blocks
<1>7. QED
  BY <1>1, <1>2, <1>4, <1>6 DEF AppendEvent

(* What a failed write does.                                               *)
LEMMA WriteFailsFacts ==
  ASSUME Typed, WriteFails
  PROVE /\ block \in Blocks /\ block.job \in Jobs /\ block' = NoBlock
        /\ thread' \in [Jobs -> Threads]
        /\ \A i \in Jobs : i # block.job => thread'[i] = thread[i]
        /\ block.section = "emit" /\ thread[block.job] # "running" => thread' = thread
        /\ UNCHANGED <<memory, files, reader, crashes>> /\ writeErrors' = writeErrors + 1
<1>1. block \in Blocks /\ block.job \in Jobs /\ block' = NoBlock
  BY BlockCases DEF WriteFails, Unlocked
<1>2. \E t \in Threads : thread' = [thread EXCEPT ![block.job] = t]
  BY <1>1 DEF WriteFails, Threads, Typed
<1>3. block.section = "emit" /\ thread[block.job] # "running" => thread' = thread
  BY <1>1 DEF WriteFails, Typed
<1>4. QED
  BY <1>1, <1>2, <1>3 DEF WriteFails, Typed

(* What a crash does.                                                      *)
LEMMA CrashFacts ==
  ASSUME Typed, Crash
  PROVE /\ status' \in [Jobs -> JobStatus] /\ \A i \in Jobs : status'[i] = "absent"
        /\ events' \in [Jobs -> Seq(Rows)] /\ cancelEvent' = {}
        /\ \A i \in Jobs : events'[i] = <<>>
        /\ thread' \in [Jobs -> Threads]
        /\ \A i \in Jobs : thread'[i] =
             IF thread[i] \in {"started", "running", "raised"} THEN "cut"
             ELSE IF thread[i] = "dead" THEN "gone" ELSE thread[i]
        /\ block' = NoBlock /\ disk' = disk /\ log' = log
        /\ crashes' = crashes + 1 /\ writeErrors' = writeErrors
<1>1. <<>> \in Seq(Rows)
  OBVIOUS
<1>2. events' \in [Jobs -> Seq(Rows)]
  BY <1>1 DEF Crash
<1>3. \A i \in Jobs : thread'[i] =
             IF thread[i] \in {"started", "running", "raised"} THEN "cut"
             ELSE IF thread[i] = "dead" THEN "gone" ELSE thread[i]
  BY DEF Crash
<1>4. thread' \in [Jobs -> Threads]
  BY <1>3 DEF Crash, Typed, Threads
<1>5. QED
  BY <1>2, <1>3, <1>4, Names DEF Crash, files

(* The tables keep their types.                                            *)
LEMMA TypedStep ==
  ASSUME Inductive, [Next]_vars
  PROVE Typed'
<1>1. Typed /\ (\A i \in Jobs : Base(i)) /\ \A f \in Followers : Reading(f)
  BY DEF Inductive
<1>2. ASSUME NEW j \in Jobs, NEW section \in Sections, NEW s \in RowStatus, NEW e \in Events,
             Begins(j, section, s, e)
      PROVE Typed'
  <2>1. Append(events[j], Row(e, s)) \in Seq(Rows) /\ s \in JobStatus
    BY <1>1, <1>2, BeginFacts, AppendFacts DEF Typed, RowStatus, JobStatus
  <2>2. /\ status' = [status EXCEPT ![j] = s]
        /\ events' = [events EXCEPT ![j] = Append(events[j], Row(e, s))]
        /\ block' \in Blocks /\ disk' = disk /\ log' = log /\ thread' = thread
        /\ crashes' = crashes /\ writeErrors' = writeErrors
        /\ cancelEvent' \subseteq cancelEvent \cup {j}
    BY <1>1, <1>2, BeginFacts
  <2>3. events' \in [Jobs -> Seq(Rows)] /\ status' \in [Jobs -> JobStatus]
    BY <1>1, <2>1, <2>2 DEF Typed
  <2>4. QED
    BY <1>1, <2>2, <2>3 DEF Typed
<1>3. ASSUME NEW j \in Jobs, NEW e \in Events, Revives(j, e) PROVE Typed'
  BY <1>1, <1>3, ReviveFacts DEF Typed
<1>4. ASSUME AppendEvent PROVE Typed'
  BY <1>1, <1>4, AppendEventFacts DEF Typed, memory, bounds
<1>5. ASSUME PersistState PROVE Typed'
  BY <1>1, <1>5, PersistFacts DEF Typed
<1>6. ASSUME WriteFails PROVE Typed'
  BY <1>1, <1>6, WriteFailsFacts DEF Typed, memory, files
<1>7. ASSUME Crash PROVE Typed'
  BY <1>1, <1>7, CrashFacts DEF Typed
<1>8. ASSUME NEW js \in SUBSET Jobs, Loads(js) PROVE Typed'
  BY <1>1, <1>8, LoadFacts DEF Typed
<1>9. ASSUME Quiet PROVE Typed'
  BY <1>1, <1>9 DEF Typed, Quiet, memory, files, bounds
<1>10. QED
  BY <1>1, <1>2, <1>3, <1>4, <1>5, <1>6, <1>7, <1>8, <1>9, NextCases DEF Reading

(* Only jobs without a thread leave the memory, and nobody keeps a         *)
(* cancellation of them.                                                   *)
LEMMA BaseStep ==
  ASSUME Inductive, [Next]_vars, NEW i \in Jobs
  PROVE Base(i)'
<1>1. Typed /\ (\A j \in Jobs : Base(j)) /\ Base(i) /\ \A f \in Followers : Reading(f)
  BY DEF Inductive
<1>2. block = NoBlock => block.job # i
  BY <1>1, BlockCases
<1>3. block' = NoBlock => block'.job # i
  BY ManagerAssumption DEF NoBlock
<1>4. ASSUME NEW j \in Jobs, NEW section \in Sections, NEW s \in RowStatus, NEW e \in Events,
             Begins(j, section, s, e)
      PROVE Base(i)'
  <2>1. /\ block = NoBlock /\ block'.job = j /\ thread' = thread /\ status'[j] = s
        /\ i # j => status'[i] = status[i] /\ events'[i] = events[i]
        /\ cancelEvent' \subseteq cancelEvent \cup {j}
    BY <1>1, <1>4, BeginFacts
  <2>2. s # "absent"
    BY Names
  <2>3. QED
    BY <1>1, <1>2, <2>1, <2>2 DEF Base, Over
<1>5. ASSUME NEW j \in Jobs, NEW e \in Events, Revives(j, e) PROVE Base(i)'
  <2>1. /\ status[j] = "absent" /\ thread' = thread
        /\ block'.job = j /\ block'.section = "emit"
        /\ status'[j] = "absent" => events'[j] = <<>>
        /\ j \in cancelEvent' => j \in cancelEvent
        /\ i # j => Left(i, status, events)
    BY <1>1, <1>5, ReviveFacts
  <2>2. CASE i = j
    BY <1>1, <2>1, <2>2 DEF Base, Over
  <2>3. CASE i # j
    BY <1>1, <2>1, <2>3, Names DEF Base, Left, Over
  <2>4. QED
    BY <2>2, <2>3
<1>6. ASSUME AppendEvent PROVE Base(i)'
  BY <1>1, <1>6, AppendEventFacts DEF Base, Over, memory
<1>7. ASSUME PersistState PROVE Base(i)'
  <2>1. /\ block \in Blocks /\ block.job \in Jobs /\ block' = NoBlock
        /\ block.section \in Sections
        /\ Left(i, status, events)
        /\ i # block.job => thread'[i] = thread[i]
    BY <1>1, <1>7, PersistFacts, BlockCases DEF Blocks
  <2>2. CASE i # block.job
    BY <1>1, <1>3, <2>1, <2>2, Names DEF Base, Left, Over
  <2>3. CASE i = block.job
    <3>1. CASE block.section \in Ending
      <4>1. thread'[i] = "dead"
        BY <1>1, <1>7, <2>3, <3>1, PersistFacts
      <4>2. QED
        BY <1>1, <1>3, <2>1, <2>3, <4>1, Names DEF Base, Left, Over
    <3>2. CASE block.section \notin Ending
      <4>1. UNCHANGED memory /\ (block.section = "emit" => thread'[i] = thread[i])
        BY <1>1, <1>7, <2>3, <3>2, PersistFacts
      <4>2. QED
        BY <1>1, <1>3, <2>1, <2>3, <4>1 DEF Base, Over, memory
    <3>3. QED
      BY <3>1, <3>2
  <2>4. QED
    BY <2>2, <2>3
<1>8. ASSUME WriteFails PROVE Base(i)'
  <2>1. /\ block' = NoBlock /\ UNCHANGED memory
        /\ i # block.job => thread'[i] = thread[i]
        /\ block.section = "emit" /\ thread[block.job] # "running" => thread' = thread
    BY <1>1, <1>8, WriteFailsFacts
  <2>2. QED
    BY <1>1, <1>3, <2>1 DEF Base, Over, memory
<1>9. ASSUME Crash PROVE Base(i)'
  <2>1. thread[i] \in Threads
    BY <1>1 DEF Typed
  <2>2. QED
    BY <1>1, <1>3, <1>9, <2>1, CrashFacts DEF Base, Over, Threads
<1>10. ASSUME NEW js \in SUBSET Jobs, Loads(js) PROVE Base(i)'
  <2>1. /\ block = NoBlock /\ block' = block /\ thread' = thread
        /\ i \in js => status[i] = "absent" /\ Loaded(i) \in Terminal
                       /\ Left(i, [j \in js |-> Loaded(j)], log)
        /\ i \notin js => Left(i, status, events)
    BY <1>1, <1>10, LoadFacts
  <2>2. QED
    BY <1>1, <1>2, <2>1, Names DEF Base, Left, Over
<1>11. ASSUME Quiet PROVE Base(i)'
  BY <1>1, <1>11 DEF Base, Over, Quiet, memory
<1>12. QED
  BY <1>1, <1>4, <1>5, <1>6, <1>7, <1>8, <1>9, <1>10, <1>11, NextCases DEF Reading

(* A cancellation that was accepted is in the result.                      *)
LEMMA CancelStep ==
  ASSUME Inductive, [Next]_vars, NEW i \in Jobs, i \in cancelEvent', status'[i] \in Terminal
  PROVE status'[i] = "canceled"
<1>1. /\ Typed /\ (\A j \in Jobs : Base(j)) /\ Base(i) /\ (\A f \in Followers : Reading(f))
      /\ i \in cancelEvent => (status[i] \in Terminal => status[i] = "canceled")
  BY DEF Inductive, CancelIsKept
<1>2. ASSUME NEW j \in Jobs, NEW section \in Sections, NEW s \in RowStatus, NEW e \in Events,
             Begins(j, section, s, e)
      PROVE status'[i] = "canceled"
  <2>1. /\ status'[j] = s
        /\ i # j => status'[i] = status[i]
        /\ cancelEvent' = IF section = "cancel" THEN cancelEvent \cup {j} ELSE cancelEvent
    BY <1>1, <1>2, BeginFacts
  <2>2. CASE i = j
    BY <1>1, <1>2, <2>1, <2>2, Names DEF Begins, MayBegin, Ending
  <2>3. CASE i # j
    BY <1>1, <2>1, <2>3
  <2>4. QED
    BY <2>2, <2>3
<1>3. ASSUME NEW j \in Jobs, NEW e \in Events, Revives(j, e) PROVE status'[i] = "canceled"
  <2>1. /\ status[j] = "absent" /\ (j \in cancelEvent' => j \in cancelEvent)
        /\ i # j => Left(i, status, events)
    BY <1>1, <1>3, ReviveFacts
  <2>2. QED
    BY <1>1, <2>1, Names DEF Base, Left
<1>4. ASSUME AppendEvent \/ WriteFails \/ Quiet PROVE status' = status /\ cancelEvent' = cancelEvent
  BY <1>4 DEF AppendEvent, WriteFails, Quiet, memory
<1>5. ASSUME PersistState PROVE status'[i] = "canceled"
  <2>1. Left(i, status, events)
    BY <1>1, <1>5, PersistFacts
  <2>2. QED
    BY <1>1, <2>1 DEF Left
<1>6. ASSUME Crash PROVE FALSE
  BY <1>1, <1>6, CrashFacts
<1>7. ASSUME NEW js \in SUBSET Jobs, Loads(js) PROVE status'[i] = "canceled"
  <2>1. /\ i \in js => status[i] = "absent" /\ Left(i, [j \in js |-> Loaded(j)], log)
        /\ i \notin js => Left(i, status, events)
    BY <1>1, <1>7, LoadFacts
  <2>2. QED
    BY <1>1, <2>1, Names DEF Left, Base
<1>8. QED
  BY <1>1, <1>2, <1>3, <1>4, <1>5, <1>6, <1>7, NextCases DEF Reading
-----------------------------------------------------------------------------
(***************************************************************************)
(* As long as no write fails: what is in memory, the snapshot, the log and *)
(* the thread of one job i, for each kind of step.                         *)
(***************************************************************************)

(* The beginning of a section.                                             *)
LEMMA SoundBegins ==
  ASSUME Inductive, \A j \in Jobs : Sound(j), NEW i \in Jobs,
         NEW j \in Jobs, NEW section \in Sections, NEW s \in RowStatus, NEW e \in Events,
         Begins(j, section, s, e)
  PROVE Sound(i)'
<1>1. Typed /\ Base(i) /\ Sound(i)
  BY DEF Inductive
<1>2. /\ block = NoBlock /\ block'.job = j /\ block'.section = section
      /\ block'.write = "event" /\ block'.row = Row(e, s)
      /\ Row(e, s).event = e /\ Row(e, s).status = s
      /\ disk' = disk /\ log' = log /\ thread' = thread
      /\ status'[j] = s /\ events'[j] = Append(events[j], Row(e, s))
      /\ i # j => status'[i] = status[i] /\ events'[i] = events[i]
  BY <1>1, BeginFacts
<1>3. block.job # i /\ ~Writing(i) /\ ~EndWritten(i) /\ ~EndWritten(i)'
  BY <1>1, <1>2, BlockCases DEF Writing, EndWritten
<1>4. LogOk(i)'
  BY <1>1, <1>2, <1>3 DEF Sound, LogOk
<1>5. CASE i # j
  BY <1>1, <1>2, <1>3, <1>4, <1>5 DEF Sound, InLine, InSection, ThreadOk, Writing
<1>6. CASE i = j
  <2>1. /\ s # "absent" /\ s \in Terminal \cup Live /\ thread[i] \in Threads
        /\ disk[i] \in JobStatus
    BY <1>1, Names DEF Typed
  <2>2. section = "start" => /\ log[i] = <<>> /\ thread[i] = "none"
                             /\ disk[i] = "absent" /\ status[i] = "absent" /\ s = "queued"
    BY <1>6, Names DEF Begins, MayBegin, Fresh, Known, Ending
  <2>3. section # "start" => status[i] # "absent"
    BY <1>1, <1>6, Names DEF Begins, MayBegin, Base, Over, Ending
  <2>4. section # "start" => disk[i] = status[i] /\ thread[i] # "none"
    BY <1>1, <1>3, <2>3 DEF Sound, InLine, ThreadOk
  <2>5. section \notin {"start", "emit"} => status[i] \notin Terminal
    BY <1>1, <1>3, <1>6, Names DEF Begins, MayBegin, Sound, ThreadOk, Ending
  <2>6. events[i] = log[i]
    BY <1>1, <1>3, <2>2, <2>3 DEF Sound, InLine, Base
  <2>7. InLine(i)'
    BY <1>2, <1>6, <2>1, <2>6 DEF InLine, Writing
  <2>8. ThreadOk(i)'
    <3>1. s \in Terminal => section \in Ending \/ s = status[i]
      BY <1>6, Names DEF Begins, MayBegin, Ending
    <3>2. thread[i] # "cut" \/ s \in Terminal
      BY <1>1, <1>6, <2>2, <2>3, <2>4, <2>5, Names DEF Begins, MayBegin, Sound, ThreadOk, Ending
    <3>3. QED
      BY <1>1, <1>2, <1>3, <1>6, <3>1, <3>2 DEF Sound, ThreadOk
  <2>9. InSection(i)'
    <3>1. /\ thread[i] \in {"none", "started", "running", "dead"}
          /\ thread[i] = "none" => section = "start"
      <4>1. section = "cancel" => thread[i] \in {"started", "running"}
        BY <1>1, <1>6, <2>4, Names DEF Begins, MayBegin, Sound, ThreadOk, Ending
      <4>2. QED
        BY <1>1, <1>6, <2>2, <2>4, <4>1 DEF Begins, MayBegin, Sound, ThreadOk, Ending, Sections
    <3>2. section = "emit" => /\ disk[i] # "absent" /\ s = disk[i]
                              /\ thread[i] \in {"running", "dead"}
      BY <1>1, <1>6, <2>3, <2>4, Names DEF Begins, MayBegin, Sound, ThreadOk, Ending
    <3>3. section # "emit" => disk[i] \notin Terminal /\ thread[i] # "dead"
      <4>1. CASE section = "start"
        BY <2>2, <4>1, Names
      <4>2. CASE section \notin {"start", "emit"}
        <5>1. disk[i] \in Live
          BY <2>1, <2>3, <2>4, <2>5, <4>2, Names
        <5>2. QED
          BY <1>1, <5>1, Names DEF Sound, ThreadOk
      <4>3. QED
        BY <4>1, <4>2
    <3>4. section \in Ending => s \in Terminal /\ thread[i] = "running" /\ e = EventOf[s]
      BY <1>1, <1>6 DEF Begins, MayBegin, Sound, ThreadOk, Ending
    <3>5. section # "emit" /\ section \notin Ending => s \notin Terminal
      BY <1>6, Names DEF Begins, MayBegin
    <3>6. QED
      BY <1>2, <1>6, <2>1, <3>1, <3>2, <3>3, <3>4, <3>5 DEF InSection
  <2>10. QED
    BY <1>4, <2>7, <2>8, <2>9 DEF Sound
<1>7. QED
  BY <1>5, <1>6

(* An event of a job that is not in memory: it is loaded, as after a       *)
(* restart, and may leave again.                                           *)
LEMMA SoundRevives ==
  ASSUME Inductive, \A j \in Jobs : Sound(j), NEW i \in Jobs,
         NEW j \in Jobs, NEW e \in Events, Revives(j, e)
  PROVE Sound(i)'
<1>1. Typed /\ Base(i) /\ Sound(i)
  BY DEF Inductive
<1>2. /\ block = NoBlock /\ status[j] = "absent" /\ disk[j] # "absent"
      /\ thread[j] \in {"running", "raised", "dead"} /\ Loaded(j) \in Terminal
      /\ block'.job = j /\ block'.section = "emit" /\ block'.write = "event"
      /\ block'.row = Row(e, Loaded(j)) /\ Row(e, Loaded(j)).status = Loaded(j)
      /\ disk'[i] = IF i = j THEN Loaded(j) ELSE disk[i]
      /\ thread' = thread /\ log' = log
      /\ status'[j] \in {"absent", Loaded(j)}
      /\ status'[j] # "absent" => events'[j] = Append(log[j], Row(e, Loaded(j)))
      /\ i # j => Left(i, status, events)
  BY <1>1, ReviveFacts
<1>3. block.job # i /\ ~Writing(i) /\ ~EndWritten(i) /\ ~EndWritten(i)'
  BY <1>1, <1>2, BlockCases DEF Writing, EndWritten, Ending
<1>4. CASE i # j
  <2>1. \/ status'[i] = "absent" /\ status[i] \in Terminal
        \/ status'[i] = status[i] /\ events'[i] = events[i]
    BY <1>2, <1>4 DEF Left
  <2>2. InLine(i)' /\ ThreadOk(i)'
    BY <1>1, <1>2, <1>3, <1>4, <2>1, Names DEF Sound, InLine, ThreadOk, Writing
  <2>3. InSection(i)'
    BY <1>2, <1>4 DEF InSection
  <2>4. LogOk(i)'
    BY <1>1, <1>2, <1>3, <1>4 DEF Sound, LogOk
  <2>5. QED
    BY <2>2, <2>3, <2>4 DEF Sound
<1>5. CASE i = j
  <2>1. thread[i] = "dead"
    BY <1>1, <1>2, <1>5 DEF Base, Over
  <2>2. disk[i] \in Terminal /\ Loaded(i) = disk[i]
    BY <1>1, <1>2, <1>5, <2>1, Names DEF Sound, InLine, Typed, Loaded
  <2>3. InLine(i)' /\ ThreadOk(i)'
    BY <1>2, <1>5, <2>1, Names DEF InLine, ThreadOk, Writing
  <2>4. InSection(i)'
    BY <1>2, <1>5, <2>1, <2>2, Names DEF InSection
  <2>5. LogOk(i)'
    BY <1>1, <1>2, <1>3, <1>5, <2>2 DEF Sound, LogOk
  <2>6. QED
    BY <2>3, <2>4, <2>5 DEF Sound
<1>6. QED
  BY <1>4, <1>5

(* A row that follows on the last one.                                     *)
LEMMA ChainGrows ==
  ASSUME NEW s \in Seq(Rows), NEW r \in Rows, Chain(s),
         r.status \in Terminal =>
           IF Len(s) > 0 /\ Last(s).status \in Terminal
           THEN r.status = Last(s).status ELSE r.event = EventOf[r.status],
         Len(s) > 0 /\ Last(s).status \in Terminal => r.status \in Terminal
  PROVE Chain(Append(s, r))
<1> DEFINE t == Append(s, r)
<1>1. /\ Len(t) = Len(s) + 1 /\ t[Len(t)] = r /\ Len(s) \in Nat
      /\ \A n \in 1..Len(s) : t[n] = s[n]
  BY AppendFacts
<1> HIDE DEF t
<1>2. ASSUME NEW n \in 1..Len(t), t[n].status \in Terminal
      PROVE IF n > 1 /\ t[n - 1].status \in Terminal
            THEN t[n].status = t[n - 1].status
            ELSE t[n].event = EventOf[t[n].status]
  <2>1. CASE n = Len(t)
    <3>1. n > 1 <=> Len(s) > 0
      BY <1>1, <2>1
    <3>2. Len(s) > 0 => t[n - 1] = Last(s)
      BY <1>1, <2>1 DEF Last
    <3>3. QED
      BY <1>1, <1>2, <2>1, <3>1, <3>2
  <2>2. CASE n # Len(t)
    <3>1. n \in 1..Len(s) /\ t[n] = s[n] /\ (n > 1 => t[n - 1] = s[n - 1])
      BY <1>1, <2>2
    <3>2. QED
      BY <1>2, <3>1 DEF Chain
  <2>3. QED
    BY <2>1, <2>2
<1>3. ASSUME NEW n \in 1..(Len(t) - 1), t[n].status \in Terminal
      PROVE t[n + 1].status \in Terminal
  <2>1. n \in 1..Len(s) /\ t[n] = s[n]
    BY <1>1
  <2>2. CASE n = Len(s)
    BY <1>1, <1>3, <2>1, <2>2 DEF Last
  <2>3. CASE n # Len(s)
    <3>1. n \in 1..(Len(s) - 1) /\ t[n + 1] = s[n + 1]
      BY <1>1, <2>1, <2>3
    <3>2. QED
      BY <1>3, <2>1, <3>1 DEF Chain
  <2>4. QED
    BY <2>2, <2>3
<1>4. Chain(t)
  BY <1>2, <1>3 DEF Chain
<1>5. QED
  BY <1>4 DEF t

(* The line of the log.                                                    *)
LEMMA SoundAppend ==
  ASSUME Inductive, \A j \in Jobs : Sound(j), NEW i \in Jobs, AppendEvent
  PROVE Sound(i)'
<1>1. Typed /\ Base(i) /\ Sound(i)
  BY DEF Inductive
<1>2. /\ block.write = "event" /\ block.job \in Jobs /\ block.row \in Rows
      /\ i = block.job => log'[i] = Append(log[i], block.row)
      /\ i # block.job => log'[i] = log[i]
      /\ block'.job = block.job /\ block'.section = block.section /\ block'.write = "state"
      /\ block'.row = block.row
      /\ status' = status /\ events' = events /\ thread' = thread /\ disk' = disk
  BY <1>1, AppendEventFacts DEF memory
<1>3. ~Writing(i)' /\ ~EndWritten(i)
  BY <1>2 DEF Writing, EndWritten
<1>4. ThreadOk(i)'
  BY <1>1, <1>2 DEF Sound, ThreadOk
<1>5. CASE i # block.job
  BY <1>1, <1>2, <1>3, <1>4, <1>5 DEF Sound, InLine, InSection, LogOk, Writing
<1>6. CASE i = block.job
  <2>1. Writing(i) /\ log[i] \in Seq(Rows)
    BY <1>1, <1>2, <1>6 DEF Writing, Typed
  <2>2. /\ log'[i] = Append(log[i], block.row)
        /\ Len(log'[i]) = Len(log[i]) + 1 /\ Len(log[i]) \in Nat
        /\ Last(log'[i]) = block.row
    BY <1>2, <1>6, <2>1, AppendFacts DEF Last
  <2>3. InLine(i)'
    BY <1>1, <1>2, <1>3, <1>6, <2>1, <2>2 DEF Sound, InLine
  <2>4. InSection(i)'
    BY <1>1, <1>2, <1>6, <2>2 DEF Sound, InSection
  <2>5. Len(log[i]) > 0 /\ Last(log[i]).status \in Terminal => disk[i] \in Terminal
    BY <1>1, <1>3, <1>6 DEF Sound, LogOk, InSection
  <2>6. disk[i] \in Terminal => /\ block.row.status = disk[i] /\ Len(log[i]) > 0
                                /\ Last(log[i]).status = disk[i]
    BY <1>1, <1>6, Names DEF Sound, LogOk, InSection
  <2>7. block.row.status \in Terminal =>
          \/ disk[i] \in Terminal
          \/ block.section \in Ending /\ block.row.event = EventOf[block.row.status]
    BY <1>1, <1>6 DEF Sound, InSection
  <2>8. Chain(log'[i])
    <3>1. block.row.status \in Terminal =>
            IF Len(log[i]) > 0 /\ Last(log[i]).status \in Terminal
            THEN block.row.status = Last(log[i]).status
            ELSE block.row.event = EventOf[block.row.status]
      BY <2>5, <2>6, <2>7
    <3>2. Len(log[i]) > 0 /\ Last(log[i]).status \in Terminal => block.row.status \in Terminal
      BY <2>5, <2>6
    <3>3. QED
      BY <1>1, <1>2, <2>1, <2>2, <3>1, <3>2, ChainGrows DEF Sound, LogOk
  <2>9. LogOk(i)'
    BY <1>2, <1>6, <2>2, <2>6, <2>7, <2>8 DEF LogOk, EndWritten
  <2>10. QED
    BY <1>4, <2>3, <2>4, <2>9 DEF Sound
<1>7. QED
  BY <1>5, <1>6

(* The snapshot, which ends the section.                                   *)
LEMMA SoundPersist ==
  ASSUME Inductive, \A j \in Jobs : Sound(j), NEW i \in Jobs, PersistState
  PROVE Sound(i)'
<1>1. Typed /\ Base(i) /\ Sound(i)
  BY DEF Inductive
<1>2. /\ block \in Blocks /\ block.write = "state" /\ block' = NoBlock /\ log' = log
      /\ disk'[i] = IF i = block.job /\ status[i] # "absent" THEN status[i] ELSE disk[i]
      /\ i # block.job => thread'[i] = thread[i]
      /\ block.section \notin Ending => status' = status
      /\ Left(i, status, events)
  BY <1>1, PersistFacts DEF memory
<1>3. block.job \in Jobs /\ block.section \in Sections
  BY <1>2 DEF Blocks
<1>4. ~Writing(i) /\ ~Writing(i)' /\ block'.job # i /\ ~EndWritten(i)'
  BY <1>2, ManagerAssumption DEF Writing, NoBlock, EndWritten
<1>5. InSection(i)'
  BY <1>4 DEF InSection
<1>6. \/ status'[i] = "absent" /\ status[i] \in Terminal
      \/ status'[i] = status[i] /\ events'[i] = events[i]
  BY <1>2 DEF Left
<1>7. CASE i # block.job
  <2>1. InLine(i)'
    BY <1>1, <1>2, <1>4, <1>6, <1>7, Names DEF Sound, InLine
  <2>2. ThreadOk(i)'
    BY <1>1, <1>2, <1>4, <1>6, <1>7, Names DEF Sound, ThreadOk
  <2>3. LogOk(i)'
    BY <1>1, <1>2, <1>4, <1>6, <1>7 DEF Sound, LogOk, EndWritten
  <2>4. QED
    BY <1>5, <2>1, <2>2, <2>3 DEF Sound
<1>8. CASE i = block.job
  <2>1. /\ Len(log[i]) > 0 /\ Last(log[i]) = block.row
        /\ status[i] \in JobStatus /\ disk[i] \in JobStatus
    BY <1>1, <1>2, <1>8 DEF Sound, InSection, Typed
  <2>2. CASE block.section = "emit"
    <3>1. /\ thread'[i] = thread[i] /\ status'[i] = status[i] /\ disk'[i] = disk[i]
          /\ events'[i] = events[i]
          /\ disk[i] # "absent" /\ status[i] \in {"absent", disk[i]}
          /\ block.section \notin Ending /\ Last(log[i]).status = disk[i]
      BY <1>1, <1>2, <1>3, <1>8, <2>1, <2>2, PersistFacts
      DEF Sound, InSection, Ending, memory
    <3>2. InLine(i)'
      BY <1>1, <1>2, <1>4, <3>1 DEF Sound, InLine
    <3>3. ThreadOk(i)' /\ LogOk(i)'
      BY <1>1, <1>2, <1>4, <3>1 DEF Sound, ThreadOk, LogOk, EndWritten
    <3>4. QED
      BY <1>5, <3>2, <3>3 DEF Sound
  <2>3. CASE block.section # "emit"
    <3>1. /\ disk'[i] = status[i] /\ status[i] # "absent" /\ events[i] = log[i]
          /\ Last(log[i]).status = status[i]
      BY <1>1, <1>2, <1>4, <1>8, <2>1, <2>3 DEF Sound, InSection, InLine
    <3>2. InLine(i)'
      BY <1>2, <1>4, <1>6, <3>1, Names DEF InLine
    <3>3. CASE block.section \in Ending
      <4>1. thread'[i] = "dead" /\ status[i] \in Terminal
        BY <1>1, <1>8, <2>3, <3>3, PersistFacts DEF Sound, InSection
      <4>2. ThreadOk(i)'
        BY <1>6, <3>1, <4>1, Names DEF ThreadOk
      <4>3. LogOk(i)'
        BY <1>1, <1>2, <2>1, <3>1, <4>1 DEF Sound, LogOk
      <4>4. QED
        BY <1>5, <3>2, <4>2, <4>3 DEF Sound
    <3>4. CASE block.section \notin Ending
      <4>1. status[i] \notin Terminal /\ status[i] \in Live
        BY <1>1, <1>8, <2>1, <2>3, <3>1, <3>4, Names DEF Sound, InSection
      <4>2. thread'[i] \in {"started", "running"}
        <5>1. CASE block.section \in {"start", "run"}
          BY <1>1, <1>8, <5>1, PersistFacts
        <5>2. CASE block.section = "cancel"
          <6>1. thread'[i] = thread[i]
            BY <1>1, <1>8, <5>2, PersistFacts
          <6>2. QED
            BY <1>1, <1>8, <2>3, <5>2, <6>1 DEF Sound, InSection
        <5>3. QED
          BY <1>3, <2>3, <3>4, <5>1, <5>2 DEF Sections, Ending
      <4>3. ThreadOk(i)'
        BY <1>6, <3>1, <4>1, <4>2 DEF ThreadOk
      <4>4. LogOk(i)'
        BY <1>1, <1>2, <2>1, <3>1, <4>1 DEF Sound, LogOk
      <4>5. QED
        BY <1>5, <3>2, <4>3, <4>4 DEF Sound
    <3>5. QED
      BY <3>3, <3>4
  <2>4. QED
    BY <2>2, <2>3
<1>9. QED
  BY <1>7, <1>8

(* Loading, after a restart or an eviction.                                *)
LEMMA SoundLoads ==
  ASSUME Inductive, \A j \in Jobs : Sound(j), NEW i \in Jobs,
         NEW js \in SUBSET Jobs, Loads(js)
  PROVE Sound(i)'
<1>1. Typed /\ Base(i) /\ Sound(i)
  BY DEF Inductive
<1>2. /\ block = NoBlock /\ block' = block /\ thread' = thread /\ log' = log
      /\ disk'[i] = IF i \in js THEN Loaded(i) ELSE disk[i]
      /\ i \in js => /\ status[i] = "absent" /\ disk[i] # "absent" /\ Loaded(i) \in Terminal
                     /\ Left(i, [j \in js |-> Loaded(j)], log)
      /\ i \notin js => Left(i, status, events)
  BY <1>1, LoadFacts
<1>3. /\ block.job # i /\ ~Writing(i) /\ ~EndWritten(i)
      /\ block'.job # i /\ ~Writing(i)' /\ ~EndWritten(i)'
  BY <1>1, <1>2, BlockCases DEF Writing, EndWritten
<1>4. InSection(i)'
  BY <1>3 DEF InSection
<1>5. CASE i \in js
  <2>1. /\ status'[i] \in {"absent", Loaded(i)} /\ disk'[i] = Loaded(i)
        /\ status'[i] # "absent" => events'[i] = log[i]
        /\ thread[i] \in {"dead", "cut", "gone"}
    BY <1>1, <1>2, <1>5, Names DEF Left, Base, Over, Sound, ThreadOk
  <2>2. InLine(i)' /\ ThreadOk(i)'
    BY <1>2, <1>3, <1>5, <2>1, Names DEF InLine, ThreadOk
  <2>3. \/ disk[i] \in Terminal /\ Loaded(i) = disk[i]
        \/ Loaded(i) = "failed" /\ thread[i] = "cut"
    BY <1>1, <1>2, <1>5, Names DEF Loaded, Typed, Sound, InLine
  <2>4. LogOk(i)'
    BY <1>1, <1>2, <1>3, <1>5, <2>1, <2>3 DEF Sound, LogOk
  <2>5. QED
    BY <1>4, <2>2, <2>4 DEF Sound
<1>6. CASE i \notin js
  <2>1. \/ status'[i] = "absent" /\ status[i] \in Terminal
        \/ status'[i] = status[i] /\ events'[i] = events[i]
    BY <1>2, <1>6 DEF Left
  <2>2. InLine(i)' /\ ThreadOk(i)'
    BY <1>1, <1>2, <1>3, <1>6, <2>1, Names DEF Sound, InLine, ThreadOk
  <2>3. LogOk(i)'
    BY <1>1, <1>2, <1>3, <1>6, <2>1 DEF Sound, LogOk
  <2>4. QED
    BY <1>4, <2>2, <2>3 DEF Sound
<1>7. QED
  BY <1>5, <1>6

(* The death of the process.                                               *)
LEMMA SoundCrash ==
  ASSUME Inductive, \A j \in Jobs : Sound(j), NEW i \in Jobs, Crash
  PROVE Sound(i)'
<1>1. Typed /\ Sound(i) /\ thread[i] \in Threads
  BY DEF Inductive, Typed
<1>2. /\ status'[i] = "absent" /\ block'.job # i /\ ~Writing(i)' /\ ~EndWritten(i)'
      /\ thread'[i] = IF thread[i] \in {"started", "running", "raised"} THEN "cut"
                      ELSE IF thread[i] = "dead" THEN "gone" ELSE thread[i]
      /\ disk' = disk /\ log' = log
  BY <1>1, CrashFacts, ManagerAssumption DEF NoBlock, Writing, EndWritten
<1>3. InLine(i)' /\ InSection(i)' /\ ThreadOk(i)'
  BY <1>1, <1>2, Names DEF Sound, InLine, InSection, ThreadOk
<1>4. EndWritten(i) => thread[i] = "running"
  BY <1>1 DEF Sound, InSection, EndWritten, Ending
<1>5. LogOk(i)'
  BY <1>1, <1>2, <1>4 DEF Sound, LogOk
<1>6. QED
  BY <1>3, <1>5 DEF Sound

(* What a reader does changes nothing of a job.                            *)
LEMMA SoundQuiet ==
  ASSUME NEW i \in Jobs, Sound(i), Quiet
  PROVE Sound(i)'
  BY DEF Sound, InLine, InSection, ThreadOk, LogOk, Writing, EndWritten, Quiet, memory, files, bounds

(* What is said of a job holds after every step without a failed write.    *)
LEMMA SoundStep ==
  ASSUME Inductive, [Next]_vars, writeErrors' = 0, \A j \in Jobs : Sound(j), NEW i \in Jobs
  PROVE Sound(i)'
<1>1. Typed /\ \A f \in Followers : Reading(f)
  BY DEF Inductive
<1>2. ~WriteFails
  BY <1>1 DEF WriteFails, Typed
<1>3. QED
  BY <1>1, <1>2, NextCases, SoundBegins, SoundRevives, SoundAppend, SoundPersist, SoundLoads,
     SoundCrash, SoundQuiet DEF Reading

(* A log only grows.  When the job has ended, its snapshot stays, and the  *)
(* log only gets rows that follow on its end.                              *)
LEMMA LogGrows ==
  ASSUME Inductive, [Next]_vars, writeErrors' = 0, \A j \in Jobs : Sound(j), NEW i \in Jobs
  PROVE /\ Len(log[i]) \in Nat /\ Len(log'[i]) \in Nat /\ Len(log[i]) <= Len(log'[i])
        /\ \A n \in 1..Len(log[i]) : log'[i][n] = log[i][n]
        /\ disk[i] \in Terminal =>
             /\ disk'[i] = disk[i]
             /\ log'[i] # log[i] => Len(log[i]) > 0 /\ Last(log[i]).status \in Terminal
<1>1. /\ Typed /\ Sound(i) /\ (\A f \in Followers : Reading(f))
      /\ Len(log[i]) \in Nat /\ log[i] \in Seq(Rows)
  BY LenProperties DEF Inductive, Typed
<1>2. ~WriteFails
  BY <1>1 DEF WriteFails, Typed
<1>3. ASSUME AppendEvent
      PROVE /\ Len(log'[i]) \in Nat /\ Len(log[i]) <= Len(log'[i]) /\ disk'[i] = disk[i]
            /\ \A n \in 1..Len(log[i]) : log'[i][n] = log[i][n]
            /\ disk[i] \in Terminal /\ log'[i] # log[i] =>
                 Len(log[i]) > 0 /\ Last(log[i]).status \in Terminal
  <2>1. /\ block.job \in Jobs /\ block.row \in Rows /\ disk' = disk
        /\ i = block.job => log'[i] = Append(log[i], block.row)
        /\ i # block.job => log'[i] = log[i]
    BY <1>1, <1>3, AppendEventFacts
  <2>2. CASE i # block.job
    BY <1>1, <2>1, <2>2
  <2>3. CASE i = block.job
    <3>1. /\ Len(log'[i]) = Len(log[i]) + 1
          /\ \A n \in 1..Len(log[i]) : log'[i][n] = log[i][n]
      BY <1>1, <2>1, <2>3, AppendFacts
    <3>2. disk[i] \in Terminal => Len(log[i]) > 0 /\ Last(log[i]).status \in Terminal
      BY <1>1, <2>3, Names DEF Sound, InSection, LogOk
    <3>3. QED
      BY <1>1, <2>1, <3>1, <3>2
  <2>4. QED
    BY <2>2, <2>3
<1>4. ASSUME ~AppendEvent
      PROVE log' = log /\ (disk[i] \in Terminal => disk'[i] = disk[i])
  <2>1. ASSUME NEW j \in Jobs, NEW section \in Sections, NEW s \in RowStatus, NEW e \in Events,
               Begins(j, section, s, e)
        PROVE UNCHANGED <<log, disk>>
    BY <1>1, <2>1, BeginFacts
  <2>2. ASSUME Quiet \/ Crash PROVE UNCHANGED <<log, disk>>
    BY <2>2 DEF Quiet, Crash, files
  <2>3. ASSUME NEW j \in Jobs, NEW e \in Events, Revives(j, e)
        PROVE log' = log /\ (disk[i] \in Terminal => disk'[i] = disk[i])
    BY <1>1, <2>3, ReviveFacts DEF Loaded
  <2>4. ASSUME PersistState
        PROVE log' = log /\ (disk[i] \in Terminal => disk'[i] = disk[i])
    <3>1. log' = log
          /\ disk'[i] = IF i = block.job /\ status[i] # "absent" THEN status[i] ELSE disk[i]
      BY <1>1, <2>4, PersistFacts
    <3>2. i = block.job /\ disk[i] \in Terminal => status[i] \in {"absent", disk[i]}
      BY <1>1 DEF Sound, InSection
    <3>3. QED
      BY <3>1, <3>2
  <2>5. ASSUME NEW js \in SUBSET Jobs, Loads(js)
        PROVE log' = log /\ (disk[i] \in Terminal => disk'[i] = disk[i])
    <3>1. log' = log /\ disk'[i] = IF i \in js THEN Loaded(i) ELSE disk[i]
      BY <1>1, <2>5, LoadFacts
    <3>2. QED
      BY <3>1 DEF Loaded
  <2>6. QED
    BY <1>1, <1>2, <1>4, <2>1, <2>2, <2>3, <2>4, <2>5, NextCases DEF Reading
<1>5. QED
  BY <1>1, <1>3, <1>4
-----------------------------------------------------------------------------
ReaderSet == [job: Jobs \cup {None}, next: Nat, at: {"idle", "following", "cut", "end"}]

(* A step leaves the readers alone, or is one of theirs, or a crash.       *)
LEMMA ReaderCases ==
  ASSUME [Next]_vars
  PROVE \/ reader' = reader
        \/ Crash
        \/ \E f \in Followers : Batch(f) \/ \E j \in Jobs : Follow(f, j)
<1>1. ASSUME Writes \/ List PROVE reader' = reader
  BY <1>1 DEF Writes, AppendEvent, PersistState, WriteFails, List
<1>2. ASSUME NEW j \in Jobs, RunJob(j) \/ (\E e \in RunnerEvents : Emit(j, e)) \/ StartNew(j)
                               \/ StartResumed(j) \/ Cancel(j)
      PROVE reader' = reader
  BY <1>2 DEF RunJob, Run, FinishCancelled, Handle, Finish, Emit, StartNew, StartResumed,
              Start, Cancel, Begin
<1>3. ASSUME NEW j \in Jobs, Snapshot(j) \/ Resume(j) PROVE reader' = reader
  BY <1>3 DEF Snapshot, Resume
<1>4. ASSUME UNCHANGED vars PROVE reader' = reader
  BY <1>4 DEF vars
<1>5. QED
  BY <1>1, <1>2, <1>3, <1>4 DEF Next

(* What a crash and a batch do to a reader.                                *)
CutOff(f) ==
  reader'[f] = IF reader[f].at = "following" THEN [reader[f] EXCEPT !.at = "cut"] ELSE reader[f]
Batched(f) ==
  /\ reader[f].at = "following" /\ Get(reader[f].job)
  /\ reader'[f] = [job |-> reader[f].job, next |-> NextIndex(f),
                   at |-> IF Ended(f) THEN "end" ELSE "following"]

(* A reader that gets a batch: two of its three fields are set.            *)
LEMMA ReaderExcept ==
  ASSUME NEW rd \in ReaderSet, NEW n, NEW a
  PROVE [rd EXCEPT !.next = n, !.at = a] = [job |-> rd.job, next |-> n, at |-> a]
<1> DEFINE x == [rd EXCEPT !.next = n, !.at = a]
<1>1. DOMAIN rd = {"job", "next", "at"}
  BY DEF ReaderSet
<1>2. DOMAIN x = {"job", "next", "at"} /\ x = [i \in DOMAIN x |-> x[i]]
  BY <1>1
<1>3. x.job = rd.job /\ x.next = n /\ x.at = a
  BY <1>1
<1> HIDE DEF x
<1>4. x = [job |-> rd.job, next |-> n, at |-> a]
  BY <1>2, <1>3
<1>5. QED
  BY <1>4 DEF x

(* A reader goes on from where it was.                                     *)
LEMMA ReaderMoves ==
  ASSUME Inductive, [Next]_vars, NEW g \in Followers
  PROVE /\ reader' \in [Followers -> ReaderSet]
        /\ \/ reader'[g] = reader[g]
           \/ CutOff(g) /\ Crash
           \/ Batched(g)
           \/ \E j \in Jobs :
                /\ reader[g].at = "idle" \/ reader[g].job = j
                /\ reader'[g] = [job |-> j, next |-> reader[g].next, at |-> "following"]
<1>1. Typed /\ reader \in [Followers -> ReaderSet] /\ \A f \in Followers : Reading(f)
  BY DEF Inductive, ReaderSet
<1>2. \A f \in Followers : reader[f] \in ReaderSet
  BY <1>1
<1>3. ASSUME Crash PROVE reader' \in [Followers -> ReaderSet] /\ CutOff(g)
  <2>1. reader' = [f \in Followers |->
                    [reader[f] EXCEPT !.at = IF @ = "following" THEN "cut" ELSE @]]
    BY <1>3 DEF Crash
  <2>2. ASSUME NEW f \in Followers
        PROVE [reader[f] EXCEPT !.at = IF @ = "following" THEN "cut" ELSE @] =
                IF reader[f].at = "following" THEN [reader[f] EXCEPT !.at = "cut"] ELSE reader[f]
    BY <1>2, <2>2 DEF ReaderSet
  <2>3. ASSUME NEW f \in Followers
        PROVE (IF reader[f].at = "following" THEN [reader[f] EXCEPT !.at = "cut"] ELSE reader[f])
                \in ReaderSet
    BY <1>2, <2>3 DEF ReaderSet
  <2>4. \A f \in Followers : reader'[f] =
          IF reader[f].at = "following" THEN [reader[f] EXCEPT !.at = "cut"] ELSE reader[f]
    BY <2>1, <2>2
  <2>5. reader' \in [Followers -> ReaderSet]
    BY <2>1, <2>2, <2>3
  <2>6. QED
    BY <2>4, <2>5 DEF CutOff
<1>4. ASSUME NEW f \in Followers, Batch(f)
      PROVE /\ reader' \in [Followers -> ReaderSet]
            /\ g # f => reader'[g] = reader[g]
            /\ g = f => Batched(g)
  <2> DEFINE at == IF Ended(f) THEN "end" ELSE "following"
             r == [job |-> reader[f].job, next |-> NextIndex(f), at |-> at]
  <2>1. reader' = [reader EXCEPT ![f].next = NextIndex(f), ![f].at = at]
        /\ reader[f].at = "following" /\ Get(reader[f].job)
    BY <1>4 DEF Batch
  <2>2. reader[f].job \in Jobs
    BY <1>1, <2>1 DEF Reading
  <2>3. EventsOf(reader[f].job) \in Seq(Rows)
    BY <1>1, <2>2 DEF EventsOf, Typed
  <2>4. Len(EventsOf(reader[f].job)) \in Nat
    BY <2>3, LenProperties
  <2>5. NextIndex(f) \in Nat
    BY <1>2, <2>4 DEF NextIndex, ReaderSet
  <2> HIDE DEF at
  <2>6. at \in {"end", "following"}
    BY DEF at
  <2>7. [reader[f] EXCEPT !.next = NextIndex(f), !.at = at] = r
    <3>1. reader[f] \in ReaderSet
      BY <1>2
    <3>2. QED
      BY <3>1, ReaderExcept, <2>5, <2>6
  <2>8. r \in ReaderSet
    BY <2>2, <2>5, <2>6 DEF ReaderSet
  <2>9. reader' = [reader EXCEPT ![f] = r]
    BY <2>1, <2>7
  <2> HIDE DEF r
  <2>10. reader' \in [Followers -> ReaderSet] /\ reader'[f] = r
         /\ (g # f => reader'[g] = reader[g])
    BY <1>1, <2>8, <2>9
  <2>11. QED
    BY <2>1, <2>10 DEF Batched, r, at
<1>5. ASSUME NEW f \in Followers, NEW j \in Jobs, Follow(f, j)
      PROVE /\ reader' \in [Followers -> ReaderSet]
            /\ g # f => reader'[g] = reader[g]
            /\ g = f => /\ reader[g].at = "idle" \/ reader[g].job = j
                        /\ reader'[g] = [job |-> j, next |-> reader[g].next, at |-> "following"]
  <2> DEFINE r == [job |-> j, next |-> reader[f].next, at |-> "following"]
  <2>1. reader' = [reader EXCEPT ![f] = r] /\ (reader[f].at = "idle" \/ reader[f].job = j)
    BY <1>5 DEF Follow
  <2>2. r \in ReaderSet
    BY <1>2 DEF ReaderSet
  <2>3. QED
    BY <1>1, <2>1, <2>2
<1>6. QED
  BY <1>1, <1>3, <1>4, <1>5, ReaderCases

(* It stays where a reader may be.                                         *)
LEMMA ReadingStep ==
  ASSUME Inductive, [Next]_vars, NEW g \in Followers
  PROVE Reading(g)'
<1>1. /\ reader[g] \in ReaderSet /\ reader'[g] \in ReaderSet /\ Reading(g)
  BY ReaderMoves DEF Inductive, ReaderSet
<1>2. CASE reader'[g] = reader[g]
  BY <1>1, <1>2 DEF Reading
<1>3. CASE CutOff(g)
  BY <1>1, <1>3 DEF Reading, CutOff, ReaderSet
<1>4. CASE Batched(g)
  BY <1>1, <1>4 DEF Reading, Batched, ReaderSet
<1>5. ASSUME NEW j \in Jobs,
             reader'[g] = [job |-> j, next |-> reader[g].next, at |-> "following"]
      PROVE Reading(g)'
  BY <1>1, <1>5 DEF Reading, ReaderSet
<1>6. QED
  BY <1>2, <1>3, <1>4, <1>5, ReaderMoves

(* And has had what is in the log.                                         *)
LEMMA HadStep ==
  ASSUME Inductive, [Next]_vars, writeErrors' = 0, \A j \in Jobs : Sound(j),
         NEW g \in Followers, Had(g)
  PROVE Had(g)'
<1>1. /\ Typed /\ reader[g] \in ReaderSet /\ reader'[g] \in ReaderSet /\ Reading(g)
      /\ reader[g].job \in Jobs \cup {None} /\ reader[g].next \in Nat
      /\ None \notin Jobs
  BY ReaderMoves, ManagerAssumption DEF Inductive, ReaderSet
<1>2. \A j \in Jobs :
        /\ Len(log[j]) \in Nat /\ Len(log'[j]) \in Nat /\ Len(log[j]) <= Len(log'[j])
        /\ \A n \in 1..Len(log[j]) : log'[j][n] = log[j][n]
        /\ disk[j] \in Terminal =>
             /\ disk'[j] = disk[j]
             /\ log'[j] # log[j] => Len(log[j]) > 0 /\ Last(log[j]).status \in Terminal
  BY LogGrows
<1>3. ASSUME reader'[g].job = reader[g].job, reader'[g].next = reader[g].next,
             reader'[g].at = "end" => reader[g].at = "end"
      PROVE Had(g)'
  <2> DEFINE j == reader[g].job
  <2>1. SUFFICES ASSUME j # None PROVE Had(g)'
    BY <1>3 DEF Had
  <2>2. j \in Jobs /\ reader[g].next <= Len(log[j])
    BY <1>1, <2>1 DEF Had
  <2>3. reader'[g].next <= Len(log'[j])
    BY <1>1, <1>2, <1>3, <2>2
  <2>4. ASSUME reader'[g].at = "end"
        PROVE /\ disk'[j] \in Terminal
              /\ reader[g].next < Len(log'[j]) =>
                   reader[g].next > 0 /\ log'[j][reader[g].next].status \in Terminal
    <3>1. /\ disk[j] \in Terminal
          /\ reader[g].next < Len(log[j]) =>
               reader[g].next > 0 /\ log[j][reader[g].next].status \in Terminal
      BY <1>3, <2>1, <2>4 DEF Had
    <3>2. disk'[j] \in Terminal
      BY <1>2, <2>2, <3>1
    <3>3. CASE reader[g].next < Len(log[j])
      BY <1>1, <1>2, <2>2, <3>1, <3>2, <3>3
    <3>4. CASE reader[g].next = Len(log[j]) /\ log'[j] # log[j]
      BY <1>1, <1>2, <2>2, <3>1, <3>2, <3>4 DEF Last
    <3>5. CASE reader[g].next = Len(log[j]) /\ log'[j] = log[j]
      BY <1>1, <1>2, <2>2, <3>2, <3>5
    <3>6. QED
      BY <1>1, <1>2, <2>2, <3>3, <3>4, <3>5
  <2>5. QED
    BY <1>3, <2>1, <2>3, <2>4 DEF Had
<1>4. CASE reader'[g] = reader[g]
  BY <1>3, <1>4
<1>5. CASE CutOff(g)
  <2>1. /\ reader'[g].job = reader[g].job /\ reader'[g].next = reader[g].next
        /\ reader'[g].at = "end" => reader[g].at = "end"
    BY <1>1, <1>5 DEF CutOff, ReaderSet
  <2>2. QED
    BY <1>3, <2>1
<1>6. ASSUME NEW j \in Jobs, reader[g].at = "idle" \/ reader[g].job = j,
             reader'[g] = [job |-> j, next |-> reader[g].next, at |-> "following"]
      PROVE Had(g)'
  <2>1. reader'[g].job = j /\ reader'[g].next = reader[g].next /\ reader'[g].at = "following"
    BY <1>6
  <2>2. CASE reader[g].at = "idle"
    BY <1>1, <1>2, <2>1, <2>2 DEF Had, Reading
  <2>3. CASE reader[g].job = j
    BY <1>3, <2>1, <2>3
  <2>4. QED
    BY <1>6, <2>2, <2>3
<1>7. CASE Batched(g)
  <2> DEFINE j == reader[g].job
  <2>1. /\ j \in Jobs /\ Get(j)
        /\ reader'[g].job = j /\ reader'[g].next = NextIndex(g)
        /\ reader'[g].at = "end" => Ended(g)
        /\ reader[g].next <= Len(log[j])
    BY <1>1, <1>7 DEF Batched, Reading, Had
  <2> HIDE DEF j
  <2>2. Unlocked /\ Known(j) /\ ~Writing(j) /\ block.job # j
    BY <1>1, <2>1, BlockCases DEF Get, Unlocked, Writing
  <2>3. InLine(j)
    BY <2>1 DEF Sound
  <2>4. EventsOf(j) = log[j]
    BY <2>2, <2>3 DEF EventsOf, InLine
  <2>5. NextIndex(g) = Len(log[j])
    BY <1>1, <1>2, <2>1, <2>4 DEF NextIndex, More, j
  <2>6. ASSUME Ended(g) PROVE disk'[j] \in Terminal
    <3>1. CASE status[j] = "absent"
      <4>1. Load({j})
        BY <2>1, <3>1 DEF Get
      <4>2. disk'[j] = Loaded(j)
        BY <2>1, <4>1 DEF Load
      <4>3. QED
        BY <4>2, Names DEF Loaded
    <3>2. CASE status[j] # "absent"
      <4>1. disk[j] = status[j] /\ status[j] \in Terminal
        BY <2>2, <2>3, <2>6, <3>2 DEF InLine, Ended, StatusOf, j
      <4>2. QED
        BY <1>2, <2>1, <4>1
    <3>3. QED
      BY <3>1, <3>2
  <2>7. log'[j] = log[j]
    BY <2>1, <2>2 DEF Get, Load, files
  <2>8. QED
    BY <1>2, <2>1, <2>5, <2>6, <2>7 DEF Had
<1>8. QED
  BY <1>4, <1>5, <1>6, <1>7, ReaderMoves
-----------------------------------------------------------------------------
(* The manager starts without jobs.                                        *)
LEMMA InductiveInit == Init => Inductive
<1> SUFFICES ASSUME Init PROVE Inductive
  OBVIOUS
<1>1. <<>> \in Seq(Rows) /\ Len(<<>>) = 0 /\ 1..Len(<<>>) = {} /\ 1..(Len(<<>>) - 1) = {}
  BY EmptySeq
<1>2. Typed
  BY <1>1, Names DEF Init, Typed, Threads
<1>3. ASSUME NEW i \in Jobs PROVE Base(i) /\ Sound(i)
  <2>1. /\ status[i] = "absent" /\ events[i] = <<>> /\ cancelEvent = {} /\ thread[i] = "none"
        /\ disk[i] = "absent" /\ log[i] = <<>> /\ block.job # i
    BY ManagerAssumption DEF Init, NoBlock
  <2>2. QED
    BY <1>1, <2>1, Names
    DEF Base, Over, Sound, InLine, InSection, ThreadOk, LogOk, Chain, EndWritten, Writing
<1>4. ASSUME NEW f \in Followers PROVE Reading(f) /\ Had(f)
  BY DEF Init, Reading, Had
<1>5. CancelIsKept
  BY DEF Init, CancelIsKept
<1>6. reader \in [Followers -> [job: Jobs \cup {None}, next: Nat,
                               at: {"idle", "following", "cut", "end"}]]
  BY DEF Init
<1>7. QED
  BY <1>2, <1>3, <1>4, <1>5, <1>6 DEF Inductive

(* A write that failed is not forgotten.                                   *)
LEMMA ErrorsStay ==
  ASSUME Inductive, [Next]_vars
  PROVE writeErrors' = 0 => writeErrors = 0
<1>1. writeErrors' = writeErrors \/ writeErrors' = writeErrors + 1
  <2>1. /\ Typed /\ \A f \in Followers : Reading(f)
    BY DEF Inductive
  <2>2. ASSUME NEW j \in Jobs, NEW section \in Sections, NEW s \in RowStatus,
               NEW e \in Events, Begins(j, section, s, e)
        PROVE writeErrors' = writeErrors
    BY <2>1, <2>2, BeginFacts
  <2>3. ASSUME NEW j \in Jobs, NEW e \in Events, Revives(j, e) PROVE writeErrors' = writeErrors
    BY <2>3 DEF Revives, Emit, bounds
  <2>4. ASSUME AppendEvent \/ PersistState \/ Crash \/ Quiet PROVE writeErrors' = writeErrors
    BY <2>4 DEF AppendEvent, PersistState, Crash, Quiet, bounds
  <2>5. ASSUME WriteFails PROVE writeErrors' = writeErrors + 1
    BY <2>5 DEF WriteFails
  <2>6. ASSUME NEW js \in SUBSET Jobs, Loads(js) PROVE writeErrors' = writeErrors
    BY <2>6 DEF Loads, bounds
  <2>7. QED
    BY <2>1, <2>2, <2>3, <2>4, <2>5, <2>6, NextCases DEF Reading
<1>2. QED
  BY <1>1 DEF Inductive, Typed

(* Every step keeps the invariant.                                         *)
LEMMA InductiveStep ==
  ASSUME Inductive, [Next]_vars
  PROVE Inductive'
<1>1. Typed'
  BY TypedStep
<1>2. (\A i \in Jobs : Base(i))'
  BY BaseStep
<1>3. CancelIsKept'
  <2>1. Typed /\ Typed'
    BY <1>1 DEF Inductive
  <2>2. \A j \in cancelEvent' : j \in Jobs
    BY <2>1 DEF Typed
  <2>3. QED
    BY <2>2, CancelStep DEF CancelIsKept
<1>4. (\A f \in Followers : Reading(f))'
  BY ReadingStep
<1>5. (reader \in [Followers -> ReaderSet])'
  <2>1. CASE Followers = {}
    BY <2>1, ReaderCases DEF Inductive, ReaderSet, Crash
  <2>2. CASE Followers # {}
    BY <2>2, ReaderMoves
  <2>3. QED
    BY <2>1, <2>2
<1>6. writeErrors' = 0 => writeErrors = 0
  BY ErrorsStay
<1>7. ASSUME writeErrors' = 0
      PROVE (\A i \in Jobs : Sound(i))' /\ (\A f \in Followers : Had(f))'
  <2>1. (\A i \in Jobs : Sound(i)) /\ \A f \in Followers : Had(f)
    BY <1>6, <1>7 DEF Inductive, WritesSucceed
  <2>2. QED
    BY <1>7, <2>1, SoundStep, HadStep
<1>8. QED
  BY <1>1, <1>2, <1>3, <1>4, <1>5, <1>7 DEF Inductive, ReaderSet, WritesSucceed

(* Faults are counted, and only the jobs and restarts of the bounds are.   *)
Bounded ==
  /\ resumedFrom \in [Jobs -> Jobs \cup {None}]
  /\ resuming \in Jobs \cup {None}
  /\ crashes \in Nat /\ writeErrors \in Nat
  /\ crashes + writeErrors <= MaxFaults

(* Every step keeps the bounds.                                            *)
LEMMA BoundedStep ==
  ASSUME Bounded, [Next]_vars
  PROVE Bounded'
<1>1. ASSUME Writes \/ List \/ Crash PROVE Bounded'
  <2>1. MaxFaults \in Nat
    BY ManagerAssumption
  <2>2. CASE AppendEvent
    BY <2>2 DEF Bounded, AppendEvent, bounds
  <2>3. CASE PersistState
    BY <2>3 DEF Bounded, PersistState, bounds
  <2>4. CASE WriteFails
    BY <2>1, <2>4 DEF Bounded, WriteFails
  <2>5. CASE List
    BY <2>5 DEF Bounded, List, bounds
  <2>6. CASE Crash
    BY <2>1, <2>6 DEF Bounded, Crash
  <2>7. QED
    BY <1>1, <2>2, <2>3, <2>4, <2>5, <2>6 DEF Writes
<1>2. ASSUME NEW j \in Jobs, NEW from \in Jobs \cup {None}, Start(j, from),
             resuming' \in Jobs \cup {None}
      PROVE Bounded'
  BY <1>2 DEF Bounded, Start, Begin, bounds
<1>3. ASSUME NEW j \in Jobs, StartNew(j) \/ StartResumed(j) PROVE Bounded'
  BY <1>2, <1>3 DEF Bounded, StartNew, StartResumed
<1>4. ASSUME NEW j \in Jobs, RunJob(j) \/ (\E e \in RunnerEvents : Emit(j, e)) \/ Cancel(j)
      PROVE Bounded'
  BY <1>4 DEF Bounded, RunJob, Run, Finish, FinishCancelled, Handle, Emit, Cancel, Begin, bounds
<1>5. ASSUME NEW j \in Jobs, Snapshot(j) \/ Resume(j) PROVE Bounded'
  BY <1>5 DEF Bounded, Snapshot, Resume, bounds
<1>6. ASSUME NEW f \in Followers, Batch(f) \/ \E j \in Jobs : Follow(f, j) PROVE Bounded'
  BY <1>6 DEF Bounded, Batch, Follow, bounds
<1>7. ASSUME UNCHANGED vars PROVE Bounded'
  BY <1>7 DEF Bounded, vars, bounds
<1>8. QED
  BY <1>1, <1>3, <1>4, <1>5, <1>6, <1>7 DEF Next
-----------------------------------------------------------------------------
(* The invariant of the manager holds in every state it can reach.         *)
THEOREM InductiveHolds == Spec => [](Inductive /\ Bounded)
<1>1. Init => Inductive /\ Bounded
  <2>1. ASSUME Init PROVE Bounded
    BY <2>1, ManagerAssumption DEF Init, Bounded
  <2>2. QED
    BY <2>1, InductiveInit
<1>2. Inductive /\ Bounded /\ [Next]_vars => (Inductive /\ Bounded)'
  BY InductiveStep, BoundedStep
<1>3. QED
  BY <1>1, <1>2, PTL DEF Spec

(* Every variable has its type, and the faults stay within their bound.    *)
THEOREM TypeCorrect == Spec => []TypeOK
<1>1. Inductive /\ Bounded => TypeOK
  BY ManagerAssumption DEF Inductive, Bounded, Typed, TypeOK, JobStatus, Threads, Blocks
<1>2. QED
  BY <1>1, InductiveHolds, PTL

(* An accepted cancellation is not lost: the job it was for ends canceled, *)
(* whatever its thread overwrites (_run_job).                              *)
THEOREM CancelCorrect == Spec => []CancelIsKept
<1>1. Inductive => CancelIsKept
  BY DEF Inductive
<1>2. QED
  BY <1>1, InductiveHolds, PTL

(* When no write has failed, the end of a job that is told to a caller is  *)
(* the one a restarted manager reads (_persist_locked).                    *)
THEOREM ReportedCorrect == Spec => []ReportedIsDurable
<1>1. Inductive => ReportedIsDurable
  <2> SUFFICES ASSUME Inductive, WritesSucceed, Unlocked,
                      NEW j \in Jobs, status[j] \in Terminal
               PROVE disk[j] = status[j]
    BY DEF ReportedIsDurable
  <2>1. Sound(j) /\ block.job # j
    BY BlockCases DEF Inductive, Unlocked
  <2>2. status[j] # "absent"
    BY Names
  <2>3. QED
    BY <2>1, <2>2 DEF Sound, InLine
<1>2. QED
  BY <1>1, InductiveHolds, PTL

(* The events in memory are the log, but for the one being appended        *)
(* (_emit_locked).                                                         *)
THEOREM LogCorrect == Spec => []LogIsComplete
<1>1. Inductive => LogIsComplete
  BY DEF Inductive, LogIsComplete, Sound, InLine, Writing
<1>2. QED
  BY <1>1, InductiveHolds, PTL

(* Whatever a runner emits, under whatever name and however late, the rows *)
(* of a log tell one end, which the manager's own event began, and         *)
(* job_state.json says the same, or that the process died before the       *)
(* thread was through (_emit_locked, _run_job, _load_job_locked).          *)
THEOREM LogEndsCorrect == Spec => []LogEndsOnce
<1>1. Inductive => LogEndsOnce
  BY DEF Inductive, LogEndsOnce, Sound, LogOk, Chain, Last
<1>2. QED
  BY <1>1, InductiveHolds, PTL

(* A reader that resumes at the next index misses no event, over restarts  *)
(* too, and is told the end only when it has had all but what was emitted  *)
(* after it (event_batches).                                               *)
THEOREM ReadersCorrect == Spec => []ReadersMissNothing
<1>1. Inductive => ReadersMissNothing
  BY DEF Inductive, ReadersMissNothing, Had
<1>2. QED
  BY <1>1, InductiveHolds, PTL

(* A job that ended on disk is not changed again, by its thread, by a      *)
(* cancellation or by a manager that loads it.                             *)
THEOREM ResultCorrect == Spec => ResultStays
<1>1. Inductive /\ [Next]_vars =>
        \A j \in Jobs : writeErrors' = 0 /\ disk[j] \in Terminal => disk'[j] = disk[j]
  <2> SUFFICES ASSUME Inductive, [Next]_vars, NEW j \in Jobs, writeErrors' = 0,
                      disk[j] \in Terminal
               PROVE disk'[j] = disk[j]
    OBVIOUS
  <2>1. writeErrors = 0
    BY ErrorsStay
  <2>2. \A i \in Jobs : Sound(i)
    BY <2>1 DEF Inductive, WritesSucceed
  <2>3. QED
    BY <2>2, LogGrows
<1>2. QED
  BY <1>1, InductiveHolds, PTL DEF Spec, ResultStays
-----------------------------------------------------------------------------
(***************************************************************************)
(* The manager implements JobLifecycle while no write fails.  What a       *)
(* section will save follows on what the snapshot says: a job is saved as  *)
(* queued once, before it is active, and active before it ends.            *)
(***************************************************************************)
Stage(i) ==
  /\ thread[i] = "running" => disk[i] # "queued"
  /\ block.job = i =>
       /\ block.section = "start" => status[i] = "queued" /\ disk[i] = "absent"
       /\ block.section # "start" => disk[i] # "absent"
       /\ block.section = "run" => status[i] = "running"
       /\ block.section = "cancel" => status[i] = "cancel_requested"
       /\ block.section \in Ending => disk[i] # "queued"

(* A section begins from what the snapshot says.                           *)
LEMMA StageBegins ==
  ASSUME Inductive, \A j \in Jobs : Sound(j), NEW i \in Jobs, Stage(i),
         NEW j \in Jobs, NEW section \in Sections, NEW s \in RowStatus, NEW e \in Events,
         Begins(j, section, s, e)
  PROVE Stage(i)'
<1>1. Typed /\ Base(i) /\ Sound(i)
  BY DEF Inductive
<1>2. /\ block = NoBlock /\ block'.job = j /\ block'.section = section
      /\ disk' = disk /\ thread' = thread
      /\ status'[j] = s
  BY <1>1, BeginFacts
<1>3. block.job # i
  BY <1>1, <1>2, BlockCases
<1>4. CASE i # j
  BY <1>2, <1>4 DEF Stage
<1>5. CASE i = j
  <2>1. section # "start" => status[i] # "absent" /\ disk[i] = status[i]
    BY <1>1, <1>3, <1>5, Names
    DEF Begins, MayBegin, Sound, InLine, ThreadOk, Base, Over, Ending
  <2>2. section = "start" => disk[i] = "absent" /\ s = "queued"
    BY <1>5, Names DEF Begins, MayBegin, Fresh, Known, Ending
  <2>3. /\ section = "run" => s = "running"
        /\ section = "cancel" => s = "cancel_requested"
        /\ section \in Ending => thread[i] = "running"
    BY <1>1, <1>5 DEF Begins, MayBegin, Ending, Sound, ThreadOk
  <2>4. QED
    BY <1>2, <1>5, <2>1, <2>2, <2>3 DEF Stage
<1>6. QED
  BY <1>4, <1>5

(* The snapshot follows.                                                   *)
LEMMA StagePersist ==
  ASSUME Inductive, NEW i \in Jobs, Sound(i), Stage(i), PersistState
  PROVE Stage(i)'
<1>1. Typed
  BY DEF Inductive
<1>2. /\ block \in Blocks /\ block' = NoBlock
      /\ disk'[i] = IF i = block.job /\ status[i] # "absent" THEN status[i] ELSE disk[i]
      /\ i # block.job => thread'[i] = thread[i]
      /\ block.section = "start" => thread'[block.job] = "started"
      /\ block.section = "run" => thread'[block.job] = "running"
      /\ block.section \in Ending => thread'[block.job] = "dead"
      /\ block.section \in {"emit", "cancel"} => thread'[block.job] = thread[block.job]
  BY <1>1, PersistFacts
<1>3. block.job \in Jobs /\ block.section \in Sections
  BY <1>2 DEF Blocks
<1>4. block'.job # i
  BY <1>2, ManagerAssumption DEF NoBlock
<1>5. i = block.job /\ block.section = "emit" => status[i] \in {"absent", disk[i]}
  BY DEF Sound, InSection
<1>6. thread'[i] = "running" => disk'[i] # "queued"
  <2>1. CASE i # block.job
    BY <1>2, <2>1 DEF Stage
  <2>2. CASE i = block.job
    <3>1. CASE block.section = "emit"
      BY <1>2, <1>5, <2>2, <3>1 DEF Stage
    <3>2. CASE block.section # "emit"
      <4>1. disk'[i] = status[i] /\ (block.section \in Ending => thread'[i] # "running")
        BY <1>2, <2>2, <3>2 DEF Sound, InSection
      <4>2. block.section \in {"run", "cancel"} => status[i] # "queued"
        BY <2>2 DEF Stage
      <4>3. QED
        BY <1>2, <1>3, <2>2, <3>2, <4>1, <4>2 DEF Sections, Ending
    <3>3. QED
      BY <3>1, <3>2
  <2>3. QED
    BY <2>1, <2>2
<1>7. QED
  BY <1>4, <1>6 DEF Stage

(* So it is after every step without a failed write.                       *)
LEMMA StageStep ==
  ASSUME Inductive, [Next]_vars, writeErrors' = 0, \A j \in Jobs : Sound(j),
         NEW i \in Jobs, Stage(i)
  PROVE Stage(i)'
<1>1. Typed /\ (\A f \in Followers : Reading(f)) /\ Base(i) /\ Sound(i)
      /\ \A j \in Jobs : Base(j)
  BY DEF Inductive
<1>2. ~WriteFails
  BY <1>1 DEF WriteFails, Typed
<1>3. ASSUME AppendEvent PROVE Stage(i)'
  <2>1. /\ block'.job = block.job /\ block'.section = block.section
        /\ UNCHANGED <<memory, thread, disk>>
    BY <1>1, <1>3, AppendEventFacts
  <2>2. QED
    BY <2>1 DEF Stage, memory
<1>4. ASSUME NEW j \in Jobs, NEW e \in Events, Revives(j, e) PROVE Stage(i)'
  <2>1. /\ block = NoBlock /\ thread' = thread
        /\ block'.job = j /\ block'.section = "emit"
        /\ disk'[i] = IF i = j THEN Loaded(j) ELSE disk[i]
        /\ Loaded(j) \in Terminal
    BY <1>1, <1>4, ReviveFacts
  <2>2. QED
    BY <2>1, Names DEF Stage, Ending
<1>5. ASSUME NEW js \in SUBSET Jobs, Loads(js) PROVE Stage(i)'
  <2>1. /\ block = NoBlock /\ block' = block /\ thread' = thread
        /\ disk'[i] = IF i \in js THEN Loaded(i) ELSE disk[i]
        /\ i \in js => Loaded(i) \in Terminal
    BY <1>1, <1>5, LoadFacts
  <2>2. block'.job # i
    BY <1>1, <2>1, BlockCases
  <2>3. QED
    BY <2>1, <2>2, Names DEF Stage
<1>6. ASSUME Crash PROVE Stage(i)'
  <2>1. thread'[i] # "running" /\ block' = NoBlock
    BY <1>1, <1>6, CrashFacts
  <2>2. block'.job # i
    BY <2>1, ManagerAssumption DEF NoBlock
  <2>3. QED
    BY <2>1, <2>2 DEF Stage
<1>7. ASSUME Quiet PROVE Stage(i)'
  BY <1>7 DEF Stage, Quiet, memory, files
<1>8. QED
  BY <1>1, <1>2, <1>3, <1>4, <1>5, <1>6, <1>7, NextCases, StageBegins, StagePersist DEF Reading
-----------------------------------------------------------------------------
(* What JobLifecycle sees of a job.                                        *)
LEMMA LifecycleValues ==
  ASSUME NEW i \in Jobs
  PROVE /\ LifecycleJob[i] = LifecycleOf(i) /\ LifecycleJob'[i] = LifecycleOf(i)'
        /\ disk[i] = "absent" => LifecycleOf(i) = "new"
        /\ disk[i] \in Terminal => LifecycleOf(i) = disk[i]
        /\ disk[i] \notin Terminal /\ disk[i] # "absent" =>
             LifecycleOf(i) = IF status[i] = "absent" THEN "failed"
                              ELSE IF disk[i] = "queued" THEN "queued" ELSE "active"
<1>1. "absent" \notin Terminal
  BY Names
<1>2. QED
  BY <1>1 DEF LifecycleJob, LifecycleOf

(* It sees the same of a job whose snapshot is replaced by no other, and   *)
(* that is loaded or not as before.                                        *)
LEMMA LifecycleStays ==
  ASSUME NEW i \in Jobs, disk'[i] = disk[i],
         disk[i] \in Terminal \/ disk[i] = "absent" \/ (status'[i] = "absent" <=> status[i] = "absent")
  PROVE LifecycleOf(i)' = LifecycleOf(i)
<1>1. "absent" \notin Terminal
  BY Names
<1>2. CASE disk[i] \in Terminal \/ disk[i] = "absent"
  BY <1>1, <1>2 DEF LifecycleOf
<1>3. CASE status'[i] = "absent" <=> status[i] = "absent"
  BY <1>3 DEF LifecycleOf
<1>4. QED
  BY <1>2, <1>3

(* A snapshot of a job that is in memory shows as a step of JobLifecycle.  *)
LEMMA LifecyclePersist ==
  ASSUME Inductive, \A j \in Jobs : Sound(j), \A j \in Jobs : Stage(j), PersistState
  PROVE Lifecycle!Next \/ UNCHANGED LifecycleJob
<1>1. Typed
  BY DEF Inductive
<1>2. /\ block \in Blocks /\ block' = NoBlock
      /\ \A i \in Jobs : disk'[i] =
           IF i = block.job /\ status[i] # "absent" THEN status[i] ELSE disk[i]
      /\ \A i \in Jobs : Left(i, status, events)
      /\ block.section \notin Ending => UNCHANGED memory
  BY <1>1, PersistFacts
<1>3. PICK j \in Jobs : j = block.job /\ block.section \in Sections
  BY <1>2 DEF Blocks
<1>4. /\ status[j] \in JobStatus /\ disk[j] \in JobStatus /\ Stage(j) /\ InSection(j)
      /\ block.section # "emit" => status[j] # "absent" /\ disk[j] \notin Terminal
      /\ block.section = "emit" => status[j] \in {"absent", disk[j]}
  BY <1>1, <1>3 DEF Sound, InSection, Typed
<1>5. /\ disk'[j] = IF block.section = "emit" THEN disk[j] ELSE status[j]
      /\ \A i \in Jobs \ {j} : disk'[i] = disk[i]
  BY <1>2, <1>3, <1>4
<1>6. ASSUME NEW i \in Jobs \ {j} PROVE LifecycleOf(i)' = LifecycleOf(i)
  <2>1. \/ status'[i] = "absent" /\ status[i] \in Terminal
        \/ status'[i] = status[i]
    BY <1>2 DEF Left
  <2>2. status[i] \in Terminal => disk[i] = status[i]
    BY <1>3, Names DEF Sound, InLine
  <2>3. QED
    BY <1>5, <2>1, <2>2, LifecycleStays
<1>7. LifecycleJob' = [i \in Jobs |-> IF i = j THEN LifecycleOf(j)' ELSE LifecycleJob[i]]
  <2>1. \A i \in Jobs : LifecycleJob[i] = LifecycleOf(i)
    BY LifecycleValues
  <2>2. LifecycleJob' = [i \in Jobs |-> LifecycleOf(i)']
    BY DEF LifecycleJob
  <2>3. QED
    BY <1>6, <2>1, <2>2
<1>8. LifecycleJob \in [Jobs -> {"new", "queued", "active"} \cup Terminal]
  BY Names DEF LifecycleJob, LifecycleOf
<1>9. LifecycleJob' = [LifecycleJob EXCEPT ![j] = LifecycleOf(j)']
  BY <1>3, <1>7, <1>8
<1>10. CASE block.section = "start"
  <2>1. LifecycleJob[j] = "new"
    BY <1>3, <1>4, <1>10, LifecycleValues DEF Stage
  <2>2. status[j] = "queued" /\ status' = status
    BY <1>2, <1>3, <1>4, <1>10 DEF Stage, Ending, memory
  <2>3. LifecycleOf(j)' = "queued"
    BY <1>5, <1>10, <2>2, Names DEF LifecycleOf
  <2>4. Cardinality(Lifecycle!Open) < Cardinality(Jobs)
    <3>1. Lifecycle!Open \subseteq Jobs \ {j}
      BY <2>1 DEF Lifecycle!Open
    <3>2. IsFiniteSet(Jobs) /\ IsFiniteSet(Jobs \ {j})
      BY ManagerAssumption, FS_Difference
    <3>3. Cardinality(Jobs \ {j}) = Cardinality(Jobs) - 1
      BY <1>3, <3>2, FS_RemoveElement
    <3>4. Cardinality(Lifecycle!Open) <= Cardinality(Jobs \ {j})
      BY <3>1, <3>2, FS_Subset
    <3>5. Cardinality(Jobs) \in Nat /\ Cardinality(Lifecycle!Open) \in Nat
      BY <3>1, <3>2, FS_Subset, FS_CardinalityType
    <3>6. QED
      BY <3>3, <3>4, <3>5
  <2>5. Lifecycle!Cardinality(Lifecycle!Open) = Cardinality(Lifecycle!Open)
    BY DEF Lifecycle!Cardinality, Cardinality
  <2>6. Lifecycle!Submit(j, {})
    BY <1>7, <2>1, <2>3, <2>4, <2>5 DEF Lifecycle!Submit
  <2>7. QED
    BY <1>3, <2>6 DEF Lifecycle!Next
<1>11. CASE block.section = "emit"
  <2>1. UNCHANGED status
    BY <1>2, <1>11 DEF Ending, memory
  <2>2. LifecycleOf(j)' = LifecycleOf(j)
    BY <1>3, <1>5, <1>11, <2>1, LifecycleStays
  <2>3. QED
    BY <1>3, <1>8, <1>9, <2>2, LifecycleValues
<1>12. CASE block.section \in {"run", "cancel"}
  <2>1. /\ UNCHANGED status /\ status[j] \in {"running", "cancel_requested"}
        /\ disk[j] # "absent"
    BY <1>2, <1>3, <1>4, <1>12 DEF Stage, Ending, memory
  <2>2. LifecycleOf(j)' = "active"
    BY <1>5, <1>12, <2>1, Names DEF LifecycleOf
  <2>3. LifecycleJob[j] \in {"queued", "active"}
    BY <1>3, <1>4, <1>12, <2>1, LifecycleValues
  <2>4. Lifecycle!Start(j) \/ UNCHANGED LifecycleJob
    BY <1>3, <1>8, <1>9, <2>2, <2>3 DEF Lifecycle!Start
  <2>5. QED
    BY <1>3, <2>4 DEF Lifecycle!Next
<1>13. CASE block.section \in Ending
  <2>1. /\ status[j] \in Terminal /\ disk[j] \notin {"absent", "queued"}
    BY <1>3, <1>4, <1>13 DEF Stage, InSection, Ending
  <2>2. LifecycleOf(j)' = status[j]
    BY <1>5, <1>13, <2>1, Names DEF LifecycleOf, Ending
  <2>3. LifecycleJob[j] = "active"
    BY <1>3, <1>4, <1>13, <2>1, LifecycleValues DEF Ending
  <2>4. Lifecycle!End({j}, status[j])
    BY <1>3, <1>7, <2>2, <2>3 DEF Lifecycle!End
  <2>5. QED
    BY <1>3, <2>1, <2>4 DEF Lifecycle!Next
<1>14. QED
  BY <1>3, <1>10, <1>11, <1>12, <1>13 DEF Sections, Ending

(* A job that had not ended when the process died has failed.              *)
LEMMA LifecycleCrash ==
  ASSUME Inductive, Crash
  PROVE Lifecycle!Next
<1> DEFINE js == {i \in Jobs : LifecycleJob[i] \in {"queued", "active"}}
<1>1. disk' = disk /\ \A i \in Jobs : status'[i] = "absent"
  BY CrashFacts DEF Inductive
<1>2. ASSUME NEW i \in Jobs
      PROVE LifecycleOf(i)' = IF i \in js THEN "failed" ELSE LifecycleJob[i]
  <2>1. "absent" \notin Terminal /\ "queued" \notin Terminal /\ "active" \notin Terminal
    BY Names
  <2>2. LifecycleOf(i)' = IF disk[i] = "absent" THEN "new"
                          ELSE IF disk[i] \in Terminal THEN disk[i] ELSE "failed"
    BY <1>1, <2>1 DEF LifecycleOf
  <2>3. QED
    BY <2>1, <2>2, LifecycleValues
<1>3. LifecycleJob' = [i \in Jobs |-> IF i \in js THEN "failed" ELSE LifecycleJob[i]]
  BY <1>2 DEF LifecycleJob
<1>4. "failed" \in Terminal /\ js \in SUBSET Jobs
  BY Names
<1>5. Lifecycle!End(js, "failed")
  BY <1>3 DEF Lifecycle!End
<1> HIDE DEF js
<1>6. QED
  BY <1>4, <1>5 DEF Lifecycle!Next

(* A step without a failed write is one of JobLifecycle, or does not show. *)
LEMMA LifecycleStep ==
  ASSUME Inductive, [Next]_vars, writeErrors' = 0, \A j \in Jobs : Sound(j),
         \A j \in Jobs : Stage(j)
  PROVE Lifecycle!Next \/ UNCHANGED LifecycleJob
<1>1. Typed /\ (\A f \in Followers : Reading(f)) /\ (\A j \in Jobs : Base(j))
  BY DEF Inductive
<1>2. ~WriteFails
  BY <1>1 DEF WriteFails, Typed
<1>3. (\A i \in Jobs : LifecycleOf(i)' = LifecycleOf(i)) => UNCHANGED LifecycleJob
  BY DEF LifecycleJob
<1>4. ASSUME NEW j \in Jobs, NEW section \in Sections, NEW s \in RowStatus, NEW e \in Events,
             Begins(j, section, s, e), NEW i \in Jobs
      PROVE LifecycleOf(i)' = LifecycleOf(i)
  <2>1. /\ disk' = disk /\ status'[j] = s
        /\ i # j => status'[i] = status[i]
    BY <1>1, <1>4, BeginFacts
  <2>2. section = "start" => disk[j] = "absent"
    BY <1>4, Names DEF Begins, MayBegin, Fresh, Known, Ending
  <2>3. section # "start" => status[j] # "absent" /\ s # "absent"
    BY <1>1, <1>4, Names DEF Begins, MayBegin, Base, Over, Ending
  <2>4. QED
    BY <2>1, <2>2, <2>3, LifecycleStays
<1>5. ASSUME NEW j \in Jobs, NEW e \in Events, Revives(j, e), NEW i \in Jobs
      PROVE LifecycleOf(i)' = LifecycleOf(i)
  <2>1. /\ block = NoBlock /\ status[j] = "absent" /\ disk[j] # "absent"
        /\ Loaded(j) \in Terminal
        /\ disk'[i] = IF i = j THEN Loaded(j) ELSE disk[i]
        /\ i # j => Left(i, status, events)
    BY <1>1, <1>5, ReviveFacts
  <2>2. CASE i = j
    <3>1. LifecycleOf(i) = Loaded(i)
      BY <2>1, <2>2, LifecycleValues DEF Loaded
    <3>2. LifecycleOf(i)' = disk'[i]
      BY <2>1, <2>2, Names DEF LifecycleOf
    <3>3. QED
      BY <2>1, <2>2, <3>1, <3>2
  <2>3. CASE i # j
    <3>1. status'[i] = status[i] \/ status[i] \in Terminal
      BY <2>1, <2>3 DEF Left
    <3>2. status[i] \in Terminal => disk[i] = status[i]
      BY <1>1, <2>1, BlockCases, Names DEF Sound, InLine
    <3>3. QED
      BY <2>1, <2>3, <3>1, <3>2, LifecycleStays
  <2>4. QED
    BY <2>2, <2>3
<1>6. ASSUME AppendEvent \/ Quiet, NEW i \in Jobs PROVE LifecycleOf(i)' = LifecycleOf(i)
  BY <1>6, LifecycleStays DEF AppendEvent, Quiet, memory, files
<1>7. ASSUME NEW js \in SUBSET Jobs, Loads(js), NEW i \in Jobs
      PROVE LifecycleOf(i)' = LifecycleOf(i)
  <2>1. /\ block = NoBlock
        /\ i \in js => /\ status[i] = "absent" /\ disk[i] # "absent" /\ Loaded(i) \in Terminal
        /\ disk'[i] = IF i \in js THEN Loaded(i) ELSE disk[i]
        /\ i \notin js => Left(i, status, events)
    BY <1>1, <1>7, LoadFacts
  <2>2. CASE i \in js
    <3>1. LifecycleOf(i) = Loaded(i)
      BY <2>1, <2>2, LifecycleValues DEF Loaded
    <3>2. LifecycleOf(i)' = disk'[i]
      BY <2>1, <2>2, Names DEF LifecycleOf
    <3>3. QED
      BY <2>1, <2>2, <3>1, <3>2
  <2>3. CASE i \notin js
    <3>1. status'[i] = status[i] \/ status[i] \in Terminal
      BY <2>1, <2>3 DEF Left
    <3>2. status[i] \in Terminal => disk[i] = status[i]
      BY <1>1, <2>1, BlockCases, Names DEF Sound, InLine
    <3>3. QED
      BY <2>1, <2>3, <3>1, <3>2, LifecycleStays
  <2>4. QED
    BY <2>2, <2>3
<1>8. QED
  BY <1>1, <1>2, <1>3, <1>4, <1>5, <1>6, <1>7, NextCases, LifecyclePersist, LifecycleCrash DEF Reading

(* While no write fails, the manager implements JobLifecycle: a job is     *)
(* started at most once and has one result, over restarts too.             *)
THEOREM ImplementsLifecycle == Spec => LifecycleWhileWritesSucceed
<1> DEFINE Staged == WritesSucceed => \A i \in Jobs : Stage(i)
<1>1. Init => Lifecycle!Init
  <2>1. ASSUME Init, NEW j \in Jobs PROVE LifecycleOf(j) = "new"
    BY <2>1 DEF Init, LifecycleOf
  <2>2. QED
    BY <2>1 DEF Lifecycle!Init, LifecycleJob
<1>2. Init => Staged
  <2>1. ASSUME Init, NEW i \in Jobs PROVE Stage(i)
    BY <2>1, ManagerAssumption DEF Init, Stage, NoBlock
  <2>2. QED
    BY <2>1
<1>3. Inductive /\ Staged /\ [Next]_vars => Staged'
  BY ErrorsStay, StageStep DEF Inductive, WritesSucceed
<1>4. Inductive /\ Staged /\ [Next]_vars =>
        [writeErrors' = 0 => Lifecycle!Next \/ UNCHANGED LifecycleJob]_vars
  BY ErrorsStay, LifecycleStep DEF Inductive, WritesSucceed
<1> HIDE DEF Staged
<1>5. QED
  BY <1>1, <1>2, <1>3, <1>4, InductiveHolds, PTL DEF Spec, LifecycleWhileWritesSucceed
=============================================================================
