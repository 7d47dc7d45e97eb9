-------------------------- MODULE JobRegistry_proofs --------------------------
(***************************************************************************)
(* Proofs about JobRegistry, for every number of requests, sessions,       *)
(* cancellers and slots.                                                   *)
(***************************************************************************)
EXTENDS JobRegistry, FiniteSetTheorems, TLAPS

(* The type invariant, but for the upper bound of the semaphore.           *)
Typed ==
  /\ entry \in [Sessions -> Requests \cup {None, Reserved}]
  /\ pc \in [Requests -> {"idle", "reserved"} \cup Alive \cup Finished]
  /\ capacity \in [Requests -> {"none", "asking", "granted", "cancelled"}]
  /\ heartbeat \in [Requests -> {"none", "beating", "owned", "lost"}]
  /\ owner \in SUBSET Requests
  /\ cancelled \in SUBSET Requests
  /\ discarded \in SUBSET Requests
  /\ free \in Nat
  /\ waiting \in [Cancellers -> Requests \cup {None}]

(* Where a task is tells whether it has asked for a slot.                  *)
CapacityOf(r) ==
  /\ pc[r] \in {"idle", "reserved", "created"} => capacity[r] = "none"
  /\ capacity[r] = "asking" => pc[r] = "gate"
  /\ pc[r] \in {"proof", "running"} => capacity[r] = "granted"

(* A job that was cancelled in the queue will find out.                    *)
Doomed(r) ==
  /\ pc[r] \in {"created", "gate"} => r \in cancelled
  /\ pc[r] = "proof" => r \in cancelled \/ heartbeat[r] = "lost"
  /\ pc[r] \notin {"idle", "reserved", "running"}

Slots == {r \in Requests : capacity[r] = "granted" /\ pc[r] # "over"}

Inductive ==
  /\ Typed
  /\ \A r \in Requests : CapacityOf(r)
  /\ \A r \in discarded : Doomed(r)
  /\ OneJobPerSession
  /\ SlotsConserved

(* The places of a task are different.                                      *)
LEMMA Places ==
  /\ Alive = {"created", "gate", "proof", "drain capacity", "drain heartbeat", "running"}
  /\ Finished = {"over", "aborted"}
  /\ Queued = {"created", "gate", "proof"}
  /\ Draining = {"drain capacity", "drain heartbeat"}
  BY DEF Alive, Finished, Queued, Draining

(* A step is one of these, or changes nothing.                              *)
Request(r) == Reserve(r) \/ Release(r) \/ Start(r)

(* The actions in which a task goes on, by what they do to its cleanup.     *)
TaskMoves(r) ==
  \/ CancelledBeforeStart(r) \/ BeginGate(r) \/ AbortCleanup(r)
  \/ Grant(r) \/ Heartbeat(r) \/ LoseOwnership(r)
TaskCleans(r) ==
  Gate(r) \/ Proof(r) \/ PipelineEnds(r) \/ DrainCapacity(r) \/ DrainHeartbeat(r)

(* How a step may be split.                                                 *)
LEMMA NextCases ==
  ASSUME [Next]_vars
  PROVE \/ \E r \in Requests : Request(r) \/ TaskMoves(r) \/ TaskCleans(r)
        \/ \E c \in Cancellers : (\E s \in Sessions : Cancel(c, s)) \/ CancelDone(c)
                                 \/ CancelTimesOut(c)
        \/ UNCHANGED vars
  BY DEF Next, Turn, Request, TaskMoves, TaskCleans

(* What a task does that cleans up or goes on to run: it starts to drain,  *)
(* goes on, or ends.                                                        *)
Drains(r) ==
  \/ /\ capacity[r] = "asking"
     /\ capacity' = [capacity EXCEPT ![r] = "cancelled"]
     /\ pc' = [pc EXCEPT ![r] = "drain capacity"]
     /\ UNCHANGED <<entry, heartbeat, free>>
  \/ /\ capacity[r] # "asking"
     /\ heartbeat' = [heartbeat EXCEPT ![r] = "lost"]
     /\ pc' = [pc EXCEPT ![r] = "drain heartbeat"]
     /\ UNCHANGED <<entry, capacity, free>>
GoesOn(r) ==
  /\ \/ /\ pc[r] = "gate" /\ capacity[r] = "granted" /\ heartbeat[r] # "lost"
        /\ pc' = [pc EXCEPT ![r] = "proof"]
     \/ /\ pc[r] = "proof" /\ heartbeat[r] = "owned"
        /\ pc' = [pc EXCEPT ![r] = "running"]
  /\ r \notin cancelled
  /\ UNCHANGED <<entry, capacity, heartbeat, free>>

(* These are all.                                                           *)
LEMMA CleanCases ==
  ASSUME NEW r \in Requests, TaskCleans(r), CapacityOf(r)
  PROVE /\ Drains(r) \/ GoesOn(r) \/ (capacity[r] # "asking" /\ End(r))
        /\ pc[r] \in Alive \ {"created"}
        /\ cancelled' = cancelled \ {r} \/ (cancelled' = cancelled /\ pc[r] \notin Queued)
        /\ r \in cancelled' => pc[r] = "running"
        /\ pc[r] = "gate" => r \in cancelled \/ heartbeat[r] = "lost" \/ GoesOn(r)
        /\ UNCHANGED <<owner, discarded, waiting>>
<1>1. CASE Gate(r)
  BY <1>1, Places DEF Gate, Cleanup, EndHeartbeat, Drains, GoesOn, Answered
<1>2. CASE Proof(r)
  BY <1>2, Places DEF Proof, Cleanup, EndHeartbeat, Drains, GoesOn, Owns, CapacityOf
<1>3. CASE PipelineEnds(r)
  BY <1>3, Places DEF PipelineEnds, CapacityOf
<1>4. CASE DrainCapacity(r)
  BY <1>4, Places DEF DrainCapacity, EndHeartbeat, Drains, CapacityOf
<1>5. CASE DrainHeartbeat(r)
  BY <1>5, Places DEF DrainHeartbeat, CapacityOf
<1> QED
  BY <1>1, <1>2, <1>3, <1>4, <1>5 DEF TaskCleans
-----------------------------------------------------------------------------
(* Every step keeps the types.                                              *)
LEMMA TypedStep ==
  ASSUME Typed, \A r \in Requests : CapacityOf(r), [Next]_vars
  PROVE Typed'
<1>1. ASSUME NEW r \in Requests, Request(r) PROVE Typed'
  <2>1. CASE Reserve(r)
    BY <2>1, RegistryAssumption, Places DEF Typed, Reserve
  <2>2. CASE Release(r)
    BY <2>2, RegistryAssumption, Places DEF Typed, Release
  <2>3. CASE Start(r)
    BY <2>3, RegistryAssumption, Places DEF Typed, Start
  <2>4. QED
    BY <1>1, <2>1, <2>2, <2>3 DEF Request
<1>2. ASSUME NEW r \in Requests, TaskMoves(r) PROVE Typed'
  <2>1. CASE CancelledBeforeStart(r)
    BY <2>1, Places DEF Typed, taskVars, CancelledBeforeStart
  <2>2. CASE BeginGate(r)
    BY <2>2, Places DEF Typed, taskVars, BeginGate
  <2>3. CASE AbortCleanup(r)
    BY <2>3, Places DEF Typed, taskVars, AbortCleanup
  <2>4. CASE Grant(r)
    <3>1. free' \in Nat
      BY <2>4 DEF Typed, Grant
    <3>2. QED
      BY <2>4, <3>1 DEF Typed, Grant
  <2>5. CASE Heartbeat(r)
    BY <2>5, Places DEF Typed, taskVars, Heartbeat
  <2>6. CASE LoseOwnership(r)
    BY <2>6, Places DEF Typed, taskVars, LoseOwnership
  <2>7. QED
    BY <1>2, <2>1, <2>2, <2>3, <2>4, <2>5, <2>6 DEF TaskMoves
<1>3. ASSUME NEW r \in Requests, TaskCleans(r) PROVE Typed'
  <2> DEFINE C == /\ cancelled' \in SUBSET Requests
                  /\ UNCHANGED <<owner, discarded, waiting>>
  <2>1. C /\ (Drains(r) \/ GoesOn(r) \/ End(r))
    BY <1>3, CleanCases DEF Typed
  <2>2. CASE Drains(r)
    BY <2>1, <2>2, Places DEF Typed, Drains
  <2>3. CASE GoesOn(r)
    BY <2>1, <2>3, Places DEF Typed, GoesOn
  <2>4. CASE End(r)
    <3>1. free' \in Nat
      BY <2>4 DEF Typed, End, Released
    <3>2. entry' \in [Sessions -> Requests \cup {None, Reserved}]
      BY <2>4 DEF Typed, End
    <3>3. QED
      BY <2>1, <2>4, <3>1, <3>2, Places DEF Typed, End
  <2>5. QED
    BY <2>1, <2>2, <2>3, <2>4
<1>4. ASSUME NEW c \in Cancellers, NEW s \in Sessions, Cancel(c, s) PROVE Typed'
  BY <1>4 DEF Typed, Cancel
<1>5. ASSUME NEW c \in Cancellers, CancelDone(c) PROVE Typed'
  <2>1. entry' \in [Sessions -> Requests \cup {None, Reserved}]
    BY <1>5 DEF Typed, CancelDone
  <2>2. QED
    BY <1>5, <2>1 DEF Typed, CancelDone, taskVars
<1>6. ASSUME NEW c \in Cancellers, CancelTimesOut(c) PROVE Typed'
  BY <1>6 DEF Typed, CancelTimesOut, taskVars
<1>7. CASE UNCHANGED vars
  BY <1>7 DEF Typed, vars, taskVars
<1>8. QED
  BY <1>1, <1>2, <1>3, <1>4, <1>5, <1>6, <1>7, NextCases

(* Every step keeps what is known of the slot a task asks for.              *)
LEMMA CapacityStep ==
  ASSUME Typed, \A r \in Requests : CapacityOf(r), [Next]_vars, NEW q \in Requests
  PROVE CapacityOf(q)'
<1>1. ASSUME NEW r \in Requests, Request(r) PROVE CapacityOf(q)'
  BY <1>1 DEF Typed, CapacityOf, Request, Reserve, Release, Start
<1>2. ASSUME NEW r \in Requests, TaskMoves(r) PROVE CapacityOf(q)'
  BY <1>2, Places
  DEF Typed, CapacityOf, TaskMoves, CancelledBeforeStart, BeginGate, AbortCleanup, Grant,
      Heartbeat, LoseOwnership, taskVars
<1>3. ASSUME NEW r \in Requests, TaskCleans(r) PROVE CapacityOf(q)'
  <2>1. Drains(r) \/ GoesOn(r) \/ (capacity[r] # "asking" /\ End(r))
    BY <1>3, CleanCases
  <2>2. QED
    BY <2>1 DEF Typed, CapacityOf, Drains, GoesOn, End
<1>4. ASSUME NEW c \in Cancellers, NEW s \in Sessions, Cancel(c, s) PROVE CapacityOf(q)'
  BY <1>4 DEF CapacityOf, Cancel
<1>5. ASSUME NEW c \in Cancellers, CancelDone(c) \/ CancelTimesOut(c) PROVE CapacityOf(q)'
  BY <1>5 DEF CapacityOf, CancelDone, CancelTimesOut, taskVars
<1>6. CASE UNCHANGED vars
  BY <1>6 DEF CapacityOf, vars, taskVars
<1>7. QED
  BY <1>1, <1>2, <1>3, <1>4, <1>5, <1>6, NextCases

(* Every step keeps a cancelled job from going on.                          *)
LEMMA DoomedStep ==
  ASSUME Typed, \A r \in Requests : CapacityOf(r), \A r \in discarded : Doomed(r),
         [Next]_vars, NEW q \in discarded'
  PROVE Doomed(q)'
<1>1. ASSUME NEW r \in Requests, Request(r) PROVE Doomed(q)'
  BY <1>1 DEF Typed, Doomed, Request, Reserve, Release, Start
<1>2. ASSUME NEW r \in Requests, TaskMoves(r) PROVE Doomed(q)'
  BY <1>2, Places
  DEF Typed, Doomed, TaskMoves, CancelledBeforeStart, BeginGate, AbortCleanup, Grant,
      Heartbeat, LoseOwnership, taskVars
<1>3. ASSUME NEW r \in Requests, TaskCleans(r) PROVE Doomed(q)'
  <2>1. /\ Drains(r) \/ GoesOn(r) \/ End(r)
        /\ cancelled' = cancelled \ {r} \/ cancelled' = cancelled
        /\ pc[r] = "gate" => r \in cancelled \/ heartbeat[r] = "lost" \/ GoesOn(r)
        /\ q \in discarded
    BY <1>3, CleanCases
  <2>2. Doomed(q)
    BY <2>1
  <2>3. CASE Drains(r)
    BY <2>1, <2>2, <2>3 DEF Typed, Doomed, Drains
  <2>4. CASE GoesOn(r)
    BY <2>1, <2>2, <2>4 DEF Typed, Doomed, GoesOn
  <2>5. CASE End(r)
    BY <2>1, <2>2, <2>5 DEF Typed, Doomed, End
  <2>6. QED
    BY <2>1, <2>3, <2>4, <2>5
<1>4. ASSUME NEW c \in Cancellers, NEW s \in Sessions, Cancel(c, s) PROVE Doomed(q)'
  <2> DEFINE r == entry[s]
  <2>1. r \in Requests /\ pc[r] \in Alive /\ pc' = pc
    BY <1>4 DEF Cancel
  <2>2. q # r => q \in discarded /\ Doomed(q)
    BY <1>4, <2>1 DEF Cancel
  <2>3. q = r => pc[r] # "running"
    BY <1>4, <2>1, Places DEF Cancel, Doomed
  <2>4. CASE pc[r] = "proof" /\ heartbeat[r] = "beating"
    <3>1. heartbeat' = [heartbeat EXCEPT ![r] = "lost"] /\ cancelled' = cancelled
          /\ capacity' = capacity
      BY <1>4, <2>4 DEF Cancel
    <3>2. CASE q = r
      BY <2>1, <2>4, <3>1, <3>2 DEF Typed, Doomed
    <3>3. CASE q # r
      BY <2>1, <2>2, <3>1, <3>3 DEF Typed, Doomed
    <3>4. QED
      BY <3>2, <3>3
  <2>5. CASE ~(pc[r] = "proof" /\ heartbeat[r] = "beating")
    BY <1>4, <2>1, <2>2, <2>3, <2>5, Places DEF Typed, Doomed, Cancel
  <2>6. QED
    BY <2>4, <2>5
<1>5. ASSUME NEW c \in Cancellers, CancelDone(c) \/ CancelTimesOut(c) PROVE Doomed(q)'
  BY <1>5 DEF Doomed, CancelDone, CancelTimesOut, taskVars
<1>6. CASE UNCHANGED vars
  BY <1>6 DEF Doomed, vars, taskVars
<1>7. QED
  BY <1>1, <1>2, <1>3, <1>4, <1>5, <1>6, NextCases
-----------------------------------------------------------------------------
(* Where the entry of a job or reservation is what it must be.             *)
Sole(q) == pc[q] \in Alive => entry[SessionOf[q]] = q
Placed(q) == pc[q] = "reserved" => entry[SessionOf[q]] = Reserved
Apart(p, q) == pc[p] = "reserved" /\ pc[q] = "reserved" => SessionOf[p] # SessionOf[q]

(* OneJobPerSession, request by request.                                   *)
LEMMA OneJobParts ==
  /\ OneJobPerSession <=>
       /\ \A q \in Requests : Sole(q) /\ Placed(q)
       /\ \A p, q \in Requests : p # q => Apart(p, q)
  /\ OneJobPerSession' <=>
       /\ \A q \in Requests : Sole(q)' /\ Placed(q)'
       /\ \A p, q \in Requests : p # q => Apart(p, q)'
  BY DEF OneJobPerSession, Sole, Placed, Apart

(* A task that stays alive, or finishes, while entries of others stay.     *)
LEMMA OneJobKept ==
  ASSUME OneJobPerSession,
         \A q \in Requests : pc'[q] \in Alive => pc[q] \in Alive,
         \A q \in Requests : pc'[q] = "reserved" => pc[q] = "reserved",
         \A s \in Sessions : \/ entry'[s] = entry[s]
                             \/ entry[s] \in Requests /\ pc'[entry[s]] \in Finished
  PROVE OneJobPerSession'
<1>1. \A q \in Requests : SessionOf[q] \in Sessions
  BY RegistryAssumption
<1>2. ASSUME NEW q \in Requests PROVE Sole(q)'
  BY <1>1, OneJobParts, Places DEF Sole
<1>3. ASSUME NEW q \in Requests PROVE Placed(q)'
  BY <1>1, OneJobParts, RegistryAssumption DEF Placed
<1>4. ASSUME NEW p \in Requests, NEW q \in Requests, p # q PROVE Apart(p, q)'
  BY <1>4, OneJobParts DEF Apart
<1>5. QED
  BY <1>2, <1>3, <1>4, OneJobParts

(* A reservation takes an entry that nobody needs, and gives it back.      *)
LEMMA OneJobRequest ==
  ASSUME Typed, OneJobPerSession, NEW r \in Requests, Request(r)
  PROVE OneJobPerSession'
<1> DEFINE s == SessionOf[r]
<1>1. s \in Sessions /\ \A q \in Requests : SessionOf[q] \in Sessions
  BY RegistryAssumption
<1>2. \A q \in Requests : q # Reserved /\ q # None
  BY RegistryAssumption
<1>3. \A q \in Requests \ {r} : pc'[q] = pc[q]
  BY DEF Typed, Request, Reserve, Release, Start
<1>4. \A x \in Sessions \ {s} : entry'[x] = entry[x]
  BY <1>1 DEF Typed, Request, Reserve, Release, Start
<1>5. ASSUME NEW q \in Requests \ {r}, SessionOf[q] = s
      PROVE pc[q] \notin Alive \cup {"reserved"}
  <2>1. CASE Reserve(r)
    BY <1>2, <1>5, <2>1, OneJobParts, Places DEF Reserve, Available, Sole, Placed
  <2>2. CASE Release(r) \/ Start(r)
    <3>1. pc[r] = "reserved" /\ entry[s] = Reserved
      BY <2>2 DEF Release, Start
    <3>2. pc[q] \notin Alive
      BY <1>2, <1>5, <3>1, OneJobParts DEF Sole
    <3>3. pc[q] # "reserved"
      BY <1>5, <3>1, OneJobParts DEF Apart
    <3>4. QED
      BY <3>2, <3>3
  <2>3. QED
    BY <2>1, <2>2 DEF Request
<1>6. \/ pc'[r] = "reserved" /\ entry'[s] = Reserved
      \/ pc'[r] = "idle"
      \/ pc'[r] = "created" /\ entry'[s] = r
  BY <1>1 DEF Typed, Request, Reserve, Release, Start
<1>7. ASSUME NEW q \in Requests PROVE Sole(q)' /\ Placed(q)'
  <2>1. CASE q = r
    BY <1>6, <2>1, Places DEF Sole, Placed
  <2>2. CASE q # r
    BY <1>1, <1>3, <1>4, <1>5, <2>2, OneJobParts DEF Sole, Placed
  <2>3. QED
    BY <2>1, <2>2
<1>8. ASSUME NEW p \in Requests, NEW q \in Requests, p # q PROVE Apart(p, q)'
  <2>1. CASE p = r
    BY <1>3, <1>5, <1>8, <2>1 DEF Apart
  <2>2. CASE q = r
    BY <1>3, <1>5, <1>8, <2>2 DEF Apart
  <2>3. CASE p # r /\ q # r
    BY <1>3, <1>8, <2>3, OneJobParts DEF Apart
  <2>4. QED
    BY <2>1, <2>2, <2>3
<1>9. QED
  BY <1>7, <1>8, OneJobParts

(* Every step keeps one job per session.                                    *)
LEMMA OneJobStep ==
  ASSUME Typed, \A r \in Requests : CapacityOf(r), OneJobPerSession, [Next]_vars
  PROVE OneJobPerSession'
<1> DEFINE Kept ==
      /\ \A q \in Requests : pc'[q] \in Alive => pc[q] \in Alive
      /\ \A q \in Requests : pc'[q] = "reserved" => pc[q] = "reserved"
      /\ \A s \in Sessions : \/ entry'[s] = entry[s]
                             \/ entry[s] \in Requests /\ pc'[entry[s]] \in Finished
<1>1. ASSUME NEW r \in Requests, TaskMoves(r) PROVE Kept
  <2>1. entry' = entry
    BY <1>1 DEF TaskMoves, CancelledBeforeStart, BeginGate, AbortCleanup, Grant, Heartbeat,
                LoseOwnership
  <2>2. \/ pc' = pc
        \/ pc[r] \in Alive /\ pc' = [pc EXCEPT ![r] = "over"]
        \/ pc[r] \in Alive /\ pc' = [pc EXCEPT ![r] = "gate"]
        \/ pc[r] \in Alive /\ pc' = [pc EXCEPT ![r] = "aborted"]
    BY <1>1, Places DEF TaskMoves, CancelledBeforeStart, BeginGate, AbortCleanup, Grant,
                        Heartbeat, LoseOwnership, taskVars
  <2>3. QED
    BY <2>1, <2>2, Places DEF Typed
<1>2. ASSUME NEW r \in Requests, TaskCleans(r) PROVE Kept
  <2>1. (Drains(r) \/ GoesOn(r) \/ End(r)) /\ pc[r] \in Alive
    BY <1>2, CleanCases
  <2>2. CASE Drains(r) \/ GoesOn(r)
    BY <2>1, <2>2, Places DEF Typed, Drains, GoesOn
  <2>3. CASE End(r)
    <3>1. \A s \in Sessions : entry'[s] = entry[s] \/ entry[s] = r
      BY <2>3 DEF Typed, End
    <3>2. pc' = [pc EXCEPT ![r] = "over"]
      BY <2>3 DEF End
    <3>3. QED
      BY <2>1, <3>1, <3>2, Places DEF Typed
  <2>4. QED
    BY <2>1, <2>2, <2>3
<1>3. ASSUME NEW c \in Cancellers, CancelDone(c) PROVE Kept
  <2>1. waiting[c] \in Requests /\ pc[waiting[c]] \in Finished /\ pc' = pc
    BY <1>3 DEF Typed, CancelDone, taskVars
  <2>2. \A s \in Sessions : entry'[s] = entry[s] \/ entry[s] = waiting[c]
    BY <1>3 DEF Typed, CancelDone, Cleared
  <2>3. QED
    BY <2>1, <2>2
<1>4. ASSUME NEW c \in Cancellers, CancelTimesOut(c) \/ \E s \in Sessions : Cancel(c, s)
      PROVE Kept
  BY <1>4 DEF CancelTimesOut, Cancel, taskVars
<1>5. ASSUME UNCHANGED vars PROVE Kept
  BY <1>5 DEF vars, taskVars
<1>6. (\E r \in Requests : Request(r)) \/ Kept
  BY <1>1, <1>2, <1>3, <1>4, <1>5, NextCases
<1>7. QED
  BY <1>6, OneJobRequest, OneJobKept
-----------------------------------------------------------------------------
(* The holders of slots are finitely many.                                  *)
LEMMA SlotsFinite ==
  /\ IsFiniteSet(Slots) /\ Cardinality(Slots) \in Nat
  /\ IsFiniteSet(Slots') /\ Cardinality(Slots') \in Nat
<1>1. Slots \subseteq Requests /\ Slots' \subseteq Requests
  BY DEF Slots
<1>2. QED
  BY <1>1, RegistryAssumption, FS_Subset, FS_CardinalityType

(* What the properties call SlotsConserved, with a name for the holders.    *)
LEMMA SlotsNamed == SlotsConserved <=> free + Cardinality(Slots) = MaxConcurrent
  BY DEF SlotsConserved, Slots

(* A step that leaves the semaphore and the holders alone keeps the sum.    *)
LEMMA SameSlots ==
  ASSUME SlotsConserved, free' = free, Slots' = Slots
  PROVE SlotsConserved'
<1>1. SlotsConserved' <=> free' + Cardinality(Slots') = MaxConcurrent
  BY DEF SlotsConserved, Slots
<1>2. QED
  BY <1>1, SlotsNamed

(* A slot that is taken is one less that is free.                           *)
LEMMA SlotTaken ==
  ASSUME Typed, SlotsConserved, NEW r \in Requests, Grant(r), CapacityOf(r)
  PROVE SlotsConserved'
<1>1. Slots' = Slots \cup {r} /\ r \notin Slots
  BY DEF Typed, Grant, CapacityOf, Slots
<1>2. Cardinality(Slots') = Cardinality(Slots) + 1
  BY <1>1, SlotsFinite, FS_AddElement
<1>3. SlotsConserved' <=> free' + Cardinality(Slots') = MaxConcurrent
  BY DEF SlotsConserved, Slots
<1>4. free' = free - 1 /\ free \in Nat
  BY DEF Grant, Typed
<1>5. QED
  BY <1>2, <1>3, <1>4, SlotsNamed, SlotsFinite

(* The end of a task gives its slot back.                                   *)
LEMMA SlotReturned ==
  ASSUME Typed, SlotsConserved, NEW r \in Requests, End(r), pc[r] # "over"
  PROVE SlotsConserved'
<1>1. CASE Holds(r)
  <2>1. Slots' = Slots \ {r} /\ r \in Slots
    BY <1>1 DEF Typed, End, Holds, Slots
  <2>2. Cardinality(Slots') = Cardinality(Slots) - 1
    BY <2>1, SlotsFinite, FS_RemoveElement
  <2>3. SlotsConserved' <=> free' + Cardinality(Slots') = MaxConcurrent
    BY DEF SlotsConserved, Slots
  <2>4. free' = free + 1 /\ free \in Nat
    BY <1>1 DEF End, Released, Typed
  <2>5. QED
    BY <2>2, <2>3, <2>4, SlotsNamed, SlotsFinite
<1>2. CASE ~Holds(r)
  <2>1. free' = free /\ Slots' = Slots
    BY <1>2 DEF Typed, End, Released, Holds, Slots
  <2>2. QED
    BY <2>1, SameSlots
<1>3. QED
  BY <1>1, <1>2

(* Every step keeps the slots.                                              *)
LEMMA SlotsStep ==
  ASSUME Typed, \A r \in Requests : CapacityOf(r), SlotsConserved, [Next]_vars
  PROVE SlotsConserved'
<1>1. ASSUME NEW r \in Requests, Request(r) PROVE SlotsConserved'
  <2>1. free' = free /\ Slots' = Slots
    BY <1>1 DEF Typed, CapacityOf, Request, Reserve, Release, Start, Slots
  <2>2. QED
    BY <2>1, SameSlots
<1>2. ASSUME NEW r \in Requests, TaskMoves(r) PROVE SlotsConserved'
  <2>1. CASE Grant(r)
    BY <2>1, SlotTaken
  <2>2. CASE CancelledBeforeStart(r)
    <3>1. free' = free /\ Slots' = Slots
      BY <2>2, Places DEF Typed, CapacityOf, Slots, taskVars, CancelledBeforeStart
    <3>2. QED
      BY <3>1, SameSlots
  <2>3. CASE BeginGate(r)
    <3>1. free' = free /\ Slots' = Slots
      BY <2>3, Places DEF Typed, CapacityOf, Slots, taskVars, BeginGate
    <3>2. QED
      BY <3>1, SameSlots
  <2>4. CASE AbortCleanup(r)
    <3>1. free' = free /\ Slots' = Slots
      BY <2>4, Places DEF Typed, CapacityOf, Slots, taskVars, AbortCleanup
    <3>2. QED
      BY <3>1, SameSlots
  <2>5. CASE Heartbeat(r)
    <3>1. free' = free /\ Slots' = Slots
      BY <2>5, Places DEF Typed, CapacityOf, Slots, taskVars, Heartbeat
    <3>2. QED
      BY <3>1, SameSlots
  <2>6. CASE LoseOwnership(r)
    <3>1. free' = free /\ Slots' = Slots
      BY <2>6, Places DEF Typed, CapacityOf, Slots, taskVars, LoseOwnership
    <3>2. QED
      BY <3>1, SameSlots
  <2>7. QED
    BY <1>2, <2>1, <2>2, <2>3, <2>4, <2>5, <2>6 DEF TaskMoves
<1>3. ASSUME NEW r \in Requests, TaskCleans(r) PROVE SlotsConserved'
  <2>1. (Drains(r) \/ GoesOn(r) \/ End(r)) /\ pc[r] \in Alive
    BY <1>3, CleanCases
  <2>2. CASE Drains(r) \/ GoesOn(r)
    <3>1. free' = free /\ Slots' = Slots
      BY <2>1, <2>2, Places DEF Typed, Drains, GoesOn, Slots
    <3>2. QED
      BY <3>1, SameSlots
  <2>3. CASE End(r)
    BY <2>1, <2>3, SlotReturned, Places
  <2>4. QED
    BY <2>1, <2>2, <2>3
<1>4. ASSUME NEW c \in Cancellers, NEW s \in Sessions, Cancel(c, s) PROVE SlotsConserved'
  BY <1>4, SameSlots DEF Cancel, Slots
<1>5. ASSUME NEW c \in Cancellers, CancelDone(c) \/ CancelTimesOut(c) PROVE SlotsConserved'
  BY <1>5, SameSlots DEF CancelDone, CancelTimesOut, taskVars, Slots
<1>6. CASE UNCHANGED vars
  BY <1>6, SameSlots DEF vars, taskVars, Slots
<1>7. QED
  BY <1>1, <1>2, <1>3, <1>4, <1>5, <1>6, NextCases
-----------------------------------------------------------------------------
(* The registry begins in order.                                            *)
LEMMA InductiveInit == Init => Inductive
<1> SUFFICES ASSUME Init PROVE Inductive
  OBVIOUS
<1>1. Typed
  BY RegistryAssumption, Places DEF Init, Typed
<1>2. (\A r \in Requests : CapacityOf(r)) /\ (\A r \in discarded : Doomed(r))
  BY DEF Init, CapacityOf, Doomed
<1>3. OneJobPerSession
  BY Places DEF Init, OneJobPerSession
<1>4. Slots = {} /\ free = MaxConcurrent
  BY DEF Init, Slots
<1>5. SlotsConserved
  BY <1>4, SlotsNamed, FS_EmptySet, RegistryAssumption
<1>6. QED
  BY <1>1, <1>2, <1>3, <1>5 DEF Inductive

(* No step breaks it.                                                       *)
LEMMA InductiveStep == Inductive /\ [Next]_vars => Inductive'
<1> SUFFICES ASSUME Inductive, [Next]_vars PROVE Inductive'
  OBVIOUS
<1>1. Typed' /\ OneJobPerSession' /\ SlotsConserved'
  BY TypedStep, OneJobStep, SlotsStep DEF Inductive
<1>2. \A r \in Requests : CapacityOf(r)'
  BY CapacityStep DEF Inductive
<1>3. \A r \in discarded' : Doomed(r)'
  BY DoomedStep DEF Inductive
<1>4. QED
  BY <1>1, <1>2, <1>3 DEF Inductive

(* The inductive invariant: entries, slots and cancellations agree with    *)
(* where the tasks are.                                                     *)
THEOREM InductiveHolds == Spec => []Inductive
  BY InductiveInit, InductiveStep, PTL DEF Spec

(* The tables of the registry keep their types, and the semaphore never     *)
(* exceeds the slots there are.                                             *)
THEOREM TypeCorrect == Spec => []TypeOK
<1>1. Inductive => TypeOK
  <2> SUFFICES ASSUME Inductive PROVE TypeOK
    OBVIOUS
  <2>1. free + Cardinality(Slots) = MaxConcurrent /\ free \in Nat
    BY SlotsNamed DEF Inductive, Typed
  <2>2. free \in 0..MaxConcurrent
    BY <2>1, SlotsFinite, RegistryAssumption
  <2>3. QED
    BY <2>2 DEF Inductive, Typed, TypeOK
<1>2. QED
  BY <1>1, InductiveHolds, PTL

(* The entry of a session is its one job that is not finished.              *)
THEOREM OneJobCorrect == Spec => []OneJobPerSession
<1>1. Inductive => OneJobPerSession
  BY DEF Inductive
<1>2. QED
  BY <1>1, InductiveHolds, PTL

(* A slot is free or held by one task, whatever is cancelled when.          *)
THEOREM SlotsCorrect == Spec => []SlotsConserved
<1>1. Inductive => SlotsConserved
  BY DEF Inductive
<1>2. QED
  BY <1>1, InductiveHolds, PTL

(* A job that was cancelled in the queue never runs.                        *)
THEOREM CancelledCorrect == Spec => []CancelledStaysOut
<1>1. Inductive => CancelledStaysOut
  BY DEF Inductive, Doomed, CancelledStaysOut
<1>2. QED
  BY <1>1, InductiveHolds, PTL

(* No more jobs run at a time than max_concurrent says.                     *)
RunningBounded == Cardinality({r \in Requests : pc[r] = "running"}) <= MaxConcurrent

(* The bound follows from the conservation of slots.                        *)
THEOREM RunningCorrect == Spec => []RunningBounded
<1>1. Inductive => RunningBounded
  <2> SUFFICES ASSUME Inductive PROVE RunningBounded
    OBVIOUS
  <2>1. {r \in Requests : pc[r] = "running"} \subseteq Slots
    BY DEF Inductive, CapacityOf, Slots
  <2>2. /\ Cardinality({r \in Requests : pc[r] = "running"}) \in Nat
        /\ Cardinality({r \in Requests : pc[r] = "running"}) <= Cardinality(Slots)
    BY <2>1, SlotsFinite, FS_Subset, FS_CardinalityType
  <2>3. free + Cardinality(Slots) = MaxConcurrent /\ free \in Nat
    BY SlotsNamed DEF Inductive, Typed
  <2>4. QED
    BY <2>2, <2>3, SlotsFinite, RegistryAssumption DEF RunningBounded
<1>2. QED
  BY <1>1, InductiveHolds, PTL

(* A slot that is not free is held by a task that is still to give it back, *)
(* or by one whose cleanup was aborted: nobody waits for a slot that no one *)
(* has, and when all jobs have ended in order every slot is free again.     *)
SlotsComeBack ==
  free < MaxConcurrent =>
    \E r \in Requests : capacity[r] = "granted" /\ pc[r] \in Alive \cup {"aborted"}

(* No other way out of the wrapper keeps a slot.                            *)
THEOREM SlotsReturned == Spec => []SlotsComeBack
<1>1. Inductive => SlotsComeBack
  <2> SUFFICES ASSUME Inductive, free < MaxConcurrent
               PROVE  \E r \in Requests :
                        capacity[r] = "granted" /\ pc[r] \in Alive \cup {"aborted"}
    BY DEF SlotsComeBack
  <2>1. free + Cardinality(Slots) = MaxConcurrent /\ free \in Nat
    BY SlotsNamed DEF Inductive, Typed
  <2>2. Slots # {}
    BY <2>1, FS_EmptySet, RegistryAssumption
  <2>3. PICK r \in Slots : TRUE
    BY <2>2
  <2>4. r \in Requests /\ capacity[r] = "granted" /\ pc[r] # "over"
    BY DEF Slots
  <2>5. pc[r] \in Alive \cup {"aborted"}
    BY <2>4 DEF Inductive, Typed, CapacityOf, Alive, Finished
  <2>6. QED
    BY <2>4, <2>5
<1>2. QED
  BY <1>1, InductiveHolds, PTL
-----------------------------------------------------------------------------
(***************************************************************************)
(* The registry implements JobLifecycle.                                   *)
(***************************************************************************)

(* The open jobs of JobLifecycle are alive here, one per session, and the   *)
(* session of a reservation has none.                                       *)
LEMMA RoomToStart ==
  ASSUME Inductive, NEW r \in Requests, pc[r] = "reserved"
  PROVE  Cardinality(Lifecycle!Open) < Cardinality(Served)
<1> DEFINE O == Lifecycle!Open
           s == SessionOf[r]
           f == [q \in O |-> SessionOf[q]]
<1>1. O \subseteq Requests /\ \A q \in O : pc[q] \in Alive
  BY Places DEF Lifecycle!Open, LifecycleJob, LifecycleOf
<1>2. IsFiniteSet(Served)
  <2>1. SessionOf \in [Requests -> Served] /\ \A t \in Served : \E q \in Requests : SessionOf[q] = t
    BY RegistryAssumption DEF Served
  <2>2. SessionOf \in Surjection(Requests, Served)
    BY <2>1 DEF Surjection
  <2>3. QED
    BY <2>2, FS_Surjection, RegistryAssumption
<1>3. s \in Served /\ \A q \in Requests : SessionOf[q] \in Served
  BY DEF Served
<1>4. \A q \in O : entry[SessionOf[q]] = q
  BY <1>1, OneJobParts DEF Inductive, Sole
<1>5. entry[s] = Reserved /\ Reserved \notin Requests
  BY OneJobParts, RegistryAssumption DEF Inductive, Placed
<1>6. f \in [O -> Served \ {s}]
  BY <1>1, <1>3, <1>4, <1>5
<1>7. \A p, q \in O : f[p] = f[q] => p = q
  BY <1>4
<1>8. f \in Injection(O, Served \ {s})
  BY <1>6, <1>7 DEF Injection, IsInjective
<1>9. /\ IsFiniteSet(Served \ {s})
      /\ Cardinality(Served \ {s}) = Cardinality(Served) - 1
  BY <1>2, <1>3, FS_RemoveElement
<1>10. IsFiniteSet(O) /\ Cardinality(O) <= Cardinality(Served \ {s})
  BY <1>8, <1>9, FS_Injection
<1>11. Cardinality(O) \in Nat /\ Cardinality(Served) \in Nat
  BY <1>2, <1>10, FS_CardinalityType
<1>12. QED
  BY <1>9, <1>10, <1>11

(* A step of one request shows in JobLifecycle as what becomes of its job.  *)
LEMMA JobMoves ==
  ASSUME NEW r \in Requests,
         \A q \in Requests \ {r} : /\ pc'[q] = pc[q]
                                   /\ q \in discarded' <=> q \in discarded
  PROVE  LifecycleJob' = [LifecycleJob EXCEPT ![r] = LifecycleOf(r)']
BY DEF LifecycleJob, LifecycleOf

(* A step in which a job stays what it is does not show.                    *)
LEMMA JobStays ==
  ASSUME NEW r \in Requests,
         \A q \in Requests \ {r} : /\ pc'[q] = pc[q]
                                   /\ q \in discarded' <=> q \in discarded,
         LifecycleOf(r)' = LifecycleOf(r)
  PROVE  LifecycleJob' = LifecycleJob
<1>1. LifecycleJob' = [LifecycleJob EXCEPT ![r] = LifecycleOf(r)]
  BY JobMoves
<1>2. QED
  BY <1>1 DEF LifecycleJob

(* What becomes of a job that is being cleaned up.                          *)
LEMMA JobFinishes ==
  ASSUME Inductive, NEW r \in Requests, pc[r] \in Alive,
         pc'[r] \in Draining \cup Finished,
         \A q \in Requests \ {r} : pc'[q] = pc[q],
         discarded' = discarded
  PROVE  Lifecycle!End({r}, "ended") \/ LifecycleJob' = LifecycleJob
<1>1. CASE r \in discarded
  <2>1. pc[r] # "running"
    BY <1>1 DEF Inductive, Doomed
  <2>2. LifecycleOf(r) = "cancelled" /\ LifecycleOf(r)' = "cancelled"
    BY <1>1, <2>1, Places DEF LifecycleOf
  <2>3. QED
    BY <2>2, JobStays
<1>2. CASE r \notin discarded /\ pc[r] \in Draining
  <2>1. LifecycleOf(r) = "ended" /\ LifecycleOf(r)' = "ended"
    BY <1>2, Places DEF LifecycleOf
  <2>2. QED
    BY <2>1, JobStays
<1>3. CASE r \notin discarded /\ pc[r] \notin Draining
  <2>1. LifecycleOf(r) \in {"queued", "active"} /\ LifecycleOf(r)' = "ended"
    BY <1>3, Places DEF LifecycleOf
  <2>2. LifecycleJob' = [LifecycleJob EXCEPT ![r] = "ended"]
    BY <2>1, JobMoves
  <2>3. LifecycleJob[r] \in {"queued", "active"}
    BY <2>1 DEF LifecycleJob
  <2>4. LifecycleJob' = [q \in Requests |-> IF q \in {r} THEN "ended" ELSE LifecycleJob[q]]
    BY <2>2 DEF LifecycleJob
  <2>5. QED
    BY <2>3, <2>4 DEF Lifecycle!End
<1>4. QED
  BY <1>1, <1>2, <1>3

(* Every step of the registry is one of JobLifecycle, or does not show: a   *)
(* reservation, the turns of a queued job, a drain, another cancellation.   *)
LEMMA LifecycleStep == Inductive /\ [Next]_vars => [Lifecycle!Next]_LifecycleJob
<1> SUFFICES ASSUME Inductive, [Next]_vars
             PROVE  Lifecycle!Next \/ LifecycleJob' = LifecycleJob
  OBVIOUS
<1>t. Typed /\ (\A r \in Requests : CapacityOf(r)) /\ (\A r \in discarded : Doomed(r))
  BY DEF Inductive
<1>0. ASSUME UNCHANGED <<pc, discarded>> PROVE LifecycleJob' = LifecycleJob
  BY <1>0 DEF LifecycleJob, LifecycleOf
<1>1. ASSUME NEW r \in Requests, Reserve(r) \/ Release(r) PROVE LifecycleJob' = LifecycleJob
  <2>1. LifecycleOf(r)' = LifecycleOf(r)
    BY <1>1, <1>t DEF Typed, Reserve, Release, LifecycleOf
  <2>2. QED
    BY <1>1, <1>t, <2>1, JobStays DEF Typed, Reserve, Release
<1>2. ASSUME NEW r \in Requests, Start(r) PROVE Lifecycle!Submit(r, {})
  <2>1. r \notin discarded /\ discarded' = discarded /\ pc' = [pc EXCEPT ![r] = "created"]
    BY <1>2, <1>t DEF Start, Doomed
  <2>2. LifecycleOf(r) = "new" /\ LifecycleOf(r)' = "queued"
    BY <1>2, <1>t, <2>1, Places DEF Typed, Start, LifecycleOf
  <2>3. LifecycleJob' = [LifecycleJob EXCEPT ![r] = "queued"]
    BY <1>t, <2>1, <2>2, JobMoves DEF Typed
  <2>4. LifecycleJob[r] = "new"
    BY <2>2 DEF LifecycleJob
  <2>5. LifecycleJob' = [q \in Requests |-> IF q = r THEN "queued"
                                          ELSE IF q \in {} THEN "forgotten"
                                          ELSE LifecycleJob[q]]
    BY <2>3 DEF LifecycleJob
  <2>6. Lifecycle!Cardinality(Lifecycle!Open) = Cardinality(Lifecycle!Open)
    BY DEF Lifecycle!Cardinality, Cardinality
  <2>7. Cardinality(Lifecycle!Open) < Cardinality(Served)
    BY <1>2, RoomToStart DEF Start
  <2>8. QED
    BY <2>4, <2>5, <2>6, <2>7 DEF Lifecycle!Submit
<1>3. ASSUME NEW r \in Requests, TaskMoves(r)
      PROVE  Lifecycle!End({r}, "ended") \/ LifecycleJob' = LifecycleJob
  <2>1. CASE CancelledBeforeStart(r) \/ AbortCleanup(r)
    <3>1. /\ pc[r] \in Alive /\ pc'[r] \in Draining \cup Finished
          /\ \A q \in Requests \ {r} : pc'[q] = pc[q]
          /\ discarded' = discarded
      BY <1>t, <2>1, Places DEF Typed, CancelledBeforeStart, AbortCleanup
    <3>2. QED
      BY <3>1, JobFinishes
  <2>2. CASE BeginGate(r)
    <3>1. LifecycleOf(r)' = LifecycleOf(r)
      BY <1>t, <2>2, Places DEF Typed, BeginGate, LifecycleOf
    <3>2. QED
      BY <1>t, <2>2, <3>1, JobStays DEF Typed, BeginGate
  <2>3. CASE Grant(r) \/ Heartbeat(r) \/ LoseOwnership(r)
    BY <1>0, <2>3 DEF Grant, Heartbeat, LoseOwnership, taskVars
  <2>4. QED
    BY <1>3, <2>1, <2>2, <2>3 DEF TaskMoves
<1>4. ASSUME NEW r \in Requests, TaskCleans(r)
      PROVE  \/ Lifecycle!End({r}, "ended") \/ Lifecycle!Start(r)
             \/ LifecycleJob' = LifecycleJob
  <2>1. /\ Drains(r) \/ GoesOn(r) \/ End(r)
        /\ pc[r] \in Alive
        /\ discarded' = discarded
    BY <1>4, <1>t, CleanCases
  <2>2. CASE Drains(r) \/ End(r)
    <3>1. pc'[r] \in Draining \cup Finished /\ \A q \in Requests \ {r} : pc'[q] = pc[q]
      BY <1>t, <2>2, Places DEF Typed, Drains, End
    <3>2. QED
      BY <2>1, <3>1, JobFinishes
  <2>3. CASE GoesOn(r) /\ pc[r] = "gate"
    <3>1. LifecycleOf(r)' = LifecycleOf(r)
      BY <1>t, <2>1, <2>3, Places DEF Typed, GoesOn, LifecycleOf
    <3>2. QED
      BY <1>t, <2>1, <2>3, <3>1, JobStays DEF Typed, GoesOn
  <2>4. CASE GoesOn(r) /\ pc[r] # "gate"
    <3>1. pc[r] = "proof" /\ r \notin cancelled /\ heartbeat[r] = "owned"
          /\ pc' = [pc EXCEPT ![r] = "running"]
      BY <2>4 DEF GoesOn
    <3>2. r \notin discarded
      BY <1>t, <3>1 DEF Doomed
    <3>3. LifecycleOf(r) = "queued" /\ LifecycleOf(r)' = "active"
      BY <1>t, <2>1, <3>1, <3>2, Places DEF Typed, LifecycleOf
    <3>4. LifecycleJob' = [LifecycleJob EXCEPT ![r] = "active"]
      BY <1>t, <2>1, <3>1, <3>3, JobMoves DEF Typed
    <3>5. LifecycleJob[r] = "queued"
      BY <3>3 DEF LifecycleJob
    <3>6. QED
      BY <3>4, <3>5 DEF Lifecycle!Start
  <2>5. QED
    BY <2>1, <2>2, <2>3, <2>4
<1>5. ASSUME NEW c \in Cancellers, NEW x \in Sessions, Cancel(c, x)
      PROVE  (\E r \in Requests : Lifecycle!End({r}, "cancelled")) \/ LifecycleJob' = LifecycleJob
  <2>0. PICK r \in Requests : r = entry[x]
    BY <1>5 DEF Cancel
  <2>1. pc[r] \in Alive /\ pc' = pc
    BY <1>5, <2>0 DEF Cancel
  <2>2. CASE pc[r] \notin Queued \/ r \in discarded
    <3>1. discarded' = discarded
      BY <1>5, <2>0, <2>2 DEF Cancel
    <3>2. QED
      BY <1>0, <2>1, <3>1
  <2>3. CASE pc[r] \in Queued /\ r \notin discarded
    <3>1. discarded' = discarded \cup {r}
      BY <1>5, <2>0, <2>3 DEF Cancel
    <3>2. LifecycleOf(r) = "queued" /\ LifecycleOf(r)' = "cancelled"
      BY <2>1, <2>3, <3>1, Places DEF LifecycleOf
    <3>3. LifecycleJob' = [LifecycleJob EXCEPT ![r] = "cancelled"]
      BY <2>1, <3>1, <3>2, JobMoves
    <3>4. LifecycleJob[r] = "queued"
      BY <2>1, <3>2 DEF LifecycleJob
    <3>5. LifecycleJob' =
            [q \in Requests |-> IF q \in {r} THEN "cancelled" ELSE LifecycleJob[q]]
      BY <3>3 DEF LifecycleJob
    <3>6. Lifecycle!End({r}, "cancelled")
      BY <3>4, <3>5 DEF Lifecycle!End
    <3>7. QED
      BY <2>1, <3>6
  <2>4. QED
    BY <2>2, <2>3
<1>6. ASSUME NEW c \in Cancellers, CancelDone(c) \/ CancelTimesOut(c)
      PROVE  LifecycleJob' = LifecycleJob
  BY <1>0, <1>6 DEF CancelDone, CancelTimesOut, taskVars
<1>7. CASE UNCHANGED vars
  BY <1>0, <1>7 DEF vars, taskVars
<1>8. \A r \in Requests : Lifecycle!Submit(r, {}) => Lifecycle!Next
  BY DEF Lifecycle!Next
<1>9. \A r \in Requests : Lifecycle!Start(r) => Lifecycle!Next
  BY DEF Lifecycle!Next
<1>10. \A r \in Requests :
         Lifecycle!End({r}, "ended") \/ Lifecycle!End({r}, "cancelled") => Lifecycle!Next
  BY DEF Lifecycle!Next
<1>11. QED
  BY <1>1, <1>2, <1>3, <1>4, <1>5, <1>6, <1>7, <1>8, <1>9, <1>10, NextCases DEF Request

(* A request is a job of JobLifecycle: started once, from the queue, never  *)
(* after it was cancelled there, and never beside another open job of its   *)
(* session.                                                                 *)
THEOREM ImplementsLifecycle == Spec => LifecycleSpec
<1>1. Init => Lifecycle!Init
  BY DEF Init, Lifecycle!Init, LifecycleJob, LifecycleOf
<1>2. QED
  BY <1>1, LifecycleStep, InductiveHolds, PTL DEF Spec, LifecycleSpec, Lifecycle!Spec
-----------------------------------------------------------------------------
(***************************************************************************)
(* Entries of jobs that are over.                                          *)
(***************************************************************************)

(* An entry is where it belongs; a cancellation that is not delivered yet   *)
(* is one to a task that is queued or cleans up, and its caller waits.      *)
Attended ==
  /\ \A s \in Sessions : entry[s] \in Requests => SessionOf[entry[s]] = s
  /\ \A r \in cancelled : /\ pc[r] \in Queued \cup Draining
                          /\ \E c \in Cancellers : waiting[c] = r
  /\ NoDeadEntry

(* A request moves entries that it reserves, and finishes nothing.          *)
LEMMA AttendedRequest ==
  ASSUME Inductive, Attended, NEW r \in Requests, Request(r)
  PROVE  Attended'
<1>t. Typed /\ SessionOf[r] \in Sessions /\ Reserved \notin Requests /\ None \notin Requests
  BY RegistryAssumption DEF Inductive
<1>1. /\ UNCHANGED <<waiting, cancelled>> /\ r \notin cancelled
      /\ pc'[r] \notin Finished
      /\ \A q \in Requests \ {r} : pc'[q] = pc[q]
  <2>1. pc[r] \in {"idle", "reserved"} /\ pc'[r] \in {"idle", "reserved", "created"}
        /\ UNCHANGED <<waiting, cancelled>>
    BY <1>t DEF Request, Reserve, Release, Start, Typed
  <2>2. \A q \in Requests \ {r} : pc'[q] = pc[q]
    BY <1>t DEF Request, Reserve, Release, Start, Typed
  <2>3. QED
    BY <2>1, <2>2, Places DEF Attended
<1>2. \A s \in Sessions :
        \/ entry'[s] = entry[s] /\ entry'[s] # r
        \/ s = SessionOf[r] /\ entry'[s] \in {None, Reserved, r}
  <2>1. CASE Reserve(r)
    <3>1. \A s \in Sessions : entry[s] = r => s = SessionOf[r]
      BY DEF Attended
    <3>2. QED
      BY <1>t, <2>1, <3>1 DEF Reserve, Typed
  <2>2. CASE Release(r) \/ Start(r)
    <3>1. \A s \in Sessions : entry[s] = r => s = SessionOf[r]
      BY DEF Attended
    <3>2. QED
      BY <1>t, <2>2, <3>1 DEF Release, Start, Typed
  <2>3. QED
    BY <2>1, <2>2 DEF Request
<1>3. \A s \in Sessions : entry'[s] \in Requests => SessionOf[entry'[s]] = s
  BY <1>t, <1>2 DEF Attended
<1>4. \A q \in cancelled' : /\ pc'[q] \in Queued \cup Draining
                           /\ \E c \in Cancellers : waiting'[c] = q
  BY <1>t, <1>1 DEF Attended, Typed
<1>5. NoDeadEntry'
  BY <1>t, <1>1, <1>2 DEF Attended, NoDeadEntry
<1>6. QED
  BY <1>3, <1>4, <1>5 DEF Attended

(* A job that finishes takes its entry along, or was cancelled, and then    *)
(* the caller waits.                                                        *)
LEMMA AttendedTask ==
  ASSUME Inductive, Attended, NEW r \in Requests, TaskMoves(r) \/ TaskCleans(r)
  PROVE  Attended'
<1>t. Typed /\ CapacityOf(r) /\ None \notin Requests
  BY RegistryAssumption DEF Inductive
<1>1. /\ waiting' = waiting /\ cancelled' \subseteq cancelled
      /\ \A q \in Requests \ {r} : pc'[q] = pc[q]
      /\ r \in cancelled' => pc'[r] \in Queued \cup Draining
      /\ \/ entry' = entry /\ (pc'[r] \in Finished => r \in cancelled \/ pc[r] \in Finished)
         \/ \A s \in Sessions :
              \/ entry'[s] = entry[s] /\ entry[s] # r
              \/ entry'[s] = None
  <2>1. CASE CancelledBeforeStart(r)
    BY <1>t, <2>1, Places DEF CancelledBeforeStart, Typed
  <2>2. CASE BeginGate(r)
    BY <1>t, <2>2, Places DEF BeginGate, Typed
  <2>3. CASE AbortCleanup(r)
    BY <1>t, <2>3, Places DEF AbortCleanup, Typed
  <2>4. CASE Grant(r) \/ Heartbeat(r) \/ LoseOwnership(r)
    BY <1>t, <2>4, Places DEF Grant, Heartbeat, LoseOwnership, taskVars, Attended, Typed
  <2>5. CASE TaskCleans(r)
    <3>1. /\ Drains(r) \/ GoesOn(r) \/ End(r)
          /\ cancelled' \subseteq cancelled /\ waiting' = waiting
          /\ r \in cancelled' => pc[r] = "running"
      BY <1>t, <2>5, CleanCases
    <3>2. r \notin cancelled'
      BY <3>1, Places DEF Attended
    <3>3. CASE Drains(r) \/ GoesOn(r)
      BY <1>t, <3>1, <3>2, <3>3, Places DEF Drains, GoesOn, Typed
    <3>4. CASE End(r)
      <4>1. \A s \in Sessions : \/ entry'[s] = entry[s] /\ entry[s] # r
                               \/ entry'[s] = None
        BY <1>t, <3>4 DEF End, Attended, Typed
      <4>2. QED
        BY <1>t, <3>1, <3>2, <3>4, <4>1 DEF End, Typed
    <3>5. QED
      BY <3>1, <3>3, <3>4
  <2>6. QED
    BY <2>1, <2>2, <2>3, <2>4, <2>5 DEF TaskMoves
<1>2. \A s \in Sessions : entry'[s] \in Requests => SessionOf[entry'[s]] = s
  BY <1>t, <1>1 DEF Attended
<1>3. \A q \in cancelled' : /\ pc'[q] \in Queued \cup Draining
                           /\ \E c \in Cancellers : waiting'[c] = q
  BY <1>t, <1>1 DEF Attended, Typed
<1>4. NoDeadEntry'
  <2> SUFFICES ASSUME NEW s \in Sessions, entry'[s] \in Requests, pc'[entry'[s]] \in Finished
               PROVE  \E c \in Cancellers : waiting'[c] = entry'[s]
    BY DEF NoDeadEntry
  <2>1. entry'[s] = entry[s]
    BY <1>t, <1>1
  <2>2. CASE entry[s] = r /\ r \in cancelled
    BY <1>1, <2>1, <2>2 DEF Attended
  <2>3. CASE entry[s] = r /\ r \notin cancelled
    BY <1>t, <1>1, <2>1, <2>3 DEF Attended, NoDeadEntry
  <2>4. CASE entry[s] # r
    BY <1>1, <2>1, <2>4 DEF Attended, NoDeadEntry
  <2>5. QED
    BY <2>2, <2>3, <2>4
<1>5. QED
  BY <1>2, <1>3, <1>4 DEF Attended

(* Whoever stops to wait has removed the entry, or leaves a pipeline that   *)
(* is not over.                                                             *)
LEMMA AttendedCancel ==
  ASSUME Inductive, Attended, NEW c \in Cancellers,
         (\E s \in Sessions : Cancel(c, s)) \/ CancelDone(c) \/ CancelTimesOut(c)
  PROVE  Attended'
<1>t. Typed /\ None \notin Requests
  BY RegistryAssumption DEF Inductive
<1>1. ASSUME NEW x \in Sessions, Cancel(c, x) PROVE Attended'
  <2>1. PICK r \in Requests : r = entry[x]
    BY <1>1 DEF Cancel
  <2>2. /\ waiting[c] = None /\ waiting' = [waiting EXCEPT ![c] = r]
        /\ UNCHANGED <<entry, pc>>
        /\ cancelled' = cancelled
           \/ (cancelled' = cancelled \cup {r} /\ pc[r] \in Queued \cup Draining)
    BY <1>1, <2>1, Places DEF Cancel
  <2>3. waiting'[c] = r /\ \A d \in Cancellers \ {c} : waiting'[d] = waiting[d]
    BY <1>t, <2>2 DEF Typed
  <2>4. \A q \in Requests :
          (\E d \in Cancellers : waiting[d] = q) => \E d \in Cancellers : waiting'[d] = q
    BY <1>t, <2>2, <2>3
  <2>5. \A q \in cancelled' : /\ pc'[q] \in Queued \cup Draining
                             /\ \E d \in Cancellers : waiting'[d] = q
    BY <1>t, <2>2, <2>3, <2>4 DEF Attended, Typed
  <2>6. NoDeadEntry'
    BY <2>2, <2>4 DEF Attended, NoDeadEntry
  <2>7. QED
    BY <2>2, <2>5, <2>6 DEF Attended
<1>2. ASSUME CancelDone(c) \/ CancelTimesOut(c) PROVE Attended'
  <2>1. PICK r \in Requests : r = waiting[c]
    BY <1>t, <1>2 DEF CancelDone, CancelTimesOut, Typed
  <2>2. /\ pc[r] \in Finished \cup {"running"}
        /\ waiting' = [waiting EXCEPT ![c] = None]
        /\ UNCHANGED <<pc, cancelled>>
        /\ \A s \in Sessions :
             \/ entry'[s] = entry[s]
                /\ (entry[s] # r \/ s # SessionOf[r] \/ pc[r] = "running")
             \/ entry'[s] = None
    BY <1>t, <1>2, <2>1 DEF CancelDone, CancelTimesOut, Cleared, taskVars, Typed
  <2>3. \A q \in Requests \ {r} :
          (\E d \in Cancellers : waiting[d] = q) => \E d \in Cancellers : waiting'[d] = q
    BY <1>t, <2>1, <2>2 DEF Typed
  <2>4. r \notin cancelled
    BY <2>2, Places DEF Attended
  <2>5. \A q \in cancelled' : /\ pc'[q] \in Queued \cup Draining
                             /\ \E d \in Cancellers : waiting'[d] = q
    BY <1>t, <2>2, <2>3, <2>4 DEF Attended, Typed
  <2>6. NoDeadEntry'
    <3> SUFFICES ASSUME NEW s \in Sessions, entry'[s] \in Requests,
                        pc'[entry'[s]] \in Finished
                 PROVE  \E d \in Cancellers : waiting'[d] = entry'[s]
      BY DEF NoDeadEntry
    <3>1. entry'[s] = entry[s]
          /\ (entry[s] # r \/ s # SessionOf[r] \/ pc[r] = "running")
      BY <1>t, <2>2
    <3>2. entry[s] # r
      BY <2>2, <3>1, Places DEF Attended
    <3>3. \E d \in Cancellers : waiting[d] = entry[s]
      BY <2>2, <3>1 DEF Attended, NoDeadEntry
    <3>4. QED
      BY <2>3, <3>1, <3>2, <3>3
  <2>7. \A s \in Sessions : entry'[s] \in Requests => SessionOf[entry'[s]] = s
    BY <1>t, <2>2 DEF Attended
  <2>8. QED
    BY <2>5, <2>6, <2>7 DEF Attended
<1>3. QED
  BY <1>1, <1>2

(* No cancellation leaves the entry of a finished job without anybody to    *)
(* remove it (the fallback at the end of cancel()).                         *)
THEOREM EntriesCleared == Spec => []NoDeadEntry
<1>1. Init => Attended
  BY RegistryAssumption DEF Init, Attended, NoDeadEntry
<1>2. Inductive /\ Attended /\ [Next]_vars => Attended'
  <2> SUFFICES ASSUME Inductive, Attended, [Next]_vars PROVE Attended'
    OBVIOUS
  <2>1. CASE UNCHANGED vars
    BY <2>1 DEF Attended, NoDeadEntry, vars, taskVars
  <2>2. QED
    BY <2>1, AttendedRequest, AttendedTask, AttendedCancel, NextCases
<1>3. Attended => NoDeadEntry
  BY DEF Attended
<1>4. QED
  BY <1>1, <1>2, <1>3, InductiveHolds, PTL DEF Spec
=============================================================================
