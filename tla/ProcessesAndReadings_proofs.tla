------------------------ MODULE ProcessesAndReadings_proofs ------------------------
(***************************************************************************)
(* What Forge starts and what it reads of the world outside.  For any      *)
(* number of callers, slots, cancels, deaths and starts of Forge: the      *)
(* slots are shared and none is lost, an outcome means that the process is *)
(* gone, and what outlives a dead Forge is found.  For any CLI: its screen *)
(* is read at the right moment.  For any repository and any files in it:   *)
(* what git was asked is what had happened to the worktree.                *)
(***************************************************************************)
EXTENDS ProcessManager, HostedScreen, GitReading, FiniteSetTheorems, SequenceTheorems,
        WellFoundedInduction, TLAPS

Record == [owner : Nat, pids : SUBSET Calls]

RunType ==
  [settled : BOOLEAN, cancelling : BOOLEAN, reason : Reasons,
   outcome : Reasons \cup {"none"}, signals : Nat]

SeenType ==
  [hasty : BOOLEAN, signalled : SUBSET Calls, clean : BOOLEAN, spared : BOOLEAN, killAlls : Nat]

\* The types.  asked is of no account here.
TypeOK ==
  /\ inst \in Instances
  /\ life \in Nat
  /\ up \in BOOLEAN /\ disposed \in BOOLEAN
  /\ call \in [Calls -> CallStates]
  /\ queue \in Seq(Calls)
  /\ running \in SUBSET Calls
  /\ run \in [Calls -> RunType]
  /\ child \in [Calls -> {"none", "alive", "gone"}]
  /\ tracked \in SUBSET Calls
  /\ writes \in Seq(Record)
  /\ file \in Record
  /\ reap \in {"reading", "done"}
  /\ seen \in SeenType

LEMMA FreshRunType ==
  /\ FreshRun \in RunType
  /\ [FreshRun EXCEPT !.settled = TRUE, !.outcome = "spawn-failed"] \in RunType
BY DEF FreshRun, Reasons, RunType

LEMMA TerminatedType ==
  ASSUME NEW r \in RunType, NEW reason \in Reasons PROVE Terminated(r, reason) \in RunType
BY DEF Terminated, RunType

LEMMA SignalledType ==
  ASSUME NEW r \in RunType PROVE [r EXCEPT !.signals = @ + 1] \in RunType
<1>1. r.signals + 1 \in Nat
  BY DEF RunType
<1> QED BY <1>1 DEF RunType

LEMMA TypeInitially == Init => TypeOK
<1> SUFFICES ASSUME Init PROVE TypeOK
  OBVIOUS
<1>1. inst \in Instances /\ life \in Nat /\ up \in BOOLEAN /\ disposed \in BOOLEAN
  BY DEF Init
<1>2. call \in [Calls -> CallStates] /\ queue \in Seq(Calls) /\ running \in SUBSET Calls
  BY DEF Init, CallStates
<1>3. run \in [Calls -> RunType]
  BY FreshRunType DEF Init
<1>4. child \in [Calls -> {"none", "alive", "gone"}] /\ tracked \in SUBSET Calls
      /\ writes \in Seq(Record) /\ file \in Record /\ reap \in {"reading", "done"}
  BY DEF Init, NoFile, Record, FirstReap
<1>5. seen \in SeenType
  BY DEF Init, SeenType
<1> QED BY <1>1, <1>2, <1>3, <1>4, <1>5 DEF TypeOK

LEMMA TypeStep ==
  ASSUME TypeOK, [Next]_vars PROVE TypeOK'
<1> USE DEF TypeOK
<1>a. ASSUME NEW pids \in SUBSET Calls, Flush(pids)
      PROVE  tracked' \in SUBSET Calls /\ writes' \in Seq(Record)
  <2>1. [owner |-> life, pids |-> pids] \in Record
    BY DEF Record
  <2>2. Append(writes, [owner |-> life, pids |-> pids]) \in Seq(Record)
    BY <2>1
  <2> QED BY <1>a, <2>2 DEF Flush
<1>b. WithNext(call) \in [Calls -> CallStates] /\ Shifted \in Seq(Calls)
  BY DEF WithNext, Shifted, CallStates
<1>c. ASSUME NEW c \in Calls, Start(c) PROVE TypeOK'
  <2>1. CASE StartFails(c)
    <3>1. call' \in [Calls -> CallStates] /\ queue' \in Seq(Calls)
      BY <2>1, <1>b DEF StartFails, CallStates
    <3>2. run' \in [Calls -> RunType]
      BY <2>1, FreshRunType DEF StartFails
    <3> QED BY <2>1, <3>1, <3>2, <1>c DEF StartFails, Start
  <2>2. CASE StartSucceeds(c)
    <3>1. call' \in [Calls -> CallStates] /\ running' \in SUBSET Calls
          /\ child' \in [Calls -> {"none", "alive", "gone"}]
      BY <2>2 DEF StartSucceeds, CallStates
    <3>2. run' \in [Calls -> RunType]
      BY <2>2, FreshRunType DEF StartSucceeds
    <3>3. tracked' \in SUBSET Calls /\ writes' \in Seq(Record)
      BY <2>2, <1>a DEF StartSucceeds
    <3>4. seen' \in SeenType
      BY <2>2 DEF StartSucceeds, SeenType
    <3> QED BY <2>2, <3>1, <3>2, <3>3, <3>4, <1>c DEF StartSucceeds, Start
  <2> QED BY <1>c, <2>1, <2>2 DEF Start
<1>1. ASSUME NEW c \in Calls, SpawnRefused(c) PROVE TypeOK'
  BY <1>1 DEF SpawnRefused, CallStates, disk
<1>2. ASSUME NEW c \in Calls, SpawnQueued(c) PROVE TypeOK'
  BY <1>2 DEF SpawnQueued, CallStates, disk
<1>3. ASSUME NEW c \in Calls, SpawnNow(c) \/ Continue(c) PROVE TypeOK'
  BY <1>3, <1>c DEF SpawnNow, Continue
<1>4. ASSUME NEW c \in Calls, Cancel(c) PROVE TypeOK'
  <2>1. "cancelled" \in Reasons
    BY DEF Reasons
  <2>2. run' \in [Calls -> RunType]
    BY <1>4, <2>1, TerminatedType DEF Cancel
  <2> QED BY <1>4, <2>2 DEF Cancel, disk
<1>5. ASSUME NEW c \in Calls, Escalate(c) PROVE TypeOK'
  <2>1. [run[c] EXCEPT !.signals = @ + 1] \in RunType
    BY SignalledType
  <2>2. run' \in [Calls -> RunType]
    BY <1>5, <2>1 DEF Escalate
  <2> QED BY <1>5, <2>2 DEF Escalate, disk
<1>6. ASSUME NEW c \in Calls, ChildExits(c) PROVE TypeOK'
  BY <1>6 DEF ChildExits, app, disk
<1>7. ASSUME NEW c \in Calls, OnExit(c) PROVE TypeOK'
  <2>1. run' \in [Calls -> RunType]
    <3>1. [run[c] EXCEPT !.settled = TRUE, !.outcome = run[c].reason] \in RunType
      BY DEF RunType
    <3> QED BY <1>7, <3>1 DEF OnExit
  <2>2. call' \in [Calls -> CallStates] /\ queue' \in Seq(Calls) /\ running' \in SUBSET Calls
    BY <1>7, <1>b DEF OnExit
  <2>3. tracked' \in SUBSET Calls /\ writes' \in Seq(Record)
    BY <1>7, <1>a DEF OnExit
  <2> QED BY <1>7, <2>1, <2>2, <2>3 DEF OnExit
<1>8. ASSUME NEW c \in Calls, NEW timed, NEW reason \in Reasons, TimerFires(c, timed, reason)
      PROVE  TypeOK'
  <2>1. run' \in [Calls -> RunType]
    BY <1>8, TerminatedType DEF TimerFires
  <2> QED BY <1>8, <2>1 DEF TimerFires, disk
<1>9. CASE KillAll
  <2>1. run' \in [Calls -> RunType]
    <3>1. "cancelled" \in Reasons
      BY DEF Reasons
    <3>2. \A c \in Calls : Terminated(run[c], "cancelled") \in RunType
      BY <3>1, TerminatedType
    <3> QED BY <1>9, <3>2 DEF KillAll
  <2>2. call' \in [Calls -> CallStates] /\ queue' \in Seq(Calls)
    BY <1>9 DEF KillAll, CallStates
  <2>3. seen' \in SeenType
    <3>1. seen.killAlls + 1 \in Nat
      BY DEF SeenType
    <3> QED BY <1>9, <3>1 DEF KillAll, SeenType
  <2> QED BY <1>9, <2>1, <2>2, <2>3 DEF KillAll, disk
<1>10. CASE FlushDone
  <2>1. file' \in Record /\ writes' \in Seq(Record)
    <3>1. NoFile \in Record
      BY DEF NoFile, Record
    <3> QED BY <1>10, <3>1 DEF FlushDone
  <2> QED BY <1>10, <2>1 DEF FlushDone, app
<1>11. CASE Die
  <2>1. run' \in [Calls -> RunType] /\ call' \in [Calls -> CallStates]
    BY <1>11, FreshRunType DEF Die, CallStates
  <2>2. seen' \in SeenType
    BY <1>11 DEF Die, SeenType
  <2>3. /\ queue' \in Seq(Calls) /\ running' \in SUBSET Calls
        /\ tracked' \in SUBSET Calls /\ writes' \in Seq(Record) /\ up' \in BOOLEAN
    <3>1. << >> \in Seq(Calls) /\ << >> \in Seq(Record)
      OBVIOUS
    <3> QED BY <1>11, <3>1 DEF Die
  <2>4. UNCHANGED <<inst, life, disposed, child, file, reap>>
    BY <1>11 DEF Die
  <2> QED BY <2>1, <2>2, <2>3, <2>4
<1>12. CASE Boot
  <2>1. life' \in Nat /\ reap' \in {"reading", "done"}
    BY <1>12 DEF Boot, FirstReap
  <2> QED BY <1>12, <2>1 DEF Boot, app, disk
<1>13. CASE Reap
  <2>1. tracked' \in SUBSET Calls /\ writes' \in Seq(Record)
    BY <1>13, <1>a DEF Reap
  <2>2. seen' \in SeenType
    <3>1. Orphans \subseteq Calls
      BY DEF Record, Orphans
    <3>2. \/ seen' = seen
          \/ seen' = [seen EXCEPT !.spared = TRUE]
          \/ seen' = [seen EXCEPT !.signalled = @ \cup Orphans]
      BY <1>13 DEF Reap
    <3> QED BY <3>1, <3>2 DEF SeenType
  <2> QED BY <1>13, <2>1, <2>2 DEF Reap, app
<1>14. CASE UNCHANGED vars
  BY <1>14 DEF vars, app, disk
<1>15. "idle-timeout" \in Reasons /\ "hard-timeout" \in Reasons
  BY DEF Reasons
<1> QED BY <1>1, <1>2, <1>3, <1>4, <1>5, <1>6, <1>7, <1>8, <1>9, <1>10, <1>11, <1>12, <1>13,
           <1>14, <1>15 DEF Next

-----------------------------------------------------------------------------
(* Where a call is, by the queue, the map of runs and the processes.       *)

\* Who is in the queue waits, and is there once.
QueueWaits ==
  /\ \A i \in 1..Len(queue) : call[queue[i]] = "queued"
  /\ \A i, j \in 1..Len(queue) : queue[i] = queue[j] => i = j

RunningIsHandled == \A c \in running : call[c] = "handle"

NotYetStarted ==
  \A c \in Calls : call[c] \in {"new", "queued", "woken", "rejected"} => child[c] = "none"

Places == QueueWaits /\ RunningIsHandled /\ NotYetStarted

\* What the release of the next waiter does.
LEMMA NextReleased ==
  ASSUME TypeOK, QueueWaits, queue # << >>
  PROVE  /\ Head(queue) \in Calls /\ call[Head(queue)] = "queued"
         /\ WithNext(call) = [call EXCEPT ![Head(queue)] = "woken"]
         /\ Shifted \in Seq(Calls)
         /\ \A i \in 1..Len(Shifted) : Shifted[i] # Head(queue) /\ call[Shifted[i]] = "queued"
         /\ \A i, j \in 1..Len(Shifted) : Shifted[i] = Shifted[j] => i = j
<1>1. queue \in Seq(Calls)
  BY DEF TypeOK
<1>2. /\ Len(queue) \in Nat /\ Len(queue) > 0
      /\ Head(queue) = queue[1] /\ 1 \in 1..Len(queue)
  BY <1>1
<1>3. /\ Shifted = Tail(queue) /\ Shifted \in Seq(Calls) /\ Len(Shifted) = Len(queue) - 1
      /\ \A i \in 1..Len(Shifted) : Shifted[i] = queue[i + 1]
  BY <1>1, <1>2 DEF Shifted
<1>4. \A i \in 1..Len(Shifted) : i + 1 \in 1..Len(queue) /\ i + 1 # 1
  BY <1>2, <1>3
<1>5. /\ \A i \in 1..Len(Shifted) : Shifted[i] # Head(queue) /\ call[Shifted[i]] = "queued"
      /\ \A i, j \in 1..Len(Shifted) : Shifted[i] = Shifted[j] => i = j
  BY <1>2, <1>3, <1>4 DEF QueueWaits
<1>6. Head(queue) \in Calls /\ call[Head(queue)] = "queued"
  BY <1>1, <1>2 DEF QueueWaits
<1> QED BY <1>3, <1>5, <1>6 DEF WithNext

LEMMA PlacesInitially == Init => Places
BY DEF Init, Places, QueueWaits, RunningIsHandled, NotYetStarted

LEMMA PlacesStep ==
  ASSUME TypeOK, Places, [Next]_vars PROVE Places'
<1> USE DEF Places
<1>a. /\ call \in [Calls -> CallStates] /\ queue \in Seq(Calls) /\ running \in SUBSET Calls
      /\ child \in [Calls -> {"none", "alive", "gone"}]
  BY DEF TypeOK
<1>b. \A i \in 1..Len(queue) : queue[i] \in Calls
  BY <1>a
<1>c. ASSUME NEW c \in Calls, call[c] \in {"new", "woken"}, Start(c) PROVE Places'
  <2>1. child[c] = "none" /\ c \notin running /\ \A i \in 1..Len(queue) : queue[i] # c
    BY <1>c DEF NotYetStarted, RunningIsHandled, QueueWaits
  <2>2. CASE StartFails(c)
    <3>1. CASE queue = << >>
      BY <1>a, <2>1, <2>2, <3>1
         DEF StartFails, WithNext, Shifted, QueueWaits, RunningIsHandled, NotYetStarted
    <3>2. CASE queue # << >>
      <4>1. call' = [call EXCEPT ![Head(queue)] = "woken", ![c] = "handle"]
            /\ queue' = Shifted /\ running' = running /\ child' = child
        BY <2>2, <3>2, NextReleased DEF StartFails
      <4>2. Head(queue) # c
        BY <1>c, <3>2, NextReleased
      <4>3. \A i \in 1..Len(Shifted) : Shifted[i] \in Calls /\ Shifted[i] # c
        BY <1>c, <3>2, NextReleased
      <4>4. QueueWaits'
        BY <1>a, <3>2, <4>1, <4>3, NextReleased DEF QueueWaits
      <4>5. RunningIsHandled'
        BY <1>a, <3>2, <4>1, NextReleased DEF RunningIsHandled
      <4>6. NotYetStarted'
        BY <1>a, <2>1, <3>2, <4>1, NextReleased DEF NotYetStarted
      <4> QED BY <4>4, <4>5, <4>6
    <3> QED BY <3>1, <3>2
  <2>3. CASE StartSucceeds(c)
    <3>1. /\ call' = [call EXCEPT ![c] = "handle"] /\ queue' = queue
          /\ running' = running \cup {c} /\ child' = [child EXCEPT ![c] = "alive"]
      BY <2>3 DEF StartSucceeds
    <3>2. QueueWaits'
      BY <1>a, <1>b, <2>1, <3>1 DEF QueueWaits
    <3>3. RunningIsHandled' /\ NotYetStarted'
      BY <1>a, <3>1 DEF RunningIsHandled, NotYetStarted
    <3> QED BY <3>2, <3>3
  <2> QED BY <1>c, <2>2, <2>3 DEF Start
<1>1. ASSUME NEW c \in Calls, SpawnRefused(c) PROVE Places'
  BY <1>1, <1>a, <1>b DEF SpawnRefused, QueueWaits, RunningIsHandled, NotYetStarted
<1>2. ASSUME NEW c \in Calls, SpawnQueued(c) PROVE Places'
  <2>1. /\ call[c] = "new" /\ call' = [call EXCEPT ![c] = "queued"]
        /\ queue' = Append(queue, c) /\ running' = running /\ child' = child
    BY <1>2 DEF SpawnQueued
  <2>2. /\ Len(queue') = Len(queue) + 1 /\ queue'[Len(queue) + 1] = c /\ Len(queue) \in Nat
        /\ \A i \in 1..Len(queue) : queue'[i] = queue[i]
    BY <1>a, <2>1
  <2>3. \A i \in 1..Len(queue') : i \in 1..Len(queue) \/ i = Len(queue) + 1
    BY <2>2
  <2>4. \A i \in 1..Len(queue) : queue[i] # c
    BY <2>1 DEF QueueWaits
  <2>5. \A i \in 1..Len(queue') : call'[queue'[i]] = "queued"
    BY <1>a, <1>b, <2>1, <2>2, <2>3 DEF QueueWaits
  <2>6. \A i, j \in 1..Len(queue') : queue'[i] = queue'[j] => i = j
    BY <2>2, <2>3, <2>4 DEF QueueWaits
  <2>7. RunningIsHandled' /\ NotYetStarted'
    BY <1>a, <2>1 DEF RunningIsHandled, NotYetStarted
  <2> QED BY <2>5, <2>6, <2>7 DEF QueueWaits
<1>3. ASSUME NEW c \in Calls, SpawnNow(c) \/ Continue(c) PROVE Places'
  BY <1>3, <1>c DEF SpawnNow, Continue
<1>4. ASSUME NEW c \in Calls, NEW timed, NEW reason,
             Cancel(c) \/ Escalate(c) \/ TimerFires(c, timed, reason)
      PROVE  Places'
  BY <1>4 DEF Cancel, Escalate, TimerFires, QueueWaits, RunningIsHandled, NotYetStarted
<1>5. ASSUME NEW c \in Calls, ChildExits(c) PROVE Places'
  BY <1>5, <1>a DEF ChildExits, app, QueueWaits, RunningIsHandled, NotYetStarted
<1>6. ASSUME NEW c \in Calls, OnExit(c) PROVE Places'
  <2>1. /\ call' = WithNext(call) /\ queue' = Shifted
        /\ running' = running \ {c} /\ child' = child
    BY <1>6 DEF OnExit
  <2>2. CASE queue = << >>
    BY <1>a, <2>1, <2>2
       DEF WithNext, Shifted, QueueWaits, RunningIsHandled, NotYetStarted
  <2>3. CASE queue # << >>
    <3>1. \A i \in 1..Len(Shifted) : Shifted[i] \in Calls
      BY <2>3, NextReleased
    <3>2. QueueWaits'
      BY <1>a, <2>1, <2>3, <3>1, NextReleased DEF QueueWaits
    <3>3. RunningIsHandled' /\ NotYetStarted'
      BY <1>a, <2>1, <2>3, NextReleased DEF RunningIsHandled, NotYetStarted
    <3> QED BY <3>2, <3>3
  <2> QED BY <2>2, <2>3
<1>7. CASE KillAll
  <2>1. /\ call' = [c \in Calls |-> IF call[c] = "queued" THEN "woken" ELSE call[c]]
        /\ queue' = << >> /\ running' = running /\ child' = child
    BY <1>7 DEF KillAll
  <2> QED BY <1>a, <2>1 DEF QueueWaits, RunningIsHandled, NotYetStarted
<1>8. CASE Die
  <2>1. /\ call' = [c \in Calls |-> IF call[c] = "new" THEN "new" ELSE "lost"]
        /\ queue' = << >> /\ running' = {} /\ child' = child
    BY <1>8 DEF Die
  <2> QED BY <1>a, <2>1 DEF QueueWaits, RunningIsHandled, NotYetStarted
<1>9. CASE FlushDone \/ Boot \/ Reap \/ UNCHANGED vars
  <2>1. UNCHANGED <<call, queue, running, child>>
    BY <1>9 DEF FlushDone, Boot, Reap, vars, app
  <2> QED BY <2>1 DEF QueueWaits, RunningIsHandled, NotYetStarted
<1> QED BY <1>1, <1>2, <1>3, <1>4, <1>5, <1>6, <1>7, <1>8, <1>9 DEF Next

-----------------------------------------------------------------------------
(* A slot is held by who runs and by who was released and is to run.       *)

\* SlotsAreShared counts the runs alone in its first part: what keeps it is that a released
\* waiter counts too, from its release to its start or failure.
SlotsAreHeld ==
  /\ ~disposed \/ ~up => Cardinality(running) + Cardinality(Woken) <= MaxConcurrent
  /\ queue # << >> => Cardinality(running) + Cardinality(Woken) >= MaxConcurrent

LEMMA Counting ==
  ASSUME TypeOK
  PROVE  /\ IsFiniteSet(running) /\ IsFiniteSet(Woken)
         /\ Cardinality(running) \in Nat /\ Cardinality(Woken) \in Nat
         /\ MaxConcurrent \in Nat /\ MaxConcurrent > 0
<1>1. running \in SUBSET Calls /\ Woken \in SUBSET Calls
  BY DEF TypeOK, Woken
<1>2. IsFiniteSet(running) /\ IsFiniteSet(Woken)
  BY <1>1, ProcessManagerAssumption, FS_Subset
<1>3. MaxConcurrent \in Nat /\ MaxConcurrent > 0
  BY ProcessManagerAssumption DEF TypeOK, MaxConcurrent
<1> QED BY <1>2, <1>3, FS_CardinalityType

\* A release adds the head of the queue to those that hold a slot.
LEMMA ReleaseCounts ==
  ASSUME TypeOK, Places, queue # << >>
  PROVE  /\ {c \in Calls : WithNext(call)[c] = "woken"} = Woken \cup {Head(queue)}
         /\ Cardinality(Woken \cup {Head(queue)}) = Cardinality(Woken) + 1
<1>1. call \in [Calls -> CallStates]
  BY DEF TypeOK
<1>2. /\ Head(queue) \in Calls /\ call[Head(queue)] = "queued"
      /\ WithNext(call) = [call EXCEPT ![Head(queue)] = "woken"]
  BY NextReleased DEF Places
<1>3. Head(queue) \notin Woken
  BY <1>2 DEF Woken
<1>4. IsFiniteSet(Woken)
  BY Counting
<1> QED BY <1>1, <1>2, <1>3, <1>4, FS_AddElement DEF Woken

LEMMA SlotsInitially == Init => SlotsAreHeld
<1> SUFFICES ASSUME Init PROVE SlotsAreHeld
  OBVIOUS
<1>1. TypeOK
  BY TypeInitially
<1>2. running = {} /\ Woken = {} /\ queue = << >>
  BY DEF Init, Woken
<1>3. Cardinality(running) = 0 /\ Cardinality(Woken) = 0
  BY <1>2, FS_EmptySet
<1> QED BY <1>1, <1>2, <1>3, Counting DEF SlotsAreHeld

LEMMA SlotsStep ==
  ASSUME TypeOK, Places, SlotsAreHeld, [Next]_vars PROVE SlotsAreHeld'
<1> DEFINE held == Cardinality(running) + Cardinality(Woken)
<1>a. /\ call \in [Calls -> CallStates] /\ queue \in Seq(Calls) /\ running \in SUBSET Calls
      /\ up \in BOOLEAN /\ disposed \in BOOLEAN
  BY DEF TypeOK
<1>b. /\ IsFiniteSet(running) /\ IsFiniteSet(Woken)
      /\ Cardinality(running) \in Nat /\ Cardinality(Woken) \in Nat
      /\ MaxConcurrent \in Nat /\ MaxConcurrent > 0
  BY Counting
<1>c. ASSUME UNCHANGED <<inst, up, disposed, running, Woken>>, queue' = queue \/ queue' = << >>
      PROVE  SlotsAreHeld'
  BY <1>c DEF SlotsAreHeld, MaxConcurrent
\* A start or its failure, of a released waiter or with a free slot and an empty queue.
<1>d. ASSUME NEW c \in Calls, up, Start(c),
             \/ call[c] = "woken"
             \/ call[c] = "new" /\ queue = << >> /\ held < MaxConcurrent
      PROVE  SlotsAreHeld'
  <2>1. UNCHANGED <<inst, up, disposed>>
    BY <1>d DEF Start
  <2>2. c \notin running
    BY <1>d DEF Places, RunningIsHandled
  <2>3. Cardinality(Woken \ {c}) =
          IF c \in Woken THEN Cardinality(Woken) - 1 ELSE Cardinality(Woken)
    BY <1>b, FS_RemoveElement
  <2>4. CASE StartSucceeds(c)
    <3>1. /\ queue' = queue /\ running' = running \cup {c}
          /\ call' = [call EXCEPT ![c] = "handle"]
      BY <2>4 DEF StartSucceeds
    <3>2. Woken' = Woken \ {c}
      BY <1>a, <3>1 DEF Woken
    <3>3. Cardinality(running') = Cardinality(running) + 1
      BY <1>b, <2>2, <3>1, FS_AddElement
    <3>4. CASE call[c] = "woken"
      <4>1. Cardinality(Woken') = Cardinality(Woken) - 1
        BY <2>3, <3>2, <3>4 DEF Woken
      <4> QED BY <1>b, <2>1, <3>1, <3>3, <4>1 DEF SlotsAreHeld, MaxConcurrent
    <3>5. CASE call[c] = "new" /\ queue = << >> /\ held < MaxConcurrent
      <4>1. Cardinality(Woken') = Cardinality(Woken)
        BY <2>3, <3>2, <3>5 DEF Woken
      <4> QED BY <1>b, <2>1, <3>1, <3>3, <3>5, <4>1 DEF SlotsAreHeld, MaxConcurrent
    <3> QED BY <1>d, <3>4, <3>5
  <2>5. CASE StartFails(c)
    <3>1. /\ queue' = Shifted /\ running' = running
          /\ call' = [WithNext(call) EXCEPT ![c] = "handle"]
      BY <2>5 DEF StartFails
    <3>2. CASE queue = << >>
      <4>1. queue' = << >> /\ Woken' = Woken \ {c}
        BY <1>a, <3>1, <3>2 DEF Shifted, WithNext, Woken
      <4>2. Cardinality(Woken') <= Cardinality(Woken) /\ Cardinality(Woken') \in Int
        BY <1>b, <2>3, <4>1
      <4> QED BY <1>b, <2>1, <3>1, <4>1, <4>2 DEF SlotsAreHeld, MaxConcurrent
    <3>3. CASE queue # << >>
      <4>1. call[c] = "woken" /\ c \in Woken
        BY <1>d, <3>3 DEF Woken
      <4>2. Woken' = (Woken \cup {Head(queue)}) \ {c}
        <5>1. WithNext(call) \in [Calls -> CallStates]
          BY <1>a DEF WithNext, CallStates
        <5>2. {d \in Calls : WithNext(call)[d] = "woken"} = Woken \cup {Head(queue)}
          BY <3>3, ReleaseCounts
        <5>3. \A d \in Calls : call'[d] = IF d = c THEN "handle" ELSE WithNext(call)[d]
          BY <3>1, <5>1
        <5>4. Woken' = {d \in Calls : WithNext(call)[d] = "woken"} \ {c}
          BY <5>3 DEF Woken
        <5> QED BY <5>2, <5>4
      <4>3. /\ IsFiniteSet(Woken \cup {Head(queue)})
            /\ Cardinality(Woken \cup {Head(queue)}) = Cardinality(Woken) + 1
        BY <1>b, <3>3, ReleaseCounts, FS_AddElement
      <4>4. Cardinality(Woken') = Cardinality(Woken \cup {Head(queue)}) - 1
        <5>1. c \in Woken \cup {Head(queue)}
          BY <4>1
        <5> QED BY <4>2, <4>3, <5>1, FS_RemoveElement
      <4> QED BY <1>b, <2>1, <3>1, <3>3, <4>3, <4>4 DEF SlotsAreHeld, MaxConcurrent
    <3> QED BY <3>2, <3>3
  <2> QED BY <1>d, <2>4, <2>5 DEF Start
<1>1. ASSUME NEW c \in Calls, SpawnRefused(c) PROVE SlotsAreHeld'
  <2>1. Woken' = Woken
    BY <1>1, <1>a DEF SpawnRefused, Woken
  <2> QED BY <1>1, <1>c, <2>1 DEF SpawnRefused
<1>2. ASSUME NEW c \in Calls, SpawnQueued(c) PROVE SlotsAreHeld'
  <2>1. Woken' = Woken
    BY <1>2, <1>a DEF SpawnQueued, Woken
  <2>2. UNCHANGED <<inst, up, disposed, running>> /\ Cardinality(running) >= MaxConcurrent
    BY <1>2 DEF SpawnQueued, NoSlot
  <2> QED BY <1>b, <2>1, <2>2 DEF SlotsAreHeld, MaxConcurrent
<1>3. ASSUME NEW c \in Calls, SpawnNow(c) PROVE SlotsAreHeld'
  <2>1. /\ up /\ Woken = {} /\ call[c] = "new" /\ Start(c)
        /\ ~(Cardinality(running) >= MaxConcurrent)
    BY <1>3 DEF SpawnNow, Event, NoSlot
  <2>2. Cardinality(Woken) = 0
    BY <2>1, FS_EmptySet
  <2>3. held < MaxConcurrent
    BY <1>b, <2>1, <2>2
  <2>4. queue = << >>
    BY <1>b, <2>3 DEF SlotsAreHeld
  <2> QED BY <1>d, <2>1, <2>3, <2>4
<1>4. ASSUME NEW c \in Calls, Continue(c) PROVE SlotsAreHeld'
  BY <1>4, <1>d DEF Continue
<1>5. ASSUME NEW c \in Calls, NEW timed, NEW reason,
             Cancel(c) \/ Escalate(c) \/ TimerFires(c, timed, reason) \/ ChildExits(c)
      PROVE  SlotsAreHeld'
  BY <1>5, <1>c DEF Cancel, Escalate, TimerFires, ChildExits, app, Woken
<1>6. ASSUME NEW c \in Calls, OnExit(c) PROVE SlotsAreHeld'
  <2>1. /\ call' = WithNext(call) /\ queue' = Shifted /\ running' = running \ {c}
        /\ c \in running /\ UNCHANGED <<inst, up, disposed>>
    BY <1>6 DEF OnExit
  <2>2. Cardinality(running') = Cardinality(running) - 1
    BY <1>b, <2>1, FS_RemoveElement
  <2>3. CASE queue = << >>
    <3>1. Woken' = Woken /\ queue' = << >>
      BY <2>1, <2>3 DEF WithNext, Shifted, Woken
    <3> QED BY <1>b, <2>1, <2>2, <3>1 DEF SlotsAreHeld, MaxConcurrent
  <2>4. CASE queue # << >>
    <3>1. Woken' = Woken \cup {Head(queue)}
      BY <2>1, <2>4, ReleaseCounts DEF Woken
    <3>2. Cardinality(Woken') = Cardinality(Woken) + 1
      BY <2>4, <3>1, ReleaseCounts
    <3> QED BY <1>b, <2>1, <2>2, <2>4, <3>2 DEF SlotsAreHeld, MaxConcurrent
  <2> QED BY <2>3, <2>4
<1>7. CASE KillAll
  BY <1>7 DEF KillAll, Event, SlotsAreHeld
<1>8. CASE Die
  <2>1. queue' = << >> /\ running' = {} /\ Woken' = {} /\ inst' = inst
    BY <1>8 DEF Die, Woken
  <2>2. Cardinality(running') = 0 /\ Cardinality(Woken') = 0
    BY <2>1, FS_EmptySet
  <2> QED BY <1>b, <2>1, <2>2 DEF SlotsAreHeld, MaxConcurrent
<1>9. CASE Boot
  BY <1>9, <1>a DEF Boot, app, SlotsAreHeld, MaxConcurrent, Woken
<1>10. CASE FlushDone \/ Reap \/ UNCHANGED vars
  BY <1>10, <1>c DEF FlushDone, Reap, vars, app, Woken
<1> QED BY <1>1, <1>2, <1>3, <1>4, <1>5, <1>6, <1>7, <1>8, <1>9, <1>10 DEF Next

-----------------------------------------------------------------------------
LEMMA OutcomeStep ==
  ASSUME TypeOK, Places, OutcomeMeansGone, [Next]_vars PROVE OutcomeMeansGone'
<1> USE DEF OutcomeMeansGone
<1>a. /\ call \in [Calls -> CallStates] /\ run \in [Calls -> RunType]
      /\ child \in [Calls -> {"none", "alive", "gone"}]
  BY DEF TypeOK
<1>b. ASSUME NEW c \in Calls, call[c] \in {"new", "woken"}, Start(c) PROVE OutcomeMeansGone'
  <2>1. child[c] = "none"
    BY <1>b DEF Places, NotYetStarted
  <2>2. CASE StartFails(c)
    BY <1>a, <2>1, <2>2 DEF StartFails
  <2>3. CASE StartSucceeds(c)
    BY <1>a, <2>3 DEF StartSucceeds, FreshRun
  <2> QED BY <1>b, <2>2, <2>3 DEF Start
<1>1. ASSUME NEW c \in Calls, SpawnRefused(c) \/ SpawnQueued(c) PROVE OutcomeMeansGone'
  BY <1>1 DEF SpawnRefused, SpawnQueued
<1>2. ASSUME NEW c \in Calls, SpawnNow(c) \/ Continue(c) PROVE OutcomeMeansGone'
  BY <1>2, <1>b DEF SpawnNow, Continue
<1>3. ASSUME NEW c \in Calls, NEW timed, NEW reason, Cancel(c) \/ TimerFires(c, timed, reason)
      PROVE  OutcomeMeansGone'
  <2>1. ASSUME NEW why PROVE Terminated(run[c], why).settled = run[c].settled
    BY <1>a DEF Terminated, RunType
  <2> QED BY <1>3, <1>a, <2>1 DEF Cancel, TimerFires
<1>4. ASSUME NEW c \in Calls, Escalate(c) PROVE OutcomeMeansGone'
  BY <1>4, <1>a DEF Escalate, RunType
<1>5. ASSUME NEW c \in Calls, ChildExits(c) PROVE OutcomeMeansGone'
  BY <1>5, <1>a DEF ChildExits, app
<1>6. ASSUME NEW c \in Calls, OnExit(c) PROVE OutcomeMeansGone'
  BY <1>6, <1>a DEF OnExit, ExitReported
<1>7. CASE KillAll
  <2>1. ASSUME NEW c \in Calls PROVE run'[c].settled = run[c].settled
    <3>1. Terminated(run[c], "cancelled").settled = run[c].settled
      BY <1>a DEF Terminated, RunType
    <3> QED BY <1>7, <3>1 DEF KillAll
  <2> QED BY <1>7, <2>1 DEF KillAll
<1>8. CASE Die
  BY <1>8 DEF Die, FreshRun
<1>9. CASE FlushDone \/ Boot \/ Reap \/ UNCHANGED vars
  BY <1>9 DEF FlushDone, Boot, Reap, vars, app
<1> QED BY <1>1, <1>2, <1>3, <1>4, <1>5, <1>6, <1>7, <1>8, <1>9 DEF Next

\* The slots of ProcessManager are shared and none is lost, however starts, failed starts,
\* exits, cancels and deaths interleave with the queue; and no outcome is delivered while the
\* process lives.
THEOREM ProcessesAreAccountedFor == Spec => []ProcessesAreAccounted
<1> DEFINE Inv == TypeOK /\ Places /\ SlotsAreHeld /\ OutcomeMeansGone
<1>1. Init => Inv
  <2>1. Init => OutcomeMeansGone
    BY DEF Init, OutcomeMeansGone
  <2> QED BY <2>1, TypeInitially, PlacesInitially, SlotsInitially
<1>2. Inv /\ [Next]_vars => Inv'
  BY TypeStep, PlacesStep, SlotsStep, OutcomeStep
<1>3. Inv => ProcessesAreAccounted
  <2> SUFFICES ASSUME Inv PROVE SlotsAreShared
    BY DEF ProcessesAreAccounted
  <2> QED BY Counting DEF SlotsAreShared, SlotsAreHeld
<1> QED BY <1>1, <1>2, <1>3, PTL DEF Spec

-----------------------------------------------------------------------------
(* What a dead Forge leaves behind.                                        *)

LostAlive == {c \in Calls : call[c] = "lost" /\ child[c] = "alive"}

\* Every death so far was after the last flush and the reap, no dead owner seemed alive, and
\* nothing was started before the reap had finished.
Orderly == seen.clean /\ ~seen.spared /\ ~seen.hasty

\* What the file holds when every flush has reached it.
LastRecorded == IF writes = << >> THEN file.pids ELSE writes[Len(writes)].pids

AliveIsRunning == \A c \in Calls : call[c] = "handle" /\ child[c] = "alive" => c \in running

\* Without a tracker Forge is started once.
TrackedOrOnce ==
  /\ life >= 1
  /\ ~inst.tracked => up /\ \A c \in Calls : call[c] # "lost"

NothingBeforeTheReap ==
  ~up \/ (reap = "reading" /\ ~seen.hasty) => running = {} /\ tracked = {} /\ writes = << >>

RunningIsRecorded ==
  inst.tracked /\ up /\ reap = "done" /\ Orderly =>
    running \subseteq tracked /\ tracked = LastRecorded

LostIsKnown ==
  inst.tracked /\ Orderly =>
    LostAlive \subseteq
      IF up /\ reap = "done" THEN seen.signalled ELSE seen.signalled \cup file.pids

OrphanInv ==
  AliveIsRunning /\ TrackedOrOnce /\ NothingBeforeTheReap /\ RunningIsRecorded /\ LostIsKnown

LEMMA OrphansInitially == Init => OrphanInv
<1> SUFFICES ASSUME Init PROVE OrphanInv
  OBVIOUS
<1>1. AliveIsRunning /\ TrackedOrOnce /\ NothingBeforeTheReap
  BY DEF Init, AliveIsRunning, TrackedOrOnce, NothingBeforeTheReap
<1>2. RunningIsRecorded
  BY DEF Init, RunningIsRecorded, LastRecorded, NoFile
<1>3. LostIsKnown
  BY DEF Init, LostIsKnown, LostAlive
<1> QED BY <1>1, <1>2, <1>3 DEF OrphanInv

\* A flush records what is tracked.
LEMMA FlushRecords ==
  ASSUME TypeOK, inst.tracked, NEW pids \in SUBSET Calls, Flush(pids)
  PROVE  /\ tracked' = pids /\ writes' # << >> /\ writes'[Len(writes')].pids = pids
<1>1. tracked' = pids /\ writes' = Append(writes, [owner |-> life, pids |-> pids])
  BY DEF Flush
<1>2. writes \in Seq(Record) /\ [owner |-> life, pids |-> pids] \in Record
  BY DEF TypeOK, Record
<1>3. Len(writes') = Len(writes) + 1 /\ writes'[Len(writes) + 1] = [owner |-> life, pids |-> pids]
  BY <1>1, <1>2
<1>4. writes' # << >>
  BY <1>2, <1>3
<1> QED BY <1>1, <1>3, <1>4

LEMMA OrphanStep ==
  ASSUME \A i \in Instances : i.lives > 1 => i.tracked,
         TypeOK, Places, OrphanInv, [Next]_vars
  PROVE  OrphanInv'
<1> USE DEF OrphanInv
<1>a. /\ inst \in Instances /\ life \in Nat /\ up \in BOOLEAN
      /\ call \in [Calls -> CallStates] /\ queue \in Seq(Calls) /\ running \in SUBSET Calls
      /\ child \in [Calls -> {"none", "alive", "gone"}] /\ tracked \in SUBSET Calls
      /\ writes \in Seq(Record) /\ file \in Record /\ reap \in {"reading", "done"}
      /\ seen \in SeenType
  BY DEF TypeOK
\* A change of calls that loses none, with no other change that matters.
<1>b. ASSUME UNCHANGED <<inst, life, up, running, child, tracked, writes, file, reap, seen>>,
             \A c \in Calls : /\ call'[c] = "lost" <=> call[c] = "lost"
                              /\ call'[c] = "handle" => call[c] = "handle"
      PROVE  OrphanInv'
  <2>1. AliveIsRunning' /\ TrackedOrOnce'
    BY <1>b DEF AliveIsRunning, TrackedOrOnce
  <2>2. NothingBeforeTheReap'
    BY <1>b DEF NothingBeforeTheReap
  <2>3. RunningIsRecorded'
    BY <1>b DEF RunningIsRecorded, Orderly, LastRecorded
  <2>4. LostAlive' = LostAlive
    BY <1>b DEF LostAlive
  <2>5. LostIsKnown'
    BY <1>b, <2>4 DEF LostIsKnown, Orderly
  <2> QED BY <2>1, <2>2, <2>3, <2>5
\* What the release of the next waiter does to the calls.
<1>c. \A c \in Calls : /\ WithNext(call)[c] = "lost" <=> call[c] = "lost"
                       /\ WithNext(call)[c] = "handle" <=> call[c] = "handle"
  <2>1. CASE queue = << >>
    BY <2>1 DEF WithNext
  <2>2. CASE queue # << >>
    BY <2>2, <1>a, NextReleased DEF Places
  <2> QED BY <2>1, <2>2
<1>d. WithNext(call) \in [Calls -> CallStates]
  BY <1>a DEF WithNext, CallStates
<1>e. ASSUME NEW c \in Calls, call[c] \in {"new", "woken"}, up, Start(c) PROVE OrphanInv'
  <2>1. child[c] = "none" /\ UNCHANGED <<inst, life, up, file, reap>>
    BY <1>e DEF Places, NotYetStarted, Start
  <2>2. CASE StartFails(c)
    <3>1. /\ UNCHANGED <<inst, life, up, running, child, tracked, writes, file, reap, seen>>
          /\ call' = [WithNext(call) EXCEPT ![c] = "handle"]
      BY <2>1, <2>2 DEF StartFails
    <3>2. \A d \in Calls : call'[d] = IF d = c THEN "handle" ELSE WithNext(call)[d]
      BY <1>d, <3>1
    <3>3. AliveIsRunning'
      BY <1>c, <2>1, <3>1, <3>2 DEF AliveIsRunning
    <3>4. TrackedOrOnce'
      BY <1>c, <3>1, <3>2 DEF TrackedOrOnce
    <3>5. NothingBeforeTheReap'
      BY <3>1 DEF NothingBeforeTheReap
    <3>6. RunningIsRecorded'
      BY <3>1 DEF RunningIsRecorded, Orderly, LastRecorded
    <3>7. LostAlive' = LostAlive
      BY <1>c, <2>1, <3>1, <3>2 DEF LostAlive
    <3>8. LostIsKnown'
      BY <3>1, <3>7 DEF LostIsKnown, Orderly
    <3> QED BY <3>3, <3>4, <3>5, <3>6, <3>8
  <2>3. CASE StartSucceeds(c)
    <3>1. /\ call' = [call EXCEPT ![c] = "handle"] /\ child' = [child EXCEPT ![c] = "alive"]
          /\ running' = running \cup {c} /\ Flush(tracked \cup {c})
      BY <2>3 DEF StartSucceeds
    <3>2. /\ seen'.hasty = (seen.hasty \/ reap # "done")
          /\ seen'.clean = seen.clean /\ seen'.spared = seen.spared
          /\ seen'.signalled = seen.signalled
      BY <2>3, <1>a DEF StartSucceeds, SeenType
    <3>3. AliveIsRunning' /\ TrackedOrOnce'
      BY <1>a, <2>1, <3>1 DEF AliveIsRunning, TrackedOrOnce
    <3>4. NothingBeforeTheReap'
      BY <1>a, <1>e, <2>1, <3>2 DEF NothingBeforeTheReap
    <3>5. ASSUME inst.tracked', up', reap' = "done", Orderly'
          PROVE  running' \subseteq tracked' /\ tracked' = LastRecorded'
      <4>1. inst.tracked /\ up /\ reap = "done" /\ Orderly
        BY <2>1, <3>2, <3>5 DEF Orderly
      <4>2. running \subseteq tracked
        BY <4>1 DEF RunningIsRecorded
      <4>3. tracked \cup {c} \in SUBSET Calls
        BY <1>a
      <4>4. tracked' = tracked \cup {c} /\ LastRecorded' = tracked \cup {c}
        BY <3>1, <4>1, <4>3, FlushRecords DEF LastRecorded
      <4> QED BY <3>1, <4>2, <4>4
    <3>6. RunningIsRecorded'
      BY <3>5 DEF RunningIsRecorded
    <3>7. LostAlive' = LostAlive
      BY <1>a, <1>e, <3>1 DEF LostAlive
    <3>8. LostIsKnown'
      BY <1>e, <2>1, <3>2, <3>7 DEF LostIsKnown, Orderly
    <3> QED BY <3>3, <3>4, <3>6, <3>8
  <2> QED BY <1>e, <2>2, <2>3 DEF Start
<1>1. ASSUME NEW c \in Calls, SpawnRefused(c) \/ SpawnQueued(c) PROVE OrphanInv'
  <2>1. PICK s \in {"rejected", "queued"} : call' = [call EXCEPT ![c] = s]
    BY <1>1 DEF SpawnRefused, SpawnQueued
  <2>2. call[c] = "new" /\ UNCHANGED <<inst, life, up, running, child, disk, reap, seen>>
    BY <1>1 DEF SpawnRefused, SpawnQueued
  <2> QED BY <1>a, <1>b, <2>1, <2>2 DEF disk
<1>2. ASSUME NEW c \in Calls, SpawnNow(c) \/ Continue(c) PROVE OrphanInv'
  BY <1>2, <1>e DEF SpawnNow, Continue, Event
<1>3. ASSUME NEW c \in Calls, NEW timed, NEW reason,
             Cancel(c) \/ Escalate(c) \/ TimerFires(c, timed, reason)
      PROVE  OrphanInv'
  BY <1>3, <1>b DEF Cancel, Escalate, TimerFires, disk
<1>4. ASSUME NEW c \in Calls, ChildExits(c) PROVE OrphanInv'
  <2>1. /\ child' = [child EXCEPT ![c] = "gone"]
        /\ UNCHANGED <<inst, life, up, call, running, tracked, writes, file, reap, seen>>
    BY <1>4 DEF ChildExits, app, disk
  <2>2. AliveIsRunning' /\ LostAlive' \subseteq LostAlive
    BY <1>a, <2>1 DEF AliveIsRunning, LostAlive
  <2>3. TrackedOrOnce' /\ NothingBeforeTheReap'
    BY <2>1 DEF TrackedOrOnce, NothingBeforeTheReap
  <2>4. RunningIsRecorded'
    BY <2>1 DEF RunningIsRecorded, Orderly, LastRecorded
  <2>5. LostIsKnown'
    BY <2>1, <2>2 DEF LostIsKnown, Orderly
  <2> QED BY <2>2, <2>3, <2>4, <2>5
<1>5. ASSUME NEW c \in Calls, OnExit(c) PROVE OrphanInv'
  <2>1. /\ c \in running /\ child[c] = "gone" /\ up
        /\ call' = WithNext(call) /\ running' = running \ {c} /\ Flush(tracked \ {c})
        /\ UNCHANGED <<inst, life, up, child, file, reap, seen>>
    BY <1>5 DEF OnExit, ExitReported, Event
  <2>2. AliveIsRunning' /\ TrackedOrOnce'
    BY <1>c, <2>1 DEF AliveIsRunning, TrackedOrOnce
  <2>3. NothingBeforeTheReap'
    BY <2>1 DEF NothingBeforeTheReap
  <2>4. ASSUME inst.tracked', up', reap' = "done", Orderly'
        PROVE  running' \subseteq tracked' /\ tracked' = LastRecorded'
    <3>1. inst.tracked /\ running \subseteq tracked
      BY <2>1, <2>4 DEF RunningIsRecorded, Orderly
    <3>2. tracked \ {c} \in SUBSET Calls
      BY <1>a
    <3>3. tracked' = tracked \ {c} /\ LastRecorded' = tracked \ {c}
      BY <2>1, <3>1, <3>2, FlushRecords DEF LastRecorded
    <3> QED BY <2>1, <3>1, <3>3
  <2>5. RunningIsRecorded'
    BY <2>4 DEF RunningIsRecorded
  <2>6. LostAlive' = LostAlive
    BY <1>c, <2>1 DEF LostAlive
  <2>7. LostIsKnown'
    BY <2>1, <2>6 DEF LostIsKnown, Orderly
  <2> QED BY <2>2, <2>3, <2>5, <2>7
<1>6. CASE KillAll
  <2>1. /\ call' = [c \in Calls |-> IF call[c] = "queued" THEN "woken" ELSE call[c]]
        /\ UNCHANGED <<inst, life, up, running, child, tracked, writes, file, reap>>
    BY <1>6 DEF KillAll, disk
  <2>2. /\ seen'.hasty = seen.hasty /\ seen'.clean = seen.clean /\ seen'.spared = seen.spared
        /\ seen'.signalled = seen.signalled
    BY <1>6, <1>a DEF KillAll, SeenType
  <2>3. AliveIsRunning' /\ TrackedOrOnce' /\ NothingBeforeTheReap'
    BY <2>1, <2>2 DEF AliveIsRunning, TrackedOrOnce, NothingBeforeTheReap
  <2>4. RunningIsRecorded'
    BY <2>1, <2>2 DEF RunningIsRecorded, Orderly, LastRecorded
  <2>5. LostAlive' = LostAlive
    BY <2>1 DEF LostAlive
  <2>6. LostIsKnown'
    BY <2>1, <2>2, <2>5 DEF LostIsKnown, Orderly
  <2> QED BY <2>3, <2>4, <2>6
<1>7. CASE FlushDone
  <2>1. /\ up /\ writes # << >> /\ writes' = Tail(writes)
        /\ file' = IF Head(writes).pids = {} THEN NoFile ELSE Head(writes)
        /\ UNCHANGED <<inst, life, up, call, running, child, tracked, reap, seen>>
    BY <1>7 DEF FlushDone, app
  <2>2. AliveIsRunning' /\ TrackedOrOnce'
    BY <2>1 DEF AliveIsRunning, TrackedOrOnce
  <2>3. ~(reap = "reading" /\ ~seen.hasty)
    BY <2>1 DEF NothingBeforeTheReap
  <2>4. NothingBeforeTheReap'
    BY <2>1, <2>3 DEF NothingBeforeTheReap
  <2>5. LastRecorded' = LastRecorded
    <3>1. /\ Len(writes) \in Nat /\ Len(writes) > 0 /\ Head(writes) = writes[1]
          /\ Len(writes') = Len(writes) - 1 /\ writes' \in Seq(Record)
          /\ \A i \in 1..Len(writes') : writes'[i] = writes[i + 1]
      BY <1>a, <2>1
    <3>2. file'.pids = writes[1].pids
      BY <2>1, <3>1 DEF NoFile
    <3>3. CASE Len(writes) = 1
      <4>1. writes' = << >>
        BY <3>1, <3>3
      <4> QED BY <2>1, <3>2, <3>3, <4>1 DEF LastRecorded
    <3>4. CASE Len(writes) # 1
      <4>1. writes' # << >> /\ Len(writes') \in 1..Len(writes')
        BY <3>1, <3>4
      <4>2. writes'[Len(writes')] = writes[Len(writes)]
        BY <3>1, <4>1
      <4> QED BY <2>1, <4>1, <4>2 DEF LastRecorded
    <3> QED BY <3>3, <3>4
  <2>6. RunningIsRecorded'
    BY <2>1, <2>5 DEF RunningIsRecorded, Orderly
  <2>7. LostIsKnown'
    BY <1>a, <2>1, <2>3 DEF LostIsKnown, Orderly, LostAlive
  <2> QED BY <2>2, <2>4, <2>6, <2>7
<1>8. CASE Die
  <2>1. /\ up' = FALSE /\ running' = {} /\ tracked' = {} /\ writes' = << >>
        /\ call' = [c \in Calls |-> IF call[c] = "new" THEN "new" ELSE "lost"]
        /\ up /\ life < inst.lives /\ UNCHANGED <<inst, life, child, file>>
    BY <1>8 DEF Die
  <2>2. seen'.clean = (seen.clean /\ writes = << >> /\ reap = "done")
    BY <1>8, <1>a DEF Die, SeenType
  <2>3. seen'.spared = seen.spared /\ seen'.hasty = seen.hasty /\ seen'.signalled = seen.signalled
    BY <1>8, <1>a DEF Die, SeenType
  <2>4. inst.tracked
    <3>1. inst.lives \in Nat
      BY <1>a, ProcessManagerAssumption
    <3>2. inst.lives > 1
      BY <1>a, <2>1, <3>1 DEF TrackedOrOnce
    <3> QED BY <1>a, <3>2
  <2>5. AliveIsRunning' /\ TrackedOrOnce' /\ NothingBeforeTheReap' /\ RunningIsRecorded'
    BY <2>1, <2>4 DEF AliveIsRunning, TrackedOrOnce, NothingBeforeTheReap, RunningIsRecorded
  <2>6. ASSUME Orderly', NEW c \in LostAlive' PROVE c \in seen'.signalled \cup file'.pids
    <3>1. Orderly /\ writes = << >> /\ reap = "done"
      BY <2>2, <2>3, <2>6 DEF Orderly
    <3>2. c \in Calls /\ child[c] = "alive" /\ call[c] # "new"
      BY <2>1, <2>6 DEF LostAlive
    <3>3. call[c] \in {"handle", "lost"}
      BY <1>a, <3>2 DEF Places, NotYetStarted, CallStates
    <3>4. CASE call[c] = "handle"
      BY <2>1, <2>4, <3>1, <3>2, <3>4 DEF AliveIsRunning, RunningIsRecorded, LastRecorded
    <3>5. CASE call[c] = "lost"
      BY <2>1, <2>3, <2>4, <3>1, <3>2, <3>5 DEF LostIsKnown, LostAlive
    <3> QED BY <3>3, <3>4, <3>5
  <2>7. LostIsKnown'
    BY <2>1, <2>6 DEF LostIsKnown
  <2> QED BY <2>5, <2>7
<1>9. CASE Boot
  <2>1. /\ ~up /\ up' /\ life' = life + 1
        /\ reap' = FirstReap
        /\ UNCHANGED <<inst, call, running, child, tracked, writes, file, seen>>
    BY <1>9 DEF Boot, app, disk
  <2>2. inst.tracked /\ reap' = "reading"
    BY <2>1 DEF TrackedOrOnce, FirstReap
  <2>3. AliveIsRunning' /\ TrackedOrOnce' /\ NothingBeforeTheReap' /\ RunningIsRecorded'
    BY <1>a, <2>1, <2>2
       DEF AliveIsRunning, TrackedOrOnce, NothingBeforeTheReap, RunningIsRecorded
  <2>4. LostIsKnown'
    BY <2>1, <2>2 DEF LostIsKnown, Orderly, LostAlive
  <2> QED BY <2>3, <2>4
<1>10. CASE Reap
  <2>1. /\ up /\ reap = "reading" /\ reap' = "done"
        /\ UNCHANGED <<inst, life, up, call, running, child, file>>
    BY <1>10 DEF Reap, app, Event
  <2>2. AliveIsRunning' /\ TrackedOrOnce' /\ NothingBeforeTheReap'
    BY <2>1 DEF AliveIsRunning, TrackedOrOnce, NothingBeforeTheReap
  <2>3. CASE UNCHANGED <<tracked, writes, seen>> /\ file = NoFile
    <3>1. RunningIsRecorded'
      BY <2>1, <2>3 DEF RunningIsRecorded, NothingBeforeTheReap, Orderly, LastRecorded, NoFile
    <3>2. LostIsKnown'
      BY <2>1, <2>3 DEF LostIsKnown, Orderly, LostAlive, NoFile
    <3> QED BY <2>2, <3>1, <3>2
  <2>4. CASE seen' = [seen EXCEPT !.spared = TRUE]
    <3>1. ~Orderly'
      BY <1>a, <2>4 DEF Orderly, SeenType
    <3> QED BY <2>2, <3>1 DEF RunningIsRecorded, LostIsKnown
  <2>5. CASE seen' = [seen EXCEPT !.signalled = @ \cup Orphans] /\ Flush({})
    <3>1. /\ seen'.hasty = seen.hasty /\ seen'.clean = seen.clean /\ seen'.spared = seen.spared
          /\ seen'.signalled = seen.signalled \cup Orphans
      BY <1>a, <2>5 DEF SeenType
    <3>2. ASSUME inst.tracked', Orderly'
          PROVE  running' \subseteq tracked' /\ tracked' = LastRecorded'
      <4>1. inst.tracked /\ running = {}
        BY <2>1, <3>1, <3>2 DEF Orderly, NothingBeforeTheReap
      <4> QED BY <2>1, <2>5, <4>1, FlushRecords DEF LastRecorded
    <3>3. RunningIsRecorded'
      BY <3>2 DEF RunningIsRecorded
    <3>4. LostIsKnown'
      BY <2>1, <3>1 DEF LostIsKnown, Orderly, LostAlive, Orphans
    <3> QED BY <2>2, <3>3, <3>4
  <2> QED BY <1>10, <2>3, <2>4, <2>5 DEF Reap
<1>11. CASE UNCHANGED vars
  BY <1>11, <1>b DEF vars, app, disk
<1> QED BY <1>1, <1>2, <1>3, <1>4, <1>5, <1>6, <1>7, <1>8, <1>9, <1>10, <1>11 DEF Next

\* If Forge is only restarted where orphans are tracked, then after every start whose reap has
\* finished each process that outlived a dead Forge has been signalled, unless a flush or the
\* reap was cut short, a dead owner seemed alive, or a start did not wait for the reap.
THEOREM OrphansAreSignalled ==
  ASSUME \A i \in Instances : i.lives > 1 => i.tracked
  PROVE  Spec => []OrphansAreFound
<1> DEFINE Inv == TypeOK /\ Places /\ OrphanInv
<1>1. Init => Inv
  BY TypeInitially, PlacesInitially, OrphansInitially
<1>2. Inv /\ [Next]_vars => Inv'
  BY TypeStep, PlacesStep, OrphanStep
<1>3. Inv => OrphansAreFound
  BY DEF OrphanInv, OrphansAreFound, LostIsKnown, LostAlive, Orderly, TrackedOrOnce
<1> QED BY <1>1, <1>2, <1>3, PTL DEF Spec

-----------------------------------------------------------------------------
(* Screens: they are read in their order.                                  *)

\* So many of the list have been painted, and the rest is still to come.
Painted(rest, list, k) ==
  /\ k \in 0..Len(list) /\ Len(rest) = Len(list) - k
  /\ \A i \in 1..Len(list) - k : rest[i] = list[k + i]

LEMMA PaintsNext ==
  ASSUME NEW list \in Seq(Screen), NEW k, Painted(screens, list, k), screens \in Seq(Screen), Paint
  PROVE  k + 1 \in 1..Len(list) /\ Painted(screens', list, k + 1) /\ screen' = list[k + 1]
<1>1. screens # <<>> /\ screen' = Head(screens) /\ screens' = Tail(screens)
  BY DEF Paint
<1>2. /\ Len(screens) \in Nat /\ Len(screens) > 0 /\ Len(list) \in Nat
      /\ Len(Tail(screens)) = Len(screens) - 1
      /\ \A i \in 1..Len(screens) - 1 : Tail(screens)[i] = screens[i + 1]
      /\ Head(screens) = screens[1]
  BY <1>1
<1>3. k \in 0..Len(list) /\ Len(screens) = Len(list) - k
  BY DEF Painted
<1>4. k + 1 \in 1..Len(list) /\ Len(screens') = Len(list) - (k + 1)
  BY <1>1, <1>2, <1>3
<1>5. screen' = list[k + 1]
  BY <1>1, <1>2, <1>3 DEF Painted
<1>6. ASSUME NEW i \in 1..Len(list) - (k + 1) PROVE screens'[i] = list[(k + 1) + i]
  <2> DEFINE n == Len(list)
             m == Len(screens)
  <2>1. n \in Nat /\ m = n - k /\ k \in 0..n /\ i \in 1..n - (k + 1)
    BY <1>2, <1>3
  <2> HIDE DEF n, m
  <2>2. i \in 1..m - 1 /\ i + 1 \in 1..n - k /\ k + (i + 1) = (k + 1) + i
    BY <2>1
  <2>3. screens[i + 1] = list[k + (i + 1)]
    BY <2>2 DEF Painted, n
  <2> QED BY <1>1, <1>2, <2>2, <2>3 DEF m
<1> QED BY <1>4, <1>5, <1>6 DEF Painted

-----------------------------------------------------------------------------
(* The invariant.                                                          *)

Displayed == Screen \cup {Blank}
Outcome ==
  {[kind |-> k, text |-> s.text] : k \in {"answered", "blocked", "timeout"}, s \in Displayed}

ScreenTypes ==
  /\ cli \in Clis /\ cli.brisk
  /\ stage \in {"settling", "quieting", "prompting", "typing", "pasted", "turning", "done"}
  /\ screens \in Seq(Screen) /\ screen \in Displayed
  /\ nthTurn \in 1..Len(cli.turns)
  /\ quietFor \in Nat
  /\ outcomes \in Seq(Outcome)

Calm    == cli.brisk /\ ~hurried
AllHonest == \A n \in 1..Len(cli.turns) : Honest(cli.turns[n])

\* Forge waits for the end of the start: what is displayed is the next screen of it.
Starting ==
  Calm /\ stage \in {"settling", "quieting"} =>
    /\ nthTurn = 1 /\ outcomes = <<>> /\ typedAt = Blank
    /\ \E k \in 0..Len(cli.boot) :
         Painted(screens, cli.boot, k) /\ screen = IF k = 0 THEN Blank ELSE cli.boot[k]

\* A prompt is typed when nothing more is to come.
Typing ==
  Calm /\ stage \in {"prompting", "typing", "pasted"} =>
    /\ nthTurn = 1 \/ AllHonest =>
         Len(outcomes) = nthTurn - 1 /\ screens = <<>> /\ (stage # "prompting" => screen.caret)
    /\ nthTurn = 1 => screen = LastOf(cli.boot)

TypedAtTheEnd == Calm /\ typedAt # Blank => typedAt = LastOf(cli.boot)

\* Until the first screen of a turn is displayed, nothing is taken for work but a prompt at
\* a busy screen, which does not look complete.
Turning ==
  Calm /\ AllHonest /\ stage = "turning" =>
    /\ Len(outcomes) = nthTurn - 1
    /\ \E k \in 0..Len(cli.turns[nthTurn]) :
         /\ Painted(screens, cli.turns[nthTurn], k)
         /\ k = 0 => screen = lastSeen /\ screen.caret /\ (sawWork => screen.busy)
         /\ k # 0 => screen = cli.turns[nthTurn][k]

Ended ==
  /\ Calm /\ AllHonest =>
       \A n \in 1..Len(outcomes) :
         outcomes[n].kind = "answered" => outcomes[n].text = LastOf(cli.turns[n]).text
  /\ Calm /\ AllHonest /\ stage = "done" =>
       /\ Len(outcomes) = nthTurn
       /\ outcomes[nthTurn].kind = "answered" => screens = <<>>

ScreenInv == ScreenTypes /\ Starting /\ Typing /\ TypedAtTheEnd /\ Turning /\ Ended

LEMMA CliTypes ==
  ASSUME ScreenAssumption, ScreenTypes
  PROVE  /\ QuietTicks \in Nat \ {0} /\ MaxTicks \in Nat
         /\ cli.boot \in Seq(Screen) /\ Len(cli.boot) \in Nat /\ Len(cli.boot) > 0
         /\ cli.turns \in Seq(Seq(Screen)) /\ Len(cli.turns) \in Nat
         /\ cli.turns[nthTurn] \in Seq(Screen) /\ nthTurn \in Nat \ {0}
         /\ \A i \in 1..Len(cli.boot) - 1 : cli.boot[i].dialog = "none"
<1>1. cli \in Clis /\ cli.brisk /\ nthTurn \in 1..Len(cli.turns)
  BY DEF ScreenTypes
<1>2. /\ QuietTicks \in Nat \ {0} /\ MaxTicks \in Nat
      /\ cli.boot \in Seq(Screen) /\ Len(cli.boot) > 0 /\ cli.turns \in Seq(Seq(Screen))
      /\ \A i \in 1..Len(cli.boot) - 1 : cli.boot[i].dialog = "none"
  BY <1>1 DEF ScreenAssumption
<1> QED BY <1>1, <1>2

LEMMA ScreenStarts ==
  ASSUME ScreenAssumption, ScreenInit, cli.brisk
  PROVE  ScreenInv
<1>1. /\ cli \in Clis /\ cli.boot \in Seq(Screen) /\ Len(cli.boot) \in Nat
      /\ cli.turns \in Seq(Seq(Screen)) /\ Len(cli.turns) > 0
  BY DEF ScreenAssumption, ScreenInit
<1>2. ScreenTypes
  <2>1. 1 \in 1..Len(cli.turns)
    BY <1>1
  <2> QED BY <1>1, <2>1 DEF ScreenTypes, ScreenInit, Displayed
<1>3. Painted(screens, cli.boot, 0)
  BY <1>1 DEF Painted, ScreenInit
<1> QED BY <1>1, <1>2, <1>3 DEF ScreenInv, Starting, Typing, TypedAtTheEnd, Turning, Ended,
                               ScreenInit

LEMMA PaintKeeps ==
  ASSUME ScreenAssumption, ScreenInv, Paint
  PROVE  ScreenInv'
<1>1. /\ screens # <<>>
      /\ UNCHANGED <<cli, stage, nthTurn, lastSeen, quietFor, sawWork, outcomes, typedAt, hurried>>
  BY DEF Paint, reader
<1>2. cli.boot \in Seq(Screen) /\ cli.turns[nthTurn] \in Seq(Screen) /\ ScreenTypes
  BY CliTypes DEF ScreenInv
<1>3. ScreenTypes'
  <2>1. Head(screens) \in Screen /\ Tail(screens) \in Seq(Screen)
    BY <1>1, <1>2 DEF ScreenTypes
  <2> QED BY <1>1, <1>2, <2>1 DEF ScreenTypes, Paint, Displayed
<1>4. Starting'
  <2> SUFFICES ASSUME Calm, stage \in {"settling", "quieting"} PROVE Starting'
    BY <1>1 DEF Starting, Calm
  <2>1. PICK k \in 0..Len(cli.boot) : Painted(screens, cli.boot, k)
    BY DEF ScreenInv, Starting
  <2>2. /\ k + 1 \in 1..Len(cli.boot) /\ Painted(screens', cli.boot, k + 1)
        /\ screen' = cli.boot[k + 1]
    BY <1>2, <2>1, PaintsNext DEF ScreenTypes
  <2>3. k + 1 \in 0..Len(cli.boot) /\ k + 1 # 0
    BY <1>2, <2>2
  <2>4. nthTurn = 1 /\ outcomes = <<>> /\ typedAt = Blank
    BY DEF ScreenInv, Starting
  <2> QED BY <1>1, <2>2, <2>3, <2>4 DEF Starting
<1>5. Typing'
  <2> SUFFICES ASSUME Calm, stage \in {"prompting", "typing", "pasted"} PROVE Typing'
    BY <1>1 DEF Typing, Calm
  <2>1. ~(nthTurn = 1 \/ AllHonest)
    BY <1>1 DEF ScreenInv, Typing
  <2> QED BY <1>1, <2>1 DEF Typing, AllHonest
<1>6. TypedAtTheEnd'
  BY <1>1 DEF ScreenInv, TypedAtTheEnd, Calm
<1>7. Turning'
  <2> SUFFICES ASSUME Calm, AllHonest, stage = "turning" PROVE Turning'
    BY <1>1 DEF Turning, Calm, AllHonest
  <2> DEFINE t == cli.turns[nthTurn]
  <2>1. t \in Seq(Screen)
    BY <1>2 DEF t
  <2>2. PICK k \in 0..Len(t) : Painted(screens, t, k)
    BY DEF ScreenInv, Turning
  <2> HIDE DEF t
  <2>3. k + 1 \in 1..Len(t) /\ Painted(screens', t, k + 1) /\ screen' = t[k + 1]
    BY <1>2, <2>1, <2>2, PaintsNext DEF ScreenTypes
  <2>4. k + 1 \in 0..Len(t) /\ k + 1 # 0
    BY <2>1, <2>3
  <2>5. t' = t /\ Len(outcomes) = nthTurn - 1
    BY <1>1 DEF ScreenInv, Turning, t
  <2> QED BY <1>1, <2>3, <2>4, <2>5 DEF Turning, t
<1>8. Ended'
  BY <1>1 DEF ScreenInv, Ended, Calm, AllHonest
<1> QED BY <1>3, <1>4, <1>5, <1>6, <1>7, <1>8 DEF ScreenInv

\* A prompt that is awaited once the start has been painted.
LEMMA StartIsOver ==
  ASSUME ScreenAssumption, ScreenInv, Calm', stage \in {"settling", "quieting"},
         stage' = "prompting", screens = <<>>,
         UNCHANGED <<cli, screens, screen, nthTurn, outcomes, typedAt, hurried>>
  PROVE  Typing' /\ nthTurn = 1 /\ typedAt = Blank /\ outcomes = <<>>
<1>1. Calm
  BY DEF Calm
<1>2. PICK k \in 0..Len(cli.boot) :
        Painted(screens, cli.boot, k) /\ screen = IF k = 0 THEN Blank ELSE cli.boot[k]
  BY <1>1 DEF ScreenInv, Starting
<1>3. nthTurn = 1 /\ outcomes = <<>> /\ typedAt = Blank
  BY <1>1 DEF ScreenInv, Starting
<1>4. Len(cli.boot) \in Nat /\ Len(cli.boot) > 0
  BY CliTypes DEF ScreenInv
<1>5. k = Len(cli.boot) /\ k # 0
  BY <1>2, <1>4 DEF Painted
<1>6. screen = LastOf(cli.boot)
  BY <1>2, <1>5 DEF LastOf
<1> QED BY <1>3, <1>6 DEF Typing

LEMMA SettleKeeps ==
  ASSUME ScreenAssumption, ScreenInv, Settle
  PROVE  ScreenInv'
<1>1. /\ stage = "settling"
      /\ UNCHANGED <<cli, screens, screen, nthTurn, sawWork, outcomes, typedAt>>
  BY DEF Settle
<1>2. \/ stage' = "quieting" /\ hurried' = hurried /\ quietFor' = 0
      \/ stage' = "settling" /\ hurried' = hurried /\ quietFor' = quietFor
      \/ stage' = "prompting" /\ hurried' = TRUE /\ quietFor' = quietFor
      \/ /\ stage' = "prompting" /\ hurried' = hurried /\ quietFor' = quietFor
         /\ Prompt(screen) \notin {"none", "ready"}
  BY <1>1 DEF Settle, Wait
<1>3. ScreenTypes'
  BY <1>1, <1>2 DEF ScreenInv, ScreenTypes
<1>4. CASE stage' \in {"quieting", "settling"} /\ hurried' = hurried
  <2>1. Starting'
    BY <1>1, <1>4 DEF ScreenInv, Starting, Calm, Painted
  <2> QED BY <1>1, <1>3, <1>4, <2>1 DEF ScreenInv, Typing, TypedAtTheEnd, Turning, Ended, Calm,
                                       AllHonest
<1>5. CASE hurried' = TRUE
  BY <1>3, <1>5 DEF ScreenInv, Starting, Typing, TypedAtTheEnd, Turning, Ended, Calm
<1>6. CASE /\ stage' = "prompting" /\ hurried' = hurried
           /\ Prompt(screen) \notin {"none", "ready"}
  <2> SUFFICES ASSUME Calm' PROVE ScreenInv'
    BY <1>3 DEF ScreenInv, Starting, Typing, TypedAtTheEnd, Turning, Ended
  <2>1. Calm
    BY <1>1, <1>6 DEF Calm
  <2>2. screen.dialog # "none"
    BY <1>6 DEF Prompt
  <2>3. PICK k \in 0..Len(cli.boot) :
          Painted(screens, cli.boot, k) /\ screen = IF k = 0 THEN Blank ELSE cli.boot[k]
    BY <1>1, <2>1 DEF ScreenInv, Starting
  <2>4. /\ Len(cli.boot) \in Nat /\ screens \in Seq(Screen)
        /\ \A i \in 1..Len(cli.boot) - 1 : cli.boot[i].dialog = "none"
    BY CliTypes DEF ScreenInv, ScreenTypes
  <2>5. k = Len(cli.boot)
    <3>1. k # 0
      BY <2>2, <2>3 DEF Blank
    <3> QED BY <2>2, <2>3, <2>4, <3>1
  <2>6. screens = <<>>
    <3>1. Len(screens) = 0
      BY <2>3, <2>4, <2>5 DEF Painted
    <3> QED BY <2>4, <3>1
  <2>7. Typing' /\ nthTurn = 1 /\ typedAt = Blank /\ outcomes = <<>>
    BY <1>1, <1>6, <2>6, StartIsOver
  <2> QED BY <1>1, <1>3, <1>6, <2>7 DEF ScreenInv, Starting, TypedAtTheEnd, Turning, Ended
<1> QED BY <1>2, <1>4, <1>5, <1>6

LEMMA QuietKeeps ==
  ASSUME ScreenAssumption, ScreenInv, Quiet
  PROVE  ScreenInv'
<1>1. /\ stage = "quieting" /\ ~Noisy
      /\ quietFor' = IF screen = lastSeen THEN quietFor + 1 ELSE 0
      /\ UNCHANGED <<cli, screens, screen, nthTurn, sawWork, outcomes, typedAt>>
  BY DEF Quiet, Quieter
<1>2. \/ quietFor' = QuietTicks /\ stage' = "prompting" /\ hurried' = hurried
      \/ stage' = "quieting" /\ hurried' = hurried
      \/ stage' = "prompting" /\ hurried' = TRUE
  BY <1>1 DEF Quiet, Wait
<1>3. ScreenTypes'
  BY <1>1, <1>2, CliTypes DEF ScreenInv, ScreenTypes
<1>4. CASE stage' = "quieting" /\ hurried' = hurried
  <2>1. Starting'
    BY <1>1, <1>4 DEF ScreenInv, Starting, Calm, Painted
  <2> QED BY <1>1, <1>3, <1>4, <2>1 DEF ScreenInv, Typing, TypedAtTheEnd, Turning, Ended, Calm,
                                       AllHonest
<1>5. CASE hurried' = TRUE
  BY <1>3, <1>5 DEF ScreenInv, Starting, Typing, TypedAtTheEnd, Turning, Ended, Calm
<1>6. CASE quietFor' = QuietTicks /\ stage' = "prompting" /\ hurried' = hurried
  <2> SUFFICES ASSUME Calm' PROVE ScreenInv'
    BY <1>3 DEF ScreenInv, Starting, Typing, TypedAtTheEnd, Turning, Ended
  <2>1. screen = lastSeen /\ quietFor = QuietTicks - 1
    BY <1>1, <1>6, CliTypes DEF ScreenInv, ScreenTypes
  <2>2. screens = <<>>
    BY <1>1, <1>6, <2>1 DEF Noisy, Calm
  <2>3. Typing' /\ nthTurn = 1 /\ typedAt = Blank /\ outcomes = <<>>
    BY <1>1, <1>6, <2>2, StartIsOver
  <2> QED BY <1>1, <1>3, <1>6, <2>3 DEF ScreenInv, Starting, TypedAtTheEnd, Turning, Ended
<1> QED BY <1>2, <1>4, <1>5, <1>6

\* One more outcome.
LEMMA OneMoreOutcome ==
  ASSUME ScreenTypes, NEW kind \in {"answered", "blocked", "timeout"}, Ends(kind)
  PROVE  /\ outcomes' \in Seq(Outcome)
         /\ stage' = "done" /\ Len(outcomes') = Len(outcomes) + 1 /\ Len(outcomes) \in Nat
         /\ \A n \in 1..Len(outcomes) : outcomes'[n] = outcomes[n]
         /\ outcomes'[Len(outcomes) + 1] = [kind |-> kind, text |-> screen.text]
<1>1. screen \in Displayed
  BY DEF ScreenTypes
<1>2. [kind |-> kind, text |-> screen.text] \in Outcome
  BY <1>1 DEF Outcome
<1> QED BY <1>2 DEF ScreenTypes, Ends

LEMMA AwaitPromptKeeps ==
  ASSUME ScreenAssumption, ScreenInv, AwaitPrompt
  PROVE  ScreenInv'
<1>1. /\ stage = "prompting" /\ ScreenTypes
      /\ UNCHANGED <<cli, screens, screen, nthTurn, quietFor, sawWork, typedAt>>
  BY DEF AwaitPrompt, ScreenInv
<1>2. \/ Prompt(screen) = "ready" /\ stage' = "typing" /\ UNCHANGED <<outcomes, hurried>>
      \/ stage' = stage /\ UNCHANGED <<outcomes, hurried>>
      \/ \E kind \in {"blocked", "timeout"} : Ends(kind) /\ hurried' \in {hurried, TRUE}
  BY <1>1 DEF AwaitPrompt, Wait
<1>3. CASE /\ stage' = "typing" \/ stage' = stage
           /\ stage' = "typing" => Prompt(screen) = "ready"
           /\ UNCHANGED <<outcomes, hurried>>
  <2>1. ScreenTypes'
    BY <1>1, <1>3 DEF ScreenTypes
  <2>2. stage' = "typing" => screen.caret
    BY <1>1, <1>3 DEF Prompt, ScreenTypes, Screen, Displayed, Blank
  <2> QED BY <1>1, <1>3, <2>1, <2>2 DEF ScreenInv, Starting, Typing, TypedAtTheEnd, Turning, Ended,
                                       Calm, AllHonest
<1>4. CASE \E kind \in {"blocked", "timeout"} : Ends(kind) /\ hurried' \in {hurried, TRUE}
  <2>1. PICK kind \in {"blocked", "timeout"} : Ends(kind) /\ hurried' \in {hurried, TRUE}
    BY <1>4
  <2>2. /\ outcomes' \in Seq(Outcome)
        /\ stage' = "done" /\ Len(outcomes') = Len(outcomes) + 1 /\ Len(outcomes) \in Nat
        /\ \A n \in 1..Len(outcomes) : outcomes'[n] = outcomes[n]
        /\ outcomes'[Len(outcomes) + 1].kind = kind
    BY <1>1, <2>1, OneMoreOutcome
  <2>3. ScreenTypes'
    BY <1>1, <2>1, <2>2 DEF ScreenTypes
  <2>4. Calm' => Calm
    BY <1>1, <2>1 DEF Calm
  <2>5. Ended'
    <3> SUFFICES ASSUME Calm', AllHonest PROVE Ended'
      BY <1>1 DEF Ended, AllHonest
    <3>1. Len(outcomes') = nthTurn /\ outcomes'[nthTurn].kind = kind /\ kind # "answered"
      BY <1>1, <2>1, <2>2, <2>4, CliTypes DEF ScreenInv, Typing
    <3>2. \A n \in 1..Len(outcomes') :
            outcomes'[n].kind = "answered" => outcomes'[n].text = LastOf(cli.turns[n]).text
      BY <2>2, <2>4, <3>1 DEF ScreenInv, Ended
    <3> QED BY <1>1, <3>1, <3>2 DEF Ended
  <2>6. Starting' /\ Typing' /\ Turning'
    BY <2>2 DEF Starting, Typing, Turning
  <2>7. TypedAtTheEnd'
    BY <1>1, <2>4 DEF ScreenInv, TypedAtTheEnd
  <2> QED BY <2>3, <2>5, <2>6, <2>7 DEF ScreenInv
<1> QED BY <1>1, <1>2, <1>3, <1>4

LEMMA PasteKeeps ==
  ASSUME ScreenAssumption, ScreenInv, Paste
  PROVE  ScreenInv'
<1>1. /\ stage = "typing" /\ stage' = "pasted" /\ ScreenTypes
      /\ UNCHANGED <<cli, screens, screen, nthTurn, quietFor, sawWork, outcomes, hurried>>
      /\ typedAt' = IF nthTurn = 1 THEN screen ELSE typedAt
  BY DEF Paste, ScreenInv
<1>2. ScreenTypes'
  BY <1>1 DEF ScreenTypes
<1>3. Typing'
  BY <1>1 DEF ScreenInv, Typing, Calm, AllHonest
<1>4. TypedAtTheEnd'
  BY <1>1 DEF ScreenInv, TypedAtTheEnd, Typing, Calm
<1>5. Ended'
  BY <1>1 DEF ScreenInv, Ended, Calm, AllHonest
<1> QED BY <1>1, <1>2, <1>3, <1>4, <1>5 DEF ScreenInv, Starting, Turning

LEMMA SubmitKeeps ==
  ASSUME ScreenAssumption, ScreenInv, Submit
  PROVE  ScreenInv'
<1>1. /\ stage = "pasted" /\ stage' = "turning" /\ ScreenTypes
      /\ lastSeen' = screen /\ sawWork' = FALSE /\ screens' = screens \o cli.turns[nthTurn]
      /\ UNCHANGED <<cli, screen, nthTurn, quietFor, outcomes, typedAt, hurried>>
  BY DEF Submit, ScreenInv
<1>2. cli.turns[nthTurn] \in Seq(Screen) /\ screens \in Seq(Screen) /\ nthTurn \in Nat \ {0}
  BY <1>1, CliTypes DEF ScreenTypes
<1>3. ScreenTypes'
  <2>1. screens' \in Seq(Screen)
    BY <1>1, <1>2
  <2> QED BY <1>1, <2>1 DEF ScreenTypes
<1>4. TypedAtTheEnd'
  BY <1>1 DEF ScreenInv, TypedAtTheEnd, Calm
<1>5. Ended'
  BY <1>1 DEF ScreenInv, Ended, Calm, AllHonest
<1>6. Turning'
  <2> SUFFICES ASSUME Calm, AllHonest PROVE Turning'
    BY <1>1 DEF Turning, Calm, AllHonest
  <2>1. Len(outcomes) = nthTurn - 1 /\ screens = <<>> /\ screen.caret
    BY <1>1 DEF ScreenInv, Typing
  <2> DEFINE t == cli.turns[nthTurn]
  <2>2. t \in Seq(Screen) /\ screens' = t
    BY <1>1, <1>2, <2>1
  <2> HIDE DEF t
  <2>3. Painted(screens', t, 0) /\ 0 \in 0..Len(t)
    BY <2>2 DEF Painted
  <2>4. t' = t
    BY <1>1 DEF t
  <2> QED BY <1>1, <2>1, <2>3, <2>4 DEF Turning, t
<1> QED BY <1>1, <1>3, <1>4, <1>5, <1>6 DEF ScreenInv, Starting, Typing

LEMMA AwaitEndKeeps ==
  ASSUME ScreenAssumption, ScreenInv, AwaitEnd
  PROVE  ScreenInv'
<1>1. /\ stage = "turning" /\ ScreenTypes
      /\ UNCHANGED <<cli, screens, screen, nthTurn, lastSeen, quietFor, typedAt>>
  BY DEF AwaitEnd, ScreenInv
<1>2. \/ stage' = stage /\ sawWork' = SeesWork(screen) /\ UNCHANGED <<outcomes, hurried>>
      \/ \E kind \in {"answered", "blocked", "timeout"} :
           /\ Ends(kind) /\ hurried' \in {hurried, TRUE}
           /\ kind = "answered" => TurnLooksComplete(screen) /\ SeesWork(screen)
  BY <1>1 DEF AwaitEnd
<1> DEFINE t == cli.turns[nthTurn]
<1>3. t \in Seq(Screen) /\ Len(t) \in Nat
  BY <1>1, CliTypes
<1>4. CASE stage' = stage /\ sawWork' = SeesWork(screen) /\ UNCHANGED <<outcomes, hurried>>
  <2>1. ScreenTypes'
    BY <1>1, <1>4 DEF ScreenTypes
  <2>2. Turning'
    <3> SUFFICES ASSUME Calm, AllHonest PROVE Turning'
      BY <1>1, <1>4 DEF Turning, Calm, AllHonest
    <3>1. PICK k \in 0..Len(t) :
            /\ Painted(screens, t, k)
            /\ k = 0 => screen = lastSeen /\ screen.caret /\ (sawWork => screen.busy)
            /\ k # 0 => screen = t[k]
      BY <1>1 DEF ScreenInv, Turning
    <3>2. k = 0 => (sawWork' => screen.busy)
      BY <1>4, <3>1 DEF SeesWork, TurnLooksComplete
    <3>3. Len(outcomes) = nthTurn - 1
      BY <1>1 DEF ScreenInv, Turning
    <3> HIDE DEF t
    <3>4. t' = t
      BY <1>1 DEF t
    <3>5. \E j \in 0..Len(t') :
            /\ Painted(screens', t', j)
            /\ j = 0 => screen' = lastSeen' /\ screen'.caret /\ (sawWork' => screen'.busy)
            /\ j # 0 => screen' = t'[j]
      BY <1>1, <3>1, <3>2, <3>4
    <3> QED BY <1>1, <1>4, <3>3, <3>5 DEF Turning, t
  <2>3. TypedAtTheEnd' /\ Ended'
    BY <1>1, <1>4 DEF ScreenInv, TypedAtTheEnd, Ended, Calm, AllHonest
  <2> QED BY <1>1, <1>4, <2>1, <2>2, <2>3 DEF ScreenInv, Starting, Typing
<1>5. CASE \E kind \in {"answered", "blocked", "timeout"} :
             /\ Ends(kind) /\ hurried' \in {hurried, TRUE}
             /\ kind = "answered" => TurnLooksComplete(screen) /\ SeesWork(screen)
  <2>1. PICK kind \in {"answered", "blocked", "timeout"} :
          /\ Ends(kind) /\ hurried' \in {hurried, TRUE}
          /\ kind = "answered" => TurnLooksComplete(screen) /\ SeesWork(screen)
    BY <1>5
  <2>2. /\ outcomes' \in Seq(Outcome)
        /\ stage' = "done" /\ Len(outcomes') = Len(outcomes) + 1 /\ Len(outcomes) \in Nat
        /\ \A n \in 1..Len(outcomes) : outcomes'[n] = outcomes[n]
        /\ outcomes'[Len(outcomes) + 1] = [kind |-> kind, text |-> screen.text]
    BY <1>1, <2>1, OneMoreOutcome
  <2>3. ScreenTypes'
    BY <1>1, <2>1, <2>2 DEF ScreenTypes
  <2>4. Calm' => Calm
    BY <1>1, <2>1 DEF Calm
  <2>5. Ended'
    <3> SUFFICES ASSUME Calm', AllHonest PROVE Ended'
      BY <1>1 DEF Ended, AllHonest
    <3>1. Len(outcomes) = nthTurn - 1 /\ nthTurn \in 1..Len(cli.turns)
      BY <1>1, <2>4 DEF ScreenInv, Turning, ScreenTypes
    <3>2. Len(outcomes') = nthTurn /\ outcomes'[nthTurn] = [kind |-> kind, text |-> screen.text]
      BY <1>1, <2>2, <3>1, CliTypes
    <3>3. kind = "answered" => screens = <<>> /\ screen = LastOf(t)
      <4> SUFFICES ASSUME kind = "answered" PROVE screens = <<>> /\ screen = LastOf(t)
        OBVIOUS
      <4>1. screen.caret /\ ~screen.busy /\ (sawWork \/ screen # lastSeen)
        BY <2>1 DEF TurnLooksComplete, SeesWork
      <4>2. PICK k \in 0..Len(t) :
              /\ Painted(screens, t, k)
              /\ k = 0 => screen = lastSeen /\ screen.caret /\ (sawWork => screen.busy)
              /\ k # 0 => screen = t[k]
        BY <1>1, <2>4 DEF ScreenInv, Turning
      <4>3. k # 0 /\ screen = t[k]
        BY <4>1, <4>2
      <4>4. Honest(t)
        BY <3>1 DEF AllHonest
      <4> HIDE DEF t
      <4>5. k = Len(t)
        BY <1>3, <4>1, <4>2, <4>3, <4>4 DEF Honest
      <4>6. Len(screens) = 0 /\ screens \in Seq(Screen)
        BY <1>1, <1>3, <4>2, <4>5 DEF Painted, ScreenTypes
      <4> QED BY <4>3, <4>5, <4>6 DEF LastOf
    <3>4. \A n \in 1..Len(outcomes') :
            outcomes'[n].kind = "answered" => outcomes'[n].text = LastOf(cli.turns[n]).text
      BY <1>1, <2>2, <2>4, <3>1, <3>2, <3>3 DEF ScreenInv, Ended
    <3>5. outcomes'[nthTurn].kind = "answered" => screens = <<>>
      BY <3>2, <3>3
    <3> QED BY <1>1, <3>2, <3>4, <3>5 DEF Ended
  <2>6. Starting' /\ Typing' /\ Turning'
    BY <2>2 DEF Starting, Typing, Turning
  <2>7. TypedAtTheEnd'
    BY <1>1, <2>4 DEF ScreenInv, TypedAtTheEnd
  <2> QED BY <2>3, <2>5, <2>6, <2>7 DEF ScreenInv
<1> QED BY <1>2, <1>4, <1>5

LEMMA SendAgainKeeps ==
  ASSUME ScreenAssumption, ScreenInv, SendAgain
  PROVE  ScreenInv'
<1>1. /\ stage = "done" /\ nthTurn < Len(cli.turns) /\ outcomes[nthTurn].kind = "answered"
      /\ nthTurn' = nthTurn + 1 /\ stage' = "prompting" /\ ScreenTypes
      /\ UNCHANGED <<cli, screens, screen, lastSeen, quietFor, sawWork, outcomes, typedAt, hurried>>
  BY DEF SendAgain, ScreenInv, Wait
<1>2. nthTurn \in Nat \ {0} /\ Len(cli.turns) \in Nat
  BY <1>1, CliTypes
<1>3. ScreenTypes'
  <2>1. nthTurn' \in 1..Len(cli.turns)
    BY <1>1, <1>2
  <2> QED BY <1>1, <2>1 DEF ScreenTypes
<1>4. Typing'
  <2>1. nthTurn' # 1 /\ nthTurn' - 1 = nthTurn
    BY <1>1, <1>2
  <2> QED BY <1>1, <2>1 DEF ScreenInv, Typing, Ended, Calm, AllHonest
<1>5. TypedAtTheEnd' /\ Ended'
  BY <1>1 DEF ScreenInv, TypedAtTheEnd, Ended, Calm, AllHonest
<1> QED BY <1>1, <1>3, <1>4, <1>5 DEF ScreenInv, Starting, Turning

LEMMA ScreenStutters ==
  ASSUME ScreenInv, UNCHANGED screenVars
  PROVE  ScreenInv'
<1>1. UNCHANGED <<cli, stage, screens, screen, nthTurn, lastSeen, quietFor, sawWork, outcomes,
                  typedAt, hurried>>
  BY DEF screenVars
<1>2. ScreenTypes'
  BY <1>1 DEF ScreenInv, ScreenTypes
<1>3. Starting' /\ Typing' /\ TypedAtTheEnd'
  BY <1>1 DEF ScreenInv, Starting, Typing, TypedAtTheEnd, Calm, AllHonest
<1>4. Turning' /\ Ended'
  BY <1>1 DEF ScreenInv, Turning, Ended, Calm, AllHonest
<1> QED BY <1>2, <1>3, <1>4 DEF ScreenInv

\* A prompt is typed at the last screen of a brisk start (hostedSession.ts:122), and an honest
\* turn is answered with its own last screen (hostedSession.ts:174), however many screens
\* each of them has, as long as no wait ran into its limit.
THEOREM ScreensAreReadInTime ==
  ASSUME ScreenAssumption
  PROVE  ScreenInit /\ [][ScreenNext]_screenVars => []ScreenIsReadRightly
<1> DEFINE IInv == cli.brisk => ScreenInv
<1>1. ScreenInit => IInv
  BY ScreenStarts
<1>2. IInv /\ [ScreenNext]_screenVars => IInv'
  <2> SUFFICES ASSUME IInv, [ScreenNext]_screenVars, cli'.brisk PROVE ScreenInv'
    OBVIOUS
  <2>1. cli' = cli
    BY DEF ScreenNext, screenVars, Paint, Settle, Quiet, AwaitPrompt, Paste, Submit, AwaitEnd,
           SendAgain
  <2>2. ScreenInv
    BY <2>1
  <2> HIDE DEF IInv
  <2> QED BY <2>2, PaintKeeps, SettleKeeps, QuietKeeps, AwaitPromptKeeps, PasteKeeps, SubmitKeeps,
             AwaitEndKeeps, SendAgainKeeps, ScreenStutters DEF ScreenNext
<1>3. IInv => ScreenIsReadRightly
  BY DEF ScreenInv, ScreenIsReadRightly, TypedAtTheEnd, Ended, Calm, AllHonest
<1> QED BY <1>1, <1>2, <1>3, PTL

-----------------------------------------------------------------------------
(* Git: what it answers at one moment.                                     *)

LEMMA LeastNumber ==
  ASSUME NEW S \in SUBSET Nat, S # {}
  PROVE  \E n \in S : \A m \in S : n <= m
<1>1. \E n \in S : \A m \in S : ~(<<m, n>> \in OpToRel(<, Nat))
  BY NatLessThanWellFounded, WFMin
<1>2. PICK n \in S : \A m \in S : ~(<<m, n>> \in OpToRel(<, Nat))
  BY <1>1
<1>3. \A m \in S : ~(m < n)
  BY <1>2 DEF OpToRel
<1> QED BY <1>3

Pairs(t) ==
  {r \in DiffersFrom(t) \X DiffersFrom(t) :
     Tracked(r[1]) = None /\ t[r[2]] = None /\ t[r[1]] = Tracked(r[2])}

Once(S) == \A x, y \in S : (x[1] = y[1]) <=> (x[2] = y[2])

\* No file is left that could be joined as a rename.
LEMMA RenamesExist ==
  ASSUME IsFiniteSet(Paths), NEW t
  PROVE  Renames(t) \in SUBSET Pairs(t)
<1> DEFINE P == Pairs(t)
           C == Cardinality(P)
           Left == {n \in Nat : \E S \in SUBSET P : Once(S) /\ n = C - Cardinality(S)}
<1>1. IsFiniteSet(P)
  <2>1. P \subseteq Paths \X Paths
    BY DEF Pairs, DiffersFrom
  <2>2. IsFiniteSet(Paths \X Paths)
    BY FS_Product
  <2> QED BY <2>1, <2>2, FS_Subset
<1>2. C \in Nat
  BY <1>1, FS_CardinalityType
<1>3. \A S \in SUBSET P : IsFiniteSet(S) /\ Cardinality(S) \in Nat /\ Cardinality(S) <= C
  BY <1>1, FS_Subset, FS_CardinalityType
<1> HIDE DEF P, C
<1>4. C \in Left
  <2>1. {} \in SUBSET P /\ Once({}) /\ Cardinality({}) = 0
    BY FS_EmptySet DEF Once
  <2> QED BY <1>2, <2>1
<1>5. PICK n \in Left : \A m \in Left : n <= m
  <2>1. Left \in SUBSET Nat /\ Left # {}
    BY <1>4
  <2> HIDE DEF Left
  <2> QED BY <2>1, LeastNumber
<1>6. PICK S \in SUBSET P : Once(S) /\ n = C - Cardinality(S)
  BY <1>5
<1>7. ASSUME NEW pair \in P \ S PROVE ~Once(S \cup {pair})
  <2> SUFFICES ASSUME Once(S \cup {pair}) PROVE FALSE
    OBVIOUS
  <2>1. S \cup {pair} \in SUBSET P
    BY <1>6, <1>7
  <2>2. Cardinality(S \cup {pair}) = Cardinality(S) + 1
    BY <1>3, <1>6, <1>7, FS_AddElement
  <2>3. C - Cardinality(S \cup {pair}) \in Left
    BY <1>2, <1>3, <2>1
  <2>4. C - Cardinality(S) <= C - (Cardinality(S) + 1)
    BY <1>5, <1>6, <2>2, <2>3
  <2> QED BY <1>2, <1>3, <1>6, <2>4
<1>8. \E T \in SUBSET P : Once(T) /\ \A pair \in P \ T : ~Once(T \cup {pair})
  BY <1>6, <1>7
<1>9. Renames(t) = CHOOSE T \in SUBSET P : Once(T) /\ \A pair \in P \ T : ~Once(T \cup {pair})
  BY DEF Renames, P, Pairs, Once
<1> QED BY <1>8, <1>9 DEF P

Files == [path : Paths, changeType : {"deleted", "added", "modified", "renamed"},
          previousPath : Paths \cup {"none"}]
Names(files) == {f.path : f \in files} \cup ({f.previousPath : f \in files} \ {"none"})

\* A status names the paths that differ and no other; of what it says is there the tracked
\* file is, and of what it says is gone it is not.
LEMMA StatusIs ==
  ASSUME ReadingsAssumption, NEW t
  PROVE  /\ NameStatus(t) \in SUBSET Files
         /\ Names(NameStatus(t)) = DiffersFrom(t)
         /\ \A f \in NameStatus(t) :
              /\ (f.changeType # "deleted") <=> (Tracked(f.path) # None)
              /\ f.previousPath # "none" => Tracked(f.previousPath) = None
<1> DEFINE R == Renames(t)
           joined == {r[1] : r \in R} \cup {r[2] : r \in R}
           Type(p) == CASE Tracked(p) = None -> "deleted"
                        [] t[p] = None       -> "added"
                        [] OTHER             -> "modified"
           Plain == {File(p, Type(p), "none") : p \in DiffersFrom(t) \ joined}
           Moved == {File(r[2], "renamed", r[1]) : r \in R}
<1>1. R \in SUBSET Pairs(t)
  BY RenamesExist DEF ReadingsAssumption
<1>2. \A r \in R : /\ r[1] \in DiffersFrom(t) /\ r[2] \in DiffersFrom(t)
                   /\ Tracked(r[1]) = None /\ t[r[2]] = None
  BY <1>1 DEF Pairs
<1>3. NameStatus(t) = Plain \cup Moved
  BY DEF NameStatus
<1>4. DiffersFrom(t) \subseteq Paths /\ \A p \in DiffersFrom(t) : t[p] # Tracked(p)
  BY DEF DiffersFrom
<1>5. "none" \notin Paths
  BY DEF ReadingsAssumption
<1> HIDE DEF R
<1>6. ASSUME NEW p \in DiffersFrom(t) \ joined
      PROVE  /\ File(p, Type(p), "none") \in Files
             /\ (Type(p) # "deleted") <=> (Tracked(p) # None)
  <2>1. Type(p) \in {"deleted", "added", "modified"}
    <3>1. CASE Tracked(p) = None
      BY <3>1
    <3>2. CASE Tracked(p) # None /\ t[p] = None
      BY <3>2
    <3>3. CASE Tracked(p) # None /\ t[p] # None
      BY <3>3
    <3> QED BY <3>1, <3>2, <3>3
  <2>2. Tracked(p) = None => Type(p) = "deleted"
    BY <1>4
  <2>3. Tracked(p) # None => Type(p) \in {"added", "modified"}
    <3>1. CASE Tracked(p) # None /\ t[p] = None
      BY <3>1
    <3>2. CASE Tracked(p) # None /\ t[p] # None
      BY <3>2
    <3> QED BY <3>1, <3>2
  <2> HIDE DEF Type
  <2> QED BY <1>4, <2>1, <2>2, <2>3 DEF File, Files
<1> HIDE DEF Type
<1>7. ASSUME NEW r \in R
      PROVE  File(r[2], "renamed", r[1]) \in Files /\ Tracked(r[2]) # None
  BY <1>2, <1>4 DEF File, Files
<1>8. ASSUME NEW f \in NameStatus(t)
      PROVE  \/ \E p \in DiffersFrom(t) \ joined : f = File(p, Type(p), "none")
             \/ \E r \in R : f = File(r[2], "renamed", r[1])
  BY <1>3
<1>9. NameStatus(t) \in SUBSET Files
  BY <1>6, <1>7, <1>8
<1>10. ASSUME NEW f \in NameStatus(t)
       PROVE  /\ (f.changeType # "deleted") <=> (Tracked(f.path) # None)
              /\ f.previousPath # "none" => Tracked(f.previousPath) = None
              /\ f.path \in DiffersFrom(t)
              /\ f.previousPath # "none" => f.previousPath \in DiffersFrom(t)
  <2>1. CASE \E p \in DiffersFrom(t) \ joined : f = File(p, Type(p), "none")
    BY <2>1, <1>6 DEF File
  <2>2. CASE \E r \in R : f = File(r[2], "renamed", r[1])
    BY <2>2, <1>2, <1>7 DEF File
  <2> QED BY <1>8, <2>1, <2>2
<1>11. ASSUME NEW p \in DiffersFrom(t) PROVE p \in Names(NameStatus(t))
  <2>1. CASE p \notin joined
    <3>1. File(p, Type(p), "none") \in NameStatus(t)
      BY <1>3, <2>1
    <3> QED BY <3>1 DEF File, Names
  <2>2. CASE p \in joined
    <3>1. PICK r \in R : p = r[1] \/ p = r[2]
      BY <2>2
    <3>2. File(r[2], "renamed", r[1]) \in NameStatus(t)
      BY <1>3
    <3>3. p # "none"
      BY <1>4, <1>5
    <3>4. File(r[2], "renamed", r[1]).path = r[2] /\ File(r[2], "renamed", r[1]).previousPath = r[1]
      BY DEF File
    <3> QED BY <3>1, <3>2, <3>3, <3>4 DEF Names
  <2> QED BY <2>1, <2>2
<1>12. Names(NameStatus(t)) \subseteq DiffersFrom(t)
  BY <1>10 DEF Names
<1> QED BY <1>9, <1>10, <1>11, <1>12

-----------------------------------------------------------------------------
(* The invariant.                                                          *)

Commands == {"files", "counts", "patch", "untracked"}
Hunk == [path : Paths, text : Contents \cup {None}]
Moments == {"choosing", "refused", "bound", "clean", "working", "diffing", "untracked",
            "captured", "broken", "failed"}
Begun == {"diffing", "untracked", "captured", "broken"}

GitTypes ==
  /\ scene \in Readings /\ moment \in Moments
  /\ head \in Trees /\ index \in Trees /\ worktree \in Trees /\ base \in Trees
  /\ said \in [files : SUBSET Files, counts : SUBSET Hunk, patch : SUBSET Hunk,
               untracked : SUBSET Paths, counted : SUBSET Hunk, patched : SUBSET Hunk]
  /\ moment \notin {"choosing", "refused"} => scene.candidate = "root"
  /\ moment \notin Begun => said = Nothing
  /\ moment = "diffing" => owed \subseteq Commands /\ said.counted = {} /\ said.patched = {}
  /\ moment = "untracked" => owed \subseteq said.untracked \X {"counted", "patched"}
  /\ moment \in {"captured", "broken"} => owed = {}
  /\ always \subseteq Paths \ Ignored

\* A command that was answered.
HasSaid(c) == moment \in Begun /\ ~(moment = "diffing" /\ c \in owed)

\* What is named did differ.
NamesDiffered ==
  /\ moment \in Begun => Different(worktree, index) \subseteq ever
  /\ Names(said.files) \cup said.untracked \subseteq ever

\* What differed all the time will be named, by one command or by another.
DifferencesAreNamed ==
  moment \in Begun /\ ~staged => \A p \in always :
    /\ worktree[p] # base[p]
    /\ HasSaid("files") /\ (index[p] # None \/ base[p] # None) => p \in Names(said.files)
    /\ HasSaid("untracked") /\ index[p] = None /\ base[p] = None => p \in said.untracked

\* What was said in quiet is still so.
SaidIsSo ==
  moment \in Begun /\ quiet =>
    /\ \A c \in Commands : HasSaid(c) => said[c] = AnswerOf(c)
    /\ \A k \in {"counted", "patched"} :
         /\ \A h \in said[k] : \E p \in said.untracked : h \in Alone(p)
         /\ moment # "diffing" =>
              \A p \in said.untracked : <<p, k>> \in owed \/ Alone(p) \subseteq said[k]

\* After a snapshot of a clean worktree, what nobody touched is as it was committed.
UntouchedIsClean ==
  scene.strict /\ moment \in Begun \cup {"clean", "working"} =>
    /\ \A p \in Paths \ touched :
         /\ head[p] = index[p] /\ Tracked(p) = index[p] /\ p \notin Untracked
         /\ moment \in Begun \cup {"working"} => base[p] = index[p]
    /\ Names(said.files) \cup said.untracked \subseteq touched

BreaksWithReason == moment = "broken" => (Evidence = {}) # (Patch = {})

GitInv ==
  /\ GitTypes /\ NamesDiffered /\ DifferencesAreNamed /\ SaidIsSo /\ UntouchedIsClean
  /\ BreaksWithReason

-----------------------------------------------------------------------------
(* What git answers, and when it answers the same.                         *)

LEMMA AnswerTypes ==
  ASSUME ReadingsAssumption, GitTypes
  PROVE  /\ NameStatus(base) \in SUBSET Files /\ Hunks(base) \in SUBSET Hunk
         /\ Untracked \in SUBSET Paths
         /\ \A p \in Paths : Tracked(p) \in Contents \cup {None}
         /\ \A p \in Paths : Alone(p) \in SUBSET Hunk
<1>1. NameStatus(base) \in SUBSET Files
  BY StatusIs
<1>2. \A p \in Paths : worktree[p] \in Contents \cup {None}
  BY DEF GitTypes, Trees
<1>3. \A p \in Paths : Tracked(p) \in Contents \cup {None}
  BY <1>2 DEF Tracked
<1>4. Hunks(base) \in SUBSET Hunk
  BY <1>1, <1>3 DEF Hunks, Hunk, Files
<1>5. \A p \in Paths : Alone(p) \in SUBSET Hunk
  BY <1>2 DEF Alone, OnDisk, Hunk
<1> QED BY <1>1, <1>3, <1>4, <1>5 DEF Untracked

LEMMA DifferIs ==
  ASSUME ReadingsAssumption, GitTypes
  PROVE  DiffersFrom(base) \subseteq Different(worktree, index)
         /\ Untracked \subseteq Different(worktree, index)
BY DEF DiffersFrom, Untracked, Different, Tracked

\* As long as nobody acts.
LEMMA AnswersStay ==
  ASSUME UNCHANGED <<scene, trees, base>>
  PROVE  /\ \A c : AnswerOf(c)' = AnswerOf(c)
         /\ \A p : Alone(p)' = Alone(p) /\ Tracked(p)' = Tracked(p)
         /\ Untracked' = Untracked
         /\ \A d, t : Different(d, t)' = Different(d, t)
<1>1. \A p : Tracked(p)' = Tracked(p)
  BY DEF trees, Tracked
<1>2. Untracked' = Untracked
  BY DEF trees, Untracked
<1>3. \A p : Alone(p)' = Alone(p)
  BY DEF trees, Alone, OnDisk
<1>4. \A c : AnswerOf(c)' = AnswerOf(c)
  BY DEF trees, AnswerOf, NameStatus, Renames, DiffersFrom, Tracked, Hunks, Untracked
<1>5. \A d, t : Different(d, t)' = Different(d, t)
  BY DEF Different
<1> QED BY <1>1, <1>2, <1>3, <1>4, <1>5

-----------------------------------------------------------------------------
(* Before the diff.                                                        *)

LEMMA GitStarts ==
  ASSUME ReadingsAssumption, GitInit
  PROVE  GitInv
<1>1. scene \in Readings /\ head \in Trees /\ index \in Trees /\ worktree \in Trees
  BY DEF GitInit, ReadingsAssumption
<1>2. base \in Trees /\ always = {} /\ moment = "choosing"
  BY DEF GitInit, NoTree, Trees
<1>3. said = Nothing /\ Nothing.files = {} /\ Nothing.untracked = {}
  BY DEF GitInit, Nothing
<1>4. GitTypes
  BY <1>1, <1>2, <1>3 DEF GitTypes, Moments, Begun, Nothing
<1> QED BY <1>2, <1>3, <1>4 DEF GitInv, NamesDiffered, DifferencesAreNamed, SaidIsSo,
                 BreaksWithReason, UntouchedIsClean, Begun, Names

LEMMA BindKeeps ==
  ASSUME ReadingsAssumption, GitInv, Bind
  PROVE  GitInv'
<1>1. /\ moment = "choosing" /\ moment' \in {"bound", "refused"}
      /\ moment' = "bound" => scene.candidate = "root"
      /\ UNCHANGED <<scene, head, index, worktree, base, owed, said, always>>
  BY DEF Bind, IsRepo, trees, history
<1>2. GitTypes'
  BY <1>1 DEF GitInv, GitTypes, Moments, Begun
<1> QED BY <1>1, <1>2 DEF GitInv, NamesDiffered, DifferencesAreNamed, SaidIsSo,
                 BreaksWithReason, UntouchedIsClean, Begun, GitTypes, Nothing, Names

LEMMA CheckStatusKeeps ==
  ASSUME ReadingsAssumption, GitInv, CheckStatus
  PROVE  GitInv'
<1>1. /\ moment = "bound" /\ moment' \in {"clean", "refused"}
      /\ moment' = "clean" => Clean
      /\ UNCHANGED <<scene, head, index, worktree, base, owed, said, always, touched>>
  BY DEF CheckStatus, trees, history, others
<1>2. GitTypes'
  BY <1>1 DEF GitInv, GitTypes, Moments, Begun
<1>3. said.files = {} /\ said.untracked = {}
  BY <1>1 DEF GitInv, GitTypes, Begun, Nothing
<1>4. UntouchedIsClean'
  <2>1. (\A p : Tracked(p)' = Tracked(p)) /\ Untracked' = Untracked
    BY <1>1, AnswersStay DEF trees
  <2>2. moment' = "clean" => \A p \in Paths :
          head'[p] = index'[p] /\ Tracked(p)' = index'[p] /\ p \notin Untracked'
    BY <1>1, <2>1 DEF Clean
  <2> QED BY <1>1, <1>3, <2>2 DEF UntouchedIsClean, Begun, Names
<1> QED BY <1>1, <1>2, <1>3, <1>4 DEF GitInv, NamesDiffered, DifferencesAreNamed, SaidIsSo,
                 BreaksWithReason, Begun, Names

LEMMA ReadHeadKeeps ==
  ASSUME ReadingsAssumption, GitInv, ReadHead
  PROVE  GitInv'
<1>1. /\ moment \in {"clean", "bound"} /\ (scene.strict => moment = "clean")
      /\ moment' \in {"working", "refused"}
      /\ (base' = head \/ base' = base) /\ (moment' = "working" => base' = head)
      /\ UNCHANGED <<scene, head, index, worktree, owed, said, always, touched>>
  BY DEF ReadHead, trees, history, others
<1>2. GitTypes'
  BY <1>1 DEF GitInv, GitTypes, Moments, Begun
<1>3. said.files = {} /\ said.untracked = {}
  BY <1>1 DEF GitInv, GitTypes, Begun, Nothing
<1>4. UntouchedIsClean'
  <2>1. (\A p : Tracked(p)' = Tracked(p)) /\ Untracked' = Untracked
    BY <1>1 DEF Tracked, Untracked
  <2> QED BY <1>1, <1>3, <2>1 DEF GitInv, UntouchedIsClean, Begun, Names
<1> QED BY <1>1, <1>2, <1>3, <1>4 DEF GitInv, NamesDiffered, DifferencesAreNamed, SaidIsSo,
                 BreaksWithReason, Begun, Names

-----------------------------------------------------------------------------
(* The diff.                                                               *)

LEMMA StartDiffKeeps ==
  ASSUME ReadingsAssumption, GitInv, StartDiff
  PROVE  GitInv'
<1>1. /\ moment = "working" /\ moment' = "diffing"
      /\ owed' = {"files", "counts", "patch", "untracked"}
      /\ always' = Different(worktree, base) \ Ignored /\ ever' = Different(worktree, index)
      /\ UNCHANGED <<scene, head, index, worktree, base, said, quiet, staged, touched>>
  BY DEF StartDiff, trees, others
<1>2. said = Nothing
  BY <1>1 DEF GitInv, GitTypes, Begun
<1>3. /\ said.files = {} /\ said.untracked = {} /\ said.counted = {} /\ said.patched = {}
  BY <1>2 DEF Nothing
<1>4. always' \subseteq Paths \ Ignored /\ \A p \in always' : worktree[p] # base[p]
  BY <1>1 DEF Different
<1>5. GitTypes'
  BY <1>1, <1>3, <1>4 DEF GitInv, GitTypes, Moments, Begun, Commands
<1>6. NamesDiffered'
  BY <1>1, <1>3 DEF NamesDiffered, Different, Names
<1>7. DifferencesAreNamed'
  BY <1>1, <1>4 DEF DifferencesAreNamed, HasSaid
<1>8. SaidIsSo'
  BY <1>1, <1>3 DEF SaidIsSo, HasSaid, Commands
<1>9. UntouchedIsClean'
  <2>1. (\A p : Tracked(p)' = Tracked(p)) /\ Untracked' = Untracked
    BY <1>1 DEF Tracked, Untracked
  <2> QED BY <1>1, <1>3, <2>1 DEF GitInv, UntouchedIsClean, Begun, Names
<1> QED BY <1>1, <1>5, <1>6, <1>7, <1>8, <1>9 DEF GitInv, BreaksWithReason

LEMMA ReadDiffKeeps ==
  ASSUME ReadingsAssumption, GitInv, ReadDiff
  PROVE  GitInv'
<1>1. PICK command \in owed :
        /\ said' = [said EXCEPT ![command] = AnswerOf(command)]
        /\ IF owed = {command}
             THEN moment' = "untracked" /\ owed' = said'.untracked \X {"counted", "patched"}
             ELSE moment' = moment /\ owed' = owed \ {command}
  BY DEF ReadDiff
<1>2. /\ moment = "diffing" /\ moment' \in {"diffing", "untracked"}
      /\ UNCHANGED <<scene, head, index, worktree, base, touched, always, ever, quiet, staged>>
  BY <1>1 DEF ReadDiff, trees, others, history
<1>3. command \in Commands
  BY <1>2 DEF GitInv, GitTypes
<1>4. GitTypes
  BY DEF GitInv
<1>5. /\ said'[command] = AnswerOf(command)
      /\ \A c \in Commands : c # command => said'[c] = said[c]
      /\ said'.counted = said.counted /\ said'.patched = said.patched
      /\ said' \in [files : SUBSET Files, counts : SUBSET Hunk, patch : SUBSET Hunk,
                    untracked : SUBSET Paths, counted : SUBSET Hunk, patched : SUBSET Hunk]
  <2>1. said \in [files : SUBSET Files, counts : SUBSET Hunk, patch : SUBSET Hunk,
                  untracked : SUBSET Paths, counted : SUBSET Hunk, patched : SUBSET Hunk]
    BY <1>4 DEF GitTypes
  <2>2. CASE command = "files"
    BY <1>1, <1>4, <2>1, <2>2, AnswerTypes DEF AnswerOf, Commands
  <2>3. CASE command = "counts"
    BY <1>1, <1>4, <2>1, <2>3, AnswerTypes DEF AnswerOf, Commands
  <2>4. CASE command = "patch"
    BY <1>1, <1>4, <2>1, <2>4, AnswerTypes DEF AnswerOf, Commands
  <2>5. CASE command = "untracked"
    BY <1>1, <1>4, <2>1, <2>5, AnswerTypes DEF AnswerOf, Commands
  <2> QED BY <1>3, <2>2, <2>3, <2>4, <2>5 DEF Commands
<1>6. \A c \in Commands : HasSaid(c)' => HasSaid(c) \/ c = command
  <2> SUFFICES ASSUME NEW c \in Commands, HasSaid(c)', c # command PROVE HasSaid(c)
    OBVIOUS
  <2> QED BY <1>1, <1>2 DEF HasSaid, Begun
<1>7. GitTypes'
  <2>1. moment' = "diffing" => owed' \subseteq Commands /\ said'.counted = {} /\ said'.patched = {}
    BY <1>1, <1>2, <1>4, <1>5 DEF GitTypes
  <2>2. moment' = "untracked" => owed' = said'.untracked \X {"counted", "patched"}
    BY <1>1, <1>2
  <2> QED BY <1>2, <1>4, <1>5, <2>1, <2>2 DEF GitTypes, Moments, Begun
<1>8. "files" \in Commands /\ "untracked" \in Commands
  BY DEF Commands
<1>9. /\ said'.files = said.files \/ (command = "files" /\ said'.files = NameStatus(base))
      /\ said'.untracked = said.untracked
           \/ (command = "untracked" /\ said'.untracked = Untracked)
  BY <1>5, <1>8 DEF AnswerOf
<1>10. NamesDiffered'
  <2>1. Names(NameStatus(base)) \subseteq Different(worktree, index)
    BY <1>4, StatusIs, DifferIs
  <2>2. Different(worktree, index)' = Different(worktree, index)
    BY <1>2 DEF Different
  <2> QED BY <1>2, <1>4, <1>9, <2>1, <2>2, DifferIs DEF GitInv, NamesDiffered, Begun, Names
<1>11. DifferencesAreNamed'
  <2> SUFFICES ASSUME ~staged, NEW p \in always
               PROVE  /\ worktree[p] # base[p]
                      /\ HasSaid("files")' /\ (index[p] # None \/ base[p] # None)
                           => p \in Names(said'.files)
                      /\ HasSaid("untracked")' /\ index[p] = None /\ base[p] = None
                           => p \in said'.untracked
    BY <1>2 DEF DifferencesAreNamed, Names
  <2>1. /\ worktree[p] # base[p]
        /\ HasSaid("files") /\ (index[p] # None \/ base[p] # None) => p \in Names(said.files)
        /\ HasSaid("untracked") /\ index[p] = None /\ base[p] = None => p \in said.untracked
    BY <1>2 DEF GitInv, DifferencesAreNamed, Begun
  <2>2. p \in Paths \ Ignored
    BY <1>4 DEF GitTypes
  <2>3. index[p] # None \/ base[p] # None => p \in Names(NameStatus(base))
    <3>1. index[p] # None \/ base[p] # None => p \in DiffersFrom(base)
      BY <2>1, <2>2 DEF DiffersFrom, Tracked
    <3> QED BY <3>1, StatusIs
  <2>4. index[p] = None /\ base[p] = None => p \in Untracked
    BY <2>1, <2>2 DEF Untracked
  <2>5. /\ said'.files = IF command = "files" THEN NameStatus(base) ELSE said.files
        /\ said'.untracked = IF command = "untracked" THEN Untracked ELSE said.untracked
    BY <1>5, <1>8 DEF AnswerOf
  <2> QED BY <1>6, <1>8, <2>1, <2>3, <2>4, <2>5
<1>12. SaidIsSo'
  <2> SUFFICES ASSUME quiet PROVE SaidIsSo'
    BY <1>2 DEF SaidIsSo
  <2>1. /\ \A c \in Commands : HasSaid(c) => said[c] = AnswerOf(c)
        /\ said.counted = {} /\ said.patched = {}
    BY <1>2, <1>4 DEF GitInv, SaidIsSo, Begun, GitTypes
  <2>2. \A c \in Commands : HasSaid(c)' => said'[c] = AnswerOf(c)'
    <3>1. \A c : AnswerOf(c)' = AnswerOf(c)
      BY <1>2, AnswersStay DEF trees
    <3> QED BY <1>5, <1>6, <2>1, <3>1
  <2>3. said'.counted = {} /\ said'.patched = {}
    BY <1>5, <2>1
  <2>4. moment' # "diffing" => owed' = said'.untracked \X {"counted", "patched"}
    BY <1>1, <1>2
  <2> QED BY <2>2, <2>3, <2>4 DEF SaidIsSo
<1>13. UntouchedIsClean'
  <2> SUFFICES ASSUME scene.strict PROVE UntouchedIsClean'
    BY <1>2 DEF UntouchedIsClean
  <2>1. /\ \A p \in Paths \ touched :
             /\ head[p] = index[p] /\ Tracked(p) = index[p] /\ p \notin Untracked
             /\ base[p] = index[p]
        /\ Names(said.files) \cup said.untracked \subseteq touched
    BY <1>2 DEF GitInv, UntouchedIsClean, Begun
  <2>2. DiffersFrom(base) \subseteq touched /\ Untracked \subseteq touched
    BY <2>1 DEF DiffersFrom, Untracked
  <2>3. Names(NameStatus(base)) = DiffersFrom(base)
    BY StatusIs
  <2>4. Names(said'.files) \cup said'.untracked \subseteq touched
    BY <1>9, <2>1, <2>2, <2>3
  <2>5. (\A p : Tracked(p)' = Tracked(p)) /\ Untracked' = Untracked
    BY <1>2, AnswersStay DEF trees
  <2> QED BY <1>2, <2>1, <2>4, <2>5 DEF UntouchedIsClean, Names
<1> QED BY <1>2, <1>7, <1>10, <1>11, <1>12, <1>13 DEF GitInv, BreaksWithReason

LEMMA ReadUntrackedKeeps ==
  ASSUME ReadingsAssumption, GitInv, ReadUntracked
  PROVE  GitInv'
<1>1. PICK command \in owed :
        /\ said' = [said EXCEPT ![command[2]] = @ \cup Alone(command[1])]
        /\ owed' = owed \ {command}
  BY DEF ReadUntracked
<1>2. /\ moment = "untracked" /\ moment' = "untracked"
      /\ UNCHANGED <<scene, head, index, worktree, base, touched, always, ever, quiet, staged>>
  BY DEF ReadUntracked, trees, others, history
<1>3. GitTypes
  BY DEF GitInv
<1>4. PICK q \in said.untracked, k \in {"counted", "patched"} : command = <<q, k>>
  BY <1>2, <1>3 DEF GitTypes
<1>5. q \in Paths
  BY <1>3 DEF GitTypes
<1>6. /\ said'[k] = said[k] \cup Alone(q)
      /\ \A j \in {"counted", "patched"} : j # k => said'[j] = said[j]
      /\ \A c \in Commands : said'[c] = said[c]
      /\ said' \in [files : SUBSET Files, counts : SUBSET Hunk, patch : SUBSET Hunk,
                    untracked : SUBSET Paths, counted : SUBSET Hunk, patched : SUBSET Hunk]
  <2>1. /\ said' = [said EXCEPT ![k] = @ \cup Alone(q)]
        /\ Alone(q) \in SUBSET Hunk
        /\ said \in [files : SUBSET Files, counts : SUBSET Hunk, patch : SUBSET Hunk,
                     untracked : SUBSET Paths, counted : SUBSET Hunk, patched : SUBSET Hunk]
    BY <1>1, <1>3, <1>4, <1>5, AnswerTypes DEF GitTypes
  <2>2. CASE k = "counted"
    BY <2>1, <2>2 DEF Commands
  <2>3. CASE k = "patched"
    BY <2>1, <2>3 DEF Commands
  <2> QED BY <2>2, <2>3
<1>7. said'.files = said.files /\ said'.untracked = said.untracked
  BY <1>6 DEF Commands
<1>8. \A c : HasSaid(c) /\ HasSaid(c)'
  BY <1>2 DEF HasSaid, Begun
<1>9. GitTypes'
  BY <1>1, <1>2, <1>3, <1>6, <1>7 DEF GitTypes, Begun
<1>10. NamesDiffered'
  <2>1. Different(worktree, index)' = Different(worktree, index)
    BY <1>2 DEF Different
  <2> QED BY <1>2, <1>7, <2>1 DEF GitInv, NamesDiffered, Begun, Names
<1>11. DifferencesAreNamed'
  BY <1>2, <1>7, <1>8 DEF GitInv, DifferencesAreNamed, Begun, Names
<1>12. SaidIsSo'
  <2> SUFFICES ASSUME quiet PROVE SaidIsSo'
    BY <1>2 DEF SaidIsSo
  <2>1. /\ \A c \in Commands : said[c] = AnswerOf(c)
        /\ \A j \in {"counted", "patched"} :
             /\ \A h \in said[j] : \E p \in said.untracked : h \in Alone(p)
             /\ \A p \in said.untracked : <<p, j>> \in owed \/ Alone(p) \subseteq said[j]
    BY <1>2, <1>8 DEF GitInv, SaidIsSo, Begun
  <2>2. (\A c : AnswerOf(c)' = AnswerOf(c)) /\ (\A p : Alone(p)' = Alone(p))
    BY <1>2, AnswersStay DEF trees
  <2>3. \A c \in Commands : said'[c] = AnswerOf(c)'
    BY <1>6, <2>1, <2>2
  <2>4. ASSUME NEW j \in {"counted", "patched"}
        PROVE  /\ \A h \in said'[j] : \E p \in said.untracked : h \in Alone(p)
               /\ \A p \in said.untracked : <<p, j>> \in owed' \/ Alone(p) \subseteq said'[j]
    <3>1. CASE j = k
      BY <1>1, <1>4, <1>6, <2>1, <3>1
    <3>2. CASE j # k
      BY <1>1, <1>4, <1>6, <2>1, <3>2
    <3> QED BY <3>1, <3>2
  <2> QED BY <1>2, <1>7, <2>2, <2>3, <2>4 DEF SaidIsSo
<1>13. UntouchedIsClean'
  <2>1. (\A p : Tracked(p)' = Tracked(p)) /\ Untracked' = Untracked
    BY <1>2, AnswersStay DEF trees
  <2> QED BY <1>2, <1>7, <2>1 DEF GitInv, UntouchedIsClean, Begun, Names
<1> QED BY <1>2, <1>9, <1>10, <1>11, <1>12, <1>13 DEF GitInv, BreaksWithReason

LEMMA CaptureKeeps ==
  ASSUME ReadingsAssumption, GitInv, Capture
  PROVE  GitInv'
<1>1. /\ moment = "untracked" /\ moment' \in {"captured", "broken"} /\ owed = {}
      /\ UNCHANGED <<scene, head, index, worktree, base, owed, said, touched, always, ever,
                     quiet, staged>>
  BY DEF Capture, trees, others, history
<1>2. GitTypes'
  BY <1>1 DEF GitInv, GitTypes, Moments, Begun
<1>3. \A c : HasSaid(c) /\ HasSaid(c)'
  BY <1>1 DEF HasSaid, Begun
<1>4. NamesDiffered'
  <2>1. Different(worktree, index)' = Different(worktree, index)
    BY <1>1 DEF Different
  <2> QED BY <1>1, <2>1 DEF GitInv, NamesDiffered, Begun, Names
<1>5. DifferencesAreNamed'
  BY <1>1, <1>3 DEF GitInv, DifferencesAreNamed, Begun, Names
<1>6. SaidIsSo'
  <2>1. (\A c : AnswerOf(c)' = AnswerOf(c)) /\ (\A p : Alone(p)' = Alone(p))
    BY <1>1, AnswersStay DEF trees
  <2> QED BY <1>1, <1>3, <2>1 DEF GitInv, SaidIsSo, Begun
<1>7. UntouchedIsClean'
  <2>1. (\A p : Tracked(p)' = Tracked(p)) /\ Untracked' = Untracked
    BY <1>1, AnswersStay DEF trees
  <2> QED BY <1>1, <2>1 DEF GitInv, UntouchedIsClean, Begun, Names
<1>8. BreaksWithReason'
  <2>1. Evidence' = Evidence /\ Patch' = Patch
    BY <1>1 DEF Evidence, Patch, Counted, Count, CountAlone, File
  <2> QED BY <2>1 DEF Capture, BreaksWithReason
<1> QED BY <1>2, <1>4, <1>5, <1>6, <1>7, <1>8 DEF GitInv

LEMMA NothingKeeps ==
  ASSUME GitInv, UNCHANGED gitVars
  PROVE  GitInv'
<1>1. UNCHANGED <<scene, moment, head, index, worktree, base, owed, said, touched, always, ever,
                  quiet, staged>>
  BY DEF gitVars, trees, others, history
<1>2. GitTypes'
  BY <1>1 DEF GitInv, GitTypes, Moments, Begun
<1>3. \A c : HasSaid(c)' <=> HasSaid(c)
  BY <1>1 DEF HasSaid, Begun
<1>4. NamesDiffered'
  <2>1. Different(worktree, index)' = Different(worktree, index)
    BY <1>1 DEF Different
  <2> QED BY <1>1, <2>1 DEF GitInv, NamesDiffered, Begun, Names
<1>5. DifferencesAreNamed'
  BY <1>1, <1>3 DEF GitInv, DifferencesAreNamed, Begun, Names
<1>6. SaidIsSo'
  <2>1. (\A c : AnswerOf(c)' = AnswerOf(c)) /\ (\A p : Alone(p)' = Alone(p))
    BY <1>1, AnswersStay DEF trees
  <2> QED BY <1>1, <1>3, <2>1 DEF GitInv, SaidIsSo, Begun
<1>7. UntouchedIsClean'
  <2>1. (\A p : Tracked(p)' = Tracked(p)) /\ Untracked' = Untracked
    BY <1>1, AnswersStay DEF trees
  <2> QED BY <1>1, <2>1 DEF GitInv, UntouchedIsClean, Begun, Names
<1>8. BreaksWithReason'
  <2>1. Evidence' = Evidence /\ Patch' = Patch
    BY <1>1 DEF Evidence, Patch, Counted, Count, CountAlone, File
  <2> QED BY <1>1, <2>1 DEF GitInv, BreaksWithReason
<1> QED BY <1>2, <1>4, <1>5, <1>6, <1>7, <1>8 DEF GitInv

LEMMA GitFailsKeeps ==
  ASSUME ReadingsAssumption, GitInv, GitFails
  PROVE  GitInv'
<1>1. /\ moment \in {"bound", "clean", "diffing", "untracked"}
      /\ moment' = "failed" /\ said' = Nothing
      /\ UNCHANGED <<scene, head, index, worktree, base, touched, always, ever, quiet, staged>>
  BY DEF GitFails, trees, others, history
<1>2. Nothing.files = {} /\ Nothing.untracked = {}
  BY DEF Nothing
<1>3. GitTypes'
  BY <1>1 DEF GitInv, GitTypes, Moments, Begun, Nothing
<1> QED BY <1>1, <1>2, <1>3 DEF GitInv, NamesDiffered, DifferencesAreNamed, SaidIsSo,
                 BreaksWithReason, UntouchedIsClean, Begun, Names

-----------------------------------------------------------------------------
(* The others.                                                             *)

\* What an act does, whichever it is.
Acted(paths, stages) ==
  /\ moment \in {"bound", "clean", "working", "diffing", "untracked"}
  /\ UNCHANGED <<scene, moment, base, owed, said>>
  /\ head' \in Trees /\ index' \in Trees /\ worktree' \in Trees
  /\ touched' = touched \cup paths
  /\ \A p \in Paths \ paths :
       /\ index'[p] = index[p] /\ worktree'[p] = worktree[p]
       /\ head'[p] = head[p] \/ head'[p] = index[p]
  /\ ~stages => index' = index
  /\ IF Diffing
       THEN /\ always' = always \cap Different(worktree', base)
            /\ ever' = ever \cup Different(worktree', index')
            /\ quiet' = FALSE /\ staged' = (staged \/ stages)
       ELSE UNCHANGED history

LEMMA ActsAre ==
  ASSUME ReadingsAssumption, GitTypes, Edit \/ Stage \/ Untrack \/ Move \/ Commit
  PROVE  \E paths, stages : stages \in BOOLEAN /\ Acted(paths, stages)
<1>1. /\ head \in Trees /\ index \in Trees /\ worktree \in Trees
      /\ \A p \in Paths : index[p] \in Contents \cup {None} /\ worktree[p] \in Contents \cup {None}
  BY DEF GitTypes, Trees
<1>2. CASE Edit
  <2>1. PICK p \in Paths, c \in Contents \cup {None} :
          /\ worktree' = [worktree EXCEPT ![p] = c]
          /\ UNCHANGED <<head, index>> /\ Acting("edit", {p}, FALSE)
    BY <1>2 DEF Edit
  <2>2. worktree' \in Trees
    BY <1>1, <2>1 DEF Trees
  <2>3. \A q \in Paths \ {p} : worktree'[q] = worktree[q]
    BY <1>1, <2>1 DEF Trees
  <2>4. Acted({p}, FALSE)
    BY <1>1, <2>1, <2>2, <2>3 DEF Acted, Acting
  <2> QED BY <2>4
<1>3. CASE Stage
  <2>1. PICK p \in Paths \ Ignored :
          /\ index' = [index EXCEPT ![p] = worktree[p]]
          /\ UNCHANGED <<head, worktree>> /\ Acting("stage", {p}, TRUE)
    BY <1>3 DEF Stage
  <2>2. index' \in Trees
    BY <1>1, <2>1 DEF Trees
  <2>3. \A q \in Paths \ {p} : index'[q] = index[q]
    BY <1>1, <2>1 DEF Trees
  <2>4. Acted({p}, TRUE)
    BY <1>1, <2>1, <2>2, <2>3 DEF Acted, Acting
  <2> QED BY <2>4
<1>4. CASE Untrack
  <2>1. PICK p \in Paths :
          /\ index' = [index EXCEPT ![p] = None]
          /\ UNCHANGED <<head, worktree>> /\ Acting("untrack", {p}, TRUE)
    BY <1>4 DEF Untrack
  <2>2. index' \in Trees
    BY <1>1, <2>1 DEF Trees
  <2>3. \A q \in Paths \ {p} : index'[q] = index[q]
    BY <1>1, <2>1 DEF Trees
  <2>4. Acted({p}, TRUE)
    BY <1>1, <2>1, <2>2, <2>3 DEF Acted, Acting
  <2> QED BY <2>4
<1>5. CASE Move
  <2>1. PICK p \in Paths, q \in Paths :
          /\ index' = [index EXCEPT ![p] = None, ![q] = index[p]]
          /\ worktree' = [worktree EXCEPT ![p] = None, ![q] = worktree[p]]
          /\ UNCHANGED head /\ Acting("move", {p, q}, TRUE)
    BY <1>5 DEF Move
  <2>2. index' \in Trees /\ worktree' \in Trees
    BY <1>1, <2>1 DEF Trees
  <2>3. \A r \in Paths \ {p, q} : index'[r] = index[r] /\ worktree'[r] = worktree[r]
    BY <1>1, <2>1 DEF Trees
  <2>4. Acted({p, q}, TRUE)
    BY <1>1, <2>1, <2>2, <2>3 DEF Acted, Acting
  <2> QED BY <2>4
<1>6. CASE Commit
  <2>1. head' = index /\ UNCHANGED <<index, worktree>> /\ Acting("commit", {}, FALSE)
    BY <1>6 DEF Commit
  <2>2. Acted({}, FALSE)
    BY <1>1, <2>1 DEF Acted, Acting
  <2> QED BY <2>2
<1> QED BY <1>2, <1>3, <1>4, <1>5, <1>6

LEMMA ActKeeps ==
  ASSUME ReadingsAssumption, GitInv, NEW paths, NEW stages \in BOOLEAN, Acted(paths, stages)
  PROVE  GitInv'
<1>1. /\ moment \in {"bound", "clean", "working", "diffing", "untracked"}
      /\ UNCHANGED <<scene, moment, base, owed, said>>
      /\ head' \in Trees /\ index' \in Trees /\ worktree' \in Trees
      /\ touched' = touched \cup paths
      /\ \A p \in Paths \ paths :
           /\ index'[p] = index[p] /\ worktree'[p] = worktree[p]
           /\ head'[p] = head[p] \/ head'[p] = index[p]
      /\ ~stages => index' = index
  BY DEF Acted
<1>2. GitTypes
  BY DEF GitInv
<1>3. \/ /\ moment \in Begun
         /\ always' = always \cap Different(worktree', base)
         /\ ever' = ever \cup Different(worktree', index')
         /\ quiet' = FALSE /\ staged' = (staged \/ stages)
      \/ moment \notin Begun /\ UNCHANGED history
  BY <1>1 DEF Acted, Diffing, Begun
<1>4. GitTypes'
  <2>1. always' \subseteq Paths \ Ignored
    BY <1>2, <1>3 DEF GitTypes, history
  <2> QED BY <1>1, <1>2, <2>1 DEF GitTypes
<1>5. NamesDiffered'
  <2>1. moment \in Begun => Different(worktree, index)' \subseteq ever'
    BY <1>1, <1>3 DEF Different
  <2>2. ever \subseteq ever'
    BY <1>3 DEF history
  <2> QED BY <1>1, <2>1, <2>2 DEF GitInv, NamesDiffered, Names
<1>6. DifferencesAreNamed'
  <2> SUFFICES ASSUME moment \in Begun, ~staged', NEW p \in always'
               PROVE  /\ worktree'[p] # base[p]
                      /\ HasSaid("files") /\ (index'[p] # None \/ base[p] # None)
                           => p \in Names(said.files)
                      /\ HasSaid("untracked") /\ index'[p] = None /\ base[p] = None
                           => p \in said.untracked
    BY <1>1 DEF DifferencesAreNamed, HasSaid, Names
  <2>1. p \in always /\ p \in Different(worktree', base) /\ ~staged /\ index' = index
    BY <1>1, <1>3
  <2>2. worktree'[p] # base[p]
    BY <2>1 DEF Different
  <2> QED BY <2>1, <2>2 DEF GitInv, DifferencesAreNamed
<1>7. SaidIsSo'
  BY <1>1, <1>3 DEF SaidIsSo
<1>8. UntouchedIsClean'
  <2> SUFFICES ASSUME scene.strict, moment \in Begun \cup {"clean", "working"}
               PROVE  /\ \A p \in Paths \ touched' :
                           /\ head'[p] = index'[p] /\ Tracked(p)' = index'[p] /\ p \notin Untracked'
                           /\ moment \in Begun \cup {"working"} => base[p] = index'[p]
                      /\ Names(said.files) \cup said.untracked \subseteq touched'
    BY <1>1 DEF UntouchedIsClean, Names
  <2>1. /\ \A p \in Paths \ touched :
             /\ head[p] = index[p] /\ Tracked(p) = index[p] /\ p \notin Untracked
             /\ moment \in Begun \cup {"working"} => base[p] = index[p]
        /\ Names(said.files) \cup said.untracked \subseteq touched
    BY DEF GitInv, UntouchedIsClean
  <2>2. ASSUME NEW p \in Paths \ touched'
        PROVE  /\ head'[p] = index'[p] /\ Tracked(p)' = index'[p] /\ p \notin Untracked'
               /\ moment \in Begun \cup {"working"} => base[p] = index'[p]
    <3>1. /\ p \in Paths \ touched
          /\ index'[p] = index[p] /\ worktree'[p] = worktree[p]
          /\ head'[p] = head[p] \/ head'[p] = index[p]
      BY <1>1
    <3>2. Tracked(p)' = Tracked(p) /\ (p \in Untracked' <=> p \in Untracked)
      BY <3>1 DEF Tracked, Untracked
    <3> QED BY <2>1, <3>1, <3>2
  <2> QED BY <1>1, <2>1, <2>2
<1> QED BY <1>1, <1>4, <1>5, <1>6, <1>7, <1>8 DEF GitInv, BreaksWithReason

-----------------------------------------------------------------------------
(* What is captured.                                                       *)

LEMMA NamedIs ==
  Named = Names(said.files) \cup said.untracked
<1> DEFINE E == {e.file : e \in Evidence}
<1>1. E = said.files \cup {File(p, "added", "none") : p \in said.untracked}
  <2>1. \A f, c : Counted(f, c).file = f
    BY DEF Counted
  <2> QED BY <2>1 DEF Evidence
<1>2. Named = {f.path : f \in E} \cup ({f.previousPath : f \in E} \ {"none"})
  BY DEF Named
<1> HIDE DEF E
<1>3. \A p : File(p, "added", "none").path = p /\ File(p, "added", "none").previousPath = "none"
  BY DEF File
<1> QED BY <1>1, <1>2, <1>3 DEF Names

\* When nobody acted.
LEMMA QuietIsSo ==
  ASSUME ReadingsAssumption, GitInv, moment \in {"captured", "broken"}, quiet
  PROVE  /\ said.files = NameStatus(base) /\ said.untracked = Untracked
         /\ said.counts = Hunks(base) /\ said.patch = Hunks(base)
         /\ \A k \in {"counted", "patched"} :
              /\ \A h \in said[k] : \E p \in Untracked : h \in Alone(p)
              /\ \A p \in Untracked : Alone(p) \subseteq said[k]
         /\ \A p \in Paths : Alone(p) = IF worktree[p] = None THEN {}
                                        ELSE {[path |-> p, text |-> worktree[p]]}
<1>1. GitTypes
  BY DEF GitInv
<1>2. owed = {} /\ scene.candidate = "root" /\ \A c : HasSaid(c)
  BY <1>1 DEF GitTypes, HasSaid, Begun
<1>3. \A c \in Commands : said[c] = AnswerOf(c)
  BY <1>2 DEF GitInv, SaidIsSo, Begun
<1>4. /\ said["files"] = NameStatus(base) /\ said["untracked"] = Untracked
      /\ said["counts"] = Hunks(base) /\ said["patch"] = Hunks(base)
  BY <1>3 DEF Commands, AnswerOf
<1>5. \A p : Alone(p) = IF worktree[p] = None THEN {} ELSE {[path |-> p, text |-> worktree[p]]}
  BY <1>2 DEF Alone, OnDisk
<1>6. ASSUME NEW k \in {"counted", "patched"}
      PROVE  /\ \A h \in said[k] : \E p \in said.untracked : h \in Alone(p)
             /\ \A p \in said.untracked : Alone(p) \subseteq said[k]
  BY <1>2 DEF GitInv, SaidIsSo, Begun
<1> QED BY <1>4, <1>5, <1>6

\* Then what is counted of a path is what is there.
LEMMA CountsAreRight ==
  ASSUME ReadingsAssumption, GitInv, moment \in {"captured", "broken"}, quiet
  PROVE  /\ \A f \in said.files : Count(f) = Tracked(f.path)
         /\ \A p \in said.untracked : CountAlone(p) = worktree[p]
<1>1. \A h \in said.counts : h.text = Tracked(h.path)
  BY QuietIsSo DEF Hunks
<1>2. ASSUME NEW f \in said.files PROVE Count(f) = Tracked(f.path)
  <2>1. [path |-> f.path, text |-> Tracked(f.path)] \in said.counts
    BY QuietIsSo DEF Hunks
  <2> DEFINE rows == {h \in said.counts : h.path = f.path}
  <2>2. rows # {} /\ \A h \in rows : h.text = Tracked(f.path)
    BY <1>1, <2>1
  <2>3. Count(f) = IF rows = {} THEN None ELSE (CHOOSE h \in rows : TRUE).text
    BY DEF Count
  <2> HIDE DEF rows
  <2>4. (CHOOSE h \in rows : TRUE) \in rows
    BY <2>2
  <2> QED BY <2>2, <2>3, <2>4
<1>3. ASSUME NEW p \in said.untracked PROVE CountAlone(p) = worktree[p]
  <2>1. p \in Paths /\ worktree[p] # None /\ p \in Untracked
    BY QuietIsSo DEF Untracked
  <2>2. [path |-> p, text |-> worktree[p]] \in said.counted
    <3>1. Alone(p) \subseteq said["counted"] /\ Alone(p) = {[path |-> p, text |-> worktree[p]]}
      BY <2>1, QuietIsSo
    <3> QED BY <3>1
  <2>3. \A h \in said.counted : h.text = worktree[h.path]
    <3> TAKE h \in said.counted
    <3>1. PICK q \in Untracked : h \in Alone(q)
      BY QuietIsSo
    <3>2. q \in Paths
      BY DEF Untracked
    <3> QED BY <3>1, <3>2, QuietIsSo
  <2> DEFINE rows == {h \in said.counted : h.path = p}
  <2>4. rows # {} /\ \A h \in rows : h.text = worktree[p]
    BY <2>2, <2>3
  <2>5. CountAlone(p) = IF rows = {} THEN None ELSE (CHOOSE h \in rows : TRUE).text
    BY DEF CountAlone
  <2> HIDE DEF rows
  <2>6. (CHOOSE h \in rows : TRUE) \in rows
    BY <2>4
  <2> QED BY <2>4, <2>5, <2>6
<1> QED BY <1>2, <1>3

LEMMA ToldInQuiet ==
  ASSUME ReadingsAssumption, GitInv, moment \in {"captured", "broken"}, quiet,
         NEW p \in Paths \ Ignored
  PROVE  ToldTruly(p)
<1> DEFINE present == {e \in Evidence : e.file.path = p /\ e.file.changeType # "deleted"}
<1>1. /\ said.files = NameStatus(base) /\ said.untracked = Untracked
      /\ said.patch = Hunks(base)
  BY QuietIsSo
<1>2. ASSUME NEW e \in present
      PROVE  /\ worktree[p] # None /\ e.count = worktree[p]
             /\ [path |-> p, text |-> worktree[p]] \in Patch
  <2>1. CASE \E f \in said.files : e = Counted(f, Count(f))
    <3>1. PICK f \in said.files : e = Counted(f, Count(f))
      BY <2>1
    <3>2. e.file = f /\ e.count = Count(f)
      BY <3>1 DEF Counted
    <3>3. f.path = p /\ Tracked(p) # None /\ e.count = Tracked(p)
      BY <1>1, <3>2, StatusIs, CountsAreRight
    <3>4. Tracked(p) = worktree[p]
      BY <3>3 DEF Tracked
    <3>5. [path |-> p, text |-> Tracked(p)] \in Hunks(base)
      BY <1>1, <3>3 DEF Hunks
    <3> QED BY <1>1, <3>3, <3>4, <3>5 DEF Patch
  <2>2. CASE \E q \in said.untracked : e = Counted(File(q, "added", "none"), CountAlone(q))
    <3>1. PICK q \in said.untracked : e = Counted(File(q, "added", "none"), CountAlone(q))
      BY <2>2
    <3>2. q = p /\ e.count = CountAlone(q)
      BY <3>1 DEF Counted, File
    <3>3. worktree[p] # None /\ p \in Untracked
      BY <1>1, <3>2 DEF Untracked
    <3>4. Alone(p) \subseteq said["patched"] /\ Alone(p) = {[path |-> p, text |-> worktree[p]]}
      BY <3>3, QuietIsSo
    <3> QED BY <3>2, <3>3, <3>4, CountsAreRight DEF Patch
  <2> QED BY <2>1, <2>2 DEF Evidence
<1>3. CASE present # {}
  BY <1>2, <1>3 DEF ToldTruly
<1>4. CASE present = {}
  <2>1. p \notin Untracked
    <3> SUFFICES ASSUME p \in Untracked PROVE FALSE
      OBVIOUS
    <3> DEFINE e == Counted(File(p, "added", "none"), CountAlone(p))
    <3>1. e \in Evidence
      BY <1>1 DEF Evidence
    <3>2. e.file.path = p /\ e.file.changeType # "deleted"
      BY DEF Counted, File
    <3> QED BY <1>4, <3>1, <3>2
  <2>2. Tracked(p) = worktree[p] \/ (worktree[p] # None /\ index[p] = None)
    BY DEF Tracked
  <2>3. Tracked(p) = worktree[p]
    BY <2>1, <2>2 DEF Untracked
  <2>4. p \in Named => p \in DiffersFrom(base) /\ p \in Names(said.files)
    BY <1>1, <2>1, NamedIs, StatusIs
  <2>5. p \in Named => worktree[p] = None
    <3> SUFFICES ASSUME p \in Named PROVE Tracked(p) = None
      BY <2>3
    <3>1. PICK f \in said.files : f.path = p \/ (f.previousPath = p /\ p # "none")
      BY <2>4 DEF Names
    <3>2. CASE f.path = p
      <4>1. Counted(f, Count(f)) \in Evidence /\ Counted(f, Count(f)).file = f
        BY DEF Evidence, Counted
      <4>2. f.changeType = "deleted"
        BY <1>4, <3>2, <4>1
      <4> QED BY <1>1, <3>2, <4>2, StatusIs
    <3>3. CASE f.previousPath = p /\ p # "none"
      BY <1>1, <3>3, StatusIs
    <3> QED BY <3>1, <3>2, <3>3
  <2>6. p \notin Named => worktree[p] = base[p]
    BY <1>1, <2>3, NamedIs, StatusIs DEF DiffersFrom
  <2> QED BY <1>4, <2>5, <2>6 DEF ToldTruly
<1> QED BY <1>3, <1>4

LEMMA QuietIsUnbroken ==
  ASSUME ReadingsAssumption, GitInv, quiet
  PROVE  moment # "broken"
<1> SUFFICES ASSUME moment = "broken" PROVE FALSE
  OBVIOUS
<1>1. Evidence = {} <=> said.files = {} /\ said.untracked = {}
  <2>1. \A f \in said.files : Counted(f, Count(f)) \in Evidence
    BY DEF Evidence
  <2>2. \A p \in said.untracked : Counted(File(p, "added", "none"), CountAlone(p)) \in Evidence
    BY DEF Evidence
  <2>3. said.files = {} /\ said.untracked = {} => Evidence = {}
    BY DEF Evidence
  <2> QED BY <2>1, <2>2, <2>3
<1>2. said.patch = {} <=> said.files = {}
  <2>1. said.patch = {[path |-> f.path, text |-> Tracked(f.path)] : f \in said.files}
    BY QuietIsSo DEF Hunks
  <2>2. \A f \in said.files : [path |-> f.path, text |-> Tracked(f.path)] \in said.patch
    BY <2>1
  <2> QED BY <2>1, <2>2
<1>3. said.patched = {} <=> said.untracked = {}
  <2>1. \A p \in Untracked : Alone(p) # {} /\ Alone(p) \subseteq said["patched"]
    BY QuietIsSo DEF Untracked
  <2>2. \A h \in said["patched"] : \E p \in Untracked : h \in Alone(p)
    BY QuietIsSo
  <2>3. said.untracked = Untracked
    BY QuietIsSo
  <2> QED BY <2>1, <2>2, <2>3
<1>4. (Evidence = {}) # (Patch = {})
  BY DEF GitInv, BreaksWithReason
<1> QED BY <1>1, <1>2, <1>3, <1>4 DEF Patch

LEMMA GitInvIsWhole ==
  ASSUME ReadingsAssumption, GitInv
  PROVE  EvidenceIsWhole
<1>1. ASSUME moment = "captured", ~staged, NEW p \in always PROVE p \in Named
  <2>1. HasSaid("files") /\ HasSaid("untracked") /\ moment \in Begun
    BY <1>1 DEF HasSaid, Begun
  <2>2. p \in Names(said.files) \cup said.untracked
    BY <1>1, <2>1 DEF GitInv, DifferencesAreNamed
  <2> QED BY <2>2, NamedIs
<1>2. Named \subseteq ever
  BY NamedIs DEF GitInv, NamesDiffered
<1>3. moment = "captured" /\ scene.strict => Named \subseteq touched
  BY NamedIs DEF GitInv, UntouchedIsClean, Begun
<1>4. moment = "captured" /\ quiet => \A p \in Paths \ Ignored : ToldTruly(p)
  BY ToldInQuiet
<1>5. quiet => moment # "broken"
  BY QuietIsUnbroken
<1> QED BY <1>1, <1>2, <1>3, <1>4, <1>5 DEF EvidenceIsWhole

\* Whatever the files, whoever edits, stages, untracks, moves and commits between git's
\* answers: the diff names each path that differed from the base all the time and none that
\* never did; while nobody acts it is not refused, and what it tells of each path is what is
\* on disk; and after a snapshot of a clean worktree it only names what was touched since
\* (diffWorktree() and the calls it makes, gitService.ts:420).
THEOREM WhatGitSaysIsWhole ==
  ASSUME ReadingsAssumption
  PROVE  GitInit /\ [][GitNext]_gitVars => []EvidenceIsWhole
<1>1. GitInit => GitInv
  BY GitStarts
<1>2. GitInv /\ [GitNext]_gitVars => GitInv'
  <2> SUFFICES ASSUME GitInv, [GitNext]_gitVars PROVE GitInv'
    OBVIOUS
  <2>1. CASE Bind
    BY <2>1, BindKeeps
  <2>2. CASE CheckStatus
    BY <2>2, CheckStatusKeeps
  <2>3. CASE ReadHead
    BY <2>3, ReadHeadKeeps
  <2>4. CASE StartDiff
    BY <2>4, StartDiffKeeps
  <2>5. CASE ReadDiff
    BY <2>5, ReadDiffKeeps
  <2>6. CASE ReadUntracked
    BY <2>6, ReadUntrackedKeeps
  <2>7. CASE Capture
    BY <2>7, CaptureKeeps
  <2>8. CASE GitFails
    BY <2>8, GitFailsKeeps
  <2>9. CASE Edit \/ Stage \/ Untrack \/ Move \/ Commit
    <3>1. PICK paths, stages : stages \in BOOLEAN /\ Acted(paths, stages)
      BY <2>9, ActsAre DEF GitInv
    <3> QED BY <3>1, ActKeeps
  <2>10. CASE UNCHANGED gitVars
    BY <2>10, NothingKeeps
  <2> QED BY <2>1, <2>2, <2>3, <2>4, <2>5, <2>6, <2>7, <2>8, <2>9, <2>10 DEF GitNext
<1>3. GitInv => EvidenceIsWhole
  BY GitInvIsWhole
<1> QED BY <1>1, <1>2, <1>3, PTL
=============================================================================
