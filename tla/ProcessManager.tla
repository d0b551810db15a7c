----------------------------- MODULE ProcessManager -----------------------------
(***************************************************************************)
(* ProcessManager and OrphanTracker: the calls of spawn() that share        *)
(* maxConcurrent slots, each run from its start to its one outcome, the    *)
(* escalating kill, killAll() at quit, and the file of live pids that lets *)
(* the next start kill what a dead Forge left behind.                      *)
(*                                                                         *)
(* A call of spawn() names its run and the process of that run.  The code  *)
(* runs on one thread: while a released waiter has not continued (a        *)
(* microtask) no other event is delivered.                                 *)
(***************************************************************************)
EXTENDS Naturals, Sequences, FiniteSets

CONSTANTS
  Calls,           \* the calls of spawn()
  MayFail,         \* calls whose spawnPty may throw
  IdleTimed, HardTimed,   \* calls that ask for a timeout
  OwnerSeemsAlive, \* what isAlive() may answer of the pid of a dead Forge
  Instances        \* [maxConcurrent, tracked: the options (whether orphans are
                   \* tracked); calls: those that are made; lives, cancels (per
                   \* run), killAlls: how often such things happen]

ASSUME ProcessManagerAssumption ==
  /\ IsFiniteSet(Calls)
  /\ Instances \subseteq [maxConcurrent : Nat \ {0}, tracked : BOOLEAN,
                          calls : SUBSET Calls, lives : Nat, cancels : Nat,
                          killAlls : Nat]
  /\ MayFail \cup IdleTimed \cup HardTimed \subseteq Calls
  /\ OwnerSeemsAlive \subseteq BOOLEAN

VARIABLES
  inst,      \* the instance, which no step changes
  life,      \* how often Forge has been started
  up,        \* whether it runs
  disposed,
  call,      \* where each call of spawn() is
  queue,     \* the resolvers of the calls that wait for a slot
  running,   \* the map of runs by id
  run,       \* what a Run holds
  child,     \* the operating system's process of each run
  asked,     \* cancel() calls made for each run, and those that returned
  tracked,   \* OrphanTracker.tracked
  writes,    \* flushes on their way to the file
  file,      \* processes.json
  reap,      \* the startup reap
  seen       \* what an observer remembers across lives

app    == <<call, queue, running, run, asked>>
disk   == <<tracked, writes, file>>
vars   == <<inst, life, up, disposed, app, child, disk, reap, seen>>

CallStates == {"new", "queued", "woken", "handle", "rejected", "lost"}
Reasons    == {"exited", "cancelled", "idle-timeout", "hard-timeout", "spawn-failed"}

NoFile   == [owner |-> 0, pids |-> {}]
FreshRun == [settled |-> FALSE, cancelling |-> FALSE, reason |-> "exited",
             outcome |-> "none", signals |-> 0]
Unasked  == [made |-> 0, waiting |-> FALSE, returned |-> FALSE]

MaxConcurrent == inst.maxConcurrent

FirstReap == IF inst.tracked THEN "reading" ELSE "done"

Woken == {c \in Calls : call[c] = "woken"}

Init ==
  /\ inst \in Instances
  /\ life = 1 /\ up = TRUE /\ disposed = FALSE
  /\ call = [c \in Calls |-> "new"]
  /\ queue = << >> /\ running = {}
  /\ run = [c \in Calls |-> FreshRun]
  /\ child = [c \in Calls |-> "none"]
  /\ asked = [c \in Calls |-> Unasked]
  /\ tracked = {} /\ writes = << >> /\ file = NoFile
  /\ reap = FirstReap
  /\ seen = [hasty |-> FALSE, signalled |-> {}, clean |-> TRUE, spared |-> FALSE,
             killAlls |-> 0]

\* An event of its own: nothing is waiting to continue.
Event == up /\ Woken = {}

\* flush(): the file is to hold what is tracked now, or to go if that is nothing.
Flush(pids) ==
  IF inst.tracked
  THEN tracked' = pids /\ writes' = Append(writes, [owner |-> life, pids |-> pids])
  ELSE UNCHANGED <<tracked, writes>>

\* Variant for mutation: a slot that was freed wakes nobody.
WithoutNext(calls) == calls

\* queue.shift()?.(): the head of the queue may continue.
WithNext(calls) ==
  IF queue = << >> THEN calls ELSE [calls EXCEPT ![Head(queue)] = "woken"]
Shifted == IF queue = << >> THEN queue ELSE Tail(queue)

-----------------------------------------------------------------------------
(* spawn().                                                                *)

\* spawnPty throws: the run is over before it was anything, and its slot passes
\* on.
StartFails(c) ==
  /\ c \in MayFail
  /\ run' = [run EXCEPT ![c] = [FreshRun EXCEPT !.settled = TRUE,
                                                !.outcome = "spawn-failed"]]
  /\ call' = [WithNext(call) EXCEPT ![c] = "handle"]
  /\ queue' = Shifted
  /\ UNCHANGED <<running, child, tracked, writes, seen>>

StartSucceeds(c) ==
  /\ run' = [run EXCEPT ![c] = FreshRun]
  /\ call' = [call EXCEPT ![c] = "handle"]
  /\ running' = running \cup {c}
  /\ child' = [child EXCEPT ![c] = "alive"]
  /\ Flush(tracked \cup {c})
  /\ seen' = [seen EXCEPT !.hasty = @ \/ reap # "done"]
  /\ UNCHANGED queue

\* From the end of the wait for a slot, of which nothing is checked again.
Start(c) ==
  /\ StartFails(c) \/ StartSucceeds(c)
  /\ UNCHANGED <<inst, life, up, disposed, asked, file, reap>>

\* Variant for mutation: one more than the cap.
NoSlotButOne == Cardinality(running) > MaxConcurrent

NoSlot == Cardinality(running) >= MaxConcurrent

SpawnRefused(c) ==
  /\ Event /\ c \in inst.calls /\ call[c] = "new" /\ disposed
  /\ call' = [call EXCEPT ![c] = "rejected"]
  /\ UNCHANGED <<inst, life, up, disposed, queue, running, run, child, asked, disk, reap, seen>>

SpawnQueued(c) ==
  /\ Event /\ c \in inst.calls /\ call[c] = "new" /\ ~disposed /\ NoSlot
  /\ call' = [call EXCEPT ![c] = "queued"]
  /\ queue' = Append(queue, c)
  /\ UNCHANGED <<inst, life, up, disposed, running, run, child, asked, disk, reap, seen>>

SpawnNow(c) ==
  /\ Event /\ c \in inst.calls /\ call[c] = "new" /\ ~disposed /\ ~NoSlot
  /\ Start(c)

Continue(c) == up /\ call[c] = "woken" /\ Start(c)

-----------------------------------------------------------------------------
(* A run: output, timers, signals, exit.                                   *)

\* terminate(), for the one who comes first.
Terminated(r, reason) ==
  [r EXCEPT !.cancelling = TRUE, !.reason = reason, !.signals = 1]

\* No output for too long, or the ceiling reached. (Output re-arms the idle timer
\* even of a run that is being killed; it then fires without effect.)
TimerFires(c, timed, reason) ==
  /\ Event /\ c \in running \cap timed /\ ~run[c].cancelling
  /\ run' = [run EXCEPT ![c] = Terminated(@, reason)]
  /\ UNCHANGED <<inst, life, up, disposed, call, queue, running, child, asked, disk, reap, seen>>

\* handle.cancel(): who comes first waits for the run to settle; everyone else
\* returns at once.
Cancel(c) ==
  /\ Event /\ call[c] = "handle" /\ asked[c].made < inst.cancels
  /\ IF c \in running /\ ~run[c].cancelling
     THEN /\ run' = [run EXCEPT ![c] = Terminated(@, "cancelled")]
          /\ asked' = [asked EXCEPT ![c].made = @ + 1, ![c].waiting = TRUE]
     ELSE /\ asked' = [asked EXCEPT ![c].made = @ + 1, ![c].returned = TRUE]
          /\ UNCHANGED run
  /\ UNCHANGED <<inst, life, up, disposed, call, queue, running, child, disk, reap, seen>>

\* SIGTERM, then SIGKILL, unless the run has settled meanwhile.
Escalate(c) ==
  /\ Event /\ run[c].signals \in 1..2 /\ ~run[c].settled
  /\ run' = [run EXCEPT ![c].signals = @ + 1]
  /\ UNCHANGED <<inst, life, up, disposed, call, queue, running, child, asked, disk, reap, seen>>

\* The process ends, by itself or of a signal, whether Forge runs or not.
ChildExits(c) ==
  /\ child[c] = "alive"
  /\ child' = [child EXCEPT ![c] = "gone"]
  /\ UNCHANGED <<inst, life, up, disposed, app, disk, reap, seen>>

Killed(c) == run[c].signals = 3 /\ ChildExits(c)

\* Variant for mutation: a kill settles the run when it has signalled.
Reported(c) == child[c] = "gone" \/ run[c].signals = 3

ExitReported(c) == child[c] = "gone"

\* onExit: settle() with the reason of whoever ended the run, the next waiter
\* released.
OnExit(c) ==
  /\ Event /\ c \in running /\ ExitReported(c)
  /\ run' = [run EXCEPT ![c].settled = TRUE, ![c].outcome = run[c].reason]
  /\ running' = running \ {c}
  /\ Flush(tracked \ {c})
  /\ asked' = [asked EXCEPT ![c].returned = @ \/ asked[c].waiting, ![c].waiting = FALSE]
  /\ call' = WithNext(call)
  /\ queue' = Shifted
  /\ UNCHANGED <<inst, life, up, disposed, child, file, reap, seen>>

\* killAll(): everyone in the queue continues, behind the check of disposed, and
\* every run there is now is terminated.
KillAll ==
  /\ Event /\ seen.killAlls < inst.killAlls
  /\ disposed' = TRUE
  /\ call' = [c \in Calls |-> IF call[c] = "queued" THEN "woken" ELSE call[c]]
  /\ queue' = << >>
  /\ run' = [c \in Calls |-> IF c \in running /\ ~run[c].cancelling
                             THEN Terminated(run[c], "cancelled") ELSE run[c]]
  /\ seen' = [seen EXCEPT !.killAlls = @ + 1]
  /\ UNCHANGED <<inst, life, up, running, child, asked, disk, reap>>

-----------------------------------------------------------------------------
(* processes.json, the death of Forge, its next start.                     *)

\* The oldest flush reaches the file.
FlushDone ==
  /\ up /\ writes # << >>
  /\ file' = IF Head(writes).pids = {} THEN NoFile ELSE Head(writes)
  /\ writes' = Tail(writes)
  /\ UNCHANGED <<inst, life, up, disposed, app, child, tracked, reap, seen>>

\* Forge dies, or quits without waiting: what it was doing is gone, the children
\* are not.
Die ==
  /\ up /\ life < inst.lives
  /\ up' = FALSE
  /\ call' = [c \in Calls |-> IF call[c] = "new" THEN "new" ELSE "lost"]
  /\ queue' = << >> /\ running' = {}
  /\ run' = [c \in Calls |-> FreshRun]
  /\ asked' = [c \in Calls |-> Unasked]
  /\ tracked' = {} /\ writes' = << >>
  /\ seen' = [seen EXCEPT !.clean = @ /\ writes = << >> /\ reap = "done",
                          !.killAlls = 0]
  /\ UNCHANGED <<inst, life, disposed, child, file, reap>>

Boot ==
  /\ ~up
  /\ up' = TRUE /\ life' = life + 1 /\ disposed' = FALSE /\ reap' = FirstReap
  /\ UNCHANGED <<inst, app, child, disk, seen>>

\* Variant for mutation: whoever recorded them is left alone.
OrphansOfSelf == IF file.owner = life THEN file.pids ELSE {}

Orphans == {c \in file.pids : child[c] = "alive"}

\* reap() has read the file: nothing to do; or another owner that seems to live;
\* or everything in the file is signalled, and what was tracked is forgotten.
Reap ==
  /\ Event /\ reap = "reading"
  /\ reap' = "done"
  /\ \/ /\ file = NoFile
        /\ UNCHANGED <<tracked, writes, seen>>
     \/ /\ file.owner \notin {0, life} /\ TRUE \in OwnerSeemsAlive
        /\ seen' = [seen EXCEPT !.spared = TRUE]
        /\ UNCHANGED <<tracked, writes>>
     \/ /\ file # NoFile
        /\ file.owner = life \/ FALSE \in OwnerSeemsAlive
        /\ seen' = [seen EXCEPT !.signalled = @ \cup Orphans]
        /\ Flush({})
  /\ UNCHANGED <<inst, life, up, disposed, app, child, file>>

-----------------------------------------------------------------------------
Next ==
  \/ \E c \in Calls :
       \/ SpawnRefused(c) \/ SpawnQueued(c) \/ SpawnNow(c) \/ Continue(c)
       \/ Cancel(c) \/ Escalate(c) \/ ChildExits(c) \/ OnExit(c)
       \/ TimerFires(c, IdleTimed, "idle-timeout")
       \/ TimerFires(c, HardTimed, "hard-timeout")
  \/ KillAll \/ FlushDone \/ Die \/ Boot \/ Reap

Spec == Init /\ [][Next]_vars

\* What has been scheduled runs, a process does not survive SIGKILL, and whoever
\* got a session disposes of it (LeafRunner in its finally).
Fairness ==
  /\ \A c \in Calls :
       /\ WF_vars(Continue(c)) /\ WF_vars(OnExit(c)) /\ WF_vars(Escalate(c))
       /\ WF_vars(Killed(c))
       /\ WF_vars(c \in running /\ Cancel(c))

FairSpec == Spec /\ Fairness

-----------------------------------------------------------------------------
(* Properties.                                                             *)

\* Until Forge shuts down no more than maxConcurrent processes run at once, of
\* agents and terminals together, however starts, exits and failed starts
\* interleave with the queue; and nobody waits for a slot while one is free: every
\* slot that is given up reaches the head of the queue.
SlotsAreShared ==
  /\ ~disposed => Cardinality(running) <= MaxConcurrent
  /\ queue # << >> => Cardinality(running) + Cardinality(Woken) >= MaxConcurrent

\* The outcome of a run is delivered only when its process is gone, whatever
\* timeout, cancel and exit raced for it.
OutcomeMeansGone == \A c \in Calls : run[c].settled => child[c] # "alive"

\* The two of them: the slots of ProcessManager are shared and not lost, and an outcome
\* means that the process is gone.
ProcessesAreAccounted == SlotsAreShared /\ OutcomeMeansGone

\* If Forge dies with every flush in the file, the next start signals every
\* process it left behind. (Not if the dead owner's pid seems alive, nor if some
\* process is started before the reap has finished: that one's record replaces
\* the file, or is forgotten with what the reap found.)
OrphansAreFound ==
  up /\ reap = "done" /\ seen.clean /\ ~seen.spared /\ ~seen.hasty
    => \A c \in Calls : call[c] = "lost" /\ child[c] = "alive" => c \in seen.signalled

\* Whoever waits for a slot gets an answer: sessions are disposed of, and the
\* escalation ends with a signal that no process survives.
SpawnsAreServed ==
  \A c \in Calls : (call[c] = "queued") ~> (call[c] # "queued")
=============================================================================
