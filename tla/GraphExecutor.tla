----------------------------- MODULE GraphExecutor -----------------------------
(***************************************************************************)
(* GraphExecutor: one graph run, from run() through batches of concurrent  *)
(* nodes, routers, feedback loops, user gates, cancellation and halts, to  *)
(* process death, recover() at the next start, resume, rerun and skip.     *)
(*                                                                         *)
(* The code runs on one JavaScript thread.  Between two awaits nothing     *)
(* else happens, so a synchronous stretch is a chain of steps that the     *)
(* variable pc keeps to itself ("start", "prune", "feedback", ...); only   *)
(* process death can fall between them.  Nodes in flight interleave while  *)
(* pc = "work".                                                            *)
(***************************************************************************)
EXTENDS GraphTables, WorkflowGraph

CONSTANTS
  Instances,   \* the templates and settings that a run may be started with
  Rank         \* position of a node id in the locale order of ids

LeafResults == {"completed", "failed", "blocked", "waiting", "cancelled", "throws"}
FaultKinds  == {"role", "prepare", "apply", "merge", "capture"}

\* The node ids of all templates.
NodeIds == UNION {i.nodes : i \in Instances}

\* What an instance holds: a template (nodes, edges, which of them are routers,
\* user gates or work in a worktree, whose artifacts a node requires, whose
\* inputs name a declared output), how its leaves may answer and its steps fail,
\* options.skipNodeIds, the loop policy, the iteration fingerprints, whether two
\* checkpoints may carry one timestamp, and the bounds of the instance.  The
\* template was validated: its edges join nodes of it, and its nodes can be
\* sorted along the forward ones.
InstanceIsSound(i) ==
  /\ IsFiniteSet(i.nodes)
  /\ \A e \in i.edges : e.source \in i.nodes /\ e.target \in i.nodes
  /\ \E position \in [i.nodes -> 1..Cardinality(i.nodes)] :
       \A e \in Forward(i.edges) : position[e.source] < position[e.target]
  /\ i.routers \subseteq i.nodes /\ i.gates \subseteq i.nodes
  /\ i.routers \cap i.gates = {}
  /\ i.writers \subseteq i.nodes \ (i.routers \cup i.gates)
  /\ i.requires \in [i.nodes -> SUBSET i.nodes]
  /\ i.results \in [i.nodes -> SUBSET LeafResults]
  /\ i.faults \in [i.nodes -> SUBSET FaultKinds]
  /\ {i.maxIterations, i.maxRepeatedStates, i.maxNodeAttempts, i.maxConcurrency}
       \subseteq Nat \ {0}
  /\ {i.runs, i.reruns, i.crashes, i.aborts, i.skips} \subseteq Nat
  /\ i.sameMillisecond \in BOOLEAN

ASSUME GraphExecutorAssumption ==
  /\ Rank \in [NodeIds -> Nat]
  /\ \A m, n \in NodeIds : Rank[m] = Rank[n] => m = n
  /\ \A i \in Instances : InstanceIsSound(i)

VARIABLES
  inst,                   \* the instance, which no step changes
  run, attempts, trans,   \* the rows of GraphTables
  ckpts,      \* the checkpoints that getLatestGraphCheckpoint may return
  verdicts,   \* locked gate decisions, with the attempt they were made on
  pc,         \* where the executor is
  mem,        \* the local variables of run()
  cur,        \* the node whose completion is being followed up
  left,       \* what is left of the bounds
  seen        \* what an observer remembers across crashes

Nodes   == inst.nodes
Edges   == inst.edges
Routers == inst.routers
Gates   == inst.gates
Writers == inst.writers
EdgeIds == {e.id : e \in Edges}

durable == <<inst, run, attempts, trans, ckpts, verdicts>>
vars == <<inst, run, attempts, trans, ckpts, verdicts, pc, mem, cur, left, seen>>

NoRun    == [status |-> "none", iteration |-> 0, finished |-> FALSE]
NoChange == << >>
NoCur    == [node |-> NoEdge, edge |-> NoEdge, back |-> "sched"]
NoVerdict == [verdict |-> "none", attempt |-> 0]

EmptyMem ==
  [completed |-> {}, failed |-> {}, blocked |-> {}, resumable |-> {},
   nonResumable |-> {}, cancelled |-> {}, skipped |-> {},
   dead |-> {},                           \* deactivatedForwardEdgeIds
   number |-> [n \in NodeIds |-> 0],        \* attemptNum of each node in flight
   iteration |-> 0,
   lineage |-> [n \in NodeIds |-> 0],       \* attempt whose outputs n's successors read
   patch |-> NoChange,                    \* previousLoopIterationPatch
   changes |-> NoChange,                  \* latestLoopChangeSet
   prints |-> << >>,                      \* fingerprintHistory
   halted |-> FALSE, aborted |-> FALSE, rejected |-> FALSE,
   batch |-> {},                          \* nodes of the batch not yet started
   stage |-> [n \in NodeIds |-> "none"],    \* await each node in flight is at
   tree |-> [n \in NodeIds |-> {}]]         \* change sets applied in its worktree

Init ==
  /\ inst \in Instances
  /\ run = NoRun
  /\ attempts = [n \in NodeIds |-> << >>]
  /\ trans = {}
  /\ ckpts = {}
  /\ verdicts = [g \in Gates |-> NoVerdict]
  /\ pc = "idle"
  /\ mem = EmptyMem
  /\ cur = NoCur
  /\ left = [runs |-> inst.runs, reruns |-> inst.reruns, crashes |-> inst.crashes,
             aborts |-> inst.aborts, skips |-> inst.skips]
  /\ seen = [answer |-> "none", crashed |-> {}, prints |-> << >>, stale |-> {}]

-----------------------------------------------------------------------------
(* Helpers.                                                                *)

First(S) == CHOOSE n \in S : \A m \in S : Rank[n] <= Rank[m]
InFlight == {n \in Nodes : mem.stage[n] # "none"}
Change(n, k) == <<n, k>>
FeedbackEdge(n) == CHOOSE e \in Edges : e.source = n /\ e.isFeedback

\* writeGraphCheckpoint, once or several times in a row, in what the newest
\* checkpoint may be afterwards: ties on the timestamp are broken by random id.
Checkpoint(written) ==
  LET last == written[Len(written)]
      all  == {written[i] : i \in 1..Len(written)}
  IN  ckpts' \in IF inst.sameMillisecond
                 THEN {{last}, all, ckpts \cup all}
                 ELSE {{last}}
Snap(operation, blocked) == [operation |-> operation, blocked |-> blocked]

\* Variant for mutation: the new attempt belongs to the iteration before.
TakeInPriorIteration(n, status) ==
  IF LatestStatus(attempts, n) = "ready" THEN attempts
  ELSE RecordAttempt(attempts, n, status, mem.iteration - 1)

\* The row a node's start uses: a ready attempt is taken over as it is (it stays
\* "ready" until it ends), otherwise a new one is inserted.
Take(n, status) ==
  IF LatestStatus(attempts, n) = "ready" THEN attempts
  ELSE RecordAttempt(attempts, n, status, mem.iteration)

\* updateNodeAttempt on the attempt that n is executing.
EndAttempt(n, status, note) ==
  SetAttempt(attempts, n, mem.number[n], status, note)
EndLast(table, n, status, note) == SetAttempt(table, n, Len(table[n]), status, note)

\* The finally block: n is no longer in flight.
Leave(m, n) == [m EXCEPT !.stage[n] = "none", !.tree[n] = {}, !.number[n] = 0]

Return(answer) ==
  /\ pc' = "idle"
  /\ mem' = EmptyMem
  /\ cur' = NoCur
  /\ seen' = [seen EXCEPT !.answer = answer]

\* updateGraphRunStatus with a finish time.
Finish(status) ==
  run' = [run EXCEPT !.status = status, !.finished = TRUE]

-----------------------------------------------------------------------------
(* run(): start or hydrate.                                                *)

\* The body of the loop that the latest transition opened, if the run is still
\* in the iteration it opened.
ActiveBody ==
  IF \E t \in trans : t.to = run.iteration
  THEN LET t == CHOOSE t \in trans : t.to = run.iteration
       IN  LoopBody(Nodes, Edges, t.source, t.target)
  ELSE {}

\* The patch restored when iteration > 1: the change set of the last attempt of
\* an earlier iteration in the order (node id, attempt).
PriorChanges ==
  UNION {{Change(n, k) : k \in {j \in DOMAIN attempts[n] :
                                /\ attempts[n][j].status = "completed"
                                /\ attempts[n][j].iteration < run.iteration}}
           : n \in Writers}
RestoredPatch ==
  IF run.iteration <= 1 \/ PriorChanges = {} THEN NoChange
  ELSE CHOOSE c \in PriorChanges :
         \A d \in PriorChanges :
           \/ Rank[d[1]] < Rank[c[1]]
           \/ d[1] = c[1] /\ d[2] <= c[2]

\* Variant for mutation: the first attempt of a node is taken for its latest.
LineageOfFirst(n) == 1

\* The attempt whose outputs a hydrated node hands on.
LineageOf(n) == Len(attempts[n])

\* What run() reads back from the tables, nodes of the set invalid left out.
Hydrated(invalid, resume) ==
  LET known(n) == /\ attempts[n] # << >>
                  /\ n \notin invalid
                  /\ ~(n \in ActiveBody /\ Latest(attempts, n).iteration < run.iteration)
      with(status) == {n \in Nodes : known(n) /\ LatestStatus(attempts, n) = status}
      unblocked(n) == \/ n \in resume
                      \/ /\ ~run.finished
                         /\ n \in Gates \/ Latest(attempts, n).note # "slot"
      stuck == {n \in with("blocked") : ~unblocked(n)}
  IN [EmptyMem EXCEPT
        !.iteration = run.iteration,
        !.patch = RestoredPatch,
        !.completed = with("completed"),
        !.skipped = with("skipped"),
        !.failed = with("failed"),
        !.blocked = stuck,
        !.nonResumable = stuck,
        !.lineage = [n \in NodeIds |->
                       IF n \in with("completed") THEN LineageOf(n) ELSE 0]]

StartRun ==
  /\ pc = "idle" /\ run = NoRun /\ left.runs > 0
  /\ run' = [status |-> "running", iteration |-> 1, finished |-> FALSE]
  /\ mem' = [EmptyMem EXCEPT !.iteration = 1]
  /\ pc' = "sched"
  /\ left' = [left EXCEPT !.runs = @ - 1]
  /\ seen' = [seen EXCEPT !.answer = "none"]
  /\ UNCHANGED <<inst, attempts, trans, ckpts, verdicts, cur>>

\* run() on an existing run.  Status goes back to running and finishedAt stays
\* as it is; a finished terminal run without invalidated nodes is only reported.
Reopen(invalid, resume) ==
  /\ run # NoRun
  /\ invalid # {} \/ ~(run.status \in TerminalRun /\ run.finished)
  /\ run' = [run EXCEPT !.status = "running"]
  /\ mem' = Hydrated(invalid, resume)
  /\ pc' = "hydrated"
  /\ UNCHANGED <<inst, attempts, trans, verdicts, cur>>

Resume ==
  /\ pc = "idle" /\ left.runs > 0
  /\ left' = [left EXCEPT !.runs = @ - 1]
  /\ seen' = [seen EXCEPT !.answer = "none"]
  /\ \E resume \in {{}, {n \in Nodes : LatestStatus(attempts, n) = "blocked"}} : Reopen({}, resume)
  /\ UNCHANGED ckpts

\* Variant for mutation: the dependents of the node keep their results.
InvalidatedAlone(n) == {n}

Invalidated(n) == {n} \cup Downstream(Nodes, Edges, n)

\* rerunNode: a checkpoint, then run() without the node and all its dependents.
RerunNode(n) ==
  /\ pc = "idle" /\ left.reruns > 0
  /\ left' = [left EXCEPT !.reruns = @ - 1]
  /\ Reopen(Invalidated(n), {})
  /\ seen' = [seen EXCEPT !.answer = "none",
                           !.stale = {<<m, Len(attempts[m])>> :
                                        m \in {n} \cup Downstream(Nodes, Edges, n)}]
  /\ Checkpoint(<<Snap("node.rerun_scheduled", {})>>)

\* Completed nodes of this iteration whose feedback edge was taken, as far as
\* the tables tell, but not followed: a router by the edge it recorded, any
\* other node by merely having one.
PendingFeedback ==
  {n \in mem.completed :
     /\ LatestStatus(attempts, n) = "completed"
     /\ Latest(attempts, n).iteration = mem.iteration
     /\ \E e \in Feedback(Edges) :
          e.source = n /\ (n \in Routers => e.id = Latest(attempts, n).edge)
     /\ BySource(trans, n, Len(attempts[n])) = {}}

CheckPending ==
  /\ pc = "hydrated"
  /\ IF PendingFeedback = {}
     THEN pc' = "sched" /\ UNCHANGED cur
     ELSE LET n == First(PendingFeedback)
              id == IF n \in Routers THEN Latest(attempts, n).edge
                    ELSE FeedbackEdge(n).id
          IN  pc' = "feedback" /\ cur' = [node |-> n, edge |-> id, back |-> "sched"]
  /\ UNCHANGED <<durable, mem, left, seen>>

-----------------------------------------------------------------------------
(* The scheduling loop, and the synchronous part of every node of a batch. *)

Accounted ==
  Cardinality(mem.completed) + Cardinality(mem.skipped) + Cardinality(mem.failed)
    + Cardinality(mem.blocked) + Cardinality(mem.cancelled)
Candidates ==
  ReadyNodes(Nodes, Edges, mem.completed, mem.skipped)
    \ (mem.failed \cup mem.blocked \cup mem.cancelled)
Batch == {n \in Candidates :
            Cardinality({m \in Candidates : Rank[m] < Rank[n]}) < inst.maxConcurrency}

Sched ==
  /\ pc = "sched"
  /\ IF /\ Accounted < Cardinality(Nodes)
        /\ ~mem.halted /\ ~mem.aborted /\ mem.cancelled = {}
        /\ Batch # {}
     THEN pc' = "start" /\ mem' = [mem EXCEPT !.batch = Batch]
     ELSE pc' = "ending" /\ UNCHANGED mem
  /\ UNCHANGED <<durable, cur, left, seen>>

Missing(n)    == {p \in inst.requires[n] : mem.lineage[p] = 0}
Started       == [mem EXCEPT !.batch = @ \ {First(mem.batch)}]
AfterStart(n) == pc' = IF mem.batch = {n} THEN "work" ELSE "start"

\* options.skipNodeIds.
StartSkipped(n) ==
  /\ n \in inst.skipSet
  /\ attempts' = EndLast(Take(n, "ready"), n, "skipped", "none")
  /\ mem' = [Started EXCEPT !.skipped = @ \cup {n}]
  /\ Checkpoint(<<Snap("node.skipped", mem.blocked)>>)

\* resolveNodeInputs finds no artifact for a required input: the node is blocked
\* for good, with an error that recovery recognises unless an edge named a
\* declared output of the source.
StartUnresolved(n) ==
  /\ n \notin inst.skipSet /\ Missing(n) # {}
  /\ attempts' = EndLast(Take(n, "running"), n, "blocked",
                         IF n \in inst.named THEN "resolution" ELSE "slot")
  /\ mem' = [Started EXCEPT !.blocked = @ \cup {n}, !.nonResumable = @ \cup {n}]
  /\ Checkpoint(<<Snap("node.started", mem.blocked),
                  Snap("node.blocked", mem.blocked \cup {n})>>)

\* resolveRoleRuntime throws: a new attempt even if one is ready.
StartRoleFailure(n) ==
  /\ n \notin inst.skipSet /\ Missing(n) = {} /\ "role" \in inst.faults[n]
  /\ attempts' = EndLast(RecordAttempt(attempts, n, "running", mem.iteration),
                         n, "failed", "other")
  /\ mem' = [Started EXCEPT !.failed = @ \cup {n}]
  /\ Checkpoint(<<Snap("node.started", mem.blocked), Snap("node.failed", mem.blocked)>>)

\* The node is in flight from here on.
StartRunning(n) ==
  /\ n \notin inst.skipSet /\ Missing(n) = {}
  /\ attempts' = Take(n, "running")
  /\ mem' = [Started EXCEPT !.stage[n] = IF n \in Writers THEN "prepare" ELSE "leaf",
                            !.number[n] = Len(attempts'[n])]
  /\ Checkpoint(<<Snap("node.started", mem.blocked)>>)

StartNode(n) ==
  /\ pc = "start" /\ n = First(mem.batch)
  /\ StartSkipped(n) \/ StartUnresolved(n) \/ StartRoleFailure(n) \/ StartRunning(n)
  /\ AfterStart(n)
  /\ UNCHANGED <<inst, run, trans, verdicts, cur, left, seen>>

-----------------------------------------------------------------------------
(* A node in flight: worktree, patches, leaf, result.                      *)

\* The catch block.
Caught(n, m) ==
  /\ attempts' = EndAttempt(n, IF m.aborted THEN "cancelled" ELSE "failed", "other")
  /\ mem' = Leave([m EXCEPT !.failed = @ \cup {n}], n)
  /\ Checkpoint(<<Snap(IF m.aborted THEN "node.cancelled" ELSE "node.failed",
                       m.blocked)>>)

\* A policy halt before the leaf ran.
HaltedStart(n, operation) ==
  /\ attempts' = EndAttempt(n, "failed", "other")
  /\ mem' = Leave([mem EXCEPT !.halted = TRUE, !.failed = @ \cup {n}], n)
  /\ Checkpoint(<<Snap(operation, mem.blocked)>>)

\* The cancellation check before the leaf.
ToLeaf(n, m) ==
  IF m.aborted THEN Caught(n, m)
  ELSE mem' = [m EXCEPT !.stage[n] = "leaf"] /\ UNCHANGED <<attempts, ckpts>>

\* Variant for mutation: the change set of one predecessor is enough.
PredChangesOfOne(n) ==
  LET of == {q \in Preds(Edges, n) \cap Writers : mem.lineage[q] # 0}
  IN  IF of = {} THEN {} ELSE {Change(First(of), mem.lineage[First(of)])}

PredChanges(n) ==
  {Change(p, mem.lineage[p]) : p \in {q \in Preds(Edges, n) \cap Writers :
                                        mem.lineage[q] # 0}}

\* prepareBranch answers.  The patch of the previous iteration goes before the
\* change sets of the predecessors, in any node.
Prepared(n) ==
  /\ mem.stage[n] = "prepare"
  /\ \/ "prepare" \in inst.faults[n] /\ Caught(n, mem)
     \/ /\ mem.patch # NoChange
        /\ mem' = [mem EXCEPT !.stage[n] = "patch", !.tree[n] = {mem.patch}]
        /\ UNCHANGED <<attempts, ckpts>>
     \/ /\ mem.patch = NoChange /\ PredChanges(n) # {}
        /\ mem' = [mem EXCEPT !.stage[n] = "apply", !.tree[n] = PredChanges(n)]
        /\ UNCHANGED <<attempts, ckpts>>
     \/ /\ mem.patch = NoChange /\ Cardinality(PredChanges(n)) > 1
        /\ "merge" \in inst.faults[n]
        /\ HaltedStart(n, "merge.halted")
     \/ mem.patch = NoChange /\ PredChanges(n) = {} /\ ToLeaf(n, mem)

\* applyPatch answers for the previous iteration's patch: two nodes in flight may
\* both have read it before either clears it.
PatchApplied(n) ==
  /\ mem.stage[n] = "patch"
  /\ \/ "apply" \in inst.faults[n] /\ HaltedStart(n, "iteration.halted")
     \/ ToLeaf(n, [mem EXCEPT !.patch = NoChange])

\* applyPatch answers for the predecessors' change sets.
ChangesApplied(n) ==
  /\ mem.stage[n] = "apply"
  /\ ("apply" \in inst.faults[n] /\ Caught(n, mem)) \/ ToLeaf(n, mem)

\* The leaf answered, but the run was aborted meanwhile.
Aborted(n) ==
  /\ attempts' = EndAttempt(n, "cancelled", "other")
  /\ mem' = Leave(mem, n)
  /\ Checkpoint(<<Snap("node.cancelled", mem.blocked)>>)

Blocked(n, resumable, note) ==
  /\ attempts' = EndAttempt(n, "blocked", note)
  /\ mem' = Leave([mem EXCEPT
       !.blocked = @ \cup {n},
       !.resumable = IF resumable THEN @ \cup {n} ELSE @,
       !.nonResumable = IF resumable THEN @ ELSE @ \cup {n}], n)
  /\ Checkpoint(<<Snap("node.blocked", mem.blocked \cup {n})>>)

Cancelled(n) ==
  /\ attempts' = EndAttempt(n, "cancelled", "other")
  /\ mem' = Leave([mem EXCEPT !.cancelled = @ \cup {n}], n)
  /\ Checkpoint(<<Snap("node.cancelled", mem.blocked)>>)

Failed(n) ==
  /\ attempts' = EndAttempt(n, "failed", "other")
  /\ mem' = Leave([mem EXCEPT !.failed = @ \cup {n}], n)
  /\ Checkpoint(<<Snap("node.failed", mem.blocked)>>)

\* The leaf completed: its diff and its artifacts are written before its attempt
\* is, and nothing looks at the signal again.
Capture(n) ==
  /\ mem' = [mem EXCEPT !.stage[n] = "capture"]
  /\ UNCHANGED <<attempts, ckpts>>

\* executeRouterNode: some condition holds, or else the default edge is taken.
Selectable(r) == {e \in Out(Edges, r) : e.conditional \/ e.isDefault}

\* Every answer of a leaf but a router's selection.
RouterFails(n) ==
  n \in Routers /\ (~\E e \in Out(Edges, n) : e.isDefault) /\ Failed(n)

\* Variant for mutation: a second attempt counts as the user's approval.
GateAnsweredOnRetry(n) ==
  /\ n \in Gates
  /\ IF mem.number[n] = 1 THEN Blocked(n, TRUE, "wait") ELSE Capture(n)

GateAnswered(n) ==
  /\ n \in Gates
  /\ \/ verdicts[n].verdict = "none" /\ Blocked(n, TRUE, "wait")
     \/ verdicts[n].verdict = "approved" /\ Capture(n)
     \/ verdicts[n].verdict = "rejected" /\ Cancelled(n)

TaskAnswered(n) ==
  /\ n \notin Routers \cup Gates
  /\ \/ "completed" \in inst.results[n] /\ Capture(n)
     \/ "failed" \in inst.results[n] /\ Failed(n)
     \/ "blocked" \in inst.results[n] /\ Blocked(n, FALSE, "other")
     \/ "waiting" \in inst.results[n] /\ Blocked(n, TRUE, "wait")
     \/ "cancelled" \in inst.results[n] /\ Cancelled(n)

LeafAnswered(n) ==
  /\ mem.stage[n] = "leaf"
  /\ \/ mem.aborted /\ Aborted(n)
     \/ "throws" \in inst.results[n] /\ Caught(n, mem)
     \/ ~mem.aborted /\ (RouterFails(n) \/ GateAnswered(n) \/ TaskAnswered(n))

CaptureFailed(n) ==
  mem.stage[n] = "capture" /\ "capture" \in inst.faults[n] /\ Caught(n, mem)

Work(n) ==
  /\ pc = "work"
  /\ \/ Prepared(n) \/ PatchApplied(n) \/ ChangesApplied(n)
     \/ LeafAnswered(n) \/ CaptureFailed(n)
  /\ UNCHANGED <<inst, run, trans, verdicts, pc, cur, left, seen>>

\* What the executor holds once the attempt of n is recorded as completed.
WithCompletion(n) ==
  [mem EXCEPT !.completed = @ \cup {n},
              !.lineage[n] = mem.number[n],
              !.changes = IF n \in Writers THEN Change(n, mem.number[n]) ELSE @]
RecordCompletion(n, edge) ==
  /\ attempts' = [EndAttempt(n, "completed", "none") EXCEPT ![n][mem.number[n]].edge = edge]
  /\ Checkpoint(<<Snap("node.completed", mem.blocked)>>)
Follow(step, n, edge) ==
  pc' = step /\ cur' = [node |-> n, edge |-> edge, back |-> "work"]

\* A router's attempt completes with the edge it selected.
Route(n) ==
  /\ pc = "work" /\ n \in Routers /\ mem.stage[n] = "leaf" /\ ~mem.aborted
  /\ \E e \in Selectable(n) :
       /\ RecordCompletion(n, e.id)
       /\ IF e.isFeedback
          THEN mem' = WithCompletion(n) /\ Follow("feedback", n, e.id)
          ELSE /\ mem' = [WithCompletion(n) EXCEPT
                    !.dead = @ \cup {f.id : f \in Out(Forward(Edges), n) \ {e}}]
               /\ Follow("prune", n, e.id)
  /\ UNCHANGED <<inst, run, trans, verdicts, left, seen>>

\* Any other node's attempt completes; a feedback edge it has is taken if its
\* condition holds, and always if it has none.
Complete(n) ==
  /\ pc = "work" /\ mem.stage[n] = "capture"
  /\ RecordCompletion(n, NoEdge)
  /\ \/ /\ Out(Feedback(Edges), n) # {}
        /\ mem' = WithCompletion(n)
        /\ Follow("feedback", n, FeedbackEdge(n).id)
     \/ /\ \A e \in Out(Feedback(Edges), n) : e.conditional
        /\ mem' = Leave(WithCompletion(n), n)
        /\ UNCHANGED <<pc, cur>>
  /\ UNCHANGED <<inst, run, trans, verdicts, left, seen>>

-----------------------------------------------------------------------------
(* pruneUnselectedBranches, one node at a time.                            *)

Prunable ==
  {m \in Nodes \ (mem.completed \cup mem.skipped \cup mem.failed \cup mem.blocked
                    \cup InFlight) :
     /\ In(Edges, m) # {}
     /\ \A e \in In(Edges, m) : e.id \in mem.dead \/ e.source \in mem.skipped}

\* recordNodeAttempt without an iteration: the row says 1.
PruneNode ==
  /\ pc = "prune" /\ Prunable # {}
  /\ LET m == First(Prunable)
     IN  /\ attempts' = EndLast(RecordAttempt(attempts, m, "ready", 1),
                                m, "skipped", "none")
         /\ mem' = [mem EXCEPT !.skipped = @ \cup {m}]
  /\ Checkpoint(<<Snap("node.skipped", mem.blocked)>>)
  /\ UNCHANGED <<inst, run, trans, verdicts, pc, cur, left, seen>>

PruneEnd ==
  /\ pc = "prune" /\ Prunable = {}
  /\ pc' = cur.back
  /\ mem' = Leave(mem, cur.node)
  /\ cur' = NoCur
  /\ UNCHANGED <<durable, left, seen>>

-----------------------------------------------------------------------------
(* handleFeedbackTransition.                                               *)

SourceAttempt ==
  IF cur.back = "work" THEN mem.number[cur.node] ELSE Len(attempts[cur.node])
Target == (CHOOSE e \in Edges : e.id = cur.edge).target

\* Variant for mutation: off by one, the last fingerprint is not looked at.
RepeatsBeforeLast(history, p) ==
  Cardinality({i \in 1..(Len(history) - 1) :
                 \A j \in i..(Len(history) - 1) : history[j] = p})

\* getConsecutiveRepeatCount.
Repeats(history, p) ==
  Cardinality({i \in DOMAIN history : \A j \in i..Len(history) : history[j] = p})

EndFeedback(m) ==
  /\ mem' = IF cur.back = "work" THEN Leave(m, cur.node) ELSE m
  /\ pc' = cur.back
  /\ cur' = NoCur

HaltLoop ==
  /\ EndFeedback([mem EXCEPT !.halted = TRUE])
  /\ Checkpoint(<<Snap("iteration.halted", mem.blocked)>>)
  /\ UNCHANGED <<run, attempts, trans, seen>>

OverLimit ==
  \/ mem.iteration + 1 > inst.maxIterations
  \/ NextAttempt(attempts, Target) > inst.maxNodeAttempts

\* Variant for mutation: only the two ends of the loop start over.
ResetEnds(m) ==
  [m EXCEPT !.completed = @ \ {cur.node, Target},
            !.skipped = @ \ Downstream(Nodes, Edges, Target)]

\* The executor's state once the loop is open again: its body starts over, and
\* whatever lies downstream of its target is no longer skipped.
Reset(m) ==
  LET body == LoopBody(Nodes, Edges, cur.node, Target)
  IN  [m EXCEPT !.completed = @ \ body,
                !.skipped = @ \ (body \cup Downstream(Nodes, Edges, Target)),
                !.blocked = @ \ body,
                !.failed = @ \ body,
                !.dead = @ \ {e.id : e \in {f \in Edges : f.source \in body}}]

\* The next iteration begins: the last change set becomes the patch it starts
\* from.
NextIteration(p) ==
  EndFeedback(Reset([mem EXCEPT !.iteration = @ + 1, !.patch = mem.changes,
                                !.changes = NoChange, !.prints = Append(@, p)]))

\* Variant for mutation: the target's attempt is left to its start.
AdvanceWithoutAttempt(p) ==
  /\ attempts[cur.node][SourceAttempt].iteration = mem.iteration
  /\ run' = [run EXCEPT !.iteration = mem.iteration + 1]
  /\ trans' = trans \cup {Transition(cur.node, SourceAttempt, Target,
                                     NextAttempt(attempts, Target), mem.iteration)}
  /\ NextIteration(p)
  /\ Checkpoint(<<Snap("iteration.advanced", mem.blocked)>>)
  /\ seen' = [seen EXCEPT !.prints = Append(@, p)]
  /\ UNCHANGED attempts

Advance(p) ==
  /\ attempts[cur.node][SourceAttempt].iteration = mem.iteration
  /\ run' = [run EXCEPT !.iteration = mem.iteration + 1]
  /\ trans' = trans \cup {Transition(cur.node, SourceAttempt, Target,
                                     NextAttempt(attempts, Target), mem.iteration)}
  /\ attempts' = RecordAttempt(attempts, Target, "ready", mem.iteration + 1)
  /\ NextIteration(p)
  /\ Checkpoint(<<Snap("iteration.advanced", mem.blocked)>>)
  /\ seen' = [seen EXCEPT !.prints = Append(@, p)]

\* The source attempt belongs to an iteration that another loop has left: the
\* store refuses, the catch block cannot overwrite a completed attempt, and
\* run() rejects.
Conflict(p) ==
  /\ attempts[cur.node][SourceAttempt].iteration # mem.iteration
  /\ EndFeedback([mem EXCEPT !.prints = Append(@, p),
                             !.failed = @ \cup {cur.node}, !.rejected = TRUE])
  /\ UNCHANGED <<run, attempts, trans, ckpts, seen>>

FeedbackStep ==
  /\ pc = "feedback"
  /\ \/ OverLimit /\ HaltLoop
     \/ /\ ~OverLimit
        /\ \E p \in inst.prints :
             \/ Repeats(mem.prints, p) >= inst.maxRepeatedStates /\ HaltLoop
             \/ Repeats(mem.prints, p) < inst.maxRepeatedStates /\ (Advance(p) \/ Conflict(p))
  /\ UNCHANGED <<inst, verdicts, left>>

-----------------------------------------------------------------------------
(* The end of a batch, of run(), of the process.                           *)

\* Promise.all settles.  (A rejection is reported at once; the nodes still in
\* flight go on all the same, and the model reports it when they are done.)
BatchDone ==
  /\ pc = "work" /\ InFlight = {}
  /\ IF mem.rejected THEN Return("rejected")
     ELSE pc' = "sched" /\ UNCHANGED <<mem, cur, seen>>
  /\ UNCHANGED <<durable, left>>

Abort ==
  /\ pc \in {"hydrated", "work"} /\ ~mem.aborted /\ left.aborts > 0
  /\ mem' = [mem EXCEPT !.aborted = TRUE]
  /\ left' = [left EXCEPT !.aborts = @ - 1]
  /\ UNCHANGED <<durable, pc, cur, seen>>

\* Variant for mutation: a waiting node does not keep the run from completing.
OutcomeWithoutPause ==
  IF mem.aborted \/ mem.cancelled # {} THEN "cancelled"
  ELSE IF mem.halted THEN "halted"
  ELSE IF mem.failed # {} \/ mem.nonResumable # {} THEN "failed"
  ELSE "completed"

\* handleCancellation finds nothing in flight: every node of the batch has settled, its
\* worktree is gone and its attempt is no longer running.
HandleCancellation == Finish("cancelled")

\* The locked precedence of the final status.
Outcome ==
  IF mem.aborted \/ mem.cancelled # {} THEN "cancelled"
  ELSE IF mem.halted THEN "halted"
  ELSE IF mem.failed # {} \/ mem.nonResumable # {} THEN "failed"
  ELSE IF mem.resumable # {} THEN "running"
  ELSE "completed"

Ending ==
  /\ pc = "ending"
  /\ Return(Outcome)
  /\ CASE Outcome = "cancelled"    -> HandleCancellation
       [] Outcome = "running"      -> UNCHANGED run
       [] OTHER                    -> Finish(Outcome)
  /\ UNCHANGED <<inst, attempts, trans, ckpts, verdicts, left>>

Crash ==
  /\ pc # "starting" /\ left.crashes > 0
  /\ pc' = "starting"
  /\ mem' = EmptyMem
  /\ cur' = NoCur
  /\ left' = [left EXCEPT !.crashes = @ - 1]
  /\ seen' = [seen EXCEPT !.crashed = InFlight]
  /\ UNCHANGED durable

-----------------------------------------------------------------------------
(* The host: recovery at the next start, and what a user may do.           *)

\* findInterruptedGraphRuns.
Interrupted == run.status = "running" /\ ~run.finished

CurrentBlocked ==
  {n \in Nodes : LatestStatus(attempts, n) = "blocked"
                   /\ Latest(attempts, n).iteration = run.iteration}

\* The attempts of all time are searched for running, failed and cancelled ones.
NoneIn(statuses) ==
  \A n \in Nodes : \A k \in DOMAIN attempts[n] : attempts[n][k].status \notin statuses
PauseOperations == {"node.blocked", "node.completed", "node.skipped"}

\* Variants for mutation of LegitimatePause, each without one of its conditions.
PauseWhateverRuns(checkpoint) ==
  /\ \A n \in CurrentBlocked : Latest(attempts, n).note # "slot"
  /\ CurrentBlocked # {} /\ CurrentBlocked = checkpoint.blocked
  /\ checkpoint.operation \in PauseOperations
PauseWithoutBlock(checkpoint) ==
  /\ NoneIn({"running", "failed", "cancelled"})
  /\ CurrentBlocked = checkpoint.blocked
  /\ checkpoint.operation \in PauseOperations

\* isLegitimatelyPaused, given the checkpoint that counts as the latest.
LegitimatePause(checkpoint) ==
  /\ \E n \in Nodes : attempts[n] # << >>
  /\ NoneIn({"running", "failed", "cancelled"})
  /\ \A n \in CurrentBlocked : Latest(attempts, n).note # "slot"
  /\ CurrentBlocked # {} /\ CurrentBlocked = checkpoint.blocked
  /\ checkpoint.operation \in PauseOperations

\* Variant for mutation: nothing is marked.
FailNothing == attempts

FailRunning ==
  [n \in NodeIds |-> [k \in DOMAIN attempts[n] |->
     IF attempts[n][k].status = "running"
     THEN [attempts[n][k] EXCEPT !.status = "failed", !.note = "other"]
     ELSE attempts[n][k]]]

Recover ==
  /\ pc = "starting"
  /\ pc' = "idle"
  /\ \/ /\ ~Interrupted \/ \E c \in ckpts : LegitimatePause(c)
        /\ UNCHANGED <<run, attempts>>
     \/ /\ Interrupted
        /\ ckpts = {} \/ \E c \in ckpts : ~LegitimatePause(c)
        /\ attempts' = FailRunning
        /\ Finish("failed")
  /\ UNCHANGED <<inst, trans, ckpts, verdicts, mem, cur, left, seen>>

\* skipNode looks at the rows only: not at the run, not at what is in flight.
SkipNode(n) ==
  /\ pc \in {"idle", "work"} /\ run # NoRun /\ left.skips > 0
  /\ LatestStatus(attempts, n) \in {"pending", "ready"}
  /\ \A p \in Preds(Edges, n) : LatestStatus(attempts, p) \in {"completed", "skipped"}
  /\ attempts' = EndLast(RecordAttempt(attempts, n, "ready", 1), n, "skipped", "none")
  /\ Checkpoint(<<Snap("node.skipped",
                       {m \in Nodes : LatestStatus(attempts, m) = "blocked"})>>)
  /\ left' = [left EXCEPT !.skips = @ - 1]
  /\ UNCHANGED <<inst, run, trans, verdicts, pc, mem, cur, seen>>

\* DecisionService.recordGateDecision and the store's: the verdict is locked for
\* the node of this run, whatever attempt it answered.
DecideGate(g) ==
  /\ pc \in {"idle", "work"}
  /\ run.status \notin {"none", "completed", "failed", "cancelled"}
  /\ LatestStatus(attempts, g) = "blocked"
  /\ verdicts[g] = NoVerdict
  /\ \E verdict \in {"approved", "rejected"} :
       verdicts' = [verdicts EXCEPT ![g] =
                      [verdict |-> verdict, attempt |-> Len(attempts[g])]]
  /\ UNCHANGED <<inst, run, attempts, trans, ckpts, pc, mem, cur, left, seen>>

-----------------------------------------------------------------------------
Executor ==
  \/ CheckPending \/ Sched \/ PruneNode \/ PruneEnd \/ FeedbackStep
  \/ BatchDone \/ Ending
  \/ \E n \in Nodes : StartNode(n)

InNode(n) == Work(n) \/ Route(n) \/ Complete(n)

Host ==
  \/ StartRun \/ Resume \/ Abort \/ Crash \/ Recover
  \/ \E n \in Nodes : RerunNode(n) \/ SkipNode(n)
  \/ \E g \in Gates : DecideGate(g)

Next == Executor \/ Host \/ \E n \in Nodes : InNode(n)

Spec == Init /\ [][Next]_vars

\* The thread does not stop by itself, what a node awaits settles (the runner
\* bounds each of its processes), and a new process begins with recover().
Fairness ==
  /\ WF_vars(Executor)
  /\ \A n \in NodeIds : WF_vars(InNode(n))
  /\ WF_vars(Recover)

FairSpec == Spec /\ Fairness

-----------------------------------------------------------------------------
(* Properties.                                                             *)

AttemptRow == [status : AttemptStatuses, iteration : Nat \ {0}, note : Notes,
               edge : EdgeIds \cup {NoEdge}]
ChangeSets == Nodes \X (Nat \ {0})
NodeSets   == {"completed", "failed", "blocked", "resumable", "nonResumable",
               "cancelled", "skipped", "batch"}

\* The shape of the rows and of the executor's variables, and its sets are sets
\* of nodes of the template.
TypeOK ==
  /\ run = NoRun \/ run \in [status : RunStatuses, iteration : Nat \ {0},
                             finished : BOOLEAN]
  /\ \A n \in Nodes : \A k \in DOMAIN attempts[n] : attempts[n][k] \in AttemptRow
  /\ \A t \in trans : t.source \in Nodes /\ t.target \in Nodes /\ t.to = t.from + 1
  /\ \A c \in ckpts : c.blocked \subseteq Nodes
  /\ verdicts \in [Gates -> [verdict : {"none", "approved", "rejected"}, attempt : Nat]]
  /\ pc \in {"idle", "hydrated", "sched", "start", "work", "prune", "feedback",
             "ending", "starting"}
  /\ \A f \in NodeSets : mem[f] \subseteq Nodes
  /\ mem.dead \subseteq EdgeIds
  /\ mem.stage \in [NodeIds -> {"none", "prepare", "patch", "apply", "leaf", "capture"}]
  /\ \A n \in Nodes : mem.tree[n] \subseteq ChangeSets
  /\ mem.patch \in ChangeSets \cup {NoChange} /\ mem.changes \in ChangeSets \cup {NoChange}

\* The rows the executor leaves behind are a history as RunHistory promises it,
\* through loops, reruns, skips, crashes and recoveries: iterations one by one,
\* nothing taken back, an attempt that ended never written again.
History == INSTANCE RunHistory WITH
  Nodes <- NodeIds,
  run <- [status |-> run.status, iteration |-> run.iteration]
ImplementsHistory == History!Spec

\* The result "completed" is given only when, by the rows, every node has
\* completed or been skipped, although it is decided from the executor's sets.
CompletedRunIsDone ==
  pc = "idle" /\ run.status = "completed"
    => \A n \in Nodes : LatestStatus(attempts, n) \in {"completed", "skipped"}

Entering(n) == mem.stage[n] = "none" /\ mem'.stage[n] # "none"

\* An edge that the rows show as taken: its source completed and, if it is a
\* router, selected it.
Live(e) ==
  /\ LatestStatus(attempts, e.source) = "completed"
  /\ e.source \in Routers => Latest(attempts, e.source).edge = e.id

\* A node starts only when the rows say that all its forward predecessors are
\* done, those that loop with it in the very iteration it starts in, and only if
\* it has no incoming edge or a live one: what routers did not select does not run.
StartsWhenDue ==
  [][\A n \in Nodes : Entering(n) =>
       /\ \A p \in Preds(Edges, n) :
            /\ LatestStatus(attempts, p) \in {"completed", "skipped"}
            /\ n \in ActiveBody /\ p \in ActiveBody /\ LatestStatus(attempts, p) = "completed"
                 => Latest(attempts, p).iteration = run.iteration
       /\ In(Edges, n) = {} \/ \E e \in In(Edges, n) : Live(e)]_vars

\* What a node reads from a predecessor is the output of its latest attempt.
InputsAreCurrent ==
  \A n \in Nodes : mem.stage[n] = "leaf" =>
    \A p \in Preds(Edges, n) : mem.lineage[p] # 0 =>
      /\ mem.lineage[p] = Len(attempts[p])
      /\ LatestStatus(attempts, p) = "completed"

\* When a run completes after a rerun, the node and everything downstream of it
\* has a new attempt: no result that the rerun invalidated is left in use.
RerunReachesDownstream ==
  pc = "idle" /\ run.status = "completed"
    => \A s \in seen.stale : Len(attempts[s[1]]) > s[2]

LoopTargets == {e.target : e \in Feedback(Edges)}

\* A node that no feedback edge leads to works on exactly what its predecessors
\* changed, as the rows know them: the patch of the previous iteration is for
\* loop targets.
WorktreeHoldsInputs ==
  \A n \in Writers \ LoopTargets :
    mem.stage[n] = "leaf" =>
      mem.tree[n] = {Change(p, Len(attempts[p])) :
                       p \in {q \in Preds(Edges, n) \cap Writers :
                                LatestStatus(attempts, q) = "completed"}}

\* A run that nobody executes is "running" only while some node of it waits,
\* blocked, for someone: no run is left behind that nothing will ever finish.
NoOrphanedRun ==
  pc = "idle" /\ run.status = "running"
    => \E n \in Nodes : LatestStatus(attempts, n) = "blocked"

\* A restart tells a pause from a crash: a run that run() reported as paused is
\* still running after it, and one that lost a node in flight is not.
RecoveryTellsPausesFromCrashes ==
  [][pc = "starting" /\ pc' = "idle" =>
       /\ seen.answer = "running" => run'.status = "running"
       /\ run.status = "running" /\ seen.crashed # {} => run'.status = "failed"]_vars

\* A gate's attempt completes only after the user approved that gate while an
\* earlier attempt of it was blocked; a rejection is never overridden.
GatesNeedApproval ==
  \A g \in Gates : \A k \in DOMAIN attempts[g] :
    attempts[g][k].status = "completed" =>
      /\ verdicts[g].verdict = "approved"
      /\ verdicts[g].attempt \in 1..(k - 1)
      /\ attempts[g][verdicts[g].attempt].status = "blocked"

\* Counting over the whole life of the run, no more than maxRepeatedStates
\* consecutive iterations had one fingerprint.
NoProgressIsNoticed ==
  \A i \in DOMAIN seen.prints :
    i > inst.maxRepeatedStates =>
      \E j \in (i - inst.maxRepeatedStates)..i : seen.prints[j] # seen.prints[i]

\* Every call of run() comes to an end, loops included; and no attempt stays
\* "running" for ever: its node ends it, or the recovery after a crash does.
RunsSettle ==
  /\ pc # "idle" ~> pc = "idle"
  /\ \A n \in NodeIds : (LatestStatus(attempts, n) = "running")
                           ~> (LatestStatus(attempts, n) # "running")

=============================================================================
