# Verification of Forge

Forge runs software-engineering work whose steps are coding agents, shell commands
and user decisions. It records everything in SQLite, hosts the agents as processes,
measures what they did with git and commands of its own, and must come back from a
crash, a cancel or an unanswered question without losing or inventing work. This
directory holds TLA+ models of that: the two **workflow engines** (graph runs with
loops, routers and gates; the linear plan–approve–implement–verify–review engine),
**whoever does the work** below them (sessions, command lines, Forge's own agent,
commands, verdicts), the **services** they share (processes, decisions, the event
log, merges, git), and the **pages** on which a user asks for work and sees it done.
TLC checks all of it on small instances; TLAPS proves, for every instance, the
properties of the graph engine's row store and of its executor, of the linear
engine's rows and runs, of the process manager, of sessions (the contract the
executor relies on), of commands and direct tasks, of decisions and of merges.

Paths below are relative to `src/src/` of the repository; `PROJECT.json` maps
every definition to the lines it models, lists every hazard at its line with the
properties that are about it, and gives, for each property of each passing run, a
plausible slip in the code that the run would catch.

Contents: [inventory](#inventory) · [modules](#modules-and-the-code) ·
[concurrency](#how-the-codes-concurrency-is-modelled) ·
[runs](#runs) · [fairness](#fairness-and-the-environment) · [proofs](#proofs) ·
[where code and claims differ](#where-code-and-claims-differ) ·
[not modelled](#not-modelled) · [plan](#plan)

## Inventory

A main process with one JavaScript thread and one SQLite connection, a renderer
process, and child processes.

| component | state it keeps | operations | what makes it correct |
|---|---|---|---|
| `WorkflowStore`, graph half (`main/db/workflowStore.ts`, `projections.ts`) | graph runs, node attempts, iteration transitions, checkpoints | `startGraphRun`, `updateGraphRunStatus`, `recordNodeAttempt`, `updateNodeAttempt`, `advanceLoopIteration`, `writeGraphCheckpoint` | attempts that ended are immutable; iterations form one chain; a source attempt loops once; an advance is atomic and idempotent |
| `GraphExecutor` (`main/workflows/graphExecutor.ts`) | in memory: sets of completed, failed, blocked, skipped nodes, dead edges, lineage, patches, artifacts, fingerprints; everything else in rows | `run` (also resume), `rerunNode`, `skipNode`, `recover`, abort | order of dependencies, gates, router selection, loop bounds, current inputs, pauses that survive a restart, no run left behind |
| graph algorithms, templates (`workflowGraph.ts`, `templateCompiler.ts`), `DagExecutor` | – | `getReadyNodes`, `getLoopBody`, `validateWorkflowGraph`, `compileLinearTemplateToGraph`, `run` | exactly the graphs that can be run are let through |
| linear state machine (`shared/domain/transitions.ts`, `WorkflowStore.apply`) | one row per workflow | `transition`, `apply` | terminal states are final, iterations are capped, every row can be read back |
| `WorkflowService` + `Orchestrator` | executions in flight, step rows | `startWorkflow`, `cancel`, `answerQuestion`, `approveAndStartImplementation`, `executeWorkflow` → `Orchestrator.run` | done means verified and reviewed; waits have a question; answers wake the right workflow; executions end |
| event log and projections (`eventStore.ts`, `projections.ts`, the other stores) | events by number, tables derived from them | append and apply, rebuild, replay | the tables are what the log says, however often it is applied |
| questions, decisions (`questionStore.ts`, `decisionStore.ts`, `DecisionsPage.tsx`) | questions and answers; decisions with a lifecycle; gate verdicts | raise, answer, promote, propose, approve, lock, supersede, `recordGate` | a locked decision binds until a locked one replaces it; a verdict answers its gate |
| leaf runner, exchange, runtimes (`leafRunner.ts`, `main/runtimes/*`) | sessions, turns, event queues, hook logs, screens | `execute`, `exchange`, `start`, `send`, `events`, `cancel`, `dispose` | each dispatch settles with one outcome that is no better than what happened; the answer belongs to the prompt; nothing is left running |
| Forge's own agent, chat (`agentLoop.ts`, `agentTurn.ts`, `tools.ts`, `chatStream.ts`) | a conversation, the workspace's files | a turn with its rounds of tools; reading a streamed answer | tools stay within the packet; turns end; nothing of an answer is lost or shown twice |
| policy (`policy.ts`, `limitRules.ts`, `rolePermission.ts`, `policyEngine.ts`, `contextEngine.ts`, `bindings.ts`, `roleResolution.ts`) | – | rules in effect, limits, who runs a step with which permissions, the packet, the assessment of a report | what is in effect only narrows; what is dropped is told |
| process manager, orphans (`main/process/*`) | running and queued processes, a file of pids | `spawn`, `cancel`, timeouts, `killAll`, `reap` | slots are shared, one outcome per process, nothing is left running |
| evidence (`main/evidence/*`, `completion.ts`, `reconcile.ts`), task runner (`main/core/taskRunner.ts`) | rows of runs and steps | `runCommand`, `verifyStep`, `executeDirectTask` | a command's result is that of one that is over; a claim never outweighs evidence |
| change sets, merging, git (`changeSetMerger.ts`, `gitService.ts`, `worktreeService.ts`, `changeSetService.ts`) | worktrees, patches | snapshot, diff, capture, merge, apply | both branches' work is kept; a diff is what happened to the files |
| artifacts (`artifactService.ts`, `artifactStore.ts`) | rows and files | match, write, roll back, recover, bind | what a consumer reads is what a producer's attempt wrote |
| terminals (`sessionRegistry.ts`, `terminalService.ts`, `RealTerminal.tsx`) | published processes, buffers, panes | publish, retire, attach, spawn, kill | a pane shows its process from the first line on |
| pages (`renderer/src/app/*`) | threads, the workflow shown, the model, the project, the diff | what the user does, and the replies and events that come back | what is shown is true; buttons do not stay disabled |
| the rest | | CLI, settings of agents, audit reports, health, logs, migrations | see [not modelled](#not-modelled) |

**Who calls whom.** Pages call the main process over IPC and hear events from it.
IPC handlers call `WorkflowService`, `DecisionService`, `ProjectService` and the
like; `WorkflowService` runs one `Orchestrator` (linear) or `GraphExecutor` (graph)
per execution in the background and never awaits it. Both hand single nodes to
agents (`LeafRunner` → `exchange` → a runtime → `ProcessManager`), to commands
(`verifyStep` → `runCommand`) or to the user, work in worktrees, measure with git,
and write rows only through stores, each call one SQLite transaction that appends
events and applies their projections. They share nothing else: an execution and a
user's call meet in the rows, and in the abort signal.

**What is hard.** (1) Everything between two `await`s is atomic for other callers
but not for process death: several transactions in a row are several crash points.
(2) Results of agents arrive after the user has cancelled, answered or skipped.
(3) The executor decides from in-memory sets that a resume rebuilds from rows.
(4) Loops reuse nodes, so every "has it completed" is really "in this iteration".
(5) A crash and a pause look alike in the rows. (6) Methods of the store check
before they open a transaction. (7) The end of an agent's turn is read off a log
file, a screen or a pipe, each of which may be late, cut or silent, beside a
timeout and an abort. (8) A process that was told to die has not died yet. (9) git
reads a worktree with several commands at different moments. (10) Pages hold copies
that replies to older questions may overwrite.

## Modules and the code

| module | models | composition |
|---|---|---|
| `GraphTables` | the rows of a graph run and the projections that insert and update them | used by the graph modules |
| `RunHistory` | **abstract**: what a reader of the rows may rely on – iterations one by one, each opened by one completed attempt; nothing taken back; ended attempts final | implemented by `GraphStore` and `GraphExecutor` |
| `GraphStore` | the store's methods, called by several connections, check and commit as separate steps where the code checks before its transaction | `INSTANCE RunHistory` |
| `WorkflowGraph`, `TemplateGraph` | loop bodies, ready nodes, searches; `validateWorkflowGraph`, the compiled linear template | used by both executors |
| `GraphExecutor` | `run`, resume, `rerunNode`, `skipNode`, `recover`, abort, crash; the store's methods as it calls them | `INSTANCE RunHistory` |
| `ArtifactFlow` | outputs matched, artifacts written and rolled back one by one, recovered after a death, bound to slots | |
| `DagExecutor` | the executor without persistence, on every small graph | over `TemplateGraph` |
| `WorkflowMachine`, `WorkflowService` | the transition table and the row `apply` leaves; the user's calls, `executeWorkflow` and the turns of `Orchestrator.run`, questions, worktrees, process death | |
| `LeafContract` | **abstract**: what the executor relies on when it hands a node to a leaf | implemented by `AgentSession` |
| `AgentSession` | `LeafRunner.execute`, `exchange` with its one correction, sessions of the hosted Claude CLI, the generic CLI and the native agent, abort, dispose, audit, capture | `INSTANCE LeafContract` |
| `CliTurn` | Claude and Antigravity command lines on pipes and the mock runtime: process, lines, events, and the turn that `collectTurn` makes of them | |
| `HostedScreen` | reading a hosted CLI off its screen: prompt, typing, end of turn, dialogs | |
| `AgentLoop` | a turn of Forge's own agent, with its tools | |
| `ChatStream` | a streamed answer cut anywhere, with the splitter of reasoning | |
| `Policies`, `ContextPacket` | rules, limits, permissions of a step, assessment of its report; ranking and budget of the packet | `EXTENDS` |
| `ProcessManager` | `spawn`, queue, timeouts, escalation, `killAll`, pid file, `reap` at the next start | |
| `CommandRunner`, `Evidence`, `DirectTask` | one command; verdicts as functions of what was measured; `executeDirectTask` and a verification node over both | `EXTENDS` |
| `ChangeMerge`, `GitReading` | capture, merge and application of two branches; what the commands of a snapshot or a diff say while files change | |
| `DecisionLog` | decision rows, their page, the channel between them, a gate | |
| `ReadModels` | the event log and the tables derived from it, rebuild and replay | |
| `Conversation`, `WorkflowPage`, `TemplateStudio`, `Terminals`, `ModelChoice`, `ProjectPicker`, `ChangesView` | a page each, with the part of the main process it talks to and what is under way between them | |
| `MC*` | templates, outcomes, symmetry and bounds of the instances; `MCServices` and `MCWork` put components that share no state side by side | |
| `GraphStore_proofs`, `GraphExecutor_proofs`, `WorkflowService_proofs`, `ProcessesAndReadings_proofs`, `DagExecutor_proofs` | theorems and proofs | each `EXTENDS` its module |
| `RecordsAndMerges_proofs` | likewise | of `DecisionLog`, `ChangeMerge` and `ReadModels` |
| `SessionsAndTasks_proofs` | likewise | of `AgentSession`, and of `DirectTask` with `CommandRunner` and `Evidence` |
| `AgentsAndArtifacts_proofs` | likewise | of `AgentLoop`, of `Policies` with `ContextPacket`, and of `ArtifactFlow` |

**GraphExecutor.** Variables `run`, `attempts`, `trans`, `ckpts`, `verdicts` are
rows; `mem` is the record of the local variables of `run()` under names close to
theirs; `pc` and `cur` say where the thread is; `left` holds the bounds; `seen` is
history for properties. `StartRun`/`Resume`/`RerunNode` are the three ways into
`run()` with hydration; `CheckPending` is the search for a source that completed
without taking its feedback edge; `Sched` picks a batch or leaves the loop;
`StartNode` is the synchronous head of a node of the batch, `Work` its awaits
(worktree, patch, leaf, capture), `Route` a router, `Complete` the completion
branch; `PruneNode`/`PruneEnd` are `pruneUnselectedBranches`, `FeedbackStep` is
`handleFeedbackTransition`, `BatchDone` what follows `Promise.all`, `Ending` the
ladder cancelled / halted / failed / paused / completed. `SkipNode`, `DecideGate`
and `Abort` come from outside at any await. `Crash` empties `mem`; the next
process begins with `Recover`.

**WorkflowService.** `rows`, `steps`, `asked`, `locked`, `trees` are on disk;
`exec` and `disposing` die with the process. `exec[w].pc` is where the execution
of `w` is: `spawn`, `boot` and `prepare` are the awaits of `executeWorkflow`,
`loop` the top of the orchestrator's loop, `compile`, `agent`, `assess`, `verify`
the awaits of a step, `asked` and `correct` points between two transactions of one
synchronous stretch. Each action is one stretch up to the next transaction: e.g.
`Ask` records the question and `RaiseQuestion` moves the workflow, so that a crash
can fall between them. `apply` throws on an illegal trigger, and the throw ends the
execution; the model does the same everywhere, which is how a cancelled workflow
stops its own execution.

**AgentSession.** `pc` is where `execute()` is (`called`, `starting`, `turn`,
`disposing`, …), `step` the await within a turn. The child process is `child`, with
`killing` between a kill and the exit: `ProcessManager` is represented by its promise
that the first `cancel()` waits for the exit and later ones return at once. `unread`
is the line in the hook log that nobody has read, `noticed` whether the watch has
fired; `claims` and `writes` are what the contract is about.

**Pages.** What is under way between a page and the main process is a sequence
(`toMain`, `toPage`) where the channel keeps order, and a list of which any member
may come next where handlers await git. A reply is computed when its handler runs,
from what the main process holds then.

What is abstracted: texts, prompts and reports (an outcome is a member of a small
set; a screen is whether it has a caret, shows work or a dialog; a file is its
content's number or how often a text occurs in it), fingerprints (equal prints stand
for equal diffs), edge conditions (a free choice of the router or feedback step),
timestamps (`sameMillisecond` says whether two checkpoints may tie), globs and
command patterns (classes). Callbacks that are options (`approve`, `verify`,
`reviewStep`) are free. Every writer of a graph captures a change set.

## How the code's concurrency is modelled

* One action per synchronous stretch, cut at every transaction because process
  death may fall there. While a stretch is under way (`pc` of `GraphExecutor`
  other than `work`/`idle`; `SyncPoints` of `WorkflowService`; `ProcessManager`
  while a released waiter has not continued) nothing but the stretch itself and a
  crash is enabled. That is the whole content of "JavaScript is single-threaded".
* At an await, any other execution, any node in flight and any call of the user
  may come first.
* Process death keeps rows, files, worktrees and child processes and loses
  everything else. `CrashInAnswer` is a death between the two transactions of
  `answerQuestion`; `ProcessManager` goes through a death and the next start.
* `GraphStore` alone has several connections; there, the check half and the commit
  half of `recordNodeAttempt`, `updateNodeAttempt` and of the preflight of
  `advanceLoopIteration` interleave.
* Operating system, git, the renderer and agents take steps of their own at any
  time: an exit, a line, a painted screen, an edit.

## Runs

All runs set `CHECK_DEADLOCK FALSE`: a run that waits for its user, or whose
bounds are used up, has legitimately nothing to do.

| run | instance | shows |
|---|---|---|
| `store_single` | 1 connection, 2 nodes, 2 attempts each, 3 iterations (183 k states) | transitions refer to rows that are there, `GraphStore` implements `RunHistory` (final outcomes included) |
| `store_race` | 2 connections, 2 nodes, 2 iterations (3.6 M) | chain of iterations, one transition per source and atomic advances survive the races of the check halves; an outcome may be overwritten only by a call that began before it was written |
| `exec_pause` | two writers joined beside a user gate; every result and fault, 3 calls of `run()`, 2 crashes, 1 abort | gates complete only by a verdict, recovery tells pauses from crashes, no orphaned run, the join's worktree holds its inputs |
| `exec_templates` | four templates: a diamond with reruns and skips; a router with a gate on one branch; a loop closed by a router with crash, abort and resumes; two loops side by side | completed means done by the rows, nodes start only when due, consumers read latest outputs, a rerun reaches all dependents, loops without progress stop, `RunHistory` is implemented, every `run()` returns and attempts settle |
| `flow_one` | 1 linear workflow, every outcome, cap of 2 iterations, 2 crashes, fairness | readable rows, final terminals, done is verified and reviewed, corrections and spinning bounded, waits have a question, executions end and clean up |
| `flow_two` | 2 workflows of one project, one with every outcome, 1 crash (771 k) | only the answer to its own question wakes a workflow |
| `services` | `ProcessManager`, `DecisionLog`, `ChangeMerge`, `DagExecutor` and `ReadModels`, one per behaviour (232 k) | see below |
| `work` | sessions, tasks, turns, policies, artifacts, files, wires and pages, one per behaviour (231 k) | see below |
| `gap_two_loops`, `gap_resume`, `gap_reclaim`, `gap_direct` | | expected violations, see below |

`services` and `work` hold components that share no state. A behaviour is a
behaviour of one of them while the others rest (`No…` in the MC modules), so the
states add up instead of multiplying, and each property is about whichever
component is running. What they show:

| property | components | claim |
|---|---|---|
| `ProcessesAreAccounted` | `ProcessManager` | the cap holds, no freed slot is lost, an outcome means that the process is gone and gives the reason that came first |
| `CallersAreServed` | `ProcessManager`, `DagExecutor` | every caller of `spawn()` gets an outcome or an error, every run of a dag ends |
| `OrphansAreFound` | `ProcessManager` | what outlives a dead Forge is in the pid file when the next start reads it |
| `LockedIsBinding` | `DecisionLog` | whatever is clicked on stale cards: locked decisions are replaced by locked ones only, rows stay readable, a gate has one verdict |
| `MergeKeepsBothBranches` | `ChangeMerge` | a join that is not refused has the work of both branches |
| `OnlySoundGraphsRun` | `DagExecutor`, `TemplateGraph` | validation accepts exactly the graphs that can be run, compiled templates are among them, no node runs ahead of its predecessors |
| `LogIsTheTruth` | `ReadModels` | dropping and deriving the tables again, or applying any tail of the log twice, changes no row |
| `ImplementsContract`, `NothingIsLeftBehind` | `AgentSession` | the answer is no better than what happened, a read-only node's is never clean if it wrote, and nothing writes after it; no process survives it |
| `CommandIsOver` | `CommandRunner` | a result is given for a command that is over, and says `completed` only of one that nobody ended; of a timeout and an abort the later one names the ending |
| `WhatIsDoneIsProven` | `DirectTask`, `Evidence` | what passes is proven by commands, diff and report; rows say what the caller is told |
| `TurnsStayInBounds` | `AgentLoop` | what tools changed was in scope and not forbidden; a turn without the change it was asked for is reminded; a second turn sees the first |
| `PolicyOnlyTightens` | `Policies`, `ContextPacket` | narrower scopes win, limits stay in range, a step's permissions are within its role, packets keep their budget and tell what they dropped, reports are policed by what was measured |
| `WhatIsMadeArrives` | `ArtifactFlow`, `GitReading`, `CliTurn`, `HostedScreen`, `ChatStream` | the diff is what happened to the files; artifacts reach slots whole and unguessed, also over a death; what a command line wrote is what `exchange()` hears; an idle screen from before a prompt is no answer; answers are whole however they are cut |
| `PagesTellTheTruth` | the seven pages | answers stand behind their questions, lists and diffs are what the main process has once nothing is under way, a terminal misses nothing, the model shown is the one used; the catalog lists the templates as they are stored, all valid; what the canvas calls saved is stored as it is drawn; edges end at nodes that are there |
| `CallsReturn` | all of `work` | who asked gets an answer; the workflow page catches up and never goes back |

**Why the bounds are enough.** Two nodes and two connections are what it takes for
two writers to compete for one row or one iteration; three iterations for a chain
that could fork. Three calls of `run()` and two crashes allow pause, crash during
the resume, recover, and resume again. Templates have the smallest graph in which
the property's hazard exists: a branch needs a join to be revived wrongly, a pause
needs something in flight beside it. In `flow_one` a cap of two iterations has one
correction that is allowed and one that is not, and two fingerprints can repeat or
alternate. Three callers and one slot give a release, a waiter and a newcomer. An
exchange has at most two turns, so two scripted replies are all of it. A diff that
runs beside two acts of somebody else has each act before, between or after its
commands. A marker of three characters in two lines of two is cut at every place.
Pages have two threads, two projects or two workflows: one to be shown and one to be
mistaken for it. The studio opens a template of two nodes, the smallest that has an
edge to lose, and sees four clicks while two calls or replies are under way. `MaxIterations`, `MaxNodeAttempts`, `MaxRepeatedStates`,
`MaxConcurrency`, `maxConcurrent`, `MaxRounds` and `MaxBuffer` are the program's own
limits, with smaller values; `left` of the executor, `MaxCrashes`, `MaxAttempts`,
`MaxIteration` (of the store), `MaxEvents`, `MaxDecisions`, `MaxTurns`, `MaxVisits`,
`MaxOpenings`, `MaxMoves` and the like are bounds of the instance.

## Fairness and the environment

* `GraphExecutor!Fairness`: the executor's own steps (the thread does not stop),
  each node in flight (`InNode(n)`: git calls return and leaves are bounded by a
  timeout, `leafRunner.ts:362`), and `Recover` (the application calls it at start).
* `WorkflowService!FairSpec`: `Work(w)` and `Dispose(w)`: sessions end by
  `stepTimeoutMs`, commands by their own limit, and the `finally` block of
  `executeWorkflow` runs.
* `ProcessManager`, `AgentSession`, `CommandRunner`: their own steps and timers, and
  that a process that was killed for good exits; `HelperExits` of `CommandRunner` says
  that `taskkill` returns. Nothing makes an agent answer: a silent one is ended by its
  deadline.
* `CliTurn`: a command line writes its next line, closes, or is timed out.
* `HostedScreen`: Forge polls; a CLI that is *brisk* paints its start without a pause.
* `AgentLoop`: tools and requests to a provider end, one way or the other (the code
  has no timeout of its own there, see divergences). `ChatStream` states no liveness.
* `DirectTask`: as above; the runtime's events end by themselves unless `gap_direct`
  asks for the one whose events do not.
* Pages: calls are delivered, handlers end and the poll timer fires. Nothing is
  assumed of users, of external edits, aborts, crashes and gate decisions.

## Proofs

TLAPS checks the eight proof modules to the last leaf.

**GraphStore_proofs** – for any set of nodes and connections and any bounds:
`TypeCorrect`; `IterationsFormAChain`; `SourceLoopsOnce`; `AdvancesAreAtomic`; and
`OutcomesBecomeFinal` – the check of `updateNodeAttempt` precedes its transaction, so a
call that checked in time may overwrite an outcome, but once no call under way is aimed
at an ended attempt none will be and its row stays (`InsertWritesOne`, `SetWritesOne`: a
record or an update leaves every other attempt alone). For a single connection, which
is what the application opens: `TransitionsStayGrounded` (false with two) and
`StoreImplementsHistory`, the refinement of `RunHistory`. For any number of
connections the inductive invariant `IInv` is the type, the two properties proved
from it (`IterationChain`, `OneTransitionPerSource`) and two facts they need:
`CallsFit` (a pending call still fits the table when it commits, because histories
only grow) and `RunsBeforeTransitions` (no transition exists before the run does).
For one connection `SInv` adds `ChecksHold` (what a pending call checked is still so
at its commit, because nobody commits in between) and `TransitionsGrounded`; each
step then extends every history (`StepExtends`), which is the finality that `RunHistory`
promises, and makes each commit a step of `RunHistory`: `StartGraphRun` begins the run,
`AdvanceCommit` advances it (`AdvanceStep`), the rest is progress or a stutter.

**GraphExecutor_proofs** – for any set of templates that keep `InstanceIsSound`, with
any settings, results, faults, aborts, skips, reruns and process deaths. The assumption
asks of a template what `validateWorkflowGraph` asks before a run (`workflowGraph.ts:317`):
finitely many nodes, edges between them, and an order in which the forward edges only
go up. Nothing else restricts the graph, its loops included.

* *On every template*: `ExecutorTypes`; `GatesAreApproved`; `ExecutorKeepsHistory`, the
  refinement of `RunHistory`; `LoopsAreBounded`; and `NoProgressEndsLoops`, as long as the
  fingerprints are those of the first call, because a resume forgets them. `IInv` has
  five parts: the type of `mem` and of the rows (`Typed`); what holds where the
  thread is (`Places`: at a feedback step the source has a completed attempt that no
  transition has used); that a node in flight writes to a row of its own that has not
  ended (`Flight`); that a gate which is about to complete has its verdict (`Captured`);
  and what the rows say of transitions, verdicts and gates (`RowsInv`). `LoopInv` adds
  that what a call has noted holds no streak, and for the first call that it has noted
  all.
* *On templates without feedback edges* (`LoopFree`): `CompletedMeansDone`,
  `InputsStayCurrent`, `WorktreesHoldInputs`, `InputsComeFirst` and, until a node is run
  again, `NoRunIsOrphaned`. All follow from `StraightInv`, which ties memory to rows:
  `Each` says of every node
  that what `mem` holds of it is what its latest row says (`Agrees`), that a node at work
  or about to start has predecessors which are done (`Follows`), and that its worktree
  has their change sets (`Grown`); `Straight` that nothing is left over between calls or
  iterations; `Results` that an answer is given only by rows that carry it. The hard steps
  are the hydrations in `Resume` and `RerunNode`, where the sets are built anew from rows
  that a death or a rerun may have left in any state, and the answer "completed": that a
  run in which nothing is ready, blocked or failed has done all its nodes takes the order
  of the graph, of which the lowest node that is not done would be ready.
* *There, with one more restriction each*: `RerunsReachDownstream` while no call resumes
  the run (`StaleInv` follows the attempts that a rerun made stale until each has a
  successor); `PausesAreTold` before any rerun and where timestamps of checkpoints are
  distinct (`PauseInv` relates the rows, the checkpoint that `recover` will read, and
  what an observer knows: a pause that was reported has its blocked nodes in the latest
  checkpoint, and what was in flight at a death left a row that says so); and
  `OnlySelectedRuns` in the first call of a run without `options.skipNodeIds` (`DueInv`:
  a node that may still start has an incoming edge that is not dead, and a router that
  completed has recorded one edge and killed its others).

The restrictions are hypotheses because the statements fail without them; the
counterexamples are below, under *only model-checked*.

**WorkflowService_proofs** – for any workflows, projects, outcomes, fingerprints,
iteration cap and number of deaths: `TypeCorrect`; `RowsStayReadable`;
`WaitersNameTheirQuestion`; `FinishedIsFinal`; `WaitsEndByTheirAnswer`. None of the
properties is inductive alone. `IInv` needs two more facts. *Who is executed does
not wait* (`exec[w].pc # "idle"` implies the row is neither absent nor
`AWAITING_USER`): otherwise an execution could raise a second question on a row
that already waits, and `resumeState` would become `AWAITING_USER` itself. *At the
loop's top the row is what the execution thinks it is*: otherwise a checkpoint could
be written on a row that a cancel has finished. Both hold because nobody else moves
a row between `apply` and the top of the loop. The step from `IInv` to the two
action properties goes through `StepIsSafe`, one lemma per action; `LocalStep` does
once what all actions that touch one workflow have in common.

Assumptions used: the cap is positive, `None` is no state and no question, every
workflow belongs to a project.

There, under the same assumptions, about the runs: `DoneWasVerified` and
`CorrectionsStayBounded`. What has to be carried along is the history of an execution,
`CourseInv`: *Recorded* (the run counts the same steps as the rows), *NoneRepeats* (two
implementations in a row never print the same, because the run halts when they do), and
for the execution that is under way `PointFits` and `StepsLeadHere` (the last steps are
those that lead to the state the row is in) and `Rank`. Only a first execution gets past
`start`, which is legal in `DISCOVERY` alone and nothing returns there, so every course
begins without steps. Turns are then bounded by arithmetic: a state's rank plus three per
iteration, which stays below the hard stop for every cap.

**ProcessesAndReadings_proofs** – for any calls, any number of slots and any number of
deaths and starts of Forge: `ProcessesAreAccountedFor` (the cap is kept, a slot that
is free while somebody waits is on its way to a waiter, an outcome means that the
process is gone) and, if Forge is restarted only where orphans are tracked,
`OrphansAreSignalled`. The cap is not inductive: a slot is released before the waiter
that was woken takes it. `SlotsAreHeld` therefore counts the callers that run together
with those that were woken, and `Places` says where each call can be (queued calls
wait, running ones have a handle, the rest have not started). For the orphans,
`OrphanInv` follows a pid from the process to the file, to the next process of Forge,
and to the signal: what runs is recorded or in a flush that is under way, what was lost
at a death is in the file until `reap` has read it, and in the set of the signalled
from then on.

There too, what Forge reads of the world outside. `WhatGitSaysIsWhole`, that is
`EvidenceIsWhole`, for any finite set of paths (none of them called "none"), any trees and
whatever is edited, staged, untracked, moved and committed between the commands of one
diff. Each command answers of its own moment, so `GitInv` says of every answer that is in
what it may be (`NamesDiffered`, it names only what differed at some moment;
`DifferencesAreNamed`, what differed at all of them is named by `git diff` or, as
untracked, by `git status`, whichever of the two comes first), and of a worktree that
nobody has touched that all answers are those of one moment (`SaidIsSo`). Git's pairing of
renames is any that cannot be extended; that there is one is proved too (`RenamesExist`).
`ScreensAreReadInTime`, that is `ScreenIsReadRightly`, for starts and turns of any length:
the reader has no clock of the CLI's, so `Starting` and `Turning` say which screen of
which list is displayed, and the busy indicator keeps the prompt box that was there before
a turn from being taken for its end. It assumes of a CLI that is not quiet in its start
that it paints nothing after a dialog.

**SessionsAndTasks_proofs** – for any set of instances that keep `InstancesAreKnown`:
`LeavesKeepTheContract`, the refinement of `LeafContract`, and `NothingStaysBehind`.
The assumption gives the instances their shape and leaves out what is listed under
*further divergences*: an abort after the turn of a generic CLI that lingers. `LeafInv`
adds four facts to the type: each kind of node goes only through its own points of
`execute()`; from the end of the turn on the process of the session is killed or gone;
what was captured is what was written; and what is about to be answered was claimed.
An answer in the contract is one step, in the code it is the last of several awaits,
which is why those facts have to be carried from the turn to the return.

For direct tasks and verification nodes: `ResultsAreOfWhatIsOver` for any sequence of commands on the
two platforms (`PlatformsAreKnown`): `CommandInv` ties the result of a command to its
shell, its group, its timer and its pipes. `CompletionIsProven` and
`RowsSayWhatHappened` for any set of orders with the fields of an order
(`OrdersAreKnown`): `VerdictInv` keeps what was judged 0 proven by the work that was
measured, until the rows say so; `RowsInv` says at each point of `executeDirectTask`
which rows exist and whether the session is open, a refused transaction, a throw or a
death included. `DoneMeansProven` joins the two.

**RecordsAndMerges_proofs** – `LockedDecisionsBind`, that is `LockedIsBinding`, for any gates
that have names (`GatesHaveNames`), any number of rows, clicks and reloads. The store
checks nobody's status, so the invariant is about the channel: the page has at most one
call on its way, there or back (`OneCall`); a call that waits to be served still fits its
row (`CallsFit`); and what the page, or an answer on its way, says of a decision is what
the log says unless an answer further behind will say so (`UpToDate`). While nothing is
submitted no such answer exists, hence a button is only offered for what is still true.

There too: `JoinsLoseNoWork`, that is `MergeKeepsBothBranches`, for any paths
and any directories among them, any commit, and any work of two branches. `Describes`
says that a captured diff names every path at which its tree differs from the commit, the
old path of a rename included; `JoinKeepsBoth` that two such diffs whose paths neither
meet nor lie above each other apply together and give the work of both. It assumes that
no patch ends in an empty line of context (`PatchesEndInText`; such a patch is refused,
see below) and that no file is called what stands for no file.

And `TablesFollowTheLog`, that is `LogIsTheTruth`, for logs of any length, from
`LogsAreKnown` alone (an account's id is not the project's; a log is bounded by some
number for each topic, which TLC evaluates). What an event makes of the rows with one key
depends only on these rows, except that the database refuses a row whose parent is
missing (`ApplyIsStepAt`). The inductive invariant `LogsAreTrue` says, of both logs, that
the replay from what the other owner has leads to the tables, and that every end of the
log leads from the tables to themselves. The second half is the hard one: a new event
must not be undone when an end of the log is applied again after it. `OnceMore` compares
the tables with and without the event along the end of the log, row by row (`Near`): the
two differ only in what this event will overwrite when it comes again, because no event
takes away a row that it, or a later one, needs, an update only sets columns, and what an
insertion alone sets (`Initially`) is left out of the update of a row that exists
(`KeptOnConflict`) — which is what `projections.ts` has to get right. A rule's removal,
which names an id and not a key, is a case of its own: the ids of the rules in the log
are numbers below that of any rule to come. No induction over data is needed, as the
replays that are compared are functions of a position and the first position at which
they part is refuted (`LeastNumber`). Direct runs, which are not in the log and which a
rebuild cascades away, are put aside (`DirectRunsAreAside`). For the sake of these proofs
`ReadModels` has functions of its own where the library's `@@` and folds are out of the
provers' reach.

**DagExecutor_proofs** – for any set of graphs with finitely many nodes, and any edges
between whatever they like (`DagAssumption`, which TLC evaluates on the instance):
`ValidGraphsAreSound` says that what `validateWorkflowGraph()` computes is what it is
meant to find. The search that fills a loop body by levels finds exactly what can be
reached (`SearchExists` and the lemmas on levels: a way that is not found would have a
first step that is not found); Kahn's sort leaves no node exactly if no way of forward
edges comes back to where it began (`ValidGraphsHaveAnOrder`: the position of a node is
the level at which the sort takes it). `OnlySoundGraphsAreRun` adds the executor: the
invariant is that what has completed is closed under predecessors and that a batch
under way consists of nodes whose predecessors have completed; an answer "completed"
is right because in an ordered graph the lowest node that is not done would be ready.
That a linear template compiles to a valid graph is proved for templates of any length
in which the last review follows the last implementation.

**AgentsAndArtifacts_proofs** – `TurnsAreBounded` for any jobs (`JobsAreKnown`: nothing has
been written when a turn begins), models, scopes, and any number of rounds. A second
turn is told of a first one, so the invariant counts turns, rounds and the history
(`TurnsAreCounted`), and says which of them may still owe a change (`DebtsAreCalled`).
`PoliciesOnlyTighten` for any questions of their kinds (`QuestionsAreKnown`): `Policies`
answers in one step, so the proof is about its operators. `OneRulePrevails` needs that
Forge and the user have at most one rule each per key and scope, which the table
of rules sees to (`schema.ts:66`); `NoRuleIsLost` and `LimitsAreReported` say that what does not prevail
is reported; `PacketIsHonest` that of finitely many candidates with different paths each
is sent, withheld or reported. For it `RankingSorts` shows that the ranking by score and
path, defined by the rank of a file, is a permutation of the candidates in descending
order, and `Fitted` what the fold over the budget keeps and drops.
`ArtifactsAreComplete` for any templates (`WiringsAssumption`: outputs and artifacts are
sequences of records): the part of `ArtifactsArriveAsMade` that is about outputs and
recovery. Its first half is about the two passes of `matchRequiredOutputs()`:
`PassMatches` shows that whatever a pass consumes it gives to one output each, and
`NoneMissing` puts the two matchings together. The second half is about rows: the
invariant says which rows an attempt has at every moment (`RowsAre`: one of each of its
first artifacts, each with their total), so that a row count equal to the total means
that none is missing, and sorting by `order` gives back what was made (`HydratedIsMade`).

Where a definition counts – levels of a search, ranks, a budget that is used up file by
file – induction over numbers is done by a least counterexample (`LeastOf`): the rule of
induction of the library takes an operator that the provers cannot instantiate. The
existence of the recursive functions themselves is proved the same way (`SearchExists`).

**Only model-checked**, and why:

* *What the executor promises of templates with loops.* It is checked on the loops of
  `exec_templates`, and most of it is not true of every loop. TLC shows on other
  templates: with two loops into one target (a→b, a→c→e, b⇒a, e⇒a) a run answers
  "completed" although the latest attempt of a node is the `ready` one that an advance
  has put behind its own (`CompletedRunIsDone`). With one loop, where a node hangs on the
  target but is outside the body (a→b, b⇒a, a→c→e), that node may run while the loop goes
  on, and reads what the loop has replaced (`InputsAreCurrent`, `WorktreeHoldsInputs`), or
  is left running (`NoOrphanedRun`). `CompletedRunIsDone` with one loop holds wherever
  TLC has looked and is not proved.
* *What a resume forgets.* `RerunReachesDownstream` fails after a resume (the old results
  of dependents are hydrated), `StartsWhenDue` too (dead edges are not: a router kills
  r→d, a gate pauses, after the resume another router kills q→d, and d, whose ways are
  all dead, runs), and `NoProgressIsNoticed` is bounded by call (fingerprints are lost).
  `StartsWhenDue` also fails with `options.skipNodeIds`, where a node behind skipped
  nodes runs. In the instances of `exec_templates` none of this can come together.
* *`RecoveryTellsPausesFromCrashes`* where checkpoints tie, and for a death while the
  branches of a completed router are being pruned, when no row shows that anything was
  under way; *`NoOrphanedRun`* after a rerun, which keeps `finishedAt`.
* *`WhatIsMadeArrives`* and *`PagesTellTheTruth`* are conjunctions over many small
  components. Of the first, what `GitReading` and `HostedScreen` promise
  (`EvidenceIsWhole`, `ScreenIsReadRightly`) and what `ArtifactFlow` promises of outputs
  and recovery (`OutputsAreDistinct`, `NothingIsLost`) are theorems. The rest – which
  artifact goes to which slot (`NothingIsGuessed`, a computation of one step with folds
  over edges in folds over slots), queues of lines, streams cut anywhere, pages – would
  need invariants about the content of every sequence under way.
* *All liveness* (`RunsSettle`, `ExecutionsEnd`, `CallersAreServed`, `CallsReturn`), which
  is beyond the prover.

Type correctness is proved where there is a proof module and is therefore not among the
runs' invariants.

## Where code and claims differ

Checked as expected violations:

* **`gap_two_loops`** (`graphExecutor.ts:1552`). Valid templates may have disjoint
  feedback loops (`workflowGraph.ts:314`), but a run has one iteration counter. When
  two loops close in one batch the second advance is refused, the catch block
  updates an attempt that has completed, that throws too, `run()` rejects and the
  run stays `running`.
* **`gap_resume`** (`orchestrator.ts:277`). `run()` begins with the trigger `start`,
  legal only in `DISCOVERY`. The execution that an answer or an approval starts
  throws, and the workflow stays where it is. The repository's README says an answer
  resumes it.
* **`gap_reclaim`** (`worktreeService.ts:77`). Every execution begins by removing all
  worktrees of its repository; the comment says they are those of a previous
  session, but live executions work in them as well.
* **`gap_direct`** (`taskRunner.ts:475`). `executeDirectTask` reads the session's events
  to their end before it disposes of the session, and the events of Forge's own
  runtime, which `forge run` uses, end only by that.

**Further divergences** met while modelling, which the models contain, or leave out
where it says so, and no run singles out (the instances avoid them by constants):

*Workflow engines*

* `workflowStore.ts:1003` – checkpoints of one millisecond are ordered by random
  id, so recovery may judge a pause by an older checkpoint and fail the run
  (`SameMillisecond = TRUE`).
* `workflowStore.ts:856` – the check that an attempt has not ended precedes the
  transaction; with two connections the outcome is overwritten by a call that had
  checked before it was written, though never later (`OutcomesSettle`).
* `graphExecutor.ts:1796` – `recover` recognises final blocks by three phrases, while
  `resolveNodeInputs` words most of its errors otherwise: such a run is kept as if it
  waited (`Named`).
* `graphExecutor.ts:1833` – a loop target runs on its `ready` attempt, so a crash
  while it runs can pass for a pause; for the same reason `skipNode`
  (`graphExecutor.ts:2807`) may skip it while it runs.
* `graphExecutor.ts:429` – the edges that routers killed are not rebuilt on a resume, so a
  node that no router selected may run then (found while proving `OnlySelectedRuns`).
* `graphExecutor.ts:1552` – two loops may also share their target; when both close, a
  node may complete behind the `ready` row of the second advance, and the run answers
  "completed" although that row never ran.
* `graphExecutor.ts:3294` – a new iteration revives branches that a router outside
  the loop did not select.
* `graphExecutor.ts:1009`, `:454` – the patch of the previous iteration goes to the
  first node that prepares a worktree, loop target or not, also after a resume.
* `graphExecutor.ts:3280` – a node skipped in this iteration still hands on outputs of
  the last.
* `decisionStore.ts:169` – a gate's verdict is looked up by run and node: given once, it
  answers the gate in every later iteration.
* `graphExecutor.ts:331` – `rerunNode` sets a cancelled run back to running, against
  ADR-007:277.
* `graphExecutor.ts:3212` – fingerprints are forgotten on resume, against ADR-007:262.
* `graphExecutor.ts:2909` – a rerun that pauses before its dependents ran completes
  after the resume with their old results.
* `projections.ts:616` – a rerun keeps `finishedAt`, so a crash during a rerun of a
  finished run hides the run from `recover`.
* `workflowService.ts:402` – the answer and the wake-up are two transactions; after a
  death between them the workflow waits for a question that is answered (answering
  it again wakes it).
* `workflowService.ts:332`, `:764` – `resume()` does nothing, `findInterrupted` has no
  caller in production, and an error in an execution is only logged: after either a
  linear workflow may stay in an active state with nobody running it.
* `workflowService.ts:550` – a worktree that cannot be prepared is replaced by the
  user's checkout, where `worktreeService.ts:92` refuses to fall back silently.
* `workflowService.ts:675` – the service approves every plan itself, where
  `transitions.ts:65` calls the user's approval the only way out of `PLAN_READY`.

*Sessions and processes*

* `claudeHooks.ts:201` – a line written between a read of the hook log and the watch is
  noticed at the next change only; a cancelled turn of a hosted session returns at its
  deadline; the late Stop of a first turn answers the second; a permission request
  counts as the end of a turn. The generic runtime ignores `correction` and never waits
  for its CLI; an abort that comes after its turn answers "cancelled" while the CLI
  lives (excluded from the run).
* `processManager.ts:527` – a second `cancel()` returns at once; at quit,
  `index.ts:195` therefore need not wait. `reap()` is not awaited at start
  (`forgeCore.ts:142`), signals once with SIGTERM, and trusts pids to be of the same
  process. Terminals hold slots of the same cap.
* `commandRunner.ts:219` – the comment is about endings Forge imposes; a command that
  exits by itself with a background process on its pipes never gives a result. On
  POSIX the group does not exist, and only the shell is killed.
* `nativeAgentRuntime.ts` – the answer is emitted twice; the loop goes on writing after a
  cancel; requests have no timeout; ids of tool calls repeat over rounds (left out).
* `claudeCliRuntime.ts:312` says that the first report marker counts; `protocol.ts`
  tries the widest and then the last. A limit line without a newline is not observed;
  stderr becomes part of the reply; a cancelled session may end as failed or completed
  and accepts another `send`. If the runner throws after the signal, no event is pushed
  and the turn is awaited for ever; a pty runner that throws on stdin leaves its process
  (both left out). In `mockRuntime.ts` a cancel during edits is overwritten and the
  script `silent` never ends (excluded from `CallsReturn`).
* `hostedSession.ts:205` – a CLI that echoes its prompt and is idle before it works counts
  as answered; a dialog may come between the last look and the typing;
  `waitForBootSettled` gives up silently.

*Evidence, git, policy, data*

* `taskRunner.ts` – a report "question" with passing criteria is recorded as completed;
  error events are ignored; files that were dirty before are the agent's; nothing
  repairs rows left `running`. Criteria `file-exists`, `custom-command` and
  `reviewer-verdict` are never supplied.
* `gitService.ts:423` – staging during the diff can hide a file from both readings;
  `git rm --cached` is reported twice; ignored files are never evidence.
  `workflowService.ts:676` verifies the linear workflow in the user's checkout, not in
  the agent's worktree, and takes the diff twice (`:620`, `:629`). `snapshot()`'s
  refusal of a dirty tree, which `validateRepository.ts:18` relies on, has no caller in
  production. `exec.ts:57` speaks of external diffs and text conversion, which
  `GLOBAL_ARGS` leaves alone.
* `changeSetMerger.ts:278` – `trimEnd` takes a final blank line of context off a patch,
  which then cannot be applied (the run has no such patch). `workflowGraph.ts:314`
  speaks of forward exit paths, which nothing checks. Siblings of a failed node go on
  in `DagExecutor`, and its result "failed" is unreachable.
* `limitRules.ts:23` – one invalid number discards all limit rules; `resolveLimits` has no
  caller in production. A global rule of the user with a Forge key displaces Forge's. A
  reviewer node not declared read-only never resolves. Forbidden paths are checked
  against claims even where changes were measured. The packet's `files` are empty in
  production (`workflowService.ts:610`), and cut instructions exceed their cap by the
  note.
* `graphExecutor.ts:2505` – an edge without handles binds an artifact of kind k to a slot
  *named* k of another kind; of two sources of a slot the later edge wins silently;
  artifacts of routers are not persisted.
* `eventStore.ts:20` says that events are never deleted; `projectStore.ts:155` deletes those
  of a project. A rebuild cascades away direct runs (which is why `LogIsTheTruth`
  leaves their table out). A project may be deleted while a graph run is running.

*Pages*

* `DecisionCard.tsx:223` – "Change Request" stays enabled while a submission is under way.
* `AskPage.tsx` – edits made during a turn are overwritten by the turn's copy; turns of two
  visits overwrite each other; the live reply is shown under whichever thread is open
  (`:1436`); if the storage is full at the end, the page waits for ever (left out).
* `WorkflowPage.tsx` – of two active workflows the older one comes back at the next poll;
  events of any project replace what is shown; a project without an active workflow may
  keep showing another's; the page itself proposes, approves and locks a decision to
  satisfy its own gate. Templates are lost at a restart (`templateV2Store.ts`).
* `WorkflowCanvas.tsx:410` – deleting a node on which a connection was begun keeps the
  begun connection, and the next click draws an edge from a node that is gone; `:432` and
  `WorkflowPage.tsx:155` report "saved successfully" before the store has accepted or
  refused; publishing sends the copy that the catalog lists, which may be older than what
  was saved; a workflow that takes the studio's place drops an unsaved drawing. What is
  saved is not what runs: `forgeCore.ts:193` gives the resolver a `TemplateV2Store` of its
  own, and `workflowService.ts:525` falls back to `feature`.
* `RealTerminal.tsx:302` – "Restart" does not spawn again; a pane that is attached never
  hears of the end; chunks around an attach appear twice; a spawn that is answered after
  the pane is gone leaks its process (excluded).
* `Settings.tsx`, `AskPage.tsx` – if Ask is opened first while Ollama runs, the stored list
  has only Ollama from then on; their defaults differ; when the active provider is
  deleted and `openai` is not listed, main goes on using it.
* `projectStore.ts:60` – acts that overlap (selecting while a refresh is under way,
  deleting while one is) may undo each other, against `:53` "must not leave the shell
  pointing at something that no longer exists"; `ProjectsAreShown` is about acts that
  do not overlap. `CreateProjectDialog.tsx` submits within its debounce what an earlier
  folder's probe allowed, with that folder's branch and name.
* `CodeViewer.tsx:102` – a failed save discards the text; edit mode and its text survive a
  change of file or project (excluded as `astray`); `ChangesPage.tsx:303` calls the
  Explorer's viewer read-only, which it is not then. A failed diff keeps the previous
  project's files.

## Not modelled

Free choices stand for what is outside: what agents, models, git and commands do,
the evaluation of conditions, what a user clicks. Left out because they only read,
format or forward: the command line, audit reports, health, logging, schemas of IPC,
layout (that of the canvas included), history and dashboards of the renderer, prompt
texts and flags, matching of globs, migrations (generated SQL). Left out although they have state:

* settings of agents and custom CLIs (`Settings.tsx`, enrolment): CRUD over files of the
  user's home; met on the way: loading after a change overwrites unsaved defaults, and a
  corrupt file reads as an empty list that the next save stores;
* writes and resizes of terminals, the list of recorded change sets, the Explorer,
  transcripts;
* HTTP details of the providers.

`PROJECT.json` lists every component with what is left out and why.

## Plan

Done, in this order: graph rows and store; executor; proofs about the store; linear
machine, service and orchestrator; proofs about their rows; processes, sessions and
their contract; commands, evidence and direct tasks; decisions, merges, graphs, the
log; agent loop, policies, artifacts; git, command lines, streams and screens; the
pages; proofs about processes, sessions, commands and direct tasks, linear runs,
decisions and merges; the studio; proofs about the executor; proofs about the executor
without persistence and the graphs it takes, turns of the agent, policies, packets and
artifacts, git and screens,
the log and its tables.

Next, most important first: `CompletedRunIsDone` of a template with one loop as a
theorem (what has to be found is how far "done implies predecessors done" holds within
the body while its loop closes); which artifact goes to which slot (`NothingIsGuessed`) as
a theorem; the settings of agents.
