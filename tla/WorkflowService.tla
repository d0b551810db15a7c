---------------------------- MODULE WorkflowService ----------------------------
(***************************************************************************)
(* The linear workflows of several projects: the user's calls to the       *)
(* WorkflowService, one background execution per workflow (the             *)
(* Orchestrator driving a template), the questions and decisions they      *)
(* share, and the worktrees they run in.                                   *)
(*                                                                         *)
(* All of it runs on one JavaScript thread.  While an execution is at an   *)
(* await anything may happen; a synchronous stretch (SyncPoints) is a      *)
(* chain of steps, one per transaction, which only process death can cut.  *)
(***************************************************************************)
EXTENDS WorkflowMachine, FiniteSets, Sequences

CONSTANTS
  Workflows, Projects, ProjectOf,
  Outcomes,        \* [Workflows -> SUBSET OutcomeKinds]: what may happen to a run
  Prints,          \* fingerprints of what an implementer changed
  MaxCrashes       \* bound of the instance

OutcomeKinds ==
  {"question", "assumption", "badReport", "limit", "policy", "scope",
   "verifyFails", "reviewFails", "noReview", "declined", "timeout", "throws",
   "noCommit"}

ASSUME WorkflowServiceAssumption ==
  /\ ProjectOf \in [Workflows -> Projects]
  /\ Outcomes \in [Workflows -> SUBSET OutcomeKinds]
  /\ MaxCrashes \in Nat
  /\ None \notin WorkflowStates /\ None \notin Workflows \X Nat

VARIABLES
  rows,       \* the workflows table
  steps,      \* the workflow_steps rows of each workflow, by index
  asked,      \* for each workflow its questions in order: answered or not
  locked,     \* projects with an approved or locked decision
  trees,      \* workflows whose worktree is on disk
  exec,       \* the execution of each workflow, if there is one
  disposing,  \* workflows whose last execution still has to remove its worktree
  crashes     \* process deaths so far

vars == <<rows, steps, asked, locked, trees, exec, disposing, crashes>>

-----------------------------------------------------------------------------
(* Executions.                                                             *)

SyncPoints  == {"loop", "approve", "asked", "correct"}
AwaitPoints == {"idle", "spawn", "boot", "prepare", "compile", "agent", "assess", "verify"}

\* The locals of executeWorkflow() and run(); state is that of the last row
\* that apply() returned.
Idle == [pc |-> "idle", state |-> None, next |-> 0, turns |-> 0, prints |-> << >>,
         aborted |-> FALSE, isolated |-> FALSE]

At(w, pc) == exec[w].pc = pc
Free      == \A w \in Workflows : exec[w].pc \notin SyncPoints
Go(w, pc) == exec' = [exec EXCEPT ![w].pc = pc]

\* run() returned or threw: the finally block of executeWorkflow.
Leave(w) ==
  /\ exec' = [exec EXCEPT ![w] = Idle]
  /\ disposing' = IF exec[w].isolated THEN disposing \cup {w} ELSE disposing

\* apply() by the execution of w: throws on an illegal move, and the error
\* ends the execution.
ApplyThen(w, trigger, pc) ==
  IF CanTransition(rows[w].state, trigger)
  THEN LET row == Applied(rows[w], trigger, None) IN
       /\ rows' = [rows EXCEPT ![w] = row]
       /\ exec' = [exec EXCEPT ![w] = [exec[w] EXCEPT !.pc = pc, !.state = row.state,
                                        !.turns = IF pc = "loop" THEN exec[w].turns + 1
                                                                 ELSE exec[w].turns]]
       /\ UNCHANGED disposing
  ELSE UNCHANGED rows /\ Leave(w)

ApplyAndLeave(w, trigger, questionId) ==
  /\ rows' = IF CanTransition(rows[w].state, trigger)
             THEN [rows EXCEPT ![w] = Applied(@, trigger, questionId)] ELSE rows
  /\ Leave(w)

Halt(w, trigger) == ApplyAndLeave(w, trigger, None)

\* startStep(): step indexes are unique within a workflow, so an execution
\* that counts from 0 again cannot write a step that is there.
StartStep(w, index, role, pc) ==
  IF index > Len(steps[w])
  THEN /\ steps' = [steps EXCEPT ![w] =
                      Append(@, [role |-> role, ended |-> FALSE, verdict |-> None])]
       /\ exec' = [exec EXCEPT ![w].pc = pc, ![w].next = index]
       /\ UNCHANGED disposing
  ELSE UNCHANGED steps /\ Leave(w)
FinishStep(w, verdict) ==
  steps' = [steps EXCEPT ![w][Len(steps[w])] = [@ EXCEPT !.ended = TRUE, !.verdict = verdict]]

RoleOf(state) ==
  CASE state = "PLANNING"     -> "planner"     [] state = "PLAN_READY" -> "user"
    [] state = "IMPLEMENTING" -> "implementer" [] state = "VERIFYING"  -> "system"
    [] state = "REVIEWING"    -> "reviewer"    [] OTHER -> None
TemplateLength == 5
HardStop == TemplateLength * (MaxIterations + 2) + 10

AdvanceTrigger(state) ==
  CASE state = "PLANNING"     -> "planProduced" [] state = "PLAN_READY" -> "userApproved"
    [] state = "IMPLEMENTING" -> "implemented"  [] state = "VERIFYING"  -> "verified"
    [] state = "REVIEWING"    -> "reviewPassed"

\* detectNoProgress()
Stalled(prints) ==
  Len(prints) >= 2 /\ prints[Len(prints)] = prints[Len(prints) - 1]

-----------------------------------------------------------------------------
(* From executeWorkflow() to the first turn of the loop.                   *)

\* executeWorkflow() up to its first await.
Execute(w) ==
  /\ Free /\ At(w, "spawn")
  /\ IF rows[w].finished THEN exec' = [exec EXCEPT ![w] = Idle] ELSE Go(w, "boot")
  /\ UNCHANGED <<rows, steps, asked, locked, trees, disposing, crashes>>

\* reclaimAbandoned(): removes every worktree of the repository under the root.
Reclaim(w) ==
  /\ Free /\ At(w, "boot")
  /\ trees' = {v \in trees : ProjectOf[v] # ProjectOf[w]}
  /\ Go(w, "prepare")
  /\ UNCHANGED <<rows, steps, asked, locked, disposing, crashes>>

\* prepare() and, in the stretch after it, the start of run(): a repository
\* without commits has no worktree to offer, and precheck() may refuse.
Prepare(w) ==
  /\ Free /\ At(w, "prepare")
  /\ \E isolated \in {TRUE} \cup {~("noCommit" \in Outcomes[w])},
        runnable \in {TRUE} \cup {~("throws" \in Outcomes[w])} :
       /\ trees' = IF isolated THEN trees \cup {w} ELSE trees
       /\ IF runnable /\ CanTransition(rows[w].state, "start")
          THEN LET row == Applied(rows[w], "start", None) IN
               /\ rows' = [rows EXCEPT ![w] = row]
               /\ exec' = [exec EXCEPT ![w] = [exec[w] EXCEPT !.pc = "loop", !.state = row.state,
                                                              !.isolated = isolated]]
               /\ UNCHANGED disposing
          ELSE /\ exec' = [exec EXCEPT ![w] = Idle]
               /\ disposing' = IF isolated THEN disposing \cup {w} ELSE disposing
               /\ UNCHANGED rows
  /\ UNCHANGED <<steps, asked, locked, crashes>>

\* headSha, a prepare, a compiled packet, a session or a verification that
\* throws: the error is logged and the execution is over.
Throw(w) ==
  /\ Free /\ "throws" \in Outcomes[w]
  /\ exec[w].pc \in {"boot", "prepare", "compile", "agent", "verify"}
  /\ Leave(w)
  /\ UNCHANGED <<rows, steps, asked, locked, trees, crashes>>

-----------------------------------------------------------------------------
(* One turn of the loop.                                                   *)

Running(w) == At(w, "loop") /\ exec[w].state \notin TerminalStates
MayBegin(w) == Running(w) /\ ~exec[w].aborted /\ exec[w].turns < HardStop

\* Mutated form: nothing but the hard stop ends the loop.
LoopEndsAtHardStop(w) ==
  /\ At(w, "loop") /\ exec[w].turns = HardStop
  /\ Leave(w)
  /\ UNCHANGED <<rows, steps, asked, locked, trees, crashes>>

LoopEnds(w) ==
  /\ At(w, "loop")
  /\ exec[w].state \in TerminalStates \/ exec[w].turns = HardStop
  /\ Leave(w)
  /\ UNCHANGED <<rows, steps, asked, locked, trees, crashes>>

\* What ends the loop before a step: a cancel; else checkBudgets() finds the
\* total time spent, or no step handles the state.
LoopEnders(w) ==
  IF exec[w].aborted THEN {"cancelled"}
  ELSE IF \/ "timeout" \in Outcomes[w]
          \/ exec[w].state # "DECISIONS_LOCKED" /\ RoleOf(exec[w].state) = None
       THEN {"limitReached"} ELSE {}

LoopHalts(w) ==
  /\ Running(w) /\ exec[w].turns < HardStop
  /\ \E trigger \in LoopEnders(w) : Halt(w, trigger)
  /\ UNCHANGED <<steps, asked, locked, trees, crashes>>

LoopPasses(w) ==
  /\ MayBegin(w) /\ exec[w].state = "DECISIONS_LOCKED"
  /\ ApplyThen(w, "implementationStarted", "loop")
  /\ UNCHANGED <<steps, asked, locked, trees, crashes>>

\* A template step begins: the checkpoint, then the step row of a step that
\* Forge performs itself; an agent's packet is compiled first.
BeginStep(w) ==
  LET role == RoleOf(exec[w].state) IN
  /\ MayBegin(w) /\ role # None
  /\ rows' = [rows EXCEPT ![w].checkpoint = TRUE]
  /\ CASE role = "user"   -> StartStep(w, exec[w].next + 1, role, "approve")
       [] role = "system" -> StartStep(w, exec[w].next + 1, role, "verify")
       [] OTHER -> /\ exec' = [exec EXCEPT ![w].pc = "compile", ![w].next = exec[w].next + 1]
                   /\ UNCHANGED <<steps, disposing>>
  /\ UNCHANGED <<asked, locked, trees, crashes>>

\* The callback that decides a user step.
Approve(w) ==
  /\ At(w, "approve")
  /\ \/ FinishStep(w, "pass") /\ ApplyThen(w, "userApproved", "loop")
     \/ /\ "declined" \in Outcomes[w]
        /\ FinishStep(w, "fail") /\ ApplyThen(w, "cancelled", "loop")
  /\ UNCHANGED <<asked, locked, trees, crashes>>

\* Mutated form: the workflow advances whatever the verdict is.
VerifiedRegardless(w) ==
  /\ Free /\ At(w, "verify")
  /\ \/ FinishStep(w, "pass")
     \/ "verifyFails" \in Outcomes[w] /\ FinishStep(w, "fail")
  /\ ApplyThen(w, "verified", "loop")
  /\ UNCHANGED <<asked, locked, trees, crashes>>

Verified(w) ==
  /\ Free /\ At(w, "verify")
  /\ \/ FinishStep(w, "pass") /\ ApplyThen(w, "verified", "loop")
     \/ /\ "verifyFails" \in Outcomes[w]
        /\ FinishStep(w, "fail") /\ ApplyThen(w, "verificationFailed", "correct")
  /\ UNCHANGED <<asked, locked, trees, crashes>>

\* advanceCorrection(): the transition table enforces the cap.
Correct(w) ==
  /\ At(w, "correct")
  /\ ApplyThen(w, "correctionStarted", "loop")
  /\ UNCHANGED <<steps, asked, locked, trees, crashes>>

-----------------------------------------------------------------------------
(* An agent step.                                                          *)

\* The packet is saved, the step row written and the session started.
Compiled(w) ==
  /\ Free /\ At(w, "compile")
  /\ StartStep(w, exec[w].next, RoleOf(exec[w].state), "agent")
  /\ UNCHANGED <<rows, asked, locked, trees, crashes>>

\* The exchange ended without a usable report: an account at its limit
\* leaves the step open, anything else fails it.
NoReport(w) ==
  /\ Free /\ At(w, "agent")
  /\ \/ "limit" \in Outcomes[w] /\ UNCHANGED steps /\ Halt(w, "limitReached")
     \/ "badReport" \in Outcomes[w] /\ FinishStep(w, "fail") /\ Halt(w, "policyViolated")
  /\ UNCHANGED <<asked, locked, trees, crashes>>

\* The report admits an assumption or says the agent is blocked.
HaltingReport(w) ==
  /\ Free /\ At(w, "agent") /\ "assumption" \in Outcomes[w]
  /\ FinishStep(w, "fail") /\ Halt(w, "policyViolated")
  /\ UNCHANGED <<asked, locked, trees, crashes>>

\* Mutated form: nobody records the question.
AskUnrecorded(w) ==
  /\ Free /\ At(w, "agent") /\ "question" \in Outcomes[w]
  /\ FinishStep(w, "fail")
  /\ Go(w, "asked")
  /\ UNCHANGED <<rows, asked, locked, trees, disposing, crashes>>

\* The report asks: the question is recorded first ...
Ask(w) ==
  /\ Free /\ At(w, "agent") /\ "question" \in Outcomes[w]
  /\ FinishStep(w, "fail")
  /\ asked' = [asked EXCEPT ![w] = Append(@, FALSE)]
  /\ Go(w, "asked")
  /\ UNCHANGED <<rows, locked, trees, disposing, crashes>>

\* ... and then the workflow waits for its answer.
RaiseQuestion(w) ==
  /\ At(w, "asked")
  /\ ApplyAndLeave(w, "questionRaised", <<w, Len(asked[w])>>)
  /\ UNCHANGED <<steps, asked, locked, trees, crashes>>

Accepted(w) ==
  /\ Free /\ At(w, "agent")
  /\ FinishStep(w, "pass")
  /\ Go(w, "assess")
  /\ UNCHANGED <<rows, asked, locked, trees, disposing, crashes>>

\* The policy check or the reconciliation with the diff refuses the step.
Refused(w) ==
  /\ Free /\ At(w, "assess")
  /\ \/ "policy" \in Outcomes[w]
     \/ "scope" \in Outcomes[w] /\ exec[w].state = "IMPLEMENTING"
  /\ Halt(w, "policyViolated")
  /\ UNCHANGED <<steps, asked, locked, trees, crashes>>

Planned(w) ==
  /\ Free /\ At(w, "assess") /\ exec[w].state = "PLANNING"
  /\ ApplyThen(w, AdvanceTrigger(exec[w].state), "loop")
  /\ UNCHANGED <<steps, asked, locked, trees, crashes>>

\* What a writer changed is fingerprinted, if it can be measured.
Implemented(w) ==
  /\ Free /\ At(w, "assess") /\ exec[w].state = "IMPLEMENTING"
  /\ \E prints \in {exec[w].prints} \cup {Append(exec[w].prints, p) : p \in Prints} :
       IF prints # exec[w].prints /\ Stalled(prints)
       THEN Halt(w, "limitReached")
       ELSE IF CanTransition(rows[w].state, "implemented")
       THEN LET row == Applied(rows[w], "implemented", None) IN
            /\ rows' = [rows EXCEPT ![w] = row]
            /\ exec' = [exec EXCEPT ![w] = [exec[w] EXCEPT !.pc = "loop", !.state = row.state,
                                       !.turns = exec[w].turns + 1, !.prints = prints]]
            /\ UNCHANGED disposing
       ELSE UNCHANGED rows /\ Leave(w)
  /\ UNCHANGED <<steps, asked, locked, trees, crashes>>

\* Forge's own verdict on the review decides.
Reviewed(w) ==
  /\ Free /\ At(w, "assess") /\ exec[w].state = "REVIEWING"
  /\ \/ FinishStep(w, "pass") /\ ApplyThen(w, "reviewPassed", "loop")
     \/ /\ "reviewFails" \in Outcomes[w]
        /\ FinishStep(w, "fail") /\ ApplyThen(w, "reviewFailed", "correct")
     \/ "noReview" \in Outcomes[w] /\ UNCHANGED steps /\ Halt(w, "policyViolated")
  /\ UNCHANGED <<asked, locked, trees, crashes>>

Dispose(w) ==
  /\ Free /\ w \in disposing
  /\ trees' = trees \ {w} /\ disposing' = disposing \ {w}
  /\ UNCHANGED <<rows, steps, asked, locked, exec, crashes>>

-----------------------------------------------------------------------------
(* The user's calls.                                                       *)

Start(w) ==
  /\ Free /\ rows[w] = NoRow
  /\ rows' = [rows EXCEPT ![w] = NewRow]
  /\ \E autoRun \in BOOLEAN : IF autoRun THEN Go(w, "boot") ELSE UNCHANGED exec
  /\ UNCHANGED <<steps, asked, locked, trees, disposing, crashes>>

\* The controller is registered from executeWorkflow() to its finally block.
Cancel(w) ==
  /\ Free /\ rows[w] # NoRow /\ ~rows[w].finished
  /\ rows' = [rows EXCEPT ![w] = Applied(@, "cancelled", None)]
  /\ exec' = [exec EXCEPT ![w].aborted = exec[w].aborted \/ exec[w].pc \notin {"idle", "spawn"}]
  /\ UNCHANGED <<steps, asked, locked, trees, disposing, crashes>>

\* Mutated form: an answer wakes whoever waits.
WaitsForAny(w, q) == rows[w].state = "AWAITING_USER"

\* The workflow of a project that an answer wakes.
WaitsFor(w, q) == rows[w].state = "AWAITING_USER" /\ rows[w].blockedBy \in {None, q}
WokenBy(q) ==
  {w \in Workflows : WaitsFor(w, q)
     /\ w = CHOOSE v \in Workflows : WaitsFor(v, q) /\ ProjectOf[v] = ProjectOf[w]}

\* answerQuestion(), which goes through every project.
AnswerQuestion(w, k, promote) ==
  LET woken == WokenBy(<<w, k>>) IN
  /\ Free
  /\ asked' = [asked EXCEPT ![w][k] = TRUE]
  /\ locked' = IF promote THEN Projects ELSE locked
  /\ rows' = [v \in Workflows |->
                IF v \in woken THEN Applied(rows[v], "questionAnswered", None) ELSE rows[v]]
  /\ exec' = [v \in Workflows |-> IF v \in woken THEN [Idle EXCEPT !.pc = "spawn"] ELSE exec[v]]
  /\ UNCHANGED <<steps, trees, disposing, crashes>>

Answer ==
  \E w \in Workflows, promote \in BOOLEAN :
    \E k \in 1..Len(asked[w]) : AnswerQuestion(w, k, promote)

LockDecision(p) ==
  /\ Free /\ locked' = locked \cup {p}
  /\ UNCHANGED <<rows, steps, asked, trees, exec, disposing, crashes>>

ApproveAndStartImplementation(w) ==
  /\ Free /\ rows[w].state = "PLAN_READY"
  /\ ProjectOf[w] \in locked
  /\ rows' = [rows EXCEPT ![w] = Applied(@, "userApproved", None)]
  /\ exec' = [exec EXCEPT ![w] = [Idle EXCEPT !.pc = "spawn"]]
  /\ UNCHANGED <<steps, asked, locked, trees, disposing, crashes>>

-----------------------------------------------------------------------------
(* Process death, possibly in the middle of an answer: the transactions    *)
(* of a question and of the workflow that waits for it are not one.        *)

Die ==
  /\ crashes < MaxCrashes /\ crashes' = crashes + 1
  /\ exec' = [w \in Workflows |-> Idle]
  /\ disposing' = {}
  /\ UNCHANGED <<rows, steps, locked, trees>>

Crash == Die /\ UNCHANGED asked
CrashInAnswer ==
  /\ Free
  /\ \E w \in Workflows : \E k \in 1..Len(asked[w]) : asked' = [asked EXCEPT ![w][k] = TRUE]
  /\ Die

Init ==
  /\ rows = [w \in Workflows |-> NoRow]
  /\ steps = [w \in Workflows |-> << >>]
  /\ asked = [w \in Workflows |-> << >>]
  /\ locked = {} /\ trees = {} /\ disposing = {} /\ crashes = 0
  /\ exec = [w \in Workflows |-> Idle]

Work(w) ==
  \/ Execute(w) \/ Reclaim(w) \/ Prepare(w) \/ Throw(w)
  \/ LoopEnds(w) \/ LoopHalts(w) \/ LoopPasses(w) \/ BeginStep(w)
  \/ Approve(w) \/ Verified(w) \/ Correct(w) \/ Compiled(w)
  \/ NoReport(w) \/ HaltingReport(w) \/ Ask(w) \/ RaiseQuestion(w) \/ Accepted(w)
  \/ Refused(w) \/ Planned(w) \/ Implemented(w) \/ Reviewed(w)

Next ==
  \/ \E w \in Workflows :
       \/ Work(w) \/ Dispose(w)
       \/ Start(w) \/ Cancel(w) \/ ApproveAndStartImplementation(w)
  \/ Answer
  \/ \E p \in Projects : LockDecision(p)
  \/ Crash \/ CrashInAnswer

Spec == Init /\ [][Next]_vars

\* The thread runs whatever is ready, sessions end by stepTimeoutMs and
\* commands by their own limits.
FairSpec == Spec /\ \A w \in Workflows : WF_vars(Work(w)) /\ WF_vars(Dispose(w))
-----------------------------------------------------------------------------
(* Properties.                                                             *)

Count(w, role) == Cardinality({i \in DOMAIN steps[w] : steps[w][i].role = role})
LastOf(w, role) ==
  LET is == {i \in DOMAIN steps[w] : steps[w][i].role = role} IN
  IF is = {} THEN 0 ELSE CHOOSE i \in is : \A j \in is : j =< i

\* The state is well formed.
TypeOK ==
  /\ \A w \in Workflows :
       /\ rows[w] = NoRow \/ rows[w].state \in WorkflowStates
       /\ rows[w].iteration \in Nat
       /\ rows[w].resumeState \in WorkflowStates \cup {None}
       /\ {rows[w].halted, rows[w].finished, rows[w].checkpoint} \subseteq BOOLEAN
       /\ \A i \in DOMAIN steps[w] : steps[w][i].verdict \in {None, "pass", "fail"}
       /\ asked[w] \in Seq(BOOLEAN)
       /\ exec[w].pc \in SyncPoints \cup AwaitPoints
       /\ exec[w].prints \in Seq(Prints)
  /\ locked \subseteq Projects
  /\ trees \subseteq Workflows /\ disposing \subseteq Workflows
  /\ crashes \in 0..MaxCrashes

\* Every row that any interleaving leaves can be read back: a workflow that
\* waits knows where to resume, a halt has its reason, the iteration stays
\* within the cap and a finished workflow has nothing in flight.
RowsCanBeRead ==
  \A w \in Workflows :
    /\ RowIsValid(rows[w])
    /\ rows[w].finished <=> rows[w].state \in TerminalStates
    /\ rows[w].finished => ~rows[w].checkpoint

\* A finished workflow is never moved again, whatever its execution, a late
\* agent, a second cancel or an answer still has to say.
TerminalIsFinal == [][\A w \in Workflows : rows[w].finished => rows'[w] = rows[w]]_vars

\* A workflow is done only when its last implementation was verified and then
\* reviewed, in that order, and every step of it has ended.
DoneIsVerified ==
  \A w \in Workflows : rows[w].state = "DONE" =>
    LET made == LastOf(w, "implementer")  checked == LastOf(w, "system")
        read == LastOf(w, "reviewer") IN
    /\ 0 < made /\ made < checked /\ checked < read
    /\ steps[w][checked].verdict = "pass" /\ steps[w][read].verdict = "pass"
    /\ \A i \in DOMAIN steps[w] : steps[w][i].ended

\* The correction loop implements at most once per iteration and once more, no
\* execution goes on after two changes in a row with one fingerprint, and it is
\* these that end it: the hard stop of the loop is never reached.
CorrectionsAreBounded ==
  \A w \in Workflows :
    /\ Count(w, "implementer") =< rows[w].iteration + 1
    /\ exec[w].turns < HardStop
    /\ \A i \in 2..Len(exec[w].prints) : exec[w].prints[i] # exec[w].prints[i - 1]

\* A workflow that awaits the user does so for a question that is on record,
\* so that there is something to answer.
WaitersHaveAQuestion ==
  \A w \in Workflows : rows[w].state = "AWAITING_USER" =>
    \E k \in DOMAIN asked[w] : rows[w].blockedBy = <<w, k>>

\* A workflow leaves its wait only for the answer to its own question, to the
\* state in which it asked, or because it is cancelled.
OnlyTheAnswerWakes ==
  [][\A w \in Workflows :
       rows[w].state = "AWAITING_USER" /\ rows'[w].state \notin {"AWAITING_USER", "CANCELLED"} =>
         /\ asked'[rows[w].blockedBy[1]][rows[w].blockedBy[2]]
         /\ rows[w].blockedBy[1] = w
         /\ rows'[w].state = rows[w].resumeState]_vars

\* Every execution comes to an end, and removes its worktree.
ExecutionsEnd ==
  \A w \in Workflows :
    /\ ~At(w, "idle") ~> At(w, "idle")
    /\ w \in disposing ~> w \notin disposing

\* A workflow that the user has answered or approved goes on: its execution
\* comes to an agent's step, or the workflow ends.
ResumedRunsGoOn ==
  \A w \in Workflows : At(w, "spawn") ~> (At(w, "agent") \/ rows[w].finished)

\* A workflow that runs in a worktree has it until the run is over.
RunsKeepTheirWorktree == \A w \in Workflows : exec[w].isolated => w \in trees
=============================================================================
