------------------------------- MODULE DirectTask -------------------------------
(***************************************************************************)
(* executeDirectTask(): `forge run` from its rows in the tables of runs    *)
(* and steps over the agent's turn, the capture of what it changed and the *)
(* verification, to the verdict.  verifyStep() and the commands it runs    *)
(* are also used by the verification node of a graph, which has a signal   *)
(* and no report; here that is a caller of its own.                        *)
(*                                                                         *)
(* There is no action for a crash: what it leaves behind are the rows of   *)
(* the state it happens in, and nothing looks after them at a restart.     *)
(***************************************************************************)
EXTENDS Evidence, CommandRunner, TLC

CONSTANTS
  Orders,    \* what may be asked for
  Paths      \* the files of the repository

\* An order: its caller, "task" or "node"; whether the events of the runtime end by
\* themselves; the commands the project has; the scope; whether the database may
\* refuse a write, and whether other steps may throw; and whether the caller may
\* abort.  [caller, ends, tooling, allowed, forbidden, refuses, throws, aborts]

VARIABLES
  order,
  phase,      \* where the call is
  rows,       \* the statuses of the run and of the step
  finished,   \* run.finished is in the log of the run
  refused,    \* the database refused a write
  open,       \* the session of the agent
  work,       \* what is judged: see Evidence
  judged,     \* the exit code; of a node, 0 if it is verified
  told        \* the abort signal was given

tables  == <<rows, finished, refused>>
task    == <<order, phase, rows, finished, refused, open, work, judged, told>>

Criteria(o) == {"no-assumptions"} \cup o.tooling

NoWork(o) ==
  [reported |-> FALSE, status |-> "none", testsRun |-> FALSE, assumed |-> FALSE,
   claimed |-> {}, reconciled |-> FALSE, changed |-> {},
   allowed |-> o.allowed, forbidden |-> o.forbidden,
   criteria |-> IF o.caller = "task" THEN Criteria(o) ELSE o.tooling,
   tooling |-> o.tooling, artifacts |-> <<>>]

TaskInit ==
  /\ order \in Orders
  /\ phase = "called"
  /\ rows = [run |-> "none", step |-> "none"]
  /\ finished = FALSE /\ refused = FALSE /\ open = FALSE
  /\ work = NoWork(order)
  /\ judged = 1 /\ told = FALSE
  /\ cmd = Idle

At(p)   == phase = p
To(p)   == phase' = p
Is(c)   == order.caller = c

\* Into the catch block, or past it.
Throw == order.throws /\ To("failing")

\* A write the database refuses throws.
RefuseWrite(p) == order.refuses /\ refused' = TRUE /\ To(p)

-----------------------------------------------------------------------------
(* Up to the agent.                                                        *)

\* No repository, no commit, no project: nothing is recorded.
Decline ==
  /\ At("called") /\ Is("task") /\ order.throws
  /\ To("thrown")
  /\ UNCHANGED <<order, tables, open, work, judged, told, cmd>>

CreateRun ==
  /\ At("called") /\ Is("task")
  /\ \/ rows' = [rows EXCEPT !.run = "running"] /\ To("created") /\ UNCHANGED refused
     \/ RefuseWrite("thrown") /\ UNCHANGED rows
  /\ UNCHANGED <<order, finished, open, work, judged, told, cmd>>

\* run.started, in front of the try.
Announce ==
  /\ At("created")
  /\ \/ To("announced") /\ UNCHANGED refused
     \/ RefuseWrite("thrown")
  /\ UNCHANGED <<order, rows, finished, open, work, judged, told, cmd>>

CreateStep ==
  /\ At("announced")
  /\ \/ rows' = [rows EXCEPT !.step = "running"] /\ To("starting") /\ UNCHANGED refused
     \/ Throw /\ UNCHANGED <<rows, refused>>
     \/ RefuseWrite("failing") /\ UNCHANGED rows
  /\ UNCHANGED <<order, finished, open, work, judged, told, cmd>>

\* The prompt is written, the session started.
Start ==
  /\ At("starting")
  /\ \/ open' = TRUE /\ To("sending")
     \/ Throw /\ UNCHANGED open
  /\ UNCHANGED <<order, tables, work, judged, told, cmd>>

\* The turn: whatever the agent does to the files is done when send() is over.
Send ==
  /\ At("sending")
  /\ \E changed \in SUBSET Paths : work' = [work EXCEPT !.changed = changed]
  /\ \/ To("listening")
     \/ order.throws /\ To("disposing failed")
  /\ UNCHANGED <<order, tables, open, judged, told, cmd>>

\* The loop over the events ends when they do; those of the four runtimes of Forge
\* end when the session is closed, which dispose() behind the loop does.
EventsEnd ==
  /\ At("listening") /\ (order.ends \/ ~open)
  /\ To("disposing")
  /\ UNCHANGED <<order, tables, open, work, judged, told, cmd>>

Dispose ==
  /\ phase \in {"disposing", "disposing failed"}
  /\ open' = FALSE
  /\ To(IF At("disposing") THEN "measuring" ELSE "failing")
  /\ UNCHANGED <<order, tables, work, judged, told, cmd>>

-----------------------------------------------------------------------------
(* The measurement.                                                        *)

\* extractReport(): the report, if there is one; of an object with a status what can
\* be used; of prose, a report of completion that claims what the diff shows.
Synthesized ==
  [work EXCEPT !.reported = TRUE, !.status = "completed", !.claimed = work.changed]

\* The diff, the report, the reconciled change set.
Measure ==
  /\ At("measuring")
  /\ \/ /\ \/ work' = [Synthesized EXCEPT !.reconciled = TRUE]
           \/ \E status \in {"completed", "blocked", "question"},
                 testsRun, assumed \in BOOLEAN, claimed \in SUBSET Paths :
                work' = [work EXCEPT !.reported = TRUE, !.status = status,
                           !.testsRun = testsRun, !.assumed = assumed,
                           !.claimed = claimed, !.reconciled = TRUE]
        /\ To("verifying") /\ UNCHANGED refused
     \/ Throw /\ UNCHANGED <<work, refused>>
     \/ RefuseWrite("failing") /\ UNCHANGED work
  /\ UNCHANGED <<order, rows, finished, open, judged, told, cmd>>

-----------------------------------------------------------------------------
(* verifyStep(): the build, then the tests if it has passed.               *)

VerifyNode ==
  /\ At("called") /\ Is("node")
  /\ To("verifying")
  /\ UNCHANGED <<order, tables, open, work, judged, told, cmd>>

Due ==
  IF "build" \in order.tooling /\ ~Ran(work, "build") THEN {"build"}
  ELSE IF "tests" \in order.tooling /\ ~Ran(work, "tests") /\ ~Failed(work, "build")
  THEN {"tests"} ELSE {}

RunDue ==
  /\ At("verifying") /\ Due # {} /\ cmd.shell = "none"
  /\ Run(told)
  /\ UNCHANGED task

AbortTask ==
  /\ order.aborts /\ ~told /\ phase \notin {"returned", "thrown"}
  /\ told' = TRUE
  /\ IF Running THEN AbortArrives ELSE UNCHANGED cmd
  /\ UNCHANGED <<order, phase, tables, open, work, judged>>

Artifact(counts) ==
  [outcome |-> cmd.outcome, exit |-> IF cmd.exit = "zero" THEN 0 ELSE 1, counts |-> counts]

\* Its result: only of tests the output is counted.
Collect ==
  /\ At("verifying") /\ Settled
  /\ \E kind \in Due :
       \E counts \in IF kind = "tests" THEN {"none", "clean", "failures"} ELSE {"none"} :
         work' = [work EXCEPT !.artifacts = (kind :> Artifact(counts)) @@ @]
  /\ cmd' = Idle
  /\ UNCHANGED <<order, phase, tables, open, judged, told>>

\* The verdict, the artifacts and events of it, the exit code.
Judge ==
  /\ At("verifying") /\ Due = {} /\ cmd.shell = "none"
  /\ \/ /\ judged' = IF Is("task") THEN ExitCode(work)
                     ELSE IF Verdict(work) = "pass" THEN 0 ELSE 1
        /\ To(IF Is("task") THEN "judged" ELSE "returned")
        /\ UNCHANGED refused
     \/ Is("task") /\ Throw /\ UNCHANGED <<judged, refused>>
     \/ Is("task") /\ RefuseWrite("failing") /\ UNCHANGED judged
  /\ UNCHANGED <<order, rows, finished, open, work, told, cmd>>

-----------------------------------------------------------------------------
(* The rows.                                                               *)

FinishStep ==
  /\ At("judged")
  /\ \/ rows' = [rows EXCEPT !.step = StatusOf(judged)] /\ To("step finished")
        /\ UNCHANGED refused
     \/ RefuseWrite("failing") /\ UNCHANGED rows
  /\ UNCHANGED <<order, finished, open, work, judged, told, cmd>>

FinishRun ==
  /\ At("step finished")
  /\ \/ rows' = [rows EXCEPT !.run = StatusOf(judged)] /\ To("run finished")
        /\ UNCHANGED refused
     \/ RefuseWrite("failing") /\ UNCHANGED rows
  /\ UNCHANGED <<order, finished, open, work, judged, told, cmd>>

Finished ==
  /\ At("run finished")
  /\ \/ finished' = TRUE /\ To("returned") /\ UNCHANGED refused
     \/ RefuseWrite("failing") /\ UNCHANGED finished
  /\ UNCHANGED <<order, rows, open, work, judged, told, cmd>>

\* Variant for mutation: the catch block finishes the run only.
FailStepForgotten ==
  /\ At("failing")
  /\ To("failing run")
  /\ UNCHANGED <<order, tables, open, work, judged, told, cmd>>

\* The catch block: both rows are failed, whatever they were; what the database
\* refuses here is not reported.
FailStep ==
  /\ At("failing")
  /\ \/ rows' = [rows EXCEPT !.step = IF @ = "none" THEN "none" ELSE "failed"]
        /\ UNCHANGED refused
     \/ order.refuses /\ refused' = TRUE /\ UNCHANGED rows
  /\ To("failing run")
  /\ UNCHANGED <<order, finished, open, work, judged, told, cmd>>

FailRun ==
  /\ At("failing run")
  /\ \/ rows' = [rows EXCEPT !.run = "failed"] /\ UNCHANGED refused
     \/ order.refuses /\ refused' = TRUE /\ UNCHANGED rows
  /\ To("thrown")
  /\ UNCHANGED <<order, finished, open, work, judged, told, cmd>>

-----------------------------------------------------------------------------
TaskNext ==
  \/ Decline \/ CreateRun \/ Announce \/ CreateStep \/ Start \/ Send \/ EventsEnd
  \/ Dispose \/ Measure \/ VerifyNode \/ RunDue \/ AbortTask \/ Collect \/ Judge
  \/ FinishStep \/ FinishRun \/ Finished \/ FailStep \/ FailRun
  \/ CommandStep /\ UNCHANGED task

\* The call goes on by itself; an agent's turn has a deadline.
TaskFairness ==
  /\ WF_<<task, cmd>>(CreateRun \/ Announce \/ CreateStep \/ Start \/ Send \/ EventsEnd)
  /\ WF_<<task, cmd>>(Dispose \/ Measure \/ VerifyNode \/ RunDue \/ Collect \/ Judge)
  /\ WF_<<task, cmd>>(FinishStep \/ FinishRun \/ Finished \/ FailStep \/ FailRun)
  /\ CommandFairness

TaskSpec == TaskInit /\ [][TaskNext]_<<task, cmd>> /\ TaskFairness

-----------------------------------------------------------------------------
(* Properties.                                                             *)

\* What is recorded as completed is proven: every command the project has was run
\* and passed, nothing outside the scope was changed, and the report, which neither
\* blocks nor assumes, claims no change that the repository does not show.
CompletedIsProven ==
  rows.run = "completed" \/ (Is("node") /\ judged = 0) =>
    /\ \A kind \in order.tooling :
         /\ kind \in DOMAIN work.artifacts
         /\ work.artifacts[kind].outcome = "completed"
         /\ work.artifacts[kind].exit = 0
         /\ work.artifacts[kind].counts # "failures"
    /\ Is("task") =>
         /\ work.changed \cap order.forbidden = {}
         /\ order.allowed = {} \/ work.changed \subseteq order.allowed
         /\ work.claimed \subseteq work.changed
         /\ work.status # "blocked" /\ ~work.assumed

\* When the call is over its session is closed, and unless the database refused a
\* write, the two rows say what the caller is told; a run is never finished whose
\* step is not, so a crash between the two leaves a run that is still running.
RowsTellTheOutcome ==
  /\ phase \in {"returned", "thrown"} => ~open
  /\ phase = "returned" /\ Is("task") =>
       rows.run = StatusOf(judged) /\ rows.step = StatusOf(judged) /\ finished
  /\ phase = "thrown" /\ ~refused =>
       rows.run \in {"none", "failed"} /\ rows.step \in {"none", "failed"}
  /\ rows.run \notin {"none", "running"} /\ ~refused => rows.step # "running"

\* Both: what executeDirectTask() and verifyStep() let pass is proven, and recorded as it is.
WhatIsDoneIsProven == CompletedIsProven /\ RowsTellTheOutcome

\* The call has not come to an end, with an answer or an exception: see CallsReturn of MCWork.
InProgress == phase \notin {"returned", "thrown"}
=============================================================================
