------------------------------ MODULE AgentSession ------------------------------
(***************************************************************************)
(* LeafRunner.execute() for one node: the session of its agent from        *)
(* runtime.start() to dispose(), the exchange() of at most two turns over  *)
(* it, the audit of the worktree and the answer; verification and gate     *)
(* nodes too.  Three runtimes: the hosted Claude CLI, whose turns end by a *)
(* line in a hook log; the generic CLI, which is only typed to; and the    *)
(* native loop inside Forge.                                               *)
(*                                                                         *)
(* The events of a session are not kept: when send() returns, all of a     *)
(* turn's events are queued, and exchange() reads them, decides and        *)
(* disposes of the session before anything else can happen, unless it      *)
(* sends again.  A process is killed as ProcessManager does it: the first  *)
(* cancel() waits until it is gone, every later one returns at once.       *)
(***************************************************************************)
EXTENDS Naturals

CONSTANT Instances

\* An instance: the node and its runtime, whether the node may write (it has a
\* worktree in any case), what the agent may reply, what an upstream artifact puts
\* into the objective, which of the early steps may fail, whether the executor may
\* abort, and whether a process may outlive the first signal.
\*   node      "agent", "verification" or "user_gate"
\*   runtime   "hosted", "generic" or "native"
\*   replies   a subset of {"completed", "blocked", "prose", "malformed"}
\*   objective one of the first three
\*   faults    a subset of {"refuse", "start", "measure", "policy", "scope"}

VARIABLES
  inst,
  pc,        \* where execute() is
  step,      \* where send() is
  attempt,   \* which turn of the exchange
  aborted,   \* signal.aborted
  closed,    \* session.closed
  child,     \* the CLI's process
  killing,   \* its run's cancelling
  typed,     \* prompts the CLI was given, and those it is done with
  done,
  unread,    \* the last line of the hook log behind readOffset
  noticed,   \* a change event came while the log was watched
  outcome,   \* what the exchange came to
  claims,    \* what the agent, the verifier or the approver has said
  writes,    \* how often the worktree was written to
  captured,  \* how many of these the change set holds
  result

session == <<step, attempt, closed, killing, unread, noticed>>
agent   == <<child, typed, done, claims, writes>>
vars    == <<inst, pc, aborted, session, agent, outcome, captured, result>>

Init ==
  /\ inst \in Instances
  /\ pc = "called" /\ step = "none" /\ attempt = 1
  /\ aborted = FALSE /\ closed = FALSE
  /\ child = "none" /\ killing = FALSE /\ typed = 0 /\ done = 0
  /\ unread = "none" /\ noticed = FALSE
  /\ outcome = "none" /\ claims = {} /\ writes = 0 /\ captured = 0
  /\ result = "none"

Return(r) == pc' = "returned" /\ result' = r

\* terminate(): the process is signalled, and goes if it does not linger.
Signal ==
  /\ killing' = TRUE
  /\ child' = IF inst.lingers THEN child ELSE "gone"

-----------------------------------------------------------------------------
(* execute() up to the session.                                            *)

\* A required slot that is missing, a role nobody can play, no baseline to audit
\* against, no command to verify with.
Refuse ==
  /\ pc = "called" /\ ~aborted /\ "refuse" \in inst.faults
  /\ Return("failed")
  /\ UNCHANGED <<inst, aborted, session, agent, outcome, captured>>

CalledOff ==
  /\ pc = "called" /\ aborted
  /\ Return("cancelled")
  /\ UNCHANGED <<inst, aborted, session, agent, outcome, captured>>

Begin ==
  /\ pc = "called" /\ ~aborted
  /\ pc' = CASE inst.node = "agent" -> "starting"
             [] inst.node = "verification" -> "verifying"
             [] inst.node = "user_gate" -> "gate"
  /\ UNCHANGED <<inst, aborted, session, agent, outcome, captured, result>>

\* runtime.start(), nothing of which is caught.
StartThrows ==
  /\ pc = "starting" /\ "start" \in inst.faults
  /\ Return("throws")
  /\ UNCHANGED <<inst, aborted, session, agent, outcome, captured>>

\* The session is there, and the exchange begins; if the signal has been given
\* meanwhile, the session is cancelled first.
Started ==
  /\ pc = "starting"
  /\ pc' = "exchanging" /\ step' = "enter"
  /\ killing' = (aborted /\ inst.runtime # "native")
  /\ child' = CASE inst.runtime = "native" -> "none"
                [] aborted /\ ~inst.lingers -> "gone"
                [] OTHER -> "alive"
  /\ closed' = (aborted /\ inst.runtime # "hosted")
  /\ UNCHANGED <<inst, aborted, attempt, typed, done, unread, noticed, outcome,
                 claims, writes, captured, result>>

\* The executor aborts. While the exchange runs, that cancels the session: the
\* hosted runtime closes it when the process is gone, the others at once.
Abort ==
  /\ inst.aborts /\ ~aborted /\ pc # "returned"
  /\ aborted' = TRUE
  /\ IF pc = "exchanging"
     THEN /\ closed' = (closed \/ inst.runtime # "hosted")
          /\ IF child = "alive" THEN Signal ELSE UNCHANGED <<child, killing>>
     ELSE UNCHANGED <<closed, child, killing>>
  /\ UNCHANGED <<inst, pc, step, attempt, typed, done, unread, noticed, outcome,
                 claims, writes, captured, result>>

\* cancel() of the hosted runtime, its process gone: close(), whose hooks.close()
\* stops the watching.
CancelDone ==
  /\ pc = "exchanging" /\ inst.runtime = "hosted"
  /\ aborted /\ child = "gone" /\ ~closed
  /\ closed' = TRUE
  /\ step' = IF step = "armed" THEN "deaf" ELSE step
  /\ UNCHANGED <<inst, pc, attempt, aborted, killing, unread, noticed, agent,
                 outcome, captured, result>>

-----------------------------------------------------------------------------
(* exchange() after a turn.                                                *)

\* Variant for mutation: disposing of the session is not a finally.
FinishUndisposed(o) ==
  /\ outcome' = o
  /\ step' = "none"
  /\ IF child = "alive" /\ ~killing /\ o # "failed"
     THEN pc' = "disposing" /\ Signal
     ELSE pc' = "disposed" /\ UNCHANGED <<child, killing>>
  /\ UNCHANGED <<inst, attempt, closed, aborted, captured, result>>

\* It returns or throws, and the session is disposed of: the process is cancelled,
\* unless somebody has done so before.
Finish(o) ==
  /\ outcome' = o
  /\ step' = "none"
  /\ IF child = "alive" /\ ~killing
     THEN pc' = "disposing" /\ Signal
     ELSE pc' = "disposed" /\ UNCHANGED <<child, killing>>
  /\ UNCHANGED <<inst, attempt, closed, aborted, captured, result>>

SendAgain ==
  /\ attempt = 1
  /\ attempt' = 2 /\ step' = "enter"
  /\ UNCHANGED <<inst, pc, aborted, closed, child, killing, outcome, captured, result>>

\* A report ends the exchange; so does an error. Whatever is no report is answered
\* with a correction, once: after that prose counts as blocked, the rest fails.
After(reply) ==
  CASE reply \in {"completed", "blocked", "failed"} -> Finish(reply)
    [] reply \in {"prose", "malformed", "silent"} /\ attempt = 1 -> SendAgain
    [] reply = "prose" /\ attempt = 2 -> Finish("blocked")
    [] reply \in {"malformed", "silent"} /\ attempt = 2 -> Finish("failed")

Sending(at) == pc = "exchanging" /\ step = at

SendThrows ==
  /\ Sending("enter") /\ closed
  /\ Finish("failed")
  /\ UNCHANGED <<typed, done, unread, noticed, claims, writes>>

-----------------------------------------------------------------------------
(* send() of the hosted runtime.                                           *)

Hosted(at) == inst.runtime = "hosted" /\ Sending(at)

\* The prompt box never appeared, or a dialog is in front of it.
NoPrompt ==
  /\ Hosted("enter") /\ ~closed
  /\ After("failed")
  /\ UNCHANGED <<typed, done, unread, noticed, claims, writes>>

TypePrompt ==
  /\ Hosted("enter") /\ ~closed
  /\ typed' = IF child = "alive" THEN attempt ELSE typed
  /\ step' = "reading"
  /\ UNCHANGED <<inst, pc, attempt, aborted, closed, child, killing, done, unread,
                 noticed, outcome, claims, writes, captured, result>>

Reply ==
  /\ unread # "none"
  /\ After(unread)
  /\ unread' = "none" /\ noticed' = FALSE
  /\ UNCHANGED <<typed, done, claims, writes>>

\* next(): what is in the log already, the last line of it, is the answer.
ReadLog == Hosted("reading") /\ Reply

ReadNothing ==
  /\ Hosted("reading") /\ unread = "none"
  /\ step' = "arming"
  /\ UNCHANGED <<inst, pc, attempt, aborted, closed, killing, unread, noticed, agent,
                 outcome, captured, result>>

\* From here a change of the log is noticed; a line that came between the two is
\* not, until another one comes.
Watch ==
  /\ Hosted("arming")
  /\ step' = "armed"
  /\ UNCHANGED <<inst, pc, attempt, aborted, closed, killing, unread, noticed, agent,
                 outcome, captured, result>>

Notice == Hosted("armed") /\ noticed /\ Reply

\* While the log is read or watched. (Variant for mutation: the deadline goes with
\* the watching.)
Listening == Hosted("reading") \/ Hosted("arming") \/ Hosted("armed")

InTurn == Listening \/ Hosted("deaf")

\* The budget of the turn is spent, or a dialog shows: the log is no longer
\* watched, and the turn is an error.
TurnFails ==
  /\ InTurn
  /\ After("failed")
  /\ noticed' = FALSE
  /\ UNCHANGED <<typed, done, unread, claims, writes>>

-----------------------------------------------------------------------------
(* send() of the other two.                                                *)

\* The generic runtime, its skills injected, types the objective, and what it
\* reports of the turn is that it did: the objective again, which is the report of
\* an upstream node if that is what it holds. It does not wait for the CLI, and
\* the correction is not part of what it types.
GenericTurn ==
  /\ inst.runtime = "generic" /\ Sending("injecting")
  /\ typed' = IF child = "alive" THEN attempt ELSE typed
  /\ After(inst.objective)
  /\ UNCHANGED <<done, unread, noticed, claims, writes>>

\* Of the native and the generic runtime: from here nothing looks at closed.
Enter ==
  /\ inst.runtime \in {"native", "generic"} /\ Sending("enter") /\ ~closed
  /\ step' = IF inst.runtime = "native" THEN "looping" ELSE "injecting"
  /\ UNCHANGED <<inst, pc, attempt, aborted, closed, killing, unread, noticed, agent,
                 outcome, captured, result>>

\* The native loop uses a tool that writes, which a turn of correction has not.
ToolWrites ==
  /\ Sending("looping") /\ attempt = 1 /\ writes < inst.writes
  /\ writes' = writes + 1
  /\ UNCHANGED <<inst, pc, aborted, session, child, typed, done, claims, outcome,
                 captured, result>>

\* The loop ends with an answer, or fails: no model, an unreachable provider, the
\* round limit. Of a cancelled session nothing is heard.
LoopEnds ==
  /\ Sending("looping")
  /\ \E reply \in IF closed THEN {"silent"} ELSE inst.replies \cup {"failed"} :
       /\ After(reply)
       /\ claims' = claims \cup {reply}
  /\ UNCHANGED <<typed, done, unread, noticed, writes>>

-----------------------------------------------------------------------------
(* The CLI, a process of its own.                                          *)

Busy == child = "alive" /\ done < typed

AgentWrites ==
  /\ Busy /\ writes < inst.writes
  /\ writes' = writes + 1
  /\ UNCHANGED <<inst, pc, aborted, session, child, typed, done, claims, outcome,
                 captured, result>>

\* A line in the hook log: Stop, with the reply; or PermissionRequest, without one.
Log(entry) ==
  IF inst.runtime = "hosted"
  THEN unread' = entry /\ noticed' = (noticed \/ step = "armed")
  ELSE UNCHANGED <<unread, noticed>>

AgentStops ==
  /\ Busy
  /\ done' = done + 1
  /\ \E reply \in inst.replies : Log(reply) /\ claims' = claims \cup {reply}
  /\ UNCHANGED <<inst, pc, step, attempt, aborted, closed, killing, child, typed,
                 writes, outcome, captured, result>>

AgentAsks ==
  /\ Busy /\ inst.runtime = "hosted"
  /\ Log("silent")
  /\ UNCHANGED <<inst, pc, step, attempt, aborted, closed, killing, agent, outcome,
                 captured, result>>

\* By itself or of a signal; nobody watches for it but who kills it.
ChildExits ==
  /\ child = "alive"
  /\ child' = "gone"
  /\ UNCHANGED <<inst, pc, aborted, session, typed, done, claims, writes, outcome,
                 captured, result>>

Killed == killing /\ ChildExits

-----------------------------------------------------------------------------
(* execute() behind the session.                                           *)

Disposed ==
  /\ pc = "disposing" /\ child = "gone"
  /\ pc' = "disposed"
  /\ UNCHANGED <<inst, aborted, session, agent, outcome, captured, result>>

\* Variant for mutation: only a report of success is audited.
AuditedIfCompleted == writes > 0 /\ outcome = "completed"

\* The worktree of a read-only node, after every outcome.
Audited == writes > 0

Violates == ~inst.writable /\ (Audited \/ "measure" \in inst.faults)

\* The first of these that applies: a violation, the abort, the failure, the pause.
Conclude ==
  /\ pc = "disposed"
  /\ \/ Violates /\ Return("failed")
     \/ /\ inst.writable \/ ~Audited
        /\ \/ aborted /\ Return("cancelled")
           \/ ~aborted /\ outcome = "failed" /\ Return("failed")
           \/ ~aborted /\ outcome = "blocked" /\ Return("waiting")
           \/ /\ ~aborted /\ outcome = "completed"
              /\ \/ "policy" \in inst.faults /\ Return("failed")
                 \/ ~inst.writable /\ Return("completed")
                 \/ inst.writable /\ pc' = "capturing" /\ UNCHANGED result
  /\ UNCHANGED <<inst, aborted, session, agent, outcome, captured>>

\* buildChangeSet() of a writable node: the whole diff, in scope or not.
Capture ==
  /\ pc = "capturing"
  /\ captured' = writes
  /\ \/ "scope" \in inst.faults /\ Return("failed")
     \/ Return("completed")
  /\ UNCHANGED <<inst, aborted, session, agent, outcome>>

\* verifyStep(): its verdict. A command that the signal interrupts fails; a signal
\* that comes later changes nothing.
Verify ==
  /\ pc = "verifying"
  /\ \/ claims' = {"completed"} /\ Return("completed")
     \/ claims' = claims /\ Return("failed")
  /\ UNCHANGED <<inst, aborted, session, child, typed, done, writes, outcome, captured>>

\* A decision is recorded for the gate.
Decide ==
  /\ inst.node = "user_gate" /\ pc # "returned" /\ claims = {}
  /\ \E verdict \in {"completed", "rejected"} : claims' = {verdict}
  /\ UNCHANGED <<inst, pc, aborted, session, child, typed, done, writes, outcome,
                 captured, result>>

Gate ==
  /\ pc = "gate"
  /\ Return(CASE aborted -> "cancelled"
              [] ~aborted /\ "completed" \in claims -> "completed"
              [] ~aborted /\ "rejected" \in claims -> "cancelled"
              [] OTHER -> "waiting")
  /\ UNCHANGED <<inst, aborted, session, agent, outcome, captured>>

-----------------------------------------------------------------------------
Next ==
  \/ Refuse \/ CalledOff \/ Begin \/ StartThrows \/ Started \/ Abort \/ CancelDone
  \/ SendThrows \/ NoPrompt \/ TypePrompt \/ ReadLog \/ ReadNothing \/ Watch
  \/ Notice \/ TurnFails
  \/ GenericTurn \/ Enter \/ ToolWrites \/ LoopEnds
  \/ AgentWrites \/ AgentStops \/ AgentAsks \/ ChildExits
  \/ Disposed \/ Conclude \/ Capture \/ Verify \/ Decide \/ Gate

Spec == Init /\ [][Next]_vars

\* What execute() awaits comes: the session (SpawnsAreServed of ProcessManager),
\* the deadline of a turn, the answer of a provider and the end of a command (all
\* three have timeouts), the end of a process that is killed.
Fairness ==
  /\ WF_vars(CalledOff \/ Begin \/ Started \/ CancelDone)
  /\ WF_vars(SendThrows \/ TypePrompt \/ ReadLog \/ ReadNothing \/ Watch)
  /\ WF_vars(TurnFails)
  /\ WF_vars(GenericTurn \/ Enter)
  /\ WF_vars(LoopEnds)
  /\ WF_vars(Killed)
  /\ WF_vars(Disposed \/ Conclude \/ Capture \/ Verify \/ Gate)

FairSpec == Spec /\ Fairness

-----------------------------------------------------------------------------
(* Properties.                                                             *)

\* execute() keeps what the GraphExecutor relies on, over three runtimes, two turns
\* and an abort at any time: nothing completes that was not claimed, a read-only
\* node that wrote is never passed off as waiting, cancelled or completed, and
\* nobody writes after the answer.
ReadOnly == inst.node = "agent" /\ ~inst.writable

Contract == INSTANCE LeafContract WITH readOnly <- ReadOnly
ImplementsContract == Contract!Spec

\* When execute() has answered, no process of its session is left, so the slot is
\* free, and the change set of a writable node holds all that was written.
NothingIsLeftBehind ==
  pc = "returned" =>
    /\ child # "alive"
    /\ inst.writable /\ result = "completed" => captured = writes

\* execute() has not answered yet.  It does, whatever the agent does or does not do: see
\* CallsReturn of MCWork.
Executing == pc # "returned"
=============================================================================
