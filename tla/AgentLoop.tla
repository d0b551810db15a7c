------------------------------- MODULE AgentLoop -------------------------------
(***************************************************************************)
(* Forge's own agent: a session of NativeAgentRuntime or a turn of the     *)
(* chat page (runtimes/nativeAgentRuntime.ts, providers/agentTurn.ts), the *)
(* loop between a model and its tools (providers/agentLoop.ts) and what    *)
(* the tools do to the files of the workspace (providers/tools.ts).        *)
(*                                                                         *)
(* A file is what edit_file sees of it: how often the text to replace      *)
(* occurs.  The model answers anything, and calls any tool.  What a        *)
(* command writes is not modelled, only that it ran.                       *)
(***************************************************************************)
EXTENDS Integers, FiniteSets

CONSTANTS
  Jobs,           \* the turns that may be asked for, see below
  ChatScope,      \* CHAT_WRITE_SCOPE
  NeverWritable,  \* NEVER_WRITABLE
  OutsidePaths,   \* those that lead out of the workspace
  MaxRounds       \* DEFAULT_MAX_ROUNDS

\* A job is a record
\*   session     whether a runtime session asks, or the chat page
\*   model       whether a model is selected
\*   capable     whether the model can call tools
\*   asks        whether the message asks for a change
\*   allowed     the scope of the packet, {} if it has none
\*   forbidden   what the packet forbids
\*   files       the workspace: [path -> "absent", "once" or "twice"]

VARIABLES
  job,
  sent,      \* turns begun
  state,     \* of the session
  shut,      \* "no", "cancelled" or "disposed"
  history,   \* exchanges the session remembers
  round,     \* of the turn in flight, 0 before and after
  calls,     \* calls of the last completion that have not run
  nudged,
  used,      \* of this turn: "tool", any ran; "change", one that writes succeeded
  answer,    \* of the last turn: "none", "text", "empty", "error", "limit"
  files

loopVars == <<job, sent, state, shut, history, round, calls, nudged, used, answer, files>>

WorkspacePaths == DOMAIN job.files

-----------------------------------------------------------------------------
(* What a turn decides before it begins.                                   *)

\* A correction of a session that has a history: one round, without tools.
Correcting == job.session /\ sent = 2 /\ history > 0

ToolsEnabled == job.capable /\ ~Correcting
Rounds       == IF Correcting THEN 1 ELSE MaxRounds

\* An empty scope of a packet is no scope; a chat turn has none.
AllowedPaths == IF job.session /\ job.allowed # {} THEN job.allowed ELSE ChatScope

\* Variant for mutation: what the packet forbids replaces what is always forbidden.
ForbiddenReplaced == IF job.forbidden # {} THEN job.forbidden ELSE NeverWritable
ForbiddenPaths == NeverWritable \cup job.forbidden

\* The last user message: the objective, or the text of the correction, which
\* tells the agent not to redo the work (it names no change).
AsksForChange == ToolsEnabled /\ job.asks

-----------------------------------------------------------------------------
(* Tools.  Each returns whether it succeeded; two of them change a file.   *)

ResolvesInWorkspace(p) == p \notin OutsidePaths
IsWriteAllowed(p)      == p \in AllowedPaths \ ForbiddenPaths
MayWrite(p)            == ToolsEnabled /\ ResolvesInWorkspace(p) /\ IsWriteAllowed(p)

Changed(p, to) ==
  /\ files' = [files EXCEPT ![p] = to]
  /\ used' = used \cup {"tool", "change"}

WriteFileTool(p) == MayWrite(p) /\ Changed(p, "written")

\* The text has to occur exactly once; what was replaced does not occur any more.
EditFileTool(p) == MayWrite(p) /\ files[p] = "once" /\ Changed(p, "edited")

\* A tool that reads, a command, a tool that does not exist, and whatever is refused or
\* fails: the model is told.
OtherTool == used' = used \cup {"tool"} /\ UNCHANGED files

RunTool == OtherTool \/ \E p \in WorkspacePaths : WriteFileTool(p) \/ EditFileTool(p)

-----------------------------------------------------------------------------
(* The loop.                                                               *)

Owed == AsksForChange /\ "change" \notin used

InFlight == round > 0

\* The turn is over: what send() makes of its result, unless it was cancelled.
EndTurn(a) ==
  /\ round' = 0 /\ calls' = 0 /\ answer' = a
  /\ IF shut = "cancelled" \/ ~job.session THEN UNCHANGED <<state, history>>
     ELSE IF a \in {"error", "limit"} THEN state' = "failed" /\ UNCHANGED history
     ELSE state' = "completed" /\ history' = history + 1

NextRound(r) ==
  IF r > Rounds THEN EndTurn("limit")
  ELSE round' = r /\ calls' = 0 /\ UNCHANGED <<state, history, answer>>

CompletionFails ==
  /\ InFlight /\ calls = 0
  /\ EndTurn("error")
  /\ UNCHANGED <<job, sent, shut, nudged, used, files>>

Nudge ==
  /\ InFlight /\ calls = 0 /\ Owed /\ ~nudged
  /\ nudged' = TRUE
  /\ NextRound(round + 1)
  /\ UNCHANGED <<job, sent, shut, used, files>>

ChangeSettled == Owed => nudged

\* Without a word after its tools, the model is quoted from its reasoning.
Answers(content, thought) ==
  /\ InFlight /\ calls = 0 /\ ChangeSettled
  /\ EndTurn(IF content = "empty" /\ "tool" \in used THEN thought ELSE content)
  /\ UNCHANGED <<job, sent, shut, nudged, used, files>>

\* Whatever the model asks for is tried, whether or not it was offered tools.
CallsTools(n) ==
  /\ InFlight /\ calls = 0
  /\ calls' = n
  /\ UNCHANGED <<job, sent, state, shut, history, round, nudged, used, answer, files>>

ToolRuns ==
  /\ calls > 0
  /\ RunTool
  /\ IF calls > 1
     THEN calls' = calls - 1 /\ UNCHANGED <<state, history, round, answer>>
     ELSE NextRound(round + 1)
  /\ UNCHANGED <<job, sent, shut, nudged>>

-----------------------------------------------------------------------------
(* The session.                                                            *)

LoopInit ==
  /\ job \in Jobs
  /\ sent = 0 /\ state = "idle" /\ shut = "no" /\ history = 0
  /\ round = 0 /\ calls = 0 /\ nudged = FALSE /\ used = {} /\ answer = "none"
  /\ files = job.files

\* A second packet of a session is a correction: its first reply was no report.
SendTurn ==
  /\ ~InFlight /\ shut = "no"
  /\ sent = 0 \/ (sent = 1 /\ state = "completed")
  /\ sent' = sent + 1
  /\ nudged' = FALSE /\ used' = {}
  /\ IF job.session /\ ~job.model
     THEN state' = "failed" /\ answer' = "error" /\ UNCHANGED round
     ELSE /\ state' = IF job.session THEN "working" ELSE state
          /\ round' = 1 /\ answer' = "none"
  /\ UNCHANGED <<job, shut, history, calls, files>>

\* cancel() and dispose(): the loop has no signal to interrupt.
Close(how) ==
  /\ job.session /\ shut = "no"
  /\ shut' = how
  /\ state' = IF how = "cancelled" THEN "cancelled" ELSE state
  /\ UNCHANGED <<job, sent, history, round, calls, nudged, used, answer, files>>

LoopNext ==
  \/ SendTurn \/ Close("cancelled") \/ Close("disposed") \/ CompletionFails \/ Nudge \/ ToolRuns
  \/ \E content, thought \in {"text", "empty"} : Answers(content, thought)
  \/ \E n \in 1..2 : CallsTools(n)

\* A provider answers, and a tool returns; the chat page and exchange() wait for both.
LoopFairness ==
  /\ WF_loopVars(ToolRuns)
  /\ WF_loopVars(CompletionFails \/ Nudge \/ (\E n \in 1..2 : CallsTools(n))
                 \/ \E content, thought \in {"text", "empty"} : Answers(content, thought))

LoopSpec == LoopInit /\ [][LoopNext]_loopVars /\ LoopFairness

-----------------------------------------------------------------------------
(* Properties.                                                             *)

\* Whatever the model asks for, a file that the tools changed is one of the workspace that
\* the packet (or, without a scope, the chat) may write and nothing forbids, of a model with tools
\* (tools.ts:166, agentTurn.ts:220); a turn that owed a change and succeeded without one
\* was asked for it again (agentLoop.ts:147); what a cancelled session still does changes
\* neither its state nor what it remembers; and a session that completed twice has not
\* touched a file the second time.
TurnsStayInBounds ==
  /\ \A p \in WorkspacePaths : files[p] # job.files[p] =>
       /\ job.capable
       /\ p \in (IF job.session /\ job.allowed # {} THEN job.allowed ELSE ChatScope)
       /\ p \notin NeverWritable \cup job.forbidden \cup OutsidePaths
  /\ (answer \in {"text", "empty"} /\ job.asks /\ job.capable /\ sent = 1
        /\ \A p \in WorkspacePaths : files[p] = job.files[p]) => nudged
  /\ shut = "cancelled" => state = "cancelled"
  /\ history <= sent /\ (sent = 2 => history > 0 /\ used \subseteq {"tool"})
=============================================================================
