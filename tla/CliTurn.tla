-------------------------------- MODULE CliTurn --------------------------------
(***************************************************************************)
(* What passes between exchange() (runtimes/exchange.ts) and the runtimes  *)
(* that run a command-line agent once per prompt (claudeCliRuntime.ts and  *)
(* antigravityCliRuntime.ts over pipeProcessRunner.ts) or a script         *)
(* (mockRuntime.ts): the process, the lines it writes, the events they     *)
(* become, and the turn that is put together from these.  Nobody registers *)
(* these runtimes in the application; the tests and the next adapter do.   *)
(*                                                                         *)
(* AgentSession has the runtimes that are registered, and the audit of     *)
(* what an agent did; here it is events that matter.                       *)
(***************************************************************************)
EXTENDS Integers, Sequences, FiniteSets, SequencesExt

CONSTANT CliCalls

(* A call is a record of                                                   *)
(*   runtime   "claude", "antigravity" or "mock"                           *)
(*   account   "none", "enrolled" or "unknown"                             *)
(*   attempts  <<first, second>>, each a record:                           *)
(*     of a CLI: lines, of "banner", "tool", "tools" (of one message),     *)
(*       "done" (a tool is), "warning" (a limit is spent, but not what is  *)
(*       beyond it), "spent", "refused", and the terminal "report",        *)
(*       "malformed", "fenced" or "prose"                                  *)
(*     ended, whether the last line has its newline; code, the exit code;  *)
(*     hangs, whether it ends only if it is killed                         *)
(*     of a script: ending, as in scenario.ts                              *)
(*   stderr    how many chunks of it there may be                          *)
(*   aborts    whether the caller may cancel                               *)

Terminal == {"report", "malformed", "fenced", "prose"}

VARIABLES
  call,      \* which never changes
  phase,     \* of exchange(): "started", "sending", "collecting", "judging", "answered",
             \* "disposed"
  attempt,   \* the attempt, 1 or 2
  state,     \* of the session
  aborted,   \* its signal
  runs,      \* the processes: [out, said, closed, killed, spent, refused]; out is the number of
             \* half lines it wrote, said that of its chunks of stderr
  events,    \* pendingEvents
  parked,    \* whether events() waits to be woken
  turn,      \* what collectTurn() has: [kind, text, working, tools]
  verdict    \* the outcome of the exchange

cliVars == <<call, phase, attempt, state, aborted, runs, events, parked, turn, verdict>>

NoText == [kind |-> "open", text |-> <<>>, working |-> FALSE, tools |-> <<>>]

State(s)  == <<"state", s>>
Chunk(t)  == <<"chunk", t>>
Fault(s)  == <<"error", s>>

CliInit ==
  /\ call \in CliCalls
  /\ phase = "started" /\ attempt = 1 /\ state = "idle" /\ aborted = FALSE
  /\ runs = <<>> /\ parked = FALSE /\ turn = NoText /\ verdict = "none"
  /\ events = IF call.runtime = "mock" THEN <<State("idle")>> ELSE <<>>

Here == call.attempts[attempt]
Cli  == call.runtime # "mock"

\* pushEvent(): whoever waits for events is woken.
Push(more) == events' = events \o more /\ parked' = (parked /\ more = <<>>)

-----------------------------------------------------------------------------
(* send() of a CLI: a process of its own for every prompt.                 *)

\* Variant for mutation: a signal that was given before is never heard.
StartedDeaf == [out |-> 0, said |-> 0, closed |-> FALSE, killed |-> FALSE,
                spent |-> FALSE, refused |-> FALSE]

Started == [StartedDeaf EXCEPT !.killed = aborted]

NoAccount ==
  /\ phase = "started" /\ Cli /\ call.runtime = "claude" /\ call.account = "unknown"
  /\ phase' = "collecting" /\ state' = "failed"
  /\ Push(<<State("working"), Fault("final")>>)
  /\ turn' = NoText
  /\ UNCHANGED <<call, attempt, aborted, runs, verdict>>

SendToCli ==
  /\ phase = "started" /\ Cli /\ ~(call.runtime = "claude" /\ call.account = "unknown")
  /\ phase' = "collecting" /\ state' = "working"
  /\ Push(<<State("working")>>)
  /\ runs' = Append(runs, Started)
  /\ turn' = NoText
  /\ UNCHANGED <<call, attempt, aborted, verdict>>

-----------------------------------------------------------------------------
(* The process.                                                            *)

Lines(i)  == call.attempts[i].lines
Halves(i) == 2 * Len(Lines(i))

\* The lines that are complete after so many halves of them.
CompleteLines(i, halves) ==
  IF halves = Halves(i) /\ ~call.attempts[i].ended THEN (halves - 1) \div 2 ELSE halves \div 2

\* Variant for mutation: what a chunk begins in the middle of is lost.
TakeWholeLines(i, from, to) ==
  SubSeq(Lines(i), (from + 1) \div 2 + 1, CompleteLines(i, to))

\* takeCompleteLines(), the tail of the last chunk before this one.
TakeCompleteLines(i, from, to) ==
  SubSeq(Lines(i), CompleteLines(i, from) + 1, CompleteLines(i, to))

\* observeStreamLine(): a message may announce several tools; what they return is ignored.
ClaudeTools(line) ==
  CASE line = "tool" -> <<"tool">> [] line = "tools" -> <<"tool", "tool">> [] OTHER -> <<>>

\* observeAntigravityLine(): a tool is announced when it begins, not when it is done.
AntigravityTools(line) == IF line = "tool" THEN <<"tool">> ELSE <<>>

Tools(lines) ==
  FlattenSeq([k \in DOMAIN lines |-> IF call.runtime = "claude" THEN ClaudeTools(lines[k])
                                                               ELSE AntigravityTools(lines[k])])

LimitReached(lines) == call.runtime = "claude" /\ "spent" \in ToSet(lines)

RefusedBeforeStarting(lines) == call.runtime = "antigravity" /\ "refused" \in ToSet(lines)

Alive(i) == i \in DOMAIN runs /\ ~runs[i].closed

\* onStdout(): only tools become events while the process runs.
Write(i, n) ==
  /\ Alive(i) /\ runs[i].out + n <= Halves(i)
  /\ LET lines == TakeCompleteLines(i, runs[i].out, runs[i].out + n) IN
       /\ runs' = [runs EXCEPT ![i].out = @ + n,
                               ![i].spent = @ \/ LimitReached(lines),
                               ![i].refused = @ \/ RefusedBeforeStarting(lines)]
       /\ Push([k \in DOMAIN Tools(lines) |-> <<"tool", Tools(lines)[k]>>])
  /\ UNCHANGED <<call, phase, attempt, state, aborted, turn, verdict>>

\* onStderr(): whatever it is, it becomes part of the reply.
Complain(i) ==
  /\ Alive(i) /\ runs[i].said < call.stderr
  /\ runs' = [runs EXCEPT ![i].said = @ + 1]
  /\ Push(<<Chunk("stderr")>>)
  /\ UNCHANGED <<call, phase, attempt, state, aborted, turn, verdict>>

\* finish() of the runner, with the first reason there is: the time without output, or of
\* the whole turn, is over.
TimesOut(i) ==
  /\ Alive(i) /\ call.attempts[i].hangs /\ ~runs[i].killed
  /\ runs' = [runs EXCEPT ![i].killed = TRUE]
  /\ UNCHANGED <<call, phase, attempt, state, aborted, events, parked, turn, verdict>>

\* The exit code of a process that was killed is never 0.
ExitCode(i) == IF runs[i].killed THEN 1 ELSE call.attempts[i].code

\* findTerminalResult() reads all of the output, from its end, whether the last line has
\* its newline or not; half a line is no JSON.
Reply(i) ==
  LET whole   == SubSeq(Lines(i), 1, runs[i].out \div 2)
      results == SelectSeq(whole, LAMBDA l : l \in Terminal)
  IN CASE results # <<>>     -> <<Chunk(Last(results)), <<"usage">>>>
       [] runs[i].out > 0    -> <<Chunk("output")>>
       [] OTHER              -> <<>>

\* The rest of executeWithRunner(), when the process is closed.
EndOfRun(i) ==
  CASE runs[i].spent                            -> [state |-> "failed", say |-> <<Fault("limit")>>]
    [] runs[i].refused                          -> [state |-> "failed", say |-> <<Fault("again")>>]
    [] ExitCode(i) # 0 /\ runs[i].out = 0       -> [state |-> "failed", say |-> <<Fault("again")>>]
    [] OTHER -> [state |-> "completed", say |-> Append(Reply(i), State("completed"))]

Close(i) ==
  /\ Alive(i)
  /\ runs[i].killed \/ (runs[i].out = Halves(i) /\ ~call.attempts[i].hangs)
  /\ runs' = [runs EXCEPT ![i].closed = TRUE]
  /\ state' = EndOfRun(i).state
  /\ Push(EndOfRun(i).say)
  /\ UNCHANGED <<call, phase, attempt, aborted, turn, verdict>>

-----------------------------------------------------------------------------
(* The script.                                                             *)

\* send(): a session that is over takes nothing more, unless its script ended it well.
SendRefused ==
  /\ phase = "started" /\ ~Cli /\ state \in {"cancelled", "failed"}
  /\ phase' = "answered" /\ verdict' = "throws"
  /\ UNCHANGED <<call, attempt, state, aborted, runs, events, parked, turn>>

SendToScript ==
  /\ phase = "started" /\ ~Cli /\ state \notin {"cancelled", "failed"}
  /\ phase' = "sending" /\ state' = "working"
  /\ Push(<<State("working"), Chunk("narration"), <<"tool", "tool">>>>)
  /\ turn' = NoText
  /\ UNCHANGED <<call, attempt, aborted, runs, verdict>>

\* The edits are waited for, and the state that the step ends in is written over whatever
\* became of the session meanwhile.
ScriptEnds(s, more) ==
  /\ phase' = "collecting" /\ state' = s /\ Push(more)
  /\ UNCHANGED <<call, attempt, aborted, runs, turn, verdict>>

EndOfStep ==
  /\ phase = "sending"
  /\ CASE Here.ending = "report"  -> ScriptEnds("completed", <<<<"result">>, State("completed")>>)
       [] Here.ending = "silent"  -> ScriptEnds(state, <<>>)
       [] Here.ending = "crash"   -> ScriptEnds("failed", <<Fault("again"), State("failed")>>)
       [] Here.ending = "limit"   -> ScriptEnds("failed", <<Fault("limit")>>)
       [] Here.ending = "auth"    -> ScriptEnds("failed", <<Fault("final"), State("failed")>>)
       [] OTHER                   -> ScriptEnds("idle", <<Chunk(Here.ending), State("idle")>>)

-----------------------------------------------------------------------------
(* cancel() of the session: the process is signalled, but not waited for.  *)

Over(s) == s \in {"completed", "failed", "cancelled"}

Cancel ==
  /\ call.aborts /\ ~aborted /\ phase # "disposed" /\ ~(phase = "started" /\ attempt = 1)
  /\ aborted' = TRUE
  /\ runs' = [i \in DOMAIN runs |-> [runs[i] EXCEPT !.killed = @ \/ ~runs[i].closed]]
  /\ IF Cli \/ ~Over(state)
     THEN state' = "cancelled" /\ Push(<<State("cancelled")>>)
     ELSE UNCHANGED <<state, events, parked>>
  /\ UNCHANGED <<call, phase, attempt, turn, verdict>>

-----------------------------------------------------------------------------
(* collectTurn().                                                          *)

Wait ==
  /\ phase = "collecting" /\ turn.kind = "open" /\ events = <<>> /\ ~parked
  /\ parked' = TRUE
  /\ UNCHANGED <<call, phase, attempt, state, aborted, runs, events, turn, verdict>>

\* Variant for mutation: the idle event of a session that was just started ends its turn.
EndsAny(event) == event[1] = "state" /\ event[2] # "working"

\* idle ends a turn only once the session has worked.
Ends(event) ==
  event[1] = "state" /\ (event[2] \in {"completed", "failed", "cancelled"}
                         \/ (event[2] = "idle" /\ turn.working))

Taken(event) ==
  CASE event[1] = "chunk"          -> [turn EXCEPT !.text = Append(@, event[2])]
    [] event[1] = "result"         -> [turn EXCEPT !.kind = "report"]
    [] event[1] = "error"          -> [turn EXCEPT !.kind = event[2]]
    [] event[1] = "tool"           -> [turn EXCEPT !.tools = Append(@, event[2])]
    [] event = State("working")    -> [turn EXCEPT !.working = TRUE]
    [] Ends(event)                 -> [turn EXCEPT !.kind = "text"]
    [] OTHER                       -> turn

Take ==
  /\ phase = "collecting" /\ turn.kind = "open" /\ events # <<>> /\ ~parked
  /\ events' = Tail(events)
  /\ turn' = Taken(Head(events))
  /\ UNCHANGED <<call, phase, attempt, state, aborted, runs, parked, verdict>>

-----------------------------------------------------------------------------
(* exchange(): what the turn comes to.                                     *)

\* parseAgentReport(): of two blocks the last one is read, as both are no JSON together;
\* without a block, JSON with a status will do.
Parsed ==
  LET blocks == SelectSeq(turn.text, LAMBDA t : t \in {"report", "malformed"}) IN
  CASE blocks # <<>>                    -> Last(blocks)
    [] "fenced" \in ToSet(turn.text)    -> "report"
    [] ToSet(turn.text) \cap {"prose", "output", "narration"} # {} -> "prose"
    [] OTHER                            -> "nothing"

Collected == phase = "collecting" /\ turn.kind # "open"

Answer ==
  /\ Collected
  /\ turn.kind # "text" \/ Parsed = "report" \/ attempt = 2
  /\ phase' = "answered"
  /\ verdict' = CASE turn.kind \in {"final", "again", "limit"}     -> turn.kind
                  [] turn.kind = "report" \/ Parsed = "report"     -> "accepted"
                  [] Parsed = "prose"                              -> "blocked"
                  [] OTHER                                         -> "protocol"
  /\ UNCHANGED <<call, attempt, state, aborted, runs, events, parked, turn>>

\* Once more, with what was wrong.
Correct ==
  /\ Collected
  /\ turn.kind = "text" /\ Parsed # "report" /\ attempt = 1
  /\ phase' = "started" /\ attempt' = 2
  /\ UNCHANGED <<call, state, aborted, runs, events, parked, turn, verdict>>

\* dispose(), by whoever called exchange(), in a finally.
Dispose ==
  /\ phase = "answered"
  /\ phase' = "disposed"
  /\ UNCHANGED <<call, attempt, state, aborted, runs, events, parked, turn, verdict>>

CliNext ==
  \/ NoAccount \/ SendToCli \/ SendRefused \/ SendToScript \/ EndOfStep
  \/ \E i \in DOMAIN runs : (\E n \in 1..4 : Write(i, n)) \/ Complain(i) \/ TimesOut(i) \/ Close(i)
  \/ Cancel \/ Wait \/ Take \/ Answer \/ Correct \/ Dispose

\* Forge goes on; a process writes and ends, or is killed when its time is over, and then
\* closes its pipes.
CliFairness ==
  /\ WF_cliVars(NoAccount \/ SendToCli \/ SendRefused \/ SendToScript \/ EndOfStep
                \/ Wait \/ Take \/ Answer \/ Correct \/ Dispose)
  /\ WF_cliVars(\E i \in DOMAIN runs : (\E n \in 1..4 : Write(i, n)) \/ TimesOut(i) \/ Close(i))

\* A script that says nothing more has no end of its own.
Conversing == phase # "disposed" /\ (Cli \/ Here.ending # "silent")

-----------------------------------------------------------------------------
(* Properties.                                                             *)

\* The lines of the last process that it wrote to their end.
Written == SubSeq(Lines(attempt), 1, CompleteLines(attempt, runs[attempt].out))

LastResult ==
  LET all == SelectSeq(SubSeq(Lines(attempt), 1, runs[attempt].out \div 2),
                       LAMBDA l : l \in Terminal)
  IN IF all = <<>> THEN {} ELSE {Last(all)}

\* A turn nobody cancelled is what its own process said, wherever its output was cut: the
\* tools in their order, a limit if it was told of one, and otherwise its last result, once,
\* with nothing of the wire around it (claudeCliRuntime.ts:320, claudeStream.ts:77).
TurnsTellWhatWasSaid ==
  (Collected /\ ~aborted /\ Cli /\ runs # <<>>) =>
    LET replies == SelectSeq(turn.text, LAMBDA t : t # "stderr") IN
    /\ Len(runs) = attempt /\ runs[attempt].closed /\ events = <<>>
    /\ turn.tools = Tools(Written)
    /\ turn.kind = "limit" <=> LimitReached(Written)
    /\ turn.kind = "text" /\ LastResult # {} => Len(replies) = 1 /\ ToSet(replies) = LastResult

\* exchange() accepts only what the agent of that attempt reported, as long as nobody
\* cancels, and what is said at the beginning or at the end of one attempt does not end the
\* next one (exchange.ts:82).
ReportsAreTheirOwn ==
  (verdict # "none" /\ ~aborted) =>
    (verdict = "accepted") =
      IF Cli THEN runs # <<>> /\ LastResult \subseteq {"report", "fenced"} /\ LastResult # {}
                  /\ ~runs[attempt].spent /\ ~runs[attempt].refused
             ELSE Here.ending \in {"report", "fenced"}

\* A session leaves no process behind that was not told to go, however late its caller
\* cancelled (pipeProcessRunner.ts:111).
NoCliIsLeft == phase = "disposed" => \A i \in DOMAIN runs : runs[i].closed \/ runs[i].killed

\* Who waits for events is woken for each.
NobodySleepsOnEvents == parked => events = <<>>

CliTurnsAreHeard ==
  TurnsTellWhatWasSaid /\ ReportsAreTheirOwn /\ NoCliIsLeft /\ NobodySleepsOnEvents
=============================================================================
