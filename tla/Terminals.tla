------------------------------- MODULE Terminals -------------------------------
(***************************************************************************)
(* The terminals of the window: the registry in which the running steps    *)
(* of workflows publish their processes (terminal/sessionRegistry.ts), the *)
(* service that records what these and its own processes print             *)
(* (terminal/terminalService.ts), and the pane that shows one of them      *)
(* (renderer ui/primitives/RealTerminal.tsx).                              *)
(*                                                                         *)
(* What is typed and the size of the window are left out; so is the end of *)
(* a process, which the pane hears of only if it spawned it.               *)
(***************************************************************************)
EXTENDS Integers, Sequences, FiniteSets, SequencesExt

CONSTANTS
  Steps,      \* the keys of steps; what a pane spawns has a key of its own:
  Own,
  MaxBuffer,  \* the chunks that are kept of what a terminal printed
  Uses        \* bounds: records of processes, runs, chunks, visits and mine

Terminals == Steps \cup Own
None == "none"

VARIABLES
  use,         \* the bounds, which never change
  processes,   \* <<[terminal, run, alive], ...>>, in the order they started
  published,   \* step -> the process the registry has for it, 0 if it has none
  subscribed,  \* step -> the process that is listened to, 0 if there was none
  ended,       \* the runs that are over
  recorded,    \* terminal -> how many chunks were recorded: they are 1, 2, ...
  spawning,    \* the visits whose spawn() waits for its project and process
  toService,   \* calls under way
  toPane,      \* replies and chunks under way
  pane,        \* what the page shows, see Closed
  visits,      \* how often something was opened or restarted
  dismissed    \* the terminals that the page asked to kill

terminalVars ==
  <<use, processes, published, subscribed, ended, recorded, spawning, toService, toPane, pane,
    visits, dismissed>>

\* since: the chunks behind this one belong on the screen; -1 as long as none do.
Closed == [kind |-> None, terminal |-> None, visit |-> 0, mount |-> 0, held |-> FALSE,
           since |-> -1, screen |-> <<>>]

Chunks(t, from, to) == [i \in 1..(to - from + 1) |-> <<t, from + i - 1>>]

TerminalInit ==
  /\ use \in Uses
  /\ processes = <<>> /\ ended = {} /\ spawning = {} /\ toService = <<>> /\ toPane = <<>>
  /\ published = [s \in Steps |-> 0] /\ subscribed = [s \in Steps |-> 0]
  /\ recorded = [t \in Terminals |-> 0]
  /\ pane = Closed /\ visits = 0 /\ dismissed = {}

-----------------------------------------------------------------------------
(* Steps and their processes.                                              *)

\* publish(), and attachAgentSession(), which listens to the new process in place of the
\* one that had the key.
Publish(step, run) ==
  /\ Len(processes) < use.processes /\ run \notin ended
  /\ processes' = Append(processes, [terminal |-> step, run |-> run, alive |-> TRUE])
  /\ published'  = [published EXCEPT ![step] = Len(processes')]
  /\ subscribed' = [subscribed EXCEPT ![step] = Len(processes')]
  /\ UNCHANGED <<use, ended, recorded, spawning, toService, toPane, pane, visits, dismissed>>

Heard(p) ==
  LET t == processes[p].terminal IN IF t \in Own THEN TRUE ELSE subscribed[t] = p

\* recordChunk(), and the chunk goes to every window.
Prints(p) ==
  LET t == processes[p].terminal IN
  /\ processes[p].alive /\ Heard(p) /\ recorded[t] < use.chunks
  /\ recorded' = [recorded EXCEPT ![t] = @ + 1]
  /\ toPane' = Append(toPane, [kind |-> "data", terminal |-> t, chunk |-> recorded'[t]])
  /\ UNCHANGED <<use, processes, published, subscribed, ended, spawning, toService, pane, visits,
                 dismissed>>

Exit(p) ==
  /\ processes[p].alive
  /\ processes' = [processes EXCEPT ![p].alive = FALSE]
  /\ UNCHANGED <<use, published, subscribed, ended, recorded, spawning, toService, toPane, pane,
                 visits, dismissed>>

\* Variant for mutation: whatever has the key.
RetiredKeys(run) ==
  {s \in Steps : \E p \in DOMAIN processes : processes[p].terminal = s /\ processes[p].run = run}

\* retire(): a process that has replaced the one of this run stays.
Retired(run) == {s \in Steps : published[s] # 0 /\ processes[published[s]].run = run}

RunEnds(run) ==
  /\ run \notin ended
  /\ ended' = ended \cup {run}
  /\ published' = [s \in Steps |-> IF s \in Retired(run) THEN 0 ELSE published[s]]
  /\ UNCHANGED <<use, processes, subscribed, recorded, spawning, toService, toPane, pane, visits,
                 dismissed>>

-----------------------------------------------------------------------------
(* The service.                                                            *)

Oldest(t) == IF recorded[t] > MaxBuffer THEN recorded[t] - MaxBuffer + 1 ELSE 1

Buffer(call) ==
  /\ call.kind = "buffer"
  /\ toPane' = Append(toPane, [call EXCEPT !.from = Oldest(call.terminal),
                                           !.to = recorded[call.terminal]])
  /\ UNCHANGED spawning

SpawnCalled(call) ==
  call.kind = "spawn" /\ spawning' = spawning \cup {call.visit} /\ UNCHANGED toPane

\* A process that is cancelled is dead soon.
KillCalled(call) == call.kind = "kill" /\ UNCHANGED <<toPane, spawning>>

Serve ==
  /\ toService # <<>>
  /\ toService' = Tail(toService)
  /\ LET call == Head(toService) IN Buffer(call) \/ SpawnCalled(call) \/ KillCalled(call)
  /\ UNCHANGED <<use, processes, published, subscribed, ended, recorded, pane, visits, dismissed>>

Taken == {processes[p].terminal : p \in DOMAIN processes}

Spawned(visit) ==
  /\ visit \in spawning /\ Own \ Taken # {}
  /\ LET t == CHOOSE t \in Own \ Taken : TRUE IN
       /\ processes' = Append(processes, [terminal |-> t, run |-> None, alive |-> TRUE])
       /\ toPane' = Append(toPane, [kind |-> "spawned", terminal |-> t, visit |-> visit])
  /\ spawning' = spawning \ {visit}
  /\ UNCHANGED <<use, published, subscribed, ended, recorded, toService, pane, visits, dismissed>>

-----------------------------------------------------------------------------
(* The pane.                                                               *)

AskBuffer(t, again) ==
  toService' = Append(toService, [kind |-> "buffer", terminal |-> t, visit |-> visits',
                                  mount |-> pane'.mount, again |-> again, from |-> 0, to |-> 0])

\* A pane that is attached to another step keeps its screen.
Attach(step) ==
  /\ visits < use.visits /\ pane.kind \in {None, "step"} /\ pane.terminal # step
  /\ visits' = visits + 1
  /\ pane' = [Closed EXCEPT !.kind = "step", !.terminal = step, !.visit = visits',
                            !.mount = IF pane.kind = None THEN visits' ELSE pane.mount,
                            !.screen = pane.screen]
  /\ AskBuffer(step, FALSE)
  /\ UNCHANGED <<use, processes, published, subscribed, ended, recorded, spawning, toPane,
                 dismissed>>

Spawn ==
  /\ visits < use.visits /\ pane.kind = None /\ visits < use.mine
  /\ visits' = visits + 1
  /\ pane' = [Closed EXCEPT !.kind = "own", !.visit = visits', !.mount = visits']
  /\ toService' = Append(toService, [kind |-> "spawn", visit |-> visits'])
  /\ UNCHANGED <<use, processes, published, subscribed, ended, recorded, spawning, toPane,
                 dismissed>>

Kill ==
  /\ toService' = Append(toService, [kind |-> "kill", terminal |-> pane.terminal])
  /\ dismissed' = dismissed \cup {pane.terminal}

Close ==
  /\ pane.kind # None
  /\ pane' = Closed
  /\ IF pane.kind = "own" /\ pane.terminal # None THEN Kill ELSE UNCHANGED <<toService, dismissed>>
  /\ UNCHANGED <<use, processes, published, subscribed, ended, recorded, spawning, toPane, visits>>

\* The screen is emptied.  What is recorded of a step is asked for again; a terminal of its
\* own is killed, and nothing takes its place.
Restart ==
  /\ pane.kind # None /\ visits < use.visits
  /\ visits' = visits + 1
  /\ pane' = [pane EXCEPT !.screen = <<>>, !.since = -1, !.held = FALSE]
  /\ CASE pane.kind = "step" -> AskBuffer(pane.terminal, TRUE) /\ UNCHANGED dismissed
       [] pane.held -> Kill
       [] OTHER -> UNCHANGED <<toService, dismissed>>
  /\ UNCHANGED <<use, processes, published, subscribed, ended, recorded, spawning, toPane>>

ShowChunk(message) ==
  /\ message.kind = "data"
  /\ pane' = IF pane.terminal = message.terminal
             THEN [pane EXCEPT !.screen = Append(@, <<message.terminal, message.chunk>>)] ELSE pane

\* Variant for mutation: only what was not shown already.
ShowRest(message) ==
  /\ message.kind = "buffer"
  /\ pane' = IF message.visit = pane.visit
             THEN [pane EXCEPT !.since = message.from - 1] ELSE pane

\* An answer to an earlier visit is ignored, but not one to Restart on the same screen.
ShowBuffer(message) ==
  /\ message.kind = "buffer"
  /\ pane' = IF pane.kind # None /\ (IF message.again THEN message.mount = pane.mount
                                                      ELSE message.visit = pane.visit)
             THEN [pane EXCEPT !.screen = @ \o Chunks(message.terminal, message.from, message.to),
                               !.since = IF message.terminal = pane.terminal
                                         THEN message.from - 1 ELSE @]
             ELSE pane

\* Nobody kills what is spawned for a pane that was closed by then.
HoldSpawned(message) ==
  /\ message.kind = "spawned"
  /\ pane' = IF pane.visit = message.visit
             THEN [pane EXCEPT !.terminal = message.terminal, !.held = TRUE, !.since = 0] ELSE pane

Show ==
  /\ toPane # <<>>
  /\ toPane' = Tail(toPane)
  /\ LET message == Head(toPane) IN
     ShowChunk(message) \/ ShowBuffer(message) \/ HoldSpawned(message)
  /\ UNCHANGED <<use, processes, published, subscribed, ended, recorded, spawning, toService,
                 visits, dismissed>>

TerminalNext ==
  \/ \E s \in Steps, r \in use.runs : Publish(s, r)
  \/ \E p \in DOMAIN processes : Prints(p) \/ Exit(p)
  \/ \E r \in use.runs : RunEnds(r)
  \/ Serve \/ \E v \in spawning : Spawned(v)
  \/ \E s \in Steps : Attach(s)
  \/ Spawn \/ Close \/ Restart \/ Show

\* A terminal the page dismissed, and that may still run.
Condemned(p) == processes[p].alive /\ processes[p].terminal \in dismissed
Closing == \E p \in DOMAIN processes : Condemned(p)

\* Calls are served, and cancel() ends a process: see SpawnsAreServed of ProcessManager.
TerminalFairness ==
  WF_terminalVars(Serve) /\ WF_terminalVars(\E p \in DOMAIN processes : Condemned(p) /\ Exit(p))

-----------------------------------------------------------------------------
(* Properties.                                                             *)

\* A step has the process that was published last as long as its run goes on, though the
\* one it replaced is retired later (sessionRegistry.ts:70), and that one is listened to.
LatestIsFound ==
  \A s \in Steps : LET of == {p \in DOMAIN processes : processes[p].terminal = s}
                       latest == CHOOSE p \in of : \A q \in of : q <= p IN
    of # {} => /\ subscribed[s] = latest
               /\ processes[latest].run \notin ended => published[s] = latest

\* Nothing is missing behind what a pane was given first, whatever was printed while it
\* attached: the chunks of its terminal end with all that were recorded since, in their
\* order (RealTerminal.tsx:177).
PaneMissesNothing ==
  pane.since >= 0 =>
    LET t == pane.terminal
        coming == SelectSeq(toPane, LAMBDA m : m.kind = "data")
        seen   == SelectSeq(pane.screen \o [i \in DOMAIN coming |->
                              <<coming[i].terminal, coming[i].chunk>>], LAMBDA c : c[1] = t)
    IN IsSuffix(Chunks(t, pane.since + 1, recorded[t]), seen)

TerminalsShowTheirProcess == LatestIsFound /\ PaneMissesNothing
=============================================================================
