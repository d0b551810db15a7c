--------------------------------- MODULE MCWork ---------------------------------
(***************************************************************************)
(* Whoever does the work: the sessions of AgentSession, the calls of       *)
(* DirectTask and the turns of AgentLoop; what they may do and are told,   *)
(* Policies, and hand to one another, ArtifactFlow; what command lines and *)
(* providers say, CliTurn, HostedScreen and ChatStream; what Forge reads   *)
(* of the files that they change, GitReading; and the pages on which a     *)
(* user asks for it and sees it done: Conversation, WorkflowPage,          *)
(* TemplateStudio, Terminals, ChangesView, and those that choose a model,  *)
(* ModelChoice, or a project, ProjectPicker.  They share no state, so they *)
(* are checked side by side: a behaviour is one of them, while the others  *)
(* have been answered.                                                     *)
(***************************************************************************)
EXTENDS Integers, Sequences, TLC, AgentSession, DirectTask, AgentLoop, Policies

CONSTANT Works   \* a subset of {"sessions", "turns", "policies", "tasks", "default",
                 \* "artifacts", "files", "wires", "pages"}; "default" is a task with the
                 \* runtime of Forge

VARIABLES wiring, tries, status, things, at, written, records, disk, known, lineage, next, given

artifactVars ==
  <<wiring, tries, status, things, at, written, records, disk, known, lineage, next, given>>

VARIABLES scene, moment, head, index, worktree, base, owed, said, acts, touched, always, ever,
          quiet, staged

fileVars ==
  <<scene, moment, head, index, worktree, base, owed, said, acts, touched, always, ever, quiet,
    staged>>

VARIABLES call, exchanging, nth, agentState, signalled, spawned, events, parked, turn, verdict

cliVars ==
  <<call, exchanging, nth, agentState, signalled, spawned, events, parked, turn, verdict>>

VARIABLES response, reading, read, pending, inThinking, content, reasoning, ok

streamVars == <<response, reading, read, pending, inThinking, content, reasoning, ok>>

VARIABLES cli, stage, screens, screen, nthTurn, ticks, lastSeen, quietFor, sawWork, outcomes,
          typedAt, hurried

screenVars ==
  <<cli, stage, screens, screen, nthTurn, ticks, lastSeen, quietFor, sawWork, outcomes, typedAt,
    hurried>>

VARIABLES mounted, visit, threads, stored, active, created, thinking, live, asked, turns, foreign

chatVars ==
  <<mounted, visit, threads, stored, active, created, thinking, live, asked, turns, foreign>>

VARIABLES page, workflows, decided, starting, toMain, toPage, chosen, choices, shown, acting

pageVars ==
  <<page, workflows, decided, starting, toMain, toPage, chosen, choices, shown, acting>>

VARIABLES clicks, minted, library, templatesV2, studioMode, away, editingTemplate, canvas,
          toLibrary, toStudio

studioVars ==
  <<clicks, minted, library, templatesV2, studioMode, away, editingTemplate, canvas, toLibrary,
    toStudio>>

VARIABLES use, processes, published, subscribed, ended, recorded, spawning, toService, toPane,
          pane, visits, dismissed

terminalVars ==
  <<use, processes, published, subscribed, ended, recorded, spawning, toService, toPane, pane,
    visits, dismissed>>

VARIABLES opened, kept, here, publishing, inUse, scans, openings, edits, entered, late

choiceVars ==
  <<opened, kept, here, publishing, inUse, scans, openings, edits, entered, late>>

VARIABLES bounds, held, bound, asking, cached, selected, detail, form, picks, entries, disturbed

pickerVars ==
  <<bounds, held, bound, asking, cached, selected, detail, form, picks, entries, disturbed>>

VARIABLES contents, project, chosenFile, diff, text, fetches, editor, moves, troubles, missed,
          astray, overwritten

viewVars ==
  <<contents, project, chosenFile, diff, text, fetches, editor, moves, troubles, missed, astray,
    overwritten>>

taskVars == <<task, cmd>>

-----------------------------------------------------------------------------
(* Sessions: every runtime, read-only and writable, aborted at any time; a *)
(* process that lingers, if nobody aborts; early failures; the other two   *)
(* kinds of node.                                                          *)

Agent(runtime, writable) ==
  [node |-> "agent", runtime |-> runtime, writable |-> writable,
   replies |-> {"completed", "blocked", "prose", "malformed"},
   objective |-> "prose", faults |-> {}, aborts |-> TRUE, lingers |-> FALSE, writes |-> 2]

Leaves ==
  {Agent(r, w) : r \in {"hosted", "generic", "native"}, w \in BOOLEAN}
  \cup {[Agent(r, w) EXCEPT !.lingers = TRUE, !.aborts = FALSE] :
          r \in {"hosted", "generic"}, w \in BOOLEAN}
  \cup {[Agent("native", w) EXCEPT !.faults = {"refuse", "start", "measure", "policy", "scope"}] :
          w \in BOOLEAN}
  \cup {[Agent("native", FALSE) EXCEPT !.node = n] : n \in {"verification", "user_gate"}}

-----------------------------------------------------------------------------
(* Direct tasks: with a command and a scope; without commands, any step of *)
(* which may fail; a verification node with both commands, which may be    *)
(* aborted; and, as the command line starts it, with the runtime of Forge. *)

Order(tooling, allowed) ==
  [caller |-> "task", ends |-> TRUE, tooling |-> tooling, allowed |-> allowed,
   forbidden |-> {}, refuses |-> FALSE, throws |-> FALSE, aborts |-> FALSE]

Ordered ==
  {Order({"tests"}, {"src"}),
   [Order({}, {}) EXCEPT !.forbidden = {"etc"}, !.refuses = TRUE, !.throws = TRUE],
   [Order({"build", "tests"}, {}) EXCEPT !.caller = "node", !.aborts = TRUE]}

ByDefault == {[Order({"tests"}, {}) EXCEPT !.ends = FALSE]}

OrdersUnderCheck == IF "default" \in Works THEN ByDefault ELSE Ordered

-----------------------------------------------------------------------------
(* Turns of Forge's own agent: of a session with and without a scope, with *)
(* and without tools, and without a model; and of the chat page.           *)

Turn(runtime, capable, asks, allowed, forbidden) ==
  [session |-> runtime, model |-> TRUE, capable |-> capable, asks |-> asks,
   allowed |-> allowed, forbidden |-> forbidden,
   files |-> [src |-> "once", docs |-> "twice", lock |-> "once", outside |-> "once"]]

Turns ==
  {Turn(TRUE, c, TRUE, a, f) :
     c \in BOOLEAN, a \in {{}, {"src", "lock", "outside"}}, f \in {{}, {"docs"}}}
  \cup {Turn(FALSE, c, a, {}, {}) : c, a \in BOOLEAN}
  \cup {[Turn(TRUE, TRUE, FALSE, {}, {}) EXCEPT !.model = m] : m \in BOOLEAN}

-----------------------------------------------------------------------------
(* Policies: three rules of the user and one of Forge; every node with the *)
(* bindings of each level; packets of up to five files; reports.           *)

Rule(scope, key, statement) ==
  [scope |-> scope, key |-> key, statement |-> statement, source |-> "user"]

UserRules ==
  {Rule(s, k, v) : s \in {"global", "project", "task"}, k \in {"maxIterations", "maxRetries"},
                   v \in {"other", "outside", "noise"}}
  \cup {Rule(s, "R1", "own") : s \in {"global", "project"}}

ForgeRule == [Rule("global", "R1", "forge") EXCEPT !.source = "forge"]

RuleQuestions ==
  {[kind |-> "rules", rules |-> {ForgeRule} \cup R] :
     R \in {R \in {{r, s, t} : r, s, t \in UserRules} :
              \A r, s \in R : (r.scope = s.scope /\ r.key = s.key) => r = s}}

AnyRole == {"planner", "implementer", "reviewer", "tester"}
NoneBound == [runtime |-> "none", permissions |-> {}]
Narrow(permission) == [runtime |-> "full", permissions |-> {permission}]

StepQuestions ==
  [kind : {"step"}, role : AnyRole, provider : {"none", "full", "reader", "gone"},
   mode : {"read-only", "developer", "full-access"}, diff : BOOLEAN,
   execution : {NoneBound}
     \cup [runtime : {"full", "reader", "gone"}, permissions : {{}, {"writeFiles", "runTests"}}],
   composition : {NoneBound, Narrow("runTests")}, chosen : {"none", "reader"},
   byDefault : {"none", "full"}]

ReportQuestions ==
  [kind : {"report"}, role : AnyRole, binding : {NoneBound, Narrow("runBuild")},
   claimed : SUBSET {"code", "secret", "forbidden"}, measured : BOOLEAN,
   changed : {{}, {"code"}},
   commands : {{"plain"}, {"dangerous"}, {"git-write"}, {"tests"}, {"tests", "build"}}]

File(path, signal, distance) ==
  [path |-> path, secret |-> signal = "secret", mentioned |-> signal = "mentioned",
   scoped |-> signal = "scoped", recent |-> FALSE, distance |-> distance]

PacketQuestions ==
  [kind : {"packet"}, role : {"planner", "implementer"},
   files : SUBSET {File(9, "mentioned", -1), File(5, "scoped", 0), File(3, "none", 2),
                   File(2, "none", 2), File(4, "secret", 0)},
   maxFiles : {1, 4}, maxChars : {12, 20, 40}, objective : {4}, locked : {0, 6}, rules : {1},
   instructions : {0, 9}, findings : {2}]

AllQuestions == RuleQuestions \cup StepQuestions \cup ReportQuestions \cup PacketQuestions

FullAndReader ==
  [full |-> {"repo-read", "plan", "file-write", "review", "test"},
   reader |-> {"repo-read", "plan", "review"}]

TwoStrategies ==
  [planner |-> [files |-> 2, findings |-> FALSE],
   implementer |-> [files |-> 3, findings |-> TRUE]]

-----------------------------------------------------------------------------
(* Artifacts: two outputs, required or not, of the same kind or not; one   *)
(* edge with any handles, beside another one of the same source or of      *)
(* another source; and attempts that Forge dies in.                        *)

Slot(name, kind, required) == [name |-> name, kind |-> kind, required |-> required]
Thing(kind, names)         == [kind |-> kind, names |-> names]
Wire(source, from, to)     == [source |-> source, from |-> from, to |-> to]

OutputsOfP ==
  {<<Slot("x", "k", TRUE)>>, <<Slot("x", "k", TRUE), Slot("y", "k", TRUE)>>,
   <<Slot("x", "k", FALSE), Slot("y", "l", TRUE)>>}

InputsOfNext ==
  {<<Slot("x", "k", TRUE)>>, <<Slot("x", "k", FALSE), Slot("y", "k", FALSE)>>,
   <<Slot("z", "k", TRUE), Slot("y", "l", FALSE)>>}

FromP == {Wire("p", from, to) : from \in {"none", "x", "k"}, to \in {"none", "x", "y"}}

Wired ==
  {<<e>> : e \in FromP} \cup {<<Wire("q", "none", "none"), e>> : e \in FromP}
    \cup {<<Wire("p", "x", "x"), e>> : e \in FromP}

Made ==
  {<<>>} \cup {<<a, b>> : a \in {Thing("k", {}), Thing("k", {"x"})},
                          b \in {Thing("k", {}), Thing("k", {"y"}), Thing("l", {"x"})}}

Template(outputs, inputs, edges, makes, beside, context, rough) ==
  [outputs |-> [p |-> outputs, q |-> <<>>], inputs |-> inputs, edges |-> edges,
   makes |-> makes, beside |-> beside, context |-> context, rough |-> rough]

Matched ==
  {Template(o, i, e, Made, <<Thing("k", {})>>, {"x"}, FALSE) :
     o \in OutputsOfP, i \in InputsOfNext, e \in Wired}

Rough ==
  {Template(o, <<>>, <<Wire("p", "none", "none")>>,
            {<<>>, <<Thing("k", {"x"}), Thing("k", {"y"})>>, <<Thing("l", {"x"})>>},
            <<>>, {}, TRUE) : o \in OutputsOfP}

Artifacts == INSTANCE ArtifactFlow WITH
  Wirings <- Matched \cup Rough, MaxAttempts <- 2, attempt <- tries, made <- things

-----------------------------------------------------------------------------
(* Files: what may be bound; a step in a clean and in a dirty worktree,    *)
(* with up to two acts of others at any moment; the working diff.          *)

Tree(a, b, log) == [a |-> a, b |-> b, log |-> log]
Committed == Tree(1, 0, 0)

Scene(candidate, caller, strict, onDisk, count, may) ==
  [candidate |-> candidate, born |-> TRUE, caller |-> caller, strict |-> strict,
   head |-> Committed, index |-> Committed, worktree |-> onDisk, acts |-> count, may |-> may]

Scenes ==
  {Scene(c, "step", FALSE, Tree(1, 1, 0), 0, {}) :
     c \in {"outside", "inside", "file", "nothing", "relative", "empty"}}
  \cup {Scene("root", "step", TRUE, t, 1, {"edit", "move"}) :
           t \in {Committed, Tree(1, 1, 0), Tree(1, 0, 1)}}
  \cup {Scene("root", "step", FALSE, Committed, 2, {"edit", "stage", "untrack", "move", "commit"}),
        Scene("root", "page", FALSE, Tree(1, 1, 0), 1, {"edit", "fail"}),
        [Scene("root", "page", FALSE, Committed, 0, {}) EXCEPT !.born = FALSE]}

Git == INSTANCE GitReading WITH
  Paths <- {"a", "b", "log"}, Contents <- {1, 2}, Ignored <- {"log"}, Readings <- Scenes

-----------------------------------------------------------------------------
(* Wires: two command lines and the scripts, with every reply and every    *)
(* cut of what is written; answers of a provider around both markers.      *)

Says(lines, full, code, hangs) ==
  [lines |-> lines, ended |-> full, code |-> code, hangs |-> hangs]

CallOf(runtime, first, second, chunks, aborts) ==
  [runtime |-> runtime, account |-> "none", attempts |-> <<first, second>>,
   stderr |-> chunks, aborts |-> aborts]

Scripts == {"report", "silent", "crash", "limit", "prose", "malformed", "auth"}

CallsOfClis ==
  {CallOf(r, Says(l, full, 0, FALSE), Says(<<"fenced">>, TRUE, 0, FALSE), 0, FALSE) :
     r \in {"claude", "antigravity"}, full \in BOOLEAN,
     l \in {<<"banner", "tool", "prose">>, <<"tools", "done", "report">>, <<"warning", "report">>,
            <<"spent", "tool">>, <<"refused">>}}
  \cup {CallOf("claude", Says(<<"banner">>, TRUE, c, FALSE), Says(l, FALSE, c, FALSE), 1, FALSE) :
           l \in {<<"prose">>, <<>>, <<"spent">>}, c \in {0, 1}}
  \cup {CallOf("claude", Says(<<"prose">>, TRUE, 0, h), Says(l, TRUE, 0, h), 0, TRUE) :
           l \in {<<"tool">>, <<>>}, h \in BOOLEAN}
  \cup {CallOf("mock", [ending |-> e], [ending |-> f], 0, a) : e, f \in Scripts, a \in BOOLEAN}
  \cup {[CallOf("claude", Says(<<>>, TRUE, 0, FALSE), Says(<<>>, TRUE, 0, FALSE), 0, FALSE)
           EXCEPT !.account = "unknown"]}

Cli == INSTANCE CliTurn WITH
  CliCalls <- CallsOfClis, phase <- exchanging, attempt <- nth, state <- agentState,
  aborted <- signalled, runs <- spawned

Frame(kind, letters) == [kind |-> kind, text |-> letters]
Letters == {"<", "t", "/", ">"}

ResponsesOfModels ==
  {[frames |-> <<Frame("content", t \o u), between, Frame("content", v)>>,
    ended |-> full, status |-> "ok", breaks |-> FALSE] :
     t \in {<<>>, <<"<", "t", ">">>}, u \in [1..2 -> Letters] \cup {<<"a">>},
     v \in {<<l>> : l \in Letters} \cup {<<"t", ">">>, <<"/", ">">>},
     between \in {Frame("reasoning", <<"r">>), Frame("noise", <<>>)}, full \in BOOLEAN}
  \cup {[frames |-> <<Frame("content", <<"a", "<">>)>>, ended |-> TRUE, status |-> s,
         breaks |-> TRUE] : s \in {"ok", "refused"}}

Stream == INSTANCE ChatStream WITH Responses <- ResponsesOfModels

-----------------------------------------------------------------------------
(* Screens: starts that are noisy, brisk or not; turns that are honest and *)
(* one that echoes its prompt first; dialogs; a CLI that says nothing, and *)
(* one that never ends its turn.                                           *)

Painted(says, caret, busy, dialog) ==
  [text |-> says, caret |-> caret, busy |-> busy, dialog |-> dialog]

Idles(says) == Painted(says, TRUE, FALSE, "none")
Banner == Painted("banner", FALSE, FALSE, "none")
FirstTurn == <<Painted("busy", TRUE, TRUE, "none"), Idles("one")>>
SecondTurn == <<Painted("busy", FALSE, TRUE, "none"), Idles("two")>>

Screens(boot, each, brisk) == [boot |-> boot, turns |-> each, brisk |-> brisk]

ClisWithScreens ==
  {Screens(<<Banner, Idles("noise"), Idles("more"), Idles("idle")>>, <<FirstTurn, SecondTurn>>, b) :
     b \in BOOLEAN}
  \cup {Screens(<<Idles("idle")>>, <<<<Idles("echo")>> \o FirstTurn, SecondTurn>>, TRUE),
        Screens(<<Painted("trust", TRUE, FALSE, "trust")>>, <<>>, FALSE),
        Screens(<<Idles("idle")>>,
            <<FirstTurn, <<Painted("ask", FALSE, FALSE, "permission")>>>>, TRUE),
        Screens(<<Banner>>, <<>>, FALSE),
        Screens(<<Idles("idle")>>, <<<<Painted("busy", TRUE, TRUE, "none")>>>>, FALSE)}

Watched == INSTANCE HostedScreen WITH
  Clis <- ClisWithScreens, QuietTicks <- 2, MaxTicks <- 5

-----------------------------------------------------------------------------
(* Pages: two questions over two visits and a thread that is made; one or  *)
(* two workflows and a project that is chosen in between; and a template   *)
(* of two nodes, with four clicks in the studio.                           *)

Chat == INSTANCE Conversation WITH
  MaxTurns <- 2, MaxThreads <- 1, MaxVisits <- 2, shown <- threads, made <- created

Used(count, revisions, projects) ==
  [workflows |-> count, revisions |-> revisions, choices |-> projects]

Pages == INSTANCE WorkflowPage WITH
  Projects <- {"forge", "other"}, Opened <- "forge", MaxUnderWay <- 2,
  Pages <- {Used(1, 3, 1), Used(2, 2, 0), Used(2, 1, 1)},
  rows <- workflows

Piece(in, out) == [title |-> "made", rest |-> "made", inputs |-> <<in>>, outputs |-> <<out>>]

Studio == INSTANCE TemplateStudio WITH
  Stored <-
    1 :> [id |-> 1, name |-> "sdlc", status |-> "published",
          nodes |-> (2 :> Piece("brief", "spec")) @@ (3 :> Piece("spec", "plan")),
          edges |-> <<[id |-> 4, source |-> 2, sourceHandle |-> "spec",
                       target |-> 3, targetHandle |-> "spec"]>>],
  Pieces <- {Piece("plan", "diff")}, Texts <- {"", "other"}, MaxClicks <- 4, MaxUnderWay <- 2

Listing(id, model, key) == [id |-> id, models |-> {model}, active |-> model, key |-> key]

Choosing == INSTANCE ModelChoice WITH
  Models <- {1, 2}, Stale <- {9}, MaxOpenings <- 2, MaxEdits <- 1,
  InitialLists <-
    {<<>>, <<Listing("openai", 1, 0), Listing("ollama", 9, 0), Listing("custom", 1, 1)>>}

-----------------------------------------------------------------------------
(* Terminals: three processes of two steps and two runs; a pane that comes *)
(* and goes while one or two of them print more than is kept; and panes    *)
(* that spawn a process of their own.                                      *)

Pane(count, runs, chunks, comes, mine) ==
  [processes |-> count, runs |-> runs, chunks |-> chunks, visits |-> comes, mine |-> mine]

Terminal == INSTANCE Terminals WITH
  Steps <- {"s1", "s2"}, Own <- {"t1", "t2"}, MaxBuffer <- 2,
  Uses <- {Pane(3, {"r1", "r2"}, 0, 0, 0), Pane(1, {"r1"}, 3, 2, 0), Pane(2, {"r1"}, 1, 1, 0),
           Pane(0, {}, 1, 2, 2), Pane(0, {}, 2, 2, 1)}

-----------------------------------------------------------------------------
(* Projects: two acts upon them, or a folder that is entered and corrected *)
(* and one act; and what was changed in one of two projects.               *)

Holding(list, remembered) == [held |-> list, selected |-> remembered]

Picker == INSTANCE ProjectPicker WITH
  Starts <- {Holding(<<>>, 9), Holding(<<1, 2>>, 2)},
  Repos <- {"a"}, Folders <- {"", "a", "plain"},
  Visits <- {[acts |-> 2, entries |-> 0], [acts |-> 1, entries |-> 2]},
  calls <- asking, acts <- picks

Changes == INSTANCE ChangesView WITH
  Trees <- {"forge", "other"}, OpenedTree <- "forge", FilesOf <- <<"a", "b">>,
  MaxMoves <- 2, MaxTroubles <- 1

ASSUME WorkAssumption ==
  /\ Git!ReadingsAssumption /\ Watched!ScreenAssumption /\ Choosing!ModelsAssumption
  /\ Artifacts!WiringsAssumption

-----------------------------------------------------------------------------
(* One of them at a time.                                                  *)

NoSession ==
  /\ inst = Agent("native", FALSE) /\ pc = "returned" /\ step = "none" /\ attempt = 1
  /\ aborted = FALSE /\ closed = FALSE /\ child = "none" /\ killing = FALSE
  /\ typed = 0 /\ done = 0 /\ unread = "none" /\ noticed = FALSE /\ outcome = "none"
  /\ claims = {} /\ writes = 0 /\ captured = 0 /\ result = "none"

NoTask ==
  /\ order = Order({}, {}) /\ phase = "returned"
  /\ rows = [run |-> "completed", step |-> "completed"] /\ finished = TRUE
  /\ refused = FALSE /\ open = FALSE /\ work = NoWork(order) /\ judged = 0
  /\ told = FALSE /\ cmd = Idle

NoTurn ==
  /\ job = [Turn(FALSE, FALSE, FALSE, {}, {}) EXCEPT !.files = <<>>]
  /\ sent = 1 /\ state = "idle" /\ shut = "no" /\ history = 0 /\ round = 0 /\ calls = 0
  /\ nudged = FALSE /\ used = {} /\ answer = "text" /\ files = <<>>

NoPolicy == question = [kind |-> "none"] /\ reply = Unanswered

NoArtifact ==
  /\ wiring = Template(<<>>, <<>>, <<>>, {}, <<>>, {}, FALSE)
  /\ tries = 2 /\ status = "failed" /\ things = <<>> /\ at = 0 /\ written = FALSE
  /\ records = {} /\ disk = {} /\ known = FALSE /\ lineage = <<>> /\ next = "waiting"
  /\ given = Artifacts!Nothing

NoFile ==
  /\ scene = Scene("root", "page", FALSE, Committed, 0, {}) /\ moment = "failed"
  /\ head = Committed /\ index = Committed /\ worktree = Committed
  /\ base = Git!NoTree /\ owed = {} /\ said = Git!Nothing /\ acts = 0 /\ touched = {}
  /\ always = {} /\ ever = {} /\ quiet = TRUE /\ staged = FALSE

NoCall ==
  /\ call = CallOf("mock", [ending |-> "report"], [ending |-> "report"], 0, FALSE)
  /\ exchanging = "disposed" /\ nth = 1 /\ agentState = "completed" /\ signalled = FALSE
  /\ spawned = <<>> /\ events = <<>> /\ parked = FALSE /\ turn = Cli!NoText /\ verdict = "none"

NoStream ==
  /\ response = [frames |-> <<>>, ended |-> TRUE, status |-> "ok", breaks |-> FALSE]
  /\ reading = "done" /\ read = 0 /\ pending = <<>> /\ inThinking = FALSE
  /\ content = <<>> /\ reasoning = <<>> /\ ok = FALSE

NoScreen ==
  /\ cli = Screens(<<Banner>>, <<>>, FALSE) /\ stage = "done" /\ screens = <<>>
  /\ screen = Watched!Blank /\ nthTurn = 1 /\ ticks = 0 /\ lastSeen = Watched!Blank
  /\ quietFor = 0 /\ sawWork = FALSE /\ outcomes = <<>> /\ typedAt = Watched!Blank
  /\ hurried = FALSE

NoWire == NoCall /\ NoStream /\ NoScreen

NoChat ==
  /\ mounted = FALSE /\ visit = 2 /\ threads = <<>> /\ stored = <<>> /\ active = 0
  /\ created = 0 /\ thinking = FALSE /\ live = Chat!Silent /\ asked = 0 /\ turns = {}
  /\ foreign = FALSE

NoPage ==
  /\ page = Used(0, 0, 0) /\ workflows = <<>> /\ decided = {} /\ starting = <<>>
  /\ toMain = <<>> /\ toPage = <<>> /\ chosen = "none" /\ choices = 0
  /\ shown = Pages!NoView /\ acting = FALSE

NoStudio ==
  /\ clicks = 4 /\ minted = 9 /\ library = <<>> /\ templatesV2 = <<>> /\ away = FALSE
  /\ studioMode = "catalog" /\ editingTemplate = Studio!NoTemplate /\ canvas = Studio!Closed
  /\ toLibrary = <<>> /\ toStudio = <<>>

NoTerminal ==
  /\ use = Pane(0, {}, 0, 0, 0) /\ processes = <<>> /\ ended = {} /\ spawning = {}
  /\ published = [s \in {"s1", "s2"} |-> 0] /\ subscribed = [s \in {"s1", "s2"} |-> 0]
  /\ recorded = [t \in {"s1", "s2", "t1", "t2"} |-> 0]
  /\ toService = <<>> /\ toPane = <<>> /\ pane = Terminal!Closed /\ visits = 0 /\ dismissed = {}

NoChoosing ==
  /\ opened = "none" /\ publishing = <<>> /\ inUse = Choosing!NoChoice /\ scans = <<>>
  /\ kept = [providers |-> <<>>, active |-> "none"] /\ here = kept
  /\ openings = 2 /\ edits = 1 /\ entered = [i \in Choosing!Ids |-> 0] /\ late = FALSE

NoPicker ==
  /\ bounds = [acts |-> 0, entries |-> 0] /\ held = <<>> /\ bound = 0 /\ asking = <<>>
  /\ cached = <<>> /\ selected = 0 /\ detail = 0 /\ form = Picker!NewForm(0)
  /\ picks = 0 /\ entries = 0 /\ disturbed = FALSE

NoView ==
  /\ contents = [p \in {"forge", "other"} |-> [f \in {"a", "b"} |-> 0]]
  /\ project = "forge" /\ chosenFile = Changes!Nowhere /\ diff = <<>>
  /\ text = [path |-> Changes!Nowhere, version |-> 0] /\ fetches = <<>>
  /\ editor = Changes!Closed /\ moves = 2 /\ troubles = 1 /\ missed = FALSE
  /\ astray = FALSE /\ overwritten = {}

NoFlow == NoChat /\ NoPage /\ NoStudio /\ NoTerminal
NoUser == NoFlow /\ NoChoosing /\ NoPicker /\ NoView
NoAgent == NoSession /\ NoTask /\ NoTurn /\ NoPolicy /\ NoArtifact /\ NoFile

WorkInit ==
  \/ /\ NoWire /\ NoUser
     /\ \/ /\ "sessions" \in Works
           /\ Init /\ NoTask /\ NoTurn /\ NoPolicy /\ NoArtifact /\ NoFile
        \/ /\ Works \cap {"tasks", "default"} # {}
           /\ NoSession /\ TaskInit /\ NoTurn /\ NoPolicy /\ NoArtifact /\ NoFile
        \/ /\ "turns" \in Works
           /\ NoSession /\ NoTask /\ LoopInit /\ NoPolicy /\ NoArtifact /\ NoFile
        \/ /\ "policies" \in Works
           /\ NoSession /\ NoTask /\ NoTurn /\ PolicyInit /\ NoArtifact /\ NoFile
        \/ /\ "artifacts" \in Works
           /\ NoSession /\ NoTask /\ NoTurn /\ NoPolicy /\ Artifacts!ArtifactInit /\ NoFile
        \/ /\ "files" \in Works
           /\ NoSession /\ NoTask /\ NoTurn /\ NoPolicy /\ NoArtifact /\ Git!GitInit
  \/ /\ "wires" \in Works /\ NoAgent /\ NoUser
     /\ \/ Cli!CliInit /\ NoStream /\ NoScreen
        \/ NoCall /\ Stream!StreamInit /\ NoScreen
        \/ NoCall /\ NoStream /\ Watched!ScreenInit
  \/ /\ "pages" \in Works /\ NoAgent /\ NoWire
     /\ \/ /\ NoChoosing /\ NoPicker /\ NoView
           /\ \/ Chat!ChatInit /\ NoPage /\ NoStudio /\ NoTerminal
              \/ NoChat /\ Pages!PageInit /\ NoStudio /\ NoTerminal
              \/ NoChat /\ NoPage /\ Studio!StudioInit /\ NoTerminal
              \/ NoChat /\ NoPage /\ NoStudio /\ Terminal!TerminalInit
        \/ /\ NoFlow
           /\ \/ Choosing!ChoiceInit /\ NoPicker /\ NoView
              \/ NoChoosing /\ Picker!PickerInit /\ NoView
              \/ NoChoosing /\ NoPicker /\ Changes!ViewInit

workflowVars == <<chatVars, pageVars, studioVars, terminalVars>>
projectVars == <<choiceVars, pickerVars, viewVars>>
userVars == <<workflowVars, projectVars>>
wireVars == <<cliVars, streamVars, screenVars>>
workVars == <<vars, taskVars, loopVars, policyVars, artifactVars, fileVars>>

WorkNext ==
  \/ /\ UNCHANGED <<wireVars, userVars>>
     /\ \/ Next /\ UNCHANGED <<taskVars, loopVars, policyVars, artifactVars, fileVars>>
        \/ TaskNext /\ UNCHANGED <<vars, loopVars, policyVars, artifactVars, fileVars>>
        \/ LoopNext /\ UNCHANGED <<vars, taskVars, policyVars, artifactVars, fileVars>>
        \/ PolicyNext /\ UNCHANGED <<vars, taskVars, loopVars, artifactVars, fileVars>>
        \/ Artifacts!ArtifactNext /\ UNCHANGED <<vars, taskVars, loopVars, policyVars, fileVars>>
        \/ Git!GitNext /\ UNCHANGED <<vars, taskVars, loopVars, policyVars, artifactVars>>
  \/ /\ UNCHANGED <<workVars, userVars>>
     /\ \/ Cli!CliNext /\ UNCHANGED <<streamVars, screenVars>>
        \/ Stream!StreamNext /\ UNCHANGED <<cliVars, screenVars>>
        \/ Watched!ScreenNext /\ UNCHANGED <<cliVars, streamVars>>
  \/ /\ UNCHANGED <<workVars, wireVars>>
     /\ \/ /\ UNCHANGED projectVars
           /\ \/ Chat!ChatNext /\ UNCHANGED <<pageVars, studioVars, terminalVars>>
              \/ Pages!PageNext /\ UNCHANGED <<chatVars, studioVars, terminalVars>>
              \/ Studio!StudioNext /\ UNCHANGED <<chatVars, pageVars, terminalVars>>
              \/ Terminal!TerminalNext /\ UNCHANGED <<chatVars, pageVars, studioVars>>
        \/ /\ UNCHANGED workflowVars
           /\ \/ Choosing!ChoiceNext /\ UNCHANGED <<pickerVars, viewVars>>
              \/ Picker!PickerNext /\ UNCHANGED <<choiceVars, viewVars>>
              \/ Changes!ViewNext /\ UNCHANGED <<choiceVars, pickerVars>>

WorkSpec ==
  /\ WorkInit
  /\ [][WorkNext]_<<workVars, wireVars, userVars>>
  /\ Fairness /\ TaskFairness /\ LoopFairness /\ Cli!CliFairness
  /\ Watched!ScreenFairness /\ Chat!ChatFairness /\ Pages!PageFairness /\ Terminal!TerminalFairness
  /\ Picker!PickerFairness

-----------------------------------------------------------------------------
(* Properties.                                                             *)

\* CommandIsOver and WhatIsDoneIsProven are those of CommandRunner and DirectTask,
\* TurnsStayInBounds that of AgentLoop, and PolicyOnlyTightens that of Policies.

\* What is made arrives as it was made: artifacts at the next node, whole and without
\* guesses; the diff that proves a step, which is all that happened to its files; what a
\* command-line agent says at exchange(), and what its screen shows; and what a model says
\* with the user, however it is cut on its way; see ArtifactFlow, GitReading, CliTurn,
\* HostedScreen and ChatStream.
WhatIsMadeArrives ==
  /\ Artifacts!ArtifactsArriveAsMade /\ Git!EvidenceIsWhole /\ Cli!CliTurnsAreHeard
  /\ Watched!ScreenIsReadRightly /\ Stream!AnswersAreWhole

\* What the user reads is true: a conversation keeps its questions and answers together, the
\* templates of the catalog and of a saved canvas are those that are stored, a terminal misses
\* nothing of its process, the model that a page shows is the one that is used, and projects
\* and changed files are what the main process has; see Conversation, TemplateStudio,
\* Terminals, ModelChoice, ProjectPicker and ChangesView.
PagesTellTheTruth ==
  /\ Chat!TranscriptsHold /\ Studio!TemplatesAreKept
  /\ Terminal!TerminalsShowTheirProcess /\ Choosing!ChoiceIsShared
  /\ Picker!ProjectsAreShown /\ Changes!ChangesAreShown

\* Who asks for work gets an answer: from execute() of a leaf, whatever the agent does
\* or does not do, from executeDirectTask(), whatever its commands leave behind, from
\* runAgentTurn(), however often the model calls its tools, from exchange() with a command
\* line; the pages that wait for one show it, the page of workflows catches up and never
\* goes back, no reply takes away what is drawn on the canvas, and terminals that are
\* dismissed are killed.
Waiting ==
  \/ Executing \/ InProgress \/ InFlight \/ Cli!Conversing \/ Watched!Watching
  \/ thinking \/ acting \/ Terminal!Closing \/ Picker!Picking

CallsReturn == (Waiting ~> ~Waiting) /\ Pages!PagesCatchUp /\ Studio!DrawingIsKept
=============================================================================
