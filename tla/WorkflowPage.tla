------------------------------ MODULE WorkflowPage ------------------------------
(***************************************************************************)
(* The page that shows a workflow (renderer workflow/WorkflowPage.tsx) and *)
(* the part of the main process it talks to (ipc/handlers.ts,              *)
(* workflows/workflowService.ts).  Its studio for templates is             *)
(* TemplateStudio.                                                         *)
(*                                                                         *)
(* The page learns of a workflow in four ways: it loads the active one     *)
(* when a project is chosen, it polls for it, it fetches the row whenever  *)
(* an event arrives, and it shows what its own actions return.  Calls,     *)
(* replies and events keep their order on their way.                       *)
(***************************************************************************)
EXTENDS Integers, Sequences, FiniteSets, SequencesExt

CONSTANTS
  Projects,
  Opened,       \* the one the page shows first, None if there is none
  Pages,        \* bounds: records of workflows, revisions and choices
  MaxUnderWay   \* bound on what is under way when a user or a timer adds to it

None == "none"

VARIABLES
  page,       \* the bounds, which never change
  rows,       \* the workflows in the order they started: [project, revision, state]
  decided,    \* the projects with a decision that is locked
  starting,   \* the projects for which start() waits for the project
  toMain,     \* calls under way
  toPage,     \* replies and events under way
  chosen,     \* the project the page shows, and how often one was chosen:
  choices,
  shown,      \* the workflow it shows: None or [id, revision, state]
  acting      \* whether its buttons are disabled

pageVars ==
  <<page, rows, decided, starting, toMain, toPage, chosen, choices, shown, acting>>

NoView == [id |-> 0, revision |-> 0, state |-> None]

View(w) == [id |-> w, revision |-> rows[w].revision, state |-> rows[w].state]

\* getActive: the one that was started first.
Active(p) ==
  LET open == {w \in DOMAIN rows : rows[w].project = p /\ rows[w].state # "over"} IN
  IF open = {} THEN NoView ELSE View(CHOOSE w \in open : \A v \in open : w <= v)

Call(call)  == toMain' = Append(toMain, call)
Quiet       == Len(toMain) + Len(toPage) < MaxUnderWay
Event(w)    == [kind |-> "event", id |-> w]

-----------------------------------------------------------------------------
(* The main process.                                                       *)

\* A workflow goes on.  Its steps change without an event, until it waits for the user;
\* its end is told (executeWorkflow).
Advance(w) ==
  /\ rows[w].state = "runs" /\ rows[w].revision < page.revisions
  /\ \/ rows' = [rows EXCEPT ![w].revision = @ + 1] /\ UNCHANGED toPage
     \/ rows' = [rows EXCEPT ![w].revision = @ + 1, ![w].state = "waits"] /\ UNCHANGED toPage
     \/ /\ rows' = [rows EXCEPT ![w].revision = @ + 1, ![w].state = "over"]
        /\ toPage' = Append(toPage, Event(w))
  /\ UNCHANGED <<page, decided, starting, toMain, chosen, choices, shown, acting>>

Reply(replies) ==
  /\ toMain' = Tail(toMain) /\ toPage' = toPage \o replies
  /\ UNCHANGED <<page, chosen, choices, shown, acting>>

Acted(view) == [kind |-> "acted", view |-> view]

\* It is only approved where it waits, and where a decision is approved or locked; else it
\* throws.
HandleApprove(call) ==
  IF rows[call.id].state = "waits" /\ rows[call.id].project \in decided
  THEN /\ rows' = [rows EXCEPT ![call.id].state = "runs"]
       /\ Reply(<<Event(call.id), Acted([View(call.id) EXCEPT !.state = "runs"])>>)
  ELSE Reply(<<Acted(NoView)>>) /\ UNCHANGED rows

HandleCancel(call) ==
  IF rows[call.id].state = "over" THEN Reply(<<Acted(View(call.id))>>) /\ UNCHANGED rows
  ELSE /\ rows' = [rows EXCEPT ![call.id].state = "over"]
       /\ Reply(<<Event(call.id), Acted([View(call.id) EXCEPT !.state = "over"])>>)

HandleRead(call) ==
  /\ call.kind \in {"active", "row"}
  /\ Reply(<<[call EXCEPT !.view =
                IF call.kind = "row" THEN View(call.id) ELSE Active(call.project)]>>)
  /\ UNCHANGED <<rows, decided, starting>>

HandleStart(call) ==
  /\ call.kind = "start"
  /\ Reply(<<>>) /\ starting' = Append(starting, call.project)
  /\ UNCHANGED <<rows, decided>>

\* To decide is to propose, approve and lock a decision.
HandleDecide(call) ==
  /\ call.kind \in {"decisions", "decide"}
  /\ decided' = IF call.kind = "decide" THEN decided \cup {rows[call.id].project} ELSE decided
  /\ Reply(<<[call EXCEPT !.locked = rows[call.id].project \in decided']>>)
  /\ UNCHANGED <<rows, starting>>

Handle ==
  /\ toMain # <<>>
  /\ LET call == Head(toMain) IN
     \/ HandleRead(call) \/ HandleStart(call) \/ HandleDecide(call)
     \/ call.kind = "approve" /\ HandleApprove(call) /\ UNCHANGED <<decided, starting>>
     \/ call.kind = "cancel" /\ HandleCancel(call) /\ UNCHANGED <<decided, starting>>

\* start() has its project: the row, an event, and the reply; the work begins.
Started ==
  /\ starting # <<>>
  /\ starting' = Tail(starting)
  /\ rows' = Append(rows, [project |-> Head(starting), revision |-> 1, state |-> "runs"])
  /\ LET w == Len(rows') IN
     toPage' = toPage \o <<Event(w), Acted([id |-> w, revision |-> 1, state |-> "runs"])>>
  /\ UNCHANGED <<page, decided, toMain, chosen, choices, shown, acting>>

-----------------------------------------------------------------------------
(* The page.                                                               *)

PageInit ==
  /\ page \in Pages
  /\ rows = <<>> /\ decided = {} /\ starting = <<>> /\ toMain = <<>> /\ toPage = <<>>
  /\ chosen = Opened /\ choices = 0 /\ shown = NoView /\ acting = FALSE

\* What is under way for the project that was chosen before comes all the same.
Choose(p) ==
  /\ Quiet /\ p # chosen /\ choices < page.choices
  /\ chosen' = p /\ choices' = choices + 1
  /\ Call([kind |-> "active", project |-> p, view |-> NoView, choice |-> choices',
           poll |-> FALSE])
  /\ UNCHANGED <<page, rows, decided, starting, toPage, shown, acting>>

Polling ==
  \E m \in ToSet(toMain) \cup ToSet(toPage) : m.kind = "active" /\ m.poll

Poll ==
  /\ Quiet /\ ~Polling /\ chosen # None
  /\ Call([kind |-> "active", project |-> chosen, view |-> NoView, choice |-> choices,
           poll |-> TRUE])
  /\ UNCHANGED <<page, rows, decided, starting, toPage, chosen, choices, shown, acting>>

\* Buttons.  The one that runs a template is not disabled by the others.
Starts == Len(rows) + Len(starting) + Len(SelectSeq(toMain, LAMBDA c : c.kind = "start"))

Start ==
  /\ Quiet /\ Starts < page.workflows /\ chosen # None
  /\ Call([kind |-> "start", project |-> chosen]) /\ acting' = TRUE
  /\ UNCHANGED <<page, rows, decided, starting, toPage, chosen, choices, shown>>

Approve ==
  /\ Quiet /\ shown.state = "waits" /\ ~acting
  /\ Call([kind |-> "decisions", id |-> shown.id, locked |-> FALSE]) /\ acting' = TRUE
  /\ UNCHANGED <<page, rows, decided, starting, toPage, chosen, choices, shown>>

Cancel ==
  /\ Quiet /\ shown.state \in {"runs", "waits"} /\ ~acting
  /\ Call([kind |-> "cancel", id |-> shown.id]) /\ acting' = TRUE
  /\ UNCHANGED <<page, rows, decided, starting, toPage, chosen, choices, shown>>

\* Variant for mutation: only another workflow is news.
SameWorkflow(view) == shown.id = view.id

\* What a poll compares: the workflow, its state, and the states of its steps.
Same(view) == shown = view

\* Something happened to some workflow: its row is fetched, whatever the page shows.
Notified(message) ==
  /\ message.kind = "event"
  /\ Call([kind |-> "row", id |-> message.id, view |-> NoView])
  /\ UNCHANGED <<shown, acting>>

Fetched(message) ==
  /\ message.kind = "row" /\ shown' = message.view /\ UNCHANGED <<toMain, acting>>

\* What was asked when another project was chosen is ignored; not so what a poll asked.
Loaded(message) ==
  /\ message.kind = "active" /\ ~message.poll
  /\ shown' = IF message.choice = choices THEN message.view ELSE shown
  /\ UNCHANGED <<toMain, acting>>

Polled(message) ==
  /\ message.kind = "active" /\ message.poll
  /\ shown' = IF message.view = NoView \/ Same(message.view) THEN shown ELSE message.view
  /\ UNCHANGED <<toMain, acting>>

\* To approve takes a decision that is locked: the page sees to it.
Looked(message) ==
  /\ message.kind \in {"decisions", "decide"}
  /\ Call(IF message.locked THEN [kind |-> "approve", id |-> message.id]
          ELSE [kind |-> "decide", id |-> message.id, locked |-> FALSE])
  /\ UNCHANGED <<shown, acting>>

ActionAnswered(message) ==
  /\ message.kind = "acted"
  /\ shown' = IF message.view = NoView THEN shown ELSE message.view
  /\ acting' = FALSE /\ UNCHANGED toMain

Receive ==
  /\ toPage # <<>>
  /\ toPage' = Tail(toPage)
  /\ LET message == Head(toPage) IN
     \/ Notified(message) \/ Fetched(message) \/ Loaded(message) \/ Polled(message)
     \/ Looked(message) \/ ActionAnswered(message)
  /\ UNCHANGED <<page, rows, decided, starting, chosen, choices>>

PageNext ==
  \/ \E w \in DOMAIN rows : Advance(w)
  \/ Handle \/ Started \/ Receive
  \/ \E p \in Projects : Choose(p)
  \/ Poll \/ Start \/ Approve \/ Cancel

\* Calls are handled and messages delivered; the timer of the poll fires.
PageFairness ==
  WF_pageVars(Handle) /\ WF_pageVars(Started) /\ WF_pageVars(Receive) /\ WF_pageVars(Poll)

-----------------------------------------------------------------------------
(* Properties.                                                             *)

\* Of one workflow the page never goes back to what it was before.
NeverGoesBack ==
  [][shown'.id = shown.id => shown'.revision >= shown.revision
                              /\ (shown.state = "over" => shown'.state = "over")]_pageVars

\* While the project that is chosen has an active workflow, the page comes to show it as it
\* is ("Periodic heartbeat polling", WorkflowPage.tsx:289).
PageCatchesUp == <>[](Active(chosen) # NoView) => <>[](shown = Active(chosen))

\* What it shows to the end is shown as ended.
ShowsEnded   == shown.id # 0 /\ rows[shown.id].state = "over"
EndsAreShown == <>[]ShowsEnded => <>[](ShowsEnded /\ shown = View(shown.id))

PagesCatchUp == PageCatchesUp /\ EndsAreShown /\ NeverGoesBack
=============================================================================
