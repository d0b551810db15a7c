------------------------------- MODULE DecisionLog -------------------------------
(***************************************************************************)
(* Decisions: the rows behind DecisionStore, the page on which the user    *)
(* approves, locks and supersedes them, and the channel between the two.   *)
(* DecisionStore looks at nobody's status: that an approval cannot unlock  *)
(* a decision rests on what the page shows and on its buttons.             *)
(*                                                                         *)
(* Handlers of decision channels do not wait for anything, so calls are    *)
(* served, and answered, in the order in which the page made them.         *)
(***************************************************************************)
EXTENDS Naturals, FiniteSets, Sequences

CONSTANTS
  Gates,         \* the gates of a run that waits for a verdict
  MaxDecisions,  \* bound: rows
  MaxReloads     \* bound: reloads of the page that are not due to its own calls

VARIABLES
  log,        \* the rows: a sequence, each decision is the number of its row
  requests,   \* calls on their way to the main process
  replies,    \* answers on their way to the page
  shown,      \* the decisions of the page, by number
  busy,       \* isSubmitting
  forms,      \* decisions whose form for a replacement is open
  epoch,      \* the number of the current load: answers to earlier ones are ignored
  blocked     \* gates whose latest attempt is blocked

page == <<requests, shown, busy, forms, epoch>>
decisionVars == <<log, requests, replies, shown, busy, forms, epoch, blocked>>

NoGate == "none"

Row(status, gate, verdict) ==
  [status |-> status, lockedAt |-> status = "locked", supersededBy |-> 0,
   gate |-> gate, verdict |-> verdict]

\* decisionSchema: a row that does not satisfy it cannot be read, nor can a list with it.
Readable(row) ==
  /\ row.status = "locked" => row.lockedAt
  /\ (row.status = "superseded") <=> (row.supersededBy # 0)
  /\ (row.gate = NoGate) <=> (row.verdict = NoGate)

DecisionsInit ==
  /\ log = <<>> /\ requests = <<[op |-> "list", load |-> 1]>> /\ replies = <<>>
  /\ shown = <<>> /\ busy = FALSE /\ forms = {} /\ epoch = 1
  /\ blocked = {}

-----------------------------------------------------------------------------
(* The projections, and the transactions they make up.                     *)

Proposed(rows, row) == Append(rows, row)
Approved(rows, d)   == [rows EXCEPT ![d].status = "approved"]
Locked(rows, d)     == [rows EXCEPT ![d].status = "locked", ![d].lockedAt = TRUE]

\* The replacement is proposed and locked, and the decision names it.  It is a
\* decision of the project: the page knows nothing of gates.
Superseded(rows, d) ==
  LET both == Locked(Proposed(rows, Row("locked", NoGate, NoGate)), Len(rows) + 1)
  IN  [both EXCEPT ![d].status = "superseded", ![d].supersededBy = Len(both)]

GateDecision(rows, g) ==
  {d \in DOMAIN rows : rows[d].gate = g /\ rows[d].status = "locked"}

-----------------------------------------------------------------------------
(* The main process.                                                       *)

Room == Len(log) < MaxDecisions

After(request) ==
  CASE request.op = "list"      -> log
    [] request.op = "propose"   -> Proposed(log, Row("proposed", NoGate, NoGate))
    [] request.op = "approve"   -> Approved(log, request.id)
    [] request.op = "lock"      -> Locked(log, request.id)
    [] request.op = "supersede" -> Superseded(log, request.id)

\* What the answer holds: the rows the call read back.  The transaction is committed
\* by then, and an unreadable row only spoils the answer.
ReadBack(request, rows) ==
  CASE request.op = "list"      -> DOMAIN rows
    [] request.op = "propose"   -> {Len(rows)}
    [] request.op = "supersede" -> {request.id, Len(rows)}
    [] OTHER                    -> {request.id}

Serve ==
  /\ requests # <<>>
  /\ LET request == Head(requests)
         read    == ReadBack(request, log')
     IN  /\ log' = After(request)
         /\ replies' = Append(replies,
              [to   |-> request,
               rows |-> [d \in read |-> log'[d]],
               ok   |-> \A d \in read : Readable(log'[d])])
  /\ requests' = Tail(requests)
  /\ UNCHANGED <<shown, busy, forms, epoch, blocked>>

\* answerQuestion() promotes an answer: the row is born locked.
PromoteFromQuestion ==
  /\ Room
  /\ log' = Proposed(log, Row("locked", NoGate, NoGate))
  /\ UNCHANGED <<requests, replies, shown, busy, forms, epoch, blocked>>

\* The executor reaches a gate: a locked verdict answers it.
GateAsks ==
  /\ \E g \in Gates \ blocked : GateDecision(log, g) = {} /\ blocked' = blocked \cup {g}
  /\ UNCHANGED <<log, requests, replies, shown, busy, forms, epoch>>

\* recordGateDecision(): one that repeats the verdict changes nothing, one that
\* contradicts it is refused.
RecordGate ==
  /\ Room
  /\ \E g \in blocked, verdict \in {"approved", "rejected"} :
       /\ GateDecision(log, g) = {}
       /\ log' = Locked(Proposed(log, Row("locked", g, verdict)), Len(log) + 1)
  /\ UNCHANGED <<requests, replies, shown, busy, forms, epoch, blocked>>

GateGoesOn ==
  /\ \E g \in blocked : GateDecision(log, g) # {} /\ blocked' = blocked \ {g}
  /\ UNCHANGED <<log, requests, replies, shown, busy, forms, epoch>>

-----------------------------------------------------------------------------
(* The page.  One isSubmitting is shared by all of its cards.              *)

\* Variant for mutation: every button is live at any time.
EnabledAlways == TRUE
Enabled == ~busy

Call(request) == busy' = TRUE /\ requests' = Append(requests, request)

ProposeClicked ==
  /\ Enabled /\ Room
  /\ Call([op |-> "propose"])
  /\ UNCHANGED <<log, replies, shown, forms, epoch, blocked>>

\* A proposal can be approved or locked, what is approved can be locked.
CardClicked ==
  /\ Enabled
  /\ \E d \in DOMAIN shown :
       \/ shown[d].status = "proposed" /\ Call([op |-> "approve", id |-> d])
       \/ shown[d].status \in {"proposed", "approved"} /\ Call([op |-> "lock", id |-> d])
  /\ UNCHANGED <<log, replies, shown, forms, epoch, blocked>>

\* The form opens at any time, and stays open whatever becomes of the decision.
FormOpened ==
  /\ \E d \in DOMAIN shown \ forms : shown[d].status = "locked" /\ forms' = forms \cup {d}
  /\ UNCHANGED <<log, requests, replies, shown, busy, epoch, blocked>>

FormCancelled ==
  /\ \E d \in forms : forms' = forms \ {d}
  /\ UNCHANGED <<log, requests, replies, shown, busy, epoch, blocked>>

FormSubmitted ==
  /\ Enabled /\ Room
  /\ \E d \in forms :
       /\ Call([op |-> "supersede", id |-> d])
       /\ forms' = forms \ {d}
  /\ UNCHANGED <<log, replies, shown, epoch, blocked>>

\* Another project is selected, or a workflow has moved.
Load == epoch' = epoch + 1 /\ requests' = Append(requests, [op |-> "list", load |-> epoch + 1])

Reload ==
  /\ epoch <= MaxReloads
  /\ Load
  /\ UNCHANGED <<log, replies, shown, busy, forms, blocked>>

\* A card exists, and with it its form, as long as its decision is shown.
Show(rows) == shown' = rows /\ forms' = forms \cap DOMAIN rows

ListArrives ==
  /\ replies # <<>> /\ Head(replies).to.op = "list"
  /\ LET reply == Head(replies)
     IN  IF reply.ok /\ reply.to.load = epoch THEN Show(reply.rows) ELSE UNCHANGED <<shown, forms>>
  /\ replies' = Tail(replies)
  /\ UNCHANGED <<log, requests, busy, epoch, blocked>>

\* The answer to a call goes into the list at once, and the list is loaded again.
Merged(rows) ==
  [d \in DOMAIN shown \cup DOMAIN rows |-> IF d \in DOMAIN rows THEN rows[d] ELSE shown[d]]

AnswerArrives ==
  /\ replies # <<>> /\ Head(replies).to.op # "list"
  /\ busy' = FALSE
  /\ IF Head(replies).ok
     THEN Show(Merged(Head(replies).rows)) /\ Load
     ELSE UNCHANGED <<shown, forms, epoch, requests>>
  /\ replies' = Tail(replies)
  /\ UNCHANGED <<log, blocked>>

-----------------------------------------------------------------------------
DecisionsNext ==
  \/ Serve \/ PromoteFromQuestion \/ GateAsks \/ RecordGate \/ GateGoesOn
  \/ ProposeClicked \/ CardClicked \/ FormOpened \/ FormCancelled \/ FormSubmitted
  \/ Reload \/ ListArrives \/ AnswerArrives

-----------------------------------------------------------------------------
(* Properties.                                                             *)

\* Whatever the user clicks while lists and answers are under way: every row stays
\* readable (one that is not takes the whole list with it), a locked decision stays
\* locked until a locked one replaces it, what was replaced is never in force again,
\* and a gate has one verdict.  (By whom it was replaced may change: a form that is
\* opened again while its submission is under way outlives the answer, and replaces
\* the decision a second time.)
LockedIsBinding ==
  [][/\ \A d \in DOMAIN log' : Readable(log'[d])
     /\ \A d \in DOMAIN log :
          /\ log[d].status = "locked" => log'[d].status \in {"locked", "superseded"}
          /\ log[d].status = "superseded" => log'[d].status = "superseded"
          /\ log'[d].supersededBy # log[d].supersededBy =>
               log'[log'[d].supersededBy].status = "locked"
     /\ \A g \in Gates : Cardinality(GateDecision(log', g)) <= 1]_log
=============================================================================
