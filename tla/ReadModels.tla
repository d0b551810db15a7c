------------------------------- MODULE ReadModels -------------------------------
(***************************************************************************)
(* The event log of a project and the tables derived from it: what the     *)
(* stores append (db/eventStore.ts), what applyEvent() makes of it and     *)
(* what rebuildProjections() makes of the whole log again                  *)
(* (db/projections.ts).  The tables of graph runs are in GraphTables.      *)
(*                                                                         *)
(* A key is <<table, owner, name>>; an event of an account is logged under *)
(* the account's id.  Columns that no writer treats in a way of its own    *)
(* are one column.  The table of direct runs is not derived from the log.  *)
(***************************************************************************)
EXTENDS Integers, Sequences

CONSTANTS
  Project,     \* the id of the project
  Account,     \* the id of the account
  Texts,       \* what may be written
  MaxEvents,   \* bound on a log, for each topic
  Topics       \* a behaviour is about one of "rules", "accounts", "work", "answers"
               \* and "decisions"

\* An account is not the project that it works for.
ASSUME LogsAreKnown == Project # Account /\ MaxEvents \in [Topics -> Nat]

VARIABLES
  topic,
  events,      \* the log of each owner, in the order of its numbers
  tables       \* the rows

readVars == <<topic, events, tables>>

none  == "none"
never == 0
States   == {"PLANNING", "AWAITING_USER", "HALTED_LIMIT", "DONE"}
Terminal == {"HALTED_LIMIT", "DONE"}

-----------------------------------------------------------------------------
(* Keys.  Whatever belongs to a project goes with it.                      *)

TheProject   == <<"projects", Project, none>>
Repository   == <<"repositories", Project, none>>
Rule(k)      == <<"rules", Project, k>>
Binding(r)   == <<"agent_bindings", Project, r>>
Task         == <<"tasks", Project, none>>
Workflow     == <<"workflows", Project, none>>
Step(s)      == <<"workflow_steps", Project, s>>
Artifact     == <<"evidence_artifacts", Project, none>>
Changes      == <<"change_sets", Project, none>>
Question     == <<"open_questions", Project, none>>
Decision(d)  == <<"decisions", Project, d>>
TheAccount   == <<"accounts", Account, none>>
DirectRun    == <<"runs", Project, none>>

\* The row a row refers to: without it, the database refuses the row.
Parent(key) ==
  CASE key[1] = "workflows" -> Task
    [] key[1] = "workflow_steps" -> Workflow
    [] key[1] \in {"projects", "accounts"} -> key
    [] OTHER -> TheProject

\* Rows with one more, or changed, and without some.
With(rows, key, row) == [k \in DOMAIN rows \cup {key} |-> IF k = key THEN row ELSE rows[k]]
Without(rows, gone)  == [k \in DOMAIN rows \ gone |-> rows[k]]
OwnedBy(rows, owner) == {k \in DOMAIN rows : k[2] = owner /\ k[1] # "accounts"}

-----------------------------------------------------------------------------
(* Events: a type, the row it is about, and the columns it carries.        *)

Logged(type, key, row) == [type |-> type, key |-> key, row |-> row]
Nothing == [c \in {} |-> none]

\* The columns of an event laid over those of a row.
Over(new, old) ==
  [c \in DOMAIN new \cup DOMAIN old |-> IF c \in DOMAIN new THEN new[c] ELSE old[c]]

\* What some of them carry; of a new row, applyEvent() takes all the columns.
ProjectCreated(now) ==
  <<Logged("project.created", TheProject, [name |-> none, createdAt |-> now]),
    Logged("repository.bound", Repository, [settings |-> none])>>
TaskCreated(now)     == Logged("task.created", Task, [scope |-> none, createdAt |-> now])
EvidenceRecorded     == Logged("evidence.recorded", Artifact, [outcome |-> none])
QuestionAsked        == Logged("question.asked", Question, [answer |-> none])
ChangesCaptured      == Logged("changeset.captured", Changes, [reviewVerdict |-> none])
DecisionProposed(d, status) ==
  Logged("decision.proposed", Decision(d), [status |-> status, supersededBy |-> none])
AccountRegistered ==
  Logged("account.registered", TheAccount,
        [status |-> "connected", lastUsedAt |-> none, createdAt |-> never])
BindingSet(r, id, runtime) ==
  Logged("binding.set", Binding(r), [id |-> id, runtimeId |-> runtime])

Upserts == {"project.created", "repository.bound", "rule.set", "binding.set", "task.created",
            "workflow.started", "step.started", "evidence.recorded", "changeset.captured",
            "question.asked", "decision.proposed", "account.registered"}
Deletes == {"rule.removed", "account.removed"}

\* Columns that only an insertion sets: what applyEvent() puts into a new row by itself,
\* and what its update of a row that exists leaves out.
Initially(type) ==
  IF type = "workflow.started"
  THEN [state |-> "DISCOVERY", iteration |-> 0, resumeState |-> none, checkpoint |-> never,
        haltReason |-> none, finishedAt |-> never]
  ELSE Nothing

KeptOnConflict(type) ==
  DOMAIN Initially(type) \cup
  CASE type \in {"project.created", "rule.set", "task.created", "account.registered"} ->
         {"createdAt"}
    [] type = "step.started" -> {"verdict", "finishedAt"}
    [] OTHER -> {}

\* A database that refused an event: the transaction is rolled back.
Refused == [k \in {<<"refused", none, none>>} |-> Nothing]

Upserted(rows, e) ==
  LET known == e.key \in DOMAIN rows
      full  == Over(Initially(e.type), e.row)
      set   == [c \in DOMAIN full \ (IF known THEN KeptOnConflict(e.type) ELSE {}) |-> full[c]]
  IN  IF e.key # Parent(e.key) /\ Parent(e.key) \notin DOMAIN rows THEN Refused
      ELSE With(rows, e.key, IF known THEN Over(set, rows[e.key]) ELSE set)

\* A rule is removed by its id, whatever its key.
Deleted(rows, e) ==
  Without(rows, {k \in DOMAIN rows :
                   /\ k[1] = e.key[1]
                   /\ IF e.type = "rule.removed" THEN rows[k].id = e.row.id ELSE k = e.key})

\* Variant for mutation: an update that counts on from what is in the row.
UpdatedByCounting(rows, e) ==
  IF e.key \in DOMAIN rows
  THEN [rows EXCEPT ![e.key] =
          Over(IF "iteration" \in DOMAIN e.row
               THEN [e.row EXCEPT !.iteration = @ + rows[e.key].iteration] ELSE e.row, @)]
  ELSE rows
Updated(rows, e) ==
  IF e.key \in DOMAIN rows THEN [rows EXCEPT ![e.key] = Over(e.row, @)] ELSE rows

applyEvent(rows, e) ==
  IF rows = Refused THEN rows
  ELSE CASE e.type \in Upserts -> Upserted(rows, e)
         [] e.type \in Deletes -> Deleted(rows, e)
         [] OTHER -> Updated(rows, e)

\* One event after the other.
Replayed(rows, list) ==
  LET replayed[n \in 0..Len(list)] ==
        IF n = 0 THEN rows ELSE applyEvent(replayed[n - 1], list[n])
  IN  replayed[Len(list)]

\* rebuildProjections(): the row of the project goes, and all that depends on it.
Rebuilt(rows, owner) == Replayed(Without(rows, OwnedBy(rows, owner)), events[owner])

-----------------------------------------------------------------------------
(* Append and project, in one transaction: what is refused leaves no trace.*)

ReadInit ==
  /\ topic \in Topics
  /\ events = [o \in {Project, Account} |-> <<>>]
  /\ tables = Nothing

Record(owner, new) ==
  LET rows == Replayed(tables, new)
  IN  /\ Len(events[owner]) + Len(new) <= MaxEvents[topic]
      /\ rows # Refused
      /\ events' = [events EXCEPT ![owner] = @ \o new]
      /\ tables' = rows
      /\ UNCHANGED topic

Exists(key) == key \in DOMAIN tables
RowOf(key)  == tables[key]
Now         == Len(events[Project])

\* An id that was never used: the number of the event that brings it.
FreshId == Now + 1

-----------------------------------------------------------------------------
(* Projects, rules, bindings, accounts.                                    *)

CreateProject ==
  /\ ~Exists(TheProject) /\ events[Project] = <<>>
  /\ Record(Project, ProjectCreated(Now))

\* hasRunningWorkflow(): the project has a workflow that is not finished.
HasRunningWorkflow == Exists(Workflow) /\ RowOf(Workflow).state \notin Terminal

UpdateProject(name, settings) ==
  /\ topic = "rules" /\ Exists(TheProject) /\ ~HasRunningWorkflow
  /\ Record(Project,
       (IF name # RowOf(TheProject).name
        THEN <<Logged("project.updated", TheProject, [name |-> name])>> ELSE <<>>)
       \o <<Logged("repository.bound", Repository, [settings |-> settings])>>)

SetRule(k, text) ==
  /\ topic = "rules" /\ Exists(TheProject)
  /\ LET old == Exists(Rule(k))
     IN Record(Project, <<Logged("rule.set", Rule(k),
          [id |-> IF old THEN RowOf(Rule(k)).id ELSE FreshId, statement |-> text,
           createdAt |-> IF old THEN RowOf(Rule(k)).createdAt ELSE Now])>>)

\* Neither the project nor the rule is looked up.
RemoveRule(id) ==
  /\ topic = "rules" /\ id <= Now
  /\ Record(Project, <<Logged("rule.removed", Rule(none), [id |-> id])>>)

BindRole(r, runtime) ==
  /\ topic = "accounts"
  /\ Record(Project, <<BindingSet(r, FreshId, runtime)>>)

RegisterAccount ==
  /\ topic = "accounts" /\ events[Account] = <<>>
  /\ Record(Account, <<AccountRegistered>>)

\* A time of last use that is not given is not written.
UpdateAccount(status, used) ==
  /\ topic = "accounts" /\ Exists(TheAccount)
  /\ Record(Account, <<Logged("account.status_updated", TheAccount,
                             IF used = none THEN [status |-> status]
                             ELSE [status |-> status, lastUsedAt |-> used])>>)

RemoveAccount ==
  /\ topic = "accounts" /\ Exists(TheAccount)
  /\ Record(Account, <<Logged("account.removed", TheAccount, Nothing)>>)

-----------------------------------------------------------------------------
(* A workflow: its task, its transitions, checkpoints, steps and evidence. *)

StartWorkflow ==
  /\ topic = "work" /\ Exists(TheProject) /\ ~Exists(Workflow)
  /\ Record(Project, <<TaskCreated(Now),
                       Logged("workflow.started", Workflow, [templateId |-> none])>>)

\* WorkflowStore.apply(): the trigger is legal (see WorkflowMachine), a halt has its reason
\* in an event of its own, and so has the end.
ApplyTrigger(to, iteration) ==
  /\ HasRunningWorkflow /\ topic = "work" /\ to # RowOf(Workflow).state
  /\ LET from == RowOf(Workflow).state
     IN Record(Project,
          <<Logged("workflow.transitioned", Workflow,
              [state |-> to, iteration |-> iteration,
               resumeState |-> IF to = "AWAITING_USER" THEN from ELSE none])>>
          \o (IF to = "HALTED_LIMIT"
              THEN <<Logged("workflow.halted", Workflow,
                       [state |-> to, haltReason |-> "limit", finishedAt |-> Now,
                        checkpoint |-> never])>>
              ELSE <<>>)
          \o (IF to \in Terminal
              THEN <<Logged("workflow.finished", Workflow,
                       [state |-> to, finishedAt |-> Now, checkpoint |-> never])>>
              ELSE <<>>))

Checkpoint ==
  /\ topic = "work" /\ Exists(Workflow)
  /\ Record(Project, <<Logged("workflow.checkpointed", Workflow, [checkpoint |-> Now])>>)

StartStep(s) ==
  /\ topic = "work" /\ Exists(Workflow)
  /\ Record(Project, <<Logged("step.started", Step(s),
                             [startedAt |-> Now, verdict |-> none, finishedAt |-> never])>>)

FinishStep(s, verdict) ==
  /\ topic = "work" /\ Exists(Step(s))
  /\ Record(Project, <<Logged("step.finished", Step(s),
                             [verdict |-> verdict, finishedAt |-> Now])>>)

RecordEvidence ==
  /\ topic = "work" /\ Exists(Workflow) /\ ~Exists(Artifact)
  /\ Record(Project, <<EvidenceRecorded>>)

-----------------------------------------------------------------------------
(* Change sets, questions and decisions.                                   *)

RecordChanges ==
  /\ topic = "answers" /\ ~Exists(Changes)
  /\ Record(Project, <<ChangesCaptured>>)

RecordReview(verdict) ==
  /\ topic = "answers" /\ Exists(Changes)
  /\ Record(Project, <<Logged("changeset.reviewed", Changes, [reviewVerdict |-> verdict])>>)

Ask ==
  /\ topic = "answers" /\ ~Exists(Question)
  /\ Record(Project, <<QuestionAsked>>)

Answer(text) ==
  /\ topic = "answers" /\ Exists(Question)
  /\ Record(Project, <<Logged("question.answered", Question, [answer |-> text])>>)

Propose(d) ==
  /\ topic = "decisions" /\ ~Exists(Decision(d))
  /\ Record(Project, <<DecisionProposed(d, "proposed")>>)

Decide(d, type, status) ==
  /\ topic = "decisions" /\ Exists(Decision(d))
  /\ Record(Project, <<Logged(type, Decision(d), [status |-> status])>>)

Supersede(d, by) ==
  /\ topic = "decisions" /\ Exists(Decision(d)) /\ ~Exists(Decision(by))
  /\ Record(Project, <<DecisionProposed(by, "locked"),
                       Logged("decision.locked", Decision(by), [status |-> "locked"]),
                       Logged("decision.superseded", Decision(d),
                             [status |-> "superseded", supersededBy |-> by])>>)

-----------------------------------------------------------------------------
(* What has no event: a direct run, the removal of a project, the rebuild. *)

StartDirectRun ==
  /\ topic = "rules" /\ Exists(TheProject) /\ ~Exists(DirectRun)
  /\ tables' = With(tables, DirectRun, Nothing)
  /\ UNCHANGED <<topic, events>>

DeleteProject ==
  /\ Exists(TheProject) /\ ~HasRunningWorkflow
  /\ tables' = Without(tables, OwnedBy(tables, Project))
  /\ events' = [events EXCEPT ![Project] = <<>>]
  /\ UNCHANGED topic

Rebuild(owner) ==
  /\ events[owner] # <<>>
  /\ tables' = IF Rebuilt(tables, owner) = Refused THEN tables ELSE Rebuilt(tables, owner)
  /\ UNCHANGED <<topic, events>>

ReadNext ==
  \/ \E t \in Texts : \/ UpdateProject(t, t) \/ UpdateAccount(t, none)
                     \/ UpdateAccount(t, t) \/ FinishStep(none, t) \/ RecordReview(t) \/ Answer(t)
                     \/ Propose(t) \/ Decide(t, "decision.approved", "approved")
                     \/ Decide(t, "decision.locked", "locked")
  \/ \E t, u \in Texts : SetRule(t, u) \/ BindRole(t, u) \/ Supersede(t, u)
  \/ \E id \in 1..MaxEvents[topic] : RemoveRule(id)
  \/ \E to \in States, i \in 0..1 : ApplyTrigger(to, i)
  \/ CreateProject \/ RegisterAccount \/ RemoveAccount \/ StartWorkflow \/ Checkpoint
  \/ StartStep(none) \/ RecordEvidence \/ RecordChanges \/ Ask \/ StartDirectRun \/ DeleteProject
  \/ \E o \in {Project, Account} : Rebuild(o)

-----------------------------------------------------------------------------
(* Properties.                                                             *)

Derived(rows) == [k \in {k \in DOMAIN rows : k[1] # "runs"} |-> rows[k]]

\* The tables can be dropped and derived again, and the end of a log applied a second
\* time, as a resume does: neither changes a row (projections.ts:27 and :163).
LogIsTheTruth ==
  \A o \in {Project, Account} :
    /\ Derived(Rebuilt(tables, o)) = Derived(tables)
    /\ \A k \in 1..Len(events[o]) :
         Replayed(tables, SubSeq(events[o], k, Len(events[o]))) = tables
=============================================================================
