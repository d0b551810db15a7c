------------------------------- MODULE GraphStore -------------------------------
(***************************************************************************)
(* The graph half of WorkflowStore as its callers see it: the run row, the *)
(* attempts and the loop transitions of one graph run, used over several   *)
(* connections to the same database file.                                  *)
(*                                                                         *)
(* Each method reads and checks first and then commits one immediate       *)
(* transaction.  The two halves are two steps here, because another        *)
(* connection can commit between them; on one connection nothing does.     *)
(***************************************************************************)
EXTENDS GraphTables, FiniteSets

CONSTANTS
  Nodes,          \* node ids of the template
  Conns,          \* connections to the database
  EndStatuses,    \* terminal statuses the callers write to attempts
  RunUpdates,     \* statuses the callers write to the run
  MaxAttempts,    \* bound: attempts recorded per node
  MaxIteration    \* bound: iterations the run may reach

ASSUME GraphStoreAssumption ==
  /\ MaxAttempts \in Nat \ {0}
  /\ MaxIteration \in Nat \ {0}
  /\ EndStatuses \subseteq TerminalStatuses
  /\ RunUpdates \subseteq RunStatuses

VARIABLES
  run,        \* the graph_runs row
  attempts,   \* graph_node_runs, by node
  trans,      \* graph_transitions
  call        \* what each connection has checked and not yet committed

tables == <<run, attempts, trans>>
vars   == <<run, attempts, trans, call>>

Idle == [op |-> "idle"]
NoRun == [status |-> "none", iteration |-> 0]

Attempt == [status : AttemptStatuses, iteration : 1..MaxIteration,
            note : Notes, edge : {NoEdge}]
TransitionRow ==
  [source : Nodes, sourceAttempt : Nat \ {0}, target : Nodes,
   targetAttempt : Nat \ {0}, from : Nat \ {0}, to : Nat \ {0}]
AdvanceRequest ==
  [op : {"advance"}, source : Nodes, k : Nat \ {0}, target : Nodes,
   from : 1..(MaxIteration - 1)]
Call ==
  {Idle}
    \cup [op : {"record"}, node : Nodes, k : Nat \ {0},
          status : {"ready", "running"}, iteration : 1..MaxIteration]
    \cup [op : {"update"}, node : Nodes, k : Nat \ {0},
          status : TerminalStatuses]
    \cup AdvanceRequest

Init ==
  /\ run = NoRun
  /\ attempts = [n \in Nodes |-> << >>]
  /\ trans = {}
  /\ call = [c \in Conns |-> Idle]

-----------------------------------------------------------------------------
(* One transaction each: these methods check nothing before they write.    *)

StartGraphRun(c) ==
  /\ call[c] = Idle
  /\ run = NoRun
  /\ run' = [status |-> "running", iteration |-> 1]
  /\ UNCHANGED <<attempts, trans, call>>

\* The callers give no iteration, so the row keeps its own; any status follows
\* any other.
UpdateGraphRunStatus(c, status) ==
  /\ call[c] = Idle
  /\ run # NoRun
  /\ run' = [run EXCEPT !.status = status]
  /\ UNCHANGED <<attempts, trans, call>>

-----------------------------------------------------------------------------
(* recordNodeAttempt: the next attempt number is checked before the        *)
(* transaction, and the projection upserts.                                *)

RecordCheck(c, n, status, iteration) ==
  /\ call[c] = Idle
  /\ run # NoRun
  /\ NextAttempt(attempts, n) <= MaxAttempts
  /\ call' = [call EXCEPT ![c] =
       [op |-> "record", node |-> n, k |-> NextAttempt(attempts, n),
        status |-> status, iteration |-> iteration]]
  /\ UNCHANGED tables

RecordCommit(c) ==
  /\ call[c].op = "record"
  /\ attempts' = InsertAttempt(attempts, call[c].node, call[c].k,
                               call[c].status, call[c].iteration)
  /\ call' = [call EXCEPT ![c] = Idle]
  /\ UNCHANGED <<run, trans>>

(* updateNodeAttempt: terminal immutability is checked before the          *)
(* transaction.                                                            *)

UpdateCheck(c, n, k, status) ==
  /\ call[c] = Idle
  /\ k <= Len(attempts[n])
  /\ attempts[n][k].status \notin TerminalStatuses
  /\ call' = [call EXCEPT ![c] =
       [op |-> "update", node |-> n, k |-> k, status |-> status]]
  /\ UNCHANGED tables

\* Variant for mutation: the node's latest attempt is written, not the one that
\* was checked.
UpdateCommitLatest(c) ==
  /\ call[c].op = "update"
  /\ attempts' = SetAttempt(attempts, call[c].node, Len(attempts[call[c].node]),
                            call[c].status, "none")
  /\ call' = [call EXCEPT ![c] = Idle]
  /\ UNCHANGED <<run, trans>>

UpdateCommit(c) ==
  /\ call[c].op = "update"
  /\ attempts' = SetAttempt(attempts, call[c].node, call[c].k,
                            call[c].status, "none")
  /\ call' = [call EXCEPT ![c] = Idle]
  /\ UNCHANGED <<run, trans>>

(* advanceLoopIteration: the preflight that fails leaves nothing behind, a *)
(* replay of a known source attempt returns the row that is there; either  *)
(* way the call ends where it began.                                       *)

\* Variant for mutation: the source attempt need not have completed.
AdvancePreflightOfAny(c, s, k, t, from) ==
  /\ call[c] = Idle
  /\ BySource(trans, s, k) = {}
  /\ ByTarget(trans, t, from + 1) = {}
  /\ ~HasAttemptIn(attempts, t, from + 1)
  /\ k <= Len(attempts[s])
  /\ attempts[s][k].iteration = from
  /\ from < MaxIteration
  /\ call' = [call EXCEPT ![c] =
       [op |-> "advance", source |-> s, k |-> k, target |-> t, from |-> from]]
  /\ UNCHANGED tables

AdvancePreflight(c, s, k, t, from) ==
  /\ call[c] = Idle
  /\ BySource(trans, s, k) = {}
  /\ ByTarget(trans, t, from + 1) = {}
  /\ ~HasAttemptIn(attempts, t, from + 1)
  /\ k <= Len(attempts[s])
  /\ attempts[s][k].status = "completed"
  /\ attempts[s][k].iteration = from
  /\ from < MaxIteration
  /\ call' = [call EXCEPT ![c] =
       [op |-> "advance", source |-> s, k |-> k, target |-> t, from |-> from]]
  /\ UNCHANGED tables

\* Variants for mutation of AdvanceAllowed: without the run's status, without its
\* iteration, and without anything but the status.
AllowedWhenEnded(r) ==
  /\ BySource(trans, r.source, r.k) = {}
  /\ ByTarget(trans, r.target, r.from + 1) = {}
  /\ ~HasAttemptIn(attempts, r.target, r.from + 1)
  /\ run.iteration = r.from
AllowedFromAny(r) ==
  /\ BySource(trans, r.source, r.k) = {}
  /\ ByTarget(trans, r.target, r.from + 1) = {}
  /\ ~HasAttemptIn(attempts, r.target, r.from + 1)
  /\ run.status = "running"
AllowedUnchecked(r) == run.status = "running"

\* What the transaction checks again, and the compare-and-set on the run row.
AdvanceAllowed(r) ==
  /\ BySource(trans, r.source, r.k) = {}
  /\ ByTarget(trans, r.target, r.from + 1) = {}
  /\ ~HasAttemptIn(attempts, r.target, r.from + 1)
  /\ run.iteration = r.from
  /\ run.status = "running"

AdvanceCommit(c) ==
  LET r == call[c] IN
  /\ r.op = "advance"
  /\ AdvanceAllowed(r)
  /\ NextAttempt(attempts, r.target) <= MaxAttempts
  /\ run' = [run EXCEPT !.iteration = r.from + 1]
  /\ trans' = trans \cup
       {Transition(r.source, r.k, r.target, NextAttempt(attempts, r.target), r.from)}
  /\ attempts' = RecordAttempt(attempts, r.target, "ready", r.from + 1)
  /\ call' = [call EXCEPT ![c] = Idle]

\* A re-check or the compare-and-set fails: the transaction rolls back (or the
\* call returns the transition another connection committed).
AdvanceRollback(c) ==
  /\ call[c].op = "advance"
  /\ \/ ~AdvanceAllowed(call[c])
     \/ NextAttempt(attempts, call[c].target) > MaxAttempts
  /\ call' = [call EXCEPT ![c] = Idle]
  /\ UNCHANGED tables

-----------------------------------------------------------------------------
Step(c) ==
  \/ StartGraphRun(c)
  \/ \E status \in RunUpdates : UpdateGraphRunStatus(c, status)
  \/ \E n \in Nodes, status \in {"ready", "running"}, i \in 1..MaxIteration :
       RecordCheck(c, n, status, i)
  \/ RecordCommit(c)
  \/ \E n \in Nodes, k \in 1..MaxAttempts, status \in EndStatuses :
       UpdateCheck(c, n, k, status)
  \/ UpdateCommit(c)
  \/ \E s, t \in Nodes, k \in 1..MaxAttempts, from \in 1..MaxIteration :
       AdvancePreflight(c, s, k, t, from)
  \/ AdvanceCommit(c)
  \/ AdvanceRollback(c)

Next == \E c \in Conns : Step(c)

Spec == Init /\ [][Next]_vars

-----------------------------------------------------------------------------
(* Every row and every pending call has the shape the schema gives it.     *)
TypeOK ==
  /\ run \in {NoRun} \cup
       [status : RunStatuses, iteration : 1..MaxIteration]
  /\ attempts \in [Nodes -> Seq(Attempt)]
  /\ trans \subseteq TransitionRow
  /\ call \in [Conns -> Call]

(* Every iteration the run has reached, after the first, was entered by    *)
(* exactly one transition, from the iteration just before it: competing    *)
(* transitions of two connections never both commit, and none is skipped.  *)
IterationChain ==
  /\ \A t \in trans : t.to = t.from + 1 /\ t.to <= run.iteration
  /\ \A i \in 2..run.iteration : \E t \in trans : t.to = i
  /\ \A t, u \in trans : t.to = u.to => t = u

(* A completed source attempt takes its feedback edge at most once, however *)
(* often and over however many connections the advance is requested.        *)
OneTransitionPerSource ==
  \A t, u \in trans :
    t.source = u.source /\ t.sourceAttempt = u.sourceAttempt => t = u

(* What a transition row refers to is there: its source attempt completed   *)
(* in the iteration it left, its target attempt belongs to the iteration it *)
(* opened.  advanceLoopIteration reads the source before its transaction    *)
(* and never again.                                                         *)
TransitionsGrounded ==
  \A t \in trans :
    /\ t.sourceAttempt <= Len(attempts[t.source])
    /\ attempts[t.source][t.sourceAttempt].status = "completed"
    /\ attempts[t.source][t.sourceAttempt].iteration = t.from
    /\ t.targetAttempt <= Len(attempts[t.target])
    /\ attempts[t.target][t.targetAttempt].iteration = t.to

(* updateNodeAttempt checks before its transaction that the attempt has not *)
(* ended, so a call that checked in time may overwrite what another         *)
(* connection wrote meanwhile.  That ends with the calls under way: an      *)
(* ended attempt that none of them is about to write is final, whatever is  *)
(* called afterwards and over whatever connection.                          *)
Aimed(n, k) ==
  {c \in Conns : /\ call[c].op \in {"record", "update"}
                 /\ call[c].node = n
                 /\ call[c].k = k}
Settled(n, k) ==
  /\ k <= Len(attempts[n])
  /\ attempts[n][k].status \in TerminalStatuses
  /\ Aimed(n, k) = {}
OutcomesSettle ==
  [][\A n \in Nodes : \A k \in 1..Len(attempts[n]) :
       Settled(n, k) => /\ Settled(n, k)'
                        /\ attempts'[n][k] = attempts[n][k]]_vars

(* The iteration of a started run moves one step at a time, only while the  *)
(* run is running, and only together with the transition and the new ready  *)
(* attempt of its target.                                                   *)
AdvanceIsAtomic ==
  [][run # NoRun /\ run'.iteration # run.iteration
       => /\ run.status = "running"
          /\ run'.iteration = run.iteration + 1
          /\ \E t \in trans' \ trans :
               /\ t.from = run.iteration
               /\ t.targetAttempt = Len(attempts[t.target]) + 1
               /\ Len(attempts'[t.target]) = t.targetAttempt]_vars

(* With one connection the tables are a history as RunHistory promises it.  *)
History == INSTANCE RunHistory
ImplementsHistory == History!Spec

=============================================================================
