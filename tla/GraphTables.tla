------------------------------ MODULE GraphTables ------------------------------
(***************************************************************************)
(* The rows that WorkflowStore keeps for one graph run and the pure part   *)
(* of the operations on them.  A node's attempts are a sequence: the store *)
(* numbers them 1, 2, ... without a gap and the unique index is on         *)
(* (run, node, attempt), so the position of a row is its attempt number.   *)
(***************************************************************************)
EXTENDS Naturals, Sequences

TerminalStatuses == {"completed", "failed", "skipped", "blocked", "cancelled"}
AttemptStatuses  == {"ready", "running"} \cup TerminalStatuses
RunStatuses      == {"running", "completed", "failed", "halted", "cancelled"}
TerminalRun      == RunStatuses \ {"running"}

\* Why an attempt ended, as far as recovery reads the error text: "wait" is a
\* resumable block, "slot" names a missing required input, "resolution" any
\* other input resolution error, "other" everything else.
Notes == {"none", "wait", "slot", "resolution", "other"}

\* No edge selected, no routing decision.
NoEdge == "-"

\* A row of graph_node_runs as recordNodeAttempt inserts it.
NewAttempt(status, iteration) ==
  [status |-> status, iteration |-> iteration, note |-> "none", edge |-> NoEdge]

\* The number recordNodeAttempt demands of the next attempt of node n.
NextAttempt(attempts, n) == Len(attempts[n]) + 1

\* getLatestNodeRuns: a node's logical status is that of its highest attempt;
\* a node without a row has none ("pending").
Latest(attempts, n)       == attempts[n][Len(attempts[n])]
LatestStatus(attempts, n) ==
  IF attempts[n] = << >> THEN "pending" ELSE Latest(attempts, n).status

\* The event graph_node.attempt_started as it is projected: an insert that, on a
\* row with the same (run, node, attempt), overwrites status and iteration.
InsertAttempt(attempts, n, k, status, iteration) ==
  IF k = NextAttempt(attempts, n)
  THEN [attempts EXCEPT ![n] = Append(@, NewAttempt(status, iteration))]
  ELSE [attempts EXCEPT ![n][k].status = status, ![n][k].iteration = iteration]

\* recordNodeAttempt in one step.
RecordAttempt(attempts, n, status, iteration) ==
  InsertAttempt(attempts, n, NextAttempt(attempts, n), status, iteration)

\* The event graph_node.attempt_updated as it is projected.
SetAttempt(attempts, n, k, status, note) ==
  [attempts EXCEPT ![n][k].status = status, ![n][k].note = note]

\* getNodeAttemptInIteration finds a row.
HasAttemptIn(attempts, n, iteration) ==
  \E k \in 1..Len(attempts[n]) : attempts[n][k].iteration = iteration

\* The request an executor hands to advanceLoopIteration, and the transition row
\* it becomes.
Transition(source, sourceAttempt, target, targetAttempt, from) ==
  [source |-> source, sourceAttempt |-> sourceAttempt, target |-> target,
   targetAttempt |-> targetAttempt, from |-> from, to |-> from + 1]

BySource(trans, source, k) ==
  {t \in trans : t.source = source /\ t.sourceAttempt = k}
ByTarget(trans, target, to) ==
  {t \in trans : t.target = target /\ t.to = to}
=============================================================================
