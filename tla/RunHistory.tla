------------------------------- MODULE RunHistory -------------------------------
(***************************************************************************)
(* What a graph run promises whoever reads its rows: the run goes through  *)
(* its iterations one by one, each opened by one completed attempt that    *)
(* took a feedback edge; nothing that was recorded is taken back, and an   *)
(* attempt that ended keeps its outcome.  GraphStore and GraphExecutor     *)
(* implement it.                                                           *)
(***************************************************************************)
EXTENDS GraphTables

CONSTANT Nodes
VARIABLES run, attempts, trans

vars == <<run, attempts, trans>>

NotStarted == [status |-> "none", iteration |-> 0]

Init ==
  /\ run = NotStarted
  /\ attempts = [n \in Nodes |-> << >>]
  /\ trans = {}

\* The run appears, in its first iteration.
Begin ==
  /\ run = NotStarted
  /\ run' = [status |-> "running", iteration |-> 1]
  /\ UNCHANGED <<attempts, trans>>

\* Attempts are added, and those that have not ended may change their status.
HistoryGrows ==
  \A n \in Nodes : \A k \in 1..Len(attempts[n]) :
    /\ k <= Len(attempts'[n])
    /\ attempts'[n][k].iteration = attempts[n][k].iteration
    /\ attempts[n][k].status \in TerminalStatuses => attempts'[n][k] = attempts[n][k]

\* Work within an iteration, changes of the run's status included.
Progress ==
  /\ run'.iteration = run.iteration
  /\ HistoryGrows
  /\ trans' = trans

\* A running run enters its next iteration: the transition names an attempt that
\* completed in the current one and has opened no other, and the new attempt of
\* the target that it makes ready.
Advance ==
  /\ run.status = "running"
  /\ run' = [run EXCEPT !.iteration = @ + 1]
  /\ \E s, t \in Nodes : \E k \in 1..Len(attempts[s]) :
       /\ attempts[s][k].status = "completed"
       /\ attempts[s][k].iteration = run.iteration
       /\ BySource(trans, s, k) = {}
       /\ trans' = trans \cup {Transition(s, k, t, NextAttempt(attempts, t), run.iteration)}
       /\ attempts' = RecordAttempt(attempts, t, "ready", run.iteration + 1)

Next == Begin \/ Progress \/ Advance

Spec == Init /\ [][Next]_vars
=============================================================================
