----------------------------- MODULE WorkflowGraph -----------------------------
(***************************************************************************)
(* The pure graph algorithms of shared/domain/workflowGraph.ts, as         *)
(* operators of a set of nodes N and a set of edges E.  An edge is a       *)
(* record with the fields id, source, target, isFeedback, isDefault and    *)
(* conditional (whether it carries a condition).                           *)
(***************************************************************************)
EXTENDS Naturals, FiniteSets

Forward(E)  == {e \in E : ~e.isFeedback}
Feedback(E) == {e \in E : e.isFeedback}
In(E, n)    == {e \in Forward(E) : e.target = n}
Out(E, n)   == {e \in E : e.source = n}
Preds(E, n) == {e.source : e \in In(E, n)}

\* What the breadth-first search from s over forward edges visits, s included.
ReachableFrom(N, E, s) ==
  LET Level[d \in 0..Cardinality(N)] ==
        IF d = 0 THEN {s}
        ELSE Level[d - 1] \cup
               {e.target : e \in {f \in Forward(E) : f.source \in Level[d - 1]}}
  IN  Level[Cardinality(N)]

\* The same search backwards: the nodes that reach s, s included.
CanReach(N, E, s) ==
  LET Level[d \in 0..Cardinality(N)] ==
        IF d = 0 THEN {s}
        ELSE Level[d - 1] \cup
               {e.source : e \in {f \in Forward(E) : f.target \in Level[d - 1]}}
  IN  Level[Cardinality(N)]

\* getLoopBody of the feedback edge from s to t.
LoopBody(N, E, s, t) == ReachableFrom(N, E, t) \cap CanReach(N, E, s)

\* getTransitiveDownstream: the search starts at n without visiting it, so n is
\* downstream of itself only on a cycle.
Downstream(N, E, n) ==
  UNION {ReachableFrom(N, E, e.target) : e \in Out(Forward(E), n)}

\* getReadyNodes: unfinished nodes all of whose forward predecessors finished.
ReadyNodes(N, E, completed, skipped) ==
  {n \in N \ (completed \cup skipped) :
     Preds(E, n) \subseteq completed \cup skipped}
=============================================================================
