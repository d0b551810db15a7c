------------------------------- MODULE DagExecutor -------------------------------
(***************************************************************************)
(* DagExecutor: one graph in memory, batch by batch, each node once; edges *)
(* that lead back, routers and gates mean nothing to it.  The constructor  *)
(* refuses a graph that is not valid.                                      *)
(***************************************************************************)
EXTENDS TemplateGraph

CONSTANTS
  Graphs,    \* whatever a caller may hand over: [nodes, edges]
  BuiltIn    \* the linear templates that come with Forge: sequences of roles

\* Graphs are finite; where a template of Forge has both roles, it reviews what it has
\* implemented.
ASSUME DagAssumption ==
  /\ \A g \in Graphs : IsFiniteSet(g.nodes)
  /\ \A steps \in BuiltIn :
       /\ steps \in Seq(STRING)
       /\ {"implementer", "reviewer"} \subseteq {steps[i] : i \in DOMAIN steps} =>
            LastStep(steps, "implementer") < LastStep(steps, "reviewer")

Compiled(steps) == [nodes |-> CompiledNodes(steps), edges |-> CompiledEdges(steps)]

VARIABLES
  graph,
  dagPc,        \* "new", "loop", "batch", and then "refused", "rejected" or a status
  completed, failed, executing,
  ahead,        \* nodes whose predecessors had not completed when they started
  dagAborted

dagVars == <<graph, dagPc, completed, failed, executing, ahead, dagAborted>>

DagInit ==
  /\ graph \in Graphs \cup {Compiled(steps) : steps \in BuiltIn}
  /\ dagPc = "new"
  /\ completed = {} /\ failed = {} /\ executing = {} /\ ahead = {}
  /\ dagAborted = FALSE

Construct ==
  /\ dagPc = "new"
  /\ dagPc' = IF ValidGraph(graph.nodes, graph.edges) THEN "loop" ELSE "refused"
  /\ UNCHANGED <<graph, completed, failed, executing, ahead, dagAborted>>

Ready == ReadyNodes(Ids(graph.nodes), graph.edges, completed, {}) \ failed

\* The head of the loop, and the start of the batch.
StartBatch ==
  /\ dagPc = "loop" /\ completed # Ids(graph.nodes) /\ ~dagAborted /\ Ready # {}
  /\ executing' = Ready
  /\ ahead' = ahead \cup {n \in Ready : \E m \in Ids(graph.nodes) \ completed :
                            Leads(graph.nodes, graph.edges, m, n)}
  /\ dagPc' = "batch"
  /\ UNCHANGED <<graph, completed, failed, dagAborted>>

\* All nodes are done, the signal was given, or no node is ready.
Leave ==
  /\ dagPc = "loop"
  /\ IF completed = Ids(graph.nodes) THEN dagPc' = "completed"
     ELSE IF dagAborted THEN dagPc' = "aborted"
     ELSE Ready = {} /\ dagPc' = "completed"
  /\ UNCHANGED <<graph, completed, failed, executing, ahead, dagAborted>>

\* A node ends, also after the call has been rejected.
NodeCompletes(n) ==
  /\ n \in executing
  /\ executing' = executing \ {n} /\ completed' = completed \cup {n}
  /\ dagPc' = IF dagPc = "batch" /\ executing = {n} THEN "loop" ELSE dagPc
  /\ UNCHANGED <<graph, failed, ahead, dagAborted>>

\* The first node that fails rejects Promise.all, and with it the call: the answer
\* "failed" that run() has behind it is never given.
NodeFails(n) ==
  /\ n \in executing
  /\ executing' = executing \ {n} /\ failed' = failed \cup {n}
  /\ dagPc' = "rejected"
  /\ UNCHANGED <<graph, completed, ahead, dagAborted>>

DagAbort ==
  /\ dagPc \in {"loop", "batch"} /\ ~dagAborted
  /\ dagAborted' = TRUE
  /\ UNCHANGED <<graph, dagPc, completed, failed, executing, ahead>>

DagStep == Construct \/ StartBatch \/ Leave

DagNext ==
  \/ DagStep \/ DagAbort
  \/ \E n \in Ids(graph.nodes) : NodeCompletes(n) \/ NodeFails(n)

DagOver == dagPc \in {"refused", "rejected", "aborted", "completed"}

\* The thread goes on, and the callers of executeNode bound every node.
DagFairness ==
  /\ WF_dagVars(DagStep)
  /\ WF_dagVars(\E n \in Ids(graph.nodes) : NodeCompletes(n) \/ NodeFails(n))

DagSpec == DagInit /\ [][DagNext]_dagVars /\ DagFairness

-----------------------------------------------------------------------------
(* Properties.                                                             *)

\* validateWorkflowGraph() accepts exactly the graphs that can be run to their end, and
\* what Forge compiles from its own templates is among them.  A graph that is run is
\* run in order, and the answer "completed" means that every node is done.
OnlySoundGraphsRun ==
  /\ dagPc = "refused" <=>
       /\ dagPc # "new"
       /\ ~(/\ EndsExist(graph.nodes, graph.edges)
            /\ Sound(graph.nodes, graph.edges)
            /\ RoutersAreClear(graph.nodes, graph.edges))
  /\ graph \in {Compiled(steps) : steps \in BuiltIn} => dagPc # "refused"
  /\ ahead = {}
  /\ dagPc = "completed" => completed = Ids(graph.nodes) /\ failed = {}
=============================================================================
