------------------------------ MODULE TemplateGraph ------------------------------
(***************************************************************************)
(* Which graphs may be run: validateWorkflowGraph(), and the graph that    *)
(* compileLinearTemplateToGraph() makes of a linear template.  A node has  *)
(* an id and a type; see WorkflowGraph for edges.                          *)
(***************************************************************************)
EXTENDS WorkflowGraph, Sequences

Ids(nodes) == {n.id : n \in nodes}

-----------------------------------------------------------------------------
(* validateWorkflowGraph().                                                *)

EndsExist(nodes, edges) == \A e \in edges : {e.source, e.target} \subseteq Ids(nodes)

\* getTopologicalSort(), level by level instead of one by one: a node is sorted once
\* everything in front of it is.  What is never sorted lies behind or on a cycle.
Sorted(nodes, edges) ==
  LET N == Ids(nodes)
      Level[d \in 0..Cardinality(N)] ==
        IF d = 0 THEN {} ELSE {n \in N : Preds(edges, n) \subseteq Level[d - 1]}
  IN  Level[Cardinality(N)]

IsDag(nodes, edges) == Sorted(nodes, edges) = Ids(nodes)

Body(nodes, edges, e) == LoopBody(Ids(nodes), edges, e.source, e.target)

\* The position of the target is compared with that of the source as well; a target
\* that reaches its source always comes before it.
IsLoop(nodes, edges, e) ==
  e.source # e.target /\ {e.source, e.target} \subseteq Body(nodes, edges, e)

SameLoop(e, f) == e.source = f.source /\ e.target = f.target

\* Variant for mutation: only nested loops are refused.
LoopsAreNotNested(nodes, edges) ==
  \A e, f \in Feedback(edges) :
    \/ SameLoop(e, f)
    \/ ~(Body(nodes, edges, e) \subseteq Body(nodes, edges, f))

\* Neither nested nor overlapping, unless it is the same loop twice.
LoopsAreApart(nodes, edges) ==
  \A e, f \in Feedback(edges) :
    SameLoop(e, f) \/ Body(nodes, edges, e) \cap Body(nodes, edges, f) = {}

\* A router's edges have a condition or are the default, of which there is one at most;
\* what leaves another node has neither, unless it leads back.
RoutersAreClear(nodes, edges) ==
  \A n \in nodes :
    IF n.type = "router"
    THEN /\ Out(edges, n.id) # {}
         /\ Cardinality({e \in Out(edges, n.id) : e.isDefault}) <= 1
         /\ \A e \in Out(edges, n.id) : e.conditional # e.isDefault
    ELSE \A e \in Out(Forward(edges), n.id) : ~e.conditional /\ ~e.isDefault

ValidGraph(nodes, edges) ==
  /\ EndsExist(nodes, edges)
  /\ IsDag(nodes, edges)
  /\ \A e \in Feedback(edges) : IsLoop(nodes, edges, e)
  /\ LoopsAreApart(nodes, edges)
  /\ RoutersAreClear(nodes, edges)

-----------------------------------------------------------------------------
(* compileLinearTemplateToGraph(): a template is a sequence of roles.      *)

\* validateTemplate(): system and user steps, and only those, are done by Forge.
ByForge(role) == role \in {"system", "user"}

TypeOf(role) ==
  IF role = "user" THEN "user_gate" ELSE IF ByForge(role) THEN "verification" ELSE "agent"

Link(source, target, isFeedback) ==
  [id |-> <<source, target, isFeedback>>, source |-> source, target |-> target,
   isFeedback |-> isFeedback, isDefault |-> FALSE, conditional |-> FALSE]

\* The step with this role; if it occurs more than once, the last one.
LastStep(steps, role) ==
  LET at == {i \in DOMAIN steps : steps[i] = role}
  IN  IF at = {} THEN 0 ELSE CHOOSE i \in at : \A j \in at : j <= i

CompiledNodes(steps) == {[id |-> i, type |-> TypeOf(steps[i])] : i \in DOMAIN steps}

CompiledEdges(steps) ==
  LET implementer == LastStep(steps, "implementer")
      reviewer    == LastStep(steps, "reviewer")
  IN  {Link(i - 1, i, FALSE) : i \in 2..Len(steps)}
      \cup IF implementer # 0 /\ reviewer # 0
           THEN {Link(reviewer, implementer, TRUE)} ELSE {}

-----------------------------------------------------------------------------
(* What all of it is for, said without any search.                         *)

\* A path over forward edges, at least one of them.
Leads(nodes, edges, a, b) ==
  \E k \in 2..(Cardinality(Ids(nodes)) + 1) :
    \E path \in [1..k -> Ids(nodes)] :
      /\ path[1] = a /\ path[k] = b
      /\ \A i \in 1..(k - 1) :
           \E e \in Forward(edges) : e.source = path[i] /\ e.target = path[i + 1]

Between(nodes, edges, t, s) ==
  {n \in Ids(nodes) : /\ n = t \/ Leads(nodes, edges, t, n)
                      /\ n = s \/ Leads(nodes, edges, n, s)}

\* A graph that can be run: no node waits for itself, what leads back leads to where
\* it came from, and what one loop repeats no other one does.
Sound(nodes, edges) ==
  /\ \A n \in Ids(nodes) : ~Leads(nodes, edges, n, n)
  /\ \A e \in Feedback(edges) : Leads(nodes, edges, e.target, e.source)
  /\ \A e, f \in Feedback(edges) :
       <<e.source, e.target>> # <<f.source, f.target>> =>
         \A n \in Ids(nodes) : ~(/\ n \in Between(nodes, edges, e.target, e.source)
                                 /\ n \in Between(nodes, edges, f.target, f.source))
=============================================================================
