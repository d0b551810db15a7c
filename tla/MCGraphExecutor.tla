---------------------------- MODULE MCGraphExecutor ----------------------------
(* Templates for GraphExecutor.  Nodes are strings, ordered by NodeRank.     *)
EXTENDS GraphExecutor

Edge(s, t) == [id |-> s \o t, source |-> s, target |-> t,
               isFeedback |-> FALSE, isDefault |-> FALSE, conditional |-> FALSE]
Default(s, t) == [Edge(s, t) EXCEPT !.isDefault = TRUE]
When(s, t)    == [Edge(s, t) EXCEPT !.conditional = TRUE]
Back(s, t)    == [Edge(s, t) EXCEPT !.isFeedback = TRUE]
BackWhen(s, t) == [Back(s, t) EXCEPT !.conditional = TRUE]

NodeOrder == <<"a", "b", "c", "d", "e", "f", "g", "q", "r", "s", "t", "u", "v">>
NodeRank  == [n \in NodeIds |-> CHOOSE i \in 1..Len(NodeOrder) : NodeOrder[i] = n]

\* One call of run() on a template whose leaves complete, without any trouble.
Instance(nodes, edges) ==
  [nodes |-> nodes, edges |-> edges, routers |-> {}, gates |-> {}, writers |-> {},
   requires |-> [n \in nodes |-> {}], named |-> {},
   results |-> [n \in nodes |-> {"completed"}], faults |-> [n \in nodes |-> {}],
   skipSet |-> {}, prints |-> {1}, sameMillisecond |-> FALSE,
   maxIterations |-> 3, maxRepeatedStates |-> 3, maxNodeAttempts |-> 3,
   maxConcurrency |-> 4,
   runs |-> 1, reruns |-> 0, crashes |-> 0, aborts |-> 0, skips |-> 0]

\* A join of two writers, and a gate beside it, where everything may go wrong.
FanIn ==
  LET nodes == {"a", "b", "g", "d"} IN
  [Instance(nodes, {Edge("a", "d"), Edge("b", "d"), Edge("a", "g")}) EXCEPT
     !.gates = {"g"}, !.writers = {"a", "b", "d"},
     !.results = [n \in nodes |-> LeafResults], !.faults = [n \in nodes |-> FaultKinds],
     !.runs = 3, !.crashes = 2, !.aborts = 1]

\* A gate beside a task, and a join: reruns, and a node of options.skipNodeIds.
Diamond ==
  [Instance({"a", "b", "g", "d"},
            {Edge("a", "b"), Edge("a", "g"), Edge("b", "d"), Edge("g", "d")}) EXCEPT
     !.gates = {"g"}, !.skipSet = {"b"}, !.runs = 2, !.reruns = 2, !.skips = 1]

\* A router with two branches that meet again, a gate on one of them; the join
\* needs what the other makes.
Branch ==
  LET nodes == {"r", "u", "v", "d"} IN
  [Instance(nodes, {When("r", "u"), Default("r", "v"), Edge("u", "d"), Edge("v", "d")})
   EXCEPT
     !.routers = {"r"}, !.gates = {"v"}, !.writers = {"u", "d"},
     !.requires = [n \in nodes |-> IF n = "d" THEN {"u"} ELSE {}],
     !.runs = 3, !.crashes = 1, !.skips = 1]

\* A loop closed by a router, of nodes that may wait, and a gate behind it.
Loop ==
  LET nodes == {"t", "a", "r", "u"} IN
  [Instance(nodes, {Edge("t", "a"), Edge("a", "r"), BackWhen("r", "t"), Default("r", "u")})
   EXCEPT
     !.routers = {"r"}, !.gates = {"u"}, !.writers = {"t", "a"},
     !.results = [n \in nodes |-> {"completed", "waiting"}],
     !.runs = 3, !.crashes = 1, !.aborts = 1]

\* Two loops side by side; one iteration more than the policy lets repeat.
TwoLoops ==
  Instance({"a", "b", "c", "d"},
           {Edge("a", "b"), BackWhen("b", "a"), Edge("c", "d"), BackWhen("d", "c")})
Repeating ==
  [TwoLoops EXCEPT !.prints = {1, 2}, !.maxRepeatedStates = 1, !.maxIterations = 4]

PauseInstances    == {FanIn}
TemplateInstances == {Diamond, Branch, Loop, Repeating}
TwoLoopInstances  == {TwoLoops}
=============================================================================
