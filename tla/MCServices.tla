------------------------------- MODULE MCServices -------------------------------
(***************************************************************************)
(* Services that share no state: ProcessManager, DecisionLog, ChangeMerge, *)
(* DagExecutor and ReadModels.  They are checked side by side: a behaviour *)
(* is one of one service, while nobody asks for the others.                *)
(***************************************************************************)
EXTENDS ProcessManager, DecisionLog, ChangeMerge, DagExecutor, ReadModels

CONSTANT Services   \* those under check

VARIABLE service     \* the one that is used

-----------------------------------------------------------------------------
(* Processes: three calls contend for one slot, and killAll() may come at  *)
(* any time; or two runs are tracked through a death of Forge and its next *)
(* start.                                                                  *)

Calm(slots, calls) == [maxConcurrent |-> slots, tracked |-> FALSE, calls |-> calls,
                       lives |-> 1, cancels |-> 1, killAlls |-> 0]
Contention == [Calm(1, {"c1", "c2", "c3"}) EXCEPT !.killAlls = 1]
Restart    == [Calm(2, {"c1", "c2"}) EXCEPT !.tracked = TRUE, !.lives = 2, !.cancels = 0]
NoCall     == [Calm(1, {}) EXCEPT !.cancels = 0]
Processes  == {Contention, Restart, NoCall}

-----------------------------------------------------------------------------
(* Merges: a directory, a file in it and a file beside it.  A patch that   *)
(* ends in a blank line of context cannot be applied; see the README.      *)
(* Decisions: one gate, three rows.                                        *)

DirectoryAndFile == {<<"a", "a/b">>}

-----------------------------------------------------------------------------
(* Graphs: whatever can be drawn on three nodes with at most two edges     *)
(* that lead back, two edges of a router or another node, and what is      *)
(* compiled of up to three steps and of the one template Forge has.        *)

Plain(ids) == {[id |-> i, type |-> "agent"] : i \in ids}
Arrows     == (1..3) \X (1..3)

Drawn ==
  {[nodes |-> Plain(1..3),
    edges |-> {Link(p[1], p[2], FALSE) : p \in F}
              \cup {Link(p[1], p[2], TRUE) : p \in B}] :
     F \in SUBSET {p \in Arrows : p[1] # p[2]},
     B \in {S \in SUBSET Arrows : Cardinality(S) <= 2}}

Branching(to, isDefault, conditional) ==
  [Link(1, to, FALSE) EXCEPT !.isDefault = isDefault, !.conditional = conditional]

Routed ==
  {[nodes |-> {[id |-> 1, type |-> type]} \cup Plain({2, 3}),
    edges |-> {Branching(2, x[1], x[2]), Branching(3, x[3], x[4])}] :
     type \in {"router", "agent"}, x \in [1..4 -> BOOLEAN]}

StandardTemplates == {<<"planner", "user", "implementer", "system", "reviewer">>}

Linear ==
  {Compiled(s) : s \in UNION {[1..k -> {"user", "implementer", "reviewer"}] : k \in 1..3}}

GraphsOfUsers == Drawn \cup Routed \cup Linear

-----------------------------------------------------------------------------
(* The log and its tables: one project and one account, two texts.         *)

EventBounds == [rules |-> 6, accounts |-> 4, work |-> 9, answers |-> 7, decisions |-> 8]

-----------------------------------------------------------------------------
(* One service at a time.                                                  *)

NoMerge ==
  commit = <<>> /\ branch = [b \in 1..2 |-> NotCaptured] /\ joined = NotJoined

NoDag ==
  /\ graph = [nodes |-> {}, edges |-> {}] /\ dagPc = "completed"
  /\ completed = {} /\ failed = {} /\ executing = {} /\ ahead = {} /\ dagAborted = FALSE

NoRead == topic = "rules" /\ events = [o \in {Project, Account} |-> <<>>] /\ tables = Nothing

ServicesInit ==
  /\ service \in Services
  /\ Init /\ (service = "processes" <=> inst # NoCall)
  /\ DecisionsInit
  /\ IF service = "merges" THEN MergeInit ELSE NoMerge
  /\ IF service = "dags" THEN DagInit ELSE NoDag
  /\ IF service = "reads" THEN ReadInit ELSE NoRead

ServicesNext ==
  /\ service' = service
  /\ \/ service = "processes" /\ Next /\ UNCHANGED <<decisionVars, mergeVars, dagVars, readVars>>
     \/ /\ service = "decisions" /\ DecisionsNext
        /\ UNCHANGED <<vars, mergeVars, dagVars, readVars>>
     \/ service = "merges" /\ MergeNext /\ UNCHANGED <<vars, decisionVars, dagVars, readVars>>
     \/ service = "dags" /\ DagNext /\ UNCHANGED <<vars, decisionVars, mergeVars, readVars>>
     \/ service = "reads" /\ ReadNext /\ UNCHANGED <<vars, decisionVars, mergeVars, dagVars>>

ServicesSpec ==
  /\ ServicesInit /\ [][ServicesNext]_<<service, vars, decisionVars, mergeVars, dagVars, readVars>>
  /\ Fairness /\ DagFairness

-----------------------------------------------------------------------------
(* A property, besides those of the modules.                               *)

\* Whoever waits for a slot of ProcessManager gets an answer, and whoever runs a graph.
CallersAreServed == SpawnsAreServed /\ ((dagPc = "new") ~> DagOver)
=============================================================================
