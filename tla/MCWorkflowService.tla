--------------------------- MODULE MCWorkflowService ---------------------------
(* WorkflowService with one or two workflows of one or two projects.         *)
EXTENDS WorkflowService

OneProject == [w \in Workflows |-> "p"]
EveryOutcome == [w \in Workflows |-> OutcomeKinds]
Questions    == [w \in Workflows |-> {"question"}]
\* One workflow meets everything, its neighbour only asks.
OneTroubled  == [w \in Workflows |-> IF w = "w1" THEN OutcomeKinds ELSE {"question"}]
NoTrouble    == [w \in Workflows |-> {}]
=============================================================================
