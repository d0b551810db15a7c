SPECIFICATION Spec
CONSTANTS
  Workflows = {"w1", "w2"}
  Projects = {"p"}
  ProjectOf <- OneProject
  Outcomes <- NoTrouble
  Prints = {1}
  MaxIterations = 1
  MaxCrashes = 0
  None = None
INVARIANTS
  RunsKeepTheirWorktree
CHECK_DEADLOCK FALSE
