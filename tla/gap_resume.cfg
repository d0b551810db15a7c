SPECIFICATION FairSpec
CONSTANTS
  Workflows = {"w1"}
  Projects = {"p"}
  ProjectOf <- OneProject
  Outcomes <- Questions
  Prints = {1}
  MaxIterations = 1
  MaxCrashes = 0
  None = None
PROPERTIES
  ResumedRunsGoOn
CHECK_DEADLOCK FALSE
