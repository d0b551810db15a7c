SPECIFICATION Spec
CONSTANTS
  Workflows = {"w1", "w2"}
  Projects = {"p"}
  ProjectOf <- OneProject
  Outcomes <- OneTroubled
  Prints = {1}
  MaxIterations = 1
  MaxCrashes = 1
  None = None
PROPERTIES
  OnlyTheAnswerWakes
CHECK_DEADLOCK FALSE
