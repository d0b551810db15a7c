SPECIFICATION FairSpec
CONSTANTS
  Workflows = {"w1"}
  Projects = {"p"}
  ProjectOf <- OneProject
  Outcomes <- EveryOutcome
  Prints = {1, 2}
  MaxIterations = 2
  MaxCrashes = 2
  None = None
INVARIANTS
  RowsCanBeRead
  DoneIsVerified
  CorrectionsAreBounded
  WaitersHaveAQuestion
PROPERTIES
  TerminalIsFinal
  ExecutionsEnd
CHECK_DEADLOCK FALSE
