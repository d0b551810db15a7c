SPECIFICATION ServicesSpec
CONSTANTS
  Calls = {"c1", "c2", "c3"}
  MayFail = {"c2"}
  IdleTimed = {"c1"}
  HardTimed = {"c3"}
  OwnerSeemsAlive = {TRUE, FALSE}
  Instances <- Processes
  Gates = {"g"}
  MaxDecisions = 3
  MaxReloads = 0
  FilePaths = {"a", "a/b", "c"}
  Above <- DirectoryAndFile
  Endings = {"text"}
  Graphs <- GraphsOfUsers
  BuiltIn <- StandardTemplates
  Project = "p"
  Account = "a"
  Texts = {"x", "y"}
  MaxEvents <- EventBounds
  Topics = {"rules", "accounts", "work", "answers", "decisions"}
  Services = {"processes", "decisions", "merges", "dags", "reads"}
INVARIANTS
  ProcessesAreAccounted
  OrphansAreFound
  MergeKeepsBothBranches
  OnlySoundGraphsRun
  LogIsTheTruth
PROPERTIES
  LockedIsBinding
  CallersAreServed
CHECK_DEADLOCK FALSE
