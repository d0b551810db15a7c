SPECIFICATION WorkSpec
CONSTANTS
  Instances <- Leaves
  Orders <- OrdersUnderCheck
  Paths = {"src", "etc"}
  Platforms = {"windows", "posix"}
  Jobs <- Turns
  ChatScope = {"src", "docs", "lock"}
  NeverWritable = {"lock"}
  OutsidePaths = {"outside"}
  MaxRounds = 3
  Questions <- AllQuestions
  Capabilities <- FullAndReader
  RoleStrategy <- TwoStrategies
  Works = {"sessions", "turns", "policies", "tasks", "artifacts", "files", "wires", "pages"}
INVARIANTS
  NothingIsLeftBehind
  CommandIsOver
  WhatIsDoneIsProven
  TurnsStayInBounds
  PolicyOnlyTightens
  WhatIsMadeArrives
  PagesTellTheTruth
PROPERTIES
  ImplementsContract
  CallsReturn
CHECK_DEADLOCK FALSE
