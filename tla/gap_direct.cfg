SPECIFICATION WorkSpec
CONSTANTS
  Instances <- Leaves
  Orders <- OrdersUnderCheck
  Paths = {"src", "etc"}
  Platforms = {"windows", "posix"}
  Jobs <- Turns
  ChatScope = {"src", "docs", "lock"}
  NeverWritable = {"lock"}
  OutsidePaths = {"outside"}
  MaxRounds = 3
  Questions <- AllQuestions
  Capabilities <- FullAndReader
  RoleStrategy <- TwoStrategies
  Works = {"default"}
PROPERTIES
  CallsReturn
CHECK_DEADLOCK FALSE
