SPECIFICATION FairSpec
CONSTANTS
  Instances <- TemplateInstances
  Rank <- NodeRank
INVARIANTS
  CompletedRunIsDone
  NoProgressIsNoticed
  InputsAreCurrent
  RerunReachesDownstream
PROPERTIES
  StartsWhenDue
  ImplementsHistory
  RunsSettle
CHECK_DEADLOCK FALSE
