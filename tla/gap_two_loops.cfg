SPECIFICATION Spec
CONSTANTS
  Instances <- TwoLoopInstances
  Rank <- NodeRank
INVARIANTS
  NoOrphanedRun
CHECK_DEADLOCK FALSE
