SPECIFICATION Spec
CONSTANTS
  Instances <- PauseInstances
  Rank <- NodeRank
INVARIANTS
  GatesNeedApproval
  NoOrphanedRun
  WorktreeHoldsInputs
PROPERTIES
  RecoveryTellsPausesFromCrashes
CHECK_DEADLOCK FALSE
