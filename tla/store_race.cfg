CONSTANTS
  n1 = n1
  n2 = n2
  c1 = c1
  c2 = c2
  Nodes = {n1, n2}
  Conns = {c1, c2}
  EndStatuses = {"completed", "failed"}
  RunUpdates = {"running", "failed"}
  MaxAttempts = 2
  MaxIteration = 2
SPECIFICATION Spec
SYMMETRY MCSymmetry
INVARIANT IterationChain
INVARIANT OneTransitionPerSource
PROPERTIES
  AdvanceIsAtomic
  OutcomesSettle
CHECK_DEADLOCK FALSE
