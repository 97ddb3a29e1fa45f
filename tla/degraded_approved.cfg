SPECIFICATION Spec
CONSTANTS
  Repos <- AllRepos
  Outputs <- AllOutputs
  People = {}
  Faults = {}
INVARIANT ApproveOnlyIndicated
CHECK_DEADLOCK FALSE
