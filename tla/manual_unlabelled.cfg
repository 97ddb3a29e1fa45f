SPECIFICATION Spec
CONSTANTS
  Repos <- AllRepos
  Outputs <- AllOutputs
  People = {}
  Faults = {}
INVARIANT CompleteSucceeds
CHECK_DEADLOCK FALSE
