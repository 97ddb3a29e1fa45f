SPECIFICATION Spec
CONSTANTS
  Repos <- AllRepos
  Outputs <- AllOutputs
  People = {"label", "unlabel"}
  Faults = {"lost", "died"}
INVARIANTS
  TypeOK ApproveOnlyClean ApproveBeforeComment SuccessIsComplete
  LabelGoesLast EveryFindingShown NoDuplicates
CHECK_DEADLOCK FALSE
