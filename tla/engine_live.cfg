SPECIFICATION FairSpec
CONSTANTS
  p1 = p1  p2 = p2  p3 = p3  x1 = x1  x2 = x2
  Repo = {x1}
  PR = {p1, p2}
  RepoOf <- SameRepo
  MaxRuns = 2
  Http = {h1}
  Main = Main
  NoActor = NoActor
  Limits = {1, 2}
  DefaultLimit = 2
  Faults = {}
  MaxCrashes = 1
INVARIANTS
  WorkerHasRow RunningHasWorker HomesMatchReviews NoLostWakeup
PROPERTY EveryRunServed
