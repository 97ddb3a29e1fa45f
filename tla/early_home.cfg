SPECIFICATION Spec
CONSTANTS
  p1 = p1  p2 = p2  p3 = p3  x1 = x1  x2 = x2
  Repo = {x1, x2}
  PR = {p1, p2, p3}
  RepoOf <- TwoAndOne
  MaxRuns = 3
  Http = {h1}
  Main = Main
  NoActor = NoActor
  Limits = {2}
  DefaultLimit = 2
  Faults = {"early"}
  MaxCrashes = 0
INVARIANT LiveHomeKept
