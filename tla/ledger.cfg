SPECIFICATION Spec
CONSTANTS
  Provider = {v1}
  Repo = {x1}
  MaxModels = 2
  Name = {n1, n2}
  Norm <- OneName
  Request = {h1, h2}
  h1 = h1  h2 = h2
  n1 = n1  n2 = n2
  Unused = Unused
  Gone = Gone
INVARIANTS
  TypeOK DanglingOnlyIfBlind NewStaysOff PickIsBuildable
PROPERTY SyncMirrorsList
SYMMETRY Alike
CHECK_DEADLOCK FALSE
