SPECIFICATION Spec
CONSTANTS
  s1 = s1  s2 = s2  s3 = s3  d1 = d1  d2 = d2
  Sha = {s1, s2, s3}
  Dir = {d1, d2}
  DirOf <- Collision
  NoSha = NoSha
  MaxPushes = 2
  MaxKills = 2
  MaxLapses = 1
SYMMETRY SameDirectory
INVARIANTS
  TypeOK RightTree FreshBase LeftoversAccounted FailsOnlyIfScarred
CHECK_DEADLOCK FALSE
