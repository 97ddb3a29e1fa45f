SPECIFICATION Spec
CONSTANTS
  h1 = h1
  h2 = h2
  r1 = r1
  r2 = r2
  private = private
  shared = shared
  Host = {h1, h2}
  Repo = {r1, r2}
  t1 = t1
  t2 = t2
  Tab = {t1, t2}
  Segment = {"org", "app", "app.git", "gitea"}
  Bare <- BareName
  Site = {"git"}
  Bases <- TwoBases
  Urls <- TwoUrls
  HostPATs = {shared}
  RepoPATs = {private}
  NoPAT = NoPAT
  Intervals = {2}
  NoRow = NoRow
  NoForm = NoForm
  NoPath = NoPath
  StartHosts <- OneHost
  StartRepos <- OneRepo
  Limits <- Cases
  PollSettings <- TwoSettings
  StartSettings <- Brisk
INVARIANTS TypeOK CallsFit
PROPERTIES SpacedPolls TouchedOnly
SYMMETRY Twins
