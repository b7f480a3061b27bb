SPECIFICATION MCSpec
CHECK_DEADLOCK FALSE
SYMMETRY Symmetry
CONSTANTS
  req1 = req1
  req2 = req2
  ses1 = ses1
  ses2 = ses2
  tab1 = tab1
  tab2 = tab2
  Bucket <- Buckets
  Limit <- Limits
  Window <- Windows
  FailClosed <- Closed
  Request = {req1, req2}
  Routes <- Paths
  Second = 2
  MaxTime = 4
  MaxOutages = 1
  User = {root, ann}
  Admins = {root}
  Session = {ses1, ses2}
  AccessTtl = 1
  RefreshTtl = 2
  MaxTicks = 2
  MaxVersion = 2
  MaxPairs = 3
  Client = {tab1, tab2}
  UserOf <- Tabs
  Owner = "owner"
  Admin = {}
  Key = {k1}
  NoKey = nokey
  Input = {i1, i2}
  MaxUpdates = 2
  MaxRuns = 2
  Doc = {d1, d2}
  Content = {c1, c2}
  MaxFailures = 2
  TaskKey = {1, 2, 3, 4, 9}
  Definition <- Submitted
  MaxRepairs = 2
  MaxIterations = 3
  ToolCall = {"search", "calculate", "misread"}
  BadArgs = {"misread"}
INVARIANTS
  WithinAnyWindow
  RetryAfterExact
  RevocationIsFinal
  NoLostUpdate
  OneRunPerKey
  StatusIsTrue
  DeleteIsComplete
  ValidationRight
  FailureKindRight
  UsageComplete
  QuietOnceFired
