SPECIFICATION AccountsSpec
CHECK_DEADLOCK FALSE
CONSTANTS
  User = {root, ann}
  Admins = {root, ann}
  Session = {s1, s2}
  AccessTtl = 1
  RefreshTtl = 2
  MaxTicks = 0
  MaxVersion = 1
  MaxPairs = 2
INVARIANT AdminRemains
