SPECIFICATION MCSpec
\* The queue may be empty for good, and without a relay no event moves.
CHECK_DEADLOCK FALSE
CONSTANTS
  Length = 2
  Chat = {c1, c2}
  Embed = {e1}
  Threshold = 2
  BadTrials = FALSE
  MaxFlips = 2
  MaxAborts = 2
  MaxStarts = 3
  MaxOutage = 2
  Task = {A, B, C, D}
  Limit = 2
  p1 = p1
  p2 = p2
  m1 = m1
  m2 = m2
  Proc <- Relays
  Consumer <- Members
  Event = {1, 2}
  BatchSize = 1
  Rounds = 2
  MaxExpiries = 1
  MaxFaults = 1
INVARIANTS
  TrialHasACall
  QueuePartition
  OneLeader
  NothingLost
  CountedOnce
PROPERTIES
  PrimaryComesBack
  RegistryConverges
  EveryEventCounted
