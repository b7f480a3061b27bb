SPECIFICATION FairPipeSpec
\* Without a relay nothing more happens.
CHECK_DEADLOCK FALSE
CONSTANTS
  p1 = p1
  p2 = p2
  c1 = c1
  c2 = c2
  Proc <- Relays
  Consumer <- Members
  Event = {1, 2}
  BatchSize = 1
  Rounds = 2
  MaxExpiries = 0
  MaxFaults = 0
PROPERTY EventsGoOutOnceBack
