SPECIFICATION FairSpec
CONSTANTS
  p1 = p1
  p2 = p2
  w1 = w1
  w2 = w2
  api = api
  Api = api
  Skews <- MCSkews
  None = None
  Proc <- Processes
  Cron <- Crons
  Workflow = {w1, w2}
  MaxTime = 2
  MaxEdits = 2
  BatchSize = 1
  MaxFaults = 1
INVARIANTS
  OneRunPerSlot
  NextRunIsASlot
PROPERTIES
  NoSlotSkipped
  DueSlotHandled
