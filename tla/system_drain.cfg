SPECIFICATION FairSpec
CHECK_DEADLOCK FALSE
CONSTANTS
  A = A
  B = B
  w1 = w1
  w2 = w2
  api = api
  rec = rec
  Api = api
  Reconciler = rec
  Task <- TasksAB
  DependsOn <- Parallel
  ApprovalTask <- OnlyB
  MaxAttempts <- AttemptsAB11
  MaxClaims = 2
  MaxPauses = 1
  Worker <- OneWorker
  Process <- Processes1
  Limit = 1
  MaxFaults = 0
PROPERTY EverythingDrains
