SPECIFICATION FairSpec
CHECK_DEADLOCK FALSE
CONSTANTS
  A = A
  B = B
  w1 = w1
  w2 = w2
  api = api
  rec = rec
  Api = api
  Reconciler = rec
  Task <- OneTask
  DependsOn <- Single
  ApprovalTask <- NoTask
  MaxAttempts <- AttemptsTwo
  MaxClaims = 3
  MaxPauses = 0
  Worker <- Workers
  Process <- Processes
  Limit = 1
  MaxFaults = 1
INVARIANTS
  WorkNeverLost
  OneWorkerPerTask
PROPERTIES
  ImplementsEngine
  ImplementsQueue
  RunSettles
  EverythingDrains
