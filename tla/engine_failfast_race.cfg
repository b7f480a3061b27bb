SPECIFICATION Spec
CHECK_DEADLOCK FALSE
CONSTANTS
  A = A
  B = B
  C = C
  D = D
  Task <- Set2
  DependsOn <- Parallel2
  ApprovalTask <- NoTask
  MaxAttempts <- Twice2
  Process = {p1}
  MaxClaims = 2
  MaxPauses = 1
INVARIANT FailFastCancelsUnstarted
