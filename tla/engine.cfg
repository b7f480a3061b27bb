SPECIFICATION Spec
CHECK_DEADLOCK FALSE
CONSTANTS
  A = A
  B = B
  C = C
  D = D
  Task <- Set4
  DependsOn <- Diamond
  ApprovalTask <- OnlyC
  MaxAttempts <- Mixed4
  Process = {p1}
  MaxClaims = 2
  MaxPauses = 1
INVARIANTS
  CountersExact
  DepsRespected
  RunOutcomeSound
  SweepFindsWork
  HistoryMatchesTask
  ApprovalMatchesTask
  OutboxMatchesState
PROPERTIES
  LegalTransitions
  ImplementsDagRun
