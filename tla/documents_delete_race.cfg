SPECIFICATION KnowledgeSpec
CHECK_DEADLOCK FALSE
CONSTANTS
  Doc = {d1}
  Content = {c1}
  MaxFailures = 0
INVARIANT DeletedNotSearchable
