SPECIFICATION Spec
CONSTANTS
  Length = 2
  Chat = {c1, c2}
  Embed = {e1}
  Threshold = 2
  BadTrials = TRUE
  MaxFlips = 2
  MaxAborts = 0
INVARIANT TrialHasACall
