SPECIFICATION Spec
CONSTANTS
  Runs = {r1, r2}
  Watched = {r1}
  Beats = 0
  MaxReplays = 2
INVARIANT OwnAnswer
CHECK_DEADLOCK FALSE
