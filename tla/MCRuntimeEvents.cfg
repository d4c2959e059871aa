SPECIFICATION FairSpec
CONSTANTS
  Runs = {r1}
  Watched = {r1}
  Beats = 2
  MaxReplays = 2
INVARIANTS TypeOK WholeStreamAnswers
PROPERTIES ClientEnds ImplementsRunLog
CHECK_DEADLOCK FALSE
