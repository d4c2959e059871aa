SPECIFICATION FairSpec
CONSTANTS
  Ids = {m1, m2}
  Runs = {r1, r2}
  Levels = {0}
  BatchSize = 2
  Cap = 1
INVARIANTS TypeOK LossExplained
PROPERTY LockReclaimed
CHECK_DEADLOCK FALSE
