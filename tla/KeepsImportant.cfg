SPECIFICATION Spec
CONSTANTS
  Ids = {m1, m2}
  Runs = {r1, r2}
  Levels = {0, 1}
  BatchSize = 2
  Cap = 1
PROPERTY KeepsImportant
CHECK_DEADLOCK FALSE
