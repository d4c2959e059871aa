SPECIFICATION Spec
CONSTANTS
  Founders = {kristina, andrew}
  Assigned = {kristina, andrew}
  Clicks = {c1, c2, c3}
  MaxFaults = 2
INVARIANTS TypeOK VotesDecide
PROPERTY ImplementsFounderVerdict
CHECK_DEADLOCK FALSE
