SPECIFICATION FairSpec
CONSTANTS
  Planned = {p1}
  Team = {q1}
  Ticks = {m1, m2}
INVARIANTS TypeOK PromotedHasContract EscalatedOnce
PROPERTIES NothingRots ImplementsHandoff
CHECK_DEADLOCK FALSE
