SPECIFICATION FairSpec
CONSTANTS
  N = 3
  Waits = {1}
  OnFailure <- MCOnFailure
  Retries = 1
  Workers = {w1, w2}
  Beats = {b1}
  Operators = {o1}
  MaxFaults = 1
  MaxOrders = 2
INVARIANTS TypeOK StepsInOrder StallExplained
PROPERTIES ImplementsOrderedSteps WaitEnds
CHECK_DEADLOCK FALSE
