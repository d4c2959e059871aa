SPECIFICATION FairSpec
CONSTANTS
  N = 3
  MaxBatches = 2
INVARIANTS
  TypeOK
  WritesReportedTruly
PROPERTIES
  FailedDestructiveStopsAll
  BatchCompletes
  ImplementsOrderedBatch
