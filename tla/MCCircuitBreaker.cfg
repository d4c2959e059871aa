SPECIFICATION FairBreakerSpec
CONSTANTS
  scheduler = scheduler
  worker = worker
  beat = beat
  agent = agent
  ops = ops
  ops2 = ops2
  Instances = {scheduler, worker}
  Calls = {beat, agent, ops}
  InstanceOf <- MCInstanceOf
  Does <- MCDoes
  Halts <- MCHalts
  MaxTrips = 2
  MaxFaults = 1
INVARIANTS BreakerTypeOK HaltIsWhole
PROPERTIES OverdueHaltEnds HaltReachesAll FleetResumes
