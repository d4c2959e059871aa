SPECIFICATION FairBreakerSpec
CONSTANTS
  scheduler = scheduler
  worker = worker
  beat = beat
  agent = agent
  ops = ops
  ops2 = ops2
  Instances = {scheduler, worker}
  Calls = {beat, agent, ops}
  InstanceOf <- MCInstanceOf
  Does <- HaltOnly
  Halts <- MCHalts
  MaxTrips = 2
  MaxFaults = 0
INVARIANT TripHolds
