\* A departure between two browse generations.
SPECIFICATION DiscoverySpec
CONSTANTS
  Advertisers = {r1}  SupervisorCapacity = 2  MaxGeneration = 2
  MaxWorldChanges = 2  MaxRestarts = 1
INVARIANTS
  NoGhosts
CHECK_DEADLOCK FALSE
