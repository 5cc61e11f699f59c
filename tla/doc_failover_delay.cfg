SPECIFICATION Spec
CONSTANTS
  Period = 10
  Jitter = 1
  LeastDelay = 1
  MaxDiscovery = 4
  MaxRequest = 12
  FailoverTime = 5
  Absent = Absent
  Arguments <- MCArguments
INVARIANTS DiscoversSoonAfterTakeover
