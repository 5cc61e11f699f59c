SPECIFICATION FairHistorySpec
CONSTANTS
  Nodes = {1, 2}
  MaxWorld = 2
  MaxStarts = 2
  MaxSuspicions = 1
  MaxFailures = 1
  MixFaults = FALSE
CHECK_DEADLOCK FALSE
INVARIANTS TypeOK ReplicasFollowOwner
PROPERTIES OneLeader AllConverge ImplementsReplicatedCache
