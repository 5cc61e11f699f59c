SPECIFICATION ProbeSpec
CONSTANTS
  t1 = t1
  t2 = t2
  t3 = t3
  c1 = c1
  c2 = c2
  h1 = h1
  h2 = h2
  Targets <- OneClusterTargets
  ClusterOf <- OneClusterOf
  AddrOf <- OneClusterAddrOf
  Clusters <- OneCluster
  ClusterSeq <- OneClusterSeq
  NamedClusters = {c1}
  Failing <- FirstCalls
  Handlers = {}
  Clustered = TRUE
  ProxyMode = TRUE
  DropNum = 1
  DropDen = 2
  MinInterval = 1
  MaxClock = 1
  MaxChanges = 2
  MaxRequests = 0
  MayShutdown = FALSE
  Endpoints = {"health", "ready"}
INVARIANTS HealthyMemberHasPublished
PROPERTIES FollowerConverges ProbeAnswered OutageKeepsAvailable
