SPECIFICATION ProbeSpec
CONSTANTS
  t1 = t1
  t2 = t2
  t3 = t3
  c1 = c1
  c2 = c2
  h1 = h1
  h2 = h2
  Targets <- MCTargets
  ClusterOf <- MCClusterOf
  AddrOf <- MCSharedAddrOf
  Clusters <- MCClusters
  ClusterSeq <- MCClusterSeq
  NamedClusters = {c1}
  Failing <- SomeCalls
  Handlers = {}
  Clustered = FALSE
  ProxyMode = FALSE
  DropNum = 1
  DropDen = 2
  MinInterval = 1
  MaxClock = 2
  MaxChanges = 3
  MaxRequests = 0
  MayShutdown = FALSE
  Endpoints = {}
INVARIANTS TypeOK ChurnConserved
PROPERTIES ChurnBounded ConvergesUnlessGuarded HealthTracksAws
