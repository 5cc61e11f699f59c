SPECIFICATION FairSpec
CONSTANTS
  t1 = t1
  t2 = t2
  t3 = t3
  c1 = c1
  c2 = c2
  h1 = h1
  h2 = h2
  Targets <- SmallTargets
  ClusterOf <- SmallClusterOf
  AddrOf <- SmallAddrOf
  Clusters <- MCClusters
  ClusterSeq <- MCClusterSeq
  NamedClusters = {c1, c2}
  Failing <- SomeCalls
  Handlers = {h1}
  Clustered = TRUE
  ProxyMode = TRUE
  DropNum = 1
  DropDen = 2
  MinInterval = 1
  MaxClock = 1
  MaxChanges = 1
  MaxRequests = 1
  MayShutdown = TRUE
INVARIANTS AnnouncedMeansPopulated PublishedPairConsistent
PROPERTIES ImplementsService OutageNeverEmpties ConvergesUnlessGuarded RefreshCompletes ShutdownCompletes
CHECK_DEADLOCK FALSE
