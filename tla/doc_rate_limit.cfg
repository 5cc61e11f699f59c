SPECIFICATION Spec
CONSTANTS
  t1 = t1
  t2 = t2
  t3 = t3
  c1 = c1
  c2 = c2
  h1 = h1
  h2 = h2
  Targets <- OneClusterTargets
  ClusterOf <- OneClusterOf
  AddrOf <- OneClusterAddrOf
  Clusters <- OneCluster
  ClusterSeq <- OneClusterSeq
  NamedClusters = {c1}
  Failing <- AnyCall
  Handlers = {h1, h2}
  Clustered = FALSE
  ProxyMode = FALSE
  DropNum = 0
  DropDen = 1
  MinInterval = 2
  MaxClock = 3
  MaxChanges = 0
  MaxRequests = 2
  MayShutdown = FALSE
PROPERTIES ManualRefreshesSpaced
