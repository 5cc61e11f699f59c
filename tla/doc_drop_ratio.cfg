SPECIFICATION Spec
CONSTANTS
  t1 = t1
  t2 = t2
  t3 = t3
  c1 = c1
  c2 = c2
  h1 = h1
  h2 = h2
  Targets <- OneClusterTargets
  ClusterOf <- OneClusterOf
  AddrOf <- OneClusterAddrOf
  Clusters <- OneCluster
  ClusterSeq <- OneClusterSeq
  NamedClusters = {c1}
  Failing <- AnyCall
  Handlers = {h1}
  Clustered = FALSE
  ProxyMode = FALSE
  DropNum = 1
  DropDen = 2
  MinInterval = 1
  MaxClock = 1
  MaxChanges = 2
  MaxRequests = 1
  MayShutdown = FALSE
PROPERTIES ChurnBounded
