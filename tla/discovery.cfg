SPECIFICATION FairSpec
CONSTANTS
  web = web
  batch = batch
  a1 = a1
  a2 = a2
  b1 = b1
  w = w
  shared = shared
  own = own
  i1 = i1
  i2 = i2
  m1 = m1
  m2 = m2
  Nowhere = Nowhere
  NoPort = NoPort
  Unknown = Unknown
  Instances = {i1, i2}
  Machines = {m1, m2}
  HasEni = {b1}
  Services <- MCServices
  Tasks <- MCTasks
  TaskDefs <- MCDefs
  ServiceOf <- MCServiceOf
  DefOf <- MCDefOf
  NetworkOf <- MCNetworkOf
  ContainersOf <- MCContainersOf
  MachineOf <- MCMachineOf
  HostPorts <- MCHostPorts
  LaunchOf <- MCLaunch
  InstanceOf <- MCInstanceOf
  ProxyMode = TRUE
  Page = 1
  MaxChanges = 2
  MaxFailures = 1
INVARIANTS TypeOK FoundWhatStayed NothingInvented DefinitionsFetchedOnce
PROPERTIES PassEnds
CHECK_DEADLOCK FALSE
