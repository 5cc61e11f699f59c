SPECIFICATION HistorySpec
CONSTANTS
  Nodes = {1, 2}
  MaxWorld = 1
  MaxStarts = 1
  MaxSuspicions = 0
  MaxFailures = 0
  MixFaults = TRUE
PROPERTIES LeaderAloneDiscoversAtBoot
