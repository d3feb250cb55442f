SPECIFICATION FairSpec
CONSTANTS
  N = 1
  Threshold = 1
  Req = {r1}
  Task = {t1, t2}
  Kinds = {"deploy", "redeploy", "delete"}
  Faults = {"task", "apply"}
  Modes = {"managed"}
  MaxRequests = 2
  MaxFaults = 2
PROPERTIES
  
  DeployEnds
  BrokenTunnelShows
CHECK_DEADLOCK FALSE
