SPECIFICATION FairSpec
CONSTANTS
  N = 2
  Threshold = 1
  Req = {r1}
  Task = {}
  Kinds = {"activate", "reset", "update", "geoip_on", "geoip_off", "check"}
  Faults = {"link", "apply", "restart"}
  Modes = {"manual"}
  MaxRequests = 2
  MaxFaults = 2
PROPERTIES
  Reconnects
  OutageEnds
  BrokenTunnelShows
CHECK_DEADLOCK FALSE
