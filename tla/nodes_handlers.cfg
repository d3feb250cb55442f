SPECIFICATION Spec
CONSTANTS
  N = 2
  Threshold = 2
  Req = {r1}
  Task = {}
  Kinds = {"activate", "reset", "geoip_on", "geoip_off", "update", "delete", "check", "failover"}
  Faults = {"link", "apply", "restart"}
  Modes = {"manual"}
  MaxRequests = 3
  MaxFaults = 1
INVARIANTS
  TypeOK
  AttemptsSpaced
  
PROPERTIES
  KeepsSelection
CHECK_DEADLOCK FALSE
