SPECIFICATION FairSpec
CONSTANTS
  N = 2
  Req = {r1, r2}
  Grace = 1
  Retries = 2
  Target = "own"
  Kinds = {"activate", "start", "stop", "delete", "up", "down", "enable", "disable", "auto"}
  Faults = {"link", "start", "restart"}
  MaxRequests = 2
  MaxFaults = 1
INVARIANTS
  TypeOK
  OrderDistinct
PROPERTIES
  KeepsLine
  GraceRespected
  FailoverConnects
