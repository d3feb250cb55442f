SPECIFICATION FairSpec
CONSTANTS
  N = 2
  Threshold = 1
  Req = {r1}
  Task = {t1}
  Kinds = {"deploy", "activate"}
  Faults = {"link"}
  Modes = {"managed", "manual"}
  MaxRequests = 2
  MaxFaults = 1
PROPERTY Reconnects
CHECK_DEADLOCK FALSE
