SPECIFICATION FairSpec
CONSTANTS
  N = 3
  Threshold = 1
  Req = {r1}
  Task = {t1}
  Kinds = {"deploy", "activate"}
  Faults = {}
  Modes = {"managed", "manual"}
  MaxRequests = 2
  MaxFaults = 0
PROPERTY SingleActiveAgain
CHECK_DEADLOCK FALSE
