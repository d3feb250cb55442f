SPECIFICATION FairSpec
CONSTANTS
  N = 1
  Threshold = 1
  Req = {r1}
  Task = {}
  Kinds = {"activate", "update"}
  Faults = {}
  Modes = {"manual"}
  MaxRequests = 2
  MaxFaults = 0
PROPERTY RestGoesThroughAwg1
CHECK_DEADLOCK FALSE
