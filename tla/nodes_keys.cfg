SPECIFICATION Spec
CONSTANTS
  N = 2
  Threshold = 1
  Req = {r1}
  Task = {t1}
  Kinds = {"deploy", "redeploy", "activate", "reset"}
  Faults = {"task", "apply"}
  Modes = {"managed"}
  MaxRequests = 3
  MaxFaults = 2
INVARIANT KeyAgrees
CHECK_DEADLOCK FALSE
