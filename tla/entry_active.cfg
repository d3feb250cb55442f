SPECIFICATION Spec
CONSTANTS
  N = 2
  Req = {r1}
  Grace = 1
  Retries = 1
  Target = "own"
  Kinds = {"activate"}
  Faults = {"link"}
  MaxRequests = 1
  MaxFaults = 1
INVARIANT PlanIsOfActive
