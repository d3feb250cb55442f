SPECIFICATION Spec
CONSTANTS
  n1 = n1
  n2 = n2
  Node = {n1, n2}
  Slot = {r1, r2}
  Policies <- MCPolicies
  Kinds = {"settings", "policy", "sources", "refresh", "apply", "kill", "on", "off", "start", "stop", "device", "failover"}
  Faults = {"link", "start", "dnsmasq", "command", "restart", "shutdown"}
  MaxRequests = 2
  MaxFaults = 1
INVARIANTS
  TypeOK
  PlanFollowed
  KillSwitchHolds
  PassthroughOpen
  OneStack
PROPERTY SetsNeverDip
SYMMETRY SlotSymmetry
CHECK_DEADLOCK FALSE
