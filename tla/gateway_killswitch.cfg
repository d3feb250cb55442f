SPECIFICATION Spec
CONSTANTS
  n1 = n1
  n2 = n2
  Node = {n1, n2}
  Slot = {r1}
  Policies <- MCNftPolicies
  Kinds = {"settings"}
  Faults = {"dnsmasq"}
  MaxRequests = 1
  MaxFaults = 1
INVARIANT KillSwitchWhenSafe
CHECK_DEADLOCK FALSE
