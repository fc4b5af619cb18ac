\* No call fails.
SPECIFICATION Spec
CONSTANTS
  c1 = c1
  c2 = c2
  c3 = c3
  c4 = c4
  Flows <- MCFlows
  Chains <- MCChains
  Pushed <- MCPushed
  MaxFaults = 0
INVARIANTS
  NeverAppeared
CHECK_DEADLOCK FALSE
