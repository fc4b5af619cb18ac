\* What may have been pushed is in MCPushed; a failed call at any point.
SPECIFICATION FairSpec
CONSTANTS
  c1 = c1
  c2 = c2
  c3 = c3
  c4 = c4
  Flows <- MCFlows
  Chains <- MCChains
  Pushed <- MCPushed
  MaxFaults = 1
INVARIANTS
  TypeOK
  NewestKept
  AnnouncedOnce
  AlertHasCause
PROPERTIES
  StallAnnounced
CHECK_DEADLOCK FALSE
