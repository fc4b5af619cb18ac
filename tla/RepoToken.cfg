\* One call with a retry, a fault and changes at any point.
SPECIFICATION FairSpec
CONSTANTS
  shop = shop
  cart = cart
  c1 = c1
  Apps <- MCApps
  Callers <- MCCallers
  Calls <- MCCalls
  Retries = 1
  MaxFaults = 1
  MaxChanges = 2
INVARIANTS
  TypeOK
  MintedForOwner
  FailedHasCause
  UnusedTokenHasCause
  OkHasToken
PROPERTIES
  EveryCallEnds
CHECK_DEADLOCK FALSE
