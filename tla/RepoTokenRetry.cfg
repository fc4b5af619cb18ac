\* A retry after GitHub failed once.
SPECIFICATION Spec
CONSTANTS
  shop = shop
  cart = cart
  c1 = c1
  Apps <- MCApps
  Callers <- MCCallers
  Calls <- MCCalls
  Retries = 1
  MaxFaults = 1
  MaxChanges = 0
INVARIANTS
  PrintsTokenOnly
CHECK_DEADLOCK FALSE
