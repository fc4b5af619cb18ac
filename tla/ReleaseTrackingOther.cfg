\* Two releases of one chain and one notify run; no call fails.
SPECIFICATION Spec
CONSTANTS
  staging = staging
  prod = prod
  Envs <- Upper
  MaxTasks = 1
  MaxRuns = 1
  MaxFaults = 0
INVARIANT OwnLinkOrNone
CHECK_DEADLOCK FALSE
