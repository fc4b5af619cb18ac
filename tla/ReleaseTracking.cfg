\* Two environments, each with a second Task, two notify runs and a failed call anywhere.
SPECIFICATION Spec
CONSTANTS
  staging = staging
  prod = prod
  Envs <- Upper
  MaxTasks = 2
  MaxRuns = 2
  MaxFaults = 1
INVARIANTS
  TypeOK
  OnePrPerRelease
  NoPromotionSwallowed
PROPERTIES
  PrLinkNotLost
SYMMETRY Symmetric
CHECK_DEADLOCK FALSE
