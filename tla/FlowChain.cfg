\* Every exact configuration of the MC module, one chain per flow in a pair.
SPECIFICATION FairSpec
CONSTANTS
  shop = shop
  cart = cart
  Apps <- MCApps
  Names <- MCNames
  HyphenPrefix <- MCHyphenPrefix
  Configs <- MCConfigs
  c1 = c1
  c2 = c2
  Chains <- MCChains
  CurlRetries = 1
  MaxPath = 4
INVARIANTS
  TypeOK
  OneRunPerStep
  PredecessorsPassed
  SpanClosesAfterSteps
  NoSilentStop
PROPERTIES
  ImplementsLinearFlow
  ImplementsStepRuns
  EveryChainEnds
CONSTRAINT
  ChainBudget
CHECK_DEADLOCK FALSE
