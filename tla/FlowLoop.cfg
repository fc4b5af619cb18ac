\* A flow whose later step is the stage of its git-rooted first one.
SPECIFICATION Spec
CONSTANTS
  shop = shop
  cart = cart
  Apps <- MCApps
  Names <- MCNames
  HyphenPrefix <- MCHyphenPrefix
  Configs <- LoopConfigs
  c1 = c1
  c2 = c2
  Chains = {c1}
  CurlRetries = 1
  MaxPath = 6
INVARIANTS
  OneRunPerStep
CHECK_DEADLOCK FALSE
