\* One function with a loop and a fork: progress.
SPECIFICATION FairSpec
CONSTANTS
  Functions = {f1}
  Forks = {k1}
  Addresses <- LoopAddresses
  Conditional <- LoopConditional
  Entry <- AtFirst
  Target <- LoopTarget
  Following <- LoopFollowing
  RETURN = RETURN
  NumForks = 1
  Retakes = 2
  MaxGraphSize = 2
  MaxConsecutiveNoopInstructions = 2
  MaxConditions = 4
  MaxInitialize = 0
PROPERTY BuildsEnd
\* When all builds ended nothing is left to do.
CHECK_DEADLOCK FALSE
