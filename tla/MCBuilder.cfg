\* One function with a loop, two forks, the dialog opened again: safety.
SPECIFICATION Spec
CONSTANTS
  Functions = {f1}
  Forks = {k1, k2}
  Addresses <- LoopAddresses
  Conditional <- LoopConditional
  Entry <- AtFirst
  Target <- LoopTarget
  Following <- LoopFollowing
  RETURN = RETURN
  NumForks = 1
  Retakes = 2
  MaxGraphSize = 2
  MaxConsecutiveNoopInstructions = 2
  MaxConditions = 4
  MaxInitialize = 1
SYMMETRY ForkSymmetry
INVARIANTS
  TypeOK
  ForkBudget
  LogShape
  ConditionsCounted
  PathsDivided
PROPERTY RefinesContract
\* When all builds ended nothing is left to do.
CHECK_DEADLOCK FALSE
