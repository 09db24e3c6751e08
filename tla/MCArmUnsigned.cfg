SPECIFICATION PathSpec
CONSTANTS
  W = 4
  MaxInt = 7
  MaxWord = 15
  Size = 2
  PcOffset = 4
  MaxCallDepth = 3
  MaxConditions = 4
  MaxSteps = 5
  New <- NewNode
  CarryOf <- CarryNode
  NormalForm <- Normalize
  Programs <- MCUnsignedPrograms
  Registers <- MCRegisters
  Segment <- MCSegment
  NoReturn <- MCNoReturn
  Data <- MCData
  ReadOnly <- MCReadOnly
  Env <- MCEnv
INVARIANT
  ConditionsAsDocumented
CHECK_DEADLOCK FALSE
