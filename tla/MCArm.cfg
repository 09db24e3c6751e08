SPECIFICATION PathSpec
CONSTANTS
  W = 4
  MaxInt = 7
  MaxWord = 15
  Size = 2
  PcOffset = 4
  MaxCallDepth = 3
  MaxConditions = 4
  MaxSteps = 5
  New <- NewNode
  CarryOf <- CarryNode
  NormalForm <- Normalize
  Programs <- MCPrograms
  Registers <- MCRegisters
  Segment <- MCSegment
  NoReturn <- MCNoReturn
  Data <- MCData
  ReadOnly <- MCReadOnly
  Env <- MCEnv
INVARIANTS
  RegistersSound
  PathSound
  PathPrecise
  FlagsShared
  ConditionDefined
  CallStackBounded
CHECK_DEADLOCK FALSE
