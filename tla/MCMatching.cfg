CONSTANTS
  W = 4
  MaxInt = 7
  MaxWord = 15
  MaxDepth = 3
  SP = 13
  Block = 2
  Tested = 1
  CodeGraph = "fork"
  MinDistance = 2
  MinDepth = 4
  Graphs <- MCGraphs
  Clocks <- MCClocks
  Cases <- MCCases
SPECIFICATION Spec
INVARIANTS
  ParsedAsWritten
  CleanupExact
  ForkIsCopy
  VerdictIsRight
  PermutationIsRight
PROPERTY
  BranchesUndone
CHECK_DEADLOCK FALSE
