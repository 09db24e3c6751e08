\* Signatures with TRANSIENT statements, and nothing to search them in.
CONSTANTS
  W = 4
  MaxInt = 7
  MaxWord = 15
  MaxDepth = 3
  SP = 13
  Block = 2
  Tested = 1
  CodeGraph = "fork"
  MinDistance = 2
  MinDepth = 4
  Graphs <- MCGraphs
  Clocks <- MCClocks
  Cases <- MCTransientCases
SPECIFICATION Spec
INVARIANT TransientLeftOut
\* There is nothing to search the signatures in.
CHECK_DEADLOCK FALSE
