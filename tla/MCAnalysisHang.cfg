\* Two functions: the analysis need not end.
SPECIFICATION FairAnalysisSpec
CONSTANTS
  f1 = f1
  f2 = f2
  s1 = s1
  Workers = {w1, w2}
  aSelection <- TwoFunctions
  Forks = {}
  aSignatureList <- NoSignature
  BlockPermutation = BlockPermutation
  Build = Build
  NoGraph = NoGraph
  Tasks <- MCTasks
  ResultTypes = {"ANALYSIS_ERROR", "CODE_GRAPH", "EVALUATION_RESULT"}
  SYNCHRONIZE = SYNCHRONIZE
  EXIT = EXIT
  NoTask = NoTask
  MaxSynchronize = 0
PROPERTY AnalysisCompletes
\* A finished analysis leaves its pool idle.
CHECK_DEADLOCK FALSE
