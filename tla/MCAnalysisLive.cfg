\* Two functions and a fork: progress, also of an analysis that hangs.
SPECIFICATION FairAnalysisSpec
CONSTANTS
  f1 = f1
  f2 = f2
  s1 = s1
  Workers = {w1, w2}
  aSelection <- TwoFunctions
  Forks = {k1}
  aSignatureList <- NoSignature
  BlockPermutation = BlockPermutation
  Build = Build
  NoGraph = NoGraph
  Tasks <- MCTasks
  ResultTypes = {"ANALYSIS_ERROR", "CODE_GRAPH", "EVALUATION_RESULT"}
  SYNCHRONIZE = SYNCHRONIZE
  EXIT = EXIT
  NoTask = NoTask
  MaxSynchronize = 0
PROPERTIES
  EveryGraphReported
  AnalysisEnds
\* A finished analysis leaves its pool idle.
CHECK_DEADLOCK FALSE
