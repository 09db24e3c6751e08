\* Two functions, one fork, one signature and the block permutation evaluator: safety.
SPECIFICATION AnalysisSpec
CONSTANTS
  f1 = f1
  f2 = f2
  s1 = s1
  Workers = {w1, w2}
  aSelection <- TwoFunctions
  Forks = {k1}
  aSignatureList <- OneSignature
  BlockPermutation = BlockPermutation
  Build = Build
  NoGraph = NoGraph
  Tasks <- MCTasks
  ResultTypes = {"ANALYSIS_ERROR", "CODE_GRAPH", "EVALUATION_RESULT"}
  SYNCHRONIZE = SYNCHRONIZE
  EXIT = EXIT
  NoTask = NoTask
  MaxSynchronize = 0
SYMMETRY WorkerSymmetry
INVARIANTS
  TrackerMatchesPool
  ReportsAreComplete
  FinishedMeansDone
  OnlyFunctionsStranded
PROPERTIES
  RefinesContract
  UsesPoolCorrectly
\* A finished analysis leaves its pool idle.
CHECK_DEADLOCK FALSE
