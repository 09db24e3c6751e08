\* One function and a fork, any user: safety and progress.
SPECIFICATION FairDialogSpec
CONSTANTS
  f1 = f1
  Workers = {w1, w2}
  aSelection <- OneFunction
  Forks = {k1}
  aSignatureList <- NoSignature
  BlockPermutation = BlockPermutation
  Build = Build
  NoGraph = NoGraph
  Tasks <- MCTasks
  ResultTypes = {"ANALYSIS_ERROR", "CODE_GRAPH", "EVALUATION_RESULT"}
  SYNCHRONIZE = SYNCHRONIZE
  EXIT = EXIT
  NoTask = NoTask
  MaxSynchronize = 0
INVARIANTS
  CompleteMeansComplete
  WorkerNeverLastOwner
PROPERTIES
  PoolIsReleased
\* After the pool is gone nothing is left to do.
CHECK_DEADLOCK FALSE
