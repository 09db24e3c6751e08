\* Three workers, two tasks, two barriers, destruction: safety and progress.
SPECIFICATION FairPoolSpec
CONSTANTS
  Workers = {w1, w2, w3}
  Tasks = {t1, t2}
  ResultTypes = {result}
  SYNCHRONIZE = SYNCHRONIZE
  EXIT = EXIT
  NoTask = NoTask
  MaxSynchronize = 2
INVARIANTS
  PoolTypeOK
  ActiveCount
  OneExecutionPerTask
  NoScheduledTaskStranded
  IdleIsIdle
PROPERTIES
  BarrierExcludesExecution
  ScheduledTaskRuns
  WaitForResultReturns
  SynchronizeReturns
  DestructorReturns
\* The client may destroy the pool, and it may block in a Synchronize that is
\* called before any thread exists.
CHECK_DEADLOCK FALSE
