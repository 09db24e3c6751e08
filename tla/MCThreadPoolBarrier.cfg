\* Two workers, one task, two barriers: the second Synchronize may never return.
SPECIFICATION FairPoolSpec
CONSTANTS
  Workers = {w1, w2}
  Tasks = {t1}
  ResultTypes = {result}
  SYNCHRONIZE = SYNCHRONIZE
  EXIT = EXIT
  NoTask = NoTask
  MaxSynchronize = 2
PROPERTY EverySynchronizeReturns
\* The client may block in Synchronize, and it may destroy the pool.
CHECK_DEADLOCK FALSE
