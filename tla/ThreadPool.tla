------------------------------ MODULE ThreadPool ------------------------------
(***************************************************************************)
(* The thread pool of src/src/ThreadPool.cpp: a monitor (stMutex) with a   *)
(* task list, a result list, three condition variables and N workers.      *)
(*                                                                         *)
(* One action is one critical section of stMutex.  A thread that waits on  *)
(* a condition variable leaves the monitor; being notified only lets it    *)
(* compete for the mutex again, so "waiting" and "notified" are different  *)
(* states, and in between anybody else may run.  A wait may also end       *)
(* without a notification, as C++ allows.                                  *)
(*                                                                         *)
(* The pool serves one client thread (caller), the coordinator of the      *)
(* program, and the tasks themselves, which may schedule further tasks     *)
(* while they execute.                                                     *)
(*                                                                         *)
(* A definition X_Y, here and in the modules built on this one, is X with  *)
(* a fault put in on purpose.  Nothing refers to it: replacing X by X_Y    *)
(* shows that a property notices the fault (README, "Mutants").            *)
(***************************************************************************)
EXTENDS Integers, Sequences, FiniteSets

CONSTANTS
  Workers,         \* the dwNumThreads threads the pool creates
  Tasks,           \* the ordinary tasks (TASK_SPECIAL_NORMAL)
  ResultTypes,     \* the dwType of a yielded result
  SYNCHRONIZE,     \* the task TASK_SPECIAL_SYNCHRONIZE
  EXIT,            \* the task TASK_SPECIAL_EXIT
  NoTask,          \* what stTask holds outside Execute
  MaxSynchronize   \* bound: how often the client calls Synchronize

ASSUME PoolAssumption ==
  /\ IsFiniteSet(Workers) /\ Workers # {}
  /\ SYNCHRONIZE # EXIT /\ NoTask \notin Tasks
  /\ Tasks \cap {SYNCHRONIZE, EXIT} = {}
  /\ MaxSynchronize \in Nat

VARIABLES
  aTasks,             \* the task list, oldest first
  aResults,           \* the result list, oldest first
  dwNumActive,        \* the pool's count of threads that are not idle
  dwNumSynchronized,  \* the pool's count of threads that reached the barrier
  worker,             \* where each worker thread is
  stTask,             \* the task each worker holds a reference to
  caller,             \* where the client thread is
  submission,         \* history: how each task entered the pool
  nSynchronize        \* history: how often Synchronize was called

poolVars == <<aTasks, aResults, dwNumActive, dwNumSynchronized, worker, stTask,
              caller, submission, nSynchronize>>

WorkerStates == {"unborn", "loop", "waiting", "notified", "execute", "returning",
                 "barrier", "barrierNotified", "exited"}
CallerStates == {"running", "waitResult", "checkResult", "waitBarrier",
                 "checkBarrier", "joining", "gone"}
Submissions == {"none", "silent", "notified"}
Results == [task : Tasks, dwType : ResultTypes]

dwNumThreads == Cardinality(Workers)

\* A worker counts as active from the moment it holds the mutex after a wait
\* until it waits on stCondition again; one that left by EXIT is never deducted.
ActiveStates == WorkerStates \ {"unborn", "waiting", "notified"}
Active == {w \in Workers : worker[w] \in ActiveStates}
IsWaiting(w) == worker[w] = "waiting"

\* The constructor.  (It leaves dwNumSynchronized uninitialized; nobody reads it before
\* Synchronize has set it.)
PoolInit ==
  /\ aTasks = <<>> /\ aResults = <<>>
  /\ dwNumActive = 0 /\ dwNumSynchronized = 0
  /\ worker = [w \in Workers |-> "unborn"]
  /\ stTask = [w \in Workers |-> NoTask]
  /\ caller = "running"
  /\ submission = [t \in Tasks |-> "none"]
  /\ nSynchronize = 0

-------------------------------------------------------------------------------
(* Condition variables and thread creation. *)

\* InitThreads creates all threads at once, at the first task; they start by
\* competing for the mutex.
ThreadsStarted == \E w \in Workers : worker[w] # "unborn"

Started == [w \in Workers |-> IF worker[w] = "unborn" THEN "loop" ELSE worker[w]]
\* Faulty variant: the first task does not set dwNumActive.
InitThreadsActive_Missing == dwNumActive

InitThreadsActive == IF ThreadsStarted THEN dwNumActive ELSE dwNumThreads

\* InitThreads followed by stCondition.notify_one
NotifyOne ==
  \/ \E w \in Workers : IsWaiting(w) /\ worker' = [worker EXCEPT ![w] = "notified"]
  \/ (\A w \in Workers : ~IsWaiting(w)) /\ worker' = Started

\* Faulty variant: only one of the waiting workers is notified.
NotifyAll_One == NotifyOne

\* stCondition.notify_all
NotifyAll ==
  worker' = [w \in Workers |-> IF IsWaiting(w) THEN "notified" ELSE worker[w]]

\* stSynchronize.notify_all
NotifyBarrier ==
  [w \in Workers |-> IF worker[w] = "barrier" THEN "barrierNotified" ELSE worker[w]]

\* stYield.notify_all: the client leaves WaitForResult's wait
NotifyYield == IF caller = "waitResult" THEN "checkResult" ELSE caller

-------------------------------------------------------------------------------
(* Operations of the client and of executing tasks. *)

\* Faulty variant: Schedule does not notify.
Schedule_NoNotify(t) ==
  /\ submission[t] = "none"
  /\ aTasks' = Append(aTasks, t)
  /\ submission' = [submission EXCEPT ![t] = "notified"]
  /\ dwNumActive' = InitThreadsActive
  /\ worker' = Started
  /\ UNCHANGED <<aResults, dwNumSynchronized, stTask, caller, nSynchronize>>

\* Schedule
Schedule(t) ==
  /\ submission[t] = "none"
  /\ aTasks' = Append(aTasks, t)
  /\ submission' = [submission EXCEPT ![t] = "notified"]
  /\ dwNumActive' = InitThreadsActive
  /\ NotifyOne
  /\ UNCHANGED <<aResults, dwNumSynchronized, stTask, caller, nSynchronize>>

\* ScheduleIfResourceAvailable: the task is taken while the list is shorter than
\* the number of threads.  No thread is notified.
ResourceAvailable == Len(aTasks) < dwNumThreads

ScheduleIfResourceAvailable(t) ==
  /\ submission[t] = "none"
  /\ IF ResourceAvailable
     THEN /\ aTasks' = Append(aTasks, t)
          /\ submission' = [submission EXCEPT ![t] = "silent"]
     ELSE UNCHANGED <<aTasks, submission>>
  /\ dwNumActive' = InitThreadsActive
  /\ worker' = Started
  /\ UNCHANGED <<aResults, dwNumSynchronized, stTask, caller, nSynchronize>>

\* WaitForResult: the client evaluates its loop condition on entry and after each
\* wait, and leaves with the oldest result, with nullptr, or by waiting on stYield.
InWaitForResult == caller \in {"running", "checkResult"}
\* Faulty variant: an empty list is enough.
PoolIdle_IgnoresWorkers == aTasks = <<>>

PoolIdle == dwNumActive = 0 /\ aTasks = <<>>

TakeResult ==
  /\ InWaitForResult
  /\ aResults # <<>>
  /\ aResults' = Tail(aResults)
  /\ caller' = "running"
  /\ UNCHANGED <<aTasks, dwNumActive, dwNumSynchronized, worker, stTask, submission,
                 nSynchronize>>

NoMoreResults ==
  /\ InWaitForResult
  /\ aResults = <<>> /\ PoolIdle
  /\ caller' = "running"
  /\ UNCHANGED <<aTasks, aResults, dwNumActive, dwNumSynchronized, worker, stTask,
                 submission, nSynchronize>>

BlockForResult ==
  /\ InWaitForResult
  /\ aResults = <<>> /\ ~PoolIdle
  /\ caller' = "waitResult"
  /\ UNCHANGED <<aTasks, aResults, dwNumActive, dwNumSynchronized, worker, stTask,
                 submission, nSynchronize>>

\* Synchronize: the counter is reset and the client waits until it equals the
\* number of threads.  InitThreads is not called.
Synchronize ==
  /\ caller = "running"
  /\ nSynchronize < MaxSynchronize
  /\ nSynchronize' = nSynchronize + 1
  /\ dwNumSynchronized' = 0
  /\ aTasks' = Append(aTasks, SYNCHRONIZE)
  /\ NotifyAll
  /\ caller' = "waitBarrier"
  /\ UNCHANGED <<aResults, dwNumActive, stTask, submission>>

CheckBarrier ==
  /\ caller = "checkBarrier"
  /\ caller' = IF dwNumSynchronized = dwNumThreads THEN "running" ELSE "waitBarrier"
  /\ UNCHANGED <<aTasks, aResults, dwNumActive, dwNumSynchronized, worker, stTask,
                 submission, nSynchronize>>

\* ~ThreadPoolImpl.  The pool is reference counted and every task and every
\* result holds a reference to it, so the destructor runs when none is left.
Referenced ==
  \/ aResults # <<>>
  \/ \E i \in DOMAIN aTasks : aTasks[i] \in Tasks
  \/ \E w \in Workers : stTask[w] # NoTask

Destroy ==
  /\ caller = "running"
  /\ ~Referenced
  /\ aTasks' = Append(aTasks, EXIT)
  /\ NotifyAll
  /\ caller' = "joining"
  /\ UNCHANGED <<aResults, dwNumActive, dwNumSynchronized, stTask, submission,
                 nSynchronize>>

Join ==
  /\ caller = "joining"
  /\ \A w \in Workers : worker[w] \in {"unborn", "exited"}
  /\ caller' = "gone"
  /\ UNCHANGED <<aTasks, aResults, dwNumActive, dwNumSynchronized, worker, stTask,
                 submission, nSynchronize>>

-------------------------------------------------------------------------------
(* The worker threads. *)

\* A worker enters the critical section of its loop from the top of the loop or
\* when stCondition.wait returned; in the second case it counts itself as active
\* again (dwNumActive++ follows the wait).
AtLoop(w) == worker[w] \in {"loop", "notified"}

\* Faulty variant: a worker does not count itself again after its wait.
ActiveOnEntry_Forgets(w) == dwNumActive

ActiveOnEntry(w) == IF worker[w] = "notified" THEN dwNumActive + 1 ELSE dwNumActive

\* Faulty variant: the last active worker does not tell the client.
Sleep_Keeps(w) ==
  /\ AtLoop(w) /\ aTasks = <<>>
  /\ dwNumActive' = ActiveOnEntry(w) - 1
  /\ UNCHANGED caller
  /\ worker' = [worker EXCEPT ![w] = "waiting"]
  /\ UNCHANGED <<aTasks, aResults, dwNumSynchronized, stTask, submission, nSynchronize>>

\* Nothing to do: the worker deducts itself, tells the client when it was the
\* last active one, and waits.
Sleep(w) ==
  /\ AtLoop(w) /\ aTasks = <<>>
  /\ dwNumActive' = ActiveOnEntry(w) - 1
  /\ caller' = IF dwNumActive' = 0 THEN NotifyYield ELSE caller
  /\ worker' = [worker EXCEPT ![w] = "waiting"]
  /\ UNCHANGED <<aTasks, aResults, dwNumSynchronized, stTask, submission, nSynchronize>>

\* Faulty variant: the task stays in the list.
TakeTask_LeavesIt(w) ==
  /\ AtLoop(w) /\ aTasks # <<>> /\ Head(aTasks) \in Tasks
  /\ dwNumActive' = ActiveOnEntry(w)
  /\ stTask' = [stTask EXCEPT ![w] = Head(aTasks)]
  /\ worker' = [worker EXCEPT ![w] = "execute"]
  /\ UNCHANGED <<aTasks, aResults, dwNumSynchronized, caller, submission, nSynchronize>>

TakeTask(w) ==
  /\ AtLoop(w) /\ aTasks # <<>> /\ Head(aTasks) \in Tasks
  /\ dwNumActive' = ActiveOnEntry(w)
  /\ aTasks' = Tail(aTasks)
  /\ stTask' = [stTask EXCEPT ![w] = Head(aTasks)]
  /\ worker' = [worker EXCEPT ![w] = "execute"]
  /\ UNCHANGED <<aResults, dwNumSynchronized, caller, submission, nSynchronize>>

\* Faulty variant: the barrier opens one worker too early.
BarrierComplete_OneShort(n) == n = dwNumThreads - 1

\* The barrier.  The worker that completes the count releases the others and the
\* client and removes the task; the others wait on stSynchronize.
BarrierComplete(n) == n = dwNumThreads

ReachBarrier(w) ==
  /\ AtLoop(w) /\ aTasks # <<>> /\ Head(aTasks) = SYNCHRONIZE
  /\ dwNumActive' = ActiveOnEntry(w)
  /\ dwNumSynchronized' = dwNumSynchronized + 1
  /\ IF BarrierComplete(dwNumSynchronized')
     THEN /\ aTasks' = Tail(aTasks)
          /\ worker' = [NotifyBarrier EXCEPT ![w] = "loop"]
          /\ caller' = IF caller = "waitBarrier" THEN "checkBarrier" ELSE caller
     ELSE /\ worker' = [worker EXCEPT ![w] = "barrier"]
          /\ UNCHANGED <<aTasks, caller>>
  /\ UNCHANGED <<aResults, stTask, submission, nSynchronize>>

LeaveBarrier(w) ==
  /\ worker[w] = "barrierNotified"
  /\ worker' = [worker EXCEPT ![w] =
                  IF BarrierComplete(dwNumSynchronized) THEN "loop" ELSE "barrier"]
  /\ UNCHANGED <<aTasks, aResults, dwNumActive, dwNumSynchronized, stTask, caller,
                 submission, nSynchronize>>

\* Faulty variant: the first worker removes the exit task.
TakeExit_Removes(w) ==
  /\ AtLoop(w) /\ aTasks # <<>> /\ Head(aTasks) = EXIT
  /\ dwNumActive' = ActiveOnEntry(w)
  /\ worker' = [worker EXCEPT ![w] = "exited"]
  /\ aTasks' = Tail(aTasks)
  /\ UNCHANGED <<aResults, dwNumSynchronized, stTask, caller, submission,
                 nSynchronize>>

\* The exit task stays in the list for the other workers.
TakeExit(w) ==
  /\ AtLoop(w) /\ aTasks # <<>> /\ Head(aTasks) = EXIT
  /\ dwNumActive' = ActiveOnEntry(w)
  /\ worker' = [worker EXCEPT ![w] = "exited"]
  /\ UNCHANGED <<aTasks, aResults, dwNumSynchronized, stTask, caller, submission,
                 nSynchronize>>

\* YieldResult, called once by the Execute of every task.
YieldResult(w, dwType) ==
  /\ worker[w] = "execute"
  /\ aResults' = Append(aResults, [task |-> stTask[w], dwType |-> dwType])
  /\ caller' = NotifyYield
  /\ worker' = [worker EXCEPT ![w] = "returning"]
  /\ UNCHANGED <<aTasks, dwNumActive, dwNumSynchronized, stTask, submission, nSynchronize>>

\* Execute returns and the worker's reference to the task is dropped.
ReturnFromExecute(w) ==
  /\ worker[w] = "returning"
  /\ worker' = [worker EXCEPT ![w] = "loop"]
  /\ stTask' = [stTask EXCEPT ![w] = NoTask]
  /\ UNCHANGED <<aTasks, aResults, dwNumActive, dwNumSynchronized, caller, submission,
                 nSynchronize>>

\* A wait on a condition variable may return without a notification.
SpuriousWakeup ==
  /\ \/ /\ \E w \in Workers :
             \/ worker[w] = "waiting" /\ worker' = [worker EXCEPT ![w] = "notified"]
             \/ worker[w] = "barrier" /\ worker' = [worker EXCEPT ![w] = "barrierNotified"]
        /\ UNCHANGED caller
     \/ /\ \/ caller = "waitResult" /\ caller' = "checkResult"
           \/ caller = "waitBarrier" /\ caller' = "checkBarrier"
        /\ UNCHANGED worker
  /\ UNCHANGED <<aTasks, aResults, dwNumActive, dwNumSynchronized, stTask, submission,
                 nSynchronize>>

-------------------------------------------------------------------------------
(* Any client that uses the pool from one thread, and any tasks. *)

ClientStep ==
  \/ \E t \in Tasks :
       /\ caller = "running"
       /\ Schedule(t) \/ ScheduleIfResourceAvailable(t)
  \/ TakeResult \/ NoMoreResults \/ BlockForResult
  \/ Synchronize \/ CheckBarrier
  \/ Destroy \/ Join

TaskSchedules(w) == worker[w] = "execute" /\ \E t \in Tasks : Schedule(t)

\* The loop of Worker, everything but Execute
WorkerLoop(w) ==
  \/ Sleep(w) \/ TakeTask(w) \/ ReachBarrier(w) \/ LeaveBarrier(w) \/ TakeExit(w)
  \/ ReturnFromExecute(w)

WorkerStep(w) == WorkerLoop(w) \/ \E dwType \in ResultTypes : YieldResult(w, dwType)

PoolNext ==
  \/ ClientStep
  \/ \E w \in Workers : WorkerStep(w) \/ TaskSchedules(w)
  \/ SpuriousWakeup

PoolSpec == PoolInit /\ [][PoolNext]_poolVars

\* A client that waits inside the pool and was notified goes on; workers go on
\* (the mutex is granted eventually, and Build_Impl and the evaluators are bounded
\* by graph size and time limits).  Nobody is obliged to submit tasks, to call the
\* pool, or to wake up without being notified.
ResumeClient ==
  \/ caller = "checkResult" /\ (TakeResult \/ NoMoreResults \/ BlockForResult)
  \/ CheckBarrier \/ Join

FairPoolSpec ==
  /\ PoolSpec
  /\ WF_poolVars(ResumeClient)
  /\ \A w \in Workers : WF_poolVars(WorkerStep(w))

-------------------------------------------------------------------------------
(* Properties. *)

\* Every variable has its type; in particular neither counter ever leaves the
\* range of a number of threads.
PoolTypeOK ==
  /\ aTasks \in Seq(Tasks \cup {SYNCHRONIZE, EXIT})
  /\ aResults \in Seq(Results)
  /\ dwNumActive \in Int /\ 0 <= dwNumActive /\ dwNumActive <= dwNumThreads
  /\ dwNumSynchronized \in Nat
  /\ worker \in [Workers -> WorkerStates]
  /\ stTask \in [Workers -> Tasks \cup {NoTask}]
  /\ caller \in CallerStates
  /\ submission \in [Tasks -> Submissions]
  /\ nSynchronize \in 0 .. MaxSynchronize

\* dwNumActive, which is decremented before a wait and incremented after it, in
\* another critical section, counts the active workers at every moment in
\* between, and the threads exist all together or not at all.
ActiveCount ==
  /\ dwNumActive = Cardinality(Active)
  /\ ThreadsStarted => \A w \in Workers : worker[w] # "unborn"

\* A task exists once: it is in the list, or held by one worker, or has yielded
\* its one result; a worker holds a task exactly while it executes it.
HoldsTask(w) == worker[w] \in {"execute", "returning"}
InList(t) == \E i \in DOMAIN aTasks : aTasks[i] = t
OneExecutionPerTask ==
  /\ \A w \in Workers : stTask[w] \in Tasks <=> HoldsTask(w)
  /\ \A i, j \in DOMAIN aTasks : aTasks[i] = aTasks[j] /\ aTasks[i] \in Tasks => i = j
  /\ \A v, w \in Workers : HoldsTask(v) /\ stTask[v] = stTask[w] => v = w
  /\ \A w \in Workers : HoldsTask(w) => ~InList(stTask[w])
  /\ \A i, j \in DOMAIN aResults : aResults[i].task = aResults[j].task => i = j
  /\ \A i \in DOMAIN aResults :
       /\ ~InList(aResults[i].task)
       /\ \A w \in Workers : stTask[w] = aResults[i].task => worker[w] = "returning"

\* A task that entered through Schedule is never left in the list with every
\* worker asleep: its notification, or a worker that is awake anyway, takes care
\* of it.  (Tasks that entered through ScheduleIfResourceAvailable can be.)
NoScheduledTaskStranded ==
  (\A w \in Workers : worker[w] \in {"unborn", "waiting"}) =>
    \A i \in DOMAIN aTasks : aTasks[i] \in Tasks => submission[aTasks[i]] = "silent"

\* WaitForResult's condition for returning nullptr is sound: when it holds, no
\* task is in the list or in the hands of a worker, so no result can appear any
\* more unless the client schedules something.
IdleIsIdle == PoolIdle => \A w \in Workers : stTask[w] = NoTask /\ ~HoldsTask(w)

\* The barrier opens only when no worker is executing a task.
BarrierExcludesExecution ==
  [][BarrierComplete(dwNumSynchronized') /\ dwNumSynchronized' # dwNumSynchronized
       => \A w \in Workers : ~HoldsTask(w)]_poolVars

\* A task that entered through Schedule is executed eventually, unless the client
\* calls Synchronize a second time: that call may never return (see below), and a
\* task behind its barrier task would wait with it.
ScheduledTaskRuns ==
  \A t \in Tasks : submission[t] = "notified" ~>
    \/ ~InList(t) /\ \A w \in Workers : stTask[w] # t
    \/ nSynchronize > 1

\* The client's wait for a result ends, provided no task sits in the list that
\* entered through ScheduleIfResourceAvailable.
SilentTaskListed ==
  \E i \in DOMAIN aTasks : aTasks[i] \in Tasks /\ submission[aTasks[i]] = "silent"
WaitForResultReturns ==
  (caller = "waitResult" /\ ~SilentTaskListed) ~> (caller = "running")

\* Synchronize returns, provided the threads exist.  (It holds of the first call.)
EverySynchronizeReturns ==
  (caller = "waitBarrier" /\ ThreadsStarted) ~> (caller = "running")

\* The client's first Synchronize returns, provided the threads exist.
SynchronizeReturns ==
  (caller = "waitBarrier" /\ ThreadsStarted /\ nSynchronize = 1) ~> (caller = "running")

\* The destructor returns: every worker finds the exit task and ends.
DestructorReturns == (caller = "joining") ~> (caller = "gone")
===============================================================================
