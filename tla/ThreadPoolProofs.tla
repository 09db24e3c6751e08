--------------------------- MODULE ThreadPoolProofs ---------------------------
(***************************************************************************)
(* Proofs about the thread pool, for any number of workers and any tasks.  *)
(***************************************************************************)
EXTENDS ThreadPool, FiniteSetTheorems, SequenceTheorems, TLAPS

\* PoolTypeOK without the bounds of dwNumActive, which follow from ActiveCount,
\* and: a worker refers to a task exactly while it executes it.
Typed ==
  /\ aTasks \in Seq(Tasks \cup {SYNCHRONIZE, EXIT})
  /\ aResults \in Seq(Results)
  /\ dwNumActive \in Int
  /\ dwNumSynchronized \in Nat
  /\ worker \in [Workers -> WorkerStates]
  /\ stTask \in [Workers -> Tasks \cup {NoTask}]
  /\ caller \in CallerStates
  /\ submission \in [Tasks -> Submissions]
  /\ nSynchronize \in 0 .. MaxSynchronize
  /\ \A w \in Workers : stTask[w] \in Tasks <=> HoldsTask(w)

-------------------------------------------------------------------------------
(* Types. *)

\* pop_front on a list that is not empty
LEMMA TailKeepsType ==
  ASSUME NEW S, NEW s \in Seq(S), s # <<>>
  PROVE  Tail(s) \in Seq(S)
  BY HeadTailProperties

\* Initially every variable has its type.
LEMMA TypedInit == PoolInit => Typed
  BY PoolAssumption DEF PoolInit, Typed, WorkerStates, CallerStates, Submissions, HoldsTask

\* Every step keeps the types.
LEMMA TypedStep == Typed /\ [PoolNext]_poolVars => Typed'
<1> SUFFICES ASSUME Typed, [PoolNext]_poolVars PROVE Typed'
  OBVIOUS
<1> USE PoolAssumption DEF Typed, WorkerStates, CallerStates, Submissions, HoldsTask
<1>0. dwNumThreads \in Nat
  BY FS_CardinalityType DEF dwNumThreads
<1>1. ASSUME NEW t \in Tasks, Schedule(t) PROVE Typed'
  <2>1. worker' \in [Workers -> WorkerStates]
        /\ \A w \in Workers : HoldsTask(w)' <=> HoldsTask(w)
    BY <1>1 DEF Schedule, NotifyOne, Started, IsWaiting
  <2>2. aTasks' \in Seq(Tasks \cup {SYNCHRONIZE, EXIT}) /\ dwNumActive' \in Int
    BY <1>0, <1>1 DEF Schedule, InitThreadsActive
  <2>3. submission' \in [Tasks -> Submissions]
    BY <1>1 DEF Schedule
  <2>4. QED
    BY <1>1, <2>1, <2>2, <2>3 DEF Schedule
<1>2. ASSUME NEW t \in Tasks, ScheduleIfResourceAvailable(t) PROVE Typed'
  <2>1. worker' \in [Workers -> WorkerStates]
        /\ \A w \in Workers : HoldsTask(w)' <=> HoldsTask(w)
    BY <1>2 DEF ScheduleIfResourceAvailable, Started
  <2>2. aTasks' \in Seq(Tasks \cup {SYNCHRONIZE, EXIT})
    <3>1. aTasks' = Append(aTasks, t) \/ aTasks' = aTasks
      BY <1>2 DEF ScheduleIfResourceAvailable
    <3>2. Append(aTasks, t) \in Seq(Tasks \cup {SYNCHRONIZE, EXIT})
      BY AppendProperties
    <3>3. QED
      BY <3>1, <3>2
  <2>3. dwNumActive' \in Int
    BY <1>0, <1>2 DEF ScheduleIfResourceAvailable, InitThreadsActive
  <2>4. submission' \in [Tasks -> Submissions]
    BY <1>2 DEF ScheduleIfResourceAvailable
  <2>5. QED
    BY <1>2, <2>1, <2>2, <2>3, <2>4 DEF ScheduleIfResourceAvailable
<1>3. CASE TakeResult
  BY <1>3 DEF TakeResult
<1>4. CASE NoMoreResults
  BY <1>4 DEF NoMoreResults
<1>5. CASE BlockForResult
  BY <1>5 DEF BlockForResult
<1>6. CASE Synchronize
  BY <1>6 DEF Synchronize, NotifyAll, IsWaiting
<1>7. CASE CheckBarrier
  BY <1>7 DEF CheckBarrier
<1>8. CASE Destroy
  BY <1>8 DEF Destroy, NotifyAll, IsWaiting
<1>9. CASE Join
  BY <1>9 DEF Join
<1>10. ASSUME NEW w \in Workers, Sleep(w) PROVE Typed'
  BY <1>10 DEF Sleep, ActiveOnEntry, NotifyYield, AtLoop
<1>11. ASSUME NEW w \in Workers, TakeTask(w) PROVE Typed'
  BY <1>11 DEF TakeTask, ActiveOnEntry, AtLoop
<1>12. ASSUME NEW w \in Workers, ReachBarrier(w) PROVE Typed'
  <2>1. worker' \in [Workers -> WorkerStates]
        /\ \A v \in Workers : HoldsTask(v)' <=> HoldsTask(v)
    BY <1>12 DEF ReachBarrier, NotifyBarrier, AtLoop
  <2>2. aTasks' \in Seq(Tasks \cup {SYNCHRONIZE, EXIT})
    <3>1. aTasks # <<>> /\ (aTasks' = Tail(aTasks) \/ aTasks' = aTasks)
      BY <1>12 DEF ReachBarrier
    <3>2. Tail(aTasks) \in Seq(Tasks \cup {SYNCHRONIZE, EXIT})
      BY <3>1, TailKeepsType
    <3>3. QED
      BY <3>1, <3>2
  <2>3. caller' \in CallerStates
    BY <1>12 DEF ReachBarrier
  <2>4. dwNumActive' \in Int /\ dwNumSynchronized' \in Nat
    BY <1>12 DEF ReachBarrier, ActiveOnEntry
  <2>5. QED
    BY <1>12, <2>1, <2>2, <2>3, <2>4 DEF ReachBarrier
<1>13. ASSUME NEW w \in Workers, LeaveBarrier(w) PROVE Typed'
  BY <1>13 DEF LeaveBarrier
<1>14. ASSUME NEW w \in Workers, TakeExit(w) PROVE Typed'
  BY <1>14 DEF TakeExit, ActiveOnEntry, AtLoop
<1>15. ASSUME NEW w \in Workers, NEW dwType \in ResultTypes, YieldResult(w, dwType)
       PROVE  Typed'
  <2>1. [task |-> stTask[w], dwType |-> dwType] \in Results
    BY <1>15 DEF YieldResult, Results
  <2>2. QED
    BY <1>15, <2>1 DEF YieldResult, NotifyYield
<1>16. ASSUME NEW w \in Workers, ReturnFromExecute(w) PROVE Typed'
  BY <1>16 DEF ReturnFromExecute
<1>17. CASE SpuriousWakeup
  BY <1>17 DEF SpuriousWakeup
<1>18. CASE UNCHANGED poolVars
  BY <1>18 DEF poolVars
<1>19. QED
  BY <1>1, <1>2, <1>3, <1>4, <1>5, <1>6, <1>7, <1>8, <1>9, <1>10, <1>11, <1>12,
     <1>13, <1>14, <1>15, <1>16, <1>17, <1>18
     DEF PoolNext, ClientStep, WorkerStep, WorkerLoop, TaskSchedules

-------------------------------------------------------------------------------
(* The count of active workers. *)

ActiveInv == Typed /\ ActiveCount

\* The active workers can be counted.
LEMMA ActiveIsFinite ==
  /\ IsFiniteSet(Active) /\ Active \subseteq Workers
  /\ Cardinality(Active) \in 0 .. dwNumThreads
<1>1. Active \subseteq Workers
  BY DEF Active
<1>2. IsFiniteSet(Active) /\ Cardinality(Active) <= Cardinality(Workers)
  BY <1>1, FS_Subset, PoolAssumption
<1>3. Cardinality(Active) \in Nat /\ Cardinality(Workers) \in Nat
  BY <1>2, FS_CardinalityType, PoolAssumption
<1>4. QED
  BY <1>1, <1>2, <1>3 DEF dwNumThreads

\* A step that neither starts the threads nor moves a worker across the border
\* between active and idle, and leaves the counter alone, keeps the count.
LEMMA CountUnchanged ==
  ASSUME ActiveCount, dwNumActive' = dwNumActive,
         \A w \in Workers : /\ worker'[w] \in ActiveStates <=> worker[w] \in ActiveStates
                            /\ worker'[w] = "unborn" <=> worker[w] = "unborn"
  PROVE  ActiveCount'
<1>1. Active' = Active
  BY DEF Active
<1>2. QED
  BY <1>1 DEF ActiveCount, ThreadsStarted

\* InitThreads keeps the count: it starts all workers as active or changes nothing.
LEMMA CountStarted ==
  ASSUME ActiveInv, dwNumActive' = InitThreadsActive,
         worker' = Started \/ (ThreadsStarted /\ \E w \in Workers :
           IsWaiting(w) /\ worker' = [worker EXCEPT ![w] = "notified"])
  PROVE  ActiveCount'
<1>1. CASE ThreadsStarted
  <2>1. \A w \in Workers : worker[w] # "unborn"
    BY <1>1 DEF ActiveInv, ActiveCount
  <2>2. dwNumActive' = dwNumActive
    BY <1>1 DEF InitThreadsActive
  <2>3. \A w \in Workers :
          /\ worker'[w] \in ActiveStates <=> worker[w] \in ActiveStates
          /\ worker'[w] = "unborn" <=> worker[w] = "unborn"
    BY <2>1 DEF ActiveInv, Typed, Started, IsWaiting, ActiveStates, WorkerStates
  <2>4. QED
    BY <2>2, <2>3, CountUnchanged DEF ActiveInv
<1>2. CASE ~ThreadsStarted
  <2>1. \A w \in Workers : worker'[w] = "loop"
    BY <1>2 DEF ActiveInv, Typed, ThreadsStarted, Started
  <2>2. Active' = Workers
    BY <2>1 DEF Active, ActiveStates, WorkerStates
  <2>3. dwNumActive' = Cardinality(Workers)
    BY <1>2 DEF InitThreadsActive, dwNumThreads
  <2>4. QED
    BY <2>1, <2>2, <2>3 DEF ActiveCount, ThreadsStarted
<1>3. QED
  BY <1>1, <1>2

\* A worker that enters its critical section and goes on is counted once.
LEMMA CountEntry ==
  ASSUME ActiveInv, NEW w \in Workers, AtLoop(w),
         dwNumActive' = ActiveOnEntry(w),
         worker'[w] \in ActiveStates,
         \A v \in Workers \ {w} :
           /\ worker'[v] \in ActiveStates <=> worker[v] \in ActiveStates
           /\ worker'[v] = "unborn" <=> worker[v] = "unborn"
  PROVE  ActiveCount'
<1>1. worker'[w] # "unborn" /\ worker[w] # "unborn"
  BY DEF AtLoop, ActiveStates
<1>2. ThreadsStarted' => \A v \in Workers : worker'[v] # "unborn"
  BY <1>1 DEF ActiveInv, ActiveCount, ThreadsStarted
<1>3. Active' = Active \cup {w}
  BY DEF Active
<1>4. dwNumActive' = Cardinality(Active \cup {w})
  <2>1. CASE worker[w] = "loop"
    BY <2>1 DEF Active, ActiveStates, WorkerStates, ActiveOnEntry, ActiveInv, ActiveCount
  <2>2. CASE worker[w] = "notified"
    BY <2>2, ActiveIsFinite, FS_AddElement
       DEF Active, ActiveStates, ActiveOnEntry, ActiveInv, ActiveCount
  <2>3. QED
    BY <2>1, <2>2 DEF AtLoop
<1>5. QED
  BY <1>2, <1>3, <1>4 DEF ActiveCount

\* A worker that enters its critical section and goes to sleep is not counted.
LEMMA CountSleep ==
  ASSUME ActiveInv, NEW w \in Workers, Sleep(w)
  PROVE  ActiveCount'
<1>1. worker' = [worker EXCEPT ![w] = "waiting"] /\ worker \in [Workers -> WorkerStates]
  BY DEF Sleep, ActiveInv, Typed
<1>2. Active' = Active \ {w}
  BY <1>1 DEF Active, ActiveStates
<1>3. dwNumActive' = Cardinality(Active \ {w})
  <2>1. CASE worker[w] = "loop"
    BY <2>1, ActiveIsFinite, FS_RemoveElement
       DEF Sleep, Active, ActiveStates, WorkerStates, ActiveOnEntry, ActiveInv, ActiveCount
  <2>2. CASE worker[w] = "notified"
    <3>1. Active \ {w} = Active
      BY <2>2 DEF Active, ActiveStates
    <3>2. dwNumActive' = (dwNumActive + 1) - 1 /\ dwNumActive \in Int
      BY <2>2 DEF Sleep, ActiveOnEntry, ActiveInv, Typed
    <3>3. dwNumActive' = dwNumActive
      BY <3>2
    <3>4. QED
      BY <3>1, <3>3 DEF ActiveInv, ActiveCount
  <2>3. QED
    BY <2>1, <2>2 DEF Sleep, AtLoop
<1>4. ThreadsStarted' => \A v \in Workers : worker'[v] # "unborn"
  BY <1>1 DEF Sleep, AtLoop, ActiveInv, ActiveCount, ThreadsStarted
<1>5. QED
  BY <1>2, <1>3, <1>4 DEF ActiveCount

\* Initially no thread exists and none is counted.
LEMMA ActiveInvInit == PoolInit => ActiveInv
<1> SUFFICES ASSUME PoolInit PROVE ActiveInv
  OBVIOUS
<1>1. Active = {}
  BY DEF PoolInit, Active, ActiveStates
<1>2. ActiveCount
  BY <1>1, FS_EmptySet DEF PoolInit, ActiveCount, ThreadsStarted
<1>3. QED
  BY <1>2, TypedInit DEF ActiveInv

\* Every step keeps the count.
LEMMA ActiveInvStep == ActiveInv /\ [PoolNext]_poolVars => ActiveInv'
<1> SUFFICES ASSUME ActiveInv, [PoolNext]_poolVars PROVE ActiveInv'
  OBVIOUS
<1>0. Typed /\ Typed' /\ ActiveCount
  BY TypedStep DEF ActiveInv
<1> SUFFICES ActiveCount'
  BY <1>0 DEF ActiveInv
<1>1. ASSUME NEW t \in Tasks, Schedule(t) PROVE ActiveCount'
  <2>1. (\E w \in Workers : IsWaiting(w)) => ThreadsStarted
    BY DEF IsWaiting, ThreadsStarted
  <2>2. QED
    BY <1>1, <2>1, CountStarted DEF Schedule, NotifyOne
<1>2. ASSUME NEW t \in Tasks, ScheduleIfResourceAvailable(t) PROVE ActiveCount'
  BY <1>2, CountStarted DEF ScheduleIfResourceAvailable
<1>3. CASE worker' = worker /\ dwNumActive' = dwNumActive
  <2>1. Active' = Active
    BY <1>3 DEF Active
  <2>2. QED
    BY <1>0, <1>3, <2>1 DEF ActiveCount, ThreadsStarted
<1>4. CASE NotifyAll /\ dwNumActive' = dwNumActive
  <2>1. \A w \in Workers :
          /\ worker'[w] \in ActiveStates <=> worker[w] \in ActiveStates
          /\ worker'[w] = "unborn" <=> worker[w] = "unborn"
    BY <1>4 DEF NotifyAll, IsWaiting, ActiveStates
  <2>2. dwNumActive' = dwNumActive
    BY <1>4
  <2>3. QED
    BY <1>0, <2>1, <2>2, CountUnchanged
<1>5. ASSUME NEW w \in Workers, Sleep(w) PROVE ActiveCount'
  BY <1>5, CountSleep
<1>6. ASSUME NEW w \in Workers, TakeTask(w) \/ TakeExit(w) PROVE ActiveCount'
  <2>1. AtLoop(w) /\ dwNumActive' = ActiveOnEntry(w)
    BY <1>6 DEF TakeTask, TakeExit
  <2>2. worker'[w] \in ActiveStates /\ \A v \in Workers \ {w} : worker'[v] = worker[v]
    BY <1>0, <1>6 DEF TakeTask, TakeExit, Typed, ActiveStates, WorkerStates
  <2>3. QED
    BY <2>1, <2>2, CountEntry
<1>7. ASSUME NEW w \in Workers, ReachBarrier(w) PROVE ActiveCount'
  <2>1. AtLoop(w) /\ dwNumActive' = ActiveOnEntry(w)
    BY <1>7 DEF ReachBarrier
  <2>2. worker'[w] \in ActiveStates
    BY <1>0, <1>7 DEF ReachBarrier, NotifyBarrier, Typed, ActiveStates, WorkerStates
  <2>3. \A v \in Workers \ {w} :
          /\ worker'[v] \in ActiveStates <=> worker[v] \in ActiveStates
          /\ worker'[v] = "unborn" <=> worker[v] = "unborn"
    BY <1>0, <1>7 DEF ReachBarrier, NotifyBarrier, Typed, ActiveStates, WorkerStates
  <2>4. QED
    BY <2>1, <2>2, <2>3, CountEntry
<1>8. ASSUME NEW w \in Workers,
             LeaveBarrier(w) \/ ReturnFromExecute(w)
               \/ \E dwType \in ResultTypes : YieldResult(w, dwType)
      PROVE  ActiveCount'
  <2>1. dwNumActive' = dwNumActive
    BY <1>8 DEF LeaveBarrier, ReturnFromExecute, YieldResult
  <2>2. \A v \in Workers :
          /\ worker'[v] \in ActiveStates <=> worker[v] \in ActiveStates
          /\ worker'[v] = "unborn" <=> worker[v] = "unborn"
    BY <1>0, <1>8 DEF LeaveBarrier, ReturnFromExecute, YieldResult, Typed,
       ActiveStates, WorkerStates
  <2>3. QED
    BY <1>0, <2>1, <2>2, CountUnchanged
<1>9. CASE SpuriousWakeup
  <2>1. \A v \in Workers :
          /\ worker'[v] \in ActiveStates <=> worker[v] \in ActiveStates
          /\ worker'[v] = "unborn" <=> worker[v] = "unborn"
    BY <1>0, <1>9 DEF SpuriousWakeup, Typed, ActiveStates, WorkerStates
  <2>2. dwNumActive' = dwNumActive
    BY <1>9 DEF SpuriousWakeup
  <2>3. QED
    BY <1>0, <2>1, <2>2, CountUnchanged
<1>10. QED
  <2>1. CASE ClientStep
    <3>1. CASE TakeResult \/ NoMoreResults \/ BlockForResult \/ CheckBarrier \/ Join
      BY <1>3, <3>1 DEF TakeResult, NoMoreResults, BlockForResult, CheckBarrier, Join
    <3>2. CASE Synchronize \/ Destroy
      BY <1>4, <3>2 DEF Synchronize, Destroy
    <3>3. QED
      BY <1>1, <1>2, <2>1, <3>1, <3>2 DEF ClientStep
  <2>2. ASSUME NEW w \in Workers, WorkerStep(w) \/ TaskSchedules(w) PROVE ActiveCount'
    BY <1>1, <1>5, <1>6, <1>7, <1>8, <2>2 DEF WorkerStep, WorkerLoop, TaskSchedules
  <2>3. CASE UNCHANGED poolVars
    BY <1>3, <2>3 DEF poolVars
  <2>4. QED
    BY <1>9, <2>1, <2>2, <2>3 DEF PoolNext

\* The counter that WaitForResult relies on is right at all times: dwNumActive is
\* the number of workers outside stCondition's wait, whoever runs in between.
THEOREM ActiveCountCorrect == PoolSpec => []ActiveCount
<1>1. ActiveInv => ActiveCount
  BY DEF ActiveInv
<1>2. QED
  BY <1>1, ActiveInvInit, ActiveInvStep, PTL DEF PoolSpec

\* The pool's variables keep their types; dwNumActive stays between 0 and the
\* number of threads.
THEOREM PoolTypeCorrect == PoolSpec => []PoolTypeOK
<1>1. ActiveInv => PoolTypeOK
  BY ActiveIsFinite DEF ActiveInv, ActiveCount, Typed, PoolTypeOK
<1>2. QED
  BY <1>1, ActiveInvInit, ActiveInvStep, PTL DEF PoolSpec

\* Where the count is right, an idle pool has no worker at work.
LEMMA IdleFromCount == ActiveInv => IdleIsIdle
<1> SUFFICES ASSUME ActiveInv, PoolIdle, NEW w \in Workers
             PROVE  stTask[w] = NoTask /\ ~HoldsTask(w)
  BY DEF IdleIsIdle
<1>1. Active = {}
  BY ActiveIsFinite, FS_EmptySet DEF ActiveInv, ActiveCount, PoolIdle
<1>2. ~HoldsTask(w)
  BY <1>1 DEF HoldsTask, Active, ActiveStates, WorkerStates
<1>3. QED
  BY <1>2 DEF ActiveInv, Typed

\* When WaitForResult returns nullptr, no worker holds a task: an idle pool will
\* not yield another result by itself.
THEOREM IdleCorrect == PoolSpec => []IdleIsIdle
  BY IdleFromCount, ActiveInvInit, ActiveInvStep, PTL DEF PoolSpec

-------------------------------------------------------------------------------
(* No lost wakeup for tasks that entered through Schedule. *)

StrandedInv == ActiveInv /\ NoScheduledTaskStranded

Asleep == \A w \in Workers : worker[w] \in {"unborn", "waiting"}

\* A step that leaves somebody awake, or the list empty, strands nothing.
LEMMA AwakeStrandsNothing ==
  ASSUME NEW w \in Workers, worker'[w] \notin {"unborn", "waiting"}
  PROVE  NoScheduledTaskStranded'
  BY DEF NoScheduledTaskStranded

\* A step that neither moves a worker nor changes the list strands nothing that
\* was not stranded before.
LEMMA StrandedUnchanged ==
  ASSUME NoScheduledTaskStranded, worker' = worker, aTasks' = aTasks,
         submission' = submission
  PROVE  NoScheduledTaskStranded'
  BY DEF NoScheduledTaskStranded

\* A task that is put into the list silently is not a scheduled task, and a special
\* task is none either.
LEMMA StrandedAppend ==
  ASSUME Typed, NoScheduledTaskStranded, Asleep' => Asleep,
         NEW t \in Tasks \cup {SYNCHRONIZE, EXIT}, aTasks' = Append(aTasks, t),
         \/ t \in Tasks /\ submission' = [submission EXCEPT ![t] = "silent"]
         \/ t \notin Tasks /\ submission' = submission
  PROVE  NoScheduledTaskStranded'
<1> SUFFICES ASSUME Asleep', NEW i \in DOMAIN aTasks', aTasks'[i] \in Tasks
             PROVE  submission'[aTasks'[i]] = "silent"
  BY DEF NoScheduledTaskStranded, Asleep
<1>1. \A j \in DOMAIN aTasks : aTasks[j] \in Tasks => submission[aTasks[j]] = "silent"
  BY DEF NoScheduledTaskStranded, Asleep
<1>2. \/ i \in DOMAIN aTasks /\ aTasks'[i] = aTasks[i]
      \/ aTasks'[i] = t
  <2>1. aTasks \in Seq(Tasks \cup {SYNCHRONIZE, EXIT})
    BY DEF Typed
  <2>2. QED
    BY <2>1, AppendProperties
<1>3. submission \in [Tasks -> Submissions]
  BY DEF Typed
<1>4. QED
  BY <1>1, <1>2, <1>3

\* Every step keeps NoScheduledTaskStranded: a worker goes to sleep only when the
\* list is empty, and Schedule wakes a worker or finds one that is awake.
LEMMA StrandedStep == StrandedInv /\ [PoolNext]_poolVars => NoScheduledTaskStranded'
<1> SUFFICES ASSUME StrandedInv, [PoolNext]_poolVars PROVE NoScheduledTaskStranded'
  OBVIOUS
<1>0. /\ ActiveInv /\ Typed /\ ActiveCount /\ NoScheduledTaskStranded
      /\ worker \in [Workers -> WorkerStates]
  BY DEF StrandedInv, ActiveInv, Typed
<1>1. ASSUME NEW t \in Tasks, Schedule(t) PROVE NoScheduledTaskStranded'
  <2>1. PICK w \in Workers : worker'[w] \notin {"unborn", "waiting"}
    <3>1. CASE \E w \in Workers :
                 IsWaiting(w) /\ worker' = [worker EXCEPT ![w] = "notified"]
      BY <1>0, <3>1
    <3>2. CASE (\A w \in Workers : ~IsWaiting(w)) /\ worker' = Started
      BY <1>0, <3>2, PoolAssumption DEF IsWaiting, Started
    <3>3. QED
      BY <1>1, <3>1, <3>2 DEF Schedule, NotifyOne
  <2>2. QED
    BY <2>1, AwakeStrandsNothing
<1>2. ASSUME NEW t \in Tasks, ScheduleIfResourceAvailable(t)
      PROVE  NoScheduledTaskStranded'
  <2>1. CASE ~ThreadsStarted
    BY <1>0, <1>2, <2>1, PoolAssumption, AwakeStrandsNothing
       DEF ScheduleIfResourceAvailable, Started, ThreadsStarted
  <2>2. CASE ThreadsStarted
    <3>1. worker' = worker
      BY <1>0, <1>2, <2>2 DEF ScheduleIfResourceAvailable, Started, ActiveCount
    <3>2. Asleep' => Asleep
      BY <3>1 DEF Asleep
    <3>3. CASE ResourceAvailable
      BY <1>0, <1>2, <3>2, <3>3, StrandedAppend DEF ScheduleIfResourceAvailable
    <3>4. CASE ~ResourceAvailable
      BY <1>0, <1>2, <3>1, <3>4, StrandedUnchanged DEF ScheduleIfResourceAvailable
    <3>5. QED
      BY <3>3, <3>4
  <2>3. QED
    BY <2>1, <2>2
<1>3. ASSUME NEW t \in {SYNCHRONIZE, EXIT}, aTasks' = Append(aTasks, t), NotifyAll,
             submission' = submission
      PROVE  NoScheduledTaskStranded'
  <2>1. Asleep' => Asleep
    BY <1>0, <1>3 DEF Asleep, NotifyAll, IsWaiting
  <2>2. t \notin Tasks
    BY PoolAssumption
  <2>3. QED
    BY <1>0, <1>3, <2>1, <2>2, StrandedAppend
<1>4. ASSUME NEW w \in Workers, Sleep(w) PROVE NoScheduledTaskStranded'
  BY <1>4 DEF Sleep, NoScheduledTaskStranded
<1>5. ASSUME NEW w \in Workers, WorkerStep(w), ~Sleep(w)
      PROVE  NoScheduledTaskStranded'
  <2>1. worker'[w] \notin {"unborn", "waiting"}
    BY <1>0, <1>5 DEF WorkerStep, WorkerLoop, TakeTask, ReachBarrier, NotifyBarrier,
       LeaveBarrier, TakeExit, ReturnFromExecute, YieldResult
  <2>2. QED
    BY <2>1, AwakeStrandsNothing
<1>6. CASE SpuriousWakeup
  <2>1. CASE worker' = worker
    BY <1>0, <1>6, <2>1, StrandedUnchanged DEF SpuriousWakeup
  <2>2. CASE \E w \in Workers : worker'[w] \in {"notified", "barrierNotified"}
    BY <2>2, AwakeStrandsNothing
  <2>3. QED
    BY <1>0, <1>6, <2>1, <2>2 DEF SpuriousWakeup
<1>7. CASE UNCHANGED <<worker, aTasks, submission>>
  BY <1>0, <1>7, StrandedUnchanged
<1>8. QED
  <2>1. CASE ClientStep
    <3>1. CASE TakeResult \/ NoMoreResults \/ BlockForResult \/ CheckBarrier \/ Join
      BY <1>7, <3>1 DEF TakeResult, NoMoreResults, BlockForResult, CheckBarrier, Join
    <3>2. CASE Synchronize \/ Destroy
      BY <1>3, <3>2 DEF Synchronize, Destroy
    <3>3. QED
      BY <1>1, <1>2, <2>1, <3>1, <3>2 DEF ClientStep
  <2>2. CASE UNCHANGED poolVars
    BY <1>7, <2>2 DEF poolVars
  <2>3. QED
    BY <1>1, <1>4, <1>5, <1>6, <2>1, <2>2 DEF PoolNext, TaskSchedules

\* Initially there is no task to strand.
LEMMA StrandedInit == PoolInit => StrandedInv
  BY ActiveInvInit DEF StrandedInv, PoolInit, NoScheduledTaskStranded

\* No interleaving loses the wakeup of a task that entered through Schedule.
THEOREM NoScheduledTaskStrandedCorrect == PoolSpec => []NoScheduledTaskStranded
<1>1. StrandedInv /\ [PoolNext]_poolVars => StrandedInv'
  BY ActiveInvStep, StrandedStep DEF StrandedInv
<1>2. StrandedInv => NoScheduledTaskStranded
  BY DEF StrandedInv
<1>3. QED
  BY <1>1, <1>2, StrandedInit, PTL DEF PoolSpec

-------------------------------------------------------------------------------
(* The barrier. *)

AtBarrier == {w \in Workers : worker[w] \in {"barrier", "barrierNotified"}}

\* While the count is short of the number of threads, the workers it counted are at
\* the barrier; others, left over from a former barrier, may be there, too.
BarrierInv ==
  /\ Typed
  /\ dwNumSynchronized < dwNumThreads => dwNumSynchronized <= Cardinality(AtBarrier)

\* The workers at the barrier can be counted, those of the next state, too.
LEMMA BarrierIsFinite ==
  /\ AtBarrier \subseteq Workers /\ AtBarrier' \subseteq Workers
  /\ IsFiniteSet(AtBarrier) /\ IsFiniteSet(AtBarrier')
  /\ Cardinality(AtBarrier) \in Nat /\ Cardinality(AtBarrier') \in Nat
  /\ dwNumThreads \in Nat
<1>1. AtBarrier \subseteq Workers /\ AtBarrier' \subseteq Workers
  BY DEF AtBarrier
<1>2. IsFiniteSet(AtBarrier) /\ IsFiniteSet(AtBarrier')
  BY <1>1, FS_Subset, PoolAssumption
<1>3. QED
  BY <1>1, <1>2, FS_CardinalityType, PoolAssumption DEF dwNumThreads

\* A step that keeps the counter and takes nobody away from the barrier keeps the
\* invariant.
LEMMA BarrierUnchanged ==
  ASSUME BarrierInv, Typed', dwNumSynchronized' = dwNumSynchronized,
         AtBarrier \subseteq AtBarrier'
  PROVE  BarrierInv'
<1>1. Cardinality(AtBarrier) <= Cardinality(AtBarrier')
  BY BarrierIsFinite, FS_Subset
<1>2. dwNumThreads' = dwNumThreads
  BY DEF dwNumThreads
<1>3. QED
  BY <1>1, <1>2, BarrierIsFinite DEF BarrierInv, Typed

\* Every step keeps the invariant.
LEMMA BarrierStep == BarrierInv /\ [PoolNext]_poolVars => BarrierInv'
<1> SUFFICES ASSUME BarrierInv, [PoolNext]_poolVars PROVE BarrierInv'
  OBVIOUS
<1>0. Typed /\ Typed' /\ worker \in [Workers -> WorkerStates]
  BY TypedStep DEF BarrierInv, Typed
<1>1. CASE Synchronize
  <2>1. dwNumSynchronized' = 0
    BY <1>1 DEF Synchronize
  <2>2. QED
    BY <1>0, <2>1, BarrierIsFinite DEF BarrierInv
<1>2. ASSUME NEW w \in Workers, ReachBarrier(w) PROVE BarrierInv'
  <2>1. dwNumSynchronized' = dwNumSynchronized + 1 /\ w \notin AtBarrier
    BY <1>2 DEF ReachBarrier, AtLoop, AtBarrier
  <2>2. CASE dwNumSynchronized' < dwNumThreads
    <3>1. worker' = [worker EXCEPT ![w] = "barrier"]
      BY <1>2, <2>2, BarrierIsFinite DEF ReachBarrier, BarrierComplete
    <3>2. AtBarrier' = AtBarrier \cup {w}
      BY <1>0, <3>1 DEF AtBarrier
    <3>3. Cardinality(AtBarrier') = Cardinality(AtBarrier) + 1
      BY <2>1, <3>2, BarrierIsFinite, FS_AddElement
    <3>4. dwNumSynchronized \in Nat
      BY <1>0 DEF Typed
    <3>5. dwNumSynchronized <= Cardinality(AtBarrier)
      BY <2>1, <2>2, <3>4, BarrierIsFinite DEF BarrierInv
    <3>6. dwNumSynchronized' <= Cardinality(AtBarrier')
      BY <2>1, <3>3, <3>4, <3>5, BarrierIsFinite
    <3>7. QED
      BY <1>0, <3>6 DEF BarrierInv
  <2>3. CASE ~(dwNumSynchronized' < dwNumThreads)
    BY <1>0, <2>3 DEF BarrierInv, dwNumThreads
  <2>4. QED
    BY <2>2, <2>3
<1>3. ASSUME NEW w \in Workers, LeaveBarrier(w) PROVE BarrierInv'
  <2>1. dwNumSynchronized' = dwNumSynchronized
    BY <1>3 DEF LeaveBarrier
  <2>2. CASE BarrierComplete(dwNumSynchronized)
    BY <1>0, <2>1, <2>2, BarrierIsFinite DEF BarrierInv, BarrierComplete, dwNumThreads
  <2>3. CASE ~BarrierComplete(dwNumSynchronized)
    <3>1. worker' = [worker EXCEPT ![w] = "barrier"]
      BY <1>3, <2>3 DEF LeaveBarrier
    <3>2. AtBarrier \subseteq AtBarrier'
      BY <1>0, <3>1 DEF AtBarrier
    <3>3. QED
      BY <1>0, <2>1, <3>2, BarrierUnchanged
  <2>4. QED
    BY <2>2, <2>3
<1>4. ASSUME dwNumSynchronized' = dwNumSynchronized,
             \A w \in Workers : worker[w] \in {"barrier", "barrierNotified"} =>
                                  worker'[w] \in {"barrier", "barrierNotified"}
      PROVE  BarrierInv'
  <2>1. AtBarrier \subseteq AtBarrier'
    BY <1>4 DEF AtBarrier
  <2>2. dwNumSynchronized' = dwNumSynchronized
    BY <1>4
  <2>3. QED
    BY <1>0, <2>1, <2>2, BarrierUnchanged
<1>5. ASSUME NEW t \in Tasks, Schedule(t) \/ ScheduleIfResourceAvailable(t)
      PROVE  BarrierInv'
  <2>1. dwNumSynchronized' = dwNumSynchronized
    BY <1>5 DEF Schedule, ScheduleIfResourceAvailable
  <2>2. worker' = Started \/ \E w \in Workers :
          IsWaiting(w) /\ worker' = [worker EXCEPT ![w] = "notified"]
    BY <1>5 DEF Schedule, ScheduleIfResourceAvailable, NotifyOne
  <2>3. \A w \in Workers : worker[w] \in {"barrier", "barrierNotified"} =>
                             worker'[w] \in {"barrier", "barrierNotified"}
    BY <1>0, <2>2 DEF Started, IsWaiting
  <2>4. QED
    BY <1>4, <2>1, <2>3
<1>6. CASE Destroy
  <2>1. dwNumSynchronized' = dwNumSynchronized
    BY <1>6 DEF Destroy
  <2>2. \A w \in Workers : worker[w] \in {"barrier", "barrierNotified"} =>
                             worker'[w] \in {"barrier", "barrierNotified"}
    BY <1>6 DEF Destroy, NotifyAll, IsWaiting
  <2>3. QED
    BY <1>4, <2>1, <2>2
<1>7. ASSUME NEW w \in Workers,
             \/ Sleep(w) \/ TakeTask(w) \/ TakeExit(w) \/ ReturnFromExecute(w)
             \/ \E dwType \in ResultTypes : YieldResult(w, dwType)
      PROVE  BarrierInv'
  <2>1. dwNumSynchronized' = dwNumSynchronized
    BY <1>7 DEF Sleep, TakeTask, TakeExit, ReturnFromExecute, YieldResult
  <2>2. \A v \in Workers : worker[v] \in {"barrier", "barrierNotified"} =>
                             worker'[v] \in {"barrier", "barrierNotified"}
    BY <1>0, <1>7
       DEF Sleep, TakeTask, TakeExit, ReturnFromExecute, YieldResult, AtLoop
  <2>3. QED
    BY <1>4, <2>1, <2>2
<1>8. CASE SpuriousWakeup
  <2>1. dwNumSynchronized' = dwNumSynchronized
    BY <1>8 DEF SpuriousWakeup
  <2>2. \A v \in Workers : worker[v] \in {"barrier", "barrierNotified"} =>
                             worker'[v] \in {"barrier", "barrierNotified"}
    BY <1>0, <1>8 DEF SpuriousWakeup
  <2>3. QED
    BY <1>4, <2>1, <2>2
<1>9. CASE worker' = worker /\ dwNumSynchronized' = dwNumSynchronized
  BY <1>4, <1>9
<1>10. QED
  <2>1. CASE ClientStep
    <3>1. CASE TakeResult \/ NoMoreResults \/ BlockForResult \/ CheckBarrier \/ Join
      BY <1>9, <3>1 DEF TakeResult, NoMoreResults, BlockForResult, CheckBarrier, Join
    <3>2. QED
      BY <1>1, <1>5, <1>6, <2>1, <3>1 DEF ClientStep
  <2>2. ASSUME NEW w \in Workers, WorkerStep(w) \/ TaskSchedules(w) PROVE BarrierInv'
    BY <1>2, <1>3, <1>5, <1>7, <2>2 DEF WorkerStep, WorkerLoop, TaskSchedules
  <2>3. CASE UNCHANGED poolVars
    BY <1>9, <2>3 DEF poolVars
  <2>4. QED
    BY <1>8, <2>1, <2>2, <2>3 DEF PoolNext

\* The barrier opens only when no worker executes a task: the one that completes
\* the count was not counted yet, so all the others are at the barrier.
THEOREM BarrierCorrect == PoolSpec => BarrierExcludesExecution
<1>1. PoolInit => BarrierInv
  <2> SUFFICES ASSUME PoolInit PROVE BarrierInv
    OBVIOUS
  <2>1. dwNumSynchronized = 0
    BY DEF PoolInit
  <2>2. QED
    BY <2>1, TypedInit, BarrierIsFinite DEF BarrierInv
<1>2. ASSUME BarrierInv, [PoolNext]_poolVars,
             BarrierComplete(dwNumSynchronized'), dwNumSynchronized' # dwNumSynchronized
      PROVE  \A w \in Workers : ~HoldsTask(w)
  <2>0. worker \in [Workers -> WorkerStates] /\ dwNumSynchronized \in Nat
    BY <1>2 DEF BarrierInv, Typed
  <2>1. ~Synchronize
    BY <1>2, FS_EmptySet, PoolAssumption DEF Synchronize, BarrierComplete, dwNumThreads
  <2>2. PICK w \in Workers : ReachBarrier(w)
    BY <1>2, <2>1 DEF PoolNext, poolVars, ClientStep, WorkerStep, WorkerLoop,
       TaskSchedules, Schedule, ScheduleIfResourceAvailable, TakeResult, NoMoreResults,
       BlockForResult, CheckBarrier, Destroy, Join, Sleep, TakeTask, LeaveBarrier,
       TakeExit, YieldResult, ReturnFromExecute, SpuriousWakeup
  <2>3. worker[w] \in {"loop", "notified"}
        /\ dwNumSynchronized + 1 = dwNumThreads
    BY <1>2, <2>2 DEF ReachBarrier, AtLoop, BarrierComplete
  <2>4. dwNumThreads - 1 <= Cardinality(AtBarrier)
    BY <1>2, <2>0, <2>3, BarrierIsFinite DEF BarrierInv
  <2>5. AtBarrier \subseteq Workers \ {w}
    BY <2>3 DEF AtBarrier
  <2>6. IsFiniteSet(Workers \ {w}) /\ Cardinality(Workers \ {w}) = dwNumThreads - 1
    BY FS_RemoveElement, PoolAssumption DEF dwNumThreads
  <2>7. AtBarrier = Workers \ {w}
    BY <2>4, <2>5, <2>6, FS_Subset, BarrierIsFinite
  <2>8. QED
    BY <2>3, <2>7 DEF AtBarrier, HoldsTask
<1>3. QED
  BY <1>1, <1>2, BarrierStep, PTL DEF PoolSpec, BarrierExcludesExecution

-------------------------------------------------------------------------------
(* Every task is executed and yields at most once. *)

HasResult(t) == \E i \in DOMAIN aResults : aResults[i].task = t
Held(t) == \E w \in Workers : stTask[w] = t

\* A task that was never submitted is nowhere.
FreshTasks ==
  \A t \in Tasks : submission[t] = "none" => ~InList(t) /\ ~Held(t) /\ ~HasResult(t)

OnceInv == Typed /\ OneExecutionPerTask /\ FreshTasks

\* What push_back does to the positions of a list.
LEMMA AppendPositions ==
  ASSUME NEW S, NEW s \in Seq(S), NEW e \in S
  PROVE  /\ DOMAIN Append(s, e) = DOMAIN s \cup {Len(s) + 1}
         /\ Len(s) + 1 \notin DOMAIN s
         /\ \A i \in DOMAIN s : Append(s, e)[i] = s[i]
         /\ Append(s, e)[Len(s) + 1] = e
<1>1. DOMAIN s = 1 .. Len(s) /\ Len(s) \in Nat
  BY LenProperties
<1>2. DOMAIN Append(s, e) = 1 .. Len(s) + 1
  BY AppendProperties, LenProperties
<1>3. QED
  BY <1>1, <1>2, AppendProperties

\* What pop_front does to the positions of a list.
LEMMA TailPositions ==
  ASSUME NEW S, NEW s \in Seq(S), s # <<>>
  PROVE  /\ \A i \in DOMAIN Tail(s) : /\ i + 1 \in DOMAIN s /\ i + 1 # 1 /\ i \in Int
                                      /\ Tail(s)[i] = s[i + 1]
         /\ 1 \in DOMAIN s /\ s[1] = Head(s)
<1>1. DOMAIN s = 1 .. Len(s) /\ Len(s) \in Nat /\ Len(s) > 0
  BY LenProperties, EmptySeq
<1>2. DOMAIN Tail(s) = 1 .. Len(s) - 1
  BY HeadTailProperties, LenProperties
<1>3. QED
  BY <1>1, <1>2, HeadTailProperties

\* A step that moves workers but no task keeps the invariant.
LEMMA OnceUnchanged ==
  ASSUME OnceInv, Typed',
         aTasks' = aTasks, aResults' = aResults, stTask' = stTask,
         submission' = submission,
         \A w \in Workers : /\ HoldsTask(w)' <=> HoldsTask(w)
                            /\ worker[w] = "returning" => worker'[w] = "returning"
  PROVE  OnceInv'
  BY DEF OnceInv, OneExecutionPerTask, FreshTasks, InList, Held, HasResult

\* A step that puts a new task, or a special one, into the list keeps it.
LEMMA OnceAppend ==
  ASSUME OnceInv, Typed', NEW t \in Tasks \cup {SYNCHRONIZE, EXIT},
         aTasks' = Append(aTasks, t), aResults' = aResults, stTask' = stTask,
         \A w \in Workers : /\ HoldsTask(w)' <=> HoldsTask(w)
                            /\ worker[w] = "returning" => worker'[w] = "returning",
         t \in Tasks => submission[t] = "none" /\ submission'[t] # "none",
         \A u \in Tasks : submission'[u] = "none" => submission[u] = "none"
  PROVE  OnceInv'
<1>1. aTasks \in Seq(Tasks \cup {SYNCHRONIZE, EXIT})
  BY DEF OnceInv, Typed
<1>2. \A u : InList(u)' <=> InList(u) \/ u = t
  BY <1>1, AppendPositions DEF InList
<1>3. \A u : (Held(u)' <=> Held(u)) /\ (HasResult(u)' <=> HasResult(u))
  BY DEF Held, HasResult
<1>4. t \in Tasks => ~InList(t) /\ ~Held(t) /\ ~HasResult(t)
  BY DEF OnceInv, FreshTasks
<1>5. FreshTasks'
  BY <1>2, <1>3 DEF OnceInv, FreshTasks
<1>6. \A w \in Workers : (HoldsTask(w)' => stTask'[w] \in Tasks)
                           /\ (stTask'[w] \in Tasks <=> HoldsTask(w)')
  BY DEF OnceInv, OneExecutionPerTask
<1>7. \A i, j \in DOMAIN aTasks' :
        aTasks'[i] = aTasks'[j] /\ aTasks'[i] \in Tasks => i = j
  BY <1>1, <1>4, AppendPositions DEF OnceInv, OneExecutionPerTask, InList
<1>8. \A v, w \in Workers : HoldsTask(v)' /\ stTask'[v] = stTask'[w] => v = w
  BY DEF OnceInv, OneExecutionPerTask
<1>9. \A w \in Workers : HoldsTask(w)' => ~InList(stTask[w])'
  BY <1>2, <1>4, <1>6 DEF OnceInv, OneExecutionPerTask, Held
<1>10. \A i \in DOMAIN aResults : aResults[i].task \in Tasks
  <2>1. aResults \in Seq(Results)
    BY DEF OnceInv, Typed
  <2>2. \A i \in DOMAIN aResults : aResults[i] \in Results
    BY <2>1, ElementOfSeq, LenProperties
  <2>3. QED
    BY <2>2 DEF Results
<1>11. \A i \in DOMAIN aResults' : ~InList(aResults[i].task)'
  BY <1>2, <1>4, <1>10 DEF OnceInv, OneExecutionPerTask, HasResult
<1>12. \A i \in DOMAIN aResults', w \in Workers :
         stTask'[w] = aResults'[i].task => worker'[w] = "returning"
  BY DEF OnceInv, OneExecutionPerTask
<1>13. \A i, j \in DOMAIN aResults' : aResults'[i].task = aResults'[j].task => i = j
  BY DEF OnceInv, OneExecutionPerTask
<1>14. OneExecutionPerTask'
  BY <1>6, <1>7, <1>8, <1>9, <1>11, <1>12, <1>13 DEF OneExecutionPerTask
<1>15. QED
  BY <1>5, <1>14 DEF OnceInv

\* A step that takes the first task off the list and hands it to a worker keeps the
\* invariant; the special task of a barrier is handed to nobody.
LEMMA OncePop ==
  ASSUME OnceInv, Typed', aTasks # <<>>, aTasks' = Tail(aTasks),
         aResults' = aResults, submission' = submission,
         \/ /\ Head(aTasks) \notin Tasks /\ stTask' = stTask
            /\ \A v \in Workers : /\ HoldsTask(v)' <=> HoldsTask(v)
                                  /\ worker[v] = "returning" => worker'[v] = "returning"
         \/ /\ Head(aTasks) \in Tasks
            /\ \E w \in Workers : /\ ~HoldsTask(w)
                                  /\ stTask' = [stTask EXCEPT ![w] = Head(aTasks)]
                                  /\ worker' = [worker EXCEPT ![w] = "execute"]
  PROVE  OnceInv'
<1> DEFINE h == Head(aTasks)
<1>1. aTasks \in Seq(Tasks \cup {SYNCHRONIZE, EXIT}) /\ h = aTasks[1]
      /\ stTask \in [Workers -> Tasks \cup {NoTask}]
      /\ worker \in [Workers -> WorkerStates]
  BY TailPositions DEF OnceInv, Typed
<1>2. \A u : InList(u)' => InList(u)
  BY <1>1, TailPositions DEF InList
<1>3. h \in Tasks => InList(h) /\ \A u : u = h => ~InList(u)'
  <2> SUFFICES ASSUME h \in Tasks PROVE InList(h) /\ \A u : u = h => ~InList(u)'
    OBVIOUS
  <2>1. 1 \in DOMAIN aTasks /\ aTasks[1] = h
    BY <1>1, TailPositions
  <2>2. \A j \in DOMAIN aTasks : aTasks[j] = h => j = 1
    BY <2>1 DEF OnceInv, OneExecutionPerTask
  <2>3. \A i \in DOMAIN aTasks' : aTasks'[i] # h
    BY <1>1, <2>2, TailPositions
  <2>4. QED
    BY <2>1, <2>3 DEF InList
<1>4. h \in Tasks => ~HasResult(h) /\ \A v \in Workers : HoldsTask(v) => stTask[v] # h
  BY <1>3 DEF OnceInv, OneExecutionPerTask, HasResult
<1>5. \A v \in Workers : \/ stTask'[v] = stTask[v] /\ (HoldsTask(v)' <=> HoldsTask(v))
                            /\ (worker[v] = "returning" => worker'[v] = "returning")
                         \/ h \in Tasks /\ stTask'[v] = h
  <2>1. CASE h \notin Tasks
    BY <2>1
  <2>2. CASE h \in Tasks
    BY <1>1, <2>2 DEF HoldsTask
  <2>3. QED
    BY <2>1, <2>2
<1>6. \A v, w \in Workers :
        h \in Tasks /\ stTask'[v] = h /\ stTask'[w] = h => v = w
  <2> SUFFICES ASSUME NEW v \in Workers, NEW w \in Workers,
                      h \in Tasks, stTask'[v] = h, stTask'[w] = h
               PROVE  v = w
    OBVIOUS
  <2>1. \A x \in Workers : stTask[x] # h
    BY <1>4 DEF OnceInv, Typed
  <2>2. PICK x \in Workers : stTask' = [stTask EXCEPT ![x] = h]
    OBVIOUS
  <2>3. QED
    BY <1>1, <2>1, <2>2
<1>7. FreshTasks'
  BY <1>2, <1>3, <1>5 DEF OnceInv, FreshTasks, Held, HasResult
<1>8. \A v \in Workers : stTask'[v] \in Tasks <=> HoldsTask(v)'
  BY DEF Typed
<1>9. \A i, j \in DOMAIN aTasks' :
        aTasks'[i] = aTasks'[j] /\ aTasks'[i] \in Tasks => i = j
  <2> SUFFICES ASSUME NEW i \in DOMAIN aTasks', NEW j \in DOMAIN aTasks',
                      aTasks'[i] = aTasks'[j], aTasks'[i] \in Tasks
               PROVE  i = j
    OBVIOUS
  <2>1. /\ i + 1 \in DOMAIN aTasks /\ j + 1 \in DOMAIN aTasks /\ i \in Int /\ j \in Int
        /\ aTasks[i + 1] = aTasks[j + 1] /\ aTasks[i + 1] \in Tasks
    BY <1>1, TailPositions
  <2>2. i + 1 = j + 1
    BY <2>1 DEF OnceInv, OneExecutionPerTask
  <2>3. QED
    BY <2>1, <2>2
<1>10. \A v, w \in Workers : HoldsTask(v)' /\ stTask'[v] = stTask'[w] => v = w
  <2> SUFFICES ASSUME NEW v \in Workers, NEW w \in Workers,
                      HoldsTask(v)', stTask'[v] = stTask'[w], v # w
               PROVE  FALSE
    OBVIOUS
  <2>1. ~(h \in Tasks /\ stTask'[v] = h)
    BY <1>6
  <2>2. stTask'[v] = stTask[v] /\ HoldsTask(v) /\ stTask'[w] = stTask[w]
    BY <1>5, <2>1
  <2>3. QED
    BY <2>2 DEF OnceInv, OneExecutionPerTask
<1>11. \A v \in Workers : HoldsTask(v)' => ~InList(stTask[v])'
  BY <1>2, <1>3, <1>5 DEF OnceInv, OneExecutionPerTask
<1>12. \A i \in DOMAIN aResults' : ~InList(aResults[i].task)'
  BY <1>2 DEF OnceInv, OneExecutionPerTask
<1>13. \A i \in DOMAIN aResults', v \in Workers :
         stTask'[v] = aResults'[i].task => worker'[v] = "returning"
  BY <1>4, <1>5 DEF OnceInv, OneExecutionPerTask, HasResult
<1>14. \A i, j \in DOMAIN aResults' : aResults'[i].task = aResults'[j].task => i = j
  BY DEF OnceInv, OneExecutionPerTask
<1>15. OneExecutionPerTask'
  BY <1>8, <1>9, <1>10, <1>11, <1>12, <1>13, <1>14 DEF OneExecutionPerTask
<1>16. QED
  BY <1>7, <1>15 DEF OnceInv

\* YieldResult appends the result of the task that the worker executes, which had
\* none.
LEMMA OnceYield ==
  ASSUME OnceInv, Typed', NEW w \in Workers, NEW dwType \in ResultTypes,
         YieldResult(w, dwType)
  PROVE  OnceInv'
<1> DEFINE t == stTask[w]
           r == [task |-> stTask[w], dwType |-> dwType]
<1>1. worker[w] = "execute" /\ worker' = [worker EXCEPT ![w] = "returning"]
      /\ aResults' = Append(aResults, r)
      /\ aTasks' = aTasks /\ stTask' = stTask /\ submission' = submission
  BY DEF YieldResult
<1>2. t \in Tasks /\ r \in Results /\ r.task = t
  BY <1>1 DEF OnceInv, Typed, HoldsTask, Results
<1>3. aResults \in Seq(Results) /\ worker \in [Workers -> WorkerStates]
  BY DEF OnceInv, Typed
<1>4. DOMAIN aResults' = DOMAIN aResults \cup {Len(aResults) + 1}
      /\ aResults'[Len(aResults) + 1] = r
      /\ \A i \in DOMAIN aResults : aResults'[i] = aResults[i]
  BY <1>1, <1>2, <1>3, AppendPositions
<1>5. \A u : (InList(u)' <=> InList(u)) /\ (Held(u)' <=> Held(u))
             /\ (HasResult(u)' <=> HasResult(u) \/ u = t)
  BY <1>1, <1>2, <1>4 DEF InList, Held, HasResult
<1>6. ~HasResult(t) /\ ~InList(t) /\ Held(t)
      /\ \A v \in Workers : stTask[v] = t => v = w
  BY <1>1 DEF OnceInv, OneExecutionPerTask, HasResult, HoldsTask, Held
<1>7. \A v \in Workers : (HoldsTask(v)' <=> HoldsTask(v))
                         /\ (worker[v] = "returning" => worker'[v] = "returning")
  BY <1>1, <1>3 DEF HoldsTask
<1>8. FreshTasks'
  BY <1>1, <1>2, <1>5, <1>6 DEF OnceInv, FreshTasks
<1>9. \A v \in Workers : stTask'[v] \in Tasks <=> HoldsTask(v)'
  BY DEF Typed
<1>10. \A v, x \in Workers : HoldsTask(v)' /\ stTask'[v] = stTask'[x] => v = x
  BY <1>1, <1>7 DEF OnceInv, OneExecutionPerTask
<1>11. \A v \in Workers : HoldsTask(v)' => ~InList(stTask[v])'
  BY <1>1, <1>5, <1>7 DEF OnceInv, OneExecutionPerTask
<1>12. \A i \in DOMAIN aResults' : ~InList(aResults[i].task)'
  BY <1>2, <1>4, <1>5, <1>6 DEF OnceInv, OneExecutionPerTask
<1>13. worker'[w] = "returning"
  BY <1>1, <1>3
<1>14. \A i \in DOMAIN aResults', v \in Workers :
         stTask'[v] = aResults'[i].task => worker'[v] = "returning"
  BY <1>1, <1>2, <1>4, <1>6, <1>7, <1>13 DEF OnceInv, OneExecutionPerTask
<1>15. \A i, j \in DOMAIN aResults' : aResults'[i].task = aResults'[j].task => i = j
  BY <1>2, <1>4, <1>6 DEF OnceInv, OneExecutionPerTask, HasResult
<1>16. \A i, j \in DOMAIN aTasks' :
         aTasks'[i] = aTasks'[j] /\ aTasks'[i] \in Tasks => i = j
  BY <1>1 DEF OnceInv, OneExecutionPerTask
<1>17. OneExecutionPerTask'
  BY <1>9, <1>10, <1>11, <1>12, <1>14, <1>15, <1>16 DEF OneExecutionPerTask
<1>18. QED
  BY <1>8, <1>17 DEF OnceInv

\* The client takes the oldest result.
LEMMA OnceTakeResult ==
  ASSUME OnceInv, Typed', TakeResult
  PROVE  OnceInv'
<1>1. /\ aResults # <<>> /\ aResults' = Tail(aResults)
      /\ aTasks' = aTasks /\ stTask' = stTask /\ submission' = submission
      /\ worker' = worker /\ aResults \in Seq(Results)
  BY DEF TakeResult, OnceInv, Typed
<1>2. \A i \in DOMAIN aResults' : /\ i + 1 \in DOMAIN aResults /\ i \in Int
                                  /\ aResults'[i] = aResults[i + 1]
  BY <1>1, TailPositions
<1>3. \A u : (InList(u)' <=> InList(u)) /\ (Held(u)' <=> Held(u))
             /\ (HasResult(u)' => HasResult(u))
  BY <1>1, <1>2 DEF InList, Held, HasResult
<1>4. FreshTasks'
  BY <1>1, <1>3 DEF OnceInv, FreshTasks
<1>5. \A i, j \in DOMAIN aResults' : aResults'[i].task = aResults'[j].task => i = j
  <2> SUFFICES ASSUME NEW i \in DOMAIN aResults', NEW j \in DOMAIN aResults',
                      aResults'[i].task = aResults'[j].task
               PROVE  i = j
    OBVIOUS
  <2>1. i + 1 = j + 1
    BY <1>2 DEF OnceInv, OneExecutionPerTask
  <2>2. QED
    BY <1>2, <2>1
<1>6. \A v \in Workers : HoldsTask(v)' <=> HoldsTask(v)
  BY <1>1 DEF HoldsTask
<1>7. OneExecutionPerTask'
  BY <1>1, <1>2, <1>3, <1>5, <1>6 DEF OnceInv, OneExecutionPerTask
<1>8. QED
  BY <1>4, <1>7 DEF OnceInv

\* Execute returns; the worker forgets its task.
LEMMA OnceReturn ==
  ASSUME OnceInv, Typed', NEW w \in Workers, ReturnFromExecute(w)
  PROVE  OnceInv'
<1>1. /\ worker' = [worker EXCEPT ![w] = "loop"]
      /\ stTask' = [stTask EXCEPT ![w] = NoTask]
      /\ aTasks' = aTasks /\ aResults' = aResults /\ submission' = submission
      /\ worker \in [Workers -> WorkerStates]
      /\ stTask \in [Workers -> Tasks \cup {NoTask}]
  BY DEF ReturnFromExecute, OnceInv, Typed
<1>2. \A v \in Workers : \/ v = w /\ stTask'[v] = NoTask /\ ~HoldsTask(v)'
                         \/ v # w /\ stTask'[v] = stTask[v] /\ worker'[v] = worker[v]
                                  /\ (HoldsTask(v)' <=> HoldsTask(v))
  BY <1>1 DEF HoldsTask
<1>3. \A u : (InList(u)' <=> InList(u)) /\ (HasResult(u)' <=> HasResult(u))
  BY <1>1 DEF InList, HasResult
<1>4. \A u \in Tasks : Held(u)' => Held(u)
  BY <1>2, PoolAssumption DEF Held
<1>5. FreshTasks'
  BY <1>1, <1>3, <1>4 DEF OnceInv, FreshTasks
<1>6. \A i \in DOMAIN aResults : aResults[i].task \in Tasks
  <2>1. aResults \in Seq(Results)
    BY DEF OnceInv, Typed
  <2>2. \A i \in DOMAIN aResults : aResults[i] \in Results
    BY <2>1, ElementOfSeq, LenProperties
  <2>3. QED
    BY <2>2 DEF Results
<1>7. \A v \in Workers : stTask'[v] \in Tasks <=> HoldsTask(v)'
  BY DEF Typed
<1>8. \A u, v \in Workers : HoldsTask(u)' /\ stTask'[u] = stTask'[v] => u = v
  BY <1>2, <1>7, PoolAssumption DEF OnceInv, OneExecutionPerTask
<1>9. \A v \in Workers : HoldsTask(v)' => ~InList(stTask[v])'
  BY <1>2, <1>3 DEF OnceInv, OneExecutionPerTask
<1>10. \A i \in DOMAIN aResults', v \in Workers :
         stTask'[v] = aResults'[i].task => worker'[v] = "returning"
  BY <1>1, <1>2, <1>6, PoolAssumption DEF OnceInv, OneExecutionPerTask
<1>11. OneExecutionPerTask'
  BY <1>1, <1>3, <1>7, <1>8, <1>9, <1>10 DEF OnceInv, OneExecutionPerTask
<1>12. QED
  BY <1>5, <1>11 DEF OnceInv

\* Every step keeps the invariant.
LEMMA OnceStep == OnceInv /\ [PoolNext]_poolVars => OnceInv'
<1> SUFFICES ASSUME OnceInv, [PoolNext]_poolVars PROVE OnceInv'
  OBVIOUS
<1>0. /\ Typed /\ Typed' /\ worker \in [Workers -> WorkerStates]
      /\ submission \in [Tasks -> Submissions]
  BY TypedStep DEF OnceInv, Typed
<1>1. ASSUME NEW t \in Tasks, Schedule(t) PROVE OnceInv'
  <2>1. \A w \in Workers : /\ HoldsTask(w)' <=> HoldsTask(w)
                           /\ worker[w] = "returning" => worker'[w] = "returning"
    BY <1>0, <1>1 DEF Schedule, NotifyOne, IsWaiting, Started, HoldsTask
  <2>2. submission[t] = "none" /\ submission'[t] # "none"
        /\ \A u \in Tasks : submission'[u] = "none" => submission[u] = "none"
    BY <1>0, <1>1 DEF Schedule
  <2>3. aTasks' = Append(aTasks, t) /\ aResults' = aResults /\ stTask' = stTask
    BY <1>1 DEF Schedule
  <2>4. QED
    BY <1>0, <2>1, <2>2, <2>3, OnceAppend
<1>2. ASSUME NEW t \in Tasks, ScheduleIfResourceAvailable(t) PROVE OnceInv'
  <2>1. \A w \in Workers : /\ HoldsTask(w)' <=> HoldsTask(w)
                           /\ worker[w] = "returning" => worker'[w] = "returning"
    BY <1>0, <1>2 DEF ScheduleIfResourceAvailable, Started, HoldsTask
  <2>2. aResults' = aResults /\ stTask' = stTask
    BY <1>2 DEF ScheduleIfResourceAvailable
  <2>3. CASE ResourceAvailable
    <3>1. submission[t] = "none" /\ submission'[t] # "none"
          /\ \A u \in Tasks : submission'[u] = "none" => submission[u] = "none"
      BY <1>0, <1>2, <2>3 DEF ScheduleIfResourceAvailable
    <3>2. aTasks' = Append(aTasks, t)
      BY <1>2, <2>3 DEF ScheduleIfResourceAvailable
    <3>3. QED
      BY <1>0, <2>1, <2>2, <3>1, <3>2, OnceAppend
  <2>4. CASE ~ResourceAvailable
    <3>1. aTasks' = aTasks /\ submission' = submission
      BY <1>2, <2>4 DEF ScheduleIfResourceAvailable
    <3>2. QED
      BY <1>0, <2>1, <2>2, <3>1, OnceUnchanged
  <2>5. QED
    BY <2>3, <2>4
<1>3. CASE Synchronize \/ Destroy
  <2>1. \A w \in Workers : /\ HoldsTask(w)' <=> HoldsTask(w)
                           /\ worker[w] = "returning" => worker'[w] = "returning"
    BY <1>3 DEF Synchronize, Destroy, NotifyAll, IsWaiting, HoldsTask
  <2>2. aResults' = aResults /\ stTask' = stTask /\ submission' = submission
    BY <1>3 DEF Synchronize, Destroy
  <2>3. PICK t \in {SYNCHRONIZE, EXIT} : aTasks' = Append(aTasks, t)
    BY <1>3 DEF Synchronize, Destroy
  <2>4. t \notin Tasks
    BY PoolAssumption
  <2>5. QED
    BY <1>0, <2>1, <2>2, <2>3, <2>4, OnceAppend
<1>4. ASSUME UNCHANGED <<aTasks, aResults, stTask, submission>>,
             \A w \in Workers : /\ HoldsTask(w)' <=> HoldsTask(w)
                                /\ worker[w] = "returning" => worker'[w] = "returning"
      PROVE  OnceInv'
  <2>1. aTasks' = aTasks /\ aResults' = aResults /\ stTask' = stTask
        /\ submission' = submission
    BY <1>4
  <2>2. QED
    BY <1>0, <1>4, <2>1, OnceUnchanged
<1>5. ASSUME NEW w \in Workers, Sleep(w) \/ LeaveBarrier(w) \/ TakeExit(w)
      PROVE  OnceInv'
  <2>1. \A v \in Workers : /\ HoldsTask(v)' <=> HoldsTask(v)
                           /\ worker[v] = "returning" => worker'[v] = "returning"
    BY <1>0, <1>5 DEF Sleep, LeaveBarrier, TakeExit, AtLoop, HoldsTask
  <2>2. QED
    BY <1>4, <1>5, <2>1 DEF Sleep, LeaveBarrier, TakeExit
<1>6. ASSUME NEW w \in Workers, TakeTask(w) PROVE OnceInv'
  <2>1. ~HoldsTask(w)
    BY <1>6 DEF TakeTask, AtLoop, HoldsTask
  <2>2. /\ aTasks # <<>> /\ Head(aTasks) \in Tasks /\ aTasks' = Tail(aTasks)
        /\ stTask' = [stTask EXCEPT ![w] = Head(aTasks)]
        /\ worker' = [worker EXCEPT ![w] = "execute"]
        /\ aResults' = aResults /\ submission' = submission
    BY <1>6 DEF TakeTask
  <2>3. QED
    BY <1>0, <2>1, <2>2, OncePop
<1>7. ASSUME NEW w \in Workers, ReachBarrier(w) PROVE OnceInv'
  <2>1. \A v \in Workers : /\ HoldsTask(v)' <=> HoldsTask(v)
                           /\ worker[v] = "returning" => worker'[v] = "returning"
    BY <1>0, <1>7 DEF ReachBarrier, NotifyBarrier, AtLoop, HoldsTask
  <2>2. /\ aTasks # <<>> /\ Head(aTasks) \notin Tasks
        /\ aTasks' = Tail(aTasks) \/ aTasks' = aTasks
        /\ aResults' = aResults /\ submission' = submission /\ stTask' = stTask
    BY <1>7, PoolAssumption DEF ReachBarrier
  <2>3. CASE aTasks' = Tail(aTasks)
    BY <1>0, <2>1, <2>2, <2>3, OncePop
  <2>4. CASE aTasks' = aTasks
    BY <1>0, <2>1, <2>2, <2>4, OnceUnchanged
  <2>5. QED
    BY <2>2, <2>3, <2>4
<1>8. CASE SpuriousWakeup
  <2>1. \A v \in Workers : /\ HoldsTask(v)' <=> HoldsTask(v)
                           /\ worker[v] = "returning" => worker'[v] = "returning"
    BY <1>0, <1>8 DEF SpuriousWakeup, HoldsTask
  <2>2. QED
    BY <1>4, <1>8, <2>1 DEF SpuriousWakeup
<1>9. CASE UNCHANGED <<aTasks, aResults, stTask, submission, worker>>
  BY <1>4, <1>9 DEF HoldsTask
<1>10. QED
  <2>1. CASE ClientStep
    <3>1. CASE NoMoreResults \/ BlockForResult \/ CheckBarrier \/ Join
      BY <1>9, <3>1 DEF NoMoreResults, BlockForResult, CheckBarrier, Join
    <3>2. CASE TakeResult
      BY <1>0, <3>2, OnceTakeResult
    <3>3. QED
      BY <1>1, <1>2, <1>3, <2>1, <3>1, <3>2 DEF ClientStep
  <2>2. ASSUME NEW w \in Workers, WorkerStep(w) \/ TaskSchedules(w) PROVE OnceInv'
    BY <1>0, <1>1, <1>5, <1>6, <1>7, <2>2, OnceYield, OnceReturn
       DEF WorkerStep, WorkerLoop, TaskSchedules
  <2>3. CASE UNCHANGED poolVars
    BY <1>9, <2>3 DEF poolVars
  <2>4. QED
    BY <1>8, <2>1, <2>2, <2>3 DEF PoolNext

\* Initially no task is anywhere.
LEMMA OnceInit == PoolInit => OnceInv
  BY TypedInit, PoolAssumption
     DEF OnceInv, PoolInit, OneExecutionPerTask, FreshTasks, InList, Held, HasResult,
         HoldsTask

\* A task is never executed by two workers, never executed again while its result
\* is waiting for the client, and yields one result.
THEOREM OneExecutionPerTaskCorrect == PoolSpec => []OneExecutionPerTask
<1>1. OnceInv => OneExecutionPerTask
  BY DEF OnceInv
<1>2. QED
  BY <1>1, OnceInit, OnceStep, PTL DEF PoolSpec
===============================================================================
