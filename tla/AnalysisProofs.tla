---------------------------- MODULE AnalysisProofs ----------------------------
(***************************************************************************)
(* Proofs about an analysis: its types and its use of the pool, what the   *)
(* coordinator's tracker says is outstanding, what it reports and when it  *)
(* says that it is finished.  For any number of workers, any selection of  *)
(* functions, any forks and any signatures.                                *)
(***************************************************************************)
EXTENDS Analysis, ThreadPoolProofs

\* The coordinator's own types, those of the pool that it depends on, and: whenever
\* the coordinator is not waiting for a result it is not inside the pool, and the
\* pool is destroyed, if at all, after the coordinator finished.
CoordinatorInv ==
  /\ AnalysisTypeOK
  /\ Typed
  /\ coordinator = "wait" => caller \in {"running", "waitResult", "checkResult"}
  /\ coordinator = "finished" => caller \in {"running", "joining", "gone"}
  /\ coordinator \notin {"wait", "finished"} => caller = "running"
  /\ coordinator # "crashed"

\* An analysis, and after it the destruction of its pool: what ControlDialog does to
\* the variables of Analysis.  Whatever holds along these steps holds of an analysis
\* on its own and of one in its dialog.
DestroyPool == coordinator = "finished" /\ (Destroy \/ Join) /\ UNCHANGED coordinatorVars
LifeNext == AnalysisNext \/ DestroyPool

-------------------------------------------------------------------------------
(* Facts about the constants. *)

\* A step of an analysis is one of those that the proofs are about.
LEMMA AnalysisLives == [AnalysisNext]_analysisVars => [LifeNext]_analysisVars
  BY DEF LifeNext

\* A task is a builder together with Build or with an evaluator.
LEMMA TaskFacts ==
  /\ \A b \in Builders : <<b, Build>> \in Tasks
  /\ \A b \in Builders, e \in Evaluators : <<b, e>> \in Tasks
  /\ \A t \in Tasks : t[1] \in Builders /\ t[2] \in Evaluators \cup {Build}
                      /\ t = <<t[1], t[2]>>
  BY AnalysisAssumption

\* The list of evaluators is a list of evaluators.
LEMMA EvaluatorFacts ==
  /\ EvaluatorList \in Seq(Evaluators)
  /\ Len(EvaluatorList) \in Nat \ {0}
  /\ DOMAIN EvaluatorList = 1 .. Len(EvaluatorList)
  /\ \A i \in DOMAIN EvaluatorList : EvaluatorList[i] \in Evaluators
<1> DEFINE S == RangeOf(aSignatureList) \cup {BlockPermutation}
<1>1. aSignatureList \in Seq(S)
  BY SeqMonotonic, AnalysisAssumption
<1>2. EvaluatorList \in Seq(S) /\ Len(EvaluatorList) = Len(aSignatureList) + 1
  BY <1>1, AppendProperties DEF EvaluatorList
<1>3. Len(aSignatureList) \in Nat
  BY <1>1, LenProperties
<1>4. DOMAIN EvaluatorList = 1 .. Len(EvaluatorList)
  BY <1>2, LenProperties
<1>5. \A i \in DOMAIN EvaluatorList : EvaluatorList[i] \in Evaluators
  BY DEF Evaluators, RangeOf
<1>6. EvaluatorList \in Seq(Evaluators)
  <2>1. EvaluatorList \in [1 .. Len(EvaluatorList) -> S]
    BY <1>2, LenProperties
  <2>2. EvaluatorList \in [1 .. Len(EvaluatorList) -> Evaluators]
    BY <1>4, <1>5, <2>1
  <2>3. QED
    BY <1>2, <1>3, <2>2
<1>7. QED
  BY <1>2, <1>3, <1>4, <1>5, <1>6

\* A result in the list came from a task, so it names a builder.
LEMMA ReceivedFacts ==
  ASSUME Typed, aResults # <<>>
  PROVE  Received \in Builders /\ Head(aResults).task \in Tasks
<1>1. Head(aResults) \in Results
  BY HeadTailProperties DEF Typed
<1>2. Head(aResults).task \in Tasks
  BY <1>1 DEF Results
<1>3. QED
  BY <1>2, TaskFacts DEF Received

-------------------------------------------------------------------------------
(* The analysis is a client of the pool. *)

\* Every step of the coordinator and of a task is a step of the pool, of a kind that
\* the pool's client or an executing task may take, or does not touch the pool.
LEMMA AnalysisStepsPool ==
  CoordinatorInv /\ [LifeNext]_analysisVars => [PoolNext]_poolVars
<1> SUFFICES ASSUME CoordinatorInv, [LifeNext]_analysisVars
             PROVE  [PoolNext]_poolVars
  OBVIOUS
<1>1. ASSUME NEW accepted, NEW otherwise, coordinator \notin {"wait", "finished"},
             ScheduleNextFunction(accepted, otherwise)
      PROVE  [PoolNext]_poolVars
  <2>1. CASE aFunctionList = <<>>
    BY <1>1, <2>1 DEF ScheduleNextFunction
  <2>2. CASE aFunctionList # <<>>
    <3>1. Head(aFunctionList) \in Functions
      BY <2>2, HeadTailProperties DEF CoordinatorInv, AnalysisTypeOK
    <3>2. <<Head(aFunctionList), Build>> \in Tasks
      BY <3>1, TaskFacts DEF Builders
    <3>3. caller = "running"
      BY <1>1 DEF CoordinatorInv
    <3>4. ScheduleIfResourceAvailable(<<Head(aFunctionList), Build>>)
      BY <1>1, <2>2 DEF ScheduleNextFunction
    <3>5. QED
      BY <3>2, <3>3, <3>4 DEF PoolNext, ClientStep
  <2>3. QED
    BY <2>1, <2>2
<1>2. CASE ScheduleEvaluator
  <2>1. coordinator = "evaluators" /\ Schedule(<<oCodeGraph, EvaluatorList[dwEvaluator]>>)
    BY <1>2 DEF ScheduleEvaluator
  <2>2. oCodeGraph \in Builders /\ EvaluatorList[dwEvaluator] \in Evaluators
    BY <2>1, EvaluatorFacts DEF CoordinatorInv, AnalysisTypeOK
  <2>3. <<oCodeGraph, EvaluatorList[dwEvaluator]>> \in Tasks /\ caller = "running"
    BY <2>1, <2>2, TaskFacts DEF CoordinatorInv
  <2>4. QED
    BY <2>1, <2>3 DEF PoolNext, ClientStep
<1>3. CASE ReceiveError \/ ReceiveGraph \/ ReceiveEvaluation
  BY <1>3 DEF ReceiveError, ReceiveGraph, ReceiveEvaluation, Receive, PoolNext, ClientStep
<1>4. CASE Wait \/ Finish
  BY <1>4 DEF Wait, Finish, PoolNext, ClientStep
<1>5. ASSUME NEW w \in Workers, Work(w) PROVE [PoolNext]_poolVars
  BY <1>5 DEF Work, PoolNext, WorkerStep
<1>6. ASSUME NEW w \in Workers, ForkBuild(w) PROVE [PoolNext]_poolVars
  <2>1. PICK k \in Forks : Schedule(<<k, Build>>)
    BY <1>6 DEF ForkBuild
  <2>2. <<k, Build>> \in Tasks
    BY TaskFacts DEF Builders
  <2>3. QED
    BY <1>6, <2>1, <2>2 DEF ForkBuild, IsBuilding, PoolNext, TaskSchedules
<1>7. ASSUME NEW w \in Workers, EndBuild(w) \/ EndEvaluation(w)
      PROVE  [PoolNext]_poolVars
  BY <1>7, AnalysisAssumption DEF EndBuild, EndEvaluation, PoolNext, WorkerStep
<1>8. CASE Wakeup
  BY <1>8 DEF Wakeup, PoolNext
<1>9. CASE UNCHANGED analysisVars
  BY <1>9 DEF analysisVars
<1>10. ASSUME ScheduleInitially \/ ScheduleAfterResult PROVE [PoolNext]_poolVars
  BY <1>1, <1>10 DEF ScheduleInitially, ScheduleAfterResult
<1>11. CASE DestroyPool
  BY <1>11 DEF DestroyPool, PoolNext, ClientStep
<1>12. QED
  BY <1>2, <1>3, <1>4, <1>5, <1>6, <1>7, <1>8, <1>9, <1>10, <1>11
     DEF LifeNext, AnalysisNext, CoordinatorStep

-------------------------------------------------------------------------------
(* The coordinator's types. *)

\* Initially every variable has its type.
LEMMA CoordinatorInvInit == AnalysisInit => CoordinatorInv
<1> SUFFICES ASSUME AnalysisInit PROVE CoordinatorInv
  OBVIOUS
<1>1. PoolInit /\ coordinator = "initial" /\ aFunctionList = aSelection
      /\ oCodeGraph = NoGraph /\ dwEvaluator = 1 /\ aResultTracker = {}
      /\ oAnalysisResult = [b \in Builders |-> [e \in Evaluators |-> "absent"]]
      /\ aSignals = <<>>
  BY DEF AnalysisInit
<1>2. aFunctionList \in Seq(Functions) /\ aSignals \in Seq(Signals)
  BY <1>1, AnalysisAssumption
<1>3. dwEvaluator \in DOMAIN EvaluatorList
  BY <1>1, EvaluatorFacts
<1>4. AnalysisTypeOK
  BY <1>1, <1>2, <1>3 DEF AnalysisTypeOK, CoordinatorStates, Entries
<1>5. QED
  BY <1>1, <1>4, TypedInit DEF CoordinatorInv, PoolInit

\* Where the client thread may be after a step of a worker: notified at most.
LEMMA NotifiedCaller ==
  ASSUME CoordinatorInv, UNCHANGED coordinatorVars, Typed',
         caller' \in {caller, NotifyYield}
  PROVE  CoordinatorInv'
<1>1. AnalysisTypeOK'
  BY DEF coordinatorVars, CoordinatorInv, AnalysisTypeOK
<1>2. QED
  BY <1>1 DEF CoordinatorInv, coordinatorVars, NotifyYield

\* ScheduleNextFunction keeps the types and returns with the client running.
LEMMA ScheduleNextFunctionTyped ==
  ASSUME CoordinatorInv, Typed', coordinator \in {"initial", "next"},
         NEW accepted \in {"initial", "wait"}, ScheduleNextFunction(accepted, "wait"),
         UNCHANGED <<oCodeGraph, dwEvaluator, oAnalysisResult, aResultTracker>>
  PROVE  CoordinatorInv'
<1>1. coordinator' \in {"initial", "wait"}
  BY DEF ScheduleNextFunction
<1>2. aFunctionList' \in Seq(Functions)
  <2>1. aFunctionList \in Seq(Functions)
    BY DEF CoordinatorInv, AnalysisTypeOK
  <2>2. aFunctionList' = aFunctionList
        \/ (aFunctionList # <<>> /\ aFunctionList' = Tail(aFunctionList))
    BY DEF ScheduleNextFunction
  <2>3. QED
    BY <2>1, <2>2, TailKeepsType
<1>3. aSignals' \in Seq(Signals)
  <2>1. aSignals \in Seq(Signals) /\ Signal("NextFunction", NoGraph) \in Signals
    BY DEF CoordinatorInv, AnalysisTypeOK, Signal, Signals
  <2>2. aSignals' = aSignals
        \/ aSignals' = Append(aSignals, Signal("NextFunction", NoGraph))
    BY DEF ScheduleNextFunction
  <2>3. Append(aSignals, Signal("NextFunction", NoGraph)) \in Seq(Signals)
    BY <2>1, AppendProperties
  <2>4. QED
    BY <2>1, <2>2, <2>3
<1>4. caller' = caller
  BY DEF ScheduleNextFunction, poolVars, ScheduleIfResourceAvailable
<1>5. oCodeGraph = NoGraph /\ caller = "running"
  BY DEF CoordinatorInv, AnalysisTypeOK
<1>6. AnalysisTypeOK'
  BY <1>1, <1>2, <1>3, <1>5 DEF CoordinatorInv, AnalysisTypeOK, CoordinatorStates
<1>7. QED
  BY <1>1, <1>4, <1>5, <1>6 DEF CoordinatorInv

\* ScheduleEvaluator keeps the types; the graph is not complete afterwards, since
\* the evaluator that was just scheduled has no result.
LEMMA ScheduleEvaluatorTyped ==
  ASSUME CoordinatorInv, Typed', ScheduleEvaluator
  PROVE  CoordinatorInv'
<1> DEFINE e == EvaluatorList[dwEvaluator]
           result == SetNull(oAnalysisResult[oCodeGraph], e)
<1>1. /\ coordinator = "evaluators" /\ caller = "running"
      /\ oCodeGraph \in Builders /\ e \in Evaluators
      /\ dwEvaluator \in 1 .. Len(EvaluatorList)
      /\ oAnalysisResult \in [Builders -> [Evaluators -> Entries]]
  BY EvaluatorFacts DEF ScheduleEvaluator, CoordinatorInv, AnalysisTypeOK
<1>2. result \in [Evaluators -> Entries] /\ result[e] = "null"
  BY <1>1 DEF SetNull, Entries
<1>3. ~AllResultsSet(result)
  BY <1>1, <1>2 DEF AllResultsSet
<1>4. oAnalysisResult' \in [Builders -> [Evaluators -> Entries]]
  BY <1>1, <1>2 DEF ScheduleEvaluator
<1>5. caller' = caller /\ aFunctionList' = aFunctionList /\ aSignals' = aSignals
  BY DEF ScheduleEvaluator, Schedule
<1>6. dwEvaluator' \in DOMAIN EvaluatorList
  BY <1>1, EvaluatorFacts DEF ScheduleEvaluator
<1>7. \/ coordinator' = "evaluators" /\ oCodeGraph' = oCodeGraph
      \/ coordinator' = "next" /\ oCodeGraph' = NoGraph
  BY <1>1, <1>3 DEF ScheduleEvaluator
<1>8. aResultTracker' \in SUBSET Builders
  BY <1>1 DEF ScheduleEvaluator, CoordinatorInv, AnalysisTypeOK
<1>9. AnalysisTypeOK'
  BY <1>1, <1>4, <1>5, <1>6, <1>7, <1>8, AnalysisAssumption
     DEF CoordinatorInv, AnalysisTypeOK, CoordinatorStates
<1>10. QED
  BY <1>1, <1>5, <1>7, <1>9 DEF CoordinatorInv

\* Receiving a result keeps the types.
LEMMA ReceiveTyped ==
  ASSUME CoordinatorInv, Typed', ReceiveError \/ ReceiveGraph \/ ReceiveEvaluation
  PROVE  CoordinatorInv'
<1>1. TakeResult /\ coordinator = "wait" /\ aResults # <<>> /\ caller' = "running"
  BY DEF ReceiveError, ReceiveGraph, ReceiveEvaluation, Receive, TakeResult
<1>2. Received \in Builders /\ Head(aResults).task \in Tasks
  BY <1>1, ReceivedFacts DEF CoordinatorInv
<1>3. CASE ReceiveError
  BY <1>1, <1>3 DEF ReceiveError, CoordinatorInv, AnalysisTypeOK, CoordinatorStates
<1>4. CASE ReceiveGraph
  <2>1. 1 \in DOMAIN EvaluatorList
    BY EvaluatorFacts
  <2>2. QED
    BY <1>1, <1>2, <1>4, <2>1, AnalysisAssumption
       DEF ReceiveGraph, CoordinatorInv, AnalysisTypeOK, CoordinatorStates
<1>5. CASE ReceiveEvaluation
  <2> DEFINE b == Received
             f == Head(aResults).task[2]
             result == [oAnalysisResult[b] EXCEPT ![f] = "set"]
  <2>1. result \in [Evaluators -> Entries]
    BY <1>2 DEF CoordinatorInv, AnalysisTypeOK, Entries
  <2>2. oAnalysisResult' \in [Builders -> [Evaluators -> Entries]]
    BY <1>2, <1>5, <2>1 DEF ReceiveEvaluation, CoordinatorInv, AnalysisTypeOK
  <2>3. aResultTracker' \in SUBSET Builders
    BY <1>5 DEF ReceiveEvaluation, CoordinatorInv, AnalysisTypeOK
  <2>4. aSignals' \in Seq(Signals)
    <3>1. aSignals \in Seq(Signals) /\ Signal("ResultReady", b) \in Signals
      BY <1>2 DEF CoordinatorInv, AnalysisTypeOK, Signal, Signals
    <3>2. aSignals' = aSignals \/ aSignals' = Append(aSignals, Signal("ResultReady", b))
      BY <1>5 DEF ReceiveEvaluation
    <3>3. Append(aSignals, Signal("ResultReady", b)) \in Seq(Signals)
      BY <3>1, AppendProperties
    <3>4. QED
      BY <3>1, <3>2, <3>3
  <2>5. QED
    BY <1>1, <1>5, <2>2, <2>3, <2>4
       DEF ReceiveEvaluation, CoordinatorInv, AnalysisTypeOK, CoordinatorStates
<1>6. QED
  BY <1>3, <1>4, <1>5

\* Every step keeps the types.
LEMMA CoordinatorInvStep ==
  CoordinatorInv /\ [LifeNext]_analysisVars => CoordinatorInv'
<1> SUFFICES ASSUME CoordinatorInv, [LifeNext]_analysisVars PROVE CoordinatorInv'
  OBVIOUS
<1>0. Typed'
  BY AnalysisStepsPool, TypedStep DEF CoordinatorInv
<1>1. CASE ScheduleInitially
  BY <1>0, <1>1, ScheduleNextFunctionTyped DEF ScheduleInitially
<1>2. CASE ScheduleAfterResult
  BY <1>0, <1>2, ScheduleNextFunctionTyped DEF ScheduleAfterResult
<1>3. CASE ScheduleEvaluator
  BY <1>0, <1>3, ScheduleEvaluatorTyped
<1>4. CASE ReceiveError \/ ReceiveGraph \/ ReceiveEvaluation
  BY <1>0, <1>4, ReceiveTyped
<1>5. CASE Wait
  <2>1. UNCHANGED coordinatorVars /\ caller' = "waitResult" /\ coordinator = "wait"
    BY <1>5 DEF Wait, BlockForResult
  <2>2. AnalysisTypeOK'
    BY <2>1 DEF coordinatorVars, CoordinatorInv, AnalysisTypeOK
  <2>3. QED
    BY <1>0, <2>1, <2>2 DEF coordinatorVars, CoordinatorInv
<1>6. CASE Finish
  <2>1. aSignals' \in Seq(Signals)
    <3>1. aSignals \in Seq(Signals) /\ Signal("CoordinatorFinished", NoGraph) \in Signals
      BY DEF CoordinatorInv, AnalysisTypeOK, Signal, Signals
    <3>2. QED
      BY <1>6, <3>1, AppendProperties DEF Finish
  <2>2. QED
    BY <1>0, <1>6, <2>1
       DEF Finish, NoMoreResults, CoordinatorInv, AnalysisTypeOK, CoordinatorStates
<1>7. ASSUME NEW w \in Workers, Work(w) \/ ForkBuild(w) \/ EndBuild(w) \/ EndEvaluation(w)
      PROVE  CoordinatorInv'
  <2>1. UNCHANGED coordinatorVars
    BY <1>7 DEF Work, ForkBuild, EndBuild, EndEvaluation
  <2>2. caller' \in {caller, NotifyYield}
    <3>1. ASSUME Work(w) PROVE caller' \in {caller, NotifyYield}
      BY <3>1 DEF Work, WorkerLoop, Sleep, TakeTask, ReachBarrier, LeaveBarrier,
         TakeExit, ReturnFromExecute, CoordinatorInv
    <3>2. ASSUME ForkBuild(w) PROVE caller' = caller
      BY <3>2 DEF ForkBuild, Schedule
    <3>3. ASSUME EndBuild(w) \/ EndEvaluation(w) PROVE caller' = NotifyYield
      BY <3>3 DEF EndBuild, EndEvaluation, YieldResult
    <3>4. QED
      BY <1>7, <3>1, <3>2, <3>3
  <2>3. QED
    BY <1>0, <2>1, <2>2, NotifiedCaller
<1>8. CASE Wakeup
  <2>1. UNCHANGED coordinatorVars /\ caller' \in {caller, NotifyYield}
    BY <1>8 DEF Wakeup, SpuriousWakeup, NotifyYield, CoordinatorInv
  <2>2. QED
    BY <1>0, <2>1, NotifiedCaller
<1>9. CASE UNCHANGED analysisVars
  <2>1. UNCHANGED coordinatorVars /\ caller' = caller
    BY <1>9 DEF analysisVars, poolVars
  <2>2. QED
    BY <1>0, <2>1, NotifiedCaller
<1>10. CASE DestroyPool
  <2>1. UNCHANGED coordinatorVars /\ coordinator = "finished"
        /\ caller' \in {"joining", "gone"}
    BY <1>10 DEF DestroyPool, Destroy, Join
  <2>2. AnalysisTypeOK'
    BY <2>1 DEF coordinatorVars, CoordinatorInv, AnalysisTypeOK
  <2>3. QED
    BY <1>0, <2>1, <2>2 DEF coordinatorVars, CoordinatorInv
<1>11. QED
  BY <1>1, <1>2, <1>3, <1>4, <1>5, <1>6, <1>7, <1>8, <1>9, <1>10
     DEF LifeNext, AnalysisNext, CoordinatorStep

\* The coordinator's variables keep their types, and a graph is being set up exactly
\* while its evaluators are being scheduled.
THEOREM AnalysisTypeCorrect == AnalysisSpec => []AnalysisTypeOK
<1>1. CoordinatorInv => AnalysisTypeOK
  BY DEF CoordinatorInv
<1>2. QED
  BY <1>1, CoordinatorInvInit, CoordinatorInvStep, AnalysisLives, PTL DEF AnalysisSpec

\* The coordinator never jumps to _all_results_set without an evaluation result,
\* however fast the workers evaluate.
THEOREM NoJumpWithoutResultCorrect == AnalysisSpec => []NoJumpWithoutResult
<1>1. CoordinatorInv => NoJumpWithoutResult
  BY DEF CoordinatorInv, NoJumpWithoutResult
<1>2. QED
  BY <1>1, CoordinatorInvInit, CoordinatorInvStep, AnalysisLives, PTL DEF AnalysisSpec

\* The coordinator, the builds and the evaluators use the pool as its specification
\* allows, so everything that is proved of the pool holds during an analysis.
THEOREM UsesPoolCorrectlyProved == AnalysisSpec => UsesPoolCorrectly
<1>1. AnalysisInit => PoolInit
  BY DEF AnalysisInit
<1>2. QED
  BY <1>1, CoordinatorInvInit, CoordinatorInvStep, AnalysisStepsPool, AnalysisLives, PTL
     DEF AnalysisSpec, UsesPoolCorrectly, PoolSpec

-------------------------------------------------------------------------------
(* The results of an analysis: what the coordinator's tracker says is      *)
(* outstanding, what it reports and when it says that it is finished.      *)

\* All that is known of the pool while the coordinator uses it
SoundPool == CoordinatorInv /\ StrandedInv /\ OnceInv

\* Initially the pool is sound.
LEMMA SoundPoolInit == AnalysisInit => SoundPool
  BY CoordinatorInvInit, StrandedInit, OnceInit DEF AnalysisInit, SoundPool

\* Every step keeps the pool sound.
LEMMA SoundPoolStep == SoundPool /\ [LifeNext]_analysisVars => SoundPool'
<1> SUFFICES ASSUME SoundPool, [LifeNext]_analysisVars PROVE SoundPool'
  OBVIOUS
<1>1. [PoolNext]_poolVars
  BY AnalysisStepsPool DEF SoundPool
<1>2. QED
  BY <1>1, CoordinatorInvStep, ActiveInvStep, StrandedStep, OnceStep
     DEF SoundPool, StrandedInv

-------------------------------------------------------------------------------
(* The life of a task: it is submitted, it yields, its result is taken. *)

Submits(t) ==
  /\ t \in Tasks /\ submission[t] = "none"
  /\ \E how \in {"notified", "silent"} : submission' = [submission EXCEPT ![t] = how]
  /\ aResults' = aResults
  /\ \A u \in Tasks : Unfinished(u)' <=> Unfinished(u) \/ u = t

Yields(t, dwType) ==
  /\ t \in Tasks /\ Unfinished(t)
  /\ aResults' = Append(aResults, [task |-> t, dwType |-> dwType])
  /\ submission' = submission
  /\ \A u \in Tasks : Unfinished(u)' <=> Unfinished(u) /\ u # t

Delivers(t) ==
  /\ t \in Tasks /\ aResults # <<>> /\ t = Head(aResults).task
  /\ aResults' = Tail(aResults)
  /\ submission' = submission
  /\ \A u \in Tasks : Unfinished(u)' <=> Unfinished(u)

Quiet ==
  /\ aResults' = aResults /\ submission' = submission
  /\ \A u \in Tasks : Unfinished(u)' <=> Unfinished(u)

\* Where an element of a list that is not the first is after pop_front.
LEMMA TailKeepsRest ==
  ASSUME NEW S, NEW s \in Seq(S), s # <<>>, NEW i \in DOMAIN s, i # 1
  PROVE  i \in Int /\ i - 1 \in DOMAIN Tail(s) /\ Tail(s)[i - 1] = s[i]
<1>1. DOMAIN s = 1 .. Len(s) /\ Len(s) \in Nat
  BY LenProperties
<1>2. DOMAIN Tail(s) = 1 .. Len(s) - 1 /\ i - 1 \in 1 .. Len(s) - 1
  BY <1>1, HeadTailProperties, LenProperties
<1>3. QED
  BY <1>1, <1>2, HeadTailProperties

\* The results in the list came from tasks, and the types of the list.
LEMMA ResultFacts ==
  ASSUME OnceInv
  PROVE  /\ aResults \in Seq(Results)
         /\ aTasks \in Seq(Tasks \cup {SYNCHRONIZE, EXIT})
         /\ submission \in [Tasks -> Submissions]
         /\ \A i \in DOMAIN aResults : /\ aResults[i] \in Results
                                       /\ aResults[i].task \in Tasks
<1>1. aResults \in Seq(Results)
  BY DEF OnceInv, Typed
<1>2. \A i \in DOMAIN aResults : aResults[i] \in Results
  BY <1>1, ElementOfSeq, LenProperties
<1>3. QED
  BY <1>1, <1>2 DEF Results, OnceInv, Typed

\* A task that was never submitted is neither unfinished nor yielded, and one that
\* yielded is finished.
LEMMA LifeOrder ==
  ASSUME OnceInv, NEW t \in Tasks
  PROVE  /\ submission[t] = "none" => ~Unfinished(t) /\ ~Yielded(t)
         /\ ~(Unfinished(t) /\ Yielded(t))
<1>1. submission[t] = "none" => ~InList(t) /\ ~Held(t) /\ ~HasResult(t)
  BY DEF OnceInv, FreshTasks
<1>2. submission[t] = "none" => ~Unfinished(t) /\ ~Yielded(t)
  BY <1>1 DEF Unfinished, Yielded, Held, HasResult
<1>3. ASSUME NEW i \in DOMAIN aResults, aResults[i].task = t PROVE ~Unfinished(t)
  <2>1. ~InList(t) /\ \A w \in Workers : stTask[w] = t => worker[w] = "returning"
    BY <1>3 DEF OnceInv, OneExecutionPerTask
  <2>2. QED
    BY <2>1 DEF Unfinished
<1>4. QED
  BY <1>2, <1>3 DEF Yielded

\* Submitting a task makes it unfinished; no result moves.
LEMMA SubmitsLife ==
  ASSUME OnceInv, NEW t, Submits(t)
  PROVE  /\ t \in Tasks /\ ~Unfinished(t) /\ ~Yielded(t) /\ Unfinished(t)' /\ submission'[t] # "none"
         /\ \A u \in Tasks : /\ Yielded(u)' <=> Yielded(u)
                             /\ u # t => /\ Unfinished(u)' <=> Unfinished(u)
                                         /\ submission'[u] = submission[u]
<1>1. ~Unfinished(t) /\ ~Yielded(t)
  BY LifeOrder DEF Submits
<1>2. \A u \in Tasks : Yielded(u)' <=> Yielded(u)
  BY DEF Submits, Yielded
<1>3. QED
  BY <1>1, <1>2, ResultFacts DEF Submits

\* A yield finishes the task and puts its result into the list.
LEMMA YieldsLife ==
  ASSUME OnceInv, NEW t, NEW dwType \in ResultTypes, Yields(t, dwType)
  PROVE  /\ ~Unfinished(t)' /\ Yielded(t)'
         /\ \A u \in Tasks : u # t => /\ Unfinished(u)' <=> Unfinished(u)
                                      /\ Yielded(u)' <=> Yielded(u)
         /\ \A i \in DOMAIN aResults' :
              \/ i \in DOMAIN aResults /\ aResults'[i] = aResults[i]
              \/ aResults'[i] = [task |-> t, dwType |-> dwType]
         /\ \A i \in DOMAIN aResults : i \in DOMAIN aResults' /\ aResults'[i] = aResults[i]
         /\ \E i \in DOMAIN aResults' : aResults'[i] = [task |-> t, dwType |-> dwType]
<1> DEFINE r == [task |-> t, dwType |-> dwType]
<1>1. r \in Results /\ r.task = t /\ aResults \in Seq(Results)
  BY ResultFacts DEF Yields, Results
<1>2. aResults' = Append(aResults, r)
  BY DEF Yields
<1>3. /\ DOMAIN aResults' = DOMAIN aResults \cup {Len(aResults) + 1}
      /\ \A i \in DOMAIN aResults : aResults'[i] = aResults[i]
      /\ aResults'[Len(aResults) + 1] = r
  BY <1>1, <1>2, AppendPositions
<1> HIDE DEF r
<1>4. \A u : Yielded(u)' <=> Yielded(u) \/ u = t
  BY <1>1, <1>3 DEF Yielded
<1>5. \A i \in DOMAIN aResults' :
         (i \in DOMAIN aResults /\ aResults'[i] = aResults[i]) \/ aResults'[i] = r
  BY <1>3
<1>6. QED
  BY <1>3, <1>4, <1>5 DEF Yields, r

\* The result that is taken is gone; its task was finished.
LEMMA DeliversLife ==
  ASSUME OnceInv, NEW t, Delivers(t)
  PROVE  /\ ~Unfinished(t) /\ ~Unfinished(t)' /\ Yielded(t) /\ ~Yielded(t)'
         /\ submission[t] # "none"
         /\ \A u \in Tasks : u # t => /\ Unfinished(u)' <=> Unfinished(u)
                                      /\ Yielded(u)' <=> Yielded(u)
         /\ \A i \in DOMAIN aResults' : \E j \in DOMAIN aResults : aResults'[i] = aResults[j]
         /\ \A j \in DOMAIN aResults : aResults[j].task # t =>
              \E i \in DOMAIN aResults' : aResults'[i] = aResults[j]
<1>1. aResults \in Seq(Results) /\ aResults # <<>> /\ aResults' = Tail(aResults)
  BY ResultFacts DEF Delivers
<1>2. 1 \in DOMAIN aResults /\ aResults[1].task = t
  BY <1>1, TailPositions DEF Delivers
<1>3. \A i \in DOMAIN aResults' : /\ i + 1 \in DOMAIN aResults /\ i + 1 # 1
                                  /\ aResults'[i] = aResults[i + 1]
  BY <1>1, TailPositions
<1>4. \A i \in DOMAIN aResults : i # 1 =>
        i - 1 \in DOMAIN aResults' /\ aResults'[i - 1] = aResults[i]
  BY <1>1, TailKeepsRest
<1>5. Yielded(t) /\ t \in Tasks
  BY <1>2 DEF Yielded, Delivers
<1>6. \A i \in DOMAIN aResults : aResults[i].task = t => i = 1
  BY <1>2 DEF OnceInv, OneExecutionPerTask
<1>7. ~Yielded(t)'
  <2> SUFFICES ASSUME NEW i \in DOMAIN aResults', aResults'[i].task = t PROVE FALSE
    BY DEF Yielded
  <2>1. QED
    BY <1>3, <1>6
<1>8. \A u : u # t => (Yielded(u)' <=> Yielded(u))
  <2> SUFFICES ASSUME NEW u, u # t PROVE Yielded(u)' <=> Yielded(u)
    OBVIOUS
  <2>1. ASSUME NEW i \in DOMAIN aResults', aResults'[i].task = u PROVE Yielded(u)
    BY <1>3, <2>1 DEF Yielded
  <2>2. ASSUME NEW i \in DOMAIN aResults, aResults[i].task = u PROVE Yielded(u)'
    BY <1>2, <1>4, <2>2 DEF Yielded
  <2>3. QED
    BY <2>1, <2>2 DEF Yielded
<1>9. submission[t] # "none" /\ ~Unfinished(t)
  BY <1>5, LifeOrder
<1>10. \A i \in DOMAIN aResults' : \E j \in DOMAIN aResults : aResults'[i] = aResults[j]
  BY <1>3
<1>11. \A j \in DOMAIN aResults : aResults[j].task # t =>
         \E i \in DOMAIN aResults' : aResults'[i] = aResults[j]
  BY <1>2, <1>4
<1>12. QED
  BY <1>5, <1>7, <1>8, <1>9, <1>10, <1>11 DEF Delivers

-------------------------------------------------------------------------------
(* What the operations of the pool do to the life of the tasks. *)

\* A step that moves no task and changes nothing of a worker that executes is quiet.
LEMMA QuietUnmoved ==
  ASSUME aResults' = aResults, submission' = submission, stTask' = stTask,
         \A u \in Tasks : InList(u)' <=> InList(u),
         \A w \in Workers : worker'[w] = "execute" <=> worker[w] = "execute"
  PROVE  Quiet
  BY DEF Quiet, Unfinished

\* Schedule submits its task.
LEMMA ScheduleSubmits ==
  ASSUME OnceInv, NEW t \in Tasks, Schedule(t)
  PROVE  Submits(t)
<1>1. \A u : InList(u)' <=> InList(u) \/ u = t
  BY ResultFacts, AppendPositions DEF Schedule, InList
<1>2. worker \in [Workers -> WorkerStates]
  BY DEF OnceInv, Typed
<1>3. \A w \in Workers : worker'[w] = "execute" <=> worker[w] = "execute"
  BY <1>2 DEF Schedule, NotifyOne, Started, IsWaiting
<1>4. \A u \in Tasks : Unfinished(u)' <=> Unfinished(u) \/ u = t
  BY <1>1, <1>3 DEF Unfinished, Schedule
<1>5. QED
  BY <1>4 DEF Schedule, Submits

\* ScheduleIfResourceAvailable submits its task, or does nothing that matters here.
LEMMA ScheduleIfSubmits ==
  ASSUME OnceInv, NEW t \in Tasks, ScheduleIfResourceAvailable(t)
  PROVE  IF ResourceAvailable
         THEN Submits(t) /\ submission' = [submission EXCEPT ![t] = "silent"]
         ELSE Quiet /\ aTasks' = aTasks
<1>1. worker \in [Workers -> WorkerStates]
  BY DEF OnceInv, Typed
<1>2. \A w \in Workers : worker'[w] = "execute" <=> worker[w] = "execute"
  BY <1>1 DEF ScheduleIfResourceAvailable, Started
<1>3. stTask' = stTask /\ aResults' = aResults /\ submission[t] = "none"
  BY DEF ScheduleIfResourceAvailable
<1>4. CASE ResourceAvailable
  <2>1. aTasks' = Append(aTasks, t) /\ submission' = [submission EXCEPT ![t] = "silent"]
    BY <1>4 DEF ScheduleIfResourceAvailable
  <2>2. \A u : InList(u)' <=> InList(u) \/ u = t
    BY <2>1, ResultFacts, AppendPositions DEF InList
  <2>3. \A u \in Tasks : Unfinished(u)' <=> Unfinished(u) \/ u = t
    BY <1>2, <1>3, <2>2 DEF Unfinished
  <2>4. QED
    BY <1>3, <1>4, <2>1, <2>3 DEF Submits
<1>5. CASE ~ResourceAvailable
  <2>1. aTasks' = aTasks /\ submission' = submission
    BY <1>5 DEF ScheduleIfResourceAvailable
  <2>2. \A u \in Tasks : InList(u)' <=> InList(u)
    BY <2>1 DEF InList
  <2>3. QED
    BY <1>2, <1>3, <1>5, <2>1, <2>2, QuietUnmoved
<1>6. QED
  BY <1>4, <1>5

\* YieldResult finishes the task of the worker.
LEMMA YieldResultYields ==
  ASSUME OnceInv, NEW w \in Workers, NEW dwType, YieldResult(w, dwType)
  PROVE  Yields(stTask[w], dwType)
<1> DEFINE t == stTask[w]
<1>1. /\ worker[w] = "execute" /\ worker' = [worker EXCEPT ![w] = "returning"]
      /\ stTask' = stTask /\ aTasks' = aTasks /\ submission' = submission
      /\ worker \in [Workers -> WorkerStates]
  BY DEF YieldResult, OnceInv, Typed
<1>2. t \in Tasks /\ HoldsTask(w) /\ ~InList(t)
  BY <1>1 DEF OnceInv, Typed, HoldsTask, OneExecutionPerTask
<1>3. \A v \in Workers : stTask[v] = t => v = w
  BY <1>2 DEF OnceInv, OneExecutionPerTask
<1>4. \A v \in Workers : v # w => worker'[v] = worker[v]
  BY <1>1
<1>5. worker'[w] # "execute"
  BY <1>1
<1>6. \A u \in Tasks : Unfinished(u)' <=> Unfinished(u) /\ u # t
  <2> SUFFICES ASSUME NEW u \in Tasks PROVE Unfinished(u)' <=> Unfinished(u) /\ u # t
    OBVIOUS
  <2>1. InList(u)' <=> InList(u)
    BY <1>1 DEF InList
  <2>2. CASE u = t
    BY <1>1, <1>2, <1>3, <1>5, <2>1, <2>2 DEF Unfinished
  <2>3. CASE u # t
    BY <1>1, <1>4, <1>5, <2>1, <2>3 DEF Unfinished
  <2>4. QED
    BY <2>2, <2>3
<1>7. Unfinished(t)
  BY <1>1 DEF Unfinished
<1>8. QED
  BY <1>1, <1>2, <1>6, <1>7 DEF Yields, YieldResult

\* TakeResult delivers the oldest result.
LEMMA TakeResultDelivers ==
  ASSUME OnceInv, TakeResult
  PROVE  Delivers(Head(aResults).task)
<1>1. aResults # <<>> /\ aResults' = Tail(aResults) /\ submission' = submission
      /\ aTasks' = aTasks /\ worker' = worker /\ stTask' = stTask
  BY DEF TakeResult
<1>2. 1 \in DOMAIN aResults /\ aResults[1] = Head(aResults)
  BY <1>1, ResultFacts, TailPositions
<1>3. Head(aResults).task \in Tasks
  BY <1>2, ResultFacts
<1>4. \A u \in Tasks : Unfinished(u)' <=> Unfinished(u)
  BY <1>1 DEF Unfinished, InList
<1>5. QED
  BY <1>1, <1>3, <1>4 DEF Delivers

\* Taking the first task off the list leaves the others in it.
LEMMA TailInList ==
  ASSUME OnceInv, aTasks # <<>>, aTasks' = Tail(aTasks), NEW u, u # Head(aTasks)
  PROVE  InList(u)' <=> InList(u)
<1>1. aTasks \in Seq(Tasks \cup {SYNCHRONIZE, EXIT})
  BY ResultFacts
<1>2. 1 \in DOMAIN aTasks /\ aTasks[1] # u
  BY <1>1, TailPositions
<1>3. ASSUME NEW i \in DOMAIN aTasks', aTasks'[i] = u PROVE InList(u)
  <2>1. i + 1 \in DOMAIN aTasks /\ aTasks[i + 1] = u
    BY <1>1, <1>3, TailPositions
  <2>2. QED
    BY <2>1 DEF InList
<1>4. ASSUME NEW i \in DOMAIN aTasks, aTasks[i] = u PROVE InList(u)'
  <2>1. i # 1
    BY <1>2, <1>4
  <2>2. i - 1 \in DOMAIN aTasks' /\ aTasks'[i - 1] = u
    BY <1>1, <1>4, <2>1, TailKeepsRest
  <2>3. QED
    BY <2>2 DEF InList
<1>5. QED
  BY <1>3, <1>4 DEF InList

\* Whatever the loop of a worker does, a task stays unfinished until it yields: the
\* task that is taken from the list is executed.
LEMMA WorkerLoopQuiet ==
  ASSUME OnceInv, NEW w \in Workers, WorkerLoop(w)
  PROVE  Quiet
<1>0. aResults' = aResults /\ submission' = submission /\ worker \in [Workers -> WorkerStates]
      /\ stTask \in [Workers -> Tasks \cup {NoTask}]
  BY DEF OnceInv, Typed, WorkerLoop, Sleep, TakeTask, ReachBarrier, LeaveBarrier, TakeExit,
     ReturnFromExecute
<1>1. CASE Sleep(w) \/ LeaveBarrier(w) \/ TakeExit(w)
  <2>1. aTasks' = aTasks /\ stTask' = stTask
    BY <1>1 DEF Sleep, LeaveBarrier, TakeExit
  <2>2. \A v \in Workers : worker'[v] = "execute" <=> worker[v] = "execute"
    BY <1>0, <1>1 DEF Sleep, LeaveBarrier, TakeExit, AtLoop
  <2>3. \A u \in Tasks : InList(u)' <=> InList(u)
    BY <2>1 DEF InList
  <2>4. QED
    BY <1>0, <2>1, <2>2, <2>3, QuietUnmoved
<1>2. CASE ReturnFromExecute(w)
  <2>1. /\ worker[w] = "returning" /\ worker' = [worker EXCEPT ![w] = "loop"]
        /\ stTask' = [stTask EXCEPT ![w] = NoTask] /\ aTasks' = aTasks
    BY <1>2 DEF ReturnFromExecute
  <2>2. \A v \in Workers, u \in Tasks :
          worker'[v] = "execute" /\ stTask'[v] = u <=> worker[v] = "execute" /\ stTask[v] = u
    BY <1>0, <2>1
  <2>3. QED
    BY <1>0, <2>1, <2>2 DEF Quiet, Unfinished, InList
<1>3. CASE ReachBarrier(w)
  <2>1. /\ AtLoop(w) /\ aTasks # <<>> /\ Head(aTasks) \notin Tasks /\ stTask' = stTask
        /\ aTasks' = aTasks \/ aTasks' = Tail(aTasks)
    BY <1>3, PoolAssumption DEF ReachBarrier
  <2>2. \A v \in Workers : worker'[v] = "execute" <=> worker[v] = "execute"
    BY <1>0, <1>3 DEF ReachBarrier, AtLoop, NotifyBarrier
  <2>3. ASSUME NEW u \in Tasks PROVE InList(u)' <=> InList(u)
    <3>1. CASE aTasks' = aTasks
      BY <3>1 DEF InList
    <3>2. CASE aTasks' = Tail(aTasks)
      BY <2>1, <3>2, TailInList
    <3>3. QED
      BY <2>1, <3>1, <3>2
  <2>4. QED
    BY <1>0, <2>1, <2>2, <2>3, QuietUnmoved
<1>4. CASE TakeTask(w)
  <2> DEFINE h == Head(aTasks)
  <2>1. /\ AtLoop(w) /\ aTasks # <<>> /\ h \in Tasks /\ aTasks' = Tail(aTasks)
        /\ stTask' = [stTask EXCEPT ![w] = h]
        /\ worker' = [worker EXCEPT ![w] = "execute"]
    BY <1>4 DEF TakeTask
  <2>2. aTasks \in Seq(Tasks \cup {SYNCHRONIZE, EXIT})
    BY ResultFacts
  <2>3. 1 \in DOMAIN aTasks /\ aTasks[1] = h
    BY <2>1, <2>2, TailPositions
  <2>4. \A v \in Workers : v # w => worker'[v] = worker[v] /\ stTask'[v] = stTask[v]
    BY <1>0, <2>1
  <2>5. worker'[w] = "execute" /\ stTask'[w] = h /\ worker[w] # "execute"
    BY <1>0, <2>1 DEF AtLoop
  <2>6. ASSUME NEW u \in Tasks PROVE Unfinished(u)' <=> Unfinished(u)
    <3>1. CASE u = h
      BY <2>3, <2>5, <3>1 DEF Unfinished, InList
    <3>2. CASE u # h
      <4>1. InList(u)' <=> InList(u)
        BY <2>1, <3>2, TailInList
      <4>2. QED
        BY <2>4, <2>5, <3>2, <4>1 DEF Unfinished
    <3>3. QED
      BY <3>1, <3>2
  <2>7. QED
    BY <1>0, <2>6 DEF Quiet
<1>5. QED
  BY <1>1, <1>2, <1>3, <1>4 DEF WorkerLoop

\* Nor do a spurious wakeup and the destructor change the life of a task.
LEMMA OthersQuiet ==
  ASSUME OnceInv, SpuriousWakeup \/ NoMoreResults \/ BlockForResult \/ Destroy \/ Join
  PROVE  Quiet
<1>0. worker \in [Workers -> WorkerStates]
  BY DEF OnceInv, Typed
<1>1. aResults' = aResults /\ submission' = submission /\ stTask' = stTask
  BY DEF SpuriousWakeup, NoMoreResults, BlockForResult, Destroy, Join
<1>2. \A w \in Workers : worker'[w] = "execute" <=> worker[w] = "execute"
  <2>1. CASE SpuriousWakeup
    BY <1>0, <2>1 DEF SpuriousWakeup
  <2>2. CASE NoMoreResults \/ BlockForResult \/ Destroy \/ Join
    BY <1>0, <2>2 DEF NoMoreResults, BlockForResult, Destroy, Join, NotifyAll, IsWaiting
  <2>3. QED
    BY <2>1, <2>2
<1>3. \A u \in Tasks : InList(u)' <=> InList(u)
  <2>1. CASE Destroy
    <3>1. aTasks' = Append(aTasks, EXIT) /\ EXIT \notin Tasks
      BY <2>1, PoolAssumption DEF Destroy
    <3>2. aTasks \in Seq(Tasks \cup {SYNCHRONIZE, EXIT})
      BY ResultFacts
    <3>3. QED
      BY <3>1, <3>2, AppendPositions DEF InList
  <2>2. CASE SpuriousWakeup \/ NoMoreResults \/ BlockForResult \/ Join
    BY <2>2 DEF SpuriousWakeup, NoMoreResults, BlockForResult, Join, InList
  <2>3. QED
    BY <2>1, <2>2
<1>4. QED
  BY <1>1, <1>2, <1>3, QuietUnmoved

-------------------------------------------------------------------------------
(* The stages of a graph: nothing is known of it, its evaluators are being         *)
(* scheduled, it waits in the tracker, or it was reported.                         *)

EntriesMatch ==
  \A b \in Builders, e \in Evaluators :
    /\ oAnalysisResult[b][e] = "absent" <=> submission[<<b, e>>] = "none"
    /\ oAnalysisResult[b][e] = "null" <=> (Unfinished(<<b, e>>) \/ Yielded(<<b, e>>))

Untouched(b) ==
  /\ b \notin aResultTracker /\ b # oCodeGraph /\ Reports(b) = {}
  /\ \A e \in Evaluators : oAnalysisResult[b][e] = "absent"

Opening(b) ==
  /\ b \notin aResultTracker /\ b = oCodeGraph /\ Reports(b) = {}
  /\ \A i \in DOMAIN EvaluatorList :
       oAnalysisResult[b][EvaluatorList[i]] = "absent" <=> i >= dwEvaluator

Tracked(b) ==
  /\ b \in aResultTracker /\ b # oCodeGraph /\ Reports(b) = {}
  /\ \A e \in Evaluators : oAnalysisResult[b][e] # "absent"
  /\ \E e \in Evaluators : oAnalysisResult[b][e] = "null"

Completed(b) ==
  /\ b \notin aResultTracker /\ b # oCodeGraph
  /\ Reports(b) # {} /\ \A i, j \in Reports(b) : i = j
  /\ \A e \in Evaluators : oAnalysisResult[b][e] = "set"

InStage(b) == Untouched(b) \/ Opening(b) \/ Tracked(b) \/ Completed(b)

\* The coordinator did not receive what the build of b yields.
EarlyBuild(b) ==
  submission[<<b, Build>>] = "none" \/ Unfinished(<<b, Build>>) \/ Yielded(<<b, Build>>)

ResultKinds ==
  \A i \in DOMAIN aResults :
    aResults[i].dwType = "EVALUATION_RESULT" <=> aResults[i].task[2] \in Evaluators

TrackerInv ==
  /\ EntriesMatch
  /\ \A b \in Builders : InStage(b) /\ (EarlyBuild(b) => Untouched(b))
  /\ ResultKinds

SameGraph(b) ==
  /\ oAnalysisResult'[b] = oAnalysisResult[b]
  /\ b \in aResultTracker' <=> b \in aResultTracker
  /\ b = oCodeGraph' <=> b = oCodeGraph
  /\ b = oCodeGraph => dwEvaluator' = dwEvaluator
  /\ Reports(b)' = Reports(b)

\* A step that does not touch what the coordinator knows of a graph leaves it in its
\* stage.
LEMMA SameGraphStage ==
  ASSUME NEW b \in Builders, SameGraph(b)
  PROVE  (Untouched(b)' <=> Untouched(b)) /\ (InStage(b)' <=> InStage(b))
<1>1. Untouched(b)' <=> Untouched(b)
  BY DEF SameGraph, Untouched
<1>2. Opening(b)' <=> Opening(b)
  BY DEF SameGraph, Opening
<1>3. Tracked(b)' <=> Tracked(b)
  BY DEF SameGraph, Tracked
<1>4. Completed(b)' <=> Completed(b)
  BY DEF SameGraph, Completed
<1>5. QED
  BY <1>1, <1>2, <1>3, <1>4 DEF InStage

\* There is an evaluator, so a graph with results is not untouched.
LEMMA SomeEvaluator ==
  /\ BlockPermutation \in Evaluators
  /\ \A b \in Builders : Untouched(b) => ~Opening(b) /\ ~Tracked(b) /\ ~Completed(b)
<1>1. Len(EvaluatorList) \in DOMAIN EvaluatorList
      /\ EvaluatorList[Len(EvaluatorList)] = BlockPermutation
  BY EvaluatorFacts, AnalysisAssumption, AppendProperties DEF EvaluatorList
<1>2. BlockPermutation \in Evaluators
  BY <1>1 DEF Evaluators, RangeOf
<1>3. QED
  BY <1>2 DEF Untouched, Opening, Tracked, Completed

\* A signal adds one report, of the graph that it names and only when it reports.
LEMMA ReportsAppend ==
  ASSUME NEW s \in Signals, aSignals \in Seq(Signals), aSignals' = Append(aSignals, s), NEW b
  PROVE  /\ s # Signal("ResultReady", b) => Reports(b)' = Reports(b)
         /\ s = Signal("ResultReady", b) => Reports(b)' = Reports(b) \cup {Len(aSignals) + 1}
<1>1. /\ DOMAIN aSignals' = DOMAIN aSignals \cup {Len(aSignals) + 1}
      /\ Len(aSignals) + 1 \notin DOMAIN aSignals
      /\ \A i \in DOMAIN aSignals : aSignals'[i] = aSignals[i]
      /\ aSignals'[Len(aSignals) + 1] = s
  BY AppendPositions
<1>2. QED
  BY <1>1 DEF Reports

\* The parts of a task that is a pair of a builder and an evaluator, or of a builder
\* and Build.
LEMMA PairFacts ==
  /\ Build \notin Evaluators
  /\ \A b, c, e, f : <<b, e>> = <<c, f>> <=> b = c /\ e = f
  BY AnalysisAssumption

\* Initially nothing is known of any graph.
LEMMA TrackerInvInit == AnalysisInit => TrackerInv
<1> SUFFICES ASSUME AnalysisInit PROVE TrackerInv
  OBVIOUS
<1>1. /\ aTasks = <<>> /\ aResults = <<>> /\ worker = [w \in Workers |-> "unborn"]
      /\ submission = [t \in Tasks |-> "none"] /\ aSignals = <<>>
      /\ oAnalysisResult = [b \in Builders |-> [e \in Evaluators |-> "absent"]]
      /\ aResultTracker = {} /\ oCodeGraph = NoGraph
  BY DEF AnalysisInit, PoolInit
<1>2. \A t : ~Unfinished(t) /\ ~Yielded(t)
  BY <1>1 DEF Unfinished, Yielded, InList
<1>3. EntriesMatch
  BY <1>1, <1>2, TaskFacts DEF EntriesMatch
<1>4. \A b \in Builders : Untouched(b)
  BY <1>1, AnalysisAssumption DEF Untouched, Reports
<1>5. ResultKinds
  BY <1>1 DEF ResultKinds
<1>6. QED
  BY <1>3, <1>4, <1>5 DEF TrackerInv, InStage

-------------------------------------------------------------------------------
(* The steps of an analysis and the stages. *)

Known == <<oCodeGraph, dwEvaluator, oAnalysisResult, aResultTracker>>
NoReport == \A b \in Builders : Reports(b)' = Reports(b)

Outstanding(t) == Unfinished(t) \/ Yielded(t)

\* A step in which no evaluation is submitted or delivered keeps the entries.
LEMMA EntriesKept ==
  ASSUME EntriesMatch, oAnalysisResult' = oAnalysisResult,
         \A b \in Builders, e \in Evaluators :
           /\ Outstanding(<<b, e>>)' <=> Outstanding(<<b, e>>)
           /\ submission'[<<b, e>>] = submission[<<b, e>>]
  PROVE  EntriesMatch'
<1> SUFFICES ASSUME NEW b \in Builders, NEW e \in Evaluators
             PROVE  /\ oAnalysisResult'[b][e] = "absent" <=> submission'[<<b, e>>] = "none"
                    /\ oAnalysisResult'[b][e] = "null" <=> Outstanding(<<b, e>>)'
  BY DEF EntriesMatch, Outstanding
<1>1. /\ oAnalysisResult[b][e] = "absent" <=> submission[<<b, e>>] = "none"
      /\ oAnalysisResult[b][e] = "null" <=> Outstanding(<<b, e>>)
  BY DEF EntriesMatch, Outstanding
<1>2. QED
  BY <1>1

\* A quiet step that tells the coordinator nothing keeps every stage.
LEMMA TrackerQuiet ==
  ASSUME SoundPool, TrackerInv, Quiet, NoReport, UNCHANGED Known
  PROVE  TrackerInv'
<1>1. \A t \in Tasks : (Unfinished(t)' <=> Unfinished(t)) /\ (Yielded(t)' <=> Yielded(t))
                       /\ submission'[t] = submission[t]
  BY DEF Quiet, Yielded
<1>2. EntriesMatch'
  <2>1. \A b \in Builders, e \in Evaluators :
          /\ Outstanding(<<b, e>>)' <=> Outstanding(<<b, e>>)
          /\ submission'[<<b, e>>] = submission[<<b, e>>]
    BY <1>1, TaskFacts DEF Outstanding
  <2>2. QED
    BY <2>1, EntriesKept DEF TrackerInv, Known
<1>3. ASSUME NEW b \in Builders PROVE InStage(b)' /\ (EarlyBuild(b)' => Untouched(b)')
  <2>1. SameGraph(b)
    BY DEF NoReport, Known, SameGraph
  <2>2. EarlyBuild(b)' <=> EarlyBuild(b)
    BY <1>1, TaskFacts DEF EarlyBuild
  <2>3. QED
    BY <2>1, <2>2, SameGraphStage DEF TrackerInv
<1>4. ResultKinds'
  BY DEF TrackerInv, ResultKinds, Quiet
<1>5. QED
  BY <1>2, <1>3, <1>4 DEF TrackerInv

\* A build that is scheduled is one of which nothing is known.
LEMMA TrackerStartsBuild ==
  ASSUME SoundPool, TrackerInv, NEW c \in Builders, Submits(<<c, Build>>), NoReport,
         UNCHANGED Known
  PROVE  TrackerInv'
<1> DEFINE t == <<c, Build>>
<1>1. OnceInv
  BY DEF SoundPool
<1>2. /\ \A u \in Tasks : Yielded(u)' <=> Yielded(u)
      /\ \A u \in Tasks : u # t => /\ Unfinished(u)' <=> Unfinished(u)
                                   /\ submission'[u] = submission[u]
  BY <1>1, SubmitsLife
<1>3. EntriesMatch'
  <2>1. ASSUME NEW b \in Builders, NEW e \in Evaluators
        PROVE  /\ Outstanding(<<b, e>>)' <=> Outstanding(<<b, e>>)
               /\ submission'[<<b, e>>] = submission[<<b, e>>]
    <3>1. <<b, e>> \in Tasks /\ <<b, e>> # t
      BY TaskFacts, PairFacts
    <3>2. QED
      BY <1>2, <3>1 DEF Outstanding
  <2>2. QED
    BY <2>1, EntriesKept DEF TrackerInv, Known
<1>4. ASSUME NEW b \in Builders PROVE InStage(b)' /\ (EarlyBuild(b)' => Untouched(b)')
  <2>1. SameGraph(b)
    BY DEF NoReport, Known, SameGraph
  <2>2. EarlyBuild(b)' => EarlyBuild(b)
    <3>1. CASE b = c
      BY <3>1 DEF EarlyBuild, Submits
    <3>2. CASE b # c
      BY <1>2, <3>2, TaskFacts, PairFacts DEF EarlyBuild
    <3>3. QED
      BY <3>1, <3>2
  <2>3. QED
    BY <2>1, <2>2, SameGraphStage DEF TrackerInv
<1>5. ResultKinds'
  BY DEF TrackerInv, ResultKinds, Submits
<1>6. QED
  BY <1>3, <1>4, <1>5 DEF TrackerInv

\* What a task yields says what it was: an evaluation or a build.
LEMMA TrackerYields ==
  ASSUME SoundPool, TrackerInv, NEW t, NEW dwType \in ResultTypes, Yields(t, dwType),
         dwType = "EVALUATION_RESULT" <=> t[2] \in Evaluators, NoReport, UNCHANGED Known
  PROVE  TrackerInv'
<1>1. OnceInv /\ t \in Tasks /\ Unfinished(t) /\ submission' = submission
  BY DEF SoundPool, Yields
<1>2. /\ ~Unfinished(t)' /\ Yielded(t)'
      /\ \A u \in Tasks : u # t => /\ Unfinished(u)' <=> Unfinished(u)
                                   /\ Yielded(u)' <=> Yielded(u)
      /\ \A i \in DOMAIN aResults' :
           \/ i \in DOMAIN aResults /\ aResults'[i] = aResults[i]
           \/ aResults'[i] = [task |-> t, dwType |-> dwType]
  BY <1>1, YieldsLife
<1>3. \A u \in Tasks : Unfinished(u)' \/ Yielded(u)' <=> Unfinished(u) \/ Yielded(u)
  BY <1>1, <1>2
<1>4. EntriesMatch'
  <2>1. \A b \in Builders, e \in Evaluators :
          /\ Outstanding(<<b, e>>)' <=> Outstanding(<<b, e>>)
          /\ submission'[<<b, e>>] = submission[<<b, e>>]
    BY <1>1, <1>3, TaskFacts DEF Outstanding
  <2>2. QED
    BY <2>1, EntriesKept DEF TrackerInv, Known
<1>5. ASSUME NEW b \in Builders PROVE InStage(b)' /\ (EarlyBuild(b)' => Untouched(b)')
  <2>1. SameGraph(b)
    BY DEF NoReport, Known, SameGraph
  <2>2. EarlyBuild(b)' <=> EarlyBuild(b)
    BY <1>1, <1>3, TaskFacts DEF EarlyBuild
  <2>3. QED
    BY <2>1, <2>2, SameGraphStage DEF TrackerInv
<1>6. ResultKinds'
  <2> SUFFICES ASSUME NEW i \in DOMAIN aResults'
               PROVE  aResults'[i].dwType = "EVALUATION_RESULT"
                        <=> aResults'[i].task[2] \in Evaluators
    BY DEF ResultKinds
  <2>1. CASE i \in DOMAIN aResults /\ aResults'[i] = aResults[i]
    BY <2>1 DEF TrackerInv, ResultKinds
  <2>2. CASE aResults'[i] = [task |-> t, dwType |-> dwType]
    BY <2>2
  <2>3. QED
    BY <1>2, <2>1, <2>2
<1>7. QED
  BY <1>4, <1>5, <1>6 DEF TrackerInv

\* What the list holds after a result was taken is what a build or an evaluation
\* yields, as before.
LEMMA DeliversKinds ==
  ASSUME SoundPool, TrackerInv, NEW t, Delivers(t)
  PROVE  ResultKinds'
<1>1. \A i \in DOMAIN aResults' : \E j \in DOMAIN aResults : aResults'[i] = aResults[j]
  BY DeliversLife DEF SoundPool
<1>2. QED
  BY <1>1 DEF TrackerInv, ResultKinds

\* The type of the result that is taken tells a build from an evaluation.
LEMMA ReceivedKind ==
  ASSUME SoundPool, TrackerInv, NEW dwType, Receive(dwType)
  PROVE  /\ Delivers(Head(aResults).task) /\ coordinator = "wait"
         /\ Received \in Builders
         /\ IF dwType = "EVALUATION_RESULT"
            THEN /\ Head(aResults).task[2] \in Evaluators
                 /\ Head(aResults).task = <<Received, Head(aResults).task[2]>>
            ELSE Head(aResults).task = <<Received, Build>>
<1>1. TakeResult /\ Head(aResults).dwType = dwType /\ aResults # <<>>
  BY DEF Receive, TakeResult
<1>2. OnceInv
  BY DEF SoundPool
<1>3. Delivers(Head(aResults).task)
  BY <1>1, <1>2, TakeResultDelivers
<1>4. 1 \in DOMAIN aResults /\ Head(aResults) = aResults[1]
  BY <1>1, <1>2, ResultFacts, TailPositions
<1>5. dwType = "EVALUATION_RESULT" <=> Head(aResults).task[2] \in Evaluators
  BY <1>1, <1>4 DEF TrackerInv, ResultKinds
<1>6. Head(aResults).task \in Tasks
  BY <1>3 DEF Delivers
<1>7. QED
  BY <1>3, <1>5, <1>6, TaskFacts DEF Received, Receive

\* Of a build that failed nothing is ever known.
LEMMA TrackerReceivesError ==
  ASSUME SoundPool, TrackerInv, ReceiveError
  PROVE  TrackerInv'
<1>0. Receive("ANALYSIS_ERROR")
  BY DEF ReceiveError
<1>c. PICK c \in Builders : c = Received
  BY <1>0, ReceivedKind
<1> DEFINE t == <<c, Build>>
<1>1. OnceInv /\ Delivers(t)
  BY <1>0, <1>c, ReceivedKind DEF SoundPool
<1>2. UNCHANGED <<Known, aSignals>>
  BY DEF ReceiveError, Known
<1>3. /\ ~Unfinished(t)' /\ ~Yielded(t)' /\ submission[t] # "none"
      /\ \A u \in Tasks : u # t => /\ Unfinished(u)' <=> Unfinished(u)
                                   /\ Yielded(u)' <=> Yielded(u)
  BY <1>1, DeliversLife
<1>4. submission' = submission
  BY <1>1 DEF Delivers
<1>5. EntriesMatch'
  <2>1. ASSUME NEW b \in Builders, NEW e \in Evaluators
        PROVE  /\ Outstanding(<<b, e>>)' <=> Outstanding(<<b, e>>)
               /\ submission'[<<b, e>>] = submission[<<b, e>>]
    <3>1. <<b, e>> \in Tasks /\ <<b, e>> # t
      BY TaskFacts, PairFacts
    <3>2. QED
      BY <1>3, <1>4, <3>1 DEF Outstanding
  <2>2. QED
    BY <1>2, <2>1, EntriesKept DEF TrackerInv, Known
<1>6. ASSUME NEW b \in Builders PROVE InStage(b)' /\ (EarlyBuild(b)' => Untouched(b)')
  <2>1. SameGraph(b)
    BY <1>2 DEF Known, SameGraph, Reports
  <2>2. EarlyBuild(b)' => EarlyBuild(b)
    BY <1>3, <1>4, TaskFacts, PairFacts DEF EarlyBuild
  <2>3. QED
    BY <2>1, <2>2, SameGraphStage DEF TrackerInv
<1>7. QED
  BY <1>1, <1>5, <1>6, DeliversKinds DEF TrackerInv

\* A graph that is received is one of which nothing is known; its evaluators are
\* scheduled from the first one on.
LEMMA TrackerReceivesGraph ==
  ASSUME SoundPool, TrackerInv, ReceiveGraph
  PROVE  TrackerInv'
<1>0. Receive("CODE_GRAPH")
  BY DEF ReceiveGraph
<1>c. PICK c \in Builders : c = Received
  BY <1>0, ReceivedKind
<1> DEFINE t == <<c, Build>>
<1>1. OnceInv /\ Delivers(t) /\ coordinator = "wait"
  BY <1>0, <1>c, ReceivedKind DEF SoundPool
<1>2. /\ oCodeGraph' = c /\ dwEvaluator' = 1
      /\ UNCHANGED <<oAnalysisResult, aResultTracker, aSignals>>
  BY <1>c DEF ReceiveGraph
<1>3. /\ ~Unfinished(t)' /\ ~Yielded(t)' /\ submission[t] # "none" /\ Yielded(t)
      /\ \A u \in Tasks : u # t => /\ Unfinished(u)' <=> Unfinished(u)
                                   /\ Yielded(u)' <=> Yielded(u)
  BY <1>1, DeliversLife
<1>4. submission' = submission
  BY <1>1 DEF Delivers
<1>5. EntriesMatch'
  <2>1. ASSUME NEW b \in Builders, NEW e \in Evaluators
        PROVE  /\ Outstanding(<<b, e>>)' <=> Outstanding(<<b, e>>)
               /\ submission'[<<b, e>>] = submission[<<b, e>>]
    <3>1. <<b, e>> \in Tasks /\ <<b, e>> # t
      BY TaskFacts, PairFacts
    <3>2. QED
      BY <1>3, <1>4, <3>1 DEF Outstanding
  <2>2. QED
    BY <1>2, <2>1, EntriesKept DEF TrackerInv
<1>6. Untouched(c)
  BY <1>1, <1>3 DEF EarlyBuild, TrackerInv
<1>7. Opening(c)'
  <2>1. Reports(c)' = {} /\ c \notin aResultTracker'
    BY <1>2, <1>6 DEF Untouched, Reports
  <2>2. \A i \in DOMAIN EvaluatorList :
          oAnalysisResult'[c][EvaluatorList[i]] = "absent" /\ i >= 1
    BY <1>2, <1>6, EvaluatorFacts DEF Untouched
  <2>3. QED
    BY <1>2, <2>1, <2>2 DEF Opening
<1>8. oCodeGraph = NoGraph
  BY <1>1 DEF SoundPool, CoordinatorInv, AnalysisTypeOK
<1>9. ASSUME NEW b \in Builders PROVE InStage(b)' /\ (EarlyBuild(b)' => Untouched(b)')
  <2>1. CASE b = c
    BY <1>3, <1>4, <1>7, <2>1 DEF InStage, EarlyBuild
  <2>2. CASE b # c
    <3>1. SameGraph(b)
      BY <1>2, <1>8, <2>2, AnalysisAssumption DEF SameGraph, Reports
    <3>2. EarlyBuild(b)' <=> EarlyBuild(b)
      BY <1>3, <1>4, <2>2, TaskFacts, PairFacts DEF EarlyBuild
    <3>3. QED
      BY <3>1, <3>2, SameGraphStage DEF TrackerInv
  <2>3. QED
    BY <2>1, <2>2
<1>10. QED
  BY <1>1, <1>5, <1>9, DeliversKinds DEF TrackerInv

\* An evaluation result always finds its graph in the tracker.
LEMMA ReceivedIsTracked ==
  ASSUME SoundPool, TrackerInv, Receive("EVALUATION_RESULT"),
         NEW c \in Builders, NEW f \in Evaluators, Head(aResults).task = <<c, f>>
  PROVE  Tracked(c) /\ oAnalysisResult[c][f] = "null"
<1>1. OnceInv /\ Delivers(<<c, f>>) /\ coordinator = "wait"
  BY ReceivedKind DEF SoundPool
<1>2. Yielded(<<c, f>>)
  BY <1>1, DeliversLife
<1>3. oAnalysisResult[c][f] = "null"
  BY <1>2 DEF TrackerInv, EntriesMatch
<1>4. oCodeGraph = NoGraph /\ NoGraph # c
  BY <1>1, AnalysisAssumption DEF SoundPool, CoordinatorInv, AnalysisTypeOK
<1>5. ~Untouched(c) /\ ~Opening(c) /\ ~Completed(c)
  BY <1>3, <1>4 DEF Untouched, Opening, Completed
<1>6. QED
  BY <1>3, <1>5 DEF TrackerInv, InStage

\* The last result of a graph completes it, any other leaves it in the tracker.
LEMMA TrackerReceivesEvaluation ==
  ASSUME SoundPool, TrackerInv, ReceiveEvaluation
  PROVE  TrackerInv'
<1>0. Receive("EVALUATION_RESULT")
  BY DEF ReceiveEvaluation
<1>c. PICK c \in Builders, f \in Evaluators :
        /\ c = Received /\ f = Head(aResults).task[2] /\ Head(aResults).task = <<c, f>>
  BY <1>0, ReceivedKind
<1> DEFINE t == <<c, f>>
           result == [oAnalysisResult[c] EXCEPT ![f] = "set"]
<1>1. OnceInv /\ Delivers(t) /\ Tracked(c) /\ oAnalysisResult[c][f] = "null"
  BY <1>0, <1>c, ReceivedKind, ReceivedIsTracked DEF SoundPool
<1>2. /\ c \in aResultTracker
      /\ oAnalysisResult' = [oAnalysisResult EXCEPT ![c] = result]
      /\ UNCHANGED <<oCodeGraph, dwEvaluator>>
      /\ IF AllResultsSet(result)
         THEN /\ aResultTracker' = aResultTracker \ {c}
              /\ aSignals' = Append(aSignals, Signal("ResultReady", c))
         ELSE UNCHANGED <<aResultTracker, aSignals>>
  BY <1>c, <1>1 DEF ReceiveEvaluation, Tracked
<1>3. /\ ~Unfinished(t)' /\ ~Yielded(t)' /\ submission[t] # "none" /\ Yielded(t)
      /\ \A u \in Tasks : u # t => /\ Unfinished(u)' <=> Unfinished(u)
                                   /\ Yielded(u)' <=> Yielded(u)
  BY <1>1, DeliversLife
<1>4. submission' = submission
  BY <1>1 DEF Delivers
<1>5. oAnalysisResult \in [Builders -> [Evaluators -> Entries]] /\ aSignals \in Seq(Signals)
  BY DEF SoundPool, CoordinatorInv, AnalysisTypeOK
<1>6. /\ result \in [Evaluators -> Entries] /\ result[f] = "set"
      /\ \A e \in Evaluators : e # f => result[e] = oAnalysisResult[c][e]
      /\ oAnalysisResult'[c] = result
      /\ \A b \in Builders : b # c => oAnalysisResult'[b] = oAnalysisResult[b]
  BY <1>2, <1>5 DEF Entries
<1> HIDE DEF result
<1>7. EntriesMatch'
  <2> SUFFICES ASSUME NEW b \in Builders, NEW e \in Evaluators
               PROVE  /\ oAnalysisResult'[b][e] = "absent" <=> submission'[<<b, e>>] = "none"
                      /\ oAnalysisResult'[b][e] = "null" <=> Outstanding(<<b, e>>)'
    BY DEF EntriesMatch, Outstanding
  <2>1. CASE <<b, e>> = t
    BY <1>3, <1>4, <1>6, <2>1, PairFacts DEF Outstanding
  <2>2. CASE <<b, e>> # t
    <3>1. oAnalysisResult'[b][e] = oAnalysisResult[b][e]
      BY <1>6, <2>2
    <3>2. Outstanding(<<b, e>>)' <=> Outstanding(<<b, e>>)
      BY <1>3, <2>2, TaskFacts DEF Outstanding
    <3>3. /\ oAnalysisResult[b][e] = "absent" <=> submission[<<b, e>>] = "none"
          /\ oAnalysisResult[b][e] = "null" <=> Outstanding(<<b, e>>)
      BY DEF TrackerInv, EntriesMatch, Outstanding
    <3>4. QED
      BY <1>4, <3>1, <3>2, <3>3
  <2>3. QED
    BY <2>1, <2>2
<1>8. \A b \in Builders : Reports(b)' =
        IF b = c /\ AllResultsSet(result) THEN Reports(b) \cup {Len(aSignals) + 1} ELSE Reports(b)
  <2> SUFFICES ASSUME NEW b \in Builders
               PROVE  Reports(b)' = IF b = c /\ AllResultsSet(result)
                                    THEN Reports(b) \cup {Len(aSignals) + 1} ELSE Reports(b)
    OBVIOUS
  <2>1. CASE ~AllResultsSet(result)
    BY <1>2, <2>1 DEF Reports
  <2>2. CASE AllResultsSet(result)
    <3>1. Signal("ResultReady", c) \in Signals
          /\ (Signal("ResultReady", c) = Signal("ResultReady", b) <=> b = c)
      BY DEF Signal, Signals
    <3>2. aSignals' = Append(aSignals, Signal("ResultReady", c))
      BY <1>2, <2>2
    <3>3. QED
      BY <1>5, <2>2, <3>1, <3>2, ReportsAppend
  <2>3. QED
    BY <2>1, <2>2
<1>9. InStage(c)'
  <2>0. c # oCodeGraph' /\ \A e \in Evaluators : result[e] # "absent"
    BY <1>1, <1>2, <1>6 DEF Tracked
  <2>1. CASE AllResultsSet(result)
    <3>1. \A e \in Evaluators : result[e] = "set"
      BY <1>6, <2>0, <2>1 DEF AllResultsSet, Entries
    <3>2. Reports(c)' = {Len(aSignals) + 1} /\ c \notin aResultTracker'
      BY <1>1, <1>2, <1>8, <2>1 DEF Tracked
    <3>3. Completed(c)'
      BY <1>6, <2>0, <3>1, <3>2 DEF Completed
    <3>4. QED
      BY <3>3 DEF InStage
  <2>2. CASE ~AllResultsSet(result)
    <3>1. Reports(c)' = {} /\ c \in aResultTracker'
      BY <1>1, <1>2, <1>8, <2>2 DEF Tracked
    <3>2. Tracked(c)'
      BY <1>6, <2>0, <2>2, <3>1 DEF Tracked, AllResultsSet
    <3>3. QED
      BY <3>2 DEF InStage
  <2>3. QED
    BY <2>1, <2>2
<1>10. ASSUME NEW b \in Builders PROVE InStage(b)' /\ (EarlyBuild(b)' => Untouched(b)')
  <2>1. EarlyBuild(b)' <=> EarlyBuild(b)
    <3>1. <<b, Build>> \in Tasks /\ <<b, Build>> # t
      BY TaskFacts, PairFacts
    <3>2. QED
      BY <1>3, <1>4, <3>1 DEF EarlyBuild
  <2>2. CASE b = c
    <3>1. ~Untouched(c)
      BY <1>1, SomeEvaluator
    <3>2. QED
      BY <1>9, <2>1, <2>2, <3>1 DEF TrackerInv
  <2>3. CASE b # c
    <3>1. SameGraph(b)
      BY <1>2, <1>6, <1>8, <2>3 DEF SameGraph
    <3>2. QED
      BY <2>1, <3>1, SameGraphStage DEF TrackerInv
  <2>4. QED
    BY <2>2, <2>3
<1>11. QED
  BY <1>1, <1>7, <1>10, DeliversKinds DEF TrackerInv

\* Each evaluator of a graph is scheduled once, the last one puts it into the tracker.
LEMMA TrackerSchedulesEvaluator ==
  ASSUME SoundPool, TrackerInv, ScheduleEvaluator
  PROVE  TrackerInv'
<1>t. /\ oCodeGraph \in Builders /\ EvaluatorList[dwEvaluator] \in Evaluators
      /\ dwEvaluator \in 1 .. Len(EvaluatorList)
      /\ oAnalysisResult \in [Builders -> [Evaluators -> Entries]]
  BY EvaluatorFacts DEF ScheduleEvaluator, SoundPool, CoordinatorInv, AnalysisTypeOK
<1>c. PICK c \in Builders, f \in Evaluators : c = oCodeGraph /\ f = EvaluatorList[dwEvaluator]
  BY <1>t
<1> DEFINE t == <<c, f>>
           result == SetNull(oAnalysisResult[c], f)
<1>1. OnceInv /\ Submits(t)
  <2>1. OnceInv /\ t \in Tasks /\ Schedule(t)
    BY <1>c, TaskFacts DEF SoundPool, ScheduleEvaluator
  <2>2. QED
    BY <2>1, ScheduleSubmits
<1>2. /\ oAnalysisResult' = [oAnalysisResult EXCEPT ![c] = result]
      /\ UNCHANGED aSignals
      /\ IF dwEvaluator < Len(EvaluatorList)
         THEN dwEvaluator' = dwEvaluator + 1 /\ UNCHANGED <<oCodeGraph, aResultTracker>>
         ELSE /\ aResultTracker' = aResultTracker \cup {c}
              /\ oCodeGraph' = NoGraph
  BY <1>c DEF ScheduleEvaluator
<1>3. /\ result \in [Evaluators -> Entries] /\ result[f] = "null"
      /\ \A e \in Evaluators : e # f => result[e] = oAnalysisResult[c][e]
      /\ oAnalysisResult'[c] = result
      /\ \A b \in Builders : b # c => oAnalysisResult'[b] = oAnalysisResult[b]
  BY <1>2, <1>t DEF SetNull, Entries
<1> HIDE DEF result
<1>4. /\ Unfinished(t)' /\ submission'[t] # "none"
      /\ \A u \in Tasks : /\ Yielded(u)' <=> Yielded(u)
                          /\ u # t => /\ Unfinished(u)' <=> Unfinished(u)
                                      /\ submission'[u] = submission[u]
  BY <1>1, SubmitsLife
<1>5. Opening(c)
  BY <1>c DEF TrackerInv, InStage, Untouched, Tracked, Completed
<1>6. EntriesMatch'
  <2> SUFFICES ASSUME NEW b \in Builders, NEW e \in Evaluators
               PROVE  /\ oAnalysisResult'[b][e] = "absent" <=> submission'[<<b, e>>] = "none"
                      /\ oAnalysisResult'[b][e] = "null" <=> Outstanding(<<b, e>>)'
    BY DEF EntriesMatch, Outstanding
  <2>1. CASE <<b, e>> = t
    BY <1>3, <1>4, <2>1, PairFacts DEF Outstanding
  <2>2. CASE <<b, e>> # t
    <3>1. oAnalysisResult'[b][e] = oAnalysisResult[b][e]
      BY <1>3, <2>2
    <3>2. /\ Outstanding(<<b, e>>)' <=> Outstanding(<<b, e>>)
          /\ submission'[<<b, e>>] = submission[<<b, e>>]
      BY <1>4, <2>2, TaskFacts DEF Outstanding
    <3>3. /\ oAnalysisResult[b][e] = "absent" <=> submission[<<b, e>>] = "none"
          /\ oAnalysisResult[b][e] = "null" <=> Outstanding(<<b, e>>)
      BY DEF TrackerInv, EntriesMatch, Outstanding
    <3>4. QED
      BY <3>1, <3>2, <3>3
  <2>3. QED
    BY <2>1, <2>2
<1>7. \A i \in DOMAIN EvaluatorList : EvaluatorList[i] = f <=> i = dwEvaluator
  BY <1>c, <1>t, EvaluatorFacts, AnalysisAssumption
<1>8. \A i \in DOMAIN EvaluatorList : result[EvaluatorList[i]] = "absent" <=> i > dwEvaluator
  <2> SUFFICES ASSUME NEW i \in DOMAIN EvaluatorList
               PROVE  result[EvaluatorList[i]] = "absent" <=> i > dwEvaluator
    OBVIOUS
  <2>1. i \in Int /\ dwEvaluator \in Int /\ EvaluatorList[i] \in Evaluators
    BY <1>t, EvaluatorFacts
  <2>2. oAnalysisResult[c][EvaluatorList[i]] = "absent" <=> i >= dwEvaluator
    BY <1>5 DEF Opening
  <2>3. QED
    BY <1>3, <1>7, <2>1, <2>2
<1>9. InStage(c)'
  <2>0. Reports(c)' = {}
    BY <1>2, <1>5 DEF Opening, Reports
  <2>1. CASE dwEvaluator < Len(EvaluatorList)
    <3>1. \A i \in DOMAIN EvaluatorList : i > dwEvaluator <=> i >= dwEvaluator'
      BY <1>2, <1>t, <2>1, EvaluatorFacts
    <3>2. c \notin aResultTracker' /\ c = oCodeGraph'
      BY <1>2, <1>5, <2>1 DEF Opening
    <3>3. \A i \in DOMAIN EvaluatorList :
            oAnalysisResult'[c][EvaluatorList[i]] = "absent" <=> i >= dwEvaluator'
      BY <1>3, <1>8, <3>1
    <3>4. QED
      BY <2>0, <3>2, <3>3 DEF Opening, InStage
  <2>2. CASE ~(dwEvaluator < Len(EvaluatorList))
    <3>1. c \in aResultTracker' /\ c # oCodeGraph'
      BY <1>2, <2>2, AnalysisAssumption
    <3>2. \A i \in DOMAIN EvaluatorList : ~(i > dwEvaluator)
      BY <1>t, <2>2, EvaluatorFacts
    <3>3. \A e \in Evaluators : result[e] # "absent"
      BY <1>8, <3>2 DEF Evaluators, RangeOf
    <3>4. Tracked(c)'
      BY <1>3, <2>0, <3>1, <3>3 DEF Tracked
    <3>5. QED
      BY <3>4 DEF InStage
  <2>3. QED
    BY <2>1, <2>2
<1>10. ASSUME NEW b \in Builders PROVE InStage(b)' /\ (EarlyBuild(b)' => Untouched(b)')
  <2>1. EarlyBuild(b)' <=> EarlyBuild(b)
    <3>1. <<b, Build>> \in Tasks /\ <<b, Build>> # t
      BY TaskFacts, PairFacts
    <3>2. QED
      BY <1>4, <3>1 DEF EarlyBuild
  <2>2. CASE b = c
    <3>1. ~Untouched(c)
      BY <1>5, SomeEvaluator
    <3>2. QED
      BY <1>9, <2>1, <2>2, <3>1 DEF TrackerInv
  <2>3. CASE b # c
    <3>1. SameGraph(b)
      BY <1>2, <1>3, <1>c, <2>3, AnalysisAssumption DEF SameGraph, Reports
    <3>2. QED
      BY <2>1, <3>1, SameGraphStage DEF TrackerInv
  <2>4. QED
    BY <2>2, <2>3
<1>11. ResultKinds'
  BY <1>1 DEF TrackerInv, ResultKinds, Submits
<1>12. QED
  BY <1>6, <1>10, <1>11 DEF TrackerInv

\* A signal that does not report a graph, or none, leaves the reports as they are.
LEMMA OtherSignals ==
  ASSUME CoordinatorInv, NEW name \in {"NextFunction", "CoordinatorFinished"},
         aSignals' = aSignals \/ aSignals' = Append(aSignals, Signal(name, NoGraph))
  PROVE  NoReport
<1> SUFFICES ASSUME NEW b \in Builders PROVE Reports(b)' = Reports(b)
  BY DEF NoReport
<1>1. CASE aSignals' = aSignals
  BY <1>1 DEF Reports
<1>2. CASE aSignals' = Append(aSignals, Signal(name, NoGraph))
  <2>1. Signal(name, NoGraph) \in Signals /\ Signal(name, NoGraph) # Signal("ResultReady", b)
    BY DEF Signal, Signals
  <2>2. aSignals \in Seq(Signals)
    BY DEF CoordinatorInv, AnalysisTypeOK
  <2>3. QED
    BY <1>2, <2>1, <2>2, ReportsAppend
<1>3. QED
  BY <1>1, <1>2

\* Offering the next function to the pool either has no effect or submits its build.
LEMMA NextFunctionEffect ==
  ASSUME SoundPool, NEW accepted, NEW otherwise, ScheduleNextFunction(accepted, otherwise)
  PROVE  \/ /\ Quiet /\ UNCHANGED <<aTasks, aFunctionList, aSignals>>
            /\ coordinator' = otherwise
            /\ aFunctionList = <<>> \/ ~ResourceAvailable
         \/ /\ aFunctionList # <<>> /\ Head(aFunctionList) \in Functions
            /\ Submits(<<Head(aFunctionList), Build>>)
            /\ submission' = [submission EXCEPT ![<<Head(aFunctionList), Build>>] = "silent"]
            /\ aFunctionList' = Tail(aFunctionList)
            /\ aSignals' = Append(aSignals, Signal("NextFunction", NoGraph))
            /\ coordinator' = accepted
<1>1. CASE aFunctionList = <<>>
  BY <1>1 DEF ScheduleNextFunction, poolVars, Quiet, Unfinished, InList
<1>2. CASE aFunctionList # <<>>
  <2> DEFINE t == <<Head(aFunctionList), Build>>
  <2>1. Head(aFunctionList) \in Functions
    BY <1>2, HeadTailProperties DEF SoundPool, CoordinatorInv, AnalysisTypeOK
  <2>2. t \in Tasks
    BY <2>1, TaskFacts DEF Builders
  <2>3. ScheduleIfResourceAvailable(t)
    BY <1>2 DEF ScheduleNextFunction
  <2>4. IF ResourceAvailable
        THEN Submits(t) /\ submission' = [submission EXCEPT ![t] = "silent"]
        ELSE Quiet /\ aTasks' = aTasks
    BY <2>2, <2>3, ScheduleIfSubmits DEF SoundPool
  <2>5. QED
    BY <1>2, <2>1, <2>4 DEF ScheduleNextFunction
<1>3. QED
  BY <1>1, <1>2

\* The steps of the workers, the user of the pool aside: quiet, a fork's build, or a
\* yield of what the task was for.
LEMMA WorkerEffect ==
  ASSUME SoundPool, NEW w \in Workers,
         Work(w) \/ ForkBuild(w) \/ EndBuild(w) \/ EndEvaluation(w)
  PROVE  /\ UNCHANGED coordinatorVars
         /\ \/ Quiet
            \/ \E k \in Forks : Submits(<<k, Build>>)
                                /\ stTask[w] \in Tasks /\ stTask[w][2] = Build
                                /\ Unfinished(stTask[w])
                                /\ submission' = [submission EXCEPT ![<<k, Build>>] = "notified"]
            \/ \E dwType \in {"CODE_GRAPH", "ANALYSIS_ERROR"} :
                 Yields(stTask[w], dwType) /\ stTask[w][2] = Build
            \/ Yields(stTask[w], "EVALUATION_RESULT") /\ stTask[w][2] \in Evaluators
<1>0. OnceInv
  BY DEF SoundPool
<1>1. CASE Work(w)
  BY <1>0, <1>1, WorkerLoopQuiet DEF Work
<1>2. CASE ForkBuild(w)
  <2>1. PICK k \in Forks : Schedule(<<k, Build>>)
    BY <1>2 DEF ForkBuild
  <2>2. <<k, Build>> \in Tasks
    BY TaskFacts DEF Builders
  <2>3. Submits(<<k, Build>>)
    BY <1>0, <2>1, <2>2, ScheduleSubmits
  <2>4. stTask[w] \in Tasks /\ stTask[w][2] = Build /\ Unfinished(stTask[w])
    BY <1>0, <1>2 DEF ForkBuild, IsBuilding, Unfinished, OnceInv, Typed, HoldsTask
  <2>5. QED
    BY <1>2, <2>1, <2>3, <2>4 DEF ForkBuild, Schedule
<1>3. CASE EndBuild(w)
  BY <1>0, <1>3, YieldResultYields DEF EndBuild, IsBuilding
<1>4. CASE EndEvaluation(w)
  <2>1. worker[w] = "execute" /\ stTask[w][2] # Build
    BY <1>4 DEF EndEvaluation
  <2>2. stTask[w] \in Tasks
    BY <1>0, <2>1 DEF OnceInv, Typed, HoldsTask
  <2>3. QED
    BY <1>0, <1>4, <2>1, <2>2, TaskFacts, YieldResultYields DEF EndEvaluation
<1>5. QED
  BY <1>1, <1>2, <1>3, <1>4

\* What remains: the coordinator finishes or waits, a wait ends by itself, the pool is
\* destroyed.
LEMMA OtherEffect ==
  ASSUME SoundPool, Wait \/ Finish \/ Wakeup \/ DestroyPool \/ UNCHANGED analysisVars
  PROVE  /\ Quiet /\ UNCHANGED <<Known, aFunctionList>>
         /\ \/ UNCHANGED aSignals
            \/ aSignals' = Append(aSignals, Signal("CoordinatorFinished", NoGraph))
<1>0. OnceInv
  BY DEF SoundPool
<1>1. CASE UNCHANGED analysisVars
  BY <1>1 DEF analysisVars, poolVars, coordinatorVars, Known, Quiet, Unfinished, InList
<1>2. CASE Wait \/ Wakeup \/ DestroyPool
  BY <1>0, <1>2, OthersQuiet DEF Wait, Wakeup, DestroyPool, coordinatorVars, Known
<1>3. CASE Finish
  BY <1>0, <1>3, OthersQuiet DEF Finish, Known
<1>4. QED
  BY <1>1, <1>2, <1>3

\* Every step keeps the stages.
LEMMA TrackerInvStep ==
  SoundPool /\ TrackerInv /\ [LifeNext]_analysisVars => TrackerInv'
<1> SUFFICES ASSUME SoundPool, TrackerInv, [LifeNext]_analysisVars PROVE TrackerInv'
  OBVIOUS
<1>0. CoordinatorInv /\ OnceInv
  BY DEF SoundPool
<1>1. ASSUME NEW accepted, NEW otherwise, ScheduleNextFunction(accepted, otherwise),
             UNCHANGED Known
      PROVE  TrackerInv'
  <2>1. CASE Quiet /\ UNCHANGED aSignals
    BY <1>0, <1>1, <2>1, TrackerQuiet, OtherSignals
  <2>2. CASE /\ Head(aFunctionList) \in Functions
             /\ Submits(<<Head(aFunctionList), Build>>)
             /\ aSignals' = Append(aSignals, Signal("NextFunction", NoGraph))
    <3>1. Head(aFunctionList) \in Builders /\ NoReport
      BY <1>0, <2>2, OtherSignals DEF Builders
    <3>2. QED
      BY <1>1, <2>2, <3>1, TrackerStartsBuild
  <2>3. QED
    BY <1>1, <2>1, <2>2, NextFunctionEffect
<1>2. CASE ScheduleInitially \/ ScheduleAfterResult
  BY <1>1, <1>2 DEF ScheduleInitially, ScheduleAfterResult, Known
<1>3. CASE ReceiveError \/ ReceiveGraph \/ ReceiveEvaluation \/ ScheduleEvaluator
  BY <1>3, TrackerReceivesError, TrackerReceivesGraph, TrackerReceivesEvaluation,
     TrackerSchedulesEvaluator
<1>4. CASE Wait \/ Finish \/ Wakeup \/ DestroyPool \/ UNCHANGED analysisVars
  <2>1. Quiet /\ UNCHANGED Known /\ NoReport
    BY <1>0, <1>4, OtherEffect, OtherSignals
  <2>2. QED
    BY <2>1, TrackerQuiet
<1>5. ASSUME NEW w \in Workers, Work(w) \/ ForkBuild(w) \/ EndBuild(w) \/ EndEvaluation(w)
      PROVE  TrackerInv'
  <2>0. UNCHANGED Known /\ NoReport
    BY <1>5, WorkerEffect DEF coordinatorVars, Known, NoReport, Reports
  <2>1. CASE Quiet
    BY <2>0, <2>1, TrackerQuiet
  <2>2. ASSUME NEW k \in Forks, Submits(<<k, Build>>) PROVE TrackerInv'
    BY <2>0, <2>2, TrackerStartsBuild DEF Builders
  <2>3. ASSUME NEW dwType \in ResultTypes, Yields(stTask[w], dwType),
               dwType = "EVALUATION_RESULT" <=> stTask[w][2] \in Evaluators
        PROVE  TrackerInv'
    <3>1. PICK t : t = stTask[w]
      OBVIOUS
    <3>2. QED
      BY <2>0, <2>3, <3>1, TrackerYields
  <2>4. ASSUME NEW dwType \in {"CODE_GRAPH", "ANALYSIS_ERROR"}, Yields(stTask[w], dwType),
               stTask[w][2] = Build
        PROVE  TrackerInv'
    BY <2>3, <2>4, PairFacts, AnalysisAssumption
  <2>5. CASE Yields(stTask[w], "EVALUATION_RESULT") /\ stTask[w][2] \in Evaluators
    BY <2>3, <2>5, AnalysisAssumption
  <2>6. QED
    BY <1>5, <2>1, <2>2, <2>4, <2>5, WorkerEffect
<1>6. QED
  BY <1>2, <1>3, <1>4, <1>5 DEF LifeNext, AnalysisNext, CoordinatorStep

\* What the tracker says is outstanding is outstanding in the pool, whatever the order
\* in which workers take, evaluate and yield.
THEOREM TrackerMatchesPoolCorrect == AnalysisSpec => []TrackerMatchesPool
<1>1. SoundPool /\ TrackerInv => TrackerMatchesPool
  <2> SUFFICES ASSUME TrackerInv, NEW b \in Builders, NEW e \in Evaluators
               PROVE  /\ oAnalysisResult[b][e] = "null"
                           <=> (Unfinished(<<b, e>>) \/ Yielded(<<b, e>>))
                      /\ oAnalysisResult[b][e] = "null" => b \in aResultTracker \cup {oCodeGraph}
    BY DEF TrackerMatchesPool
  <2>1. InStage(b) /\ EntriesMatch
    BY DEF TrackerInv
  <2>2. oAnalysisResult[b][e] = "null" => b \in aResultTracker \cup {oCodeGraph}
    BY <2>1 DEF InStage, Untouched, Opening, Tracked, Completed
  <2>3. QED
    BY <2>1, <2>2 DEF EntriesMatch
<1>2. QED
  BY <1>1, SoundPoolInit, SoundPoolStep, TrackerInvInit, TrackerInvStep, AnalysisLives, PTL
     DEF AnalysisSpec

\* No graph is reported twice, and none before all of its evaluators have a result.
THEOREM ReportsAreCompleteCorrect == AnalysisSpec => []ReportsAreComplete
<1>1. TrackerInv => ReportsAreComplete
  <2> SUFFICES ASSUME TrackerInv, NEW b \in Builders
               PROVE  /\ \A i, j \in Reports(b) : i = j
                      /\ b \in Reported => \A e \in Evaluators : oAnalysisResult[b][e] = "set"
    BY DEF ReportsAreComplete
  <2>1. InStage(b)
    BY DEF TrackerInv
  <2>2. QED
    BY <2>1 DEF InStage, Untouched, Opening, Tracked, Completed, Reported
<1>2. QED
  BY <1>1, SoundPoolInit, SoundPoolStep, TrackerInvInit, TrackerInvStep, AnalysisLives, PTL
     DEF AnalysisSpec
===============================================================================
