--------------------------- MODULE CompletionProofs ---------------------------
(***************************************************************************)
(* Proofs about the end of an analysis: what "finished" means, what can be *)
(* left when everybody waits, and that an analysis keeps AnalysisContract. *)
(* For any number of workers, any selection of functions, any forks and    *)
(* any signatures.                                                         *)
(***************************************************************************)
EXTENDS AnalysisProofs

-------------------------------------------------------------------------------
(* The kinds of steps. *)

\* The pool took the next function.
NextTaken ==
  /\ coordinator \in {"initial", "next"} /\ coordinator' \in {"initial", "wait"}
  /\ aFunctionList # <<>> /\ aFunctionList' = Tail(aFunctionList)
  /\ Head(aFunctionList) \in Functions
  /\ Submits(<<Head(aFunctionList), Build>>)
  /\ submission' = [submission EXCEPT ![<<Head(aFunctionList), Build>>] = "silent"]
  /\ aSignals' = Append(aSignals, Signal("NextFunction", NoGraph))
  /\ UNCHANGED Known

\* There was no next function, or the pool refused it.
NextRefused ==
  /\ coordinator \in {"initial", "next"} /\ coordinator' = "wait"
  /\ aFunctionList = <<>> \/ ~ResourceAvailable
  /\ Quiet /\ UNCHANGED <<Known, aTasks, aFunctionList, aSignals>>

EvaluatorScheduled ==
  /\ ScheduleEvaluator
  /\ coordinator = "evaluators" /\ coordinator' \in {"evaluators", "next"}
  /\ \E b \in Builders, e \in Evaluators :
       /\ b = oCodeGraph
       /\ Submits(<<b, e>>)
       /\ submission' = [submission EXCEPT ![<<b, e>>] = "notified"]
  /\ UNCHANGED <<aFunctionList, aSignals>>

ResultTaken ==
  /\ ReceiveError \/ ReceiveGraph \/ ReceiveEvaluation
  /\ coordinator = "wait" /\ coordinator' \in {"next", "evaluators"}
  /\ Delivers(Head(aResults).task)
  /\ UNCHANGED aFunctionList
  /\ \/ UNCHANGED aSignals
     \/ \E b \in Builders : aSignals' = Append(aSignals, Signal("ResultReady", b))

Finishes ==
  /\ Finish /\ Quiet
  /\ coordinator = "wait" /\ coordinator' = "finished"
  /\ aSignals' = Append(aSignals, Signal("CoordinatorFinished", NoGraph))
  /\ UNCHANGED <<Known, aFunctionList>>

\* A build forked.
Forked(w) ==
  /\ UNCHANGED coordinatorVars
  /\ stTask[w] \in Tasks /\ stTask[w][2] = Build /\ Unfinished(stTask[w])
  /\ \E k \in Forks : /\ Submits(<<k, Build>>)
                      /\ submission' = [submission EXCEPT ![<<k, Build>>] = "notified"]

\* A build or an evaluation ended.
Ended(w) ==
  /\ UNCHANGED coordinatorVars
  /\ \E dwType \in ResultTypes :
       /\ Yields(stTask[w], dwType)
       /\ dwType = "EVALUATION_RESULT" <=> stTask[w][2] \in Evaluators

\* A step that neither a task nor the coordinator notices.
Unnoticed == Quiet /\ UNCHANGED coordinatorVars

\* Every step is of one of these kinds.
LEMMA StepKinds ==
  ASSUME SoundPool, TrackerInv, [LifeNext]_analysisVars
  PROVE  \/ NextTaken \/ NextRefused \/ EvaluatorScheduled \/ ResultTaken \/ Finishes
         \/ (\E w \in Workers : Forked(w) \/ Ended(w)) \/ Unnoticed
<1>0. OnceInv /\ CoordinatorInv
  BY DEF SoundPool
<1>1. CASE ScheduleInitially \/ ScheduleAfterResult
  <2>1. PICK accepted \in {"initial", "wait"} :
          /\ ScheduleNextFunction(accepted, "wait")
          /\ coordinator \in {"initial", "next"} /\ UNCHANGED Known
    BY <1>1 DEF ScheduleInitially, ScheduleAfterResult, Known
  <2>2. QED
    BY <2>1, NextFunctionEffect DEF NextTaken, NextRefused
<1>2. CASE ScheduleEvaluator
  <2>1. /\ coordinator = "evaluators" /\ oCodeGraph \in Builders
        /\ EvaluatorList[dwEvaluator] \in Evaluators
        /\ Schedule(<<oCodeGraph, EvaluatorList[dwEvaluator]>>)
        /\ UNCHANGED <<aFunctionList, aSignals>>
    BY <1>0, <1>2, EvaluatorFacts DEF ScheduleEvaluator, CoordinatorInv, AnalysisTypeOK
  <2>2. <<oCodeGraph, EvaluatorList[dwEvaluator]>> \in Tasks
    BY <2>1, TaskFacts
  <2>3. Submits(<<oCodeGraph, EvaluatorList[dwEvaluator]>>)
    BY <1>0, <2>1, <2>2, ScheduleSubmits
  <2>4. coordinator' \in {"evaluators", "next"}
    <3>1. CoordinatorInv'
      BY <1>0, CoordinatorInvStep
    <3>2. QED
      BY <1>2, <2>1, <3>1 DEF ScheduleEvaluator, CoordinatorInv
  <2>5. QED
    BY <1>2, <2>1, <2>3, <2>4 DEF EvaluatorScheduled, Schedule
<1>3. CASE ReceiveError \/ ReceiveGraph \/ ReceiveEvaluation
  <2>1. \E dwType : Receive(dwType)
    BY <1>3 DEF ReceiveError, ReceiveGraph, ReceiveEvaluation
  <2>2. Delivers(Head(aResults).task) /\ coordinator = "wait" /\ Received \in Builders
    BY <2>1, ReceivedKind
  <2>3. coordinator' \in {"next", "evaluators"} /\ UNCHANGED aFunctionList
        /\ \/ UNCHANGED aSignals
           \/ aSignals' = Append(aSignals, Signal("ResultReady", Received))
    BY <1>3 DEF ReceiveError, ReceiveGraph, ReceiveEvaluation
  <2>4. QED
    BY <1>3, <2>2, <2>3 DEF ResultTaken
<1>4. CASE Finish
  <2>1. Quiet
    BY <1>4, OtherEffect
  <2>2. QED
    BY <1>4, <2>1 DEF Finish, Finishes, Known
<1>5. CASE Wait \/ Wakeup \/ DestroyPool \/ UNCHANGED analysisVars
  <2>1. Quiet
    BY <1>5, OtherEffect
  <2>2. UNCHANGED coordinatorVars
    BY <1>5 DEF Wait, Wakeup, DestroyPool, analysisVars
  <2>3. QED
    BY <2>1, <2>2 DEF Unnoticed
<1>6. ASSUME NEW w \in Workers, Work(w) \/ ForkBuild(w) \/ EndBuild(w) \/ EndEvaluation(w)
      PROVE  Forked(w) \/ Ended(w) \/ Unnoticed
  <2>1. {"CODE_GRAPH", "ANALYSIS_ERROR", "EVALUATION_RESULT"} \subseteq ResultTypes
    BY AnalysisAssumption
  <2>2. QED
    BY <1>6, <2>1, WorkerEffect, PairFacts DEF Forked, Ended, Unnoticed
<1>7. QED
  BY <1>1, <1>2, <1>3, <1>4, <1>5, <1>6 DEF LifeNext, AnalysisNext, CoordinatorStep

-------------------------------------------------------------------------------
(* Counting signals. *)

\* A signal adds one to the count of its name and nothing to the others.
LEMMA CountAppend ==
  ASSUME NEW s \in Signals, aSignals \in Seq(Signals), aSignals' = Append(aSignals, s), NEW name
  PROVE  /\ Count(name) \in Nat
         /\ Count(name)' = IF s.name = name THEN Count(name) + 1 ELSE Count(name)
<1> DEFINE S == {i \in DOMAIN aSignals : aSignals[i].name = name}
           T == {i \in DOMAIN aSignals' : aSignals'[i].name = name}
           n == Len(aSignals) + 1
<1>1. /\ DOMAIN aSignals' = DOMAIN aSignals \cup {n}
      /\ n \notin DOMAIN aSignals
      /\ \A i \in DOMAIN aSignals : aSignals'[i] = aSignals[i]
      /\ aSignals'[n] = s
  BY AppendPositions
<1>2. DOMAIN aSignals = 1 .. Len(aSignals) /\ Len(aSignals) \in Nat
  BY LenProperties
<1>3. IsFiniteSet(DOMAIN aSignals)
  BY <1>2, FS_Interval
<1>4. IsFiniteSet(S)
  BY <1>3, FS_Subset
<1>5. n \notin S
  BY <1>1
<1>6. CASE s.name = name
  <2>1. T = S \cup {n}
    BY <1>1, <1>6
  <2>2. Cardinality(T) = Cardinality(S) + 1
    BY <1>4, <1>5, <2>1, FS_AddElement
  <2>3. QED
    BY <1>4, <1>6, <2>2, FS_CardinalityType DEF Count
<1>7. CASE s.name # name
  <2>1. T = S
    BY <1>1, <1>7
  <2>2. QED
    BY <1>4, <1>7, <2>1, FS_CardinalityType DEF Count
<1>8. QED
  BY <1>6, <1>7

\* The signals of the coordinator's steps are signals.
LEMMA SignalFacts ==
  /\ \A name \in {"NextFunction", "CoordinatorFinished"} :
       Signal(name, NoGraph) \in Signals /\ Signal(name, NoGraph).name = name
  /\ \A b \in Builders : /\ Signal("ResultReady", b) \in Signals
                         /\ Signal("ResultReady", b).name = "ResultReady"
  BY DEF Signal, Signals

-------------------------------------------------------------------------------
(* What is left to do. *)

\* No special task is in the list before the analysis is finished.
OnlyTasks ==
  coordinator # "finished" => \A i \in DOMAIN aTasks : aTasks[i] \in Tasks

\* The list holds the functions whose build was not scheduled, each once.
FunctionsLeft ==
  /\ \A i, j \in DOMAIN aFunctionList : aFunctionList[i] = aFunctionList[j] => i = j
  /\ \A f \in Functions :
       submission[<<f, Build>>] = "none" <=> f \in RangeOf(aFunctionList)

EveryFunctionSignalled == Count("NextFunction") + Len(aFunctionList) = Len(aSelection)

\* While functions are left, the coordinator only waits for a task that is still to
\* yield, or whose result is still to be taken.
WorkLeft ==
  coordinator = "wait" => aFunctionList = <<>> \/ \E t \in Tasks : Outstanding(t)

NothingLeft ==
  coordinator = "finished" => aFunctionList = <<>> /\ \A t \in Tasks : ~Outstanding(t)

\* Only builds of selected functions enter the pool without a notification.
SilentFunctions == \A t \in Tasks : submission[t] = "silent" => t \in Functions \X {Build}

CompletionInv ==
  /\ OnlyTasks /\ FunctionsLeft /\ EveryFunctionSignalled /\ WorkLeft /\ NothingLeft
  /\ SilentFunctions

\* Initially every function is left.
LEMMA CompletionInvInit == AnalysisInit => CompletionInv
<1> SUFFICES ASSUME AnalysisInit PROVE CompletionInv
  OBVIOUS
<1>1. /\ aTasks = <<>> /\ submission = [t \in Tasks |-> "none"] /\ aSignals = <<>>
      /\ coordinator = "initial" /\ aFunctionList = aSelection
  BY DEF AnalysisInit, PoolInit
<1>2. Count("NextFunction") = 0
  <2>1. {i \in DOMAIN aSignals : aSignals[i].name = "NextFunction"} = {}
    BY <1>1
  <2>2. QED
    BY <2>1, FS_EmptySet DEF Count
<1>3. FunctionsLeft
  BY <1>1, TaskFacts, AnalysisAssumption DEF FunctionsLeft, Functions, Builders
<1>4. Len(aSelection) \in Nat
  BY AnalysisAssumption, LenProperties
<1>5. EveryFunctionSignalled
  BY <1>1, <1>2, <1>4 DEF EveryFunctionSignalled
<1>6. QED
  BY <1>1, <1>3, <1>5 DEF CompletionInv, OnlyTasks, WorkLeft, NothingLeft, SilentFunctions

\* The list of tasks grows by a task, except when the pool is destroyed, and otherwise
\* shrinks.
LEMMA OnlyTasksStep ==
  ASSUME SoundPool, OnlyTasks, [LifeNext]_analysisVars
  PROVE  OnlyTasks'
<1>0. /\ aTasks \in Seq(Tasks \cup {SYNCHRONIZE, EXIT})
      /\ CoordinatorInv /\ OnceInv
  BY ResultFacts DEF SoundPool
<1>1. ASSUME coordinator # "finished", NEW t \in Tasks, aTasks' = Append(aTasks, t)
      PROVE  OnlyTasks'
  BY <1>0, <1>1, AppendPositions DEF OnlyTasks
<1>2. ASSUME coordinator # "finished", aTasks # <<>>, aTasks' = Tail(aTasks)
      PROVE  OnlyTasks'
  BY <1>0, <1>2, TailPositions DEF OnlyTasks
<1>3. ASSUME coordinator # "finished", aTasks' = aTasks PROVE OnlyTasks'
  BY <1>3 DEF OnlyTasks
<1>4. CASE coordinator = "finished"
  <2>1. coordinator' = "finished"
    BY <1>4 DEF LifeNext, AnalysisNext, CoordinatorStep, ScheduleInitially,
       ScheduleAfterResult, Wait, ReceiveError, ReceiveGraph, ReceiveEvaluation, Receive,
       ScheduleEvaluator, Finish, Work, ForkBuild, EndBuild, EndEvaluation, Wakeup,
       DestroyPool, analysisVars, coordinatorVars
  <2>2. QED
    BY <2>1 DEF OnlyTasks
<1>5. CASE coordinator # "finished"
  <2>1. ASSUME NEW accepted, NEW otherwise, ScheduleNextFunction(accepted, otherwise)
        PROVE  OnlyTasks'
    <3>1. \/ aTasks' = aTasks
          \/ /\ Head(aFunctionList) \in Functions
             /\ aTasks' = Append(aTasks, <<Head(aFunctionList), Build>>)
      BY <1>0, <2>1, HeadTailProperties
         DEF ScheduleNextFunction, ScheduleIfResourceAvailable, poolVars, CoordinatorInv,
             AnalysisTypeOK
    <3>2. QED
      BY <1>1, <1>3, <1>5, <3>1, TaskFacts DEF Builders
  <2>2. CASE ScheduleEvaluator
    <3>1. /\ aTasks' = Append(aTasks, <<oCodeGraph, EvaluatorList[dwEvaluator]>>)
          /\ oCodeGraph \in Builders /\ EvaluatorList[dwEvaluator] \in Evaluators
      BY <1>0, <2>2, EvaluatorFacts
         DEF ScheduleEvaluator, Schedule, CoordinatorInv, AnalysisTypeOK
    <3>2. QED
      BY <1>1, <1>5, <3>1, TaskFacts
  <2>3. CASE ReceiveError \/ ReceiveGraph \/ ReceiveEvaluation \/ Wait \/ Finish \/ Wakeup
             \/ UNCHANGED analysisVars
    <3>1. aTasks' = aTasks
      BY <2>3 DEF ReceiveError, ReceiveGraph, ReceiveEvaluation, Receive, TakeResult, Wait,
         BlockForResult, Finish, NoMoreResults, Wakeup, SpuriousWakeup, analysisVars, poolVars
    <3>2. QED
      BY <1>3, <1>5, <3>1
  <2>4. ASSUME NEW w \in Workers, Work(w) PROVE OnlyTasks'
    <3>1. aTasks' = aTasks \/ (aTasks # <<>> /\ aTasks' = Tail(aTasks))
      BY <2>4 DEF Work, WorkerLoop, Sleep, TakeTask, ReachBarrier, LeaveBarrier, TakeExit,
         ReturnFromExecute
    <3>2. QED
      BY <1>2, <1>3, <1>5, <3>1
  <2>5. ASSUME NEW w \in Workers, ForkBuild(w) PROVE OnlyTasks'
    BY <1>1, <1>5, <2>5, TaskFacts DEF ForkBuild, Schedule, Builders
  <2>6. ASSUME NEW w \in Workers, EndBuild(w) \/ EndEvaluation(w) PROVE OnlyTasks'
    BY <1>3, <1>5, <2>6 DEF EndBuild, EndEvaluation, YieldResult
  <2>7. QED
    BY <1>5, <2>1, <2>2, <2>3, <2>4, <2>5, <2>6
       DEF LifeNext, AnalysisNext, CoordinatorStep, ScheduleInitially, ScheduleAfterResult,
           DestroyPool
<1>6. QED
  BY <1>4, <1>5

\* Taking a result, a yield or a quiet step submits nothing; forks and evaluators are
\* not functions.
LEMMA OthersSubmit ==
  ASSUME SoundPool, TrackerInv, [LifeNext]_analysisVars, ~NextTaken
  PROVE  /\ \A f \in Functions : submission'[<<f, Build>>] = submission[<<f, Build>>]
         /\ \A t \in Tasks : submission'[t] = "silent" => submission[t] = "silent"
         /\ UNCHANGED aFunctionList
         /\ \/ UNCHANGED aSignals
            \/ aSignals' = Append(aSignals, Signal("CoordinatorFinished", NoGraph))
            \/ \E b \in Builders : aSignals' = Append(aSignals, Signal("ResultReady", b))
<1>0. submission \in [Tasks -> Submissions] /\ \A f \in Functions : <<f, Build>> \in Tasks
  BY ResultFacts, TaskFacts DEF SoundPool, Builders
<1>1. CASE NextRefused \/ ResultTaken \/ Finishes \/ Unnoticed
  BY <1>1 DEF NextRefused, ResultTaken, Finishes, Unnoticed, Quiet, Delivers, coordinatorVars
<1>2. CASE EvaluatorScheduled
  <2>1. PICK b \in Builders, e \in Evaluators :
          submission' = [submission EXCEPT ![<<b, e>>] = "notified"]
    BY <1>2 DEF EvaluatorScheduled
  <2>2. \A f \in Functions : <<f, Build>> # <<b, e>>
    BY PairFacts
  <2>3. QED
    BY <1>0, <1>2, <2>1, <2>2 DEF EvaluatorScheduled
<1>3. ASSUME NEW w \in Workers, Forked(w)
      PROVE  /\ \A f \in Functions : submission'[<<f, Build>>] = submission[<<f, Build>>]
             /\ \A t \in Tasks : submission'[t] = "silent" => submission[t] = "silent"
             /\ UNCHANGED <<aFunctionList, aSignals>>
  <2>1. PICK k \in Forks : submission' = [submission EXCEPT ![<<k, Build>>] = "notified"]
    BY <1>3 DEF Forked
  <2>2. \A f \in Functions : <<f, Build>> # <<k, Build>>
    BY PairFacts, AnalysisAssumption
  <2>3. QED
    BY <1>0, <1>3, <2>1, <2>2 DEF Forked, coordinatorVars
<1>4. ASSUME NEW w \in Workers, Ended(w)
      PROVE  submission' = submission /\ UNCHANGED <<aFunctionList, aSignals>>
  BY <1>4 DEF Ended, Yields, coordinatorVars
<1>5. QED
  BY <1>1, <1>2, <1>3, <1>4, StepKinds

\* The function that is taken leaves the list, and its build has been submitted.
LEMMA FunctionsLeftStep ==
  ASSUME SoundPool, TrackerInv, FunctionsLeft, [LifeNext]_analysisVars
  PROVE  FunctionsLeft'
<1>1. CASE ~NextTaken
  BY <1>1, OthersSubmit DEF FunctionsLeft
<1>2. CASE NextTaken
  <2> DEFINE h == Head(aFunctionList)
             t == <<h, Build>>
  <2>1. /\ aFunctionList # <<>> /\ aFunctionList' = Tail(aFunctionList) /\ h \in Functions
        /\ submission' = [submission EXCEPT ![t] = "silent"]
    BY <1>2 DEF NextTaken
  <2>2. aFunctionList \in Seq(Functions) /\ submission \in [Tasks -> Submissions]
    BY ResultFacts DEF SoundPool, CoordinatorInv, AnalysisTypeOK
  <2>3. 1 \in DOMAIN aFunctionList /\ aFunctionList[1] = h
    BY <2>1, <2>2, TailPositions
  <2>4. \A i, j \in DOMAIN aFunctionList' :
          aFunctionList'[i] = aFunctionList'[j] => i = j
    <3> SUFFICES ASSUME NEW i \in DOMAIN aFunctionList', NEW j \in DOMAIN aFunctionList',
                        aFunctionList'[i] = aFunctionList'[j]
                 PROVE  i = j
      OBVIOUS
    <3>1. /\ i + 1 \in DOMAIN aFunctionList /\ j + 1 \in DOMAIN aFunctionList
          /\ i \in Int /\ j \in Int
          /\ aFunctionList[i + 1] = aFunctionList[j + 1]
      BY <2>1, <2>2, TailPositions
    <3>2. i + 1 = j + 1
      BY <3>1 DEF FunctionsLeft
    <3>3. QED
      BY <3>1, <3>2
  <2>5. ASSUME NEW f \in Functions
        PROVE  f \in RangeOf(aFunctionList)' <=> f \in RangeOf(aFunctionList) /\ f # h
    <3>1. ASSUME NEW i \in DOMAIN aFunctionList', aFunctionList'[i] = f
          PROVE  f \in RangeOf(aFunctionList) /\ f # h
      <4>1. i + 1 \in DOMAIN aFunctionList /\ i + 1 # 1 /\ aFunctionList[i + 1] = f
        BY <2>1, <2>2, <3>1, TailPositions
      <4>2. f # h
        BY <2>3, <4>1 DEF FunctionsLeft
      <4>3. QED
        BY <4>1, <4>2 DEF RangeOf
    <3>2. ASSUME NEW i \in DOMAIN aFunctionList, aFunctionList[i] = f, f # h
          PROVE  f \in RangeOf(aFunctionList)'
      <4>1. i # 1
        BY <2>3, <3>2
      <4>2. i - 1 \in DOMAIN aFunctionList' /\ aFunctionList'[i - 1] = f
        BY <2>1, <2>2, <3>2, <4>1, TailKeepsRest
      <4>3. QED
        BY <4>2 DEF RangeOf
    <3>3. QED
      BY <3>1, <3>2 DEF RangeOf
  <2>6. ASSUME NEW f \in Functions
        PROVE  submission'[<<f, Build>>] = "none" <=> submission[<<f, Build>>] = "none" /\ f # h
    <3>1. <<f, Build>> \in Tasks
      BY TaskFacts DEF Builders
    <3>2. <<f, Build>> = t <=> f = h
      BY PairFacts
    <3>3. QED
      BY <2>1, <2>2, <3>1, <3>2
  <2>7. QED
    BY <2>4, <2>5, <2>6 DEF FunctionsLeft
<1>3. QED
  BY <1>1, <1>2

\* Each function that is taken is signalled.
LEMMA EveryFunctionSignalledStep ==
  ASSUME SoundPool, TrackerInv, EveryFunctionSignalled, [LifeNext]_analysisVars
  PROVE  EveryFunctionSignalled'
<1>0. aSignals \in Seq(Signals) /\ aFunctionList \in Seq(Functions)
  BY DEF SoundPool, CoordinatorInv, AnalysisTypeOK
<1>1. CASE ~NextTaken
  <2>1. Count("NextFunction")' = Count("NextFunction")
    <3>1. ASSUME NEW s \in Signals, s.name # "NextFunction", aSignals' = Append(aSignals, s)
          PROVE  Count("NextFunction")' = Count("NextFunction")
      BY <1>0, <3>1, CountAppend
    <3>2. CASE UNCHANGED aSignals
      BY <3>2 DEF Count
    <3>3. CASE aSignals' = Append(aSignals, Signal("CoordinatorFinished", NoGraph))
      BY <3>1, <3>3, SignalFacts
    <3>4. CASE \E b \in Builders : aSignals' = Append(aSignals, Signal("ResultReady", b))
      BY <3>1, <3>4, SignalFacts
    <3>5. QED
      BY <1>1, <3>2, <3>3, <3>4, OthersSubmit
  <2>2. aFunctionList' = aFunctionList
    BY <1>1, OthersSubmit
  <2>3. QED
    BY <2>1, <2>2 DEF EveryFunctionSignalled
<1>2. CASE NextTaken
  <2>1. /\ aFunctionList # <<>> /\ aFunctionList' = Tail(aFunctionList)
        /\ aSignals' = Append(aSignals, Signal("NextFunction", NoGraph))
    BY <1>2 DEF NextTaken
  <2>2. Count("NextFunction") \in Nat /\ Count("NextFunction")' = Count("NextFunction") + 1
    BY <1>0, <2>1, CountAppend, SignalFacts
  <2>3. Len(aFunctionList) \in Nat /\ Len(aFunctionList') = Len(aFunctionList) - 1
    BY <1>0, <2>1, HeadTailProperties, LenProperties
  <2>4. QED
    BY <2>2, <2>3 DEF EveryFunctionSignalled
<1>3. QED
  BY <1>1, <1>2

\* What is outstanding after the steps that the coordinator does not take.
LEMMA OutstandingKept ==
  ASSUME SoundPool, NEW t \in Tasks,
         Unnoticed \/ NextRefused \/ \E w \in Workers : Forked(w) \/ Ended(w)
  PROVE  Outstanding(t) => Outstanding(t)'
<1>0. OnceInv
  BY DEF SoundPool
<1>1. CASE Unnoticed \/ NextRefused
  BY <1>1 DEF Unnoticed, NextRefused, Quiet, Outstanding, Yielded
<1>2. ASSUME NEW u, Submits(u) PROVE Outstanding(t) => Outstanding(t)'
  BY <1>0, <1>2, SubmitsLife DEF Outstanding
<1>3. ASSUME NEW u, NEW dwType \in ResultTypes, Yields(u, dwType)
      PROVE  Outstanding(t) => Outstanding(t)'
  BY <1>0, <1>3, YieldsLife DEF Outstanding
<1>4. ASSUME NEW w \in Workers, Forked(w) PROVE Outstanding(t) => Outstanding(t)'
  BY <1>2, <1>4 DEF Forked
<1>5. ASSUME NEW w \in Workers, Ended(w) PROVE Outstanding(t) => Outstanding(t)'
  <2>1. PICK u : u = stTask[w]
    OBVIOUS
  <2>2. QED
    BY <1>3, <1>5, <2>1 DEF Ended
<1>6. QED
  BY <1>1, <1>4, <1>5

\* A function is left over only when the pool's list is full of tasks.
LEMMA WorkLeftStep ==
  ASSUME SoundPool, TrackerInv, OnlyTasks, WorkLeft, [LifeNext]_analysisVars
  PROVE  WorkLeft'
<1>0. OnceInv
  BY DEF SoundPool
<1>1. CASE NextTaken
  <2>1. PICK t : t = <<Head(aFunctionList), Build>>
    OBVIOUS
  <2>2. t \in Tasks /\ Unfinished(t)'
    BY <1>0, <1>1, <2>1, SubmitsLife DEF NextTaken
  <2>3. QED
    BY <2>2 DEF WorkLeft, Outstanding
<1>2. CASE NextRefused
  <2>1. CASE aFunctionList = <<>>
    BY <1>2, <2>1 DEF NextRefused, WorkLeft
  <2>2. CASE ~ResourceAvailable
    <3>1. dwNumThreads \in Nat /\ dwNumThreads # 0
      BY PoolAssumption, FS_CardinalityType, FS_EmptySet DEF dwNumThreads
    <3>2. aTasks \in Seq(Tasks \cup {SYNCHRONIZE, EXIT}) /\ Len(aTasks) \in Nat
      BY <1>0, ResultFacts, LenProperties
    <3>3. 1 \in DOMAIN aTasks
      BY <2>2, <3>1, <3>2, LenProperties DEF ResourceAvailable
    <3>4. PICK t \in Tasks : t = aTasks[1]
      BY <1>2, <3>3 DEF OnlyTasks, NextRefused
    <3>5. Outstanding(t)
      BY <3>3, <3>4 DEF Outstanding, Unfinished, InList
    <3>6. QED
      BY <1>2, <3>5, OutstandingKept DEF WorkLeft
  <2>3. QED
    BY <1>2, <2>1, <2>2 DEF NextRefused
<1>3. CASE EvaluatorScheduled \/ ResultTaken \/ Finishes
  BY <1>3 DEF EvaluatorScheduled, ResultTaken, Finishes, WorkLeft
<1>4. CASE Unnoticed \/ \E w \in Workers : Forked(w) \/ Ended(w)
  <2>1. UNCHANGED coordinatorVars
    BY <1>4 DEF Unnoticed, Forked, Ended
  <2>2. coordinator' = coordinator /\ aFunctionList' = aFunctionList
    BY <2>1 DEF coordinatorVars
  <2>3. QED
    BY <1>4, <2>2, OutstandingKept DEF WorkLeft
<1>5. QED
  BY <1>1, <1>2, <1>3, <1>4, StepKinds

\* When WaitForResult returned nullptr nothing is outstanding, and nothing becomes so.
LEMMA NothingLeftStep ==
  ASSUME SoundPool, TrackerInv, WorkLeft, NothingLeft, [LifeNext]_analysisVars
  PROVE  NothingLeft'
<1>0. OnceInv /\ ActiveInv
  BY DEF SoundPool, StrandedInv
<1>1. CASE NextTaken \/ NextRefused \/ EvaluatorScheduled \/ ResultTaken
  BY <1>1 DEF NextTaken, NextRefused, EvaluatorScheduled, ResultTaken, NothingLeft
<1>2. CASE Finishes
  <2>1. aResults = <<>> /\ PoolIdle /\ coordinator = "wait"
    BY <1>2 DEF Finishes, Finish, NoMoreResults
  <2>2. \A w \in Workers : worker[w] # "execute"
    BY <1>0, <2>1, IdleFromCount DEF IdleIsIdle, HoldsTask
  <2>3. \A t : ~Outstanding(t)
    BY <2>1, <2>2 DEF Outstanding, Unfinished, Yielded, InList, PoolIdle
  <2>4. \A t \in Tasks : ~Outstanding(t)'
    <3>1. \A t \in Tasks : ~Unfinished(t)'
      BY <1>2, <2>3 DEF Finishes, Quiet, Outstanding
    <3>2. aResults' = <<>>
      BY <1>2, <2>1 DEF Finishes, Quiet
    <3>3. QED
      BY <3>1, <3>2 DEF Outstanding, Yielded
  <2>5. aFunctionList' = <<>>
    BY <1>2, <2>1, <2>3 DEF Finishes, WorkLeft
  <2>6. QED
    BY <2>4, <2>5 DEF NothingLeft
<1>3. CASE Unnoticed
  <2>1. \A t \in Tasks : Outstanding(t)' <=> Outstanding(t)
    BY <1>3 DEF Unnoticed, Quiet, Outstanding, Yielded
  <2>2. coordinator' = coordinator /\ aFunctionList' = aFunctionList
    BY <1>3 DEF Unnoticed, coordinatorVars
  <2>3. QED
    BY <2>1, <2>2 DEF NothingLeft
<1>4. ASSUME NEW w \in Workers, Forked(w) \/ Ended(w) PROVE NothingLeft'
  <2>1. Unfinished(stTask[w]) /\ coordinator' = coordinator
    BY <1>4 DEF Forked, Ended, Yields, coordinatorVars
  <2>2. stTask[w] \in Tasks
    BY <1>4 DEF Forked, Ended, Yields
  <2>3. coordinator # "finished"
    BY <2>1, <2>2 DEF NothingLeft, Outstanding
  <2>4. QED
    BY <2>1, <2>3 DEF NothingLeft
<1>5. QED
  BY <1>1, <1>2, <1>3, <1>4, StepKinds

\* Only the coordinator's next function enters the pool silently.
LEMMA SilentFunctionsStep ==
  ASSUME SoundPool, TrackerInv, SilentFunctions, [LifeNext]_analysisVars
  PROVE  SilentFunctions'
<1>1. CASE ~NextTaken
  BY <1>1, OthersSubmit DEF SilentFunctions
<1>2. CASE NextTaken
  BY <1>2, ResultFacts DEF NextTaken, SilentFunctions, SoundPool
<1>3. QED
  BY <1>1, <1>2

\* Every step keeps what is known of the work that is left.
LEMMA CompletionInvStep ==
  SoundPool /\ TrackerInv /\ CompletionInv /\ [LifeNext]_analysisVars => CompletionInv'
  BY OnlyTasksStep, FunctionsLeftStep, EveryFunctionSignalledStep, WorkLeftStep,
     NothingLeftStep, SilentFunctionsStep DEF CompletionInv

\* A finished analysis has reported every graph, whatever was scheduled for it.
LEMMA FinishedIsDone == SoundPool /\ TrackerInv /\ CompletionInv => FinishedMeansDone
<1> SUFFICES ASSUME SoundPool, TrackerInv, CompletionInv, coordinator = "finished"
             PROVE  /\ aFunctionList = <<>> /\ Count("NextFunction") = Len(aSelection)
                    /\ \A t \in Tasks : ~Unfinished(t) /\ ~Yielded(t)
                    /\ aResultTracker = {}
                    /\ \A b \in Builders, e \in Evaluators :
                         submission[<<b, e>>] # "none" => b \in Reported
  BY DEF FinishedMeansDone
<1>1. aFunctionList = <<>> /\ \A t \in Tasks : ~Unfinished(t) /\ ~Yielded(t)
  BY DEF CompletionInv, NothingLeft, Outstanding
<1>2. Count("NextFunction") = Len(aSelection)
  <2>1. Count("NextFunction") \in Nat
    <3>1. aSignals \in Seq(Signals)
      BY DEF SoundPool, CoordinatorInv, AnalysisTypeOK
    <3>2. IsFiniteSet(DOMAIN aSignals)
      BY <3>1, LenProperties, FS_Interval
    <3>3. IsFiniteSet({i \in DOMAIN aSignals : aSignals[i].name = "NextFunction"})
      BY <3>2, FS_Subset
    <3>4. QED
      BY <3>3, FS_CardinalityType DEF Count
  <2>2. Len(aFunctionList) = 0
    BY <1>1, EmptySeq
  <2>3. QED
    BY <2>1, <2>2 DEF CompletionInv, EveryFunctionSignalled
<1>3. \A b \in Builders, e \in Evaluators : oAnalysisResult[b][e] # "null"
  BY <1>1, TaskFacts DEF TrackerInv, EntriesMatch
<1>4. \A b \in Builders : Untouched(b) \/ Completed(b)
  <2> SUFFICES ASSUME NEW b \in Builders PROVE Untouched(b) \/ Completed(b)
    OBVIOUS
  <2>1. oCodeGraph = NoGraph /\ NoGraph # b
    BY AnalysisAssumption DEF SoundPool, CoordinatorInv, AnalysisTypeOK
  <2>2. ~Opening(b) /\ ~Tracked(b)
    BY <1>3, <2>1 DEF Opening, Tracked
  <2>3. QED
    BY <2>2 DEF TrackerInv, InStage
<1>5. aResultTracker = {}
  <2>1. aResultTracker \subseteq Builders
    BY DEF SoundPool, CoordinatorInv, AnalysisTypeOK
  <2>2. QED
    BY <1>4, <2>1 DEF Untouched, Completed
<1>6. ASSUME NEW b \in Builders, NEW e \in Evaluators, submission[<<b, e>>] # "none"
      PROVE  b \in Reported
  <2>1. oAnalysisResult[b][e] # "absent"
    BY <1>6 DEF TrackerInv, EntriesMatch
  <2>2. Completed(b)
    BY <1>4, <2>1 DEF Untouched
  <2>3. QED
    BY <2>2 DEF Completed, Reported
<1>7. QED
  BY <1>1, <1>2, <1>5, <1>6

\* When the coordinator says that the analysis is finished, every function was scheduled
\* and signalled, no task is left and every graph was reported.
THEOREM FinishedMeansDoneCorrect == AnalysisSpec => []FinishedMeansDone
  BY FinishedIsDone, SoundPoolInit, SoundPoolStep, TrackerInvInit, TrackerInvStep,
     CompletionInvInit, CompletionInvStep, AnalysisLives, PTL DEF AnalysisSpec

-------------------------------------------------------------------------------
(* Who waits for what. *)

\* The client that waits for a result has none to take, and the pool has work.
Blocked == caller = "waitResult" => aResults = <<>> /\ ~PoolIdle

\* A wait for a result goes on only while there is no result and the pool has work:
\* a yield ends it, and so does the worker that falls asleep last.
LEMMA BlockedStep ==
  ASSUME ActiveInv, ActiveInv', Blocked, [PoolNext]_poolVars
  PROVE  Blocked'
<1> SUFFICES ASSUME caller' = "waitResult" PROVE aResults' = <<>> /\ ~PoolIdle'
  BY DEF Blocked
<1>0. worker' \in [Workers -> WorkerStates] /\ worker \in [Workers -> WorkerStates]
      /\ dwNumActive \in Int
  BY DEF ActiveInv, Typed
<1>1. ASSUME NEW w \in Workers, worker'[w] \in ActiveStates PROVE ~PoolIdle'
  <2>1. w \in Active'
    BY <1>1 DEF Active
  <2>2. Active' \subseteq Workers
    BY DEF Active
  <2>3. IsFiniteSet(Active')
    BY <2>2, FS_Subset, PoolAssumption
  <2>4. Cardinality(Active') # 0
    BY <2>1, <2>3, FS_EmptySet
  <2>5. dwNumActive' = Cardinality(Active')
    BY DEF ActiveInv, ActiveCount
  <2>6. QED
    BY <2>4, <2>5 DEF PoolIdle
<1>2. CASE BlockForResult
  BY <1>2 DEF BlockForResult, PoolIdle
<1>3. ASSUME UNCHANGED <<aResults, aTasks, dwNumActive, caller>>
      PROVE  aResults' = <<>> /\ ~PoolIdle'
  BY <1>3 DEF Blocked, PoolIdle
<1>4. CASE ClientStep
  <2>1. ~BlockForResult => caller' # "waitResult"
    BY <1>4 DEF ClientStep, Schedule, ScheduleIfResourceAvailable, TakeResult, NoMoreResults,
       Synchronize, CheckBarrier, Destroy, Join
  <2>2. QED
    BY <1>2, <2>1
<1>5. ASSUME NEW w \in Workers, WorkerStep(w) \/ TaskSchedules(w)
      PROVE  aResults' = <<>> /\ ~PoolIdle'
  <2>1. CASE Sleep(w)
    <3>1. caller' = caller /\ aResults' = aResults /\ dwNumActive' # 0
      BY <2>1 DEF Sleep, NotifyYield
    <3>2. QED
      BY <3>1 DEF Blocked, PoolIdle
  <2>2. CASE TakeTask(w) \/ ReachBarrier(w) \/ LeaveBarrier(w) \/ TakeExit(w)
             \/ ReturnFromExecute(w)
    <3>1. aResults' = aResults
      BY <2>2 DEF TakeTask, ReachBarrier, LeaveBarrier, TakeExit, ReturnFromExecute
    <3>2. caller = "waitResult"
      BY <2>2 DEF TakeTask, ReachBarrier, LeaveBarrier, TakeExit, ReturnFromExecute
    <3>3. worker'[w] \in ActiveStates
      BY <1>0, <2>2 DEF TakeTask, ReachBarrier, LeaveBarrier, TakeExit, ReturnFromExecute,
         NotifyBarrier, ActiveStates, WorkerStates
    <3>4. QED
      BY <1>1, <3>1, <3>2, <3>3 DEF Blocked
  <2>3. ASSUME NEW dwType \in ResultTypes, YieldResult(w, dwType) PROVE FALSE
    BY <2>3 DEF YieldResult, NotifyYield
  <2>4. CASE TaskSchedules(w)
    <3>1. PICK t \in Tasks : Schedule(t)
      BY <2>4 DEF TaskSchedules
    <3>2. aResults' = aResults /\ caller' = caller
      BY <3>1 DEF Schedule
    <3>3. aTasks' = Append(aTasks, t) /\ aTasks \in Seq(Tasks \cup {SYNCHRONIZE, EXIT})
      BY <3>1 DEF Schedule, ActiveInv, Typed
    <3>4. Len(aTasks') = Len(aTasks) + 1 /\ Len(aTasks) \in Nat
      BY <3>3, AppendProperties, LenProperties
    <3>5. aTasks' # <<>>
      BY <3>4, EmptySeq
    <3>6. QED
      BY <3>2, <3>5 DEF Blocked, PoolIdle
  <2>5. QED
    BY <1>5, <2>1, <2>2, <2>3, <2>4 DEF WorkerStep, WorkerLoop
<1>6. CASE SpuriousWakeup
  <2>1. UNCHANGED <<aResults, aTasks, dwNumActive, caller>>
    BY <1>6 DEF SpuriousWakeup
  <2>2. QED
    BY <1>3, <2>1
<1>7. CASE UNCHANGED poolVars
  BY <1>3, <1>7 DEF poolVars
<1>8. QED
  BY <1>4, <1>5, <1>6, <1>7 DEF PoolNext

\* Everything that is known of an analysis
AnalysisInv == SoundPool /\ TrackerInv /\ CompletionInv /\ Blocked

\* Initially it holds.
LEMMA AnalysisInvInit == AnalysisInit => AnalysisInv
<1>1. AnalysisInit => Blocked
  BY DEF AnalysisInit, PoolInit, Blocked
<1>2. QED
  BY <1>1, SoundPoolInit, TrackerInvInit, CompletionInvInit DEF AnalysisInv

\* Every step keeps it.
LEMMA AnalysisInvStep == AnalysisInv /\ [LifeNext]_analysisVars => AnalysisInv'
<1> SUFFICES ASSUME AnalysisInv, [LifeNext]_analysisVars PROVE AnalysisInv'
  OBVIOUS
<1>1. SoundPool' /\ TrackerInv' /\ CompletionInv'
  BY SoundPoolStep, TrackerInvStep, CompletionInvStep DEF AnalysisInv
<1>2. [PoolNext]_poolVars
  BY AnalysisStepsPool DEF AnalysisInv, SoundPool
<1>3. Blocked'
  BY <1>1, <1>2, BlockedStep DEF AnalysisInv, SoundPool, StrandedInv
<1>4. QED
  BY <1>1, <1>3 DEF AnalysisInv

\* When everybody waits, nothing but builds of selected functions that were never
\* begun can be left: every notified task, every graph and every result was taken
\* care of.
THEOREM OnlyFunctionsStrandedCorrect == AnalysisSpec => []OnlyFunctionsStranded
<1>1. AnalysisInv => OnlyFunctionsStranded
  <2> SUFFICES ASSUME AnalysisInv, EverybodyWaits
               PROVE  /\ aResults = <<>> /\ aResultTracker = {} /\ aTasks # <<>>
                      /\ \A i \in DOMAIN aTasks : aTasks[i] \in Functions \X {Build}
    BY DEF OnlyFunctionsStranded
  <2>1. caller = "waitResult" /\ \A w \in Workers : worker[w] = "waiting"
    BY DEF EverybodyWaits, IsWaiting
  <2>2. aResults = <<>> /\ ~PoolIdle
    BY <2>1 DEF AnalysisInv, Blocked
  <2>3. aTasks # <<>>
    <3>1. Active = {}
      BY <2>1 DEF Active, ActiveStates
    <3>2. dwNumActive = 0
      BY <3>1, FS_EmptySet DEF AnalysisInv, SoundPool, StrandedInv, ActiveInv, ActiveCount
    <3>3. QED
      BY <2>2, <3>2 DEF PoolIdle
  <2>4. coordinator = "wait"
    BY <2>1 DEF AnalysisInv, SoundPool, CoordinatorInv
  <2>5. \A i \in DOMAIN aTasks : aTasks[i] \in Functions \X {Build}
    <3> SUFFICES ASSUME NEW i \in DOMAIN aTasks PROVE aTasks[i] \in Functions \X {Build}
      OBVIOUS
    <3>1. aTasks[i] \in Tasks
      BY <2>4 DEF AnalysisInv, CompletionInv, OnlyTasks
    <3>2. submission[aTasks[i]] = "silent"
      BY <2>1, <3>1 DEF AnalysisInv, SoundPool, StrandedInv, NoScheduledTaskStranded
    <3>3. QED
      BY <3>1, <3>2 DEF AnalysisInv, CompletionInv, SilentFunctions
  <2>6. \A b \in Builders, e \in Evaluators : oAnalysisResult[b][e] # "null"
    <3> SUFFICES ASSUME NEW b \in Builders, NEW e \in Evaluators
                 PROVE  ~Unfinished(<<b, e>>) /\ ~Yielded(<<b, e>>)
      BY DEF AnalysisInv, TrackerInv, EntriesMatch
    <3>1. <<b, e>> \notin Functions \X {Build}
      BY PairFacts
    <3>2. QED
      BY <2>1, <2>2, <2>5, <3>1 DEF Unfinished, Yielded, InList
  <2>7. \A b \in Builders : ~Tracked(b)
    BY <2>6 DEF Tracked
  <2>8. aResultTracker = {}
    <3>1. aResultTracker \subseteq Builders
      BY DEF AnalysisInv, SoundPool, CoordinatorInv, AnalysisTypeOK
    <3>2. \A b \in Builders : b \notin aResultTracker
      BY <2>7 DEF AnalysisInv, TrackerInv, InStage, Untouched, Opening, Completed
    <3>3. QED
      BY <3>1, <3>2
  <2>9. QED
    BY <2>2, <2>3, <2>5, <2>8
<1>2. QED
  BY <1>1, AnalysisInvInit, AnalysisInvStep, AnalysisLives, PTL DEF AnalysisSpec

-------------------------------------------------------------------------------
(* The analysis implements AnalysisContract: what the contract calls pending,      *)
(* started, building, evaluated and reported, and the graphs in the result list.   *)

Pending == RangeOf(aFunctionList)
StartedBuilds == {b \in Builders : submission[<<b, Build>>] # "none"}
Building == {b \in Builders : Unfinished(<<b, Build>>)}
Evaluated == [b \in Builders |-> {e \in Evaluators :
                submission[<<b, e>>] # "none" /\ ~Unfinished(<<b, e>>)}]
GraphResult(b) == [task |-> <<b, Build>>, dwType |-> "CODE_GRAPH"]
YieldedGraphs == {b \in Builders : \E i \in DOMAIN aResults : aResults[i] = GraphResult(b)}
Over == coordinator = "finished"

\* The graphs of the contract, before and after a step
LEMMA GraphsAre ==
  /\ Graphs = YieldedGraphs \cup ({oCodeGraph} \ {NoGraph}) \cup aResultTracker
  /\ Graphs' = YieldedGraphs' \cup ({oCodeGraph'} \ {NoGraph}) \cup aResultTracker'
  BY DEF Graphs, YieldedGraphs, GraphResult

\* The steps of the contract in these terms: a pending function is started.
LEMMA ContractStart ==
  ASSUME NEW f \in Functions, ~Over, Over' = Over, f \in Pending, Pending' = Pending \ {f},
         StartedBuilds' = StartedBuilds \cup {f}, Building' = Building \cup {f},
         Graphs' = Graphs, Evaluated' = Evaluated, Reported' = Reported
  PROVE  Contract!Start(f)
  BY DEF Contract!Start, Pending, StartedBuilds, Building, Evaluated, Over

\* A build that is not over forks.
LEMMA ContractFork ==
  ASSUME NEW b \in Building, NEW k \in Forks, k \notin StartedBuilds,
         StartedBuilds' = StartedBuilds \cup {k}, Building' = Building \cup {k},
         Pending' = Pending, Graphs' = Graphs, Evaluated' = Evaluated, Reported' = Reported,
         Over' = Over
  PROVE  Contract!Fork(b, k)
  BY DEF Contract!Fork, Pending, StartedBuilds, Building, Evaluated, Over

\* A build ends, with a graph or with an error.
LEMMA ContractEndBuild ==
  ASSUME NEW b \in Building, NEW isGraph \in BOOLEAN, Building' = Building \ {b},
         Graphs' = (IF isGraph THEN Graphs \cup {b} ELSE Graphs),
         Pending' = Pending, StartedBuilds' = StartedBuilds, Evaluated' = Evaluated,
         Reported' = Reported, Over' = Over
  PROVE  Contract!EndBuild(b, isGraph)
  BY DEF Contract!EndBuild, Pending, StartedBuilds, Building, Evaluated, Over

\* An evaluator is done with a graph that was not reported.
LEMMA ContractEvaluate ==
  ASSUME NEW b \in Graphs, NEW e \in Evaluators, e \notin Evaluated[b],
         Evaluated' = [Evaluated EXCEPT ![b] = @ \cup {e}],
         Pending' = Pending, StartedBuilds' = StartedBuilds, Building' = Building,
         Graphs' = Graphs, Reported' = Reported, Over' = Over
  PROVE  Contract!Evaluate(b, e)
  BY DEF Contract!Evaluate, Pending, StartedBuilds, Building, Evaluated, Over

\* A graph that all evaluators are done with is reported.
LEMMA ContractReport ==
  ASSUME NEW b \in Graphs, Evaluated[b] = Evaluators, Graphs' = Graphs \ {b},
         Reported' = Reported \cup {b},
         Pending' = Pending, StartedBuilds' = StartedBuilds, Building' = Building,
         Evaluated' = Evaluated, Over' = Over
  PROVE  Contract!Report(b)
  BY DEF Contract!Report, Pending, StartedBuilds, Building, Evaluated, Over

\* The analysis is over when nothing is left.
LEMMA ContractFinish ==
  ASSUME ~Over, Over' = TRUE, Pending = {}, Building = {}, Graphs = {},
         Pending' = Pending, StartedBuilds' = StartedBuilds, Building' = Building,
         Graphs' = Graphs, Evaluated' = Evaluated, Reported' = Reported
  PROVE  Contract!Finish
  BY DEF Contract!Finish, Pending, StartedBuilds, Building, Evaluated, Over

\* A step that changes none of these is no step of the contract.
LEMMA ContractStutter ==
  ASSUME Pending' = Pending, StartedBuilds' = StartedBuilds, Building' = Building,
         Graphs' = Graphs, Evaluated' = Evaluated, Reported' = Reported, Over' = Over
  PROVE  UNCHANGED Contract!vars
  BY DEF Contract!vars, Pending, StartedBuilds, Building, Evaluated, Over

\* A task that starts, ends or is evaluated changes the sets that it belongs to.
LEMMA TasksUnmoved ==
  ASSUME submission' = submission, \A u \in Tasks : Unfinished(u)' <=> Unfinished(u)
  PROVE  StartedBuilds' = StartedBuilds /\ Building' = Building /\ Evaluated' = Evaluated
<1>1. \A b \in Builders : Unfinished(<<b, Build>>)' <=> Unfinished(<<b, Build>>)
  BY TaskFacts
<1>2. \A b \in Builders, e \in Evaluators :
        Unfinished(<<b, e>>)' <=> Unfinished(<<b, e>>)
  BY TaskFacts
<1>3. StartedBuilds' = StartedBuilds /\ Building' = Building
  BY <1>1 DEF StartedBuilds, Building
<1>4. Evaluated' = Evaluated
  BY <1>2 DEF Evaluated
<1>5. QED
  BY <1>3, <1>4

\* Scheduling a build starts it.
LEMMA SubmittedBuild ==
  ASSUME OnceInv, NEW c \in Builders, Submits(<<c, Build>>)
  PROVE  /\ c \notin StartedBuilds
         /\ StartedBuilds' = StartedBuilds \cup {c} /\ Building' = Building \cup {c}
         /\ Evaluated' = Evaluated /\ YieldedGraphs' = YieldedGraphs
<1> DEFINE t == <<c, Build>>
<1>1. /\ t \in Tasks /\ Unfinished(t)' /\ submission'[t] # "none" /\ submission[t] = "none"
      /\ aResults' = aResults
      /\ \A u \in Tasks : u # t => /\ Unfinished(u)' <=> Unfinished(u)
                                   /\ submission'[u] = submission[u]
  BY SubmitsLife DEF Submits
<1>2. ASSUME NEW b \in Builders, b # c
      PROVE  /\ Unfinished(<<b, Build>>)' <=> Unfinished(<<b, Build>>)
             /\ submission'[<<b, Build>>] = submission[<<b, Build>>]
  BY <1>1, <1>2, TaskFacts, PairFacts
<1>3. ASSUME NEW b \in Builders, NEW e \in Evaluators
      PROVE  /\ Unfinished(<<b, e>>)' <=> Unfinished(<<b, e>>)
             /\ submission'[<<b, e>>] = submission[<<b, e>>]
  BY <1>1, TaskFacts, PairFacts
<1>4. StartedBuilds' = StartedBuilds \cup {c} /\ Building' = Building \cup {c}
  BY <1>1, <1>2 DEF StartedBuilds, Building
<1>5. Evaluated' = Evaluated
  BY <1>3 DEF Evaluated
<1>6. YieldedGraphs' = YieldedGraphs
  BY <1>1 DEF YieldedGraphs
<1>7. QED
  BY <1>1, <1>4, <1>5, <1>6 DEF StartedBuilds

\* Scheduling an evaluation does nothing yet.
LEMMA SubmittedEvaluation ==
  ASSUME OnceInv, NEW c \in Builders, NEW f \in Evaluators, Submits(<<c, f>>)
  PROVE  /\ StartedBuilds' = StartedBuilds /\ Building' = Building
         /\ Evaluated' = Evaluated /\ YieldedGraphs' = YieldedGraphs
<1> DEFINE t == <<c, f>>
<1>1. /\ t \in Tasks /\ Unfinished(t)' /\ submission[t] = "none" /\ aResults' = aResults
      /\ \A u \in Tasks : u # t => /\ Unfinished(u)' <=> Unfinished(u)
                                   /\ submission'[u] = submission[u]
  BY SubmitsLife DEF Submits
<1>2. ASSUME NEW b \in Builders
      PROVE  /\ Unfinished(<<b, Build>>)' <=> Unfinished(<<b, Build>>)
             /\ submission'[<<b, Build>>] = submission[<<b, Build>>]
  BY <1>1, TaskFacts, PairFacts
<1>3. ASSUME NEW b \in Builders, NEW e \in Evaluators
      PROVE  submission'[<<b, e>>] # "none" /\ ~Unfinished(<<b, e>>)'
               <=> submission[<<b, e>>] # "none" /\ ~Unfinished(<<b, e>>)
  BY <1>1, TaskFacts
<1>4. StartedBuilds' = StartedBuilds /\ Building' = Building
  BY <1>2 DEF StartedBuilds, Building
<1>5. Evaluated' = Evaluated
  BY <1>3 DEF Evaluated
<1>6. YieldedGraphs' = YieldedGraphs
  BY <1>1 DEF YieldedGraphs
<1>7. QED
  BY <1>4, <1>5, <1>6

\* A build that yields has ended, with a graph or without.
LEMMA YieldedBuild ==
  ASSUME OnceInv, NEW c \in Builders, NEW dwType \in ResultTypes, Yields(<<c, Build>>, dwType)
  PROVE  /\ c \in Building /\ Building' = Building \ {c}
         /\ StartedBuilds' = StartedBuilds /\ Evaluated' = Evaluated
         /\ YieldedGraphs' = IF dwType = "CODE_GRAPH" THEN YieldedGraphs \cup {c}
                             ELSE YieldedGraphs
<1> DEFINE t == <<c, Build>>
           r == [task |-> t, dwType |-> dwType]
<1>0. t \in Tasks /\ Unfinished(t) /\ submission' = submission
  BY DEF Yields
<1>1. /\ ~Unfinished(t)'
      /\ \A u \in Tasks : u # t => (Unfinished(u)' <=> Unfinished(u))
      /\ \A i \in DOMAIN aResults' :
           (i \in DOMAIN aResults /\ aResults'[i] = aResults[i]) \/ aResults'[i] = r
      /\ \A i \in DOMAIN aResults : i \in DOMAIN aResults' /\ aResults'[i] = aResults[i]
      /\ \E i \in DOMAIN aResults' : aResults'[i] = r
  BY YieldsLife
<1>2. ASSUME NEW b \in Builders, b # c
      PROVE  Unfinished(<<b, Build>>)' <=> Unfinished(<<b, Build>>)
  BY <1>1, <1>2, TaskFacts, PairFacts
<1>3. ASSUME NEW b \in Builders, NEW e \in Evaluators
      PROVE  Unfinished(<<b, e>>)' <=> Unfinished(<<b, e>>)
  BY <1>1, TaskFacts, PairFacts
<1>4. StartedBuilds' = StartedBuilds /\ Building' = Building \ {c} /\ c \in Building
  BY <1>0, <1>1, <1>2 DEF StartedBuilds, Building
<1>5. Evaluated' = Evaluated
  BY <1>0, <1>3 DEF Evaluated
<1>6. \A b \in Builders : r = GraphResult(b) <=> b = c /\ dwType = "CODE_GRAPH"
  BY PairFacts DEF GraphResult
<1> HIDE DEF r
<1>7. \A b \in Builders : (\E i \in DOMAIN aResults' : aResults'[i] = GraphResult(b))
        <=> (\E i \in DOMAIN aResults : aResults[i] = GraphResult(b)) \/ r = GraphResult(b)
  BY <1>1
<1>8. YieldedGraphs' = IF dwType = "CODE_GRAPH" THEN YieldedGraphs \cup {c} ELSE YieldedGraphs
  BY <1>6, <1>7 DEF YieldedGraphs
<1>9. QED
  BY <1>4, <1>5, <1>8

\* An evaluator that yields is done with the graph.
LEMMA YieldedEvaluation ==
  ASSUME OnceInv, NEW c \in Builders, NEW f \in Evaluators,
         Yields(<<c, f>>, "EVALUATION_RESULT")
  PROVE  /\ f \notin Evaluated[c] /\ Evaluated' = [Evaluated EXCEPT ![c] = @ \cup {f}]
         /\ StartedBuilds' = StartedBuilds /\ Building' = Building
         /\ YieldedGraphs' = YieldedGraphs
<1> DEFINE t == <<c, f>>
           r == [task |-> t, dwType |-> "EVALUATION_RESULT"]
<1>1. /\ t \in Tasks /\ Unfinished(t) /\ ~Unfinished(t)' /\ submission' = submission
      /\ \A u \in Tasks : u # t => (Unfinished(u)' <=> Unfinished(u))
      /\ \A i \in DOMAIN aResults' :
           (i \in DOMAIN aResults /\ aResults'[i] = aResults[i]) \/ aResults'[i] = r
      /\ \A i \in DOMAIN aResults : i \in DOMAIN aResults' /\ aResults'[i] = aResults[i]
  BY YieldsLife, AnalysisAssumption DEF Yields
<1>2. ASSUME NEW b \in Builders
      PROVE  Unfinished(<<b, Build>>)' <=> Unfinished(<<b, Build>>)
  BY <1>1, TaskFacts, PairFacts
<1>3. StartedBuilds' = StartedBuilds /\ Building' = Building
  BY <1>1, <1>2 DEF StartedBuilds, Building
<1>4. ASSUME NEW b \in Builders, NEW e \in Evaluators
      PROVE  Unfinished(<<b, e>>)' <=> Unfinished(<<b, e>>) /\ <<b, e>> # t
  BY <1>1, TaskFacts
<1>5. submission[t] # "none"
  BY <1>1, LifeOrder
<1>6. ASSUME NEW b \in Builders
      PROVE  Evaluated'[b] = IF b = c THEN Evaluated[b] \cup {f} ELSE Evaluated[b]
  BY <1>1, <1>4, <1>5, PairFacts DEF Evaluated
<1>7. Evaluated' = [Evaluated EXCEPT ![c] = @ \cup {f}]
  BY <1>6 DEF Evaluated
<1>8. f \notin Evaluated[c]
  BY <1>1 DEF Evaluated
<1>9. \A b \in Builders : r # GraphResult(b)
  BY DEF GraphResult
<1> HIDE DEF r
<1>10. YieldedGraphs' = YieldedGraphs
  BY <1>1, <1>9 DEF YieldedGraphs
<1>11. QED
  BY <1>3, <1>7, <1>8, <1>10

\* Taking a result takes the graph that it holds, if it holds one, out of the list.
LEMMA DeliveredGraphs ==
  ASSUME OnceInv, NEW c \in Builders, NEW t, Delivers(t),
         t = <<c, Build>> \/ Head(aResults).dwType # "CODE_GRAPH"
  PROVE  /\ Head(aResults).dwType # "CODE_GRAPH" => YieldedGraphs' = YieldedGraphs
         /\ Head(aResults).dwType = "CODE_GRAPH" =>
              c \in YieldedGraphs /\ YieldedGraphs' = YieldedGraphs \ {c}
<1>1. /\ aResults \in Seq(Results) /\ aResults # <<>> /\ Head(aResults).task = t
      /\ 1 \in DOMAIN aResults /\ aResults[1] = Head(aResults) /\ aResults[1] \in Results
  BY ResultFacts, TailPositions DEF Delivers
<1>2. /\ ~Yielded(t)'
      /\ \A i \in DOMAIN aResults' : \E j \in DOMAIN aResults : aResults'[i] = aResults[j]
      /\ \A j \in DOMAIN aResults : aResults[j].task # t =>
           \E i \in DOMAIN aResults' : aResults'[i] = aResults[j]
  BY DeliversLife
<1>3. \A j \in DOMAIN aResults : aResults[j].task = t => j = 1
  BY <1>1 DEF OnceInv, OneExecutionPerTask
<1>4. \A b \in Builders : GraphResult(b).task = <<b, Build>> /\ GraphResult(b).dwType = "CODE_GRAPH"
  BY DEF GraphResult
<1>5. CASE Head(aResults).dwType # "CODE_GRAPH"
  <2>1. \A b \in Builders : aResults[1] # GraphResult(b)
    BY <1>1, <1>4, <1>5
  <2>2. \A b \in Builders : (\E i \in DOMAIN aResults' : aResults'[i] = GraphResult(b))
          <=> (\E i \in DOMAIN aResults : aResults[i] = GraphResult(b))
    BY <1>2, <1>3, <2>1
  <2>3. QED
    BY <1>5, <2>2 DEF YieldedGraphs
<1>6. CASE Head(aResults).dwType = "CODE_GRAPH"
  <2>1. t = <<c, Build>> /\ Head(aResults) = GraphResult(c)
    BY <1>1, <1>6 DEF GraphResult, Results
  <2>2. c \in YieldedGraphs
    BY <1>1, <2>1 DEF YieldedGraphs
  <2>3. c \notin YieldedGraphs'
    BY <1>2, <1>4, <2>1 DEF YieldedGraphs, Yielded
  <2>4. \A b \in Builders : b # c => (b \in YieldedGraphs' <=> b \in YieldedGraphs)
    BY <1>2, <1>4, <2>1, PairFacts DEF YieldedGraphs
  <2>5. QED
    BY <1>6, <2>2, <2>3, <2>4 DEF YieldedGraphs
<1>7. QED
  BY <1>5, <1>6

\* The functions that are pending, before and after a step
LEMMA PendingAre ==
  ASSUME SoundPool, SoundPool', CompletionInv, CompletionInv'
  PROVE  /\ Pending = {f \in Functions : submission[<<f, Build>>] = "none"}
         /\ Pending' = {f \in Functions : submission'[<<f, Build>>] = "none"}
<1>1. aFunctionList \in Seq(Functions) /\ aFunctionList' \in Seq(Functions)
  BY DEF SoundPool, CoordinatorInv, AnalysisTypeOK
<1>2. Pending \subseteq Functions /\ Pending' \subseteq Functions
  BY <1>1, ElementOfSeq, LenProperties DEF Pending, RangeOf
<1>3. \A f \in Functions : submission[<<f, Build>>] = "none" <=> f \in Pending
  BY DEF CompletionInv, FunctionsLeft, Pending
<1>4. \A f \in Functions : submission'[<<f, Build>>] = "none" <=> f \in Pending'
  BY DEF CompletionInv, FunctionsLeft, Pending
<1>5. QED
  BY <1>2, <1>3, <1>4

\* A step that reports nothing leaves the reported graphs as they are.
LEMMA ReportedUnmoved == NoReport => Reported' = Reported
  BY DEF NoReport, Reported

\* The graphs are those of the result list unless the coordinator's own ones change.
LEMMA GraphsKnown ==
  ASSUME UNCHANGED Known
  PROVE  /\ YieldedGraphs' = YieldedGraphs => Graphs' = Graphs
         /\ \A c : YieldedGraphs' = YieldedGraphs \cup {c} => Graphs' = Graphs \cup {c}
<1>1. oCodeGraph' = oCodeGraph /\ aResultTracker' = aResultTracker
  BY DEF Known
<1>2. QED
  BY <1>1, GraphsAre

\* The pool takes the next function: the contract starts its build.
LEMMA NextTakenStarts ==
  ASSUME AnalysisInv, AnalysisInv', NextTaken
  PROVE  Contract!Next
<1>1. PICK c \in Functions : c = Head(aFunctionList)
  BY DEF NextTaken
<1>2. /\ OnceInv /\ CoordinatorInv /\ c \in Builders /\ Submits(<<c, Build>>)
      /\ UNCHANGED Known /\ aSignals' = Append(aSignals, Signal("NextFunction", NoGraph))
  BY <1>1 DEF NextTaken, AnalysisInv, SoundPool, Builders
<1>3. /\ c \notin StartedBuilds
      /\ StartedBuilds' = StartedBuilds \cup {c} /\ Building' = Building \cup {c}
      /\ Evaluated' = Evaluated /\ YieldedGraphs' = YieldedGraphs
  BY <1>2, SubmittedBuild
<1>4. Graphs' = Graphs
  BY <1>2, <1>3, GraphsKnown
<1>5. Reported' = Reported
  BY <1>2, OtherSignals, ReportedUnmoved
<1>6. c \in Pending /\ Pending' = Pending \ {c}
  <2>1. \A f \in Functions : f \in StartedBuilds <=> submission[<<f, Build>>] # "none"
    BY DEF StartedBuilds, Builders
  <2>2. \A f \in Functions : f \in StartedBuilds' <=> submission'[<<f, Build>>] # "none"
    BY DEF StartedBuilds, Builders
  <2>3. /\ Pending = {f \in Functions : submission[<<f, Build>>] = "none"}
        /\ Pending' = {f \in Functions : submission'[<<f, Build>>] = "none"}
    BY PendingAre DEF AnalysisInv
  <2>4. QED
    BY <1>3, <2>1, <2>2, <2>3
<1>7. ~Over /\ Over' = Over
  BY DEF NextTaken, Over
<1>8. Contract!Start(c)
  BY <1>3, <1>4, <1>5, <1>6, <1>7, ContractStart
<1>9. QED
  BY <1>8 DEF Contract!Next

\* What neither a task nor the graphs notice is no step of the contract.
LEMMA QuietStutters ==
  ASSUME Quiet, NoReport, UNCHANGED <<Known, aFunctionList>>, Over' = Over
  PROVE  UNCHANGED Contract!vars
<1>1. StartedBuilds' = StartedBuilds /\ Building' = Building /\ Evaluated' = Evaluated
  BY TasksUnmoved DEF Quiet
<1>2. YieldedGraphs' = YieldedGraphs
  BY DEF Quiet, YieldedGraphs
<1>3. Graphs' = Graphs
  BY <1>2, GraphsKnown
<1>4. Pending' = Pending
  BY DEF Pending
<1>5. QED
  BY <1>1, <1>3, <1>4, ContractStutter, ReportedUnmoved

\* A graph stays one while its evaluators are scheduled and when it enters the tracker.
LEMMA SchedulingStutters ==
  ASSUME AnalysisInv, EvaluatorScheduled
  PROVE  UNCHANGED Contract!vars
<1>1. PICK b \in Builders, e \in Evaluators : b = oCodeGraph /\ Submits(<<b, e>>)
  BY DEF EvaluatorScheduled
<1>2. OnceInv
  BY DEF AnalysisInv, SoundPool
<1>3. /\ StartedBuilds' = StartedBuilds /\ Building' = Building
      /\ Evaluated' = Evaluated /\ YieldedGraphs' = YieldedGraphs
  BY <1>1, <1>2, SubmittedEvaluation
<1>4. \/ UNCHANGED <<oCodeGraph, aResultTracker>>
      \/ aResultTracker' = aResultTracker \cup {b} /\ oCodeGraph' = NoGraph
  BY <1>1 DEF EvaluatorScheduled, ScheduleEvaluator
<1>5. Graphs' = Graphs
  BY <1>1, <1>3, <1>4, GraphsAre, AnalysisAssumption
<1>6. Pending' = Pending /\ Reported' = Reported
  BY DEF EvaluatorScheduled, Pending, Reported, Reports
<1>7. Over' = Over
  BY DEF EvaluatorScheduled, Over
<1>8. QED
  BY <1>3, <1>5, <1>6, <1>7, ContractStutter

\* Taking an error or a graph from the list changes nothing for the contract.
LEMMA BuildResultStutters ==
  ASSUME AnalysisInv, ReceiveError \/ ReceiveGraph
  PROVE  UNCHANGED Contract!vars
<1>0. SoundPool /\ TrackerInv /\ OnceInv
  BY DEF AnalysisInv, SoundPool
<1>1. PICK dwType \in {"ANALYSIS_ERROR", "CODE_GRAPH"} : Receive(dwType)
  BY DEF ReceiveError, ReceiveGraph
<1>2. PICK c \in Builders : c = Received
  BY <1>0, <1>1, ReceivedKind
<1>3. Delivers(<<c, Build>>) /\ coordinator = "wait" /\ Head(aResults).dwType = dwType
  BY <1>0, <1>1, <1>2, ReceivedKind DEF Receive
<1>4. submission' = submission /\ \A u \in Tasks : Unfinished(u)' <=> Unfinished(u)
  BY <1>3 DEF Delivers
<1>5. StartedBuilds' = StartedBuilds /\ Building' = Building /\ Evaluated' = Evaluated
  BY <1>4, TasksUnmoved
<1>6. /\ dwType # "CODE_GRAPH" => YieldedGraphs' = YieldedGraphs
      /\ dwType = "CODE_GRAPH" => c \in YieldedGraphs /\ YieldedGraphs' = YieldedGraphs \ {c}
  BY <1>0, <1>3, DeliveredGraphs
<1>7. oCodeGraph = NoGraph
  BY <1>3 DEF AnalysisInv, SoundPool, CoordinatorInv, AnalysisTypeOK
<1>8. Graphs' = Graphs
  <2>1. CASE ReceiveError
    <3>1. UNCHANGED Known /\ dwType # "CODE_GRAPH"
      BY <1>1, <2>1 DEF ReceiveError, Receive, Known
    <3>2. QED
      BY <1>6, <3>1, GraphsKnown
  <2>2. CASE ReceiveGraph
    <3>1. oCodeGraph' = c /\ aResultTracker' = aResultTracker /\ dwType = "CODE_GRAPH"
      BY <1>1, <1>2, <2>2 DEF ReceiveGraph, Receive
    <3>2. QED
      BY <1>6, <1>7, <3>1, GraphsAre, AnalysisAssumption
  <2>3. QED
    BY <2>1, <2>2
<1>9. Pending' = Pending /\ Reported' = Reported /\ Over' = Over
  BY DEF ReceiveError, ReceiveGraph, Receive, Pending, Reported, Reports, Over
<1>10. QED
  BY <1>5, <1>8, <1>9, ContractStutter

\* The last evaluation result of a graph is its report; any other one changes nothing
\* for the contract.
LEMMA EvaluationReports ==
  ASSUME AnalysisInv, ReceiveEvaluation
  PROVE  Contract!Next \/ UNCHANGED Contract!vars
<1>0. SoundPool /\ TrackerInv /\ OnceInv /\ Receive("EVALUATION_RESULT")
      /\ aSignals \in Seq(Signals)
      /\ oAnalysisResult \in [Builders -> [Evaluators -> Entries]]
  BY DEF AnalysisInv, SoundPool, ReceiveEvaluation, CoordinatorInv, AnalysisTypeOK
<1>c. PICK c \in Builders, f \in Evaluators :
        /\ c = Received /\ f = Head(aResults).task[2] /\ Head(aResults).task = <<c, f>>
  BY <1>0, ReceivedKind
<1> DEFINE t == <<c, f>>
           result == [oAnalysisResult[c] EXCEPT ![f] = "set"]
<1>1. /\ Delivers(t) /\ Tracked(c)
      /\ Head(aResults).dwType = "EVALUATION_RESULT" /\ coordinator = "wait"
  BY <1>0, <1>c, ReceivedKind, ReceivedIsTracked DEF Receive
<1>2. /\ c \in aResultTracker /\ c # oCodeGraph
      /\ UNCHANGED <<oCodeGraph, aFunctionList>> /\ coordinator' = "next"
      /\ IF AllResultsSet(result)
         THEN /\ aResultTracker' = aResultTracker \ {c}
              /\ aSignals' = Append(aSignals, Signal("ResultReady", c))
         ELSE UNCHANGED <<aResultTracker, aSignals>>
  BY <1>c, <1>1 DEF ReceiveEvaluation, Tracked
<1>3. submission' = submission /\ \A u \in Tasks : Unfinished(u)' <=> Unfinished(u)
  BY <1>1 DEF Delivers
<1>4. StartedBuilds' = StartedBuilds /\ Building' = Building /\ Evaluated' = Evaluated
  BY <1>3, TasksUnmoved
<1>5. YieldedGraphs' = YieldedGraphs
  <2>1. Head(aResults).dwType # "CODE_GRAPH"
    BY <1>1
  <2>2. QED
    BY <1>0, <1>1, <2>1, DeliveredGraphs
<1>6. Pending' = Pending /\ Over' = Over
  BY <1>1, <1>2 DEF Pending, Over
<1>7. CASE ~AllResultsSet(result)
  <2>1. Graphs' = Graphs /\ Reported' = Reported
    BY <1>2, <1>5, <1>7, GraphsAre DEF Reported, Reports
  <2>2. QED
    BY <1>4, <1>6, <2>1, ContractStutter
<1>8. CASE AllResultsSet(result)
  <2>1. c \notin YieldedGraphs
    <3>1. ~Untouched(c)
      BY <1>1, SomeEvaluator
    <3>2. ~Yielded(<<c, Build>>)
      BY <1>0, <3>1 DEF TrackerInv, EarlyBuild
    <3>3. QED
      BY <3>2 DEF YieldedGraphs, GraphResult, Yielded
  <2>2. c \in Graphs /\ Graphs' = Graphs \ {c}
    BY <1>2, <1>5, <1>8, <2>1, GraphsAre
  <2>3. Reported' = Reported \cup {c}
    <3>1. \A b \in Builders : /\ b # c => Reports(b)' = Reports(b)
                              /\ b = c => Reports(b)' # {}
      <4> SUFFICES ASSUME NEW b \in Builders
                   PROVE  (b # c => Reports(b)' = Reports(b)) /\ (b = c => Reports(b)' # {})
        OBVIOUS
      <4>1. Signal("ResultReady", c) \in Signals
            /\ (Signal("ResultReady", c) = Signal("ResultReady", b) <=> b = c)
        BY DEF Signal, Signals
      <4>2. aSignals' = Append(aSignals, Signal("ResultReady", c))
        BY <1>2, <1>8
      <4>3. /\ b # c => Reports(b)' = Reports(b)
            /\ b = c => Reports(b)' = Reports(b) \cup {Len(aSignals) + 1}
        BY <1>0, <4>1, <4>2, ReportsAppend
      <4>4. QED
        BY <4>3
    <3>2. QED
      BY <3>1 DEF Reported
  <2>4. Evaluated[c] = Evaluators
    <3> SUFFICES ASSUME NEW e \in Evaluators
                 PROVE  submission[<<c, e>>] # "none" /\ ~Unfinished(<<c, e>>)
      BY DEF Evaluated
    <3>1. CASE e = f
      BY <1>0, <1>1, <3>1, DeliversLife
    <3>2. CASE e # f
      <4>1. result[e] = oAnalysisResult[c][e]
        BY <1>0, <3>2
      <4>2. oAnalysisResult[c][e] # "null" /\ oAnalysisResult[c][e] # "absent"
        BY <1>1, <1>8, <4>1 DEF AllResultsSet, Tracked
      <4>3. QED
        BY <1>0, <4>2 DEF TrackerInv, EntriesMatch
    <3>3. QED
      BY <3>1, <3>2
  <2>5. Contract!Report(c)
    BY <1>4, <1>6, <2>2, <2>3, <2>4, ContractReport
  <2>6. QED
    BY <2>5 DEF Contract!Next, Contract!Builders, Builders
<1>9. QED
  BY <1>7, <1>8

\* The coordinator says that the analysis is over when the contract is fulfilled.
LEMMA FinishesContract ==
  ASSUME AnalysisInv, AnalysisInv', Finishes, FinishedMeansDone'
  PROVE  Contract!Next
<1>1. coordinator = "wait" /\ coordinator' = "finished" /\ UNCHANGED <<Known, aFunctionList>>
      /\ aSignals' = Append(aSignals, Signal("CoordinatorFinished", NoGraph)) /\ Quiet
  BY DEF Finishes
<1>2. StartedBuilds' = StartedBuilds /\ Building' = Building /\ Evaluated' = Evaluated
  BY <1>1, TasksUnmoved DEF Quiet
<1>3. YieldedGraphs' = YieldedGraphs
  BY <1>1 DEF Quiet, YieldedGraphs
<1>4. Graphs' = Graphs /\ Pending' = Pending
  BY <1>1, <1>3, GraphsKnown DEF Pending
<1>5. Reported' = Reported
  BY <1>1, OtherSignals, ReportedUnmoved DEF AnalysisInv, SoundPool
<1>6. /\ aFunctionList' = <<>> /\ aResultTracker' = {}
      /\ \A u \in Tasks : ~Unfinished(u)' /\ ~Yielded(u)'
  BY <1>1 DEF FinishedMeansDone
<1>7. oCodeGraph' = NoGraph
  BY <1>1 DEF AnalysisInv, SoundPool, CoordinatorInv, AnalysisTypeOK
<1>8. Pending' = {}
  BY <1>6 DEF Pending, RangeOf
<1>9. Building' = {}
  BY <1>6, TaskFacts DEF Building
<1>10. YieldedGraphs' = {}
  <2>1. \A b \in Builders : ~Yielded(<<b, Build>>)'
    BY <1>6, TaskFacts
  <2>2. \A b \in Builders : GraphResult(b).task = <<b, Build>>
    BY DEF GraphResult
  <2>3. QED
    BY <2>1, <2>2 DEF YieldedGraphs, Yielded
<1>11. Graphs' = {}
  BY <1>6, <1>7, <1>10, GraphsAre
<1>12. ~Over /\ Over' = TRUE
  BY <1>1 DEF Over
<1>13. Contract!Finish
  BY <1>2, <1>4, <1>5, <1>8, <1>9, <1>11, <1>12, ContractFinish
<1>14. QED
  BY <1>13 DEF Contract!Next

\* A build forks.
LEMMA ForkedForks ==
  ASSUME AnalysisInv, NEW w \in Workers, Forked(w)
  PROVE  Contract!Next
<1>1. PICK k \in Forks : Submits(<<k, Build>>)
  BY DEF Forked
<1>2. PICK b \in Builders : stTask[w] = <<b, Build>>
  BY TaskFacts DEF Forked
<1>3. k \in Builders /\ OnceInv /\ UNCHANGED coordinatorVars
  BY DEF Builders, AnalysisInv, SoundPool, Forked
<1>4. /\ k \notin StartedBuilds
      /\ StartedBuilds' = StartedBuilds \cup {k} /\ Building' = Building \cup {k}
      /\ Evaluated' = Evaluated /\ YieldedGraphs' = YieldedGraphs
  BY <1>1, <1>3, SubmittedBuild
<1>5. b \in Building
  BY <1>2 DEF Forked, Building
<1>6. Graphs' = Graphs
  BY <1>3, <1>4, GraphsKnown DEF Known, coordinatorVars
<1>7. Pending' = Pending /\ Reported' = Reported /\ Over' = Over
  BY <1>3 DEF coordinatorVars, Pending, Reported, Reports, Over
<1>8. Contract!Fork(b, k)
  BY <1>4, <1>5, <1>6, <1>7, ContractFork
<1>9. QED
  BY <1>8 DEF Contract!Next, Contract!Builders, Builders

\* A task that ends is a build that ends, or an evaluation of a graph.
LEMMA EndedEnds ==
  ASSUME AnalysisInv, NEW w \in Workers, Ended(w)
  PROVE  Contract!Next
<1>1. PICK dwType \in ResultTypes : /\ Yields(stTask[w], dwType)
                                    /\ dwType = "EVALUATION_RESULT" <=> stTask[w][2] \in Evaluators
  BY DEF Ended
<1>2. PICK c \in Builders, x \in Evaluators \cup {Build} : stTask[w] = <<c, x>>
  BY <1>1, TaskFacts DEF Yields
<1>3. OnceInv /\ TrackerInv /\ UNCHANGED coordinatorVars
  BY DEF AnalysisInv, SoundPool, Ended
<1>4. Pending' = Pending /\ Reported' = Reported /\ Over' = Over /\ UNCHANGED Known
  BY <1>3 DEF coordinatorVars, Pending, Reported, Reports, Over, Known
<1>5. CASE x = Build
  <2>1. Yields(<<c, Build>>, dwType)
    BY <1>1, <1>2, <1>5
  <2>2. /\ c \in Building /\ Building' = Building \ {c}
        /\ StartedBuilds' = StartedBuilds /\ Evaluated' = Evaluated
        /\ YieldedGraphs' = IF dwType = "CODE_GRAPH" THEN YieldedGraphs \cup {c}
                            ELSE YieldedGraphs
    BY <1>3, <2>1, YieldedBuild
  <2>3. PICK isGraph \in BOOLEAN : isGraph <=> dwType = "CODE_GRAPH"
    OBVIOUS
  <2>4. Graphs' = IF isGraph THEN Graphs \cup {c} ELSE Graphs
    BY <1>4, <2>2, <2>3, GraphsKnown
  <2>5. Contract!EndBuild(c, isGraph)
    BY <1>4, <2>2, <2>4, ContractEndBuild
  <2>6. QED
    BY <2>5 DEF Contract!Next, Contract!Builders, Builders
<1>6. CASE x \in Evaluators
  <2>1. Yields(<<c, x>>, "EVALUATION_RESULT")
    BY <1>1, <1>2, <1>6
  <2>2. /\ x \notin Evaluated[c] /\ Evaluated' = [Evaluated EXCEPT ![c] = @ \cup {x}]
        /\ StartedBuilds' = StartedBuilds /\ Building' = Building
        /\ YieldedGraphs' = YieldedGraphs
    BY <1>3, <1>6, <2>1, YieldedEvaluation
  <2>3. Graphs' = Graphs
    BY <1>4, <2>2, GraphsKnown
  <2>4. oAnalysisResult[c][x] = "null"
    <3>1. Unfinished(<<c, x>>)
      BY <2>1 DEF Yields
    <3>2. QED
      BY <1>3, <1>6, <3>1 DEF TrackerInv, EntriesMatch
  <2>5. c \in aResultTracker \/ c = oCodeGraph
    BY <1>3, <1>6, <2>4 DEF TrackerInv, InStage, Untouched, Opening, Tracked, Completed
  <2>6. c \in Graphs
    BY <2>5, GraphsAre, AnalysisAssumption
  <2>7. Contract!Evaluate(c, x)
    BY <1>4, <1>6, <2>2, <2>3, <2>6, ContractEvaluate
  <2>8. QED
    BY <1>6, <2>7 DEF Contract!Next, Contract!Builders, Builders
<1>7. QED
  BY <1>2, <1>5, <1>6

\* Initially nothing of the contract is fulfilled.
LEMMA ContractStartsEmpty == AnalysisInit => Contract!Init
<1> SUFFICES ASSUME AnalysisInit PROVE Contract!Init
  OBVIOUS
<1>1. /\ aTasks = <<>> /\ aResults = <<>> /\ worker = [w \in Workers |-> "unborn"]
      /\ submission = [t \in Tasks |-> "none"] /\ aSignals = <<>>
      /\ aResultTracker = {} /\ oCodeGraph = NoGraph
      /\ coordinator = "initial" /\ aFunctionList = aSelection
  BY DEF AnalysisInit, PoolInit
<1>2. \A t : ~Unfinished(t)
  BY <1>1 DEF Unfinished, InList
<1>3. RangeOf(aFunctionList) = Functions
  BY <1>1 DEF Functions
<1>4. {b \in Builders : submission[<<b, Build>>] # "none"} = {}
  BY <1>1, TaskFacts
<1>5. {b \in Builders : Unfinished(<<b, Build>>)} = {}
  BY <1>2
<1>6. Graphs = {}
  BY <1>1 DEF Graphs
<1>7. Reported = {}
  BY <1>1 DEF Reported, Reports
<1>8. [b \in Builders |-> {e \in Evaluators : submission[<<b, e>>] # "none"
                                              /\ ~Unfinished(<<b, e>>)}]
        = [b \in Builders |-> {}]
  BY <1>1, TaskFacts
<1>9. (coordinator = "finished") = FALSE
  BY <1>1
<1>10. QED
  BY <1>3, <1>4, <1>5, <1>6, <1>7, <1>8, <1>9 DEF Contract!Init, Contract!Builders, Builders

\* Every step of an analysis is a step of the contract or changes nothing of it.
LEMMA ContractStep ==
  ASSUME AnalysisInv, AnalysisInv', FinishedMeansDone', [LifeNext]_analysisVars
  PROVE  [Contract!Next]_(Contract!vars)
<1>0. SoundPool /\ TrackerInv /\ CoordinatorInv
  BY DEF AnalysisInv, SoundPool
<1>1. CASE NextTaken
  BY <1>1, NextTakenStarts
<1>2. CASE NextRefused
  <2>1. Quiet /\ NoReport /\ UNCHANGED <<Known, aFunctionList>> /\ Over' = Over
    BY <1>0, <1>2, OtherSignals DEF NextRefused, Over
  <2>2. QED
    BY <2>1, QuietStutters
<1>3. CASE EvaluatorScheduled
  BY <1>3, SchedulingStutters
<1>4. CASE ResultTaken
  BY <1>4, BuildResultStutters, EvaluationReports DEF ResultTaken
<1>5. CASE Finishes
  BY <1>5, FinishesContract
<1>6. ASSUME NEW w \in Workers, Forked(w) \/ Ended(w) PROVE Contract!Next
  BY <1>6, ForkedForks, EndedEnds
<1>7. CASE Unnoticed
  <2>1. Quiet /\ NoReport /\ UNCHANGED <<Known, aFunctionList>> /\ Over' = Over
    BY <1>7 DEF Unnoticed, coordinatorVars, NoReport, Reports, Known, Over
  <2>2. QED
    BY <2>1, QuietStutters
<1>8. QED
  BY <1>0, <1>1, <1>2, <1>3, <1>4, <1>5, <1>6, <1>7, StepKinds

\* The analysis keeps AnalysisContract: every selected function is built, every graph
\* is evaluated by every evaluator and then reported, and the analysis is over only
\* when nothing of this is left.
THEOREM AnalysisKeepsContract == AnalysisSpec => RefinesContract
<1>1. AnalysisInv => FinishedMeansDone
  BY FinishedIsDone DEF AnalysisInv
<1>2. AnalysisInv /\ AnalysisInv' /\ FinishedMeansDone' /\ [AnalysisNext]_analysisVars
        => [Contract!Next]_(Contract!vars)
  BY ContractStep, AnalysisLives
<1>3. QED
  BY <1>1, <1>2, ContractStartsEmpty, AnalysisInvInit, AnalysisInvStep, AnalysisLives, PTL
     DEF AnalysisSpec, RefinesContract, Contract!Spec
===============================================================================
