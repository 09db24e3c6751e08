------------------------------- MODULE Analysis -------------------------------
(***************************************************************************)
(* One analysis: the coordinator thread (CoordinatorThread::run in         *)
(* src/src/ControlDialog.cpp) drives the thread pool, whose workers build  *)
(* data flow graphs (CodeBrokerImpl::Build_Impl), fork further builds and  *)
(* evaluate graphs (AbstractEvaluatorImpl::Execute).                       *)
(*                                                                         *)
(* A build is named by the function it was scheduled for, or by a fork.    *)
(* The graph, the predicate and the evaluation themselves are abstracted:  *)
(* what matters here is which task runs, what it yields and what the       *)
(* coordinator does with it.                                               *)
(***************************************************************************)
EXTENDS ThreadPool

CONSTANTS
  aSelection,        \* the functions the user selected, in list order
  Forks,             \* bound: the builds that forking may create
  aSignatureList,    \* the signatures, in list order
  BlockPermutation,  \* the evaluator that is scheduled for every graph
  Build,             \* the role of a task that builds a graph
  NoGraph

RangeOf(s) == {s[i] : i \in DOMAIN s}
Functions == RangeOf(aSelection)
Builders == Functions \cup Forks
EvaluatorList == Append(aSignatureList, BlockPermutation)
Evaluators == RangeOf(EvaluatorList)

ASSUME AnalysisAssumption ==
  /\ aSelection \in Seq(Functions)
  /\ \A i, j \in DOMAIN aSelection : aSelection[i] = aSelection[j] => i = j
  /\ Functions \cap Forks = {}
  /\ aSignatureList \in Seq(RangeOf(aSignatureList))
  /\ \A i, j \in DOMAIN EvaluatorList : EvaluatorList[i] = EvaluatorList[j] => i = j
  /\ Build \notin Evaluators /\ NoGraph \notin Builders
  /\ Tasks = Builders \X (Evaluators \cup {Build})
  /\ ResultTypes = {"ANALYSIS_ERROR", "CODE_GRAPH", "EVALUATION_RESULT"}

VARIABLES
  coordinator,      \* where CoordinatorThread::run is
  aFunctionList,    \* the functions that still have to be scheduled
  oCodeGraph,       \* the graph whose evaluators are being scheduled
  dwEvaluator,      \* the position in EvaluatorList of the next one
  oAnalysisResult,  \* for each graph, what its AnalysisResult holds per evaluator
  aResultTracker,   \* the graphs whose AnalysisResult is in the tracker
  aSignals          \* history: the Qt signals emitted, oldest first

coordinatorVars == <<coordinator, aFunctionList, oCodeGraph, dwEvaluator,
                     oAnalysisResult, aResultTracker, aSignals>>
analysisVars == <<poolVars, coordinatorVars>>

CoordinatorStates == {"initial", "wait", "evaluators", "next", "finished", "crashed"}
Entries == {"absent", "null", "set"}

\* The signals, each with the graph it carries
Signal(name, b) == [name |-> name, graph |-> b]
Signals == [name : {"NextFunction", "ResultReady", "CoordinatorFinished"},
            graph : Builders \cup {NoGraph}]

AnalysisInit ==
  /\ PoolInit
  /\ coordinator = "initial"
  /\ aFunctionList = aSelection
  /\ oCodeGraph = NoGraph /\ dwEvaluator = 1
  /\ oAnalysisResult = [b \in Builders |-> [e \in Evaluators |-> "absent"]]
  /\ aResultTracker = {}
  /\ aSignals = <<>>

-------------------------------------------------------------------------------
(* The coordinator. *)

\* Faulty variant: the progress bar is not told.
ScheduleNextFunction_NoSignal(accepted, otherwise) ==
  IF aFunctionList = <<>>
  THEN /\ coordinator' = otherwise
       /\ UNCHANGED <<poolVars, aFunctionList, aSignals>>
  ELSE /\ ScheduleIfResourceAvailable(<<Head(aFunctionList), Build>>)
       /\ IF ResourceAvailable
          THEN /\ coordinator' = accepted
               /\ aFunctionList' = Tail(aFunctionList)
               /\ UNCHANGED aSignals
          ELSE coordinator' = otherwise /\ UNCHANGED <<aFunctionList, aSignals>>

\* ScheduleNextFunction: offer the first function of the list to the pool
ScheduleNextFunction(accepted, otherwise) ==
  IF aFunctionList = <<>>
  THEN /\ coordinator' = otherwise
       /\ UNCHANGED <<poolVars, aFunctionList, aSignals>>
  ELSE /\ ScheduleIfResourceAvailable(<<Head(aFunctionList), Build>>)
       /\ IF ResourceAvailable
          THEN /\ coordinator' = accepted
               /\ aFunctionList' = Tail(aFunctionList)
               /\ aSignals' = Append(aSignals, Signal("NextFunction", NoGraph))
          ELSE coordinator' = otherwise /\ UNCHANGED <<aFunctionList, aSignals>>

\* The do-while loop before the first wait
ScheduleInitially ==
  /\ coordinator = "initial"
  /\ ScheduleNextFunction("initial", "wait")
  /\ UNCHANGED <<oCodeGraph, dwEvaluator, oAnalysisResult, aResultTracker>>

\* The call at the end of each turn of the main loop
ScheduleAfterResult ==
  /\ coordinator = "next"
  /\ ScheduleNextFunction("wait", "wait")
  /\ UNCHANGED <<oCodeGraph, dwEvaluator, oAnalysisResult, aResultTracker>>

Wait == coordinator = "wait" /\ BlockForResult /\ UNCHANGED coordinatorVars

Receive(dwType) == coordinator = "wait" /\ TakeResult /\ Head(aResults).dwType = dwType
Received == Head(aResults).task[1]

ReceiveError ==
  /\ Receive("ANALYSIS_ERROR")
  /\ coordinator' = "next"
  /\ UNCHANGED <<aFunctionList, oCodeGraph, dwEvaluator, oAnalysisResult,
                 aResultTracker, aSignals>>

ReceiveGraph ==
  /\ Receive("CODE_GRAPH")
  /\ coordinator' = "evaluators"
  /\ oCodeGraph' = Received
  /\ dwEvaluator' = 1
  /\ UNCHANGED <<aFunctionList, oAnalysisResult, aResultTracker, aSignals>>

\* Faulty variant: one result is enough.
AllResultsSet_Any(result) == \E e \in Evaluators : result[e] = "set"

AllResultsSet(result) == \A e \in Evaluators : result[e] # "null"

\* Faulty variant: the evaluator is not announced.
SetNull_Missing(result, e) == result

SetNull(result, e) == [result EXCEPT ![e] = "null"]

\* One ScheduleEvaluate and SetNull; after the last one the result enters the
\* tracker.  If it were complete by then, the code would jump to
\* _all_results_set and dereference oEvaluationResult, which is null here.
ScheduleEvaluator ==
  LET e == EvaluatorList[dwEvaluator]
      result == SetNull(oAnalysisResult[oCodeGraph], e)
  IN /\ coordinator = "evaluators"
     /\ Schedule(<<oCodeGraph, e>>)
     /\ oAnalysisResult' = [oAnalysisResult EXCEPT ![oCodeGraph] = result]
     /\ IF dwEvaluator < Len(EvaluatorList)
        THEN /\ dwEvaluator' = dwEvaluator + 1
             /\ UNCHANGED <<coordinator, oCodeGraph, aResultTracker>>
        ELSE /\ aResultTracker' = aResultTracker \cup {oCodeGraph}
             /\ coordinator' = IF AllResultsSet(result) THEN "crashed" ELSE "next"
             /\ oCodeGraph' = NoGraph
             /\ dwEvaluator' = 1
     /\ UNCHANGED <<aFunctionList, aSignals>>

\* SetResult; a complete result leaves the tracker and is reported.  A result for
\* a graph that is not in the tracker is dropped.
ReceiveEvaluation ==
  LET b == Received
      e == Head(aResults).task[2]
      result == [oAnalysisResult[b] EXCEPT ![e] = "set"]
  IN /\ Receive("EVALUATION_RESULT")
     /\ coordinator' = "next"
     /\ IF b \in aResultTracker
        THEN /\ oAnalysisResult' = [oAnalysisResult EXCEPT ![b] = result]
             /\ IF AllResultsSet(result)
                THEN /\ aResultTracker' = aResultTracker \ {b}
                     /\ aSignals' = Append(aSignals, Signal("ResultReady", b))
                ELSE UNCHANGED <<aResultTracker, aSignals>>
        ELSE UNCHANGED <<oAnalysisResult, aResultTracker, aSignals>>
     /\ UNCHANGED <<aFunctionList, oCodeGraph, dwEvaluator>>

\* WaitForResult returned nullptr
Finish ==
  /\ coordinator = "wait"
  /\ NoMoreResults
  /\ coordinator' = "finished"
  /\ aSignals' = Append(aSignals, Signal("CoordinatorFinished", NoGraph))
  /\ UNCHANGED <<aFunctionList, oCodeGraph, dwEvaluator, oAnalysisResult, aResultTracker>>

CoordinatorStep ==
  \/ ScheduleInitially \/ ScheduleAfterResult
  \/ Wait \/ ReceiveError \/ ReceiveGraph \/ ReceiveEvaluation \/ ScheduleEvaluator
  \/ Finish

-------------------------------------------------------------------------------
(* The tasks. *)

IsBuilding(w) == worker[w] = "execute" /\ stTask[w][2] = Build

\* IntroduceCondition schedules the fork that takes the false branch.
ForkBuild(w) ==
  /\ IsBuilding(w)
  /\ \E k \in Forks : Schedule(<<k, Build>>)
  /\ UNCHANGED coordinatorVars

\* Build_Impl yields the graph, or an error when a limit was exceeded.
EndBuild(w) ==
  /\ IsBuilding(w)
  /\ YieldResult(w, "CODE_GRAPH") \/ YieldResult(w, "ANALYSIS_ERROR")
  /\ UNCHANGED coordinatorVars

\* Faulty variant: an evaluator may yield again.
EndEvaluation_GoesOn(w) ==
  /\ worker[w] = "execute" /\ stTask[w][2] # Build
  /\ aResults' = Append(aResults, [task |-> stTask[w], dwType |-> "EVALUATION_RESULT"])
  /\ UNCHANGED <<aTasks, dwNumActive, dwNumSynchronized, worker, stTask, caller,
                 submission, nSynchronize, coordinatorVars>>

\* An evaluator yields its result, also when its time is over.
EndEvaluation(w) ==
  /\ worker[w] = "execute" /\ stTask[w][2] # Build
  /\ YieldResult(w, "EVALUATION_RESULT")
  /\ UNCHANGED coordinatorVars

Work(w) == WorkerLoop(w) /\ UNCHANGED coordinatorVars

Wakeup == SpuriousWakeup /\ UNCHANGED coordinatorVars

AnalysisNext ==
  \/ CoordinatorStep
  \/ \E w \in Workers : Work(w) \/ ForkBuild(w) \/ EndBuild(w) \/ EndEvaluation(w)
  \/ Wakeup

AnalysisSpec == AnalysisInit /\ [][AnalysisNext]_analysisVars

\* The coordinator and the workers go on whenever they can.
FairAnalysisSpec ==
  /\ AnalysisSpec
  /\ WF_analysisVars(CoordinatorStep)
  /\ \A w \in Workers : WF_analysisVars(Work(w) \/ EndBuild(w) \/ EndEvaluation(w))

-------------------------------------------------------------------------------
(* Properties. *)

\* A task that did not yield its result yet; a result that was not received yet.
Unfinished(t) == InList(t) \/ \E w \in Workers : worker[w] = "execute" /\ stTask[w] = t
Yielded(t) == \E i \in DOMAIN aResults : aResults[i].task = t

Graphs ==
  {b \in Builders : \E i \in DOMAIN aResults :
      aResults[i] = [task |-> <<b, Build>>, dwType |-> "CODE_GRAPH"]}
    \cup ({oCodeGraph} \ {NoGraph}) \cup aResultTracker
Reports(b) == {i \in DOMAIN aSignals : aSignals[i] = Signal("ResultReady", b)}
Reported == {b \in Builders : Reports(b) # {}}

\* Every variable of the coordinator has its type, and a graph is being set up
\* exactly while its evaluators are being scheduled.
AnalysisTypeOK ==
  /\ coordinator \in CoordinatorStates
  /\ aFunctionList \in Seq(Functions)
  /\ oCodeGraph \in Builders \cup {NoGraph}
  /\ oCodeGraph # NoGraph <=> coordinator = "evaluators"
  /\ dwEvaluator \in DOMAIN EvaluatorList
  /\ oAnalysisResult \in [Builders -> [Evaluators -> Entries]]
  /\ aResultTracker \in SUBSET Builders
  /\ aSignals \in Seq(Signals)

\* The coordinator never takes the jump to _all_results_set with no evaluation
\* result at hand: a graph whose evaluators were just scheduled is not complete,
\* even if all of them yielded in the meantime.  Proved in AnalysisProofs.
NoJumpWithoutResult == coordinator # "crashed"

\* What the tracker says is outstanding is outstanding in the pool, and the other
\* way round, so an evaluation result always finds its entry and a graph is never
\* left waiting for an evaluator that is not there.
TrackerMatchesPool ==
  \A b \in Builders, e \in Evaluators :
    /\ oAnalysisResult[b][e] = "null" <=> (Unfinished(<<b, e>>) \/ Yielded(<<b, e>>))
    /\ oAnalysisResult[b][e] = "null" => b \in aResultTracker \cup {oCodeGraph}

\* A graph is reported at most once, and then each of its evaluators has a result:
\* HandleResult dereferences every one of them.
ReportsAreComplete ==
  \A b \in Builders :
    /\ \A i, j \in Reports(b) : i = j
    /\ b \in Reported => \A e \in Evaluators : oAnalysisResult[b][e] = "set"

\* When the coordinator says that the analysis is finished, every function was
\* scheduled and signalled, no task is left and every graph was reported.
Count(name) == Cardinality({i \in DOMAIN aSignals : aSignals[i].name = name})
FinishedMeansDone ==
  coordinator = "finished" =>
    /\ aFunctionList = <<>> /\ Count("NextFunction") = Len(aSelection)
    /\ \A t \in Tasks : ~Unfinished(t) /\ ~Yielded(t)
    /\ aResultTracker = {}
    /\ \A b \in Builders, e \in Evaluators :
         submission[<<b, e>>] # "none" => b \in Reported

\* When the coordinator and all workers wait without having been notified, the
\* only work that is left is builds of selected functions that were never begun;
\* what was found so far has been reported.
EverybodyWaits == caller = "waitResult" /\ \A w \in Workers : IsWaiting(w)
OnlyFunctionsStranded ==
  EverybodyWaits =>
    /\ aResults = <<>> /\ aResultTracker = {} /\ aTasks # <<>>
    /\ \A i \in DOMAIN aTasks : aTasks[i] \in Functions \X {Build}

\* The analysis keeps the contract of AnalysisContract.
Contract == INSTANCE AnalysisContract WITH
  pending <- RangeOf(aFunctionList),
  started <- {b \in Builders : submission[<<b, Build>>] # "none"},
  building <- {b \in Builders : Unfinished(<<b, Build>>)},
  graphs <- Graphs,
  evaluated <- [b \in Builders |-> {e \in Evaluators :
                  submission[<<b, e>>] # "none" /\ ~Unfinished(<<b, e>>)}],
  reported <- Reported,
  over <- coordinator = "finished"
RefinesContract == Contract!Spec

\* The coordinator and the tasks are a client of the pool and tasks as the pool
\* expects them.
UsesPoolCorrectly == PoolSpec

\* Every graph that is built is reported eventually.
EveryGraphReported == \A b \in Builders : (b \in Graphs) ~> (b \in Reported)

\* The analysis ends, unless it comes to the state in which everybody waits and a
\* function that nobody was notified of is in the list.
AnalysisEnds == []<>(coordinator = "finished" \/ (EverybodyWaits /\ SilentTaskListed))

\* The analysis is over eventually.
AnalysisCompletes == <>(coordinator = "finished")
===============================================================================
