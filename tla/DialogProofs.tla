----------------------------- MODULE DialogProofs -----------------------------
(***************************************************************************)
(* Proofs about the dialog around an analysis: what its end promises to    *)
(* the user, and who can drop the last reference to the thread pool.       *)
(* For any number of workers, any selection of functions, any forks, any   *)
(* signatures and any user.                                                *)
(***************************************************************************)
EXTENDS ControlDialog, CompletionProofs

-------------------------------------------------------------------------------
(* The dialog drives the analysis as the proofs about it expect. *)

\* The user interface changes nothing of the analysis, except that the pool is
\* destroyed after the coordinator finished.
LEMMA DialogLives ==
  AnalysisInv /\ [DialogNext]_dialogVars => [LifeNext]_analysisVars
<1> SUFFICES ASSUME AnalysisInv, [DialogNext]_dialogVars PROVE [LifeNext]_analysisVars
  OBVIOUS
<1>1. CASE AnalysisNext
  BY <1>1 DEF LifeNext
<1>2. CASE UIStep \/ (\E b \in Builders : DisplayResult(b) \/ CloseDisplay(b)) \/ CloseDialog
           \/ UNCHANGED dialogVars
  BY <1>2 DEF UIStep, NextFunction, HandleResult, CoordinatorFinished, Handling,
     DisplayResult, CloseDisplay, CloseDialog, dialogVars
<1>3. CASE ReleasePool
  BY <1>3 DEF ReleasePool, PoolOwned, LifeNext, DestroyPool
<1>4. CASE JoinWorkers
  <2>1. coordinator = "finished"
    BY <1>4 DEF JoinWorkers, Join, AnalysisInv, SoundPool, CoordinatorInv
  <2>2. QED
    BY <1>4, <2>1 DEF JoinWorkers, LifeNext, DestroyPool
<1>5. QED
  BY <1>1, <1>2, <1>3, <1>4 DEF DialogNext

\* What is known of an analysis is known of one in its dialog.
LEMMA DialogAnalysisInv == DialogSpec => []AnalysisInv
<1>1. DialogInit => AnalysisInv
  BY AnalysisInvInit DEF DialogInit
<1>2. AnalysisInv /\ [DialogNext]_dialogVars => AnalysisInv'
  BY DialogLives, AnalysisInvStep
<1>3. QED
  BY <1>1, <1>2, PTL DEF DialogSpec

-------------------------------------------------------------------------------
(* Who holds a task. *)

\* Once the coordinator finished, no worker refers to a task.
NoHolder == coordinator = "finished" => \A w \in Workers : stTask[w] = NoTask

\* When the coordinator finishes the pool is idle, and a worker that finds the pool
\* without tasks takes none.
LEMMA NoHolderStep ==
  ASSUME AnalysisInv, AnalysisInv', NoHolder, [LifeNext]_analysisVars
  PROVE  NoHolder'
<1> SUFFICES ASSUME coordinator' = "finished", NEW w \in Workers
             PROVE  stTask'[w] = NoTask
  BY DEF NoHolder
<1>0. SoundPool /\ TrackerInv /\ stTask \in [Workers -> Tasks \cup {NoTask}]
  BY DEF AnalysisInv, SoundPool, OnceInv, Typed
<1>1. CASE Finish
  <2>1. IdleIsIdle
    BY IdleFromCount DEF AnalysisInv, SoundPool, StrandedInv
  <2>2. PoolIdle /\ stTask' = stTask
    BY <1>1 DEF Finish, NoMoreResults
  <2>3. QED
    BY <2>1, <2>2 DEF IdleIsIdle
<1>2. CASE coordinator = "finished"
  <2>1. \A v \in Workers : stTask[v] = NoTask
    BY <1>2 DEF NoHolder
  <2>2. \A t \in Tasks : ~InList(t)
    BY <1>2 DEF AnalysisInv, CompletionInv, NothingLeft, Outstanding, Unfinished
  <2>3. ASSUME NEW v \in Workers PROVE ~TakeTask(v)
    <3> SUFFICES ASSUME TakeTask(v) PROVE FALSE
      OBVIOUS
    <3>1. aTasks # <<>> /\ Head(aTasks) \in Tasks
      BY DEF TakeTask
    <3>2. aTasks \in Seq(Tasks \cup {SYNCHRONIZE, EXIT})
      BY <1>0, ResultFacts DEF SoundPool
    <3>3. 1 \in DOMAIN aTasks /\ aTasks[1] = Head(aTasks)
      BY <3>1, <3>2, TailPositions
    <3>4. QED
      BY <2>2, <3>1, <3>3 DEF InList
  <2>4. stTask' = stTask \/ \E v \in Workers : stTask' = [stTask EXCEPT ![v] = NoTask]
    <3>1. CASE UNCHANGED analysisVars
      BY <3>1 DEF analysisVars, poolVars
    <3>2. CASE DestroyPool \/ Wakeup
      BY <3>2 DEF DestroyPool, Destroy, Join, Wakeup, SpuriousWakeup
    <3>3. ASSUME NEW v \in Workers, Work(v)
          PROVE  stTask' = stTask \/ stTask' = [stTask EXCEPT ![v] = NoTask]
      BY <2>3, <3>3 DEF Work, WorkerLoop, Sleep, ReachBarrier, LeaveBarrier, TakeExit,
         ReturnFromExecute
    <3>4. ASSUME NEW v \in Workers, ForkBuild(v) \/ EndBuild(v) \/ EndEvaluation(v)
          PROVE  stTask' = stTask
      BY <3>4 DEF ForkBuild, Schedule, EndBuild, EndEvaluation, YieldResult
    <3>5. ~CoordinatorStep
      BY <1>2 DEF CoordinatorStep, ScheduleInitially, ScheduleAfterResult, Wait,
         ReceiveError, ReceiveGraph, ReceiveEvaluation, Receive, ScheduleEvaluator, Finish
    <3>6. QED
      BY <3>1, <3>2, <3>3, <3>4, <3>5 DEF LifeNext, AnalysisNext
  <2>5. QED
    BY <1>0, <2>1, <2>4
<1>3. CASE coordinator # "finished" /\ ~Finish
  <2>1. ~Finishes
    BY <1>3 DEF Finishes
  <2>2. coordinator' # "finished"
    BY <1>0, <1>3, <2>1, StepKinds
       DEF NextTaken, NextRefused, EvaluatorScheduled, ResultTaken, Forked, Ended, Unnoticed,
           coordinatorVars
  <2>3. QED
    BY <2>2
<1>4. QED
  BY <1>1, <1>2, <1>3

\* A worker never drops the last reference to the pool: while it holds a task, the
\* coordinator still owns the pool, so the destructor, which joins all workers,
\* never runs on one of them.
THEOREM WorkerNeverLastOwnerCorrect == DialogSpec => []WorkerNeverLastOwner
<1>1. DialogInit => NoHolder
  BY DEF DialogInit, AnalysisInit, NoHolder
<1>2. AnalysisInv /\ AnalysisInv' /\ NoHolder /\ [DialogNext]_dialogVars => NoHolder'
  BY DialogLives, NoHolderStep
<1>3. NoHolder => WorkerNeverLastOwner
  BY DEF NoHolder, WorkerNeverLastOwner
<1>4. QED
  BY <1>1, <1>2, <1>3, DialogAnalysisInv, PTL DEF DialogSpec

-------------------------------------------------------------------------------
(* The log of the signals. *)

\* CoordinatorFinished is the last signal, sent when the coordinator finishes, and a
\* signal that reports carries a graph.
LogInv ==
  \A i \in DOMAIN aSignals :
    /\ aSignals[i].name = "CoordinatorFinished" =>
         coordinator = "finished" /\ i = Len(aSignals)
    /\ aSignals[i].name = "ResultReady" => aSignals[i].graph \in Builders

\* A signal is sent only while the coordinator has not finished, and the one that says
\* so is sent as it finishes.
LEMMA LogStep ==
  ASSUME AnalysisInv, [LifeNext]_analysisVars
  PROVE  \/ aSignals' = aSignals /\ (coordinator = "finished" => coordinator' = "finished")
         \/ /\ coordinator # "finished"
            /\ \E s \in Signals : /\ aSignals' = Append(aSignals, s)
                                  /\ s.name = "CoordinatorFinished" => coordinator' = "finished"
                                  /\ s.name = "ResultReady" => s.graph \in Builders
<1>0. SoundPool /\ TrackerInv
  BY DEF AnalysisInv
<1>1. CASE NextTaken
  BY <1>1, SignalFacts DEF NextTaken
<1>2. CASE Finishes
  BY <1>2, SignalFacts DEF Finishes
<1>3. CASE ResultTaken
  BY <1>3, SignalFacts DEF ResultTaken, Signal
<1>4. CASE NextRefused \/ EvaluatorScheduled \/ Unnoticed
           \/ \E w \in Workers : Forked(w) \/ Ended(w)
  BY <1>4 DEF NextRefused, EvaluatorScheduled, Unnoticed, Forked, Ended, coordinatorVars
<1>5. QED
  BY <1>0, <1>1, <1>2, <1>3, <1>4, StepKinds

\* Nothing is sent after CoordinatorFinished.
LEMMA LogInvStep ==
  ASSUME AnalysisInv, LogInv, [LifeNext]_analysisVars
  PROVE  LogInv'
<1>0. aSignals \in Seq(Signals)
  BY DEF AnalysisInv, SoundPool, CoordinatorInv, AnalysisTypeOK
<1>1. CASE aSignals' = aSignals /\ (coordinator = "finished" => coordinator' = "finished")
  BY <1>1 DEF LogInv
<1>2. ASSUME coordinator # "finished", NEW s \in Signals, aSignals' = Append(aSignals, s),
             s.name = "CoordinatorFinished" => coordinator' = "finished",
             s.name = "ResultReady" => s.graph \in Builders
      PROVE  LogInv'
  <2>1. /\ DOMAIN aSignals' = DOMAIN aSignals \cup {Len(aSignals) + 1}
        /\ \A i \in DOMAIN aSignals : aSignals'[i] = aSignals[i]
        /\ aSignals'[Len(aSignals) + 1] = s
    BY <1>0, <1>2, AppendPositions
  <2>2. Len(aSignals') = Len(aSignals) + 1
    BY <1>0, <1>2, AppendProperties
  <2>3. \A i \in DOMAIN aSignals : aSignals[i].name # "CoordinatorFinished"
    BY <1>2 DEF LogInv
  <2>4. QED
    BY <1>2, <2>1, <2>2, <2>3 DEF LogInv
<1>3. QED
  BY <1>1, <1>2, LogStep


-------------------------------------------------------------------------------
(* What the dialog shows of the signals that it handled. *)

\* The functions among the first n signals
FunctionsAmong(n) == {i \in 1 .. n : aSignals[i].name = "NextFunction"}

ProgressCounts == dwNumFunctionsLeft = Len(aSelection) - Cardinality(FunctionsAmong(nHandled))

RowsAreReports ==
  dialog = "open" =>
    lpResultsTable = {b \in Builders : \E i \in Reports(b) : i <= nHandled}

SaysComplete == lpProgressHeader = "Analysis complete"

HeaderIsEarned ==
  SaysComplete => \E i \in 1 .. nHandled : aSignals[i].name = "CoordinatorFinished"

DialogInv ==
  /\ nHandled \in 0 .. Len(aSignals)
  /\ ProgressCounts /\ RowsAreReports /\ HeaderIsEarned

\* Initially nothing is handled.
LEMMA DialogInvInit == DialogInit => DialogInv
<1> SUFFICES ASSUME DialogInit PROVE DialogInv
  OBVIOUS
<1>0. ~SaysComplete
  BY Zenon DEF DialogInit, SaysComplete
<1>1. aSignals = <<>> /\ nHandled = 0 /\ lpResultsTable = {}
      /\ dwNumFunctionsLeft = Len(aSelection)
  BY Zenon DEF DialogInit, AnalysisInit
<1>2. Len(aSignals) = 0 /\ Len(aSelection) \in Nat
  BY <1>1, EmptySeq, AnalysisAssumption, LenProperties
<1>3. Cardinality(FunctionsAmong(nHandled)) = 0
  <2>1. FunctionsAmong(nHandled) = {}
    <3>1. 1 .. nHandled = {}
      BY <1>1
    <3>2. QED
      BY <3>1 DEF FunctionsAmong
  <2>2. QED
    BY <2>1, FS_EmptySet
<1>4. \A b \in Builders : Reports(b) = {}
  <2>1. DOMAIN aSignals = {}
    BY <1>1
  <2>2. QED
    BY <2>1 DEF Reports
<1>5. ProgressCounts
  BY <1>1, <1>2, <1>3 DEF ProgressCounts
<1>6. RowsAreReports
  BY <1>1, <1>4 DEF RowsAreReports
<1>7. QED
  BY <1>0, <1>1, <1>2, <1>5, <1>6 DEF DialogInv, HeaderIsEarned

\* New signals leave what was handled as it is.
LEMMA DialogInvAnalysis ==
  ASSUME AnalysisInv, DialogInv, [LifeNext]_analysisVars, UNCHANGED uiVars
  PROVE  DialogInv'
<1>0. /\ aSignals \in Seq(Signals) /\ Len(aSignals) \in Nat
      /\ DOMAIN aSignals = 1 .. Len(aSignals)
  <2>1. aSignals \in Seq(Signals)
    BY DEF AnalysisInv, SoundPool, CoordinatorInv, AnalysisTypeOK
  <2>2. QED
    BY <2>1, LenProperties
<1>1. /\ UNCHANGED <<dialog, nHandled, dwNumFunctionsLeft, lpResultsTable>>
      /\ SaysComplete' = SaysComplete
  BY Zenon DEF uiVars, SaysComplete
<1>2. /\ DOMAIN aSignals \subseteq DOMAIN aSignals'
      /\ Len(aSignals') \in Nat /\ Len(aSignals) <= Len(aSignals')
      /\ \A i \in DOMAIN aSignals : aSignals'[i] = aSignals[i]
      /\ DOMAIN aSignals' \subseteq DOMAIN aSignals \cup {Len(aSignals) + 1}
  <2>1. CASE aSignals' = aSignals
    BY <1>0, <2>1
  <2>2. ASSUME NEW s \in Signals, aSignals' = Append(aSignals, s)
        PROVE  /\ DOMAIN aSignals' = DOMAIN aSignals \cup {Len(aSignals) + 1}
               /\ \A i \in DOMAIN aSignals : aSignals'[i] = aSignals[i]
               /\ Len(aSignals') = Len(aSignals) + 1
    BY <1>0, <2>2, AppendPositions, AppendProperties
  <2>3. QED
    BY <1>0, <2>1, <2>2, LogStep
<1>3. nHandled \in 0 .. Len(aSignals) /\ 1 .. nHandled \subseteq DOMAIN aSignals
  BY <1>0 DEF DialogInv
<1>4. FunctionsAmong(nHandled)' = FunctionsAmong(nHandled)
  BY <1>1, <1>2, <1>3 DEF FunctionsAmong
<1>5. ProgressCounts'
  BY <1>1, <1>4 DEF DialogInv, ProgressCounts
<1>6. \A b \in Builders :
        (\E i \in Reports(b)' : i <= nHandled) <=> \E i \in Reports(b) : i <= nHandled
  <2> SUFFICES ASSUME NEW b \in Builders
               PROVE  (\E i \in Reports(b)' : i <= nHandled)
                        <=> \E i \in Reports(b) : i <= nHandled
    OBVIOUS
  <2>1. \A i \in DOMAIN aSignals' : i <= nHandled => i \in DOMAIN aSignals
    BY <1>0, <1>2, <1>3
  <2>2. QED
    BY <1>2, <2>1 DEF Reports
<1>7. RowsAreReports'
  BY <1>1, <1>6 DEF DialogInv, RowsAreReports
<1>8. HeaderIsEarned'
  BY <1>1, <1>2, <1>3 DEF DialogInv, HeaderIsEarned
<1>9. QED
  BY <1>0, <1>1, <1>2, <1>3, <1>5, <1>7, <1>8 DEF DialogInv

\* Handling the next signal counts a function down, adds the row of a graph, or puts up
\* the header.
LEMMA DialogInvUI ==
  ASSUME AnalysisInv, LogInv, DialogInv, UIStep
  PROVE  DialogInv'
<1> DEFINE n == nHandled + 1
<1>0. /\ aSignals \in Seq(Signals) /\ Len(aSignals) \in Nat
      /\ DOMAIN aSignals = 1 .. Len(aSignals)
  <2>1. aSignals \in Seq(Signals)
    BY DEF AnalysisInv, SoundPool, CoordinatorInv, AnalysisTypeOK
  <2>2. QED
    BY <2>1, LenProperties
<1>1. PICK name \in {"NextFunction", "ResultReady", "CoordinatorFinished"} :
        /\ Handling(name)
        /\ dwNumFunctionsLeft' = IF name = "NextFunction" THEN dwNumFunctionsLeft - 1
                                 ELSE dwNumFunctionsLeft
        /\ lpResultsTable' = IF name = "ResultReady"
                             THEN lpResultsTable \cup {aSignals[n].graph} ELSE lpResultsTable
        /\ name # "CoordinatorFinished" => lpProgressHeader' = lpProgressHeader
  BY DEF UIStep, NextFunction, HandleResult, CoordinatorFinished
<1>2. /\ nHandled < Len(aSignals) /\ aSignals[n].name = name /\ nHandled' = n
      /\ aSignals' = aSignals /\ dialog = "open" /\ dialog' = "open"
  BY <1>1 DEF Handling, analysisVars, coordinatorVars
<1>3. nHandled \in Nat /\ n \in Nat /\ n \in DOMAIN aSignals
  BY <1>0, <1>2 DEF DialogInv
<1> HIDE DEF n
<1>n. n = nHandled + 1
  BY DEF n
<1>4. nHandled' \in 0 .. Len(aSignals')
  BY <1>0, <1>2, <1>3
<1>5. ProgressCounts'
  <2>1. IsFiniteSet(FunctionsAmong(nHandled))
    <3>1. IsFiniteSet(1 .. nHandled)
      BY <1>3, FS_Interval
    <3>2. QED
      BY <3>1, FS_Subset DEF FunctionsAmong
  <2>2. n \notin FunctionsAmong(nHandled)
    BY <1>3, <1>n DEF FunctionsAmong
  <2>3. FunctionsAmong(nHandled)' = IF name = "NextFunction"
                                    THEN FunctionsAmong(nHandled) \cup {n}
                                    ELSE FunctionsAmong(nHandled)
    <3>1. FunctionsAmong(nHandled)' = {i \in 1 .. n : aSignals[i].name = "NextFunction"}
      BY <1>2 DEF FunctionsAmong
    <3>2. 1 .. n = (1 .. nHandled) \cup {n}
      BY <1>3, <1>n
    <3>3. QED
      BY <1>2, <3>1, <3>2 DEF FunctionsAmong
  <2>4. Cardinality(FunctionsAmong(nHandled)') = IF name = "NextFunction"
          THEN Cardinality(FunctionsAmong(nHandled)) + 1
          ELSE Cardinality(FunctionsAmong(nHandled))
    BY <2>1, <2>2, <2>3, FS_AddElement
  <2>5. Cardinality(FunctionsAmong(nHandled)) \in Nat /\ Len(aSelection) \in Nat
    BY <2>1, FS_CardinalityType, AnalysisAssumption, LenProperties
  <2>6. dwNumFunctionsLeft = Len(aSelection) - Cardinality(FunctionsAmong(nHandled))
    BY DEF DialogInv, ProgressCounts
  <2>7. dwNumFunctionsLeft' = Len(aSelection) - Cardinality(FunctionsAmong(nHandled)')
    <3>1. PICK k \in Nat, m \in Nat :
            k = Cardinality(FunctionsAmong(nHandled)) /\ m = Len(aSelection)
      BY <2>5
    <3>2. CASE name = "NextFunction"
      <4>1. dwNumFunctionsLeft' = (m - k) - 1
        BY <1>1, <2>6, <3>1, <3>2
      <4>2. Cardinality(FunctionsAmong(nHandled)') = k + 1
        BY <2>4, <3>1, <3>2
      <4>3. (m - k) - 1 = m - (k + 1)
        OBVIOUS
      <4>4. QED
        BY <3>1, <4>1, <4>2, <4>3
    <3>3. CASE name # "NextFunction"
      BY <1>1, <2>4, <2>6, <3>3
    <3>4. QED
      BY <3>2, <3>3
  <2>8. QED
    BY <2>7 DEF ProgressCounts
<1>6. RowsAreReports'
  <2>1. lpResultsTable = {b \in Builders : \E i \in Reports(b) : i <= nHandled}
    BY <1>2 DEF DialogInv, RowsAreReports
  <2>2. \A b \in Builders : Reports(b)' = Reports(b) /\ Reports(b) \subseteq DOMAIN aSignals
    BY <1>2 DEF Reports
  <2>3. ASSUME NEW b \in Builders
        PROVE  (\E i \in Reports(b) : i <= n) <=> (\E i \in Reports(b) : i <= nHandled)
                                                  \/ n \in Reports(b)
    BY <1>0, <1>3, <1>n, <2>2
  <2>4. \A b \in Builders : n \in Reports(b) <=> name = "ResultReady" /\ aSignals[n].graph = b
    <3>1. aSignals[n] \in Signals
      BY <1>0, <1>3, ElementOfSeq
    <3>2. QED
      BY <1>2, <1>3, <3>1 DEF Reports, Signal, Signals
  <2>5. name = "ResultReady" => aSignals[n].graph \in Builders
    BY <1>2, <1>3 DEF LogInv
  <2>6. lpResultsTable' = {b \in Builders : \E i \in Reports(b)' : i <= n}
    BY <1>1, <2>1, <2>2, <2>3, <2>4, <2>5
  <2>7. QED
    BY <1>2, <2>6 DEF RowsAreReports
<1>7. HeaderIsEarned'
  <2>1. CASE name = "CoordinatorFinished"
    <3>1. n \in 1 .. n
      BY <1>3, <1>n
    <3>2. n \in 1 .. nHandled' /\ aSignals'[n].name = "CoordinatorFinished"
      BY <1>2, <2>1, <3>1
    <3>3. QED
      BY <3>2 DEF HeaderIsEarned
  <2>2. CASE name # "CoordinatorFinished"
    <3>1. SaysComplete' = SaysComplete
      <4>1. lpProgressHeader' = lpProgressHeader
        BY <1>1, <2>2
      <4>2. QED
        BY <4>1, Zenon DEF SaysComplete
    <3>2. 1 .. nHandled \subseteq 1 .. n
      BY <1>3, <1>n
    <3>3. QED
      BY <1>2, <3>1, <3>2 DEF DialogInv, HeaderIsEarned
  <2>3. QED
    BY <2>1, <2>2
<1>8. QED
  BY <1>4, <1>5, <1>6, <1>7 DEF DialogInv

\* The user shows, closes and leaves; none of it changes what the dialog counts.
LEMMA DialogInvUser ==
  ASSUME DialogInv,
         (\E b \in Builders : DisplayResult(b) \/ CloseDisplay(b)) \/ CloseDialog
  PROVE  DialogInv'
<1>0. UNCHANGED <<aSignals, nHandled, dwNumFunctionsLeft, lpProgressHeader>>
      /\ (dialog' = "open" => dialog = "open" /\ lpResultsTable' = lpResultsTable)
  BY DEF DisplayResult, CloseDisplay, CloseDialog, analysisVars, coordinatorVars
<1>1. UNCHANGED <<aSignals, nHandled, dwNumFunctionsLeft>>
      /\ SaysComplete' = SaysComplete
      /\ (dialog' = "open" => dialog = "open" /\ lpResultsTable' = lpResultsTable)
  BY <1>0, Zenon DEF SaysComplete
<1>2. FunctionsAmong(nHandled)' = FunctionsAmong(nHandled)
      /\ \A b \in Builders : Reports(b)' = Reports(b)
  BY <1>1 DEF FunctionsAmong, Reports
<1>3. ProgressCounts'
  BY <1>1, <1>2 DEF DialogInv, ProgressCounts
<1>4. RowsAreReports'
  BY <1>1, <1>2 DEF DialogInv, RowsAreReports
<1>5. HeaderIsEarned'
  BY <1>1 DEF DialogInv, HeaderIsEarned
<1>6. QED
  BY <1>1, <1>3, <1>4, <1>5 DEF DialogInv

\* Every step of the dialog keeps what it shows true to the signals.
LEMMA DialogInvStep ==
  ASSUME AnalysisInv, LogInv, DialogInv, [DialogNext]_dialogVars
  PROVE  DialogInv'
<1>1. CASE AnalysisNext /\ UNCHANGED uiVars
  BY <1>1, DialogInvAnalysis DEF LifeNext
<1>2. CASE ReleasePool \/ JoinWorkers \/ UNCHANGED dialogVars
  <2>1. UNCHANGED uiVars
    BY <1>2 DEF ReleasePool, JoinWorkers, dialogVars
  <2>2. [LifeNext]_analysisVars
    BY DialogLives
  <2>3. QED
    BY <2>1, <2>2, DialogInvAnalysis
<1>3. QED
  BY <1>1, <1>2, DialogInvUI, DialogInvUser DEF DialogNext

\* The end of the analysis is the last thing that the dialog handles, and by then it
\* has handled every function and every report.
LEMMA CompleteIsComplete ==
  ASSUME AnalysisInv, FinishedMeansDone, LogInv, DialogInv
  PROVE  CompleteMeansComplete
<1> SUFFICES ASSUME dialog = "open", SaysComplete
             PROVE  /\ dwNumFunctionsLeft = 0
                    /\ \A b \in Builders :
                         /\ ~Unfinished(<<b, Build>>) /\ ~Yielded(<<b, Build>>)
                         /\ submission[<<b, BlockPermutation>>] # "none" => b \in lpResultsTable
  BY Zenon DEF CompleteMeansComplete, SaysComplete
<1>0. /\ aSignals \in Seq(Signals) /\ Len(aSignals) \in Nat
      /\ DOMAIN aSignals = 1 .. Len(aSignals)
  <2>1. aSignals \in Seq(Signals)
    BY DEF AnalysisInv, SoundPool, CoordinatorInv, AnalysisTypeOK
  <2>2. QED
    BY <2>1, LenProperties
<1>1. coordinator = "finished" /\ Len(aSignals) <= nHandled
  <2>1. PICK i \in 1 .. nHandled : aSignals[i].name = "CoordinatorFinished"
    BY DEF DialogInv, HeaderIsEarned
  <2>2. i \in DOMAIN aSignals
    BY <1>0 DEF DialogInv
  <2>3. coordinator = "finished" /\ i = Len(aSignals)
    BY <2>1, <2>2 DEF LogInv
  <2>4. QED
    BY <1>0, <2>3 DEF DialogInv
<1>2. nHandled \in Int /\ nHandled <= Len(aSignals)
  BY <1>0 DEF DialogInv
<1>3. nHandled = Len(aSignals)
  <2>1. \A m, n \in Int : m <= n /\ n <= m => m = n
    OBVIOUS
  <2>2. Len(aSignals) \in Int
    BY <1>0
  <2>3. QED
    BY <1>1, <1>2, <2>1, <2>2, Zenon
<1>4. dwNumFunctionsLeft = 0
  <2>1. FunctionsAmong(nHandled) = {j \in DOMAIN aSignals : aSignals[j].name = "NextFunction"}
    BY <1>0, <1>3 DEF FunctionsAmong
  <2>2. Cardinality(FunctionsAmong(nHandled)) = Len(aSelection)
    BY <1>1, <2>1 DEF FinishedMeansDone, Count
  <2>3. Len(aSelection) \in Nat
    BY AnalysisAssumption, LenProperties
  <2>4. dwNumFunctionsLeft = Len(aSelection) - Len(aSelection)
    BY <2>2 DEF DialogInv, ProgressCounts
  <2>5. QED
    BY <2>3, <2>4
<1>5. ASSUME NEW b \in Builders, submission[<<b, BlockPermutation>>] # "none"
      PROVE  b \in lpResultsTable
  <2>1. b \in Reported
    BY <1>1, <1>5, SomeEvaluator DEF FinishedMeansDone
  <2>2. PICK j \in Reports(b) : j \in DOMAIN aSignals
    BY <2>1 DEF Reported, Reports
  <2>3. j <= nHandled
    BY <1>0, <1>3, <2>2
  <2>4. QED
    BY <2>2, <2>3 DEF DialogInv, RowsAreReports
<1>6. \A b \in Builders : ~Unfinished(<<b, Build>>) /\ ~Yielded(<<b, Build>>)
  BY <1>1, TaskFacts DEF FinishedMeansDone
<1>7. QED
  BY <1>4, <1>5, <1>6

\* When an open dialog says "Analysis complete", the progress bar is full, no build
\* is left, and every graph that any build yielded has its row.
THEOREM CompleteMeansCompleteCorrect == DialogSpec => []CompleteMeansComplete
<1>1. DialogInit => LogInv
  <2> SUFFICES ASSUME DialogInit PROVE LogInv
    OBVIOUS
  <2>1. aSignals = <<>>
    BY Zenon DEF DialogInit, AnalysisInit
  <2>2. QED
    BY <2>1 DEF LogInv
<1>2. AnalysisInv /\ LogInv /\ [DialogNext]_dialogVars => LogInv'
  BY DialogLives, LogInvStep
<1>3. AnalysisInv /\ LogInv /\ DialogInv /\ [DialogNext]_dialogVars => DialogInv'
  BY DialogInvStep
<1>4. AnalysisInv => FinishedMeansDone
  BY FinishedIsDone DEF AnalysisInv
<1>5. AnalysisInv /\ FinishedMeansDone /\ LogInv /\ DialogInv => CompleteMeansComplete
  BY CompleteIsComplete
<1>6. QED
  BY <1>1, <1>2, <1>3, <1>4, <1>5, DialogAnalysisInv, DialogInvInit, PTL DEF DialogSpec
===============================================================================
