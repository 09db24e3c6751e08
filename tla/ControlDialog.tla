---------------------------- MODULE ControlDialog ----------------------------
(***************************************************************************)
(* The dialog around an analysis (src/src/ControlDialog.cpp): the UI       *)
(* thread handles the coordinator's signals, which Qt queues for it, the   *)
(* user displays results and closes windows at any time, and the thread    *)
(* pool lives until nobody refers to it any more.                          *)
(*                                                                         *)
(* The pool is reference counted.  Its owners are the coordinator's oPool, *)
(* every task and every evaluation result, and through the evaluators in   *)
(* it, every AnalysisResult; so the results in the dialog's table and in   *)
(* the displays keep the pool and its threads alive.                       *)
(***************************************************************************)
EXTENDS Analysis

VARIABLES
  dialog,              \* is the dialog open?
  bBatchRun,           \* rows of a batch run do not keep their AnalysisResult
  nHandled,            \* how many of aSignals the UI thread handled
  dwNumFunctionsLeft,  \* what the progress bar counts down
  lpProgressHeader,    \* the text above the results
  lpResultsTable,      \* the graphs that have a row
  displays             \* the graphs shown in a window with a matched signature

uiVars == <<dialog, bBatchRun, nHandled, dwNumFunctionsLeft, lpProgressHeader,
            lpResultsTable, displays>>
dialogVars == <<analysisVars, uiVars>>

\* StartAnalysis
DialogInit ==
  /\ AnalysisInit
  /\ dialog = "open"
  /\ bBatchRun \in BOOLEAN
  /\ nHandled = 0
  /\ dwNumFunctionsLeft = Len(aSelection)
  /\ lpProgressHeader = "Analysis in progress..."
  /\ lpResultsTable = {} /\ displays = {}

-------------------------------------------------------------------------------
(* The slots, called by the UI thread's event loop in the order of the signals. *)

Handling(name) ==
  /\ dialog = "open"
  /\ nHandled < Len(aSignals)
  /\ aSignals[nHandled + 1].name = name
  /\ nHandled' = nHandled + 1
  /\ UNCHANGED <<analysisVars, dialog, bBatchRun, displays>>

NextFunction ==
  /\ Handling("NextFunction")
  /\ dwNumFunctionsLeft' = dwNumFunctionsLeft - 1
  /\ UNCHANGED <<lpProgressHeader, lpResultsTable>>

HandleResult ==
  /\ Handling("ResultReady")
  /\ lpResultsTable' = lpResultsTable \cup {aSignals[nHandled + 1].graph}
  /\ UNCHANGED <<dwNumFunctionsLeft, lpProgressHeader>>

\* Faulty variant: the signal overtakes those that are queued.
CoordinatorFinished_AnyTime ==
  /\ dialog = "open" /\ coordinator = "finished"
  /\ lpProgressHeader' = "Analysis complete"
  /\ UNCHANGED <<analysisVars, dialog, bBatchRun, nHandled, displays,
                 dwNumFunctionsLeft, lpResultsTable>>

CoordinatorFinished ==
  /\ Handling("CoordinatorFinished")
  /\ lpProgressHeader' = "Analysis complete"
  /\ UNCHANGED <<dwNumFunctionsLeft, lpResultsTable>>

-------------------------------------------------------------------------------
(* The user. *)

\* A double click on a row opens a window; it refers to the first evaluation
\* result that matched (a window without a match holds only the graph).
DisplayResult(b) ==
  /\ dialog = "open" /\ ~bBatchRun /\ b \in lpResultsTable
  /\ displays' = displays \cup {b}
  /\ UNCHANGED <<analysisVars, dialog, bBatchRun, nHandled, dwNumFunctionsLeft,
                 lpProgressHeader, lpResultsTable>>

CloseDisplay(b) ==
  /\ b \in displays
  /\ displays' = displays \ {b}
  /\ UNCHANGED <<analysisVars, dialog, bBatchRun, nHandled, dwNumFunctionsLeft,
                 lpProgressHeader, lpResultsTable>>

\* Cancel, or the window's close button: the dialog goes, with its rows and with
\* the signals that Qt queued for it.  The coordinator is not stopped.
CloseDialog ==
  /\ dialog = "open"
  /\ dialog' = "closed"
  /\ lpResultsTable' = {}
  /\ UNCHANGED <<analysisVars, bBatchRun, nHandled, dwNumFunctionsLeft,
                 lpProgressHeader, displays>>

-------------------------------------------------------------------------------
(* The life of the pool. *)

\* The graphs whose AnalysisResult the UI side still refers to
HeldResults ==
  displays
    \cup (IF dialog = "closed" THEN {} ELSE
          {b \in Builders : \E i \in Reports(b) : i > nHandled}
            \cup (IF bBatchRun THEN {} ELSE lpResultsTable))

PoolOwned ==
  \/ coordinator # "finished"
  \/ Referenced
  \/ HeldResults # {}

\* Whoever drops the last reference runs the destructor.
ReleasePool ==
  /\ ~PoolOwned
  /\ Destroy
  /\ UNCHANGED <<coordinatorVars, uiVars>>

JoinWorkers == Join /\ UNCHANGED <<coordinatorVars, uiVars>>

-------------------------------------------------------------------------------
UIStep == NextFunction \/ HandleResult \/ CoordinatorFinished

DialogNext ==
  \/ AnalysisNext /\ UNCHANGED uiVars
  \/ UIStep
  \/ \E b \in Builders : DisplayResult(b) \/ CloseDisplay(b)
  \/ CloseDialog
  \/ ReleasePool \/ JoinWorkers

DialogSpec == DialogInit /\ [][DialogNext]_dialogVars

\* The threads of the analysis go on as before, the event loop handles queued
\* signals, and the last reference that is dropped runs the destructor.  The user
\* is obliged to nothing.
FairDialogSpec ==
  /\ DialogSpec
  /\ WF_dialogVars(CoordinatorStep /\ UNCHANGED uiVars)
  /\ \A w \in Workers :
       WF_dialogVars((Work(w) \/ EndBuild(w) \/ EndEvaluation(w)) /\ UNCHANGED uiVars)
  /\ WF_dialogVars(UIStep)
  /\ WF_dialogVars(ReleasePool \/ JoinWorkers)

-------------------------------------------------------------------------------
(* Properties. *)

\* When an open dialog says "Analysis complete", the progress bar is full, no
\* build is left, and every graph that any build yielded has its row.
CompleteMeansComplete ==
  dialog = "open" /\ lpProgressHeader = "Analysis complete" =>
    /\ dwNumFunctionsLeft = 0
    /\ \A b \in Builders :
         /\ ~Unfinished(<<b, Build>>) /\ ~Yielded(<<b, Build>>)
         /\ submission[<<b, BlockPermutation>>] # "none" => b \in lpResultsTable

\* A worker never drops the last reference to the pool: while it holds a task, the
\* coordinator still owns the pool, so the destructor, which joins all workers,
\* never runs on one of them.
WorkerNeverLastOwner ==
  \A w \in Workers : stTask[w] # NoTask => coordinator # "finished"

\* A finished analysis whose windows are all closed gives up its threads.
PoolIsReleased ==
  (coordinator = "finished" /\ dialog = "closed" /\ displays = {}) ~> (caller = "gone")
===============================================================================
