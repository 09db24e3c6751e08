--------------------------- MODULE AnalysisContract ---------------------------
(***************************************************************************)
(* What one analysis (CoordinatorThread::run and everything it sets in     *)
(* motion) promises, without threads, queues or notifications: every       *)
(* selected function is built, a build may fork further builds, a build    *)
(* fails or becomes a graph, every evaluator evaluates every graph, a      *)
(* graph is reported once all of them did, and the analysis is over only   *)
(* when nothing of this is left to do.                                     *)
(***************************************************************************)
EXTENDS FiniteSets

CONSTANTS
  Functions,   \* the functions the user selected
  Forks,       \* the further builds that forking may create
  Evaluators   \* one per signature, and the block permutation evaluator

VARIABLES
  pending,     \* functions whose build was not started
  started,     \* builds that were ever started
  building,    \* builds that did not end
  graphs,      \* graphs that were not reported
  evaluated,   \* for each build, the evaluators that are done with its graph
  reported,    \* graphs whose result was reported
  over         \* the analysis said that it is over

vars == <<pending, started, building, graphs, evaluated, reported, over>>

Builders == Functions \cup Forks

Init ==
  /\ pending = Functions
  /\ started = {} /\ building = {} /\ graphs = {} /\ reported = {}
  /\ evaluated = [b \in Builders |-> {}]
  /\ over = FALSE

Start(f) ==
  /\ ~over /\ f \in pending
  /\ pending' = pending \ {f}
  /\ started' = started \cup {f}
  /\ building' = building \cup {f}
  /\ UNCHANGED <<graphs, evaluated, reported, over>>

\* Build b forks: another build takes the other branch of a condition.
Fork(b, k) ==
  /\ b \in building /\ k \in Forks \ started
  /\ started' = started \cup {k}
  /\ building' = building \cup {k}
  /\ UNCHANGED <<pending, graphs, evaluated, reported, over>>

EndBuild(b, isGraph) ==
  /\ b \in building
  /\ building' = building \ {b}
  /\ graphs' = IF isGraph THEN graphs \cup {b} ELSE graphs
  /\ UNCHANGED <<pending, started, evaluated, reported, over>>

Evaluate(b, e) ==
  /\ b \in graphs /\ e \notin evaluated[b]
  /\ evaluated' = [evaluated EXCEPT ![b] = @ \cup {e}]
  /\ UNCHANGED <<pending, started, building, graphs, reported, over>>

Report(b) ==
  /\ b \in graphs /\ evaluated[b] = Evaluators
  /\ graphs' = graphs \ {b}
  /\ reported' = reported \cup {b}
  /\ UNCHANGED <<pending, started, building, evaluated, over>>

Finish ==
  /\ ~over
  /\ pending = {} /\ building = {} /\ graphs = {}
  /\ over' = TRUE
  /\ UNCHANGED <<pending, started, building, graphs, evaluated, reported>>

Next ==
  \/ \E f \in Functions : Start(f)
  \/ \E b \in Builders : \/ \E k \in Forks : Fork(b, k)
                         \/ \E isGraph \in BOOLEAN : EndBuild(b, isGraph)
                         \/ \E e \in Evaluators : Evaluate(b, e)
                         \/ Report(b)
  \/ Finish

Spec == Init /\ [][Next]_vars
===============================================================================
