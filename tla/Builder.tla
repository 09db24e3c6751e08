------------------------------- MODULE Builder -------------------------------
(***************************************************************************)
(* Builds of data flow graphs (CodeBrokerImpl in src/src/Broker.cpp) and   *)
(* the decisions at conditional instructions: the path oracle              *)
(* (src/src/PathOracle.cpp) says whether a build takes the true branch,    *)
(* the false branch, or both, in which case it forks; the backlog          *)
(* (src/src/Backlog.cpp) is what a build remembers of its decisions.       *)
(*                                                                         *)
(* Builds run on different threads.  All they share is g_aNumForksLeft,    *)
(* which has a mutex of its own, and the thread pool.  A conditional       *)
(* instruction is two actions: one for its condition, which uses them, and *)
(* one for its body.                                                       *)
(*                                                                         *)
(* The program under analysis is a control flow graph.  Of a data flow     *)
(* graph only the size is kept; whether a condition is known to hold, known*)
(* to fail or open, whether it can be merged, and whether an instruction   *)
(* can be processed, is open.                                              *)
(***************************************************************************)
EXTENDS Integers, Sequences, FiniteSets

CONSTANTS
  Functions,   \* the functions to build
  Forks,       \* bound: the builds that forking may create
  Addresses,   \* the instructions
  Conditional, \* those with a condition
  Entry,       \* for each function, its first instruction
  Target,      \* for each instruction, the next one once it was executed
  Following,   \* for each instruction, the next one when it is skipped
  RETURN,      \* the Target of an instruction that ends the function
  NumForks,    \* a function forks once and then NumForks times (99)
  Retakes,     \* how often a decision is repeated before it is turned (4)
  MaxGraphSize,                    \* PathOracle::MaxGraphSize
  MaxConsecutiveNoopInstructions,  \* PathOracle::MaxConsecutiveNoopInstructions
  MaxConditions,                   \* PathOracle::MaxConditions
  MaxInitialize                    \* bound: how often a dialog is opened meanwhile

ASSUME BuilderAssumption ==
  /\ IsFiniteSet(Functions) /\ IsFiniteSet(Forks)
  /\ Functions # {} /\ Functions \cap Forks = {}
  /\ Conditional \subseteq Addresses /\ RETURN \notin Addresses
  /\ Entry \in [Functions -> Addresses]
  /\ Target \in [Addresses -> Addresses \cup {RETURN}]
  /\ Following \in [Addresses -> Addresses]
  /\ NumForks \in Nat /\ Retakes \in Nat \ {0}
  /\ MaxGraphSize \in Nat \ {0} /\ MaxConsecutiveNoopInstructions \in Nat \ {0}
  /\ MaxConditions \in Nat \ {0} /\ MaxInitialize \in Nat

VARIABLES
  build,            \* for each builder, its CodeBrokerImpl
  g_aNumForksLeft,  \* for each function that forked, how often it still may
  nForks,           \* history: for each function, the TAKE_BOTH since Initialize
  nInitialize       \* history: how often Initialize was called during the builds

vars == <<build, g_aNumForksLeft, nForks, nInitialize>>

Builders == Functions \cup Forks
Statuses == {"none", "scheduled", "running", "continue", "graph", "error"}

\* A decision, and whether a fork takes the other one
Decisions == [lpAddress : Addresses, bDecision : BOOLEAN, forked : BOOLEAN]

Builds ==
  [status : Statuses, lpFunctionAddress : Functions, lpAddress : Addresses,
   oGraph : 0 .. MaxGraphSize + 1,
   dwLastNumNodes : 0 .. MaxGraphSize + 1,
   dwNumIterationsWithoutProgress : 0 .. MaxConsecutiveNoopInstructions,
   dwNumConditions : 0 .. MaxConditions,
   oBacklog : [Addresses -> Seq(BOOLEAN)],
   path : Seq(Decisions)]

\* The constructor; the registers are in the graph from the start.
NewBuild(f, status) ==
  [status |-> status, lpFunctionAddress |-> f, lpAddress |-> Entry[f],
   oGraph |-> 1, dwLastNumNodes |-> 0, dwNumIterationsWithoutProgress |-> 0,
   dwNumConditions |-> 0, oBacklog |-> [a \in Addresses |-> <<>>], path |-> <<>>]

AnyFunction == CHOOSE f \in Functions : TRUE

Init ==
  /\ build = [b \in Builders |->
                NewBuild(IF b \in Functions THEN b ELSE AnyFunction, "none")]
  /\ g_aNumForksLeft = [f \in {} |-> 0]
  /\ nForks = [f \in Functions |-> 0]
  /\ nInitialize = 0

-------------------------------------------------------------------------------
(* The path oracle and the backlog. *)

\* PathOracleImpl::Initialize, called by the constructor of the dialog.  Builds
\* of an earlier analysis may still be running.
Initialize ==
  /\ nInitialize < MaxInitialize
  /\ nInitialize' = nInitialize + 1
  /\ g_aNumForksLeft' = [f \in {} |-> 0]
  /\ nForks' = [f \in Functions |-> 0]
  /\ UNCHANGED build

\* Faulty variant: the budget may be overdrawn by one.
MayFork_Overdrawn(f) == f \in DOMAIN g_aNumForksLeft => g_aNumForksLeft[f] >= 0

MayFork(f) == f \in DOMAIN g_aNumForksLeft => g_aNumForksLeft[f] > 0

\* The first TAKE_BOTH of a function is free.
TakeFromBudget(f) ==
  /\ g_aNumForksLeft' =
       [g \in DOMAIN g_aNumForksLeft \cup {f} |->
          IF g # f THEN g_aNumForksLeft[g]
          ELSE IF f \in DOMAIN g_aNumForksLeft THEN g_aNumForksLeft[f] - 1 ELSE NumForks]
  /\ nForks' = [nForks EXCEPT ![f] = @ + 1]

Log(b) == build[b].oBacklog[build[b].lpAddress]

\* Faulty variant: a decision is turned one visit later.
Retake_OnceMore(log) == IF Len(log) > Retakes THEN ~log[1] ELSE log[1]

\* A condition that was decided before is decided as the first time, until it was
\* decided Retakes times, and from then on the other way.
Retake(log) == IF Len(log) >= Retakes THEN ~log[1] ELSE log[1]

\* ShouldFork: the decisions a build takes itself, and whether it takes both
TakesBoth(b) == Log(b) = <<>> /\ MayFork(build[b].lpFunctionAddress)

Takes(b, bDecision) ==
  IF Log(b) = <<>>
  THEN bDecision = FALSE /\ ~MayFork(build[b].lpFunctionAddress)
  ELSE bDecision = Retake(Log(b))

\* Faulty variant: only the decision itself is remembered.
NewEntry_Replaces(r, bDecision, forked) ==
  [r EXCEPT !.oBacklog[r.lpAddress] = <<bDecision>>,
            !.path = Append(@, [lpAddress |-> r.lpAddress, bDecision |-> bDecision,
                                forked |-> forked])]

NewEntry(r, bDecision, forked) ==
  [r EXCEPT !.oBacklog[r.lpAddress] = Append(@, bDecision),
            !.path = Append(@, [lpAddress |-> r.lpAddress, bDecision |-> bDecision,
                                forked |-> forked])]

-------------------------------------------------------------------------------
(* The loop of Build_Impl. *)

GraphTooLarge(b) == build[b].oGraph > MaxGraphSize

NoProgress(b) == build[b].oGraph = build[b].dwLastNumNodes

\* Faulty variant: one instruction too late, the counter has passed the limit.
TooManyNoops_Misses(b) ==
  /\ NoProgress(b)
  /\ build[b].dwNumIterationsWithoutProgress = MaxConsecutiveNoopInstructions + 1

TooManyNoops(b) ==
  /\ NoProgress(b)
  /\ build[b].dwNumIterationsWithoutProgress + 1 = MaxConsecutiveNoopInstructions

\* A turn of the loop that no limit stops
Turn(b) ==
  /\ build[b].status = "running"
  /\ ~GraphTooLarge(b) /\ ~TooManyNoops(b)

\* Faulty variant: the instructions without progress are not counted.
Counted_Resets(b) ==
  [build[b] EXCEPT !.dwNumIterationsWithoutProgress = 0,
                   !.dwLastNumNodes = build[b].oGraph]

\* The build once the limits were checked
Counted(b) ==
  [build[b] EXCEPT
     !.dwNumIterationsWithoutProgress = IF NoProgress(b) THEN @ + 1 ELSE 0,
     !.dwLastNumNodes = build[b].oGraph]

\* The outcomes of executing the instruction: the next one, or the end of the
\* build, because the function returns or because the instruction cannot be
\* processed.  Either way a build that ends yields its graph.
Ended(r) == [r EXCEPT !.status = "graph"]

At(r, lpNextAddress) ==
  {[r EXCEPT !.status = "running", !.lpAddress = lpNextAddress, !.oGraph = @ + d] :
     d \in 0 .. 1}

Executed(r) ==
  {Ended(r)} \cup IF Target[r.lpAddress] = RETURN THEN {} ELSE At(r, Target[r.lpAddress])

\* GRAPH_PROCESS_CONTINUE: the body of the instruction comes next.
Continued(r) == [r EXCEPT !.status = "continue"]

\* GRAPH_PROCESS_SKIP: it does not.
Skipped(r) == At(r, Following[r.lpAddress])

Becomes(b, outcomes) == \E r \in outcomes : build' = [build EXCEPT ![b] = r]

\* Faulty variant: a function may be scheduled again.
ScheduleBuild_Again(f) ==
  /\ build' = [build EXCEPT ![f] = NewBuild(f, "scheduled")]
  /\ UNCHANGED <<g_aNumForksLeft, nForks, nInitialize>>

\* ScheduleBuild
ScheduleBuild(f) ==
  /\ build[f].status = "none"
  /\ build' = [build EXCEPT ![f] = NewBuild(f, "scheduled")]
  /\ UNCHANGED <<g_aNumForksLeft, nForks, nInitialize>>

\* A worker takes the task and calls Build_Impl.
Execute(b) ==
  /\ build[b].status = "scheduled"
  /\ build' = [build EXCEPT ![b].status = "running"]
  /\ UNCHANGED <<g_aNumForksLeft, nForks, nInitialize>>

\* A limit was exceeded; the clock may say so at any time.
GiveUp(b) ==
  /\ build[b].status = "running"
  /\ GraphTooLarge(b) \/ TooManyNoops(b)
  /\ build' = [build EXCEPT ![b].status = "error"]
  /\ UNCHANGED <<g_aNumForksLeft, nForks, nInitialize>>

TimeIsOver(b) ==
  /\ Turn(b)
  /\ build' = [build EXCEPT ![b] = [Counted(b) EXCEPT !.status = "error"]]
  /\ UNCHANGED <<g_aNumForksLeft, nForks, nInitialize>>

IsConditional(b) == build[b].lpAddress \in Conditional

Unconditional(b) ==
  /\ Turn(b) /\ ~IsConditional(b)
  /\ Becomes(b, Executed(Counted(b)))
  /\ UNCHANGED <<g_aNumForksLeft, nForks, nInitialize>>

Body(b) ==
  /\ build[b].status = "continue"
  /\ Becomes(b, Executed(build[b]))
  /\ UNCHANGED <<g_aNumForksLeft, nForks, nInitialize>>

\* The flags that the condition needs are missing.
NoFlags(b) ==
  /\ Turn(b) /\ IsConditional(b)
  /\ Becomes(b, {Ended(Counted(b))})
  /\ UNCHANGED <<g_aNumForksLeft, nForks, nInitialize>>

\* IntroduceCondition, when IsSatisfied answers ALWAYS or NEVER
Decided(b) ==
  /\ Turn(b) /\ IsConditional(b)
  /\ Becomes(b, {Continued(Counted(b))} \cup Skipped(Counted(b)))
  /\ UNCHANGED <<g_aNumForksLeft, nForks, nInitialize>>

\* IntroduceCondition, when it answers SOMETIMES: the condition is counted, and the
\* oracle is asked unless there are too many.
NumConditions(b) == build[b].dwNumConditions + 1

Introduced(b) == [Counted(b) EXCEPT !.dwNumConditions = NumConditions(b)]

Sometimes(b) == Turn(b) /\ IsConditional(b) /\ NumConditions(b) < MaxConditions

TooManyConditions(b) ==
  /\ Turn(b) /\ IsConditional(b) /\ NumConditions(b) >= MaxConditions
  /\ Becomes(b, {Ended(Introduced(b))})
  /\ UNCHANGED <<g_aNumForksLeft, nForks, nInitialize>>

TakeTrue(b) ==
  /\ Sometimes(b) /\ Takes(b, TRUE)
  /\ Becomes(b, {Continued(NewEntry(Introduced(b), TRUE, FALSE))})
  /\ UNCHANGED <<g_aNumForksLeft, nForks, nInitialize>>

TakeFalse(b) ==
  /\ Sometimes(b) /\ Takes(b, FALSE)
  /\ Becomes(b, Skipped(NewEntry(Introduced(b), FALSE, FALSE)))
  /\ UNCHANGED <<g_aNumForksLeft, nForks, nInitialize>>

\* The copy of the build takes the false branch, and is scheduled at the next
\* instruction; its Build_Impl starts with new loop counters.
Forked(r) ==
  {[s EXCEPT !.status = "scheduled", !.dwLastNumNodes = 0,
             !.dwNumIterationsWithoutProgress = 0] : s \in Skipped(NewEntry(r, FALSE, TRUE))}

\* Faulty variant: the copy is taken after the decision was entered.
TakeBoth_CopiesLate(b, k) ==
  /\ Sometimes(b) /\ TakesBoth(b)
  /\ build[k].status = "none"
  /\ LET taken == NewEntry(Introduced(b), TRUE, TRUE)
     IN \E s \in Forked(taken) : build' = [build EXCEPT ![b] = Continued(taken), ![k] = s]
  /\ TakeFromBudget(build[b].lpFunctionAddress)
  /\ UNCHANGED nInitialize

\* IntroduceCondition, when the oracle says TAKE_BOTH
TakeBoth(b, k) ==
  /\ Sometimes(b) /\ TakesBoth(b)
  /\ build[k].status = "none"
  /\ \E s \in Forked(Introduced(b)) :
       build' = [build EXCEPT ![b] = Continued(NewEntry(Introduced(b), TRUE, TRUE)), ![k] = s]
  /\ TakeFromBudget(build[b].lpFunctionAddress)
  /\ UNCHANGED nInitialize

\* The oracle said TAKE_BOTH, but the graph cannot be copied: the build goes on
\* alone.  The budget stays spent.
ForkFails(b) ==
  /\ Sometimes(b) /\ TakesBoth(b)
  /\ Becomes(b, {Continued(NewEntry(Introduced(b), TRUE, FALSE))})
  /\ TakeFromBudget(build[b].lpFunctionAddress)
  /\ UNCHANGED nInitialize

\* A condition cannot be merged into the predicate: the build ends, and a fork that
\* was made for it is dropped.
MergeFails(b) ==
  /\ Sometimes(b)
  /\ Becomes(b, {Ended(Introduced(b))})
  /\ IF TakesBoth(b)
     THEN TakeFromBudget(build[b].lpFunctionAddress)
     ELSE UNCHANGED <<g_aNumForksLeft, nForks>>
  /\ UNCHANGED nInitialize

-------------------------------------------------------------------------------
Instruction(b) ==
  \/ Unconditional(b) \/ NoFlags(b) \/ Decided(b) \/ Body(b) \/ TooManyConditions(b)
  \/ TakeTrue(b) \/ TakeFalse(b)
  \/ \E k \in Forks : TakeBoth(b, k)
  \/ ForkFails(b) \/ MergeFails(b)

\* Build_Impl, but for the clock
BuildStep(b) == Execute(b) \/ GiveUp(b) \/ Instruction(b)

Next ==
  \/ \E f \in Functions : ScheduleBuild(f)
  \/ \E b \in Builders : BuildStep(b) \/ TimeIsOver(b)
  \/ Initialize

Spec == Init /\ [][Next]_vars

\* Workers go on.  The clock is not needed to end a build.
FairSpec == Spec /\ \A b \in Builders : WF_vars(BuildStep(b))

-------------------------------------------------------------------------------
(* Properties. *)

\* Every variable has its type: the loop counters never leave their limits.
TypeOK ==
  /\ build \in [Builders -> Builds]
  /\ DOMAIN g_aNumForksLeft \subseteq Functions
  /\ \A f \in DOMAIN g_aNumForksLeft : g_aNumForksLeft[f] \in 0 .. NumForks
  /\ nForks \in [Functions -> Nat]
  /\ nInitialize \in 0 .. MaxInitialize

Started(b) == build[b].status # "none"
Family(f) == {b \in Builders : Started(b) /\ build[b].lpFunctionAddress = f}

\* All builds of a function together, on whatever threads they run, take both
\* branches at most NumForks + 1 times, and there is at most one build more than
\* that; opening the dialog again while they run refills the budget.
ForkBudget ==
  \A f \in Functions :
    /\ nForks[f] <= NumForks + 1
    /\ Cardinality(Family(f)) <= 1 + (NumForks + 1) * (nInitialize + 1)

\* A build repeats its first decision at an instruction until it was made Retakes
\* times, and from then on leaves the loop the other way, also when the decisions
\* were made by the build it was forked from.
LogShape ==
  \A b \in Builders, a \in Addresses :
    LET log == build[b].oBacklog[a]
    IN \A i \in DOMAIN log : log[i] = log[1] <=> i <= Retakes

\* Every condition the oracle was asked about is counted, inherited ones included,
\* and stands in the backlog once; only the last one may be missing there, when it
\* ended the build.
ConditionsCounted ==
  \A b \in Builders :
    LET n == build[b].dwNumConditions
    IN /\ Len(build[b].path) \in {n, n - 1}
       /\ build[b].status # "graph" => Len(build[b].path) = n
       /\ Len(build[b].path) < MaxConditions
       /\ \A a \in Addresses :
            Len(build[b].oBacklog[a]) =
              Cardinality({i \in DOMAIN build[b].path : build[b].path[i].lpAddress = a})

\* The builds of a function divide its paths among them.  No two analyse the same
\* path: they agree up to a condition at which they decided differently.  And no
\* branch is lost: where a build took the true branch and left the other one to a
\* fork, a build exists that took it.
DifferAt(p, q, i) ==
  /\ i \in DOMAIN p \cap DOMAIN q
  /\ p[i].lpAddress = q[i].lpAddress /\ p[i].bDecision # q[i].bDecision
  /\ \A j \in 1 .. i - 1 : p[j] = q[j]
PathsDivided ==
  \A f \in Functions : \A b \in Family(f) :
    LET path == build[b].path
    IN /\ \A c \in Family(f) \ {b} :
            \E i \in DOMAIN path : DifferAt(path, build[c].path, i)
       /\ \A i \in DOMAIN path :
            path[i].forked => \E c \in Family(f) : DifferAt(path, build[c].path, i)

\* The builds of all functions keep the contract of one analysis.
Contract == INSTANCE AnalysisContract WITH
  Evaluators <- {},
  pending <- {f \in Functions : ~Started(f)},
  started <- {b \in Builders : Started(b)},
  building <- {b \in Builders : build[b].status \in {"scheduled", "running", "continue"}},
  graphs <- {b \in Builders : build[b].status = "graph"},
  evaluated <- [b \in Builders |-> {}],
  reported <- {},
  over <- FALSE
RefinesContract == Contract!Spec

\* Every build ends, even if the clock never stops it: the graph grows, or the
\* instructions that add nothing are counted.
BuildsEnd ==
  \A b \in Builders : Started(b) ~> build[b].status \in {"graph", "error"}
===============================================================================
