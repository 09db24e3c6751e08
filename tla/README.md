# Where's Crypto: a TLA+ model

Where's Crypto is an IDA plugin that finds cryptographic primitives in ARM
binaries. It executes every function symbolically into a data flow graph, forks
the execution at conditions it cannot decide, and searches the graphs for
subgraphs that are isomorphic to signatures. This directory models the program
in TLA+, checks the models with TLC and proves theorems about them with TLAPS.

Paths below are relative to the repository; line numbers are those of the files
in `src/`.

## 1. The system

| Component | State | Operations | Why it is hard | What makes it correct |
|---|---|---|---|---|
| **Thread pool** (`ThreadPool.cpp/hpp`) | task list, result list, `dwNumActive`, `dwNumSynchronized`, three condition variables, the workers | `Schedule`, `ScheduleIfResourceAvailable`, `WaitForResult`, `Synchronize`, `Worker`, `YieldResult`, destructor | one mutex, left and re-entered around every wait; counters updated on both sides of a wait; lost and spurious wakeups | every task executed once; "all idle" really means that no result can appear; nobody sleeps beside a task; barrier, wait and destructor return |
| **Coordinator** (`ControlDialog.cpp` 30-130, `AnalysisResult.hpp`) | function list, result tracker, the graph whose evaluators are being scheduled | the loop of `CoordinatorThread::run`, `ScheduleNextFunction`, `SetNull`, `SetResult` | results arrive in any order, some before all evaluators were announced; tasks schedule tasks | a graph is reported once, with all its results; "finished" means that nothing is left; the analysis ends |
| **Control dialog** (`ControlDialog.cpp`, rest) | progress, table of results, open windows, references to the pool | slots of the three signals, display, close | UI thread and coordinator are connected by queued signals; the pool dies with its last reference | what an open dialog says is complete; the pool is released, not by a worker of its own |
| **Code graph builder** (`Broker.cpp` 623-983) | per build: graph, processor, predicate, backlog, loop counters, condition counter | `ScheduleBuild`, `Build_Impl`, `IntroduceCondition`, `fork` | several limits against loops; partial failure of a fork; builds share the fork budget | builds end; the builds of a function divide its paths and lose none |
| **Path oracle, backlog** (`PathOracle.cpp`, `Backlog.cpp`) | `g_aNumForksLeft` under a mutex; decisions per instruction | `Initialize`, `ShouldFork`, `NewEntry`, `Get` | shared by all threads; reset from the UI thread without the mutex | budget not overdrawn; a loop is left after a fixed number of turns |
| **Predicate** (`Predicate.cpp`) | conjunction of normalized conditions | `MergeCondition`, `IsSatisfied`, `CompareNormalized` | bounds near 0 and 2^32-1 | a merged predicate denotes the intersection; ALWAYS and NEVER are right |
| **Condition** (`Condition.cpp`) | expression, constant, operator | `Normalize` | constants moved across an inequality modulo 2^32 | the normalized condition holds of the same values |
| **Expression rewriting** (`Broker.cpp` 1-548) | a graph | `NewAdd`, `NewMult`, `NewShift`, `NewRotate`, `NewAnd`, ... | overflow, shift amounts of 32 and more, zero and identity elements | a rewritten node denotes the value of the original expression |
| **Data flow graph** (`DFGraph.cpp`, `DFGNode.cpp`, `Broker.cpp` 549-615) | nodes by hash, arcs both ways | `insert`, `remove`, `copy`, `fork`, `Cleanup` | recursion with a depth limit; removal in hash order | a copy is isomorphic and disjoint; arcs are symmetric; cleanup is order-independent |
| **ARM processor** (`Arm.cpp`) | registers, flags, call stack | `Instruction`, `JumpToNode`, `PushCallStack`, `PopCallStack`, `Migrate` | flags compared by pointer after a fork; recursion | condition codes mean what ARM says; calls and returns match |
| **Signature evaluator** (`SignatureEvaluator.cpp`, `SparseMatrix.hpp`) | sparse candidate matrix, flag map, opaque assignment | `Pass1`, `PruneFlagged`, `Pass2`, `Evaluate` | backtracking with undo; erasing while enumerating; a clock | a reported match is an isomorphism; a match is found unless time runs out |
| **Block permutation evaluator** (`BlockPermutationEvaluator.cpp`) | triplets of loads with their paths, a cache of compared nodes | `Evaluate`, `BreadthFirstSearch`, `BFSMapPath` | groups by expression and distance; a cache that outlives the pair it is about; a clock | a permutation is reported only for blocks that are linked by paths of nodes that are alike |
| **Signature parser** (`SignatureParser.cpp`) | position in the text, labels, references, graph of the variant | `Parse*` | every alternative is tried in turn and leaves nodes behind; labels are defined while they are read | a text stands for the nodes its tree says |
| **Reference counting** (`ReferenceCount.hpp`) | a count per object | `rfc_ptr` | assignment, cycles | an object lives while referred to |
| **Function list, sliding widget, display, plugin** | Qt widgets | - | - | output and registration only |

How they interact: the dialog starts a coordinator thread and hands it the
selection. The coordinator **schedules** builders in the pool and waits for
results. A worker executes a builder; the builder **calls** processor and
rewriting to grow its graph, **asks** predicate and path oracle at each open
condition, and may **schedule** a fork of itself. Its graph **comes back** through
the pool's result list; the coordinator schedules one task per evaluator, collects
their results in an `AnalysisResult`, and **signals** the dialog. The results own
the pool, so closing windows ends it.

Shared between threads are only the pool (one mutex), the fork budgets (one
mutex), and immutable signatures; graphs belong to one build until they are a
result. Nothing is persisted, and there is no network: crash recovery and message
loss do not occur.

`PROJECT.json` lists the hazards of this code one by one, each at its line, with
the properties that watch it, or the reason why none does.

## 2. The modules

| Module | Models | State and actions |
|---|---|---|
| `ThreadPool` | `ThreadPool.cpp` | The variables keep the names of the fields (`aTasks`, `aResults`, `dwNumActive`, `dwNumSynchronized`, `stTask`). One action is one critical section of `stMutex`: the part of `Worker` between two waits, `Schedule`, and so on. `worker` and `caller` are program counters, in which *waiting* and *notified but not yet in the monitor* differ. `submission` and `nSynchronize` are history. |
| `AnalysisContract` | what an analysis promises, no code of its own | Sets of functions, builds and graphs; start, fork, end, evaluate, report, finish. |
| `Analysis` | `CoordinatorThread::run` with its tasks; EXTENDS `ThreadPool` | The coordinator calls the pool's operators, so each of its actions is one call to the pool and what it does between that call and the next. The tasks are builds that may fork (`ForkBuild`), end (`EndBuild`) and evaluations. |
| `ControlDialog` | slots, rows, windows, ownership of the pool; EXTENDS `Analysis` | `aSignals` is Qt's queue between the threads, `nHandled` its read position; `PoolOwned` collects the `rfc_ptr`s. |
| `Builder` | `ScheduleBuild`, `Build_Impl`, `IntroduceCondition`, `fork`; path oracle; backlog | One record per `CodeBrokerImpl`. A conditional instruction is two actions, its condition (which uses oracle and backlog) and its body. The program under analysis is a control flow graph given by constants. |
| `Compare` | the operators of `Condition.hpp`, `CompareNormalized` | Words of any width, the ten comparisons, the table of two normalized ones. No variables. |
| `Terms` | nodes, memory maps and conditions as data; EXTENDS `Compare` | A node is its structure. No variables. |
| `Predicate` | `Predicate.cpp`; EXTENDS `Terms` | `MergeCondition` and `IsSatisfied` on a sequence of conditions; a round of the loop of `MergeCondition` goes to the next return or erase. |
| `Expression` | the rewriting of `BrokerImpl` (`Broker.cpp` 1-548); EXTENDS `Terms` | One operator per `New*` function. |
| `Condition` | `Condition.cpp`; EXTENDS `Expression` | `Normalize` step by step. |
| `Arm` | `ArmImpl` with the memory map of its broker and the path predicate | One action per group of instructions in `Instruction`. `cpu` is the processor (registers, flags with the identity of their objects, call stack), `conditions` the predicate. EXTENDS `Predicate`; which node an operation makes (`New`, `CarryOf`) and the normal form of a condition (`NormalForm`) are constants. |
| `ArmPath` | `Arm` with the nodes of `Expression` and the normal forms of `Condition` | `PathNext` is `Next` with history: `runs` holds the concrete machines that follow the same path. |
| `ArmMachine` | reference, no code of its own | What an instruction does on concrete registers, memory and flags. |
| `Cleanup` | graphs as objects in memory, `BrokerImpl::Cleanup`, `RemoveNode` | Nodes with pointers (`heap`, `aIdMap`); `aCalls` is the stack of `Cleanup_Impl`. One step for each node, in any order, since a hash table decides it. |
| `DFGraph` | `DFGraph.cpp`, `DFGNode.cpp`, `CodeBrokerImpl::fork`; EXTENDS `Cleanup` | Insertion of an expression; forking takes one step for each node, in any order (`todo`). |
| `SignatureParser` | `SignatureParser.cpp` | One operator per `Parse*` function, from a state of the parser to the one after it. |
| `SignatureText` | reference, no code of its own | The grammar as trees: how a tree is written, and the nodes it means. |
| `SignatureSearch` | the sparse matrix, the flag map, `PruneFlagged` and `Pass2Recurse` (`SignatureEvaluator.cpp/hpp`); EXTENDS `Cleanup` | `oMatrix`, `oFlagMap`, `oOpaqueAssignment` as in the code; `calls` is the stack of `Pass2Recurse`, one action per call, candidate and return. |
| `SignatureEvaluator` | `Pass1Recurse` and `Evaluate`; EXTENDS `SignatureSearch`, `DFGraph` | A variant starts with the orders its hash table may have. |
| `BlockPermutation` | `BlockPermutationEvaluator.cpp` | `aCandidates`, `aQueue`, `oEvalCache`; one action per round of the search for paths and per group of triplets. |
| `Matching` | the composition of the last eight: parse, clean up the signature, build the code graph, fork it, clean up the fork, evaluate | `phase` says where; the graphs pass from one component to the next. |
| `MCThreadPool`, `MCAnalysis`, `MCControlDialog`, `MCBuilder`, `MCArm`, `MCMatching` | - | small instances |
| `ThreadPoolProofs`, `AnalysisProofs`, `CompletionProofs`, `DialogProofs`, `BuilderProofs`, `PredicateProofs`, `ArmProofs`, `MatchingProofs` | - | the theorems |

`Analysis` implements `AnalysisContract` (`RefinesContract`), with the pool, the
tracker and the coordinator's position mapped to sets of builds and graphs, and it
implements the client and tasks that `ThreadPool` is specified for
(`UsesPoolCorrectly`). `Builder` implements the building half of the same contract,
with no evaluators: the forks that `Analysis` leaves open are those it makes.

Abstractions. Task, function, graph and evaluator are names. A build's graph is
its size; the predicate's answer (ALWAYS, NEVER, SOMETIMES), whether a merge fails
and whether an instruction can be processed are open in `Builder`. What a build
or an evaluation computes is open in `Analysis`; only which result it yields
matters there. `Arm` and `Matching` are what was open: `Arm` executes one path
of a build with its conditions, a fork being two behaviours, and `Matching`
follows one graph to its verdict. Both run in one thread, as graphs belong to one
build or one evaluation. The clock may say at any moment that time is over; the
evaluators read theirs in every round of every loop, and the model counts these
readings down.
`Schedule` on the pool is one action although `InitThreads` creates the threads
before the list is extended: new threads wait for the mutex that `Schedule` holds.
`FindNode` looks nodes up by type, value and inputs, so that no graph has two nodes
of one structure; `Terms` and what extends it take a node for its structure, and
`Cleanup` and `DFGraph` have the pointers, for what is done to a graph as a whole. Words have 4
bits instead of 32; the constants 16, 24 and 31 in the code that stand for the
width are expressed by it. Where C++ leaves a shift undefined, the model has
what the x86 build does, the amount modulo the width. Programs for `Arm` are given
as decoded instructions, because IDA decodes them; texts for `SignatureParser` are
tokens.

### Mutants

A definition `X_Y` is `X` with a fault that a programmer could make, `Y` naming
it: `BarrierComplete_OneShort`, `SetNull_Missing`. Nothing refers to it.
`PROJECT.json` pairs each property with one: with `X` replaced by `X_Y`, the run
that checks the property fails with exactly that property. They are there to show
that the bounds of the runs are large enough for the property to be violated if
the code were wrong.

## 3. The runs

Run one with `tlc -workers 2 -config X.cfg M`.

| Run (`.cfg`) | Instance | Question |
|---|---|---|
| `pool` (`MCThreadPool`) | 3 workers, 2 tasks, 2 calls of `Synchronize`; 63973 states | Do counters, hand-over, idle test and barrier survive every interleaving, with any client and any tasks? Do scheduled tasks run, and do the wait, the first `Synchronize` and the destructor return? |
| `pool_second_barrier` (`MCThreadPoolBarrier`) | 2 workers, 1 task, 2 calls of `Synchronize` | Does every `Synchronize` return? No, see below. |
| `analysis` (`MCAnalysis`) | 2 functions, 1 fork, 1 signature and the block permutation evaluator, 2 workers; 205209 states up to symmetry of the workers | Is the coordinator's bookkeeping right, and does it implement the contract and use the pool as specified? |
| `analysis_progress` (`MCAnalysisLive`) | 2 functions, 1 fork, no signature | Is every graph reported, and what is the only way not to end? |
| `analysis_hangs` (`MCAnalysisHang`) | 2 functions | Does the analysis end? No, see below. |
| `dialog` (`MCControlDialog`) | 1 function, 1 fork, 2 workers, any user, batch or not | Is a complete dialog complete, and is the pool released, by the right thread? |
| `builds` (`MCBuilder`) | 1 function whose loop has two conditions, 2 forks, `NumForks` 1, `Retakes` 2, 1 call of `Initialize`; 1030650 states up to symmetry of the forks | Budget, backlog, condition count, division of the paths, the contract |
| `builds_end` (`MCBuilderLive`) | the same loop, 1 fork | Does every build end, whatever the clock says? |
| `values` (`MCArm`) | eight families of programs of up to 5 instructions, words of 4 bits, 24 machines; 125628 states | Do registers and memory keep their values through every rewriting (`RegistersSound`)? Is a path followed by exactly the machines its predicate holds on (`PathSound`, `PathPrecise`)? Are flags shared as they were set (`FlagsShared`), conditions defined (`ConditionDefined`), the call stack bounded (`CallStackBounded`)? |
| `unsigned` (`MCArmUnsigned`) | `cmp` of two registers, then an instruction with cCS or cCC | Do cCS and cCC mean "unsigned higher or same" and "lower"? No, see below. |
| `matching` (`MCMatching`) | 136 texts parsed; 6 signatures searched in 6 functions; 12 chains of blocks; 82280 states | Is a text parsed as written, also after failed attempts (`ParsedAsWritten`)? Does cleanup keep exactly what counts (`CleanupExact`), is a fork a copy (`ForkIsCopy`)? Is a failed branch of the search undone (`BranchesUndone`), the verdict right (`VerdictIsRight`), a block permutation one (`PermutationIsRight`)? |
| `transient` (`MCMatchingTransient`) | two texts with `TRANSIENT`, one labelling a node that nothing uses | Is a TRANSIENT node left out unless another needs it? No, see below. |

### Bounds, and why they are enough

* *Three workers, two tasks.* The races of the pool are between a worker that
  goes to sleep, one that was notified and one that is awake; with two workers two
  of these roles would fall together. Two tasks are needed for a task that is
  taken by a worker which was not the one notified. The client may call
  `Synchronize` twice: the second call is the one that meets leftovers of a first.
  The proofs remove these bounds for the safety properties.
  `SynchronizeReturns` is about a pool whose threads exist: a `Synchronize` before the
  first task, which nothing in the program does, would wait for ever, as it does not
  call `InitThreads`.
* *Two functions, one fork, two evaluators, two workers.* Two functions are the
  smallest selection in which `ScheduleNextFunction` is refused and repeated; two
  evaluators are the smallest number for a graph that is partly evaluated; a fork
  makes a graph that nobody scheduled from the list. With two workers, an
  evaluation of a graph may end before its last evaluator is scheduled.
* *The dialog* needs one function only: two graphs (the function's and its fork's)
  for two rows and two windows.
* *Builder.* The constants of the code are scaled down together, keeping their
  order: each is large enough to be reached, after the others were at work.

  | Constant | Code | `builds`, `builds_end` |
  |---|---|---|
  | `NumForks` (`PathOracle.cpp` 20-24) | 99 | 1 |
  | `Retakes` (`PathOracle.cpp` 31) | 4 | 2 |
  | `MaxGraphSize` | 200000 | 2 |
  | `MaxConsecutiveNoopInstructions` | 1000 | 2 |
  | `MaxConditions` | 1000 | 4 |

  (The 4 turns a decision at its fifth repetition; the comment at `PathOracle.cpp` 38
  speaks of ten.)

  With `NumForks` 1 a function answers TAKE_BOTH twice, once free and once from
  the budget. The loop (`addne`, `beq`) has three builds meet a condition for the
  first time, so a third answer is asked for and refused, unless `Initialize`,
  bounded by `MaxInitialize`, comes before. `MaxConditions` 4 lets a build decide one
  condition three times, one more than `Retakes`, and be ended by the count after
  that; forks inherit the count, the log and the path.
* `Forks` bounds how many forks can exist at the same time: an action that would
  need one more is not enabled. It is at least the number that `NumForks` allows
  without `Initialize`, so no fork the oracle allows is cut off there.

* *Words of four bits* (`W`, `MaxInt` 7, `MaxWord` 15) are the smallest with a half
  and a quarter (the code has operations on 16 and on 8 bits), with shift amounts
  of 1, `W`-1 and `W`, and with constants near both ends of both orders. `Env`
  lists machines with every value of one register, each with several others of the
  second register and of memory.
* *Paths of `Arm`.* The longest chain that one property needs is compare,
  conditional instruction, compare, conditional instruction and one more
  (`MaxSteps` 5); a family of programs lists, for each address, the instructions that
  may be there, so that all sequences are looked at. `MaxConditions` 4 (1000 in
  the code) and `MaxCallDepth` 3 (2 in the code, `PathOracle.cpp` 45) are reached;
  the call stack counts the address pushed by the call that asks, so 3 has
  functions inlined two levels deep, and the 2 of the code, whose comment says
  "2 levels deep", one. `Size` 2 and `PcOffset` 4 are those of Thumb.
* *Matching.* `Block` is the number of code nodes in an entry of the sparse matrix,
  2 for 32, so that graphs of up to nine nodes have several entries, and `Tested` 1
  for 6, the number of bits `IsAssigned` sees in an entry. `MaxDepth` 3 for 10000 is
  exceeded by one function. `Clocks` has times that end pass 1, the pruning, and
  the search in its middle, and one that never ends. Two variants, two references
  and chains of XOR are enough for pruning to remove a candidate of a pair chosen
  before, for the search to backtrack over several candidates, and for a second
  variant to be tried after the first. `Ends` bounds the order in which a signature
  is cleaned to the oldest or the newest node next; the code graph is cleaned in
  every order.
* *Blocks.* `MinDepth` is 4 as in the code. `MinDistance` is 2 instead of 16. The
  chains have three to five blocks at equal and at unequal distances, three loads
  with the same round or with different ones, and additional uses of a load or of
  a mixed word that make a second path. `BFSMapPath` tries neighbours in one order.

### Fairness

Only what runs by itself is fair: workers (the mutex is granted eventually, and
every task is bounded by the limits of `Build_Impl` or by an evaluator's clock), the
coordinator when it is not blocked, the UI thread's event loop, and the thread that
has to run the destructor. A thread in a wait that was not notified is not
required to go on: spurious wakeups may happen and never have to. The user, the
forks and the clock are not fair. `BuildsEnd` holds although the clock
(`TimeIsOver`) owes nothing: the graph's size and the count of instructions without
progress suffice.

`CHECK_DEADLOCK FALSE` is set where the system really may stop: a destroyed pool, a
finished analysis whose pool idles, builds that all ended, a path at its end, a
verdict.

### What the violations show

* `analysis_hangs`: `ScheduleIfResourceAvailable` (`ThreadPool.cpp` 26-38) inserts
  a task and notifies nobody. If all workers went to sleep before, nobody takes
  it, and the coordinator waits in `WaitForResult`, whose condition counts on the
  task being run. `AnalysisEnds` and `OnlyFunctionsStranded` bound the damage: this
  is the *only* way an analysis fails to end, and then nothing but builds of
  selected functions is left undone.
* `pool_second_barrier`: `Synchronize` resets `dwNumSynchronized` while a worker
  of the previous barrier may not have looked at it yet; that worker waits again
  and the count cannot be completed. Nothing in the program calls `Synchronize`
  today.
* `unsigned`: `Condition.cpp` 77 brings a comparison of two expressions to one of
  their difference with 0, whatever the operator. Of the unsigned operators that
  leaves `>= 0`, always true, and `< 0`, never true: after `cmp r0, r1`, a `bcs` is
  always taken and a `bcc` never, without a question to the path oracle. The
  comments at `Arm.cpp` 323-324 say what ARM does.
* `transient`: `SignatureParser.cpp` 97-101 recognizes `TRANSIENT` and line 115 would
  not flag such a node to be kept, but line 102 has set `bTransient` to false in
  between. The node of every statement is searched for. That changes nothing where
  later statements use the node, as nearly all in `signatures/lfsr.txt` do; in the variant
  of `signatures/xtea.txt` 19 the label `key` is used by none, and its OPAQUE has to be
  matched with some node of the code all the same.

### What the properties leave out, and why

Where the code is known to differ from what a property says, the property names the
exception, and holds with no other:

* `RegistersSound`, `PathSound` and `PathPrecise` speak of a path and a machine in
  `exact`, the set of machines for which the path has met nothing listed in `Loses` and
  `Exact` (`ArmPath`), that is:
  * carries and flags: SBC adds the carry where ARM deducts its complement; ADC reads
    the carry of anything but an addition, or of an addition of 0; CMN compares with a sum
    that is off by one; cVS and cVC test the sum for zero; unsigned codes where `adds` added 0
    or `rsbs` deducted 0, signed ones where that operand is the smallest number, since it
    changes its sign in the condition; orders after `adcs`; cCS and cCC after a shift by 0 or one that was
    rewritten, HI and LS after shifts; the flags of MVN, NEG and ROR;
  * shifts: ASR and SBFX without sign; as operands also RRX, shifts by 0, and ROR where
    flags are set; ROR by a register, by a negative amount, or of a constant; right shifts of
    a constant or of an AND or OR with one, which move these to the left; the constants 0 and
    32 shifted by a register, because the neutral amounts 0 and 32 are looked for
    on both sides, so that `0 << x` becomes `x`; for the machines concerned, an amount
    in a register that is negative as a signed number; the mask that a left shift drops
    although it is needed;
  * bounds (`KeepsMeaning` in `Condition`), only for the machines concerned: an
    inequality of a sum or difference one side of which wraps while the other does not,
    of a product or a shift that loses bits, an unsigned one of a product or of two
    registers, one of an exclusive or; a negative constant that is a multiple of the
    factor only without its sign; a product by -1 compared with the smallest number, which
    is made false also for `!=`, `>=` and `>`; and rotations to the right. The family `bounds` of
    `values` has inequalities of sums, differences, products, shifts and exclusive ors,
    and each of these exceptions is needed there but that of rotations.

  RRX before anything has set the carry dereferences a null pointer; no program of the
  instance does that. `Separate` leaves out two expressions for one address, which the memory
  map takes for two words, and stores to read-only data.
* `PathPrecise` does not speak of paths on which `cut` holds: a bound was moved past
  the last value (`x >= 0xffffffff` merged with `x != 0xffffffff` became `x >= 0`).
  `CutHoldsAlways` in `PredicateProofs` shows that the merged condition is then true of
  every word.
* `VerdictIsRight` demands different code nodes only where `IsAssigned` can tell:
  `1 << id & 0x3f` (`SignatureEvaluator.hpp` 163) is `(1 << id) & 0x3f` in C++, which
  sees six of the 32 nodes of an entry (`CanBeTested`). It says nothing of a search
  in which an entry was erased while its candidates were gone through (`skipped`),
  because the enumeration then passes over candidates of the next one.
* `ParsedAsWritten` is about texts without `TRANSIENT` (that is `TransientLeftOut`)
  and without an undefined label. `ParseName` leaves the
  position behind such a name, so that `foo(5)` is accepted and means 5; the trailing
  `+` and `,` that the parser accepts, and operands with effects (a STORE of what
  depends on its own address), are not in the texts either.
* `PermutationIsRight` says that what is reported is a permutation, and that one
  is found where the paths are of the minimal length. Which of several shortest
  paths is kept depends on the order of a hash table: the property judges the verdict by the
  paths that were kept, so another order may have found what this one missed.

## 4. The proofs

`tlapm ThreadPoolProofs.tla` and so on. They hold for every number of workers,
tasks, functions, forks and signatures, and for words of every width, under the
assumptions named in the modules (`PoolAssumption`, `AnalysisAssumption`,
`BuilderAssumption`, `WordAssumption`, `WidthAssumption`, `ArmAssumption`,
`SearchAssumption`): finite sets, distinct names, a program whose instructions have
successors, 2n words of which the upper n are negative, and whose width is a multiple of
four bits, entries of the matrix that hold at least one node and a test that covers at
most one entry. TLC evaluates them on every instance.

* **`ThreadPoolProofs`.** `PoolTypeOK` is not inductive: that `dwNumActive` stays
  between 0 and the number of threads follows only from what it counts. `Typed` is
  the part that is, and `ActiveInv` (`Typed` with `ActiveCount`) says that the
  counter equals the number of workers outside the wait. Each action is shown to
  change both alike: `CountEntry` for a worker that comes out of a wait and adds
  itself, `CountSleep` for one that deducts itself. `PoolTypeCorrect` and
  `IdleCorrect` (the test of `WaitForResult`) follow.
  `NoScheduledTaskStrandedCorrect` is `ActiveInv` with the property, split by whether
  some worker is awake after the step. `BarrierCorrect` needs that the counter never
  exceeds the workers that are at the barrier (`BarrierInv`), which stays true when
  it is reset with workers of an earlier barrier still there; so a full count leaves
  no worker to execute anything. `OneExecutionPerTaskCorrect` adds that an unsubmitted task
  is nowhere (`FreshTasks`), and moves a task from list to worker to result list.
* **`AnalysisProofs`.** `AnalysisStepsPool` shows that every step of an analysis is a step of
  the pool's client, of its tasks, or leaves the pool alone, hence
  `UsesPoolCorrectlyProved`: every theorem about the pool holds of an analysis.
  `CoordinatorInv` strengthens `AnalysisTypeOK` by the pool's types and by where the
  client may be inside the pool at each position of the loop, because a result may
  be taken from the list only in a wait that ended; `NoJumpWithoutResultCorrect`
  follows with the entry that was set to null last, which only the coordinator
  itself could have filled.
* **The tracker, in `AnalysisProofs`.** Everything from here on is proved of steps of `LifeNext`: those
  of an analysis, and the destruction of its pool after the coordinator finished.
  That is what a dialog does to the analysis in it, so the same proofs serve
  `AnalysisSpec` and `DialogSpec`. `SoundPool` collects what is known of the pool.
  Seen from outside the pool a task has a life: `Submits`, `Yields`, `Delivers`, and
  steps that are `Quiet`; a lemma for each operation of the pool says which of these it is
  for which task, and what follows never looks into the pool again. A graph is in one
  of four stages: `Untouched`, `Opening` (it is `oCodeGraph`, and the entries before
  `dwEvaluator` are filled), `Tracked`, `Completed`. `TrackerInv` says that every
  graph is in a stage, and in the first one until its build's result was taken, that
  entries and tasks agree (`EntriesMatch`), and which kind of result a task
  yields (`ResultKinds`). `TrackerMatchesPoolCorrect` and `ReportsAreCompleteCorrect`
  read it off; the last null that is set is the step from tracked to completed.
* **`CompletionProofs`.** `StepKinds` reduces every step to one of eight kinds. With
  it `CompletionInv` is proved conjunct by conjunct: what is in the lists of
  functions and signals adds up to the selection (`EveryFunctionSignalled`), the list
  holds the functions that were not submitted, each once (`FunctionsLeft`), while it
  holds any the coordinator waits only for a task that is outstanding (`WorkLeft`), no
  function and no task is left once the coordinator finished
  (`NothingLeft`), only functions are submitted without a notification
  (`SilentFunctions`), and the pool's list has neither barrier nor exit before the end
  (`OnlyTasks`). An idle pool without results leaves nothing outstanding, hence, by the stages, no
  tracked graph and, by `WorkLeft`, no function: `FinishedMeansDoneCorrect`. `Blocked` (a coordinator that waits has
  found no result and the pool at work) gives `OnlyFunctionsStrandedCorrect` with the
  pool's own `StrandedInv`. `AnalysisInv`, the conjunction of all of these, carries the
  refinement: `AnalysisKeepsContract` maps each kind of step to the action of
  `AnalysisContract` that it is (`NextTaken` to `Start`, `Forked` to `Fork`, `Ended` to `EndBuild`
  or `Evaluate`, the last result of a graph to `Report`, `Finishes` to `Finish`) or to
  a stutter.
* **`DialogProofs`.** `DialogLives` shows that all a dialog does to the analysis are steps of
  `LifeNext`, which gives `AnalysisInv` in a dialog. `NoHolder`: the coordinator
  finishes only when the pool's counter is zero, hence with every worker asleep and
  without a task, and afterwards there is no task to take
  (`WorkerNeverLastOwnerCorrect`). `LogInv` says that `CoordinatorFinished`
  is the last signal; `DialogInv` relates what the slots did to the part of the log
  that was handled: the counter to the `NextFunction`s in it (`ProgressCounts`),
  the rows to the `ResultReady`s (`RowsAreReports`), the header to the end
  (`HeaderIsEarned`). With `FinishedMeansDone` follows `CompleteMeansCompleteCorrect`.
* **`BuilderProofs`.** Each action of a build is shown once, in `StepShape`, to have
  one of two shapes: it replaces one build by an advance of it (`Alone`), or also
  makes a fork that is an advance of the same build (`Forking`); an advance goes on
  without a decision or decides one condition. Only a fork leaves a branch to another
  build, and then the two append both decisions to one path. Everything else is proved from these
  shapes. `BuildsSound` strengthens the types by what the checks guarantee between
  steps: a build at work is below the limits for instructions without progress and
  for conditions, and one in the middle of an instruction is not too large; without
  that no counter would stay in its type (`TypeCorrect`). `BudgetInv` ties the
  history to the budget, used and left always being `NumForks` + 1 together, and
  `FamilyInv` ties the number of builds to the history, which needs that a function
  without a started build has no forks (`ForkBudgetCorrect`). `Consistent` relates
  log, path and count of one build; an advance keeps it, because the decision
  appended to a log is the one `Retake` gives (`LogShapeCorrect`,
  `ConditionsCountedCorrect`). `PathsDivided` is inductive on its own, given
  `FamilyInv`: paths only grow, so where two differ they differ for good
  (`DifferenceLasts`); a fork differs from the other builds where the build it was taken
  from does, and from that one in its last decision (`PathsForked`); and a function is
  scheduled only while its family is empty (`PathsScheduled`). `RefinesStep` maps advances to `EndBuild` or a
  stutter and forks to `Fork` of the contract (`RefinesContractProved`).
* **`PredicateProofs`.** The runs look at words of four bits; the code has 32.
  `OperatorsCorrect` shows for all ten comparisons that `NegateOperator` is the
  contrary and `FlipOperator` that of the swapped operands. `CompareCorrect` goes
  through the table of `CompareNormalized`, one lemma for each operator of the new
  comparison: NEVER, ALWAYS and a merged comparison are what they say, unless
  `CutsLastValue`. `NextWord` and `PreviousWord` carry the signed orders: a bound
  moves by one in the signed order exactly if it is not the last signed value.
  `CutHoldsAlways` shows that the exception is needed. From one comparison to a
  predicate: `Rounds` says of a state of the loop of `MergeCondition` that its
  conditions are normal ones, and `Meaning` is what it stands for: the same before and after every
  round, or a weaker condition once a bound was cut off. `RoundFine` shows that a
  round keeps it, whichever condition is found first, and `MergingFine` that so many rounds
  as there are conditions are enough, because an erase leaves one less; hence
  `MergeCorrect`, and with `CompareCorrect` the answers of `IsSatisfied`
  (`SatisfiedCorrect`). The words of the expressions are any: `val` is not a
  machine of an instance.
* **`ArmProofs`.** Proved of `Arm`, so for all programs, operands, nodes and normal
  forms. A step of `ArmPath` is a step of `Arm` that records some more, so the
  theorems hold of the paths that `values` checks. An instruction is a chain of calls; `Fine(base, n, s)` is what
  each of them keeps of the state the instruction was fetched in: registers and at
  most n entries on the call stack (`Machine`), flags that are as they were or belong to
  an object made since (`Objects`). A lemma for each call and each body shows that. None of
  `CallStackBounded`, `FlagsShared` and `ConditionDefined` is inductive. `IInv`
  adds that equal objects are equal operations, that no object is
  newer than the counter, that C and V come from operations that define them, and that the
  program counter is even and the call stack holds addresses: that a return finds its
  entry, without which the call stack would grow with every call, needs that the address
  `BL` pushes is the one LR holds. `MigrateIInv` is the fork, which copies each
  object once: flags that shared one share the copy.
* **`MatchingProofs`.** `CleanupLeavesNeeded` is about any graph whose arcs are
  tied and whose inputs are older than what uses them (`GraphOK`), and any nodes to
  keep (not `Disposable`; `ShouldCleanNode` looks at nothing that a cleanup changes, so
  the cleanups of `Matching` are such). `Needed` is the least set with these nodes and the inputs of
  every node in it. While calls are in progress a scheduled node is disposable and
  all that use it are scheduled (`ScheduledUnused`). That alone would let a cleanup
  leave too much; `NothingForgotten` says that a disposable node whose users are
  all scheduled is still to be come to by some call, which is where the call for the
  inputs of a removed node is needed (`CleanNodeInv`). At the end no call has a node
  left, and if a node that is not needed had stayed, the newest of them (`Newest`) would
  have no user left but be forgotten (`LeavesNeeded`). `RemoveScheduledFine` is the loop
  of `RemoveNode`, which leaves the rest tied.

  `BranchesUndoneCorrect` is about the search, in any graphs. `SearchSpec` has the actions
  of Pass 2 as they are; Pass 1, which computes with RECURSIVE operators, is left open: a
  variant starts from any matrix without a Valid pair, with no node taken, no reference
  typed and no matrix pushed (`VariantReady`). That Pass 1 leaves such a state is not
  proved; in `matching` Pass 1 leaves no other. The difficult branch is the one
  with a single candidate: it pushes no matrix, but assigns Undefined again to the pair it had made
  Valid. That gives the old matrix back only because the pair was Undefined before
  (`AssignUndone`, with `FlagFine` for entries whose other bits the test misses), hence
  because no pair of a node that is still to be assigned is ever Valid (`NoneValid`),
  which pruning for the nodes before it has to keep (`Searches`, `Prunings`; `LoopRuns`
  and `LoopKeeps` for its loops). `SearchInv` says of every call in progress that what
  it `Did` leads from what it saw to what the next call saw, and that the matrices on
  the stack are, in order, those the calls pushed (`Linked`).

Of the theorems, `AnalysisTypeCorrect`, `NoJumpWithoutResultCorrect`,
`CleanupLeavesNeeded` and those of `PredicateProofs` state what no run checks as a
property of its own; they carry parts of `CleanupExact`, `PathSound` and `PathPrecise`
beyond the instances of `matching` and `values`.

Only model-checked: all liveness properties (the prover has no rules for fairness
and ENABLED), and `RegistersSound`, `PathSound`, `PathPrecise`, `ParsedAsWritten`, `CleanupExact`,
`ForkIsCopy`, `VerdictIsRight`, `PermutationIsRight`. They compare terms of any depth,
trees of a grammar, or bits, which `Expression`, `ArmMachine`, `SignatureParser`,
`SignatureText` and `DFGraph` compute with RECURSIVE operators and with `Bitwise`: that
is induction over data, and operators that the provers cannot use. Where a loop is a
recursive function over its rounds, as in `Predicate`, its values are
reached by the smallest round for which the claim fails. Every safety property and
refinement that the runs of `ThreadPool`, `Analysis`, `ControlDialog` and `Builder` check and
find true is also a theorem. No module that is proved about declares or uses a RECURSIVE operator.

## 5. Plan

In this order, the most important behaviour first. 1 to 11 are done.

1. `ThreadPool`: everything runs on it.
2. `Analysis` over it, with `AnalysisContract`.
3. `ControlDialog` over `Analysis`.
4. `Builder`: decisions, forks, limits; second implementation of the contract.
5. `Compare`, `Expression`, `Condition`, `Predicate`, and `Arm` over them, against
   `ArmMachine`.
6. `DFGraph`, `SignatureParser` with `SignatureText`, `SignatureEvaluator`, and
   `Matching`, which composes them.
7. `BlockPermutation`, in the same composition.
8. `PredicateProofs`: the table of comparisons for every width, merging, and the answers
   of a predicate.
9. `AnalysisProofs`, `CompletionProofs` and `DialogProofs`: the tracker, the end of an
   analysis, its contract, and the dialog.
10. `ArmProofs`: call stack and flags; for it `Arm` was separated from the rewriting.
11. `MatchingProofs`: `Cleanup`, for it separated from the graphs' insertion, and Pass 2,
    for it separated from Pass 1 (`SignatureSearch`).
12. Left: that `CopyNode` keeps a copy tied for every graph, as `ForkIsCopy` checks it.

## 6. Not modelled

* Decoding of ARM instructions, the IDA database and Qt's widgets: external. Their
  effect appears as open choices (an instruction can or cannot be processed), as
  decoded programs, or as Qt's documented order of queued signals.
* Function list, sliding widget, drawing, registration of the plugin: output and
  widgets, without state that an analysis depends on.
* `rfc_ptr` (`ReferenceCount.hpp`): one counter per object. The ownership that
  decides what happens, that of the pool, is in `ControlDialog`. Assignment releases
  the old object before it takes the new one (line 58), which would matter if the
  old one held the last reference to the new one; no assignment in the program is
  like that, since lists are kept alive from elsewhere.
* `AssignmentMap` of the signature evaluator and `Mark` of the block permutation
  evaluator, which serve the display; `expression()`, `mnemonic()`, `Export`.
* Data races that are undefined behaviour as such (`PathOracle::Initialize` without
  the mutex): the model keeps their visible effect, a budget that is refilled during
  builds.
* Exhaustion of memory, the depth of recursion (but for the refusal to copy a graph
  that is too deep: `ForkFails`, and `ForkNode` in `DFGraph`), formatting and logging.
  Of hexadecimal constants in signatures above 0x7fffffff, which `strtol` saturates on
  Windows, there are none in the texts.
