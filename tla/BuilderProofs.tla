---------------------------- MODULE BuilderProofs ----------------------------
(***************************************************************************)
(* Proofs about the builders, for any functions, any program, any limits.  *)
(***************************************************************************)
EXTENDS Builder, FiniteSetTheorems, SequenceTheorems, TLAPS

-------------------------------------------------------------------------------
(* Types.  A build's counters stay below their limits because the limits are *)
(* checked where the counters grow.                                          *)

\* A build between two steps
Sound(r) ==
  /\ r \in Builds
  /\ r.dwNumIterationsWithoutProgress < MaxConsecutiveNoopInstructions
  /\ r.status # "graph" => r.dwNumConditions < MaxConditions
  /\ r.status = "continue" => r.oGraph <= MaxGraphSize

\* A build in the middle of an instruction
Ready(r) ==
  /\ r \in Builds
  /\ r.dwNumIterationsWithoutProgress < MaxConsecutiveNoopInstructions
  /\ r.dwNumConditions < MaxConditions
  /\ r.oGraph <= MaxGraphSize

\* The fields that the end of an instruction leaves alone
Keeps(r, s) ==
  /\ s.lpFunctionAddress = r.lpFunctionAddress
  /\ s.oBacklog = r.oBacklog
  /\ s.dwNumConditions = r.dwNumConditions /\ s.path = r.path

BuildsSound ==
  /\ build \in [Builders -> Builds]
  /\ \A b \in Builders : Sound(build[b])

\* The limits are positive numbers.
LEMMA Limits ==
  /\ NumForks \in Nat /\ Retakes \in Nat /\ Retakes > 0
  /\ MaxGraphSize \in Nat /\ MaxGraphSize > 0
  /\ MaxConsecutiveNoopInstructions \in Nat /\ MaxConsecutiveNoopInstructions > 0
  /\ MaxConditions \in Nat /\ MaxConditions > 0 /\ MaxInitialize \in Nat
  BY BuilderAssumption

\* A new build is sound.
LEMMA NewBuildSound ==
  ASSUME NEW f \in Functions, NEW status \in {"none", "scheduled"}
  PROVE  Sound(NewBuild(f, status))
<1>1. Entry[f] \in Addresses
  BY BuilderAssumption
<1>2. [a \in Addresses |-> <<>>] \in [Addresses -> Seq(BOOLEAN)]
  OBVIOUS
<1>3. <<>> \in Seq(Decisions)
  OBVIOUS
<1>4. NewBuild(f, status) \in Builds
  BY <1>1, <1>2, <1>3, Limits DEF NewBuild, Builds, Statuses
<1>5. QED
  BY <1>4, Limits DEF Sound, NewBuild

\* Once the limits were checked a build is ready for its instruction.
LEMMA CountedReady ==
  ASSUME BuildsSound, NEW b \in Builders, Turn(b)
  PROVE  /\ Ready(Counted(b))
         /\ Keeps(build[b], Counted(b)) /\ Counted(b).lpAddress = build[b].lpAddress
<1> DEFINE r == build[b]
<1>1. r \in Builds /\ Sound(r) /\ r.status = "running"
  BY DEF BuildsSound, Turn
<1>2. /\ r.oGraph \in 0 .. MaxGraphSize + 1 /\ r.oGraph <= MaxGraphSize
      /\ r.dwNumIterationsWithoutProgress \in Nat
      /\ r.dwNumConditions < MaxConditions
      /\ r.dwNumIterationsWithoutProgress < MaxConsecutiveNoopInstructions
  BY <1>1, Limits DEF Builds, Sound, Turn, GraphTooLarge
<1> DEFINE n == IF NoProgress(b) THEN r.dwNumIterationsWithoutProgress + 1 ELSE 0
<1>3. n \in 0 .. MaxConsecutiveNoopInstructions /\ n < MaxConsecutiveNoopInstructions
  BY <1>2, Limits DEF Turn, TooManyNoops
<1>4. Counted(b) = [r EXCEPT !.dwNumIterationsWithoutProgress = n,
                             !.dwLastNumNodes = r.oGraph]
  BY <1>1 DEF Counted, Builds
<1> HIDE DEF n, r
<1>5. Counted(b) \in Builds
  BY <1>1, <1>2, <1>3, <1>4 DEF Builds
<1>6. /\ Counted(b).dwNumIterationsWithoutProgress = n
      /\ Keeps(r, Counted(b)) /\ Counted(b).lpAddress = r.lpAddress
      /\ Counted(b).oGraph = r.oGraph
  BY <1>1, <1>4 DEF Builds, Keeps
<1>7. QED
  BY <1>2, <1>3, <1>5, <1>6 DEF Ready, Keeps, r

\* An entry in the backlog leaves a build ready.
LEMMA NewEntryReady ==
  ASSUME NEW r, Ready(r), NEW d \in BOOLEAN, NEW forked \in BOOLEAN
  PROVE  /\ Ready(NewEntry(r, d, forked))
         /\ NewEntry(r, d, forked).oBacklog =
              [r.oBacklog EXCEPT ![r.lpAddress] = Append(@, d)]
         /\ NewEntry(r, d, forked).path =
              Append(r.path, [lpAddress |-> r.lpAddress, bDecision |-> d,
                              forked |-> forked])
         /\ NewEntry(r, d, forked).lpFunctionAddress = r.lpFunctionAddress
         /\ NewEntry(r, d, forked).dwNumConditions = r.dwNumConditions
<1> DEFINE entry == [lpAddress |-> r.lpAddress, bDecision |-> d, forked |-> forked]
           log == [r.oBacklog EXCEPT ![r.lpAddress] = Append(@, d)]
           path == Append(r.path, entry)
<1>1. /\ r \in Builds /\ r.lpAddress \in Addresses
      /\ r.oBacklog \in [Addresses -> Seq(BOOLEAN)] /\ r.path \in Seq(Decisions)
  BY DEF Ready, Builds
<1>2. log \in [Addresses -> Seq(BOOLEAN)]
  <2>1. Append(r.oBacklog[r.lpAddress], d) \in Seq(BOOLEAN)
    BY <1>1, AppendProperties
  <2>2. QED
    BY <1>1, <2>1
<1>3. path \in Seq(Decisions)
  BY <1>1, AppendProperties DEF Decisions
<1>4. NewEntry(r, d, forked) = [r EXCEPT !.oBacklog = log, !.path = path]
  BY <1>1 DEF NewEntry, Builds
<1> HIDE DEF log, path, entry
<1>5. NewEntry(r, d, forked) \in Builds
  BY <1>1, <1>2, <1>3, <1>4 DEF Builds
<1>6. /\ NewEntry(r, d, forked).oBacklog = log /\ NewEntry(r, d, forked).path = path
      /\ NewEntry(r, d, forked).lpFunctionAddress = r.lpFunctionAddress
      /\ NewEntry(r, d, forked).dwNumConditions = r.dwNumConditions
      /\ NewEntry(r, d, forked).oGraph = r.oGraph
      /\ NewEntry(r, d, forked).dwNumIterationsWithoutProgress
           = r.dwNumIterationsWithoutProgress
  BY <1>1, <1>4 DEF Builds
<1>7. Ready(NewEntry(r, d, forked))
  BY <1>5, <1>6 DEF Ready
<1>8. NewEntry(r, d, forked).oBacklog = [r.oBacklog EXCEPT ![r.lpAddress] = Append(@, d)]
  BY <1>6 DEF log
<1>9. NewEntry(r, d, forked).path = Append(r.path, entry)
  BY <1>6 DEF path
<1>10. QED
  BY <1>6, <1>7, <1>8, <1>9 DEF entry

\* A build that ends is sound, ready or not.
LEMMA EndedSound ==
  ASSUME NEW r \in Builds,
         r.dwNumIterationsWithoutProgress < MaxConsecutiveNoopInstructions
  PROVE  Sound(Ended(r)) /\ Keeps(r, Ended(r)) /\ Ended(r).status = "graph"
<1>1. Ended(r) \in Builds
  BY DEF Ended, Builds, Statuses
<1>2. QED
  BY <1>1 DEF Sound, Keeps, Ended, Builds

\* A ready build that goes to its body is sound.
LEMMA ContinuedSound ==
  ASSUME NEW r, Ready(r)
  PROVE  Sound(Continued(r)) /\ Keeps(r, Continued(r)) /\ Continued(r).status = "continue"
<1>1. Continued(r) \in Builds
  BY DEF Ready, Continued, Builds, Statuses
<1>2. QED
  BY <1>1 DEF Ready, Sound, Keeps, Continued, Builds

\* A ready build that goes to another instruction is sound.
LEMMA AtSound ==
  ASSUME NEW r, Ready(r), NEW a \in Addresses, NEW s \in At(r, a)
  PROVE  Sound(s) /\ Keeps(r, s) /\ s.status = "running"
<1>1. PICK d \in 0 .. 1 :
        s = [r EXCEPT !.status = "running", !.lpAddress = a, !.oGraph = @ + d]
  BY DEF At
<1>2. r \in Builds /\ r.oGraph \in 0 .. MaxGraphSize + 1 /\ r.oGraph <= MaxGraphSize
  BY DEF Ready, Builds
<1>3. r.oGraph + d \in 0 .. MaxGraphSize + 1
  BY <1>2, Limits
<1>4. s \in Builds
  BY <1>1, <1>2, <1>3 DEF Builds, Statuses
<1>5. QED
  BY <1>1, <1>2, <1>4 DEF Ready, Sound, Keeps, Builds

\* So is one whose instruction was executed,
LEMMA ExecutedSound ==
  ASSUME NEW r, Ready(r), NEW s \in Executed(r)
  PROVE  Sound(s) /\ Keeps(r, s) /\ s.status \in {"graph", "running"}
<1>1. r \in Builds /\ r.lpAddress \in Addresses
      /\ r.dwNumIterationsWithoutProgress < MaxConsecutiveNoopInstructions
  BY DEF Ready, Builds
<1>2. CASE s = Ended(r)
  BY <1>1, <1>2, EndedSound
<1>3. CASE s # Ended(r)
  <2>1. Target[r.lpAddress] # RETURN /\ s \in At(r, Target[r.lpAddress])
    BY <1>3 DEF Executed
  <2>2. Target[r.lpAddress] \in Addresses
    BY <1>1, <2>1, BuilderAssumption
  <2>3. QED
    BY <2>1, <2>2, AtSound
<1>4. QED
  BY <1>2, <1>3

\* or skipped.
LEMMA SkippedSound ==
  ASSUME NEW r, Ready(r), NEW s \in Skipped(r)
  PROVE  Sound(s) /\ Keeps(r, s) /\ s.status = "running"
<1>1. r.lpAddress \in Addresses
  BY DEF Ready, Builds
<1>2. Following[r.lpAddress] \in Addresses
  BY <1>1, BuilderAssumption
<1>3. QED
  BY <1>2, AtSound DEF Skipped

\* The copy that a fork schedules is sound, and so is the build it is taken from.
LEMMA ForkedSound ==
  ASSUME NEW r, Ready(r), NEW s \in Forked(r)
  PROVE  Sound(s) /\ Keeps(NewEntry(r, FALSE, TRUE), s) /\ s.status = "scheduled"
<1> DEFINE e == NewEntry(r, FALSE, TRUE)
<1>1. PICK t \in Skipped(e) :
        s = [t EXCEPT !.status = "scheduled", !.dwLastNumNodes = 0,
                      !.dwNumIterationsWithoutProgress = 0]
  BY DEF Forked
<1>2. Ready(e)
  BY NewEntryReady
<1> HIDE DEF e
<1>3. Sound(t) /\ Keeps(e, t) /\ t.status = "running"
  BY <1>1, <1>2, SkippedSound
<1>4. t \in Builds
  BY <1>3 DEF Sound
<1>5. s \in Builds
  <2>1. 0 \in 0 .. MaxGraphSize + 1 /\ 0 \in 0 .. MaxConsecutiveNoopInstructions
    BY Limits
  <2>2. [t EXCEPT !.status = "scheduled"] \in Builds
    BY <1>4 DEF Builds, Statuses
  <2>3. [[t EXCEPT !.status = "scheduled"] EXCEPT !.dwLastNumNodes = 0] \in Builds
    BY <2>1, <2>2 DEF Builds
  <2>4. QED
    BY <1>1, <2>1, <2>3 DEF Builds
<1>6. /\ s.status = "scheduled" /\ s.dwNumIterationsWithoutProgress = 0
      /\ s.dwNumConditions = t.dwNumConditions
      /\ s.lpFunctionAddress = t.lpFunctionAddress
      /\ s.oBacklog = t.oBacklog /\ s.path = t.path
  BY <1>1, <1>4 DEF Builds
<1>7. Sound(s) /\ Keeps(e, s)
  BY <1>3, <1>5, <1>6, Limits DEF Sound, Keeps
<1>8. QED
  BY <1>6, <1>7 DEF e


-------------------------------------------------------------------------------
(* The shape of a step: it changes one build, or one and its fork, and what it *)
(* does to a build is to go on, or to decide a condition and to go on.         *)

Busy == {"scheduled", "running", "continue"}

\* Without a decision; a condition may have been counted if the build ended.
GoesOn(r, s) ==
  /\ s.oBacklog = r.oBacklog /\ s.path = r.path
  /\ \/ s.dwNumConditions = r.dwNumConditions
     \/ s.status = "graph" /\ s.dwNumConditions = r.dwNumConditions + 1

\* What a decision appends to the path
Visit(r, d, forked) == [lpAddress |-> r.lpAddress, bDecision |-> d, forked |-> forked]

\* With a decision, which repeats or turns the first one there
Decides(r, s, d, forked) ==
  LET log == r.oBacklog[r.lpAddress]
  IN /\ s.status # "graph"
     /\ log # <<>> => d = Retake(log)
     /\ s.oBacklog = [r.oBacklog EXCEPT ![r.lpAddress] = Append(log, d)]
     /\ s.path = Append(r.path, Visit(r, d, forked))
     /\ s.dwNumConditions = r.dwNumConditions + 1

Advances(r, s) ==
  /\ Sound(s)
  /\ r.status \in Busy /\ s.status \in Busy \cup {"graph", "error"}
  /\ s.lpFunctionAddress = r.lpFunctionAddress
  /\ GoesOn(r, s) \/ \E d, forked \in BOOLEAN : Decides(r, s, d, forked)

\* No branch is left to a fork.
ForksNothing(r, s) ==
  s.path = r.path \/ \E d \in BOOLEAN : s.path = Append(r.path, Visit(r, d, FALSE))

Spends(b) ==
  /\ MayFork(build[b].lpFunctionAddress)
  /\ TakeFromBudget(build[b].lpFunctionAddress)

Alone(b) ==
  /\ \E s \in Builds : /\ Advances(build[b], s) /\ ForksNothing(build[b], s)
                       /\ build' = [build EXCEPT ![b] = s]
  /\ UNCHANGED <<g_aNumForksLeft, nForks>> \/ Spends(b)
  /\ UNCHANGED nInitialize

Forking(b, k) ==
  /\ build[k].status = "none"
  /\ \E s, t \in Builds : /\ Advances(build[b], s) /\ s.status \in Busy
                          /\ Advances(build[b], t) /\ t.status \in Busy
                          /\ s.path = Append(build[b].path, Visit(build[b], TRUE, TRUE))
                          /\ t.path = Append(build[b].path, Visit(build[b], FALSE, TRUE))
                          /\ build' = [build EXCEPT ![b] = s, ![k] = t]
  /\ Spends(b)
  /\ UNCHANGED nInitialize

\* A sound outcome that kept the fields of the build is an advance.
LEMMA KeepsAdvances ==
  ASSUME NEW r, r.status \in Busy,
         NEW s, Sound(s), Keeps(r, s), s.status \in Busy \cup {"graph", "error"}
  PROVE  Advances(r, s) /\ ForksNothing(r, s) /\ s \in Builds
  BY DEF Advances, ForksNothing, GoesOn, Keeps, Sound

\* A condition that was counted leaves the build ready, unless there are too many.
LEMMA IntroducedReady ==
  ASSUME BuildsSound, NEW b \in Builders, Turn(b)
  PROVE  /\ Introduced(b) \in Builds
         /\ Introduced(b).dwNumIterationsWithoutProgress < MaxConsecutiveNoopInstructions
         /\ NumConditions(b) < MaxConditions => Ready(Introduced(b))
         /\ Introduced(b).oBacklog = build[b].oBacklog
         /\ Introduced(b).path = build[b].path
         /\ Introduced(b).lpAddress = build[b].lpAddress
         /\ Introduced(b).lpFunctionAddress = build[b].lpFunctionAddress
         /\ Introduced(b).dwNumConditions = build[b].dwNumConditions + 1
<1>1. Ready(Counted(b)) /\ Keeps(build[b], Counted(b))
      /\ Counted(b).lpAddress = build[b].lpAddress
  BY CountedReady
<1>2. Counted(b) \in Builds /\ Counted(b).dwNumConditions \in 0 .. MaxConditions
      /\ Counted(b).dwNumConditions < MaxConditions
  BY <1>1 DEF Ready, Builds
<1>3. NumConditions(b) \in 0 .. MaxConditions
  BY <1>1, <1>2, Limits DEF NumConditions, Keeps
<1>4. Introduced(b) \in Builds
  BY <1>2, <1>3 DEF Introduced, Builds
<1>5. /\ Introduced(b).dwNumConditions = NumConditions(b)
      /\ Introduced(b).oBacklog = Counted(b).oBacklog
      /\ Introduced(b).path = Counted(b).path
      /\ Introduced(b).lpAddress = Counted(b).lpAddress
      /\ Introduced(b).lpFunctionAddress = Counted(b).lpFunctionAddress
      /\ Introduced(b).oGraph = Counted(b).oGraph
      /\ Introduced(b).dwNumIterationsWithoutProgress
           = Counted(b).dwNumIterationsWithoutProgress
  BY <1>2 DEF Introduced, Builds
<1>6. QED
  BY <1>1, <1>4, <1>5 DEF Ready, Keeps, NumConditions

\* A condition that ends the build, counted but not decided
LEMMA EndedAdvances ==
  ASSUME BuildsSound, NEW b \in Builders, Turn(b)
  PROVE  /\ Advances(build[b], Ended(Introduced(b)))
         /\ ForksNothing(build[b], Ended(Introduced(b)))
         /\ Ended(Introduced(b)) \in Builds
<1>1. Sound(Ended(Introduced(b))) /\ Keeps(Introduced(b), Ended(Introduced(b)))
      /\ Ended(Introduced(b)).status = "graph"
  BY IntroducedReady, EndedSound
<1>2. QED
  BY <1>1, IntroducedReady DEF Advances, ForksNothing, GoesOn, Keeps, Sound, Turn, Busy

\* A condition that is decided
LEMMA DecidedAdvances ==
  ASSUME BuildsSound, NEW b \in Builders, Sometimes(b),
         NEW d \in BOOLEAN, NEW forked \in BOOLEAN,
         Log(b) # <<>> => d = Retake(Log(b)),
         NEW s, Sound(s), s.status \in Busy,
         Keeps(NewEntry(Introduced(b), d, forked), s)
  PROVE  /\ Advances(build[b], s) /\ s \in Builds
         /\ s.path = Append(build[b].path, Visit(build[b], d, forked))
         /\ ~forked => ForksNothing(build[b], s)
<1>1. Ready(Introduced(b))
  BY IntroducedReady DEF Sometimes
<1>2. /\ s.oBacklog = [Introduced(b).oBacklog EXCEPT ![Introduced(b).lpAddress]
                         = Append(Introduced(b).oBacklog[Introduced(b).lpAddress], d)]
      /\ s.path = Append(Introduced(b).path,
                         [lpAddress |-> Introduced(b).lpAddress, bDecision |-> d,
                          forked |-> forked])
      /\ s.lpFunctionAddress = Introduced(b).lpFunctionAddress
      /\ s.dwNumConditions = Introduced(b).dwNumConditions
  <2> DEFINE r == Introduced(b)
  <2>1. /\ NewEntry(r, d, forked).oBacklog
             = [r.oBacklog EXCEPT ![r.lpAddress] = Append(r.oBacklog[r.lpAddress], d)]
        /\ NewEntry(r, d, forked).path
             = Append(r.path, [lpAddress |-> r.lpAddress, bDecision |-> d,
                               forked |-> forked])
        /\ NewEntry(r, d, forked).lpFunctionAddress = r.lpFunctionAddress
        /\ NewEntry(r, d, forked).dwNumConditions = r.dwNumConditions
    <3>1. r.oBacklog \in [Addresses -> Seq(BOOLEAN)] /\ r.lpAddress \in Addresses
      BY <1>1 DEF Ready, Builds
    <3>2. QED
      BY <1>1, <3>1, NewEntryReady
  <2>2. QED
    BY <2>1 DEF Keeps
<1>3. /\ Introduced(b).oBacklog = build[b].oBacklog
      /\ Introduced(b).path = build[b].path
      /\ Introduced(b).lpAddress = build[b].lpAddress
      /\ Introduced(b).lpFunctionAddress = build[b].lpFunctionAddress
      /\ Introduced(b).dwNumConditions = build[b].dwNumConditions + 1
  BY IntroducedReady DEF Sometimes
<1>4. Decides(build[b], s, d, forked)
  BY <1>2, <1>3 DEF Decides, Visit, Log, Busy
<1>5. QED
  BY <1>2, <1>3, <1>4 DEF Advances, Decides, ForksNothing, Sometimes, Turn, Busy, Sound

\* Every step of a build has the shape.
LEMMA StepShape ==
  ASSUME BuildsSound, NEW b \in Builders, BuildStep(b) \/ TimeIsOver(b)
  PROVE  Alone(b) \/ \E k \in Forks : Forking(b, k)
<1>1. build[b] \in Builds /\ Sound(build[b])
  BY DEF BuildsSound
<1>2. CASE Execute(b)
  <2> DEFINE s == [build[b] EXCEPT !.status = "running"]
  <2>1. Sound(s) /\ Keeps(build[b], s) /\ s.status = "running"
    BY <1>1, <1>2 DEF Execute, Sound, Builds, Statuses, Keeps
  <2> HIDE DEF s
  <2>2. Advances(build[b], s) /\ ForksNothing(build[b], s) /\ s \in Builds
    <3>1. build[b].status = "scheduled"
      BY <1>2 DEF Execute
    <3>2. QED
      BY <2>1, <3>1, KeepsAdvances DEF Busy
  <2>3. QED
    BY <1>2, <2>2 DEF Execute, Alone, s
<1>3. CASE GiveUp(b)
  <2> DEFINE s == [build[b] EXCEPT !.status = "error"]
  <2>1. Sound(s) /\ Keeps(build[b], s) /\ s.status = "error"
    BY <1>1, <1>3 DEF GiveUp, Sound, Builds, Statuses, Keeps
  <2> HIDE DEF s
  <2>2. Advances(build[b], s) /\ ForksNothing(build[b], s) /\ s \in Builds
    <3>1. build[b].status = "running"
      BY <1>3 DEF GiveUp
    <3>2. QED
      BY <2>1, <3>1, KeepsAdvances DEF Busy
  <2>3. QED
    BY <1>3, <2>2 DEF GiveUp, Alone, s
<1>4. CASE TimeIsOver(b)
  <2> DEFINE s == [Counted(b) EXCEPT !.status = "error"]
  <2>1. Ready(Counted(b)) /\ Keeps(build[b], Counted(b))
    BY <1>4, CountedReady DEF TimeIsOver
  <2>2. Sound(s) /\ Keeps(build[b], s) /\ s.status = "error"
    BY <2>1 DEF Ready, Sound, Builds, Statuses, Keeps
  <2> HIDE DEF s
  <2>3. Advances(build[b], s) /\ ForksNothing(build[b], s) /\ s \in Builds
    <3>1. build[b].status = "running"
      BY <1>4 DEF TimeIsOver, Turn
    <3>2. QED
      BY <2>2, <3>1, KeepsAdvances DEF Busy
  <2>4. QED
    BY <1>4, <2>3 DEF TimeIsOver, Alone, s
<1>5. CASE Unconditional(b)
  <2>1. Ready(Counted(b)) /\ Keeps(build[b], Counted(b)) /\ build[b].status = "running"
    BY <1>5, CountedReady DEF Unconditional, Turn
  <2>2. PICK s \in Executed(Counted(b)) : build' = [build EXCEPT ![b] = s]
    BY <1>5 DEF Unconditional, Becomes
  <2>3. Sound(s) /\ Keeps(build[b], s) /\ s.status \in {"graph", "running"}
    BY <2>1, <2>2, ExecutedSound DEF Keeps
  <2>4. Advances(build[b], s) /\ ForksNothing(build[b], s) /\ s \in Builds
    BY <2>1, <2>3, KeepsAdvances DEF Busy
  <2>5. QED
    BY <1>5, <2>2, <2>4 DEF Unconditional, Alone
<1>6. CASE Body(b)
  <2>1. Ready(build[b]) /\ build[b].status = "continue"
    BY <1>1, <1>6 DEF Body, Sound, Ready
  <2>2. PICK s \in Executed(build[b]) : build' = [build EXCEPT ![b] = s]
    BY <1>6 DEF Body, Becomes
  <2>3. Sound(s) /\ Keeps(build[b], s) /\ s.status \in {"graph", "running"}
    BY <2>1, <2>2, ExecutedSound
  <2>4. Advances(build[b], s) /\ ForksNothing(build[b], s) /\ s \in Builds
    BY <2>1, <2>3, KeepsAdvances DEF Busy
  <2>5. QED
    BY <1>6, <2>2, <2>4 DEF Body, Alone
<1>7. CASE NoFlags(b)
  <2> DEFINE s == Ended(Counted(b))
  <2>1. Ready(Counted(b)) /\ Keeps(build[b], Counted(b)) /\ build[b].status = "running"
    BY <1>7, CountedReady DEF NoFlags, Turn
  <2>2. Sound(s) /\ Keeps(build[b], s) /\ s.status = "graph"
    BY <2>1, EndedSound DEF Ready, Keeps
  <2>3. Advances(build[b], s) /\ ForksNothing(build[b], s) /\ s \in Builds
    BY <2>1, <2>2, KeepsAdvances DEF Busy
  <2>4. QED
    BY <1>7, <2>3 DEF NoFlags, Becomes, Alone
<1>8. CASE Decided(b)
  <2>1. Ready(Counted(b)) /\ Keeps(build[b], Counted(b)) /\ build[b].status = "running"
    BY <1>8, CountedReady DEF Decided, Turn
  <2>2. PICK s \in {Continued(Counted(b))} \cup Skipped(Counted(b)) :
          build' = [build EXCEPT ![b] = s]
    BY <1>8 DEF Decided, Becomes
  <2>3. Sound(s) /\ Keeps(build[b], s) /\ s.status \in {"continue", "running"}
    BY <2>1, <2>2, ContinuedSound, SkippedSound DEF Keeps
  <2>4. Advances(build[b], s) /\ ForksNothing(build[b], s) /\ s \in Builds
    BY <2>1, <2>3, KeepsAdvances DEF Busy
  <2>5. QED
    BY <1>8, <2>2, <2>4 DEF Decided, Alone
<1>9. CASE TooManyConditions(b)
  BY <1>9, EndedAdvances DEF TooManyConditions, Becomes, Alone
<1>10. CASE MergeFails(b)
  BY <1>10, EndedAdvances
     DEF MergeFails, Sometimes, TakesBoth, Spends, Becomes, Alone
<1>11. CASE TakeTrue(b)
  <2> DEFINE e == NewEntry(Introduced(b), TRUE, FALSE)
  <2>1. Sound(Continued(e)) /\ Keeps(e, Continued(e)) /\ Continued(e).status = "continue"
    BY <1>11, IntroducedReady, NewEntryReady, ContinuedSound DEF TakeTrue, Sometimes
  <2>2. Log(b) # <<>> => TRUE = Retake(Log(b))
    BY <1>11 DEF TakeTrue, Takes
  <2>3. Advances(build[b], Continued(e)) /\ ForksNothing(build[b], Continued(e))
        /\ Continued(e) \in Builds
    BY <1>11, <2>1, <2>2, DecidedAdvances DEF TakeTrue, Busy
  <2>4. QED
    BY <1>11, <2>3 DEF TakeTrue, Becomes, Alone
<1>12. CASE TakeFalse(b)
  <2> DEFINE e == NewEntry(Introduced(b), FALSE, FALSE)
  <2>1. PICK s \in Skipped(e) : build' = [build EXCEPT ![b] = s]
    BY <1>12 DEF TakeFalse, Becomes
  <2>2. Sound(s) /\ Keeps(e, s) /\ s.status = "running"
    BY <1>12, <2>1, IntroducedReady, NewEntryReady, SkippedSound DEF TakeFalse, Sometimes
  <2>3. Log(b) # <<>> => FALSE = Retake(Log(b))
    BY <1>12 DEF TakeFalse, Takes
  <2>4. Advances(build[b], s) /\ ForksNothing(build[b], s) /\ s \in Builds
    BY <1>12, <2>2, <2>3, DecidedAdvances DEF TakeFalse, Busy
  <2>5. QED
    BY <1>12, <2>1, <2>4 DEF TakeFalse, Alone
<1>13. CASE ForkFails(b)
  <2> DEFINE e == NewEntry(Introduced(b), TRUE, FALSE)
  <2>1. Sound(Continued(e)) /\ Keeps(e, Continued(e)) /\ Continued(e).status = "continue"
    BY <1>13, IntroducedReady, NewEntryReady, ContinuedSound DEF ForkFails, Sometimes
  <2>2. Log(b) # <<>> => TRUE = Retake(Log(b))
    BY <1>13 DEF ForkFails, TakesBoth
  <2>3. Advances(build[b], Continued(e)) /\ ForksNothing(build[b], Continued(e))
        /\ Continued(e) \in Builds
    BY <1>13, <2>1, <2>2, DecidedAdvances DEF ForkFails, Busy
  <2>4. QED
    BY <1>13, <2>3 DEF ForkFails, TakesBoth, Spends, Becomes, Alone
<1>14. ASSUME NEW k \in Forks, TakeBoth(b, k) PROVE Forking(b, k)
  <2> DEFINE e == NewEntry(Introduced(b), TRUE, TRUE)
  <2>1. Ready(Introduced(b))
    BY <1>14, IntroducedReady DEF TakeBoth, Sometimes
  <2>2. Sound(Continued(e)) /\ Keeps(e, Continued(e)) /\ Continued(e).status = "continue"
    BY <2>1, NewEntryReady, ContinuedSound
  <2>3. PICK t \in Forked(Introduced(b)) :
          build' = [build EXCEPT ![b] = Continued(e), ![k] = t]
    BY <1>14 DEF TakeBoth
  <2>4. Sound(t) /\ Keeps(NewEntry(Introduced(b), FALSE, TRUE), t)
        /\ t.status = "scheduled"
    BY <2>1, <2>3, ForkedSound
  <2>5. Sometimes(b) /\ Log(b) = <<>>
    BY <1>14 DEF TakeBoth, TakesBoth
  <2>6. /\ Advances(build[b], Continued(e)) /\ Continued(e) \in Builds
        /\ Continued(e).path = Append(build[b].path, Visit(build[b], TRUE, TRUE))
    BY <2>2, <2>5, DecidedAdvances DEF Busy
  <2>7. /\ Advances(build[b], t) /\ t \in Builds
        /\ t.path = Append(build[b].path, Visit(build[b], FALSE, TRUE))
    BY <2>4, <2>5, DecidedAdvances DEF Busy
  <2>8. QED
    BY <1>14, <2>2, <2>3, <2>4, <2>6, <2>7 DEF TakeBoth, TakesBoth, Spends, Forking, Busy
<1>15. QED
  BY <1>2, <1>3, <1>4, <1>5, <1>6, <1>7, <1>8, <1>9, <1>10, <1>11, <1>12, <1>13, <1>14
     DEF BuildStep, Instruction


\* All builds stay sound.
LEMMA BuildsSoundInit == Init => BuildsSound
<1> SUFFICES ASSUME Init PROVE BuildsSound
  OBVIOUS
<1>1. ASSUME NEW b \in Builders PROVE Sound(build[b])
  <2> DEFINE f == IF b \in Functions THEN b ELSE AnyFunction
  <2>1. f \in Functions
    BY BuilderAssumption DEF AnyFunction
  <2>2. build[b] = NewBuild(f, "none")
    BY DEF Init
  <2>3. QED
    BY <2>1, <2>2, NewBuildSound
<1>2. build = [b \in Builders |-> build[b]]
  BY DEF Init
<1>3. QED
  BY <1>1, <1>2 DEF BuildsSound, Sound

LEMMA BuildsSoundStep == BuildsSound /\ [Next]_vars => BuildsSound'
<1> SUFFICES ASSUME BuildsSound, [Next]_vars PROVE BuildsSound'
  OBVIOUS
<1>1. ASSUME NEW f \in Functions, ScheduleBuild(f) PROVE BuildsSound'
  <2>1. Sound(NewBuild(f, "scheduled")) /\ f \in Builders
    BY NewBuildSound DEF Builders
  <2>2. QED
    BY <1>1, <2>1 DEF ScheduleBuild, BuildsSound, Sound
<1>2. Initialize => BuildsSound'
  BY DEF Initialize, BuildsSound, Sound
<1>3. UNCHANGED vars => BuildsSound'
  BY DEF vars, BuildsSound, Sound
<1>4. ASSUME NEW b \in Builders, BuildStep(b) \/ TimeIsOver(b) PROVE BuildsSound'
  <2>1. CASE Alone(b)
    <3>1. PICK s \in Builds : Sound(s) /\ build' = [build EXCEPT ![b] = s]
      BY <2>1 DEF Alone, Advances
    <3>2. QED
      BY <3>1 DEF BuildsSound, Sound
  <2>2. ASSUME NEW k \in Forks, Forking(b, k) PROVE BuildsSound'
    <3>1. PICK s \in Builds, t \in Builds :
            Sound(s) /\ Sound(t) /\ build' = [build EXCEPT ![b] = s, ![k] = t]
      BY <2>2 DEF Forking, Advances
    <3>2. QED
      BY <3>1 DEF BuildsSound, Sound, Builders
  <2>3. QED
    BY <1>4, <2>1, <2>2, StepShape
<1>5. QED
  BY <1>1, <1>2, <1>3, <1>4 DEF Next

-------------------------------------------------------------------------------
(* The fork budget. *)

\* The history and the bookkeeping of the budgets, and: only started builds, of
\* functions that were started, are in a family.
BudgetInv ==
  /\ nForks \in [Functions -> Nat]
  /\ nInitialize \in 0 .. MaxInitialize
  /\ DOMAIN g_aNumForksLeft \subseteq Functions
  /\ \A f \in Functions :
       IF f \in DOMAIN g_aNumForksLeft
       THEN /\ g_aNumForksLeft[f] \in 0 .. NumForks
            /\ nForks[f] + g_aNumForksLeft[f] = NumForks + 1
       ELSE nForks[f] = 0

\* The part of the invariant about the budgets alone
LEMMA BudgetInvInit == Init => BudgetInv
  BY Limits DEF Init, BudgetInv

\* A TAKE_BOTH keeps the books.
LEMMA BudgetSpent ==
  ASSUME BudgetInv, NEW f \in Functions, MayFork(f), TakeFromBudget(f),
         UNCHANGED nInitialize
  PROVE  BudgetInv'
<1> DEFINE g == g_aNumForksLeft
           left == IF f \in DOMAIN g THEN g[f] - 1 ELSE NumForks
<1>1. g' = [h \in DOMAIN g \cup {f} |-> IF h # f THEN g[h] ELSE left]
  BY DEF TakeFromBudget
<1>2. DOMAIN g \subseteq Functions
  BY DEF BudgetInv
<1>3. left \in 0 .. NumForks /\ nForks[f] \in Nat /\ nForks[f] + 1 + left = NumForks + 1
  BY Limits DEF BudgetInv, MayFork
<1>4. nForks' = [nForks EXCEPT ![f] = nForks[f] + 1]
  BY DEF TakeFromBudget
<1>5. nForks' \in [Functions -> Nat]
  BY <1>3, <1>4 DEF BudgetInv
<1>6. DOMAIN g' = DOMAIN g \cup {f} /\ g'[f] = left
      /\ \A h \in DOMAIN g : h # f => g'[h] = g[h]
  BY <1>1
<1>7. nForks'[f] = nForks[f] + 1 /\ \A h \in Functions : h # f => nForks'[h] = nForks[h]
  BY <1>4 DEF BudgetInv
<1> HIDE DEF left
<1>8. ASSUME NEW h \in Functions
      PROVE  IF h \in DOMAIN g'
             THEN g'[h] \in 0 .. NumForks /\ nForks'[h] + g'[h] = NumForks + 1
             ELSE nForks'[h] = 0
  <2>1. CASE h = f
    BY <1>3, <1>6, <1>7, <2>1
  <2>2. CASE h # f
    BY <1>6, <1>7, <2>2 DEF BudgetInv
  <2>3. QED
    BY <2>1, <2>2
<1>9. QED
  BY <1>2, <1>5, <1>6, <1>8 DEF BudgetInv

LEMMA BudgetInvStep == BuildsSound /\ BudgetInv /\ [Next]_vars => BudgetInv'
<1> SUFFICES ASSUME BuildsSound, BudgetInv, [Next]_vars PROVE BudgetInv'
  OBVIOUS
<1> DEFINE Same == UNCHANGED <<g_aNumForksLeft, nForks, nInitialize>>
<1>1. Same => BudgetInv'
  BY DEF BudgetInv
<1>2. ASSUME NEW f \in Functions, ScheduleBuild(f) PROVE Same
  BY <1>2 DEF ScheduleBuild
<1>3. ASSUME Initialize PROVE BudgetInv'
  <2>1. nInitialize' \in 0 .. MaxInitialize
    BY <1>3, Limits DEF Initialize, BudgetInv
  <2>2. g_aNumForksLeft' = [f \in {} |-> 0] /\ nForks' = [f \in Functions |-> 0]
    BY <1>3 DEF Initialize
  <2>3. DOMAIN g_aNumForksLeft' = {} /\ nForks' \in [Functions -> Nat]
    BY <2>2
  <2>4. QED
    BY <2>1, <2>2, <2>3 DEF BudgetInv
<1>4. UNCHANGED vars => Same
  BY DEF vars
<1>5. ASSUME NEW b \in Builders, BuildStep(b) \/ TimeIsOver(b) PROVE BudgetInv'
  <2> DEFINE f == build[b].lpFunctionAddress
  <2>1. f \in Functions
    BY DEF BuildsSound, Builds
  <2>2. (Spends(b) /\ UNCHANGED nInitialize) \/ Same
    BY <1>5, StepShape DEF Alone, Forking
  <2>3. QED
    BY <1>1, <2>1, <2>2, BudgetSpent DEF Spends
<1>6. QED
  BY <1>1, <1>2, <1>3, <1>4, <1>5 DEF Next

\* Every variable keeps its type, for any program and any limits.
THEOREM TypeCorrect == Spec => []TypeOK
<1>1. Init => BuildsSound /\ BudgetInv
  BY BuildsSoundInit, BudgetInvInit
<1>2. BuildsSound /\ BudgetInv /\ [Next]_vars => (BuildsSound /\ BudgetInv)'
  BY BuildsSoundStep, BudgetInvStep
<1>3. BuildsSound /\ BudgetInv => TypeOK
  BY DEF BuildsSound, BudgetInv, TypeOK
<1>4. QED
  BY <1>1, <1>2, <1>3, PTL DEF Spec


\* Only builds of functions that were started belong to a family, and the family
\* has one member more than there were TAKE_BOTHs, those before an Initialize
\* being at most NumForks + 1 each time.
FamilyInv ==
  /\ \A f \in Functions : build[f].lpFunctionAddress = f
  /\ \A b \in Builders : Started(b) => Started(build[b].lpFunctionAddress)
  /\ \A f \in Functions :
       Cardinality(Family(f)) <= 1 + nForks[f] + (NumForks + 1) * nInitialize

\* Families can be counted, in this state and the next.
LEMMA FamilyIsFinite ==
  ASSUME NEW f \in Functions
  PROVE  /\ Family(f) \subseteq Builders /\ Family(f)' \subseteq Builders
         /\ IsFiniteSet(Family(f)) /\ IsFiniteSet(Family(f)')
         /\ Cardinality(Family(f)) \in Nat /\ Cardinality(Family(f)') \in Nat
<1>1. Family(f) \subseteq Builders /\ Family(f)' \subseteq Builders
  BY DEF Family
<1>2. IsFiniteSet(Builders)
  BY BuilderAssumption, FS_Union DEF Builders
<1>3. IsFiniteSet(Family(f)) /\ IsFiniteSet(Family(f)')
  BY <1>1, <1>2, FS_Subset
<1>4. QED
  BY <1>1, <1>3, FS_CardinalityType

\* The room that the budgets of former analyses left is a number.
LEMMA RoomFacts ==
  ASSUME NEW n \in Nat
  PROVE  /\ (NumForks + 1) * n \in Nat
         /\ (NumForks + 1) * (n + 1) = (NumForks + 1) * n + (NumForks + 1)
<1>1. NumForks \in Nat
  BY Limits
<1>2. QED
  BY <1>1

LEMMA FamilyInvInit == Init => FamilyInv
<1> SUFFICES ASSUME Init PROVE FamilyInv
  OBVIOUS
<1>1. \A f \in Functions : build[f].lpFunctionAddress = f
  BY DEF Init, NewBuild, Builders
<1>2. \A b \in Builders : ~Started(b)
  BY DEF Init, NewBuild, Started
<1>3. ASSUME NEW f \in Functions
      PROVE  Cardinality(Family(f)) <= 1 + nForks[f] + (NumForks + 1) * nInitialize
  <2>1. Family(f) = {}
    BY <1>2 DEF Family
  <2>2. Cardinality(Family(f)) = 0
    BY <2>1, FS_EmptySet
  <2>3. nForks[f] = 0 /\ nInitialize = 0
    BY DEF Init
  <2>4. QED
    BY <2>2, <2>3, RoomFacts
<1>4. QED
  BY <1>1, <1>2, <1>3 DEF FamilyInv

\* A step that changes no family keeps the invariant, if no budget is refilled.
LEMMA FamiliesUnchanged ==
  ASSUME FamilyInv, BudgetInv, BudgetInv', UNCHANGED nInitialize,
         \A f \in Functions : nForks'[f] >= nForks[f],
         \A b \in Builders : /\ Started(b)' <=> Started(b)
                             /\ build'[b].lpFunctionAddress = build[b].lpFunctionAddress,
         build \in [Builders -> Builds]
  PROVE  FamilyInv'
<1>1. \A f \in Functions : Family(f)' = Family(f)
  BY DEF Family
<1>2. \A f \in Functions : build'[f].lpFunctionAddress = f
  BY DEF FamilyInv, Builders
<1>3. \A b \in Builders : Started(b)' => Started(build[b].lpFunctionAddress)'
  <2> SUFFICES ASSUME NEW b \in Builders, Started(b)'
               PROVE  Started(build[b].lpFunctionAddress)'
    OBVIOUS
  <2>1. build[b].lpFunctionAddress \in Builders
    BY DEF Builds, Builders
  <2>2. build[build[b].lpFunctionAddress].status # "none"
    BY DEF FamilyInv, Started
  <2>3. QED
    BY <2>1, <2>2 DEF Started
<1>4. ASSUME NEW f \in Functions
      PROVE  Cardinality(Family(f)') <= 1 + nForks'[f] + (NumForks + 1) * nInitialize'
  <2>1. Cardinality(Family(f)) <= 1 + nForks[f] + (NumForks + 1) * nInitialize
    BY DEF FamilyInv
  <2>2. nForks[f] \in Nat /\ nForks'[f] \in Nat /\ nForks'[f] >= nForks[f]
        /\ nInitialize \in Nat
    BY DEF BudgetInv
  <2>3. Family(f)' = Family(f) /\ Cardinality(Family(f)) \in Nat
    BY <1>1, FamilyIsFinite
  <2>4. (NumForks + 1) * nInitialize \in Nat
    BY <2>2, RoomFacts
  <2>5. Cardinality(Family(f)') = Cardinality(Family(f))
    BY <2>3
  <2>6. QED
    BY <2>1, <2>2, <2>3, <2>4, <2>5
<1>5. QED
  BY <1>2, <1>3, <1>4 DEF FamilyInv


\* A function that is scheduled had no family.
LEMMA FamilyScheduled ==
  ASSUME BuildsSound, BudgetInv, FamilyInv, NEW f \in Functions, ScheduleBuild(f)
  PROVE  FamilyInv'
<1>1. build' = [build EXCEPT ![f] = NewBuild(f, "scheduled")]
      /\ UNCHANGED <<nForks, nInitialize>> /\ build[f].status = "none"
  BY DEF ScheduleBuild
<1>2. f \in Builders /\ build \in [Builders -> Builds]
  BY DEF Builders, BuildsSound
<1>3. /\ build'[f].status = "scheduled" /\ build'[f].lpFunctionAddress = f
      /\ \A b \in Builders : b # f => build'[b] = build[b]
  BY <1>1, <1>2 DEF NewBuild
<1>4. \A b \in Builders : Started(b) => build[b].lpFunctionAddress # f
  BY <1>1 DEF FamilyInv, Started
<1>5. Family(f)' = {f}
  BY <1>2, <1>3, <1>4 DEF Family, Started
<1>6. \A g \in Functions : g # f => Family(g)' = Family(g)
  BY <1>1, <1>2, <1>3 DEF Family, Started
<1>7. \A g \in Functions : build'[g].lpFunctionAddress = g
  BY <1>3 DEF FamilyInv, Builders
<1>8. \A b \in Builders : Started(b)' => Started(build[b].lpFunctionAddress)'
  BY <1>3 DEF FamilyInv, Started, Builders, BuildsSound, Builds
<1>9. ASSUME NEW g \in Functions
      PROVE  Cardinality(Family(g)') <= 1 + nForks'[g] + (NumForks + 1) * nInitialize'
  <2>1. nForks[g] \in Nat /\ (NumForks + 1) * nInitialize \in Nat
    BY RoomFacts DEF BudgetInv
  <2>2. CASE g = f
    <3>1. Cardinality(Family(g)') = 1
      BY <1>5, <2>2, FS_Singleton
    <3>2. QED
      BY <1>1, <2>1, <3>1
  <2>3. CASE g # f
    BY <1>1, <1>6, <2>3 DEF FamilyInv
  <2>4. QED
    BY <2>2, <2>3
<1>10. QED
  BY <1>7, <1>8, <1>9 DEF FamilyInv

\* A fork is one more member of the family, and one more TAKE_BOTH.
LEMMA FamilyForks ==
  ASSUME BuildsSound, BudgetInv, FamilyInv, NEW b \in Builders, NEW k \in Forks,
         Forking(b, k)
  PROVE  FamilyInv'
<1>0. PICK f \in Functions : f = build[b].lpFunctionAddress
  BY DEF BuildsSound, Builds
<1>1. k \in Builders /\ build \in [Builders -> Builds] /\ f \in Functions
  BY DEF Builders, BuildsSound
<1>2. /\ nForks' = [nForks EXCEPT ![f] = @ + 1] /\ nInitialize' = nInitialize
      /\ build[k].status = "none"
  BY <1>0 DEF Forking, Spends, TakeFromBudget
<1>3. PICK s \in Builds, t \in Builds :
        Advances(build[b], s) /\ Advances(build[b], t)
        /\ build' = [build EXCEPT ![b] = s, ![k] = t]
  BY DEF Forking
<1>4. /\ s.lpFunctionAddress = f /\ t.lpFunctionAddress = f
      /\ s.status # "none" /\ t.status # "none" /\ build[b].status # "none"
  BY <1>0, <1>3 DEF Advances, Busy
<1>5. b # k
  BY <1>2, <1>4
<1>6. /\ build'[b] = s /\ build'[k] = t
      /\ \A c \in Builders : c # b /\ c # k => build'[c] = build[c]
  BY <1>1, <1>3, <1>5
<1>7. \A c \in Builders : c # k => (Started(c)' <=> Started(c))
        /\ build'[c].lpFunctionAddress = build[c].lpFunctionAddress
  BY <1>0, <1>4, <1>6 DEF Started
<1>8. Started(k)' /\ ~Started(k) /\ build'[k].lpFunctionAddress = f
  BY <1>2, <1>4, <1>6 DEF Started
<1>9. Family(f)' = Family(f) \cup {k} /\ k \notin Family(f)
  BY <1>1, <1>7, <1>8 DEF Family
<1>10. \A g \in Functions : g # f => Family(g)' = Family(g)
  BY <1>1, <1>7, <1>8 DEF Family
<1>11. \A g \in Functions : build'[g].lpFunctionAddress = g
  <2>1. \A g \in Functions : g \in Builders /\ g # k
    BY BuilderAssumption DEF Builders
  <2>2. QED
    BY <1>7, <2>1 DEF FamilyInv
<1>12. ASSUME NEW c \in Builders, Started(c)'
       PROVE  Started(build[c].lpFunctionAddress)'
  <2>1. \A g \in Functions : g \in Builders /\ g # k
    BY BuilderAssumption DEF Builders
  <2>2. Started(f)
    BY <1>0, <1>4 DEF FamilyInv, Started
  <2>3. CASE c = k
    BY <1>1, <1>7, <1>8, <2>1, <2>2, <2>3
  <2>4. CASE c # k
    <3>1. Started(c) /\ build[c].lpFunctionAddress \in Functions
      BY <1>1, <1>7, <1>12, <2>4 DEF Builds
    <3>2. Started(build[c].lpFunctionAddress)
      BY <3>1 DEF FamilyInv
    <3>3. QED
      BY <1>7, <2>1, <2>4, <3>1, <3>2
  <2>5. QED
    BY <2>3, <2>4
<1>13. ASSUME NEW g \in Functions
       PROVE  Cardinality(Family(g)') <= 1 + nForks'[g] + (NumForks + 1) * nInitialize'
  <2>1. nForks[g] \in Nat /\ (NumForks + 1) * nInitialize \in Nat
    BY RoomFacts DEF BudgetInv
  <2>2. Cardinality(Family(g)) <= 1 + nForks[g] + (NumForks + 1) * nInitialize
        /\ Cardinality(Family(g)) \in Nat
    BY FamilyIsFinite DEF FamilyInv
  <2>3. CASE g = f
    <3>1. Cardinality(Family(g)') = Cardinality(Family(g)) + 1
      BY <1>9, <2>3, FamilyIsFinite, FS_AddElement
    <3>2. nForks'[g] = nForks[g] + 1
      BY <1>2, <2>3 DEF BudgetInv
    <3>3. QED
      BY <1>2, <2>1, <2>2, <3>1, <3>2
  <2>4. CASE g # f
    BY <1>2, <1>10, <2>2, <2>4 DEF BudgetInv
  <2>5. QED
    BY <2>3, <2>4
<1>14. QED
  BY <1>11, <1>12, <1>13 DEF FamilyInv

LEMMA FamilyInvStep ==
  BuildsSound /\ BudgetInv /\ BudgetInv' /\ FamilyInv /\ [Next]_vars => FamilyInv'
<1> SUFFICES ASSUME BuildsSound, BudgetInv, BudgetInv', FamilyInv, [Next]_vars
             PROVE  FamilyInv'
  OBVIOUS
<1>1. build \in [Builders -> Builds] /\ \A f \in Functions : nForks[f] \in Nat
  BY DEF BuildsSound, BudgetInv
<1>2. ASSUME NEW f \in Functions, ScheduleBuild(f) PROVE FamilyInv'
  BY <1>2, FamilyScheduled
<1>3. ASSUME Initialize PROVE FamilyInv'
  <2>1. build' = build /\ nInitialize' = nInitialize + 1
    BY <1>3 DEF Initialize
  <2>2. \A f \in Functions : Family(f)' = Family(f)
    BY <2>1 DEF Family, Started
  <2>3. ASSUME NEW f \in Functions
        PROVE  Cardinality(Family(f)') <= 1 + nForks'[f] + (NumForks + 1) * nInitialize'
    <3>1. nForks[f] \in Nat /\ nForks'[f] \in Nat /\ nForks[f] <= NumForks + 1
          /\ nInitialize \in Nat
      BY Limits DEF BudgetInv
    <3>2. Cardinality(Family(f)) <= 1 + nForks[f] + (NumForks + 1) * nInitialize
          /\ Cardinality(Family(f)) \in Nat
      BY FamilyIsFinite DEF FamilyInv
    <3>3. /\ (NumForks + 1) * nInitialize \in Nat
          /\ (NumForks + 1) * nInitialize' = (NumForks + 1) * nInitialize + (NumForks + 1)
      BY <2>1, <3>1, RoomFacts
    <3>4. Cardinality(Family(f)') = Cardinality(Family(f))
      BY <2>2
    <3>5. QED
      BY <3>1, <3>2, <3>3, <3>4, Limits
  <2>4. QED
    BY <2>1, <2>3 DEF FamilyInv, Started
<1>4. ASSUME UNCHANGED vars PROVE FamilyInv'
  BY <1>1, <1>4, FamiliesUnchanged DEF vars, Started
<1>5. ASSUME NEW b \in Builders, BuildStep(b) \/ TimeIsOver(b) PROVE FamilyInv'
  <2>1. CASE Alone(b)
    <3>1. PICK s \in Builds : Advances(build[b], s) /\ build' = [build EXCEPT ![b] = s]
      BY <2>1 DEF Alone
    <3>2. /\ s.lpFunctionAddress = build[b].lpFunctionAddress
          /\ s.status # "none" /\ build[b].status # "none"
      BY <3>1 DEF Advances, Busy
    <3>3. \A c \in Builders : /\ Started(c)' <=> Started(c)
                              /\ build'[c].lpFunctionAddress = build[c].lpFunctionAddress
      BY <1>1, <3>1, <3>2 DEF Started
    <3>4. \A f \in Functions : nForks'[f] >= nForks[f]
      <4>1. nForks' = nForks
            \/ nForks' = [nForks EXCEPT ![build[b].lpFunctionAddress] = @ + 1]
        BY <2>1 DEF Alone, Spends, TakeFromBudget
      <4>2. QED
        BY <1>1, <4>1 DEF BudgetInv
    <3>5. nInitialize' = nInitialize
      BY <2>1 DEF Alone
    <3>6. QED
      BY <1>1, <3>3, <3>4, <3>5, FamiliesUnchanged
  <2>2. QED
    BY <1>5, <2>1, StepShape, FamilyForks
<1>6. QED
  BY <1>2, <1>3, <1>4, <1>5 DEF Next

\* However many threads build a function, together they never overdraw its budget,
\* and there are never more builds than it allows.
THEOREM ForkBudgetCorrect == Spec => []ForkBudget
<1> DEFINE Inv == BuildsSound /\ BudgetInv /\ FamilyInv
<1>1. Init => Inv
  BY BuildsSoundInit, BudgetInvInit, FamilyInvInit
<1>2. Inv /\ [Next]_vars => Inv'
  BY BuildsSoundStep, BudgetInvStep, FamilyInvStep
<1>3. Inv => ForkBudget
  <2> SUFFICES ASSUME BudgetInv, FamilyInv, NEW f \in Functions
               PROVE  /\ nForks[f] <= NumForks + 1
                      /\ Cardinality(Family(f)) <= 1 + (NumForks + 1) * (nInitialize + 1)
    BY DEF ForkBudget
  <2>1. nForks[f] \in Nat /\ nForks[f] <= NumForks + 1 /\ nInitialize \in Nat
    BY Limits DEF BudgetInv
  <2>2. Cardinality(Family(f)) <= 1 + nForks[f] + (NumForks + 1) * nInitialize
        /\ Cardinality(Family(f)) \in Nat
    BY FamilyIsFinite DEF FamilyInv
  <2>3. /\ (NumForks + 1) * nInitialize \in Nat
        /\ (NumForks + 1) * (nInitialize + 1)
             = (NumForks + 1) * nInitialize + (NumForks + 1)
    BY <2>1, RoomFacts
  <2>4. QED
    BY <2>1, <2>2, <2>3, Limits
<1>4. QED
  BY <1>1, <1>2, <1>3, PTL DEF Spec


-------------------------------------------------------------------------------
(* The decisions of a build: its backlog, its path and its count. *)

\* The log of one instruction
Shape(log) == \A i \in DOMAIN log : log[i] = log[1] <=> i <= Retakes

\* The decisions on a path that were made at one instruction
Visits(path, a) == {i \in DOMAIN path : path[i].lpAddress = a}

\* What LogShape and ConditionsCounted say of one build
Consistent(r) ==
  /\ \A a \in Addresses : Shape(r.oBacklog[a])
  /\ Len(r.path) \in {r.dwNumConditions, r.dwNumConditions - 1}
  /\ r.status # "graph" => Len(r.path) = r.dwNumConditions
  /\ Len(r.path) < MaxConditions
  /\ \A a \in Addresses : Len(r.oBacklog[a]) = Cardinality(Visits(r.path, a))

DecisionsInv == \A b \in Builders : Consistent(build[b])

\* A new build has decided nothing.
LEMMA NewBuildDecided ==
  ASSUME NEW f \in Functions, NEW status \in {"none", "scheduled"}
  PROVE  Consistent(NewBuild(f, status))
<1> DEFINE r == NewBuild(f, status)
<1>1. /\ r.oBacklog = [a \in Addresses |-> <<>>] /\ r.path = <<>>
      /\ r.dwNumConditions = 0
  BY DEF NewBuild
<1> HIDE DEF r
<1>2. \A a \in Addresses : r.oBacklog[a] = <<>>
  BY <1>1
<1>3. \A a \in Addresses : Visits(r.path, a) = {}
  BY <1>1 DEF Visits
<1>4. Len(<<>>) = 0 /\ DOMAIN <<>> = {}
  OBVIOUS
<1>5. \A a \in Addresses : Shape(r.oBacklog[a])
  BY <1>2, <1>4 DEF Shape
<1>6. \A a \in Addresses : Len(r.oBacklog[a]) = Cardinality(Visits(r.path, a))
  BY <1>2, <1>3, <1>4, FS_EmptySet
<1>7. QED
  BY <1>1, <1>4, <1>5, <1>6, Limits DEF Consistent, r

\* A decision keeps the shape of the log it enters.
LEMMA AppendKeepsShape ==
  ASSUME NEW log \in Seq(BOOLEAN), NEW d \in BOOLEAN, Shape(log),
         log # <<>> => d = Retake(log)
  PROVE  Shape(Append(log, d))
<1> DEFINE longer == Append(log, d)
<1>1. /\ Len(log) \in Nat /\ DOMAIN log = 1 .. Len(log)
      /\ DOMAIN longer = 1 .. Len(log) + 1
      /\ \A i \in 1 .. Len(log) : longer[i] = log[i]
      /\ longer[Len(log) + 1] = d
  BY LenProperties, AppendProperties
<1>2. ASSUME NEW i \in 1 .. Len(log) + 1
      PROVE  longer[i] = longer[1] <=> i <= Retakes
  <2>1. CASE log = <<>>
    <3>1. i = 1
      BY <2>1
    <3>2. QED
      BY <3>1, Limits
  <2>2. CASE log # <<>>
    <3>1. Len(log) > 0 /\ longer[1] = log[1]
      BY <1>1, <2>2, EmptySeq
    <3>2. CASE i <= Len(log)
      <4>1. i \in DOMAIN log /\ longer[i] = log[i]
        BY <1>1, <3>2
      <4>2. QED
        BY <3>1, <4>1 DEF Shape
    <3>3. CASE i = Len(log) + 1
      <4>1. longer[i] = Retake(log)
        BY <1>1, <2>2, <3>3
      <4>2. log[1] \in BOOLEAN
        BY <1>1, <3>1, ElementOfSeq
      <4>3. Retake(log) = log[1] <=> ~(Len(log) >= Retakes)
        BY <4>2 DEF Retake
      <4>4. Len(log) >= Retakes <=> ~(i <= Retakes)
        BY <1>1, <3>3, Limits
      <4>5. QED
        BY <3>1, <4>1, <4>3, <4>4
    <3>4. QED
      BY <1>1, <3>2, <3>3
  <2>3. QED
    BY <2>1, <2>2
<1>3. QED
  BY <1>1, <1>2 DEF Shape

\* A decision is one more visit, at its instruction.
LEMMA AppendVisits ==
  ASSUME NEW path \in Seq(Decisions), NEW e \in Decisions, NEW a \in Addresses
  PROVE  /\ Cardinality(Visits(path, a)) \in Nat
         /\ Cardinality(Visits(Append(path, e), a)) =
              Cardinality(Visits(path, a)) + (IF e.lpAddress = a THEN 1 ELSE 0)
<1> DEFINE longer == Append(path, e)
<1>1. /\ Len(path) \in Nat /\ DOMAIN path = 1 .. Len(path)
      /\ DOMAIN longer = 1 .. Len(path) + 1
      /\ \A i \in 1 .. Len(path) : longer[i] = path[i]
      /\ longer[Len(path) + 1] = e
  BY LenProperties, AppendProperties
<1> HIDE DEF longer
<1>2. IsFiniteSet(Visits(path, a)) /\ Cardinality(Visits(path, a)) \in Nat
  <2>1. Visits(path, a) \subseteq 1 .. Len(path)
    BY <1>1 DEF Visits
  <2>2. IsFiniteSet(1 .. Len(path))
    BY <1>1, FS_Interval
  <2>3. IsFiniteSet(Visits(path, a))
    BY <2>1, <2>2, FS_Subset
  <2>4. QED
    BY <2>3, FS_CardinalityType
<1>3. CASE e.lpAddress = a
  <2>1. Visits(longer, a) = Visits(path, a) \cup {Len(path) + 1}
    BY <1>1, <1>3 DEF Visits
  <2>2. Len(path) + 1 \notin Visits(path, a)
    BY <1>1 DEF Visits
  <2>3. Cardinality(Visits(longer, a)) = Cardinality(Visits(path, a)) + 1
    BY <1>2, <2>1, <2>2, FS_AddElement
  <2>4. QED
    BY <1>2, <1>3, <2>3 DEF longer
<1>4. CASE e.lpAddress # a
  <2>1. Visits(longer, a) = Visits(path, a)
    BY <1>1, <1>4 DEF Visits
  <2>2. QED
    BY <1>2, <1>4, <2>1 DEF longer
<1>5. QED
  BY <1>3, <1>4


\* A build that advances keeps its decisions consistent.
LEMMA AdvanceConsistent ==
  ASSUME NEW r, NEW s, Sound(r), Consistent(r), Advances(r, s)
  PROVE  Consistent(s)
<1>1. /\ r \in Builds /\ s \in Builds /\ Sound(s) /\ r.status # "graph"
  BY DEF Sound, Advances, Busy
<1>2. /\ r.path \in Seq(Decisions) /\ r.oBacklog \in [Addresses -> Seq(BOOLEAN)]
      /\ r.lpAddress \in Addresses /\ r.dwNumConditions \in Nat
      /\ s.dwNumConditions \in Nat /\ s.dwNumConditions <= MaxConditions
  BY <1>1, Limits DEF Builds
<1>3. Len(r.path) = r.dwNumConditions /\ r.dwNumConditions < MaxConditions
  BY <1>1 DEF Consistent, Sound
<1>4. CASE GoesOn(r, s)
  BY <1>1, <1>2, <1>3, <1>4, Limits DEF GoesOn, Consistent
<1>5. ASSUME NEW d \in BOOLEAN, NEW forked \in BOOLEAN, Decides(r, s, d, forked)
      PROVE  Consistent(s)
  <2> DEFINE log == r.oBacklog[r.lpAddress]
             e == Visit(r, d, forked)
  <2>1. /\ s.oBacklog = [r.oBacklog EXCEPT ![r.lpAddress] = Append(log, d)]
        /\ s.path = Append(r.path, e) /\ s.dwNumConditions = r.dwNumConditions + 1
        /\ s.status # "graph" /\ (log # <<>> => d = Retake(log))
    BY <1>5 DEF Decides
  <2>2. log \in Seq(BOOLEAN) /\ e \in Decisions /\ e.lpAddress = r.lpAddress
    BY <1>2 DEF Decisions, Visit
  <2>3. Len(s.path) = s.dwNumConditions /\ s.dwNumConditions < MaxConditions
    <3>1. Len(s.path) = Len(r.path) + 1
      BY <1>2, <2>1, <2>2, AppendProperties
    <3>2. QED
      BY <1>1, <1>3, <2>1, <3>1 DEF Sound
  <2>4. Shape(Append(log, d))
    BY <1>2, <2>1, <2>2, AppendKeepsShape DEF Consistent
  <2>5. Len(Append(log, d)) = Len(log) + 1 /\ Len(log) \in Nat
    BY <2>2, AppendProperties, LenProperties
  <2> HIDE DEF log, e
  <2>6. ASSUME NEW a \in Addresses
        PROVE  /\ Shape(s.oBacklog[a])
               /\ Len(s.oBacklog[a]) = Cardinality(Visits(s.path, a))
    <3>1. Len(r.oBacklog[a]) = Cardinality(Visits(r.path, a)) /\ Shape(r.oBacklog[a])
      BY DEF Consistent
    <3>2. /\ Cardinality(Visits(r.path, a)) \in Nat
          /\ Cardinality(Visits(s.path, a)) =
               Cardinality(Visits(r.path, a)) + (IF e.lpAddress = a THEN 1 ELSE 0)
      BY <1>2, <2>1, <2>2, AppendVisits
    <3>3. CASE a = r.lpAddress
      <4>1. s.oBacklog[a] = Append(log, d) /\ r.oBacklog[a] = log
        BY <1>2, <2>1, <3>3 DEF log
      <4>2. QED
        BY <2>2, <2>4, <2>5, <3>1, <3>2, <3>3, <4>1
    <3>4. CASE a # r.lpAddress
      <4>1. s.oBacklog[a] = r.oBacklog[a]
        BY <1>2, <2>1, <3>4
      <4>2. QED
        BY <2>2, <3>1, <3>2, <3>4, <4>1
    <3>5. QED
      BY <3>3, <3>4
  <2>7. QED
    BY <1>2, <2>3, <2>6 DEF Consistent
<1>6. QED
  BY <1>4, <1>5 DEF Advances

LEMMA DecisionsInvInit == Init => DecisionsInv
<1> SUFFICES ASSUME Init, NEW b \in Builders PROVE Consistent(build[b])
  BY DEF DecisionsInv
<1> DEFINE f == IF b \in Functions THEN b ELSE AnyFunction
<1>1. f \in Functions
  BY BuilderAssumption DEF AnyFunction
<1>2. build[b] = NewBuild(f, "none")
  BY DEF Init
<1>3. QED
  BY <1>1, <1>2, NewBuildDecided

LEMMA DecisionsInvStep == BuildsSound /\ DecisionsInv /\ [Next]_vars => DecisionsInv'
<1> SUFFICES ASSUME BuildsSound, DecisionsInv, [Next]_vars, NEW c \in Builders
             PROVE  Consistent(build'[c])
  BY DEF DecisionsInv
<1>1. build \in [Builders -> Builds] /\ Consistent(build[c])
      /\ \A b \in Builders : Sound(build[b]) /\ Consistent(build[b])
  BY DEF BuildsSound, DecisionsInv
<1>2. build' = build => Consistent(build'[c])
  BY <1>1
<1>3. ASSUME NEW f \in Functions, ScheduleBuild(f) PROVE Consistent(build'[c])
  <2>1. build'[c] = NewBuild(f, "scheduled") \/ build'[c] = build[c]
    BY <1>1, <1>3 DEF ScheduleBuild
  <2>2. QED
    BY <1>1, <2>1, NewBuildDecided
<1>4. ASSUME NEW b \in Builders, BuildStep(b) \/ TimeIsOver(b) PROVE Consistent(build'[c])
  <2>1. CASE Alone(b)
    <3>1. PICK s \in Builds : Advances(build[b], s) /\ build' = [build EXCEPT ![b] = s]
      BY <2>1 DEF Alone
    <3>2. Consistent(s)
      BY <1>1, <3>1, AdvanceConsistent
    <3>3. build'[c] = s \/ build'[c] = build[c]
      BY <1>1, <3>1
    <3>4. QED
      BY <1>1, <3>2, <3>3
  <2>2. ASSUME NEW k \in Forks, Forking(b, k) PROVE Consistent(build'[c])
    <3>1. PICK s \in Builds, t \in Builds :
            /\ Advances(build[b], s) /\ Advances(build[b], t)
            /\ build' = [build EXCEPT ![b] = s, ![k] = t]
      BY <2>2 DEF Forking
    <3>2. Consistent(s) /\ Consistent(t)
      BY <1>1, <3>1, AdvanceConsistent
    <3>3. build'[c] = s \/ build'[c] = t \/ build'[c] = build[c]
      BY <1>1, <3>1
    <3>4. QED
      BY <1>1, <3>2, <3>3
  <2>3. QED
    BY <1>4, <2>1, <2>2, StepShape
<1>5. Initialize \/ UNCHANGED vars => build' = build
  BY DEF Initialize, vars
<1>6. QED
  BY <1>2, <1>3, <1>4, <1>5 DEF Next

\* The decisions stay consistent with one another.
LEMMA DecisionsCorrect == Spec => []DecisionsInv
<1>1. Init => BuildsSound /\ DecisionsInv
  BY BuildsSoundInit, DecisionsInvInit
<1>2. BuildsSound /\ DecisionsInv /\ [Next]_vars => (BuildsSound /\ DecisionsInv)'
  BY BuildsSoundStep, DecisionsInvStep
<1>3. QED
  BY <1>1, <1>2, PTL DEF Spec

\* A first decision is repeated until it was made Retakes times and then turned, in
\* forks and forks of forks as well.
THEOREM LogShapeCorrect == Spec => []LogShape
<1>1. DecisionsInv => LogShape
  BY DEF DecisionsInv, Consistent, Shape, LogShape
<1>2. QED
  BY <1>1, DecisionsCorrect, PTL

\* The count of conditions, the path and the backlog of a build tell the same story.
THEOREM ConditionsCountedCorrect == Spec => []ConditionsCounted
<1>1. DecisionsInv => ConditionsCounted
  BY DEF DecisionsInv, Consistent, Visits, ConditionsCounted
<1>2. QED
  BY <1>1, DecisionsCorrect, PTL


-------------------------------------------------------------------------------
(* The builders implement the building part of AnalysisContract. *)

\* What the contract calls pending, started, building and graphs
Pending == {f \in Functions : ~Started(f)}
StartedBuilds == {b \in Builders : Started(b)}
Building == {b \in Builders : build[b].status \in Busy}
BuiltGraphs == {b \in Builders : build[b].status = "graph"}

\* The steps of the contract in these terms
LEMMA ContractStart ==
  ASSUME NEW f \in Functions, f \in Pending, Pending' = Pending \ {f},
         StartedBuilds' = StartedBuilds \cup {f}, Building' = Building \cup {f},
         BuiltGraphs' = BuiltGraphs
  PROVE  Contract!Start(f)
  BY DEF Contract!Start, Pending, StartedBuilds, Building, BuiltGraphs, Busy

LEMMA ContractFork ==
  ASSUME NEW b \in Building, NEW k \in Forks, k \notin StartedBuilds,
         StartedBuilds' = StartedBuilds \cup {k}, Building' = Building \cup {k},
         Pending' = Pending, BuiltGraphs' = BuiltGraphs
  PROVE  Contract!Fork(b, k)
  BY DEF Contract!Fork, Pending, StartedBuilds, Building, BuiltGraphs, Busy

LEMMA ContractEnd ==
  ASSUME NEW b \in Building, NEW isGraph \in BOOLEAN, Building' = Building \ {b},
         BuiltGraphs' = IF isGraph THEN BuiltGraphs \cup {b} ELSE BuiltGraphs,
         Pending' = Pending, StartedBuilds' = StartedBuilds
  PROVE  Contract!EndBuild(b, isGraph)
  BY DEF Contract!EndBuild, Pending, StartedBuilds, Building, BuiltGraphs, Busy

LEMMA ContractStutter ==
  ASSUME Pending' = Pending, StartedBuilds' = StartedBuilds, Building' = Building,
         BuiltGraphs' = BuiltGraphs
  PROVE  UNCHANGED Contract!vars
  BY DEF Contract!vars, Pending, StartedBuilds, Building, BuiltGraphs, Busy

LEMMA ContractInit == Init => Contract!Init
<1> SUFFICES ASSUME Init PROVE Contract!Init
  OBVIOUS
<1>1. \A b \in Builders : build[b].status = "none"
  BY DEF Init, NewBuild
<1>2. \A f \in Functions : f \in Builders
  BY DEF Builders
<1>3. QED
  BY <1>1, <1>2 DEF Contract!Init, Contract!Builders, Builders, Started


\* Every step of the builders is a step of the contract, or none.
LEMMA RefinesStep == BuildsSound /\ [Next]_vars => [Contract!Next]_(Contract!vars)
<1> SUFFICES ASSUME BuildsSound, [Next]_vars
             PROVE  Contract!Next \/ UNCHANGED Contract!vars
  OBVIOUS
<1>1. build \in [Builders -> Builds]
  BY DEF BuildsSound
<1>2. \A f \in Functions : f \in Builders /\ f \notin Forks
  BY BuilderAssumption DEF Builders
<1>3. ASSUME build' = build PROVE UNCHANGED Contract!vars
  BY <1>3, ContractStutter DEF Pending, StartedBuilds, Building, BuiltGraphs, Started
<1>4. ASSUME NEW f \in Functions, ScheduleBuild(f) PROVE Contract!Next
  <2>1. /\ build[f].status = "none" /\ build'[f].status = "scheduled" /\ f \in Builders
        /\ \A b \in Builders : b # f => build'[b] = build[b]
    BY <1>1, <1>2, <1>4 DEF ScheduleBuild, NewBuild
  <2>2. f \in Pending /\ Pending' = Pending \ {f}
    BY <1>2, <2>1 DEF Pending, Started
  <2>3. /\ StartedBuilds' = StartedBuilds \cup {f} /\ Building' = Building \cup {f}
        /\ BuiltGraphs' = BuiltGraphs
    BY <2>1 DEF StartedBuilds, Building, BuiltGraphs, Started, Busy
  <2>4. QED
    BY <2>2, <2>3, ContractStart DEF Contract!Next
<1>5. ASSUME NEW b \in Builders, Alone(b) PROVE Contract!Next \/ UNCHANGED Contract!vars
  <2>1. PICK s \in Builds : Advances(build[b], s) /\ build' = [build EXCEPT ![b] = s]
    BY <1>5 DEF Alone
  <2>2. build[b].status \in Busy /\ s.status \in Busy \cup {"graph", "error"}
    BY <2>1 DEF Advances
  <2>3. /\ build'[b] = s /\ b \in Building
        /\ \A c \in Builders : c # b => build'[c] = build[c]
    BY <1>1, <2>1, <2>2 DEF Building
  <2>4. Pending' = Pending /\ StartedBuilds' = StartedBuilds
    BY <1>2, <2>2, <2>3 DEF Pending, StartedBuilds, Started, Busy
  <2>5. CASE s.status \in Busy
    <3>1. Building' = Building /\ BuiltGraphs' = BuiltGraphs
      BY <2>2, <2>3, <2>5 DEF Building, BuiltGraphs, Busy
    <3>2. QED
      BY <2>4, <3>1, ContractStutter
  <2>6. CASE s.status = "graph"
    <3>1. Building' = Building \ {b} /\ BuiltGraphs' = BuiltGraphs \cup {b}
      BY <2>3, <2>6 DEF Building, BuiltGraphs, Busy
    <3>2. Contract!EndBuild(b, TRUE)
      BY <2>3, <2>4, <3>1, ContractEnd
    <3>3. QED
      BY <3>2 DEF Contract!Next, Contract!Builders, Builders
  <2>7. CASE s.status = "error"
    <3>1. Building' = Building \ {b} /\ BuiltGraphs' = BuiltGraphs
      BY <2>2, <2>3, <2>7 DEF Building, BuiltGraphs, Busy
    <3>2. Contract!EndBuild(b, FALSE)
      BY <2>3, <2>4, <3>1, ContractEnd
    <3>3. QED
      BY <3>2 DEF Contract!Next, Contract!Builders, Builders
  <2>8. QED
    BY <2>2, <2>5, <2>6, <2>7
<1>6. ASSUME NEW b \in Builders, NEW k \in Forks, Forking(b, k) PROVE Contract!Next
  <2>1. PICK s \in Builds, t \in Builds :
          /\ Advances(build[b], s) /\ s.status \in Busy /\ t.status \in Busy
          /\ build' = [build EXCEPT ![b] = s, ![k] = t]
    BY <1>6 DEF Forking
  <2>2. build[b].status \in Busy /\ build[k].status = "none" /\ k \in Builders
    BY <1>6, <2>1 DEF Advances, Forking, Builders
  <2>3. /\ build'[b] = s /\ build'[k] = t /\ b # k
        /\ \A c \in Builders : c # b /\ c # k => build'[c] = build[c]
    BY <1>1, <2>1, <2>2 DEF Busy
  <2>4. b \in Building /\ k \notin StartedBuilds
    BY <2>2 DEF Building, StartedBuilds, Started
  <2>5. StartedBuilds' = StartedBuilds \cup {k}
    BY <2>1, <2>2, <2>3 DEF StartedBuilds, Started, Busy
  <2>6. Building' = Building \cup {k}
    BY <2>1, <2>2, <2>3 DEF Building
  <2>7. BuiltGraphs' = BuiltGraphs
    BY <2>1, <2>2, <2>3 DEF BuiltGraphs, Busy
  <2>8. Pending' = Pending
    BY <1>2, <2>1, <2>2, <2>3 DEF Pending, Started, Busy
  <2>9. Contract!Fork(b, k)
    BY <2>4, <2>5, <2>6, <2>7, <2>8, ContractFork
  <2>10. QED
    BY <2>9 DEF Contract!Next, Contract!Builders, Builders
<1>7. Initialize \/ UNCHANGED vars => build' = build
  BY DEF Initialize, vars
<1>8. QED
  BY <1>3, <1>4, <1>5, <1>6, <1>7, StepShape DEF Next

\* The builders, with their budgets, backlogs and limits, do nothing that the
\* contract of an analysis does not allow: no build is begun twice, forks come from
\* builds at work, and every build ends once, with a graph or an error.
THEOREM RefinesContractProved == Spec => RefinesContract
<1>1. Init => BuildsSound
  BY BuildsSoundInit
<1>2. BuildsSound /\ [Next]_vars => BuildsSound'
  BY BuildsSoundStep
<1>3. QED
  BY <1>1, <1>2, ContractInit, RefinesStep, PTL DEF Spec, RefinesContract, Contract!Spec


-------------------------------------------------------------------------------
(* The paths of a family. *)

\* A path that a build walked further
Extends(p, q) == \A i \in DOMAIN p : i \in DOMAIN q /\ q[i] = p[i]

\* Where two paths differ, every continuation of them differs.
LEMMA DifferenceLasts ==
  ASSUME NEW p \in Seq(Decisions), NEW q \in Seq(Decisions), NEW longerP, NEW longerQ,
         Extends(p, longerP), Extends(q, longerQ), NEW i, DifferAt(p, q, i)
  PROVE  DifferAt(longerP, longerQ, i)
<1>1. /\ Len(p) \in Nat /\ DOMAIN p = 1 .. Len(p)
      /\ Len(q) \in Nat /\ DOMAIN q = 1 .. Len(q)
  BY LenProperties
<1>2. i \in DOMAIN p \cap DOMAIN q
  BY DEF DifferAt
<1>3. \A j \in 1 .. i - 1 : j \in DOMAIN p \cap DOMAIN q
  BY <1>1, <1>2
<1>4. QED
  BY <1>2, <1>3 DEF Extends, DifferAt

\* The difference of two paths is mutual.
LEMMA DifferenceIsMutual ==
  ASSUME NEW p, NEW q, NEW i, DifferAt(p, q, i)
  PROVE  DifferAt(q, p, i)
  BY DEF DifferAt

\* A decision extends the path, by one entry.
LEMMA AppendExtends ==
  ASSUME NEW p \in Seq(Decisions), NEW e \in Decisions
  PROVE  /\ Extends(p, Append(p, e))
         /\ DOMAIN Append(p, e) = DOMAIN p \cup {Len(p) + 1} /\ Len(p) + 1 \notin DOMAIN p
         /\ Append(p, e)[Len(p) + 1] = e
<1>1. /\ Len(p) \in Nat /\ DOMAIN p = 1 .. Len(p)
      /\ DOMAIN Append(p, e) = 1 .. Len(p) + 1
      /\ \A i \in 1 .. Len(p) : Append(p, e)[i] = p[i]
      /\ Append(p, e)[Len(p) + 1] = e
  BY LenProperties, AppendProperties
<1>2. QED
  BY <1>1 DEF Extends

\* The same of the path of a build
LEMMA VisitExtends ==
  ASSUME NEW r \in Builds, NEW d \in BOOLEAN, NEW forked \in BOOLEAN, NEW longer,
         longer = Append(r.path, Visit(r, d, forked))
  PROVE  /\ Extends(r.path, longer)
         /\ DOMAIN longer = DOMAIN r.path \cup {Len(r.path) + 1}
         /\ longer[Len(r.path) + 1] = Visit(r, d, forked)
<1>1. r.path \in Seq(Decisions) /\ r.lpAddress \in Addresses
  BY DEF Builds
<1>2. Visit(r, d, forked) \in Decisions
  BY <1>1 DEF Visit, Decisions
<1> DEFINE p == r.path
           e == Visit(r, d, forked)
<1>3. p \in Seq(Decisions) /\ e \in Decisions /\ longer = Append(p, e)
  BY <1>1, <1>2
<1> HIDE DEF p, e
<1>4. /\ Extends(p, longer) /\ longer[Len(p) + 1] = e
      /\ DOMAIN longer = DOMAIN p \cup {Len(p) + 1}
  BY <1>3, AppendExtends
<1>5. QED
  BY <1>4 DEF p, e

\* Two builds that took the two branches at a condition differ there.
LEMMA BranchesDiffer ==
  ASSUME NEW p \in Seq(Decisions), NEW e \in Decisions, NEW d \in Decisions,
         e.lpAddress = d.lpAddress, e.bDecision # d.bDecision
  PROVE  DifferAt(Append(p, e), Append(p, d), Len(p) + 1)
<1>1. /\ Len(p) \in Nat /\ DOMAIN p = 1 .. Len(p)
  BY LenProperties
<1>2. /\ Len(p) + 1 \in DOMAIN Append(p, e) \cap DOMAIN Append(p, d)
      /\ Append(p, e)[Len(p) + 1] = e /\ Append(p, d)[Len(p) + 1] = d
  BY AppendExtends
<1>3. \A j \in 1 .. Len(p) : Append(p, e)[j] = p[j] /\ Append(p, d)[j] = p[j]
  BY <1>1, AppendExtends DEF Extends
<1>4. (Len(p) + 1) - 1 = Len(p)
  BY <1>1
<1>5. QED
  BY <1>2, <1>3, <1>4 DEF DifferAt

\* A step in which no build begins and no branch is left to a fork keeps the paths
\* divided.
LEMMA PathsLengthened ==
  ASSUME PathsDivided, BuildsSound,
         \A f \in Functions : Family(f)' = Family(f),
         \A b \in Builders :
           /\ Extends(build[b].path, build'[b].path)
           /\ \A i \in DOMAIN build'[b].path :
                i \notin DOMAIN build[b].path => ~build'[b].path[i].forked
  PROVE  PathsDivided'
<1>1. \A b \in Builders : build[b].path \in Seq(Decisions)
  BY DEF BuildsSound, Builds
<1> SUFFICES ASSUME NEW f \in Functions, NEW b \in Family(f)
             PROVE  /\ \A c \in Family(f) \ {b} : \E i \in DOMAIN build'[b].path :
                         DifferAt(build'[b].path, build'[c].path, i)
                    /\ \A i \in DOMAIN build'[b].path :
                         build'[b].path[i].forked =>
                           \E c \in Family(f) : DifferAt(build'[b].path, build'[c].path, i)
  BY DEF PathsDivided
<1>2. b \in Builders /\ \A c \in Family(f) : c \in Builders
  BY DEF Family
<1>3. ASSUME NEW c \in Family(f), NEW i, DifferAt(build[b].path, build[c].path, i)
      PROVE  i \in DOMAIN build'[b].path /\ DifferAt(build'[b].path, build'[c].path, i)
  <2>1. DifferAt(build'[b].path, build'[c].path, i)
    BY <1>1, <1>2, <1>3, DifferenceLasts
  <2>2. QED
    BY <2>1 DEF DifferAt
<1>4. ASSUME NEW c \in Family(f) \ {b}
      PROVE  \E i \in DOMAIN build'[b].path : DifferAt(build'[b].path, build'[c].path, i)
  <2>1. \E i \in DOMAIN build[b].path : DifferAt(build[b].path, build[c].path, i)
    BY DEF PathsDivided
  <2>2. QED
    BY <1>3, <2>1
<1>5. ASSUME NEW i \in DOMAIN build'[b].path, build'[b].path[i].forked
      PROVE  \E c \in Family(f) : DifferAt(build'[b].path, build'[c].path, i)
  <2>1. i \in DOMAIN build[b].path /\ build[b].path[i].forked
    BY <1>2, <1>5 DEF Extends
  <2>2. \E c \in Family(f) : DifferAt(build[b].path, build[c].path, i)
    BY <2>1 DEF PathsDivided
  <2>3. QED
    BY <1>3, <2>2
<1>6. QED
  BY <1>4, <1>5

\* A build that advances alone
LEMMA PathsAlone ==
  ASSUME PathsDivided, BuildsSound, NEW b \in Builders, Alone(b)
  PROVE  PathsDivided'
<1>1. build \in [Builders -> Builds]
  BY DEF BuildsSound
<1>2. PICK s \in Builds : /\ Advances(build[b], s) /\ ForksNothing(build[b], s)
                          /\ build' = [build EXCEPT ![b] = s]
  BY DEF Alone
<1>3. /\ s.lpFunctionAddress = build[b].lpFunctionAddress
      /\ s.status # "none" /\ build[b].status # "none"
  BY <1>2 DEF Advances, Busy
<1>4. build'[b] = s /\ \A c \in Builders : c # b => build'[c] = build[c]
  BY <1>1, <1>2
<1>5. \A f \in Functions : Family(f)' = Family(f)
  BY <1>3, <1>4 DEF Family, Started
<1>7. /\ Extends(build[b].path, s.path)
      /\ \A i \in DOMAIN s.path : i \notin DOMAIN build[b].path => ~s.path[i].forked
  <2>1. CASE s.path = build[b].path
    BY <2>1 DEF Extends
  <2>2. ASSUME NEW d \in BOOLEAN, s.path = Append(build[b].path, Visit(build[b], d, FALSE))
        PROVE  /\ Extends(build[b].path, s.path)
               /\ \A i \in DOMAIN s.path : i \notin DOMAIN build[b].path => ~s.path[i].forked
    <3>1. ~Visit(build[b], d, FALSE).forked
      BY DEF Visit
    <3>2. /\ Extends(build[b].path, s.path)
          /\ DOMAIN s.path = DOMAIN build[b].path \cup {Len(build[b].path) + 1}
          /\ s.path[Len(build[b].path) + 1] = Visit(build[b], d, FALSE)
      <4>1. CASE d = TRUE
        <5>1. s.path = Append(build[b].path, Visit(build[b], TRUE, FALSE))
          BY <2>2, <4>1
        <5>2. QED
          BY <1>1, <4>1, <5>1, VisitExtends
      <4>2. CASE d = FALSE
        <5>1. s.path = Append(build[b].path, Visit(build[b], FALSE, FALSE))
          BY <2>2, <4>2
        <5>2. QED
          BY <1>1, <4>2, <5>1, VisitExtends
      <4>3. QED
        BY <4>1, <4>2
    <3>3. QED
      BY <3>1, <3>2
  <2>3. QED
    BY <1>2, <2>1, <2>2 DEF ForksNothing
<1>8. \A c \in Builders :
        /\ Extends(build[c].path, build'[c].path)
        /\ \A i \in DOMAIN build'[c].path :
             i \notin DOMAIN build[c].path => ~build'[c].path[i].forked
  BY <1>4, <1>7 DEF Extends
<1>9. QED
  BY <1>5, <1>8, PathsLengthened

\* A build that forks: the copy has the path of the build, and they go on to the two
\* branches.
LEMMA PathsForked ==
  ASSUME PathsDivided, BuildsSound, NEW b \in Builders, NEW k \in Forks, Forking(b, k)
  PROVE  PathsDivided'
<1>1. build \in [Builders -> Builds] /\ k \in Builders /\ build[k].status = "none"
  BY DEF BuildsSound, Builders, Forking
<1>2. PICK s \in Builds, t \in Builds :
        /\ Advances(build[b], s) /\ Advances(build[b], t)
        /\ build' = [build EXCEPT ![b] = s, ![k] = t]
        /\ s.path = Append(build[b].path, Visit(build[b], TRUE, TRUE))
        /\ t.path = Append(build[b].path, Visit(build[b], FALSE, TRUE))
  BY DEF Forking
<1>3. /\ s.lpFunctionAddress = build[b].lpFunctionAddress
      /\ t.lpFunctionAddress = build[b].lpFunctionAddress
      /\ s.status # "none" /\ t.status # "none" /\ build[b].status # "none" /\ b # k
  BY <1>1, <1>2 DEF Advances, Busy
<1>4. /\ build'[b] = s /\ build'[k] = t
      /\ \A c \in Builders : c # b /\ c # k => build'[c] = build[c]
  BY <1>1, <1>2, <1>3
<1> DEFINE origin(c) == IF c = k THEN b ELSE c
           p == build[b].path
           n == Len(p) + 1
<1>5. ASSUME NEW f \in Functions, NEW c \in Family(f)'
      PROVE  c \in Builders /\ origin(c) \in Family(f)
  BY <1>3, <1>4, <1>5 DEF Family, Started
<1>6. \A f \in Functions : Family(f) \subseteq Family(f)' /\ k \notin Family(f)
  BY <1>1, <1>3, <1>4 DEF Family, Started
<1>7. \A c \in Builders : build[c].path \in Seq(Decisions)
  BY <1>1 DEF Builds
<1>8. Visit(build[b], TRUE, TRUE) \in Decisions /\ Visit(build[b], FALSE, TRUE) \in Decisions
  BY <1>1 DEF Visit, Decisions, Builds
<1>9. /\ Extends(p, s.path) /\ Extends(p, t.path)
      /\ DOMAIN s.path = DOMAIN p \cup {n} /\ DOMAIN t.path = DOMAIN p \cup {n}
  BY <1>1, <1>2, VisitExtends
<1>10. DifferAt(s.path, t.path, n) /\ DifferAt(t.path, s.path, n)
  <2>1. /\ Visit(build[b], TRUE, TRUE).lpAddress = Visit(build[b], FALSE, TRUE).lpAddress
        /\ Visit(build[b], TRUE, TRUE).bDecision # Visit(build[b], FALSE, TRUE).bDecision
    BY DEF Visit
  <2>2. DifferAt(s.path, t.path, n)
    BY <1>2, <1>7, <1>8, <2>1, BranchesDiffer
  <2>3. QED
    BY <2>2, DifferenceIsMutual
<1> HIDE DEF n
<1>11. \A c \in Builders : Extends(build[origin(c)].path, build'[c].path)
  <2>1. \A q : Extends(q, q)
    BY DEF Extends
  <2>2. QED
    BY <1>4, <1>9, <2>1
<1>12. ASSUME NEW x \in Builders, NEW y \in Builders, NEW i, origin(x) \in Builders,
              origin(y) \in Builders,
              DifferAt(build[origin(x)].path, build[origin(y)].path, i)
       PROVE  i \in DOMAIN build'[x].path /\ DifferAt(build'[x].path, build'[y].path, i)
  <2> DEFINE u == origin(x)
             v == origin(y)
  <2>1. /\ build[u].path \in Seq(Decisions) /\ build[v].path \in Seq(Decisions)
        /\ Extends(build[u].path, build'[x].path) /\ Extends(build[v].path, build'[y].path)
        /\ DifferAt(build[u].path, build[v].path, i)
    BY <1>7, <1>11, <1>12
  <2> HIDE DEF u, v
  <2>2. DifferAt(build'[x].path, build'[y].path, i)
    BY <2>1, DifferenceLasts
  <2>3. QED
    BY <2>2 DEF DifferAt
<1> SUFFICES ASSUME NEW f \in Functions, NEW x \in Family(f)'
             PROVE  /\ \A y \in Family(f)' \ {x} : \E i \in DOMAIN build'[x].path :
                         DifferAt(build'[x].path, build'[y].path, i)
                    /\ \A i \in DOMAIN build'[x].path :
                         build'[x].path[i].forked =>
                           \E y \in Family(f)' : DifferAt(build'[x].path, build'[y].path, i)
  BY DEF PathsDivided
<1>13. x \in Builders /\ origin(x) \in Family(f) /\ origin(x) \in Builders
  BY <1>5 DEF Family
<1>14. ASSUME NEW y \in Family(f)' \ {x}
       PROVE  \E i \in DOMAIN build'[x].path : DifferAt(build'[x].path, build'[y].path, i)
  <2>1. y \in Builders /\ origin(y) \in Family(f) /\ origin(y) \in Builders
    BY <1>5 DEF Family
  <2>2. CASE origin(x) # origin(y)
    <3>1. \E i : DifferAt(build[origin(x)].path, build[origin(y)].path, i)
      BY <1>13, <2>1, <2>2 DEF PathsDivided
    <3>2. QED
      BY <1>12, <1>13, <2>1, <3>1
  <2>3. CASE origin(x) = origin(y)
    <3>1. (x = b /\ y = k) \/ (x = k /\ y = b)
      BY <2>3
    <3>2. DifferAt(build'[x].path, build'[y].path, n)
      BY <1>4, <1>10, <3>1
    <3>3. QED
      BY <3>2 DEF DifferAt
  <2>4. QED
    BY <2>2, <2>3
<1>15. ASSUME NEW i \in DOMAIN build'[x].path, build'[x].path[i].forked
       PROVE  \E y \in Family(f)' : DifferAt(build'[x].path, build'[y].path, i)
  <2>1. CASE i \in DOMAIN build[origin(x)].path
    <3>1. build[origin(x)].path[i].forked
      BY <1>11, <1>13, <1>15, <2>1 DEF Extends
    <3>2. PICK y \in Family(f) : DifferAt(build[origin(x)].path, build[y].path, i)
      BY <1>13, <2>1, <3>1 DEF PathsDivided
    <3>3. y \in Family(f)' /\ y \in Builders /\ origin(y) = y
      BY <1>6 DEF Family
    <3>4. DifferAt(build'[x].path, build'[y].path, i)
      BY <1>12, <1>13, <3>2, <3>3
    <3>5. QED
      BY <3>3, <3>4
  <2>2. CASE i \notin DOMAIN build[origin(x)].path
    <3>1. x \in {b, k} /\ i = n
      BY <1>4, <1>9, <1>13, <2>2
    <3>2. b \in Family(f)' /\ k \in Family(f)'
      <4>1. b \in Family(f)
        BY <1>13, <3>1
      <4>2. QED
        BY <1>1, <1>3, <1>4, <1>6, <4>1 DEF Family, Started
    <3>3. QED
      BY <1>4, <1>10, <3>1, <3>2
  <2>3. QED
    BY <2>1, <2>2
<1>16. QED
  BY <1>14, <1>15

\* A function that is scheduled is its family, and has decided nothing.
LEMMA PathsScheduled ==
  ASSUME PathsDivided, BuildsSound, FamilyInv, NEW f \in Functions, ScheduleBuild(f)
  PROVE  PathsDivided'
<1>1. build \in [Builders -> Builds] /\ f \in Builders /\ build[f].status = "none"
      /\ build' = [build EXCEPT ![f] = NewBuild(f, "scheduled")]
  BY DEF BuildsSound, Builders, ScheduleBuild
<1>2. /\ build'[f].status = "scheduled" /\ build'[f].lpFunctionAddress = f
      /\ build'[f].path = <<>> /\ \A b \in Builders : b # f => build'[b] = build[b]
  BY <1>1 DEF NewBuild
<1>3. \A b \in Builders : Started(b) => build[b].lpFunctionAddress # f
  BY <1>1 DEF FamilyInv, Started
<1>4. Family(f)' = {f}
  BY <1>1, <1>2, <1>3 DEF Family, Started
<1>5. \A g \in Functions : g # f => Family(g)' = Family(g) /\ f \notin Family(g)
  BY <1>1, <1>2 DEF Family, Started
<1>6. ASSUME NEW g \in Functions, NEW b \in Family(g)'
      PROVE  /\ \A c \in Family(g)' \ {b} : \E i \in DOMAIN build'[b].path :
                  DifferAt(build'[b].path, build'[c].path, i)
             /\ \A i \in DOMAIN build'[b].path :
                  build'[b].path[i].forked =>
                    \E c \in Family(g)' : DifferAt(build'[b].path, build'[c].path, i)
  <2>1. CASE g = f
    BY <1>2, <1>4, <1>6, <2>1
  <2>2. CASE g # f
    <3>1. Family(g)' = Family(g) /\ \A c \in Family(g) : build'[c] = build[c]
      BY <1>2, <1>5, <2>2 DEF Family
    <3>2. QED
      BY <1>6, <3>1 DEF PathsDivided
  <2>3. QED
    BY <2>1, <2>2
<1>7. QED
  BY <1>6 DEF PathsDivided

\* Every step keeps the paths divided.
LEMMA PathsDividedStep ==
  BuildsSound /\ FamilyInv /\ PathsDivided /\ [Next]_vars => PathsDivided'
<1> SUFFICES ASSUME BuildsSound, FamilyInv, PathsDivided, [Next]_vars PROVE PathsDivided'
  OBVIOUS
<1>1. CASE Initialize \/ UNCHANGED vars
  <2>1. build' = build
    BY <1>1 DEF Initialize, vars
  <2>2. QED
    BY <2>1 DEF PathsDivided, Family, Started
<1>2. QED
  BY <1>1, StepShape, PathsScheduled, PathsAlone, PathsForked DEF Next

\* The builds of a function divide its paths among them: no two walk the same one, and
\* every branch that was left to a fork has a build that took it.
THEOREM PathsDividedCorrect == Spec => []PathsDivided
<1> DEFINE Inv == BuildsSound /\ BudgetInv /\ FamilyInv /\ PathsDivided
<1>1. Init => PathsDivided
  BY DEF Init, NewBuild, PathsDivided, Family, Started
<1>2. Init => Inv
  BY <1>1, BuildsSoundInit, BudgetInvInit, FamilyInvInit
<1>3. Inv /\ [Next]_vars => Inv'
  BY BuildsSoundStep, BudgetInvStep, FamilyInvStep, PathsDividedStep
<1>4. QED
  BY <1>2, <1>3, PTL DEF Spec
===============================================================================
