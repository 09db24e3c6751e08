---------------------------- MODULE MatchingProofs ----------------------------
(***************************************************************************)
(* Proofs about the graphs that are compared: what Cleanup leaves of one,  *)
(* for any graph, any nodes that are to be kept and any order in which the *)
(* hash tables are iterated; and about the search for a signature in one:  *)
(* whatever Pass 2 tries and gives up is undone.                           *)
(***************************************************************************)
EXTENDS SignatureSearch, FiniteSetTheorems, SequenceTheorems, WellFoundedInduction, TLAPS

CONSTANTS
  Graph,       \* the graph that is cleaned
  Disposable   \* the nodes for which ShouldCleanNode says so: it looks at nothing Cleanup changes

\* A graph: finite, tied, its inputs made before the nodes that use them
GraphOK ==
  /\ aIdMap = [g \in DOMAIN aIdMap |-> aIdMap[g]] /\ Graph \in DOMAIN aIdMap
  /\ DOMAIN aIdMap[Graph] \in SUBSET Nat /\ IsFiniteSet(DOMAIN aIdMap[Graph])
  /\ Nodes(Graph) \subseteq DOMAIN heap
  /\ \A p \in DOMAIN heap : heap[p] = [f \in {"op", "v", "in", "unique", "out"} |-> heap[p][f]]
  /\ Tied(Graph)
  /\ \A p \in Nodes(Graph) : \A q \in heap[p].unique : Id(q) < Id(p)

ShouldClean(p) == p \in Disposable

CleanupInit == GraphOK /\ aCalls = <<>> /\ aScheduledForRemoval = {}
CleanupNext ==
  \/ aCalls = <<>> /\ StartCleanup(Graph)
  \/ \E p \in Nodes(Graph) : CleanNode(ShouldClean, p)
  \/ CleanupReturns
  \/ RemoveScheduled(Graph)
CleanupSpec == CleanupInit /\ [][CleanupNext]_cleanupVars

\* What has to stay: the least set with the nodes that are not disposable and the inputs
\* of every node in it.
Closed(S) == \A p \in S : heap[p].unique \subseteq S
Needed == {p \in Nodes(Graph) : \A S \in SUBSET Nodes(Graph) :
             Nodes(Graph) \ Disposable \subseteq S /\ Closed(S) => p \in S}

-------------------------------------------------------------------------------
(* The inductive invariant. *)

\* A node is scheduled when it is disposable and so are all that use it.
ScheduledUnused ==
  /\ aScheduledForRemoval \subseteq Nodes(Graph) \cap Disposable
  /\ \A p \in aScheduledForRemoval : heap[p].out \subseteq aScheduledForRemoval

\* Such a node that is not scheduled is still to be come to, by some call.
NothingForgotten ==
  aCalls # <<>> =>
    \A p \in (Nodes(Graph) \cap Disposable) \ aScheduledForRemoval :
      heap[p].out \subseteq aScheduledForRemoval => \E i \in DOMAIN aCalls : p \in aCalls[i]

CleanupInv ==
  /\ GraphOK
  /\ aCalls \in Seq(SUBSET Nodes(Graph))
  /\ aCalls # <<>> => ScheduledUnused
  /\ NothingForgotten

\* Facts of a graph's nodes.
LEMMA GraphFacts ==
  ASSUME GraphOK
  PROVE  /\ IsFiniteSet(Nodes(Graph))
         /\ \A p \in Nodes(Graph) :
              /\ p = <<Graph, Id(p)>> /\ Id(p) \in DOMAIN aIdMap[Graph] /\ Id(p) \in Nat
              /\ p = aIdMap[Graph][Id(p)]
              /\ heap[p].unique \subseteq Nodes(Graph)
              /\ heap[p].unique = ToSet(heap[p].in)
              /\ heap[p].out = {q \in Nodes(Graph) : p \in heap[q].unique}
              /\ p \notin heap[p].unique
<1>1. Nodes(Graph) = {aIdMap[Graph][id] : id \in DOMAIN aIdMap[Graph]}
  BY DEF Nodes
<1>2. IsFiniteSet(Nodes(Graph))
  <2> DEFINE ids == DOMAIN aIdMap[Graph]
             f == [id \in ids |-> aIdMap[Graph][id]]
  <2>1. f \in Surjection(ids, Nodes(Graph))
    BY <1>1 DEF Surjection
  <2>2. IsFiniteSet(ids)
    BY DEF GraphOK
  <2> HIDE DEF ids, f
  <2> QED BY <2>1, <2>2, FS_Surjection
<1>3. ASSUME NEW p \in Nodes(Graph)
      PROVE  /\ p = <<Graph, Id(p)>> /\ Id(p) \in DOMAIN aIdMap[Graph] /\ Id(p) \in Nat
             /\ p = aIdMap[Graph][Id(p)]
             /\ heap[p].unique \subseteq Nodes(Graph)
             /\ heap[p].unique = ToSet(heap[p].in)
             /\ heap[p].out = {q \in Nodes(Graph) : p \in heap[q].unique}
             /\ p \notin heap[p].unique
  <2>1. PICK id \in DOMAIN aIdMap[Graph] : p = aIdMap[Graph][id]
    BY <1>1
  <2>2. /\ p = <<Graph, id>>
        /\ heap[p].unique = ToSet(heap[p].in) /\ heap[p].unique \subseteq Nodes(Graph)
        /\ heap[p].out = {q \in Nodes(Graph) : p \in heap[q].unique}
    BY <2>1 DEF GraphOK, Tied
  <2>3. Id(p) = id /\ id \in Nat
    BY <2>2 DEF Id, GraphOK
  <2>4. p \notin heap[p].unique
    BY <2>3 DEF GraphOK
  <2> QED BY <2>1, <2>2, <2>3, <2>4
<1> QED BY <1>2, <1>3

\* A node has lost all its outputs when they are all scheduled.
LEMMA UnusedMeaning ==
  ASSUME GraphOK, ScheduledUnused, NEW p \in Nodes(Graph)
  PROVE  Unused(p) <=> heap[p].out \subseteq aScheduledForRemoval
<1>1. ChildrenRemoved(p) = heap[p].out \cap aScheduledForRemoval
  BY GraphFacts DEF ScheduledUnused, ChildrenRemoved
<1>2. IsFiniteSet(heap[p].out)
  BY GraphFacts, FS_Subset
<1>3. ChildrenRemoved(p) \in SUBSET heap[p].out
  BY <1>1
<1>4. Cardinality(heap[p].out) = Cardinality(ChildrenRemoved(p)) => heap[p].out = ChildrenRemoved(p)
  BY <1>2, <1>3, FS_Subset
<1> QED BY <1>1, <1>4 DEF Unused

\* At first nothing is scheduled.
LEMMA CleanupInvInit == CleanupInit => CleanupInv
BY DEF CleanupInit, CleanupInv, ScheduledUnused, NothingForgotten

\* GraphOK and ScheduledUnused depend on nothing else.
LEMMA GraphStays == GraphOK /\ UNCHANGED <<heap, aIdMap>> => GraphOK' /\ Nodes(Graph)' = Nodes(Graph)
BY DEF GraphOK, Tied, Nodes

\* A cleanup starts with every node still to come to.
LEMMA StartCleanupInv == CleanupInv /\ StartCleanup(Graph) => CleanupInv'
<1> SUFFICES ASSUME CleanupInv, StartCleanup(Graph) PROVE CleanupInv'
  OBVIOUS
<1>1. UNCHANGED <<heap, aIdMap>> /\ aCalls' = <<Nodes(Graph)>> /\ aScheduledForRemoval' = {}
  BY DEF StartCleanup
<1>2. GraphOK' /\ Nodes(Graph)' = Nodes(Graph)
  BY <1>1, GraphStays DEF CleanupInv
<1>3. aCalls' \in Seq(SUBSET Nodes(Graph)') /\ DOMAIN aCalls' = {1} /\ aCalls'[1] = Nodes(Graph)'
  BY <1>1, <1>2
<1>4. ScheduledUnused'
  BY <1>1 DEF ScheduledUnused
<1>5. NothingForgotten'
  BY <1>3 DEF NothingForgotten
<1> QED BY <1>2, <1>3, <1>4, <1>5 DEF CleanupInv

\* Cleanup_Impl leaves a node that is not to be removed yet, and comes to the inputs of one
\* that is.
LEMMA CleanNodeInv ==
  ASSUME CleanupInv, NEW p \in Nodes(Graph), CleanNode(ShouldClean, p)
  PROVE  CleanupInv'
<1> DEFINE N == Nodes(Graph)
           removed == Unused(p) /\ ShouldClean(p)
           without == [i \in DOMAIN aCalls |-> aCalls[i] \ {p}]
           left == [aCalls EXCEPT ![Len(aCalls)] = @ \ {p}]
<1>1. UNCHANGED <<heap, aIdMap>> /\ aCalls # <<>>
  BY DEF CleanNode
<1>2. GraphOK' /\ Nodes(Graph)' = Nodes(Graph)
  BY <1>1, GraphStays DEF CleanupInv
<1>3. GraphOK /\ ScheduledUnused /\ NothingForgotten /\ aCalls \in Seq(SUBSET N)
  BY <1>1 DEF CleanupInv
<1>4. Unused(p) <=> heap[p].out \subseteq aScheduledForRemoval
  BY <1>3, UnusedMeaning
<1>5. DOMAIN aCalls = 1 .. Len(aCalls) /\ Len(aCalls) \in Nat /\ Len(aCalls) \in DOMAIN aCalls
  BY <1>1, <1>3
<1>6. \A q \in N : heap'[q] = heap[q]
  BY <1>1
<1>7. CASE removed
  <2>1. aScheduledForRemoval' = aScheduledForRemoval \cup {p} /\ aCalls' = Removal(without, p)
    BY <1>7 DEF CleanNode
  <2>2. aCalls' = Append(without, heap[p].unique \ aScheduledForRemoval)
    BY <2>1 DEF Removal
  <2>3. without \in Seq(SUBSET N) /\ Len(without) = Len(aCalls) /\ DOMAIN without = DOMAIN aCalls
        /\ \A i \in DOMAIN aCalls : without[i] = aCalls[i] \ {p}
    <3>1. without \in [1 .. Len(aCalls) -> SUBSET N]
      BY <1>3, <1>5
    <3>2. without \in Seq(SUBSET N) /\ DOMAIN without = DOMAIN aCalls
      BY <3>1, <1>5
    <3>3. Len(without) = Len(aCalls)
      BY <3>1, <1>5
    <3> QED BY <3>2, <3>3
  <2>4. heap[p].unique \in SUBSET N
    BY <1>3, GraphFacts
  <2> HIDE DEF without
  <2>5. /\ aCalls' \in Seq(SUBSET N) /\ DOMAIN aCalls' = 1 .. Len(aCalls) + 1
        /\ \A i \in DOMAIN aCalls : aCalls'[i] = aCalls[i] \ {p}
        /\ aCalls'[Len(aCalls) + 1] = heap[p].unique \ aScheduledForRemoval
    BY <2>2, <2>3, <2>4, <1>5
  <2>6. ScheduledUnused'
    <3>1. p \in Disposable
      BY <1>7 DEF ShouldClean
    <3>2. \A q \in aScheduledForRemoval \cup {p} : heap[q].out \subseteq aScheduledForRemoval \cup {p}
      BY <1>3, <1>4, <1>7 DEF ScheduledUnused
    <3>3. \A q \in aScheduledForRemoval \cup {p} : heap'[q] = heap[q]
      BY <1>1
    <3> QED BY <3>1, <3>2, <3>3, <2>1, <1>2, <1>3 DEF ScheduledUnused
  <2>7. NothingForgotten'
    <3>1. SUFFICES ASSUME NEW q \in (N \cap Disposable) \ (aScheduledForRemoval \cup {p}),
                          heap[q].out \subseteq aScheduledForRemoval \cup {p}
                   PROVE  \E i \in DOMAIN aCalls' : q \in aCalls'[i]
      BY <1>2, <1>6, <2>1 DEF NothingForgotten
    <3>2. CASE heap[q].out \subseteq aScheduledForRemoval
      <4>1. PICK i \in DOMAIN aCalls : q \in aCalls[i]
        BY <3>2, <1>1, <1>3 DEF NothingForgotten
      <4>2. i \in DOMAIN aCalls' /\ q \in aCalls'[i]
        BY <4>1, <2>5, <1>5
      <4> QED BY <4>2
    <3>3. CASE p \in heap[q].out
      <4>1. q \in heap[p].unique
        BY <3>3, <1>3, GraphFacts
      <4>2. Len(aCalls) + 1 \in DOMAIN aCalls' /\ q \in aCalls'[Len(aCalls) + 1]
        BY <4>1, <2>5, <1>5
      <4> QED BY <4>2
    <3> QED BY <3>1, <3>2, <3>3
  <2> QED BY <1>2, <2>5, <2>6, <2>7 DEF CleanupInv
<1>8. CASE ~ removed
  <2>1. aScheduledForRemoval' = aScheduledForRemoval /\ aCalls' = left
    BY <1>8 DEF CleanNode
  <2>2. /\ left \in Seq(SUBSET N) /\ DOMAIN left = DOMAIN aCalls
        /\ \A i \in DOMAIN aCalls : \A q \in aCalls[i] : q # p => q \in left[i]
    BY <1>3, <1>5
  <2> HIDE DEF left
  <2>3. ScheduledUnused'
    BY <2>1, <1>1, <1>2, <1>3 DEF ScheduledUnused
  <2>4. NothingForgotten'
    <3>1. SUFFICES ASSUME NEW q \in (N \cap Disposable) \ aScheduledForRemoval,
                          heap[q].out \subseteq aScheduledForRemoval
                   PROVE  \E i \in DOMAIN aCalls' : q \in aCalls'[i]
      BY <1>2, <1>6, <2>1 DEF NothingForgotten
    <3>2. q # p
      BY <3>1, <1>4, <1>8 DEF ShouldClean
    <3>3. PICK i \in DOMAIN aCalls : q \in aCalls[i]
      BY <3>1, <1>1, <1>3 DEF NothingForgotten
    <3> QED BY <3>2, <3>3, <2>1, <2>2
  <2> QED BY <1>2, <2>1, <2>2, <2>3, <2>4 DEF CleanupInv
<1> QED BY <1>7, <1>8

\* A call that has come to all its nodes returns: none of them is forgotten.
LEMMA CleanupReturnsInv == CleanupInv /\ CleanupReturns => CleanupInv'
<1> SUFFICES ASSUME CleanupInv, CleanupReturns PROVE CleanupInv'
  OBVIOUS
<1>1. UNCHANGED <<heap, aIdMap, aScheduledForRemoval>> /\ aCalls' = Front(aCalls)
      /\ Len(aCalls) > 1 /\ Last(aCalls) = {}
  BY DEF CleanupReturns
<1>2. GraphOK' /\ Nodes(Graph)' = Nodes(Graph)
  BY <1>1, GraphStays DEF CleanupInv
<1>3. aCalls \in Seq(SUBSET Nodes(Graph)) /\ aCalls # <<>> /\ Len(aCalls) \in Nat
      /\ aCalls[Len(aCalls)] = {} /\ DOMAIN aCalls = 1 .. Len(aCalls)
  BY <1>1 DEF CleanupInv, Last
<1>4. /\ aCalls' \in Seq(SUBSET Nodes(Graph)) /\ DOMAIN aCalls' = 1 .. Len(aCalls) - 1
      /\ \A i \in 1 .. Len(aCalls) - 1 : aCalls'[i] = aCalls[i]
  BY <1>1, <1>3 DEF Front
<1>5. ScheduledUnused'
  BY <1>1, <1>2, <1>3 DEF CleanupInv, ScheduledUnused
<1>6. \A i \in DOMAIN aCalls : aCalls[i] # {} => i \in DOMAIN aCalls' /\ aCalls'[i] = aCalls[i]
  BY <1>3, <1>4
<1>7. NothingForgotten'
  <2>1. SUFFICES ASSUME NEW q \in (Nodes(Graph) \cap Disposable) \ aScheduledForRemoval,
                        heap[q].out \subseteq aScheduledForRemoval
                 PROVE  \E i \in DOMAIN aCalls' : q \in aCalls'[i]
    BY <1>1, <1>2 DEF NothingForgotten
  <2>2. PICK i \in DOMAIN aCalls : q \in aCalls[i]
    BY <2>1, <1>3 DEF CleanupInv, NothingForgotten
  <2> QED BY <2>2, <1>6
<1> QED BY <1>2, <1>4, <1>5, <1>7 DEF CleanupInv

-------------------------------------------------------------------------------
(* What is removed. *)

\* Of some nodes of a graph one was made last.
LEMMA Newest ==
  ASSUME GraphOK, NEW X \in SUBSET Nodes(Graph), X # {}
  PROVE  \E p \in X : \A q \in X : Id(q) <= Id(p)
<1> DEFINE after(p) == {q \in X : Id(p) <= Id(q)}
           afters == {after(p) : p \in X}
<1>1. IsFiniteSet(X)
  BY GraphFacts, FS_Subset
<1>2. \A p \in X : Id(p) \in Nat
  BY GraphFacts
<1>3. FiniteSubsetsOf(X) = SUBSET X
  BY <1>1, FS_FiniteSubsetsOfFinite
<1>4. afters \subseteq SUBSET X /\ afters # {}
  OBVIOUS
<1>5. PICK Y \in afters : \A Z \in afters : ~ (<<Z, Y>> \in StrictSubsetOrdering(X))
  <2> HIDE DEF afters
  <2>1. IsWellFoundedOn(StrictSubsetOrdering(X), FiniteSubsetsOf(X))
    BY FS_StrictSubsetOrderingWellFounded
  <2> QED BY <2>1, <1>3, <1>4, WFMin
<1>6. \A Z \in afters : ~ (Z \subseteq Y /\ Z # Y)
  BY <1>5, <1>4 DEF StrictSubsetOrdering
<1>7. PICK p \in X : Y = after(p)
  BY <1>5
<1>8. ASSUME NEW q \in X, Id(p) < Id(q) PROVE FALSE
  <2>1. after(q) \subseteq after(p)
    BY <1>2, <1>8
  <2>2. p \in after(p) /\ p \notin after(q)
    BY <1>2, <1>8
  <2>3. after(q) \in afters
    OBVIOUS
  <2> QED BY <2>1, <2>2, <2>3, <1>6, <1>7
<1> QED BY <1>2, <1>8

\* When every call has come to all its nodes, what is not scheduled is what has to stay.
LEMMA LeavesNeeded ==
  ASSUME CleanupInv, aCalls = <<{}>>
  PROVE  Nodes(Graph) \ aScheduledForRemoval = Needed
<1> DEFINE N == Nodes(Graph)
           R == N \ aScheduledForRemoval
<1>1. aCalls # <<>> /\ DOMAIN aCalls = {1} /\ aCalls[1] = {}
  OBVIOUS
<1>2. GraphOK /\ ScheduledUnused
  BY <1>1 DEF CleanupInv
<1>3. \A p \in R \cap Disposable : ~ (heap[p].out \subseteq aScheduledForRemoval)
  BY <1>1 DEF CleanupInv, NothingForgotten
<1>4. Needed \subseteq R
  <2>1. R \in SUBSET N /\ N \ Disposable \subseteq R
    BY <1>2 DEF ScheduledUnused
  <2>2. Closed(R)
    <3>1. SUFFICES ASSUME NEW p \in R, NEW q \in heap[p].unique PROVE q \in R
      BY DEF Closed
    <3>2. q \in N /\ p \in heap[q].out
      BY <1>2, GraphFacts
    <3> QED BY <3>2, <1>2 DEF ScheduledUnused
  <2> QED BY <2>1, <2>2 DEF Needed
<1>5. R \subseteq Needed
  <2>1. SUFFICES ASSUME NEW S \in SUBSET N, N \ Disposable \subseteq S, Closed(S), R \ S # {}
                 PROVE  FALSE
    BY DEF Needed
  <2>2. PICK p \in R \ S : \A q \in R \ S : Id(q) <= Id(p)
    <3>1. R \ S \in SUBSET N
      OBVIOUS
    <3> HIDE DEF R, N
    <3> QED BY <2>1, <3>1, <1>2, Newest DEF N
  <2>3. PICK q \in heap[p].out : q \notin aScheduledForRemoval
    BY <2>1, <2>2, <1>3
  <2>4. q \in R /\ p \in heap[q].unique
    BY <2>3, <1>2, GraphFacts
  <2>5. q \notin S
    BY <2>1, <2>2, <2>4 DEF Closed
  <2>6. Id(q) <= Id(p)
    BY <2>2, <2>4, <2>5
  <2>7. Id(p) < Id(q) /\ Id(p) \in Nat /\ Id(q) \in Nat
    BY <2>4, <1>2, GraphFacts DEF GraphOK
  <2> QED BY <2>6, <2>7
<1> QED BY <1>4, <1>5

\* The loop at the end of Cleanup leaves a graph again, of the nodes that are not scheduled,
\* and nothing else is changed.
LEMMA RemoveScheduledFine ==
  ASSUME CleanupInv, RemoveScheduled(Graph)
  PROVE  /\ GraphOK' /\ Nodes(Graph)' = Nodes(Graph) \ aScheduledForRemoval
         /\ \A p \in DOMAIN heap \ Nodes(Graph) : heap'[p] = heap[p]
         /\ \A g \in DOMAIN aIdMap \ {Graph} : aIdMap'[g] = aIdMap[g]
<1> DEFINE N == Nodes(Graph)
           R == N \ aScheduledForRemoval
           left == {i \in DOMAIN aIdMap[Graph] : aIdMap[Graph][i] \notin aScheduledForRemoval}
<1>1. /\ aCalls = <<{}>>
      /\ heap' = [p \in DOMAIN heap |-> Untied(p)]
      /\ aIdMap' = [aIdMap EXCEPT ![Graph] = [id \in left |-> aIdMap[Graph][id]]]
      /\ aScheduledForRemoval' = aScheduledForRemoval
  BY DEF RemoveScheduled
<1>2. GraphOK /\ ScheduledUnused
  <2>1. aCalls # <<>>
    BY <1>1
  <2> QED BY <2>1 DEF CleanupInv
<1>3. /\ aIdMap'[Graph] = [id \in left |-> aIdMap[Graph][id]]
      /\ DOMAIN aIdMap' = DOMAIN aIdMap /\ aIdMap' = [g \in DOMAIN aIdMap' |-> aIdMap'[g]]
      /\ \A g \in DOMAIN aIdMap \ {Graph} : aIdMap'[g] = aIdMap[g]
  BY <1>1, <1>2 DEF GraphOK
<1>4. Nodes(Graph)' = R
  <2>1. Nodes(Graph)' = {aIdMap[Graph][id] : id \in left}
    BY <1>3 DEF Nodes
  <2>2. N = {aIdMap[Graph][id] : id \in DOMAIN aIdMap[Graph]}
    BY DEF Nodes
  <2> QED BY <2>1, <2>2
<1>5. ASSUME NEW p \in DOMAIN heap \ N PROVE heap'[p] = heap[p]
  <2>1. p \notin aScheduledForRemoval
    BY <1>5, <1>2 DEF ScheduledUnused
  <2>2. ChildrenRemoved(p) = {}
    BY <1>5, <1>2, GraphFacts DEF ChildrenRemoved, ScheduledUnused
  <2>3. heap'[p] = [heap[p] EXCEPT !.out = heap[p].out \ {}]
    BY <2>1, <2>2, <1>1 DEF Untied
  <2>4. heap[p].out \ {} = heap[p].out
    OBVIOUS
  <2>5. heap[p] = [f \in {"op", "v", "in", "unique", "out"} |-> heap[p][f]]
    BY <1>2 DEF GraphOK
  <2>6. heap'[p] = [heap[p] EXCEPT !.out = heap[p].out]
    BY <2>3, <2>4
  <2>7. [heap[p] EXCEPT !.out = heap[p].out] = heap[p]
    BY <2>5
  <2> QED BY <2>6, <2>7
<1>6. ASSUME NEW p \in R
      PROVE  /\ heap'[p].unique = heap[p].unique /\ heap'[p].in = heap[p].in
             /\ heap'[p].out = heap[p].out \ aScheduledForRemoval
  <2>1. p \in DOMAIN heap /\ DOMAIN heap[p] = {"op", "v", "in", "unique", "out"}
    BY <1>2 DEF GraphOK
  <2>2. heap'[p] = [heap[p] EXCEPT !.out = @ \ ChildrenRemoved(p)]
    BY <2>1, <1>1 DEF Untied
  <2>3. heap[p].out \ ChildrenRemoved(p) = heap[p].out \ aScheduledForRemoval
    BY <1>2, GraphFacts DEF ChildrenRemoved, ScheduledUnused
  <2> QED BY <2>1, <2>2, <2>3
<1>7. DOMAIN aIdMap'[Graph] = left /\ left \in SUBSET Nat /\ IsFiniteSet(left)
  <2>1. DOMAIN aIdMap[Graph] \in SUBSET Nat /\ IsFiniteSet(DOMAIN aIdMap[Graph])
    BY <1>2 DEF GraphOK
  <2>2. left \in SUBSET DOMAIN aIdMap[Graph]
    OBVIOUS
  <2>3. IsFiniteSet(left)
    BY <2>1, <2>2, FS_Subset
  <2> QED BY <2>1, <2>2, <2>3, <1>3
<1>8. Tied(Graph)'
  <2>1. SUFFICES ASSUME NEW id \in left
                 PROVE  LET p == aIdMap'[Graph][id]
                            n == heap'[p]
                        IN  /\ p = <<Graph, id>>
                            /\ n.unique = ToSet(n.in) /\ n.unique \subseteq Nodes(Graph)'
                            /\ n.out = {q \in Nodes(Graph)' : p \in heap'[q].unique}
    BY <1>7 DEF Tied
  <2>2. PICK p : p = aIdMap[Graph][id]
    OBVIOUS
  <2>3. p \in R /\ aIdMap'[Graph][id] = p /\ p = <<Graph, id>>
    BY <2>2, <1>2, <1>3 DEF Nodes, GraphOK, Tied
  <2>4. heap'[p].unique = ToSet(heap'[p].in)
    BY <2>3, <1>2, <1>6, GraphFacts
  <2>5. heap[p].unique \subseteq R
    <3>1. SUFFICES ASSUME NEW q \in heap[p].unique PROVE q \in R
      OBVIOUS
    <3>2. q \in N /\ p \in heap[q].out
      BY <2>3, <1>2, GraphFacts
    <3> QED BY <3>2, <2>3, <1>2 DEF ScheduledUnused
  <2>6. heap'[p].out = {q \in R : p \in heap'[q].unique}
    <3>1. heap[p].out = {q \in N : p \in heap[q].unique}
      BY <2>3, <1>2, GraphFacts
    <3>2. \A q \in R : heap'[q].unique = heap[q].unique
      BY <1>6
    <3> QED BY <3>1, <3>2, <2>3, <1>6
  <2> HIDE DEF R
  <2> QED BY <2>3, <2>4, <2>5, <2>6, <1>4, <1>6
<1>9. GraphOK'
  <2>1. Graph \in DOMAIN aIdMap'
    BY <1>2, <1>3 DEF GraphOK
  <2>2. Nodes(Graph)' \subseteq DOMAIN heap'
    BY <1>1, <1>2, <1>4 DEF GraphOK
  <2>3. ASSUME NEW p \in DOMAIN heap'
        PROVE  heap'[p] = [f \in {"op", "v", "in", "unique", "out"} |-> heap'[p][f]]
    <3>1. heap'[p] = Untied(p) /\ DOMAIN heap[p] = {"op", "v", "in", "unique", "out"}
      BY <1>1, <1>2 DEF GraphOK
    <3> QED BY <3>1 DEF Untied
  <2>4. \A p \in Nodes(Graph)' : \A q \in heap'[p].unique : Id(q) < Id(p)
    BY <1>2, <1>4, <1>6 DEF GraphOK
  <2> QED BY <2>1, <2>2, <2>3, <2>4, <1>3, <1>7, <1>8 DEF GraphOK, Id
<1> QED BY <1>3, <1>4, <1>5, <1>9

\* Every step of a cleanup keeps the invariant.
LEMMA CleanupInvStep == CleanupInv /\ [CleanupNext]_cleanupVars => CleanupInv'
<1> SUFFICES ASSUME CleanupInv, [CleanupNext]_cleanupVars PROVE CleanupInv'
  OBVIOUS
<1>1. CASE StartCleanup(Graph)
  BY <1>1, StartCleanupInv
<1>2. CASE \E p \in Nodes(Graph) : CleanNode(ShouldClean, p)
  BY <1>2, CleanNodeInv
<1>3. CASE CleanupReturns
  BY <1>3, CleanupReturnsInv
<1>4. CASE RemoveScheduled(Graph)
  <2>1. GraphOK' /\ aCalls' = <<>>
    BY <1>4, RemoveScheduledFine DEF RemoveScheduled
  <2> QED BY <2>1 DEF CleanupInv, NothingForgotten
<1>5. CASE UNCHANGED cleanupVars
  BY <1>5, GraphStays DEF cleanupVars, CleanupInv, ScheduledUnused, NothingForgotten
<1> QED BY <1>1, <1>2, <1>3, <1>4, <1>5 DEF CleanupNext

\* Cleanup (Broker.cpp) leaves exactly the nodes that are to be kept and what these are
\* computed from, tied together, whatever the order in which it comes to the nodes, how often
\* it comes to one and however deep its calls are; other graphs are as they were.
THEOREM CleanupLeavesNeeded ==
  CleanupSpec =>
    [][RemoveScheduled(Graph) =>
         /\ Nodes(Graph)' = Needed /\ Tied(Graph)'
         /\ \A p \in DOMAIN heap \ Nodes(Graph) : heap'[p] = heap[p]
         /\ \A g \in DOMAIN aIdMap \ {Graph} : aIdMap'[g] = aIdMap[g]]_cleanupVars
<1> DEFINE Exact == RemoveScheduled(Graph) =>
                      /\ Nodes(Graph)' = Needed /\ Tied(Graph)'
                      /\ \A p \in DOMAIN heap \ Nodes(Graph) : heap'[p] = heap[p]
                      /\ \A g \in DOMAIN aIdMap \ {Graph} : aIdMap'[g] = aIdMap[g]
<1>1. CleanupInv => Exact
  <2>1. SUFFICES ASSUME CleanupInv, RemoveScheduled(Graph) PROVE Exact
    OBVIOUS
  <2>2. Nodes(Graph) \ aScheduledForRemoval = Needed
    BY <2>1, LeavesNeeded DEF RemoveScheduled
  <2> QED BY <2>1, <2>2, RemoveScheduledFine DEF GraphOK
<1>2. CleanupInv /\ [CleanupNext]_cleanupVars => [Exact]_cleanupVars
  BY <1>1
<1> HIDE DEF Exact
<1>3. CleanupSpec => [][Exact]_cleanupVars
  BY <1>2, CleanupInvInit, CleanupInvStep, PTL DEF CleanupSpec
<1> QED BY <1>3 DEF Exact

-------------------------------------------------------------------------------
(* The search. *)

\* Quotient and remainder are determined by what they make.
LEMMA DivisionUnique ==
  ASSUME NEW b \in Nat \ {0}, NEW x \in Int, NEW y \in Int, NEW r \in 0 .. b - 1, NEW s \in 0 .. b - 1,
         b * x + r = b * y + s
  PROVE  x = y /\ r = s
<1>1. ASSUME NEW d \in Int, d >= 1 PROVE b * d >= b
  <2>1. PICK k \in Nat : d = k + 1
    BY <1>1
  <2>2. b * (k + 1) = b * k + b /\ b * k >= 0
    OBVIOUS
  <2> QED BY <2>1, <2>2
<1>2. b * (x - y) = b * x - b * y /\ b * (y - x) = b * y - b * x
  OBVIOUS
<1>3. PICK bx \in Int, by \in Int, up \in Int, down \in Int :
        bx = b * x /\ by = b * y /\ up = b * (x - y) /\ down = b * (y - x)
  OBVIOUS
<1>4. ~ (x - y >= 1)
  BY <1>1, <1>2, <1>3
<1>5. ~ (y - x >= 1)
  BY <1>1, <1>2, <1>3
<1> QED BY <1>4, <1>5

\* The entry of a code node and its place in it tell it from the others.
LEMMA Places ==
  ASSUME NEW c \in Nat
  PROVE  /\ c \div Block \in Nat /\ c % Block \in 0 .. Block - 1
         /\ c = Block * (c \div Block) + (c % Block)
BY SearchAssumption

\* The bit that Flag sets in an old entry is the place of the node, or beyond all places.
LEMMA WidePlaces ==
  ASSUME NEW c \in Nat
  PROVE  c % (2 * Block) = c % Block \/ c % (2 * Block) >= Block
<1> DEFINE b == 2 * Block
           q == c \div b
           r == c % b
<1>1. b \in Nat \ {0} /\ Block \in Nat \ {0}
  BY SearchAssumption
<1>2. q \in Nat /\ r \in 0 .. b - 1 /\ c = b * q + r
  <2> HIDE DEF b
  <2> QED BY <1>1
<1> HIDE DEF q, r
<1>3. SUFFICES ASSUME r < Block PROVE r = c % Block
  BY <1>1, <1>2
<1>4. r \in 0 .. Block - 1 /\ 2 * q \in Int
  BY <1>1, <1>2, <1>3
<1>5. b * q = Block * (2 * q)
  BY <1>1, <1>2
<1>6. Block * (2 * q) + r = Block * (c \div Block) + (c % Block)
  BY <1>2, <1>5, Places
<1>7. PICK x, y, s : x = 2 * q /\ y = c \div Block /\ s = c % Block
  OBVIOUS
<1>8. x \in Int /\ y \in Int /\ s \in 0 .. Block - 1 /\ Block * x + r = Block * y + s
  BY <1>4, <1>6, <1>7, Places
<1>9. r = s
  BY <1>1, <1>4, <1>8, DivisionUnique
<1> QED BY <1>7, <1>9

(* Loops.  What a loop leaves is the last value of a recursive function,   *)
(* which exists, and has the properties of the first value that each round *)
(* keeps, by the smallest number for which it is not so.                   *)

\* Every nonempty set of natural numbers has a smallest element.
LEMMA Smallest == ASSUME NEW T \in SUBSET Nat, T # {} PROVE \E x \in T : \A y \in T : x <= y
<1>1. PICK n \in T : TRUE
  OBVIOUS
<1> DEFINE below == 0 .. n
           starts == {0 .. m : m \in {k \in T : k <= n}}
<1>2. IsFiniteSet(below)
  BY FS_Interval
<1>3. FiniteSubsetsOf(below) = SUBSET below
  BY <1>2, FS_FiniteSubsetsOfFinite
<1>4. starts \subseteq SUBSET below /\ 0 .. n \in starts
  BY <1>1
<1> HIDE DEF below, starts
<1>5. IsWellFoundedOn(StrictSubsetOrdering(below), FiniteSubsetsOf(below))
  BY FS_StrictSubsetOrderingWellFounded
<1>6. PICK X \in starts : \A Y \in starts : ~ (<<Y, X>> \in StrictSubsetOrdering(below))
  BY <1>3, <1>4, <1>5, WFMin
<1>7. \A Y \in starts : ~ (Y \subseteq X /\ X # Y)
  BY <1>6, <1>4 DEF StrictSubsetOrdering
<1>8. PICK m \in T : m <= n /\ X = 0 .. m
  BY <1>6 DEF starts
<1>9. ASSUME NEW y \in T, y < m PROVE FALSE
  <2>1. y <= n
    BY <1>8, <1>9, <1>1
  <2>2. 0 .. y \in starts
    BY <2>1 DEF starts
  <2>3. 0 .. y \subseteq X /\ m \notin 0 .. y /\ m \in 0 .. m
    BY <1>8, <1>9
  <2> QED BY <2>2, <2>3, <1>7, <1>8
<1> QED BY <1>8, <1>9

\* What is so at first, and still so after a round if it was before, is so after every round.
LEMMA LoopKeeps ==
  ASSUME NEW n \in Nat, NEW G, NEW f, f[0] \in G,
         \A k \in 1 .. n : f[k - 1] \in G => f[k] \in G
  PROVE  \A k \in 0 .. n : f[k] \in G
<1> DEFINE T == {k \in 0 .. n : f[k] \notin G}
<1>1. SUFFICES ASSUME T # {} PROVE FALSE
  OBVIOUS
<1>2. PICK k \in T : \A y \in T : k <= y
  <2>1. T \in SUBSET Nat
    OBVIOUS
  <2> HIDE DEF T
  <2> QED BY <1>1, <2>1, Smallest
<1>3. k \in 1 .. n /\ k - 1 \in 0 .. n /\ ~ (k <= k - 1)
  OBVIOUS
<1>4. k - 1 \notin T
  <2> HIDE DEF T
  <2> QED BY <1>2, <1>3
<1> QED BY <1>3, <1>4

\* n rounds from start, where round k makes F[<<k, x>>] of x, and the values that they leave
Loop(n, G, start, F) == n \in Nat /\ start \in G /\ F \in [(1 .. n) \X G -> G]
Runs(n, G, start, F, f) ==
  f \in [0 .. n -> G] /\ f[0] = start /\ \A k \in 1 .. n : f[k] = F[<<k, f[k - 1]>>]

\* There are such values.
LEMMA LoopRuns ==
  ASSUME NEW n, NEW G, NEW start, NEW F, Loop(n, G, start, F)
  PROVE  \E f : Runs(n, G, start, F, f)
<1>0. n \in Nat /\ start \in G /\ F \in [(1 .. n) \X G -> G]
  BY DEF Loop
<1> DEFINE Run(f, m) == f[0] = start /\ \A k \in 1 .. m : f[k] = F[<<k, f[k - 1]>>]
           T == {m \in 0 .. n : ~ \E f \in [0 .. m -> G] : Run(f, m)}
<1>1. SUFFICES ASSUME T # {} PROVE FALSE
  BY <1>0 DEF Runs
<1>2. PICK m \in T : \A y \in T : m <= y
  <2>1. T \in SUBSET Nat
    BY <1>0
  <2> HIDE DEF T
  <2> QED BY <1>1, <2>1, Smallest
<1>3. m \in 0 .. n /\ ~ \E f \in [0 .. m -> G] : Run(f, m)
  BY <1>0
<1>4. m # 0
  <2>1. ASSUME m = 0 PROVE FALSE
    <3>1. [k \in 0 .. 0 |-> start] \in [0 .. m -> G] /\ Run([k \in 0 .. 0 |-> start], m)
      BY <1>0, <2>1
    <3> HIDE DEF Run
    <3> QED BY <1>3, <3>1
  <2> QED BY <2>1
<1>5. n \in Nat /\ m - 1 \in 0 .. n /\ m \in 1 .. n /\ ~ (m <= m - 1)
  BY <1>0, <1>3, <1>4
<1>6. PICK f \in [0 .. m - 1 -> G] : Run(f, m - 1)
  <2>1. m - 1 \notin T
    <3> HIDE DEF T
    <3> QED BY <1>2, <1>5
  <2> QED BY <2>1, <1>5
<1> DEFINE g == [k \in 0 .. m |-> IF k = m THEN F[<<m, f[m - 1]>>] ELSE f[k]]
<1>7. f[m - 1] \in G /\ F[<<m, f[m - 1]>>] \in G
  BY <1>0, <1>5
<1>8. g \in [0 .. m -> G]
  BY <1>5, <1>7
<1>9. Run(g, m)
  <2>1. g[0] = start
    BY <1>5, <1>6
  <2>2. ASSUME NEW k \in 1 .. m PROVE g[k] = F[<<k, g[k - 1]>>]
    <3>1. g[k - 1] = f[k - 1]
      BY <1>5
    <3>2. CASE k = m
      <4>1. m \in 0 .. m /\ g[m] = F[<<m, f[m - 1]>>]
        BY <1>5
      <4> HIDE DEF g
      <4> QED BY <3>1, <3>2, <4>1
    <3>3. CASE k # m
      <4>1. k \in 1 .. m - 1 /\ g[k] = f[k]
        BY <3>3, <1>5
      <4> QED BY <3>1, <4>1, <1>6
    <3> QED BY <3>2, <3>3
  <2> QED BY <2>1, <2>2
<1> HIDE DEF g, Run
<1> QED BY <1>3, <1>8, <1>9

(* The matrix. *)

Numbers == 0 .. 3   \* Unexplored .. Valid
Matrices == UNION {[K -> [0 .. Block - 1 -> Numbers]] : K \in SUBSET (Nat \X Nat)}

\* A matrix is one by its domain and its rows.
LEMMA MatrixFacts ==
  /\ \A m \in Matrices : /\ DOMAIN m \subseteq Nat \X Nat /\ m = [k \in DOMAIN m |-> m[k]]
                         /\ \A k \in DOMAIN m : m[k] \in [0 .. Block - 1 -> Numbers]
  /\ \A m : /\ m = [k \in DOMAIN m |-> m[k]] /\ DOMAIN m \subseteq Nat \X Nat
            /\ \A k \in DOMAIN m : m[k] \in [0 .. Block - 1 -> Numbers]
            => m \in Matrices
<1>1. ASSUME NEW m \in Matrices
      PROVE  /\ DOMAIN m \subseteq Nat \X Nat /\ m = [k \in DOMAIN m |-> m[k]]
             /\ \A k \in DOMAIN m : m[k] \in [0 .. Block - 1 -> Numbers]
  <2>1. PICK K \in SUBSET (Nat \X Nat) : m \in [K -> [0 .. Block - 1 -> Numbers]]
    BY DEF Matrices
  <2> QED BY <2>1
<1>2. ASSUME NEW m, m = [k \in DOMAIN m |-> m[k]], DOMAIN m \subseteq Nat \X Nat,
             \A k \in DOMAIN m : m[k] \in [0 .. Block - 1 -> Numbers]
      PROVE  m \in Matrices
  <2>1. m \in [DOMAIN m -> [0 .. Block - 1 -> Numbers]]
    BY <1>2
  <2> QED BY <1>2, <2>1 DEF Matrices
<1> QED BY <1>1, <1>2

\* No pair of a signature node outside E has become Valid.
OnlyValidIn(E, old, m) ==
  \A e \in Nat \ E, c \in Nat : GetAssignment(m, e, c) = Valid => GetAssignment(old, e, c) = Valid

\* Assign keeps a matrix one, and makes a pair Valid only if it is told to.
LEMMA AssignFine ==
  ASSUME NEW m \in Matrices, NEW e \in Nat, NEW c \in Nat, NEW type \in Numbers, NEW keep \in BOOLEAN
  PROVE  /\ Assign(m, e, c, type, keep) \in Matrices
         /\ \A E : (type = Valid => e \in E) => OnlyValidIn(E, m, Assign(m, e, c, type, keep))
<1> DEFINE key == <<e, c \div Block>>
           place == c % Block
           row == IF key \in DOMAIN m THEN [m[key] EXCEPT ![place] = type]
                  ELSE [i \in 0 .. Block - 1 |-> IF i = place THEN type ELSE Unexplored]
           written == [k \in DOMAIN m \cup {key} |-> IF k = key THEN row ELSE m[k]]
           erased == [k \in DOMAIN m \ {key} |-> m[k]]
           new == Assign(m, e, c, type, keep)
<1>1. new \in {written, erased}
  BY DEF Assign, Without
<1>2. key \in Nat \X Nat /\ place \in 0 .. Block - 1
  BY Places
<1>3. row \in [0 .. Block - 1 -> Numbers]
  <2> HIDE DEF key, place
  <2>1. CASE key \in DOMAIN m
    <3>1. m[key] \in [0 .. Block - 1 -> Numbers]
      BY <2>1, MatrixFacts
    <3> QED BY <2>1, <3>1
  <2>2. CASE key \notin DOMAIN m
    <3>1. Unexplored \in Numbers
      BY DEF Unexplored, Numbers
    <3> QED BY <2>2, <3>1
  <2> QED BY <2>1, <2>2
<1>4. new \in Matrices
  <2> HIDE DEF row, new, key
  <2>1. written \in Matrices
    BY <1>2, <1>3, MatrixFacts
  <2>2. erased \in Matrices
    BY MatrixFacts
  <2> QED BY <1>1, <2>1, <2>2
<1>5. ASSUME NEW E, type = Valid => e \in E, NEW e2 \in Nat \ E, NEW c2 \in Nat,
             GetAssignment(new, e2, c2) = Valid
      PROVE  GetAssignment(m, e2, c2) = Valid
  <2> DEFINE key2 == <<e2, c2 \div Block>>
  <2>1. key2 \in DOMAIN new /\ new[key2][c2 % Block] = Valid
    BY <1>5 DEF GetAssignment, Valid, Unexplored
  <2>2. CASE key2 # key
    <3>1. key2 \in DOMAIN m /\ new[key2] = m[key2]
      <4> HIDE DEF key, key2, row, new
      <4> QED BY <1>1, <2>1, <2>2
    <3> QED BY <2>1, <3>1 DEF GetAssignment
  <2>3. CASE key2 = key
    <3>1. new = written /\ new[key2] = row
      <4> HIDE DEF key, key2, row, new
      <4> QED BY <1>1, <2>1, <2>3
    <3>2. e2 = e /\ type # Valid
      BY <2>3, <1>5
    <3>3. key \in DOMAIN m /\ m[key][c2 % Block] = Valid
      <4>1. PICK p2 : p2 = c2 % Block
        OBVIOUS
      <4>2. p2 \in 0 .. Block - 1
        BY <4>1, Places
      <4>3. row[p2] = Valid
        BY <2>1, <3>1, <4>1
      <4>4. key \in DOMAIN m => DOMAIN m[key] = 0 .. Block - 1
        BY MatrixFacts
      <4> HIDE DEF key, place
      <4> QED BY <4>1, <4>2, <4>3, <4>4, <3>2 DEF Valid, Unexplored
    <3> QED BY <2>3, <3>3 DEF GetAssignment
  <2> QED BY <2>2, <2>3
<1> QED BY <1>4, <1>5 DEF OnlyValidIn

\* What is made Valid is that or was so.
LEMMA OnlyValidFacts ==
  ASSUME NEW E, NEW m1, NEW m2, NEW m3
  PROVE  /\ OnlyValidIn(E, m1, m1)
         /\ OnlyValidIn(E, m1, m2) /\ OnlyValidIn(E, m2, m3) => OnlyValidIn(E, m1, m3)
BY DEF OnlyValidIn

\* Assigning Undefined takes an assignment of Valid back.
LEMMA AssignUndone ==
  ASSUME NEW m \in Matrices, NEW e \in Nat, NEW c \in Nat, GetAssignment(m, e, c) = Undefined
  PROVE  Assign(Assign(m, e, c, Valid, FALSE), e, c, Undefined, FALSE) = m
<1> DEFINE key == <<e, c \div Block>>
           place == c % Block
           valid == [m[key] EXCEPT ![place] = Valid]
           undone == [valid EXCEPT ![place] = Undefined]
<1>1. key \in DOMAIN m /\ m[key][place] = Undefined /\ place \in 0 .. Block - 1
  BY Places DEF GetAssignment, Undefined, Unexplored
<1>2. m[key] \in [0 .. Block - 1 -> Numbers] /\ m = [k \in DOMAIN m |-> m[k]]
  BY <1>1, MatrixFacts
<1> HIDE DEF key, place
<1>3. valid[place] = Valid /\ DOMAIN valid = 0 .. Block - 1 /\ undone[place] = Undefined
      /\ DOMAIN undone = 0 .. Block - 1
  BY <1>1, <1>2
<1>4. ~ Dead(valid) /\ ~ Dead(undone)
  BY <1>1, <1>3 DEF Dead, IsCandidateType
<1>5. undone = m[key]
  BY <1>1, <1>2
<1> HIDE DEF valid, undone
<1>6. Assign(m, e, c, Valid, FALSE) = [k \in DOMAIN m |-> IF k = key THEN valid ELSE m[k]]
  <2>1. DOMAIN m \cup {key} = DOMAIN m
    BY <1>1
  <2> QED BY <1>1, <1>4, <2>1 DEF Assign, key, place, valid
<1> DEFINE m2 == [k \in DOMAIN m |-> IF k = key THEN valid ELSE m[k]]
<1>7. DOMAIN m2 = DOMAIN m /\ m2[key] = valid
  BY <1>1
<1>8. Assign(m2, e, c, Undefined, FALSE) = [k \in DOMAIN m |-> IF k = key THEN undone ELSE m2[k]]
  <2>1. DOMAIN m2 \cup {key} = DOMAIN m
    BY <1>1, <1>7
  <2>2. [m2[key] EXCEPT ![place] = Undefined] = undone
    BY <1>7 DEF undone
  <2> HIDE DEF m2
  <2> QED BY <1>1, <1>4, <1>7, <2>1, <2>2 DEF Assign, key, place
<1>9. \A k \in DOMAIN m : (IF k = key THEN undone ELSE m2[k]) = m[k]
  BY <1>5
<1> QED BY <1>2, <1>6, <1>8, <1>9

(* Candidates. *)

\* The code nodes are finitely many numbers.
CodeGiven == CodeNodes \in SUBSET Nat /\ IsFiniteSet(CodeNodes)

\* The first of some candidates is one of them.
LEMMA LeastFine ==
  ASSUME CodeGiven
  PROVE  /\ \A ids \in SUBSET CodeNodes : Least(ids) # NoNode => Least(ids) \in ids
         /\ \A m, e : /\ FirstCandidate(m, e) \in CodeNodes \cup {NoNode}
                      /\ FirstCandidate(m, e) # NoNode => FirstCandidate(m, e) \in Candidates(m, e)
         /\ \A m, e, c : NextCandidate(m, e, c) \in CodeNodes \cup {NoNode}
<1>1. ASSUME NEW ids \in SUBSET CodeNodes PROVE Least(ids) # NoNode => Least(ids) \in ids
  <2>1. SUFFICES ASSUME ids # {} PROVE Min(ids) \in ids
    BY DEF Least
  <2>2. ids \in SUBSET Nat
    BY <1>1 DEF CodeGiven
  <2>3. PICK x \in ids : \A y \in ids : x <= y
    BY <2>1, <2>2, Smallest
  <2> QED BY <2>3 DEF Min
<1>2. ASSUME NEW m, NEW e
      PROVE  /\ FirstCandidate(m, e) \in CodeNodes \cup {NoNode}
             /\ FirstCandidate(m, e) # NoNode => FirstCandidate(m, e) \in Candidates(m, e)
  <2>1. Candidates(m, e) \in SUBSET CodeNodes
    BY DEF Candidates
  <2> QED BY <1>1, <2>1 DEF FirstCandidate
<1>3. ASSUME NEW m, NEW e, NEW c PROVE NextCandidate(m, e, c) \in CodeNodes \cup {NoNode}
  <2>1. After(m, e, c) \in SUBSET CodeNodes
    BY DEF After, Candidates
  <2> QED BY <1>1, <2>1 DEF NextCandidate
<1> QED BY <1>1, <1>2, <1>3

(* Taken nodes. *)

\* To flag and unflag a node changes no other node's test; after it is unflagged it is not taken.
LEMMA FlagFine ==
  ASSUME NEW flags, NEW c \in Nat, NEW x \in Nat
  PROVE  /\ x # c => (IsAssigned(Flag(flags, c), x) <=> IsAssigned(flags, x))
         /\ IsAssigned(Unflag(flags, c), x) <=> IsAssigned(flags, x) /\ x # c
<1>1. PICK i, j, p, q, w : /\ i = c \div Block /\ p = c % Block /\ j = x \div Block /\ q = x % Block
                           /\ w = c % (2 * Block)
  OBVIOUS
<1>2. /\ p \in 0 .. Block - 1 /\ q \in 0 .. Block - 1 /\ i \in Nat /\ j \in Nat
      /\ c = Block * i + p /\ x = Block * j + q
  BY <1>1, Places
<1>3. i = j /\ p = q => x = c
  BY <1>2
<1>4. w = p \/ w >= Block
  BY <1>1, WidePlaces
<1>5. w # q \/ p = q
  BY <1>2, <1>4, SearchAssumption
<1>6. ASSUME x # c PROVE IsAssigned(Flag(flags, c), x) <=> IsAssigned(flags, x)
  <2>1. CASE j # i
    BY <1>1, <2>1 DEF IsAssigned, Flag
  <2>2. CASE j = i
    <3>1. p # q /\ w # q
      BY <1>3, <1>5, <1>6, <2>2
    <3>2. Flag(flags, c)[i] = IF i \in DOMAIN flags THEN flags[i] \cup {w} ELSE {p}
      BY <1>1 DEF Flag
    <3>3. i \in DOMAIN Flag(flags, c)
      BY <1>1 DEF Flag
    <3>4. q \in Flag(flags, c)[i] <=> i \in DOMAIN flags /\ q \in flags[i]
      BY <3>1, <3>2
    <3> QED BY <1>1, <2>2, <3>3, <3>4 DEF IsAssigned
  <2> QED BY <2>1, <2>2
<1>7. IsAssigned(Unflag(flags, c), x) <=> IsAssigned(flags, x) /\ x # c
  <2>1. DOMAIN Unflag(flags, c) = DOMAIN flags
    BY DEF Unflag
  <2>2. j \in DOMAIN flags => Unflag(flags, c)[j] = IF j = i THEN flags[j] \ {p} ELSE flags[j]
    BY <1>1 DEF Unflag
  <2>3. x = c => i = j /\ p = q
    BY <1>1
  <2> QED BY <1>1, <1>3, <2>1, <2>2, <2>3 DEF IsAssigned
<1> QED BY <1>6, <1>7

(* The loops of the search keep it one, and make nothing Valid but what    *)
(* they are told to.                                                       *)

\* A search that has made no pair Valid outside E since its matrix was m
Searches(E, m) == [m : {x \in Matrices : OnlyValidIn(E, m, x)}, t : Int, skipped : BOOLEAN]

LEMMA SearchFacts ==
  ASSUME NEW E, NEW m0, NEW st \in Searches(E, m0)
  PROVE  /\ st.m \in Matrices /\ OnlyValidIn(E, m0, st.m) /\ st.t \in Int /\ st.skipped \in BOOLEAN
         /\ Tick(st) \in Searches(E, m0)
         /\ \A e \in Nat, c \in Nat, type \in Numbers :
              (type = Valid => e \in E) => Assign(st.m, e, c, type, FALSE) \in {x \in Matrices : OnlyValidIn(E, m0, x)}
<1>1. st.m \in Matrices /\ OnlyValidIn(E, m0, st.m) /\ st.t \in Int /\ st.skipped \in BOOLEAN
  BY DEF Searches
<1>2. Tick(st) \in Searches(E, m0)
  BY DEF Searches, Tick
<1>3. ASSUME NEW e \in Nat, NEW c \in Nat, NEW type \in Numbers, type = Valid => e \in E
      PROVE  Assign(st.m, e, c, type, FALSE) \in {x \in Matrices : OnlyValidIn(E, m0, x)}
  <2>1. Assign(st.m, e, c, type, FALSE) \in Matrices
    BY <1>1, <1>3, AssignFine
  <2>2. OnlyValidIn(E, st.m, Assign(st.m, e, c, type, FALSE))
    BY <1>1, <1>3, AssignFine
  <2> QED BY <1>1, <2>1, <2>2, OnlyValidFacts
<1> QED BY <1>1, <1>2, <1>3

\* The candidates of a pair loop over the code nodes.
LEMMA RetypeFine ==
  ASSUME CodeGiven, NEW E, NEW m0, NEW st \in Searches(E, m0), NEW e \in Nat, NEW valid, NEW keep,
         valid = {} \/ e \in E
  PROVE  Retype(st, e, valid, keep) \in Searches(E, m0)
<1> DEFINE G == [st : Searches(E, m0), c : CodeNodes \cup {NoNode}]
           n == Cardinality(CodeNodes)
           start == [st |-> st, c |-> FirstCandidate(st.m, e)]
           Round(s) == RetypeCandidate(s, e, valid, keep)
           F == [x \in (1 .. n) \X G |-> Round(x[2])]
           Defined(f) == f = [k \in 0 .. n |-> IF k = 0 THEN start ELSE Round(f[k - 1])]
           after == CHOOSE f : Defined(f)
<1>1. n \in Nat
  BY FS_CardinalityType DEF CodeGiven
<1>2. start \in G
  BY LeastFine
<1>3. ASSUME NEW s \in G PROVE Round(s) \in G
  <2>1. CASE s.c = NoNode
    BY <2>1 DEF RetypeCandidate
  <2>2. CASE s.c # NoNode
    <3> DEFINE type == IF s.c \in valid THEN Valid ELSE Invalid
               m == IF s.c \in keep THEN s.st.m ELSE Assign(s.st.m, e, s.c, type, FALSE)
    <3>1. s.st \in Searches(E, m0) /\ s.c \in Nat
      BY <2>2 DEF CodeGiven
    <3>2. type \in Numbers /\ (type = Valid => e \in E)
      BY DEF Numbers, Valid, Invalid
    <3> HIDE DEF type
    <3>3. m \in {x \in Matrices : OnlyValidIn(E, m0, x)}
      BY <3>1, <3>2, SearchFacts
    <3>4. Round(s) = [st |-> [s.st EXCEPT !.m = m, !.skipped = @ \/ Skips(m, e, s.c)],
                      c |-> NextCandidate(m, e, s.c)]
      BY <2>2 DEF RetypeCandidate, type
    <3> HIDE DEF m
    <3>5. [s.st EXCEPT !.m = m, !.skipped = @ \/ Skips(m, e, s.c)] \in Searches(E, m0)
      BY <3>1, <3>3 DEF Searches
    <3>6. NextCandidate(m, e, s.c) \in CodeNodes \cup {NoNode}
      BY LeastFine
    <3> QED BY <3>4, <3>5, <3>6
  <2> QED BY <2>1, <2>2
<1>4. Retype(st, e, valid, keep) = after[n].st
  BY DEF Retype
<1> HIDE DEF G, n, start, Round
<1>5. Loop(n, G, start, F)
  BY <1>1, <1>2, <1>3 DEF Loop
<1>6. \E f : Defined(f)
  <2> HIDE DEF F
  <2>1. PICK f : Runs(n, G, start, F, f)
    <3> HIDE DEF Defined, after
    <3> QED BY <1>5, LoopRuns
  <2>2. \A k \in 1 .. n : <<k, f[k - 1]>> \in (1 .. n) \X G
    BY <1>1, <2>1 DEF Runs
  <2>3. \A k \in 1 .. n : f[k] = Round(f[k - 1])
    BY <2>1, <2>2 DEF F, Runs
  <2> QED BY <1>1, <2>1, <2>3 DEF Runs
<1>7. Defined(after)
  <2> HIDE DEF Defined
  <2> QED BY <1>6
<1>8. after[0] = start /\ \A k \in 1 .. n : after[k] = Round(after[k - 1])
  <2> HIDE DEF after
  <2> QED BY <1>1, <1>7
<1>9. after[n] \in G
  <2> HIDE DEF after, Defined
  <2>1. \A k \in 1 .. n : after[k - 1] \in G => after[k] \in G
    BY <1>3, <1>8
  <2> QED BY <1>1, <1>2, <1>8, <2>1, LoopKeeps
<1> QED BY <1>4, <1>9 DEF G

\* The order in which the variant's nodes are gone through: each of them once
OrderGiven ==
  /\ Len(order) \in Nat /\ DOMAIN order = 1 .. Len(order)
  /\ \A j, k \in DOMAIN order : Id(order[j]) \in Nat /\ (Id(order[j]) = Id(order[k]) => j = k)

\* InvalidateReference loops over the signature nodes, and over the candidates of some.
LEMMA InvalidateReferenceFine ==
  ASSUME CodeGiven, OrderGiven, NEW E, NEW m0, NEW st \in Searches(E, m0), NEW p, NEW c
  PROVE  InvalidateReference(st, p, c) \in Searches(E, m0)
<1> DEFINE G == Searches(E, m0)
           n == Len(order)
           alike == {x \in CodeNodes : TypeSpec(x) = TypeSpec(c)}
           Round(k, s) == IF Ref(order[k]) = Ref(p) THEN Retype(s, Id(order[k]), {}, alike) ELSE s
           F == [x \in (1 .. n) \X G |-> Round(x[1], x[2])]
           Defined(f) == f = [k \in 0 .. n |->
                                CASE k = 0 -> st
                                  [] k > 0 /\ Ref(order[k]) = Ref(p) -> Retype(f[k - 1], Id(order[k]), {}, alike)
                                  [] OTHER -> f[k - 1]]
           after == CHOOSE f : Defined(f)
<1>1. n \in Nat
  BY DEF OrderGiven
<1>2. ASSUME NEW k \in 1 .. n, NEW s \in G PROVE Round(k, s) \in G
  <2>1. Id(order[k]) \in Nat
    BY DEF OrderGiven
  <2>2. Retype(s, Id(order[k]), {}, alike) \in G
    BY <2>1, RetypeFine
  <2> HIDE DEF G, alike
  <2> QED BY <2>2
<1>3. InvalidateReference(st, p, c) = after[n]
  BY DEF InvalidateReference
<1>4. ASSUME NEW f PROVE Defined(f) <=> f = [k \in 0 .. n |-> IF k = 0 THEN st ELSE Round(k, f[k - 1])]
  <2> DEFINE e(k) == CASE k = 0 -> st
                       [] k > 0 /\ Ref(order[k]) = Ref(p) -> Retype(f[k - 1], Id(order[k]), {}, alike)
                       [] OTHER -> f[k - 1]
  <2>1. \A k \in 0 .. n : e(k) = IF k = 0 THEN st ELSE Round(k, f[k - 1])
    <3> HIDE DEF alike
    <3> QED BY <1>1
  <2> HIDE DEF e, Round
  <2>2. [k \in 0 .. n |-> e(k)] = [k \in 0 .. n |-> IF k = 0 THEN st ELSE Round(k, f[k - 1])]
    BY <2>1
  <2> QED BY <2>2 DEF e
<1> HIDE DEF G, n, Round, Defined
<1>5. Loop(n, G, st, F)
  BY <1>1, <1>2 DEF Loop, G
<1>6. \E f : Defined(f)
  <2> HIDE DEF F
  <2>1. PICK f : Runs(n, G, st, F, f)
    <3> HIDE DEF after
    <3> QED BY <1>5, LoopRuns
  <2>2. \A k \in 1 .. n : <<k, f[k - 1]>> \in (1 .. n) \X G
    BY <1>1, <2>1 DEF Runs
  <2>3. \A k \in 1 .. n : f[k] = Round(k, f[k - 1])
    BY <2>1, <2>2 DEF F, Runs
  <2>4. f = [k \in 0 .. n |-> IF k = 0 THEN st ELSE Round(k, f[k - 1])]
    BY <1>1, <2>1, <2>3 DEF Runs
  <2> QED BY <1>4, <2>4
<1>7. Defined(after)
  BY <1>6
<1>8. after[0] = st /\ \A k \in 1 .. n : after[k] = Round(k, after[k - 1])
  <2> HIDE DEF after
  <2> QED BY <1>1, <1>4, <1>7
<1>9. after[n] \in G
  <2> HIDE DEF after
  <2>1. \A k \in 1 .. n : after[k - 1] \in G => after[k] \in G
    BY <1>2, <1>8
  <2>2. after[0] \in G
    BY <1>8 DEF G
  <2> QED BY <1>1, <2>1, <2>2, LoopKeeps
<1> QED BY <1>3, <1>9 DEF G

\* A search while PruneFlagged goes through the candidates of the signature nodes
Prunings(E, m) == [st : Searches(E, m), c : CodeNodes \cup {NoNode}, ok : BOOLEAN, again : BOOLEAN]

\* A candidate that does not fit becomes Invalid, and nothing Valid.
LEMMA PruneCandidateFine ==
  ASSUME CodeGiven, NEW E, NEW m0, NEW s \in Prunings(E, m0), NEW p, Id(p) \in Nat
  PROVE  PruneCandidate(p, s) \in Prunings(E, m0)
<1>1. CASE s.c = NoNode
  BY <1>1 DEF PruneCandidate
<1>2. CASE s.c # NoNode
  <2> DEFINE fits == Fits(s.st.m, heap[p], s.c)
             m == IF fits THEN s.st.m ELSE Assign(s.st.m, Id(p), s.c, Invalid, FALSE)
             st == [Tick(s.st) EXCEPT !.m = m, !.skipped = @ \/ Skips(m, Id(p), s.c)]
  <2>1. s.st \in Searches(E, m0) /\ s.c \in Nat
    BY <1>2 DEF CodeGiven, Prunings
  <2>2. Invalid \in Numbers /\ Invalid # Valid
    BY DEF Numbers, Valid, Invalid
  <2>3. m \in {x \in Matrices : OnlyValidIn(E, m0, x)}
    <3>1. Assign(s.st.m, Id(p), s.c, Invalid, FALSE) \in {x \in Matrices : OnlyValidIn(E, m0, x)}
      BY <2>1, <2>2, SearchFacts
    <3>2. s.st.m \in {x \in Matrices : OnlyValidIn(E, m0, x)}
      BY <2>1, SearchFacts
    <3> HIDE DEF fits
    <3> QED BY <3>1, <3>2
  <2>4. Tick(s.st) \in Searches(E, m0)
    BY <2>1, SearchFacts
  <2> HIDE DEF m
  <2>5. st \in Searches(E, m0)
    BY <2>3, <2>4 DEF Searches
  <2>6. NextCandidate(m, Id(p), s.c) \in CodeNodes \cup {NoNode}
    BY LeastFine
  <2>7. PruneCandidate(p, s) = IF Late(s.st) THEN [s EXCEPT !.st = st, !.c = NoNode, !.ok = FALSE]
                               ELSE [s EXCEPT !.st = st, !.c = NextCandidate(m, Id(p), s.c), !.again = @ \/ ~fits]
    BY <1>2 DEF PruneCandidate, m
  <2> HIDE DEF st, fits
  <2>8. [s EXCEPT !.st = st, !.c = NoNode, !.ok = FALSE] \in Prunings(E, m0)
    BY <2>5 DEF Prunings
  <2>9. [s EXCEPT !.st = st, !.c = NextCandidate(m, Id(p), s.c), !.again = @ \/ ~fits] \in Prunings(E, m0)
    BY <2>5, <2>6 DEF Prunings
  <2> QED BY <2>7, <2>8, <2>9
<1> QED BY <1>1, <1>2

\* The candidates of a signature node
LEMMA PruneNodeFine ==
  ASSUME CodeGiven, NEW E, NEW m0, NEW s \in Prunings(E, m0), NEW p, Id(p) \in Nat
  PROVE  PruneNode(p, s) \in Prunings(E, m0)
<1> DEFINE G == Prunings(E, m0)
           n == Cardinality(CodeNodes)
           first == FirstCandidate(s.st.m, Id(p))
           start == [s EXCEPT !.c = first]
           Round(x) == PruneCandidate(p, x)
           F == [x \in (1 .. n) \X G |-> Round(x[2])]
           Defined(f) == f = [k \in 0 .. n |-> IF k = 0 THEN start ELSE Round(f[k - 1])]
           after == CHOOSE f : Defined(f)
<1>1. n \in Nat
  BY FS_CardinalityType DEF CodeGiven
<1>2. start \in G
  <2>1. first \in CodeNodes \cup {NoNode}
    BY LeastFine
  <2> HIDE DEF first
  <2> QED BY <2>1 DEF Prunings
<1>3. ASSUME NEW x \in G PROVE Round(x) \in G
  BY PruneCandidateFine
<1>4. PruneNode(p, s) \in {s, [s EXCEPT !.ok = FALSE], after[n]}
  <2>1. PruneNode(p, s) = IF ~s.ok THEN s ELSE IF first = NoNode THEN [s EXCEPT !.ok = FALSE] ELSE after[n]
    BY DEF PruneNode
  <2> HIDE DEF after, first
  <2> QED BY <2>1
<1>5. [s EXCEPT !.ok = FALSE] \in G
  BY DEF Prunings
<1> HIDE DEF G, n, start, Round
<1>6. Loop(n, G, start, F)
  BY <1>1, <1>2, <1>3 DEF Loop
<1>7. \E f : Defined(f)
  <2> HIDE DEF F
  <2>1. PICK f : Runs(n, G, start, F, f)
    <3> HIDE DEF Defined, after
    <3> QED BY <1>6, LoopRuns
  <2>2. \A k \in 1 .. n : <<k, f[k - 1]>> \in (1 .. n) \X G
    BY <1>1, <2>1 DEF Runs
  <2>3. \A k \in 1 .. n : f[k] = Round(f[k - 1])
    BY <2>1, <2>2 DEF F, Runs
  <2> QED BY <1>1, <2>1, <2>3 DEF Runs
<1>8. Defined(after)
  <2> HIDE DEF Defined
  <2> QED BY <1>7
<1>9. after[0] = start /\ \A k \in 1 .. n : after[k] = Round(after[k - 1])
  <2> HIDE DEF after
  <2> QED BY <1>1, <1>8
<1>10. after[n] \in G
  <2> HIDE DEF after, Defined
  <2>1. \A k \in 1 .. n : after[k - 1] \in G => after[k] \in G
    BY <1>3, <1>9
  <2> QED BY <1>1, <1>2, <1>9, <2>1, LoopKeeps
<1> QED BY <1>4, <1>5, <1>10 DEF G

\* The signature nodes, once
LEMMA PruneNodesFine ==
  ASSUME CodeGiven, OrderGiven, NEW E, NEW m0, NEW st \in Searches(E, m0)
  PROVE  PruneNodes(st, order) \in Prunings(E, m0)
<1> DEFINE G == Prunings(E, m0)
           n == Len(order)
           start == [st |-> st, c |-> NoNode, ok |-> TRUE, again |-> FALSE]
           Round(k, s) == PruneNode(order[k], s)
           F == [x \in (1 .. n) \X G |-> Round(x[1], x[2])]
           Defined(f) == f = [k \in 0 .. n |-> IF k = 0 THEN start ELSE Round(k, f[k - 1])]
           after == CHOOSE f : Defined(f)
<1>1. n \in Nat
  BY DEF OrderGiven
<1>2. start \in G
  BY DEF Prunings
<1>3. ASSUME NEW k \in 1 .. n, NEW s \in G PROVE Round(k, s) \in G
  <2>1. Id(order[k]) \in Nat
    BY DEF OrderGiven
  <2> QED BY <2>1, PruneNodeFine
<1>4. PruneNodes(st, order) = after[n]
  BY DEF PruneNodes
<1> HIDE DEF G, n, start, Round
<1>5. Loop(n, G, start, F)
  BY <1>1, <1>2, <1>3 DEF Loop
<1>6. \E f : Defined(f)
  <2> HIDE DEF F
  <2>1. PICK f : Runs(n, G, start, F, f)
    <3> HIDE DEF Defined, after
    <3> QED BY <1>5, LoopRuns
  <2>2. \A k \in 1 .. n : <<k, f[k - 1]>> \in (1 .. n) \X G
    BY <1>1, <2>1 DEF Runs
  <2>3. \A k \in 1 .. n : f[k] = Round(k, f[k - 1])
    BY <2>1, <2>2 DEF F, Runs
  <2> QED BY <1>1, <2>1, <2>3 DEF Runs
<1>7. Defined(after)
  <2> HIDE DEF Defined
  <2> QED BY <1>6
<1>8. after[0] = start /\ \A k \in 1 .. n : after[k] = Round(k, after[k - 1])
  <2> HIDE DEF after
  <2> QED BY <1>1, <1>7
<1>9. after[n] \in G
  <2> HIDE DEF after, Defined
  <2>1. \A k \in 1 .. n : after[k - 1] \in G => after[k] \in G
    BY <1>3, <1>8
  <2> QED BY <1>1, <1>2, <1>8, <2>1, LoopKeeps
<1> QED BY <1>4, <1>9 DEF G

\* PruneFlagged: until no candidate goes
LEMMA PruneFlaggedFine ==
  ASSUME CodeGiven, OrderGiven, NEW E, NEW m0, NEW st \in Searches(E, m0)
  PROVE  PruneFlagged(st, order) \in Prunings(E, m0)
<1> DEFINE G == Prunings(E, m0)
           n == Len(order) * Cardinality(CodeNodes)
           start == PruneNodes(st, order)
           Round(s) == IF s.ok /\ s.again THEN PruneNodes(s.st, order) ELSE s
           F == [x \in (1 .. n) \X G |-> Round(x[2])]
           Defined(f) == f = [k \in 0 .. n |-> IF k = 0 THEN start ELSE Round(f[k - 1])]
           after == CHOOSE f : Defined(f)
<1>1. n \in Nat
  <2>1. Cardinality(CodeNodes) \in Nat /\ Len(order) \in Nat
    BY FS_CardinalityType DEF CodeGiven, OrderGiven
  <2>2. \A x, y \in Nat : x * y \in Nat
    OBVIOUS
  <2> QED BY <2>1, <2>2
<1>2. start \in G
  BY PruneNodesFine
<1>3. ASSUME NEW s \in G PROVE Round(s) \in G
  <2>1. s.st \in Searches(E, m0)
    BY DEF Prunings
  <2>2. PruneNodes(s.st, order) \in G
    BY <2>1, PruneNodesFine
  <2> HIDE DEF G
  <2> QED BY <2>2
<1>4. PruneFlagged(st, order) = after[n]
  BY DEF PruneFlagged
<1> HIDE DEF G, n, start, Round
<1>5. Loop(n, G, start, F)
  BY <1>1, <1>2, <1>3 DEF Loop
<1>6. \E f : Defined(f)
  <2> HIDE DEF F
  <2>1. PICK f : Runs(n, G, start, F, f)
    <3> HIDE DEF Defined, after
    <3> QED BY <1>5, LoopRuns
  <2>2. \A k \in 1 .. n : <<k, f[k - 1]>> \in (1 .. n) \X G
    BY <1>1, <2>1 DEF Runs
  <2>3. \A k \in 1 .. n : f[k] = Round(f[k - 1])
    BY <2>1, <2>2 DEF F, Runs
  <2> QED BY <1>1, <2>1, <2>3 DEF Runs
<1>7. Defined(after)
  <2> HIDE DEF Defined
  <2> QED BY <1>6
<1>8. after[0] = start /\ \A k \in 1 .. n : after[k] = Round(after[k - 1])
  <2> HIDE DEF after
  <2> QED BY <1>1, <1>7
<1>9. after[n] \in G
  <2> HIDE DEF after, Defined
  <2>1. \A k \in 1 .. n : after[k - 1] \in G => after[k] \in G
    BY <1>3, <1>8
  <2> QED BY <1>1, <1>2, <1>8, <2>1, LoopKeeps
<1> QED BY <1>4, <1>9 DEF G

-------------------------------------------------------------------------------
(* The search, in any graphs, from any matrix in which no pair is Valid:   *)
(* how Pass 1 makes that matrix is left open.                              *)

Fixed == UNCHANGED <<variants, variant, order, heap, aIdMap>>

Types == {UNKNOWN} \cup {TypeSpec(c) : c \in CodeNodes}
Opaques == UNION {[R -> Types] : R \in SUBSET Int}

\* No pair of a node from the k-th on is Valid.
NoneValid(m, k) == \A j \in k .. Len(order) : \A c \in Nat : GetAssignment(m, Id(order[j]), c) # Valid

\* What StartVariant leaves
VariantReady ==
  /\ OrderGiven
  /\ oMatrix \in Matrices /\ NoneValid(oMatrix, 1)
  /\ aStack = <<>> /\ calls = <<>> /\ oFlagMap = <<>>
  /\ clock \in Int /\ skipped \in BOOLEAN
  /\ \E R \in SUBSET Int : oOpaqueAssignment = [r \in R |-> UNKNOWN]
  /\ control \in {"call", "next", "done"}

SearchInit == CodeGiven /\ control = "variant"
SearchNext ==
  /\ \/ control = "variant" /\ VariantReady'
     \/ NextVariant
     \/ Pass2 /\ UNCHANGED <<variant, order>>
  /\ UNCHANGED <<variants, heap, aIdMap>>
SearchSpec == SearchInit /\ [][SearchNext]_<<evaluatorVars, heap, aIdMap>>

(* The inductive invariant: each call in progress, with what it has done   *)
(* to the search since it began, leads from what it saw to what the next   *)
(* one saw, and the matrices of PushMatrix are those of the calls that     *)
(* pushed one, in their order.                                             *)

Snapshots == [m : Matrices, opaque : Opaques, depth : Nat, taken : SUBSET CodeNodes]
Pass2Calls == [p : {order[k] : k \in DOMAIN order}, c : CodeNodes, kind : {"single", "many"},
               opened : BOOLEAN, taken : BOOLEAN, entry : Snapshots]

Pushed(call) == call.kind = "many" \/ call.opened

\* The call is for the k-th node, of which it found no pair Valid.
CallOK(k, call) == k <= Len(order) /\ call.p = order[k] /\ NoneValid(call.entry.m, k)

\* What the call has done since it began, to come to s
Did(call, s) ==
  /\ s.opaque = IF call.opened THEN [call.entry.opaque EXCEPT ![Ref(call.p)] = TypeSpec(call.c)]
                ELSE call.entry.opaque
  /\ call.opened => call.entry.opaque[Ref(call.p)] = UNKNOWN
  /\ call.entry.taken = IF call.taken THEN s.taken \ {call.c} ELSE s.taken
  /\ Pushed(call) => s.depth = call.entry.depth + 1
  /\ ~ Pushed(call) =>
       /\ s.depth = call.entry.depth
       /\ GetAssignment(call.entry.m, Id(call.p), call.c) = Undefined
       /\ s.m = Assign(call.entry.m, Id(call.p), call.c, Valid, FALSE)

\* The calls cs have led to s and the matrices on the stack.
Linked(cs, s, stack) ==
  /\ s.depth = Len(stack)
  /\ \A k \in 1 .. Len(cs) :
       /\ CallOK(k, cs[k])
       /\ Did(cs[k], IF k < Len(cs) THEN cs[k + 1].entry ELSE s)
       /\ Pushed(cs[k]) => /\ cs[k].entry.depth < Len(stack)
                           /\ stack[cs[k].entry.depth + 1] = cs[k].entry.m
                           /\ \A j \in k + 1 .. Len(cs) : cs[k].entry.depth < cs[j].entry.depth

\* With control at ctl; a call that is to try a candidate has done nothing yet.
Reached(ctl, cs, s, stack) ==
  /\ cs \in Seq(Pass2Calls) /\ s \in Snapshots /\ stack \in Seq(Matrices)
  /\ ctl = "candidate" => /\ cs # <<>> /\ Last(cs).kind = "many" /\ Last(cs).entry = s
                          /\ CallOK(Len(cs), Last(cs)) /\ Linked(Front(cs), s, stack)
  /\ ctl # "candidate" => Linked(cs, s, stack)
  /\ ctl = "call" => NoneValid(s.m, Len(cs) + 1)
  /\ ctl = "undo" => cs # <<>> /\ Pushed(Last(cs))

InPass2 == control \in {"call", "candidate", "return", "undo"}
SearchInv ==
  /\ CodeGiven
  /\ InPass2 => /\ OrderGiven /\ clock \in Int /\ skipped \in BOOLEAN
                /\ \E ctl \in {control}, cs \in {calls}, s \in {Seen}, stack \in {aStack} :
                     Reached(ctl, cs, s, stack)

\* Facts about sequences
LEMMA SeqFacts ==
  ASSUME NEW S, NEW s \in Seq(S)
  PROVE  /\ Len(s) \in Nat /\ DOMAIN s = 1 .. Len(s)
         /\ \A x \in S : /\ Append(s, x) \in Seq(S) /\ Len(Append(s, x)) = Len(s) + 1
                         /\ Append(s, x)[Len(s) + 1] = x /\ Append(s, x) # <<>>
                         /\ \A k \in 1 .. Len(s) : Append(s, x)[k] = s[k]
                         /\ Last(Append(s, x)) = x /\ Front(Append(s, x)) = s
         /\ s # <<>> => /\ Len(s) \in 1 .. Len(s) /\ Last(s) = s[Len(s)] /\ Last(s) \in S
                        /\ Front(s) \in Seq(S) /\ Len(Front(s)) = Len(s) - 1
                        /\ \A k \in 1 .. Len(s) - 1 : Front(s)[k] = s[k]
<1>1. Len(s) \in Nat /\ DOMAIN s = 1 .. Len(s)
  OBVIOUS
<1>2. ASSUME NEW x \in S
      PROVE  /\ Append(s, x) \in Seq(S) /\ Len(Append(s, x)) = Len(s) + 1
             /\ Append(s, x)[Len(s) + 1] = x /\ Append(s, x) # <<>>
             /\ \A k \in 1 .. Len(s) : Append(s, x)[k] = s[k]
             /\ Last(Append(s, x)) = x /\ Front(Append(s, x)) = s
  <2>1. /\ Append(s, x) \in Seq(S) /\ Len(Append(s, x)) = Len(s) + 1
        /\ Append(s, x)[Len(s) + 1] = x /\ Append(s, x) # <<>>
        /\ \A k \in 1 .. Len(s) : Append(s, x)[k] = s[k]
    OBVIOUS
  <2>2. Last(Append(s, x)) = x
    BY <2>1 DEF Last
  <2>3. Front(Append(s, x)) = s
    BY <2>1 DEF Front
  <2> QED BY <2>1, <2>2, <2>3
<1>3. ASSUME s # <<>>
      PROVE  /\ Len(s) \in 1 .. Len(s) /\ Last(s) = s[Len(s)] /\ Last(s) \in S
             /\ Front(s) \in Seq(S) /\ Len(Front(s)) = Len(s) - 1
             /\ \A k \in 1 .. Len(s) - 1 : Front(s)[k] = s[k]
  <2>1. Len(s) \in 1 .. Len(s)
    BY <1>3
  <2>2. Last(s) = s[Len(s)] /\ s[Len(s)] \in S
    BY <2>1 DEF Last
  <2>3. /\ SubSeq(s, 1, Len(s) - 1) \in Seq(S) /\ Len(SubSeq(s, 1, Len(s) - 1)) = Len(s) - 1
        /\ \A k \in 1 .. Len(s) - 1 : SubSeq(s, 1, Len(s) - 1)[k] = s[k]
    <3>1. \A k \in 1 .. Len(s) - 1 : s[k] \in S
      OBVIOUS
    <3>2. 1 \in Int /\ Len(s) - 1 \in Int
      BY <2>1
    <3>3. PICK t : t = SubSeq(s, 1, Len(s) - 1)
      OBVIOUS
    <3>4. /\ t \in Seq(S) /\ Len(t) = IF 1 <= Len(s) - 1 THEN Len(s) - 1 - 1 + 1 ELSE 0
          /\ \A k \in 1 .. Len(s) - 1 - 1 + 1 : t[k] = s[1 + k - 1]
      BY <3>1, <3>2, <3>3, SubSeqProperties
    <3>5. /\ t \in Seq(S) /\ Len(t) = Len(s) - 1
          /\ \A k \in 1 .. Len(s) - 1 : t[k] = s[k]
      <4>1. PICK n \in Nat : n = Len(s) - 1
        BY <2>1
      <4>2. Len(t) = n /\ \A k \in 1 .. n : k \in 1 .. n - 1 + 1 /\ 1 + k - 1 = k
        BY <3>4, <4>1
      <4> QED BY <3>4, <4>1, <4>2
    <3> QED BY <3>3, <3>5
  <2> QED BY <2>1, <2>2, <2>3 DEF Front
<1> QED BY <1>1, <1>2, <1>3

LEMMA AppendFacts ==
  ASSUME NEW S, NEW s \in Seq(S), NEW x \in S, NEW t, t = Append(s, x)
  PROVE  /\ t \in Seq(S) /\ t # <<>> /\ Last(t) = x /\ Front(t) = s /\ Len(t) = Len(s) + 1
<1>1. t \in Seq(S) /\ t # <<>> /\ Len(t) = Len(s) + 1 /\ t[Len(s) + 1] = x
  OBVIOUS
<1>2. Last(t) = x
  BY <1>1 DEF Last
<1>3. Front(t) = s
  BY <1>1 DEF Front
<1> QED BY <1>1, <1>2, <1>3

\* Facts about what a call found
LEMMA CallTypes ==
  \A call \in Pass2Calls :
    /\ call.entry \in Snapshots /\ call.entry.depth \in Nat /\ call.entry.m \in Matrices
    /\ call.entry.opaque \in Opaques /\ call.entry.taken \in SUBSET CodeNodes /\ call.c \in CodeNodes
    /\ call.kind \in {"single", "many"} /\ call.opened \in BOOLEAN /\ call.taken \in BOOLEAN
<1> SUFFICES ASSUME NEW call \in Pass2Calls
             PROVE  /\ call.entry \in Snapshots /\ call.entry.depth \in Nat /\ call.entry.m \in Matrices
                    /\ call.entry.opaque \in Opaques /\ call.entry.taken \in SUBSET CodeNodes
                    /\ call.c \in CodeNodes
                    /\ call.kind \in {"single", "many"} /\ call.opened \in BOOLEAN /\ call.taken \in BOOLEAN
  OBVIOUS
<1>1. call.entry \in Snapshots /\ call.c \in CodeNodes
      /\ call.kind \in {"single", "many"} /\ call.opened \in BOOLEAN /\ call.taken \in BOOLEAN
  BY DEF Pass2Calls
<1>2. /\ call.entry.depth \in Nat /\ call.entry.m \in Matrices
      /\ call.entry.opaque \in Opaques /\ call.entry.taken \in SUBSET CodeNodes
  BY <1>1 DEF Snapshots
<1> QED BY <1>1, <1>2

\* A call begins.
LEMMA LinkedAppend ==
  ASSUME NEW cs \in Seq(Pass2Calls), NEW s, NEW s2, NEW stack \in Seq(Matrices), NEW stack2,
         NEW call \in Pass2Calls,
         Linked(cs, s, stack), CallOK(Len(cs) + 1, call), call.entry = s, Did(call, s2), s.m \in Matrices,
         stack2 = IF Pushed(call) THEN Append(stack, s.m) ELSE stack
  PROVE  Linked(Append(cs, call), s2, stack2)
<1> DEFINE cs2 == Append(cs, call)
           n == Len(cs)
<1>1. /\ n \in Nat /\ Len(cs2) = n + 1 /\ cs2[n + 1] = call
      /\ \A k \in 1 .. n : cs2[k] = cs[k]
  BY SeqFacts
<1>2. Len(stack) \in Nat /\ stack2 # stack => /\ Len(stack2) = Len(stack) + 1 /\ stack2[Len(stack) + 1] = s.m
                                              /\ \A k \in 1 .. Len(stack) : stack2[k] = stack[k]
  BY SeqFacts
<1>3. /\ s.depth = Len(stack) /\ Len(stack) \in Nat
      /\ \A k \in 1 .. Len(stack) : stack2[k] = stack[k]
      /\ Len(stack2) = IF Pushed(call) THEN Len(stack) + 1 ELSE Len(stack)
      /\ Pushed(call) => stack2[Len(stack) + 1] = s.m
  BY SeqFacts DEF Linked
<1>4. s2.depth = Len(stack2)
  BY <1>3 DEF Did
<1>5. \A k \in 1 .. n : cs[k].entry.depth \in Nat
  <2>1. \A k \in 1 .. n : cs[k] \in Pass2Calls
    BY <1>1
  <2> QED BY <2>1, CallTypes
<1> HIDE DEF cs2, n
<1>6. ASSUME NEW k \in 1 .. n + 1
      PROVE  /\ CallOK(k, cs2[k])
             /\ Did(cs2[k], IF k < n + 1 THEN cs2[k + 1].entry ELSE s2)
             /\ Pushed(cs2[k]) => /\ cs2[k].entry.depth < Len(stack2)
                                  /\ stack2[cs2[k].entry.depth + 1] = cs2[k].entry.m
                                  /\ \A j \in k + 1 .. n + 1 : cs2[k].entry.depth < cs2[j].entry.depth
  <2>1. CASE k = n + 1
    <3>1. CallOK(k, cs2[k]) /\ Did(cs2[k], s2)
      BY <1>1, <2>1 DEF n
    <3>2. Pushed(cs2[k]) => /\ cs2[k].entry.depth < Len(stack2)
                            /\ stack2[cs2[k].entry.depth + 1] = cs2[k].entry.m
      BY <1>1, <1>3, <2>1
    <3>3. ~ (k < n + 1) /\ k + 1 .. n + 1 = {}
      BY <1>1, <2>1
    <3> QED BY <3>1, <3>2, <3>3
  <2>2. CASE k # n + 1
    <3>1. k \in 1 .. n /\ cs2[k] = cs[k] /\ k < n + 1
      BY <1>1, <2>2
    <3>2. CallOK(k, cs[k]) /\ Did(cs[k], IF k < n THEN cs[k + 1].entry ELSE s)
      BY <3>1 DEF Linked, n
    <3>3. cs2[k + 1].entry = IF k < n THEN cs[k + 1].entry ELSE s
      BY <1>1, <3>1
    <3>4. ASSUME Pushed(cs[k])
          PROVE  /\ cs[k].entry.depth < Len(stack)
                 /\ stack[cs[k].entry.depth + 1] = cs[k].entry.m
                 /\ \A j \in k + 1 .. n : cs[k].entry.depth < cs[j].entry.depth
      BY <3>1, <3>4 DEF Linked, n
    <3>5. ASSUME Pushed(cs[k])
          PROVE  /\ cs[k].entry.depth < Len(stack2)
                 /\ stack2[cs[k].entry.depth + 1] = cs[k].entry.m
                 /\ \A j \in k + 1 .. n + 1 : cs[k].entry.depth < cs2[j].entry.depth
      <4>1. cs[k].entry.depth < Len(stack2) /\ stack2[cs[k].entry.depth + 1] = cs[k].entry.m
        BY <1>3, <1>5, <3>1, <3>4, <3>5
      <4>2. ASSUME NEW j \in k + 1 .. n + 1 PROVE cs[k].entry.depth < cs2[j].entry.depth
        <5>1. CASE j = n + 1
          BY <1>1, <1>3, <3>4, <3>5, <5>1
        <5>2. CASE j # n + 1
          BY <1>1, <3>1, <3>4, <3>5, <5>2
        <5> QED BY <5>1, <5>2
      <4> QED BY <4>1, <4>2
    <3> QED BY <3>1, <3>2, <3>3, <3>5
  <2> QED BY <2>1, <2>2
<1> QED BY <1>1, <1>4, <1>6 DEF Linked, cs2

\* A call is over.
LEMMA LinkedFront ==
  ASSUME NEW cs \in Seq(Pass2Calls), NEW s, NEW stack \in Seq(Matrices), NEW call, NEW stack2,
         Linked(cs, s, stack), cs # <<>>, call = Last(cs),
         stack2 = IF Pushed(call) THEN Front(stack) ELSE stack
  PROVE  /\ Linked(Front(cs), call.entry, stack2)
         /\ CallOK(Len(cs), call) /\ Did(call, s)
         /\ Pushed(call) => stack # <<>> /\ Last(stack) = call.entry.m
         /\ call \in Pass2Calls /\ Len(stack2) = call.entry.depth
         /\ Front(cs) \in Seq(Pass2Calls) /\ stack2 \in Seq(Matrices) /\ Len(Front(cs)) = Len(cs) - 1
<1> DEFINE rest == Front(cs)
           n == Len(cs)
<1>1. /\ n \in Nat /\ n \in 1 .. n /\ call = cs[n] /\ call \in Pass2Calls
      /\ rest \in Seq(Pass2Calls) /\ Len(rest) = n - 1 /\ \A k \in 1 .. n - 1 : rest[k] = cs[k]
  BY SeqFacts
<1>2. CallOK(n, call) /\ Did(call, s)
  BY <1>1 DEF Linked
<1>3. \A k \in 1 .. n : cs[k].entry.depth \in Nat
  <2>1. \A k \in 1 .. n : cs[k] \in Pass2Calls
    BY <1>1
  <2> QED BY <2>1, CallTypes
<1>4. s.depth = Len(stack) /\ Len(stack) \in Nat
  BY SeqFacts DEF Linked
<1>5. call.entry.depth = IF Pushed(call) THEN Len(stack) - 1 ELSE Len(stack)
  <2>1. s.depth = IF Pushed(call) THEN call.entry.depth + 1 ELSE call.entry.depth
    BY <1>2 DEF Did
  <2>2. call.entry.depth \in Nat
    BY <1>1, <1>3
  <2> QED BY <1>4, <2>1, <2>2
<1>6. ASSUME Pushed(call) PROVE stack # <<>> /\ Last(stack) = call.entry.m
  <2>1. call.entry.depth < Len(stack) /\ stack[call.entry.depth + 1] = call.entry.m
    BY <1>1, <1>6 DEF Linked
  <2>2. stack # <<>>
    BY <1>1, <1>3, <2>1, <1>4
  <2> QED BY <1>4, <1>5, <1>6, <2>1, <2>2, SeqFacts
<1>7. /\ stack2 \in Seq(Matrices) /\ Len(stack2) = call.entry.depth
      /\ \A k \in 1 .. call.entry.depth : stack2[k] = stack[k]
  <2>1. CASE Pushed(call)
    BY <1>4, <1>5, <1>6, <2>1, SeqFacts
  <2>2. CASE ~ Pushed(call)
    BY <1>5, <2>2
  <2> QED BY <2>1, <2>2
<1> HIDE DEF rest, n
<1>8. ASSUME NEW k \in 1 .. n - 1
      PROVE  /\ CallOK(k, rest[k])
             /\ Did(rest[k], IF k < n - 1 THEN rest[k + 1].entry ELSE call.entry)
             /\ Pushed(rest[k]) => /\ rest[k].entry.depth < Len(stack2)
                                   /\ stack2[rest[k].entry.depth + 1] = rest[k].entry.m
                                   /\ \A j \in k + 1 .. n - 1 : rest[k].entry.depth < rest[j].entry.depth
  <2>1. k \in 1 .. n /\ k < n /\ rest[k] = cs[k]
    BY <1>1
  <2>2. CallOK(k, cs[k]) /\ Did(cs[k], cs[k + 1].entry)
    BY <2>1 DEF Linked, n
  <2>3. cs[k + 1].entry = IF k < n - 1 THEN rest[k + 1].entry ELSE call.entry
    BY <1>1, <2>1
  <2>4. ASSUME Pushed(cs[k])
        PROVE  /\ cs[k].entry.depth < Len(stack)
               /\ stack[cs[k].entry.depth + 1] = cs[k].entry.m
               /\ \A j \in k + 1 .. n : cs[k].entry.depth < cs[j].entry.depth
    BY <2>1, <2>4 DEF Linked, n
  <2>5. ASSUME Pushed(cs[k])
        PROVE  /\ cs[k].entry.depth < Len(stack2)
               /\ stack2[cs[k].entry.depth + 1] = cs[k].entry.m
               /\ \A j \in k + 1 .. n - 1 : cs[k].entry.depth < rest[j].entry.depth
    <3>1. cs[k].entry.depth < cs[n].entry.depth
      BY <1>1, <2>1, <2>4, <2>5
    <3>2. cs[k].entry.depth < Len(stack2) /\ stack2[cs[k].entry.depth + 1] = cs[k].entry.m
      <4>1. PICK d, e : d = cs[k].entry.depth /\ e = call.entry.depth
        OBVIOUS
      <4>2. d \in Nat /\ e \in Nat /\ d < e
        BY <1>1, <1>3, <2>1, <3>1, <4>1
      <4>3. d + 1 \in 1 .. e
        BY <4>2
      <4>4. stack2[d + 1] = stack[d + 1] /\ d < Len(stack2)
        BY <1>7, <4>1, <4>2, <4>3
      <4> QED BY <2>4, <2>5, <4>1, <4>4
    <3>3. ASSUME NEW j \in k + 1 .. n - 1 PROVE cs[k].entry.depth < rest[j].entry.depth
      <4>1. j \in k + 1 .. n /\ j \in 1 .. n - 1
        BY <1>1, <2>1
      <4> QED BY <1>1, <2>4, <2>5, <4>1
    <3> QED BY <3>2, <3>3
  <2> QED BY <2>1, <2>2, <2>3, <2>5
<1>9. Linked(rest, call.entry, stack2)
  BY <1>1, <1>7, <1>8 DEF Linked
<1> QED BY <1>1, <1>2, <1>6, <1>7, <1>9 DEF rest, n

\* What Reached says stays so as long as what it is about does.
LEMMA ReachedStays ==
  ASSUME OrderGiven, Fixed, NEW ctl, NEW cs, NEW s, NEW stack, Reached(ctl, cs, s, stack),
         ctl = control', cs = calls', s = Seen', stack = aStack', clock' \in Int, skipped' \in BOOLEAN,
         CodeGiven
  PROVE  SearchInv'
<1>1. order' = order /\ variant' = variant /\ variants' = variants /\ heap' = heap /\ aIdMap' = aIdMap
  BY DEF Fixed
<1>2. CodeGiven' /\ OrderGiven'
  BY <1>1 DEF CodeGiven, CodeNodes, OrderGiven
<1>3. Reached(ctl, cs, s, stack)'
  <2>1. CodeNodes' = CodeNodes /\ \A c : TypeSpec(c)' = TypeSpec(c)
    BY <1>1 DEF CodeNodes, CodeNode, TypeSpec
  <2>2. \A p : Ref(p)' = Ref(p)
    BY <1>1 DEF Ref
  <2>3. Opaques' = Opaques
    BY <2>1 DEF Opaques, Types
  <2>4. Snapshots' = Snapshots
    BY <2>1, <2>3 DEF Snapshots
  <2>5. Pass2Calls' = Pass2Calls
    BY <1>1, <2>1, <2>4 DEF Pass2Calls
  <2>6. \A m, k : NoneValid(m, k)' <=> NoneValid(m, k)
    BY <1>1 DEF NoneValid
  <2>7. \A k, call : CallOK(k, call)' <=> CallOK(k, call)
    BY <1>1, <2>6 DEF CallOK
  <2>8. \A call, x : Did(call, x)' <=> Did(call, x)
    BY <2>1, <2>2 DEF Did
  <2>9. \A c, x, y : Linked(c, x, y)' <=> Linked(c, x, y)
    BY <2>7, <2>8 DEF Linked
  <2> QED BY <2>4, <2>5, <2>6, <2>7, <2>9 DEF Reached
<1>4. ctl \in {control'} /\ cs \in {calls'} /\ s \in {Seen'} /\ stack \in {aStack'}
  OBVIOUS
<1> QED BY <1>2, <1>3, <1>4 DEF SearchInv

\* To type a reference is undone by making it unknown again.
LEMMA OpaqueFine ==
  ASSUME NEW o \in Opaques, NEW r
  PROVE  /\ \A type \in Types : [o EXCEPT ![r] = type] \in Opaques
         /\ \A type : o[r] = UNKNOWN => [[o EXCEPT ![r] = type] EXCEPT ![r] = UNKNOWN] = o
<1>1. PICK R \in SUBSET Int : o \in [R -> Types]
  BY DEF Opaques
<1>2. ASSUME NEW type \in Types PROVE [o EXCEPT ![r] = type] \in Opaques
  <2>1. [o EXCEPT ![r] = type] \in [R -> Types]
    BY <1>1
  <2> QED BY <2>1 DEF Opaques
<1>3. ASSUME NEW type, o[r] = UNKNOWN PROVE [[o EXCEPT ![r] = type] EXCEPT ![r] = UNKNOWN] = o
  BY <1>1, <1>3
<1> QED BY <1>2, <1>3

\* The nodes that the flags say are taken
Taken(flags) == {x \in CodeNodes : IsAssigned(flags, x)}

\* To take a node that is not taken is undone by giving it back.
LEMMA TakenFine ==
  ASSUME CodeGiven, NEW flags, NEW c \in CodeNodes
  PROVE  /\ ~ IsAssigned(flags, c) => Taken(flags) = Taken(Flag(flags, c)) \ {c}
         /\ Taken(Unflag(flags, c)) = Taken(flags) \ {c}
<1>1. c \in Nat /\ CodeNodes \subseteq Nat
  BY DEF CodeGiven
<1>2. \A x \in CodeNodes : /\ x # c => (IsAssigned(Flag(flags, c), x) <=> IsAssigned(flags, x))
                           /\ IsAssigned(Unflag(flags, c), x) <=> IsAssigned(flags, x) /\ x # c
  BY <1>1, FlagFine
<1> QED BY <1>2 DEF Taken

\* The k-th node's pairs are all that a step of its call makes Valid.
LEMMA NoneValidNext ==
  ASSUME OrderGiven, NEW k \in 1 .. Len(order), NEW m1, NEW m2, NoneValid(m1, k),
         OnlyValidIn({Id(order[k])}, m1, m2)
  PROVE  NoneValid(m2, k + 1)
<1> SUFFICES ASSUME NEW j \in k + 1 .. Len(order), NEW c \in Nat, GetAssignment(m2, Id(order[j]), c) = Valid
             PROVE  FALSE
  BY DEF NoneValid
<1>1. Len(order) \in Nat /\ j \in k .. Len(order) /\ j \in DOMAIN order /\ k \in DOMAIN order /\ j # k
  BY DEF OrderGiven
<1>2. Id(order[j]) \in Nat \ {Id(order[k])}
  BY <1>1 DEF OrderGiven
<1>3. GetAssignment(m1, Id(order[j]), c) = Valid
  BY <1>2 DEF OnlyValidIn
<1> QED BY <1>1, <1>3 DEF NoneValid

\* What the next state of the search is seen as
LEMMA SeenNext ==
  ASSUME Fixed
  PROVE  Seen' = [m |-> oMatrix', opaque |-> oOpaqueAssignment', depth |-> Len(aStack'), taken |-> Taken(oFlagMap')]
BY DEF Fixed, Seen, CodeNodes, Taken

\* What is seen of it
LEMMA SeenNow ==
  Seen \in Snapshots => /\ oMatrix \in Matrices /\ oOpaqueAssignment \in Opaques
                        /\ Seen = [m |-> oMatrix, opaque |-> oOpaqueAssignment, depth |-> Len(aStack),
                                   taken |-> Taken(oFlagMap)]
BY DEF Seen, Snapshots, Taken

\* A call that pushes the matrix and prunes
LEMMA ExploreFine ==
  ASSUME CodeGiven, OrderGiven, Fixed, clock \in Int, skipped \in BOOLEAN,
         Seen \in Snapshots, aStack \in Seq(Matrices),
         NEW rest \in Seq(Pass2Calls), NEW call \in Pass2Calls, Linked(rest, Seen, aStack),
         call.entry = Seen, CallOK(Len(rest) + 1, call), ~ Refused(call.p, call.c),
         call.kind = "many" \/ OpaqueStatus(call.p, call.c) = "OK", Explore(call, rest)
  PROVE  SearchInv' /\ control' \in {"call", "undo"}
<1> DEFINE p == call.p
           c == call.c
           k == Len(rest) + 1
           opened == OpaqueStatus(p, c) = "OK"
           own == IF call.kind = "single" THEN Current ELSE Retype(Current, Id(p), {c}, {})
           st == IF opened THEN InvalidateReference(own, p, c) ELSE own
           pruned == PruneFlagged(st, order)
           call2 == [call EXCEPT !.opened = opened, !.taken = pruned.ok]
           E == {Id(p)}
<1>1. /\ oMatrix' = pruned.st.m /\ clock' = pruned.st.t /\ skipped' = pruned.st.skipped
      /\ aStack' = Append(aStack, oMatrix)
      /\ oOpaqueAssignment' = IF opened THEN [oOpaqueAssignment EXCEPT ![Ref(p)] = TypeSpec(c)]
                              ELSE oOpaqueAssignment
      /\ oFlagMap' = IF pruned.ok THEN Flag(oFlagMap, c) ELSE oFlagMap
      /\ calls' = Append(rest, call2)
      /\ control' = IF pruned.ok THEN "call" ELSE "undo"
  BY DEF Explore, Searched
<1>2. /\ k \in 1 .. Len(order) /\ p = order[k] /\ Id(p) \in Nat /\ c \in CodeNodes /\ c \in Nat
      /\ Len(rest) \in Nat /\ NoneValid(oMatrix, k)
  <2>1. Len(rest) \in Nat
    BY SeqFacts
  <2>2. k <= Len(order) /\ p = order[k] /\ NoneValid(oMatrix, k)
    BY SeenNow DEF CallOK
  <2>3. k \in 1 .. Len(order) /\ k \in DOMAIN order
    BY <2>1, <2>2 DEF OrderGiven
  <2>4. Id(p) \in Nat
    BY <2>2, <2>3 DEF OrderGiven
  <2>5. c \in CodeNodes /\ c \in Nat
    BY CallTypes DEF CodeGiven
  <2> QED BY <2>1, <2>2, <2>3, <2>4, <2>5
<1>3. /\ oMatrix \in Matrices /\ oOpaqueAssignment \in Opaques
      /\ Seen = [m |-> oMatrix, opaque |-> oOpaqueAssignment, depth |-> Len(aStack), taken |-> Taken(oFlagMap)]
      /\ Len(aStack) \in Nat
  BY SeenNow, SeqFacts
<1>4. pruned \in Prunings(E, oMatrix)
  <2>1. Current \in Searches(E, oMatrix)
    BY <1>3, OnlyValidFacts DEF Current, Searches
  <2>2. Retype(Current, Id(p), {c}, {}) \in Searches(E, oMatrix)
    <3> HIDE DEF p, c
    <3> QED BY <1>2, <2>1, RetypeFine
  <2>3. own \in Searches(E, oMatrix)
    BY <2>1, <2>2
  <2>4. InvalidateReference(own, p, c) \in Searches(E, oMatrix)
    <3> HIDE DEF own, p, c
    <3> QED BY <2>3, InvalidateReferenceFine
  <2>5. st \in Searches(E, oMatrix)
    BY <2>3, <2>4
  <2> HIDE DEF st
  <2> QED BY <2>5, PruneFlaggedFine
<1> HIDE DEF pruned, st, own
<1>5. /\ oMatrix' \in Matrices /\ OnlyValidIn(E, oMatrix, oMatrix') /\ clock' \in Int /\ skipped' \in BOOLEAN
      /\ pruned.ok \in BOOLEAN
  <2>1. pruned.st \in Searches(E, oMatrix) /\ pruned.ok \in BOOLEAN
    BY <1>4 DEF Prunings
  <2> QED BY <1>1, <2>1, SearchFacts
<1>6. opened => oOpaqueAssignment[Ref(p)] = UNKNOWN
  BY DEF OpaqueStatus
<1>7. /\ Seen' = [m |-> oMatrix', opaque |-> oOpaqueAssignment', depth |-> Len(aStack) + 1, taken |-> Taken(oFlagMap')]
      /\ Seen' \in Snapshots /\ aStack' \in Seq(Matrices)
  <2>1. aStack' \in Seq(Matrices) /\ Len(aStack') = Len(aStack) + 1
    BY <1>1, <1>3, SeqFacts
  <2>2. TypeSpec(c) \in Types
    BY <1>2 DEF Types
  <2>3. oOpaqueAssignment' \in Opaques
    BY <1>1, <1>3, <2>2, OpaqueFine
  <2>4. Taken(oFlagMap') \in SUBSET CodeNodes
    BY DEF Taken
  <2>5. Seen' = [m |-> oMatrix', opaque |-> oOpaqueAssignment', depth |-> Len(aStack) + 1, taken |-> Taken(oFlagMap')]
    BY <2>1, SeenNext
  <2>6. Len(aStack) + 1 \in Nat
    BY <1>3
  <2> QED BY <1>5, <2>1, <2>3, <2>4, <2>5, <2>6 DEF Snapshots
<1>8. Taken(oFlagMap) = IF pruned.ok THEN Taken(oFlagMap') \ {c} ELSE Taken(oFlagMap')
  <2>1. ~ IsAssigned(oFlagMap, c)
    BY DEF Refused
  <2>2. Taken(oFlagMap) = Taken(Flag(oFlagMap, c)) \ {c}
    BY <1>2, <2>1, TakenFine
  <2> QED BY <1>1, <2>2
<1> HIDE DEF opened
<1>9. /\ call2 \in Pass2Calls /\ call2.p = p /\ call2.c = c /\ call2.entry = Seen /\ call2.kind = call.kind
      /\ call2.opened = opened /\ call2.taken = pruned.ok
  <2>1. opened \in BOOLEAN
    BY DEF opened
  <2> QED BY <1>5, <2>1 DEF Pass2Calls
<1> HIDE DEF call2
<1>10. Pushed(call2)
  BY <1>9 DEF Pushed, opened
<1>11. CallOK(k, call2)
  BY <1>9 DEF CallOK
<1>12. Did(call2, Seen')
  <2>1. Seen'.opaque = IF call2.opened THEN [call2.entry.opaque EXCEPT ![Ref(call2.p)] = TypeSpec(call2.c)]
                       ELSE call2.entry.opaque
    BY <1>1, <1>3, <1>7, <1>9
  <2>2. call2.opened => call2.entry.opaque[Ref(call2.p)] = UNKNOWN
    BY <1>3, <1>6, <1>9
  <2>3. call2.entry.taken = IF call2.taken THEN Seen'.taken \ {call2.c} ELSE Seen'.taken
    BY <1>3, <1>7, <1>8, <1>9
  <2>4. Seen'.depth = call2.entry.depth + 1
    BY <1>3, <1>7, <1>9
  <2> QED BY <1>10, <2>1, <2>2, <2>3, <2>4 DEF Did
<1>13. Linked(Append(rest, call2), Seen', aStack')
  <2>1. Seen.m = oMatrix
    BY <1>3
  <2> QED BY <1>1, <1>3, <1>9, <1>10, <1>11, <1>12, <2>1, LinkedAppend
<1>14. NoneValid(oMatrix', Len(rest) + 1 + 1)
  BY <1>2, <1>5, NoneValidNext
<1>15. /\ calls' \in Seq(Pass2Calls) /\ calls' # <<>> /\ Last(calls') = call2
       /\ Len(calls') + 1 = Len(rest) + 1 + 1
  <2>1. /\ Append(rest, call2) \in Seq(Pass2Calls) /\ Append(rest, call2) # <<>>
        /\ Last(Append(rest, call2)) = call2 /\ Len(Append(rest, call2)) = Len(rest) + 1
    BY <1>9, AppendFacts
  <2> QED BY <1>1, <2>1
<1>16. control' \in {"call", "undo"}
  BY <1>1
<1>17. PICK ctl, cs, s, stack : ctl = control' /\ cs = calls' /\ s = Seen' /\ stack = aStack'
  OBVIOUS
<1>18. Reached(ctl, cs, s, stack)
  <2>1. s.m = oMatrix'
    BY <1>7, <1>17
  <2>2. cs \in Seq(Pass2Calls) /\ s \in Snapshots /\ stack \in Seq(Matrices)
    BY <1>7, <1>15, <1>17
  <2>3. Linked(cs, s, stack)
    BY <1>1, <1>13, <1>17
  <2>4. NoneValid(s.m, Len(cs) + 1)
    BY <1>14, <1>15, <1>17, <2>1
  <2>5. cs # <<>> /\ Pushed(Last(cs))
    BY <1>10, <1>15, <1>17
  <2> QED BY <1>16, <1>17, <2>2, <2>3, <2>4, <2>5 DEF Reached
<1> QED BY <1>5, <1>16, <1>17, <1>18, ReachedStays

\* A candidate loop goes on, or its call returns.
LEMMA AdvanceFine ==
  ASSUME CodeGiven, OrderGiven, Fixed, clock \in Int, skipped \in BOOLEAN,
         calls \in Seq(Pass2Calls), calls # <<>>, Caller.kind = "many", CallOK(Len(calls), Caller),
         NEW stack \in Seq(Matrices), stack = aStack', Seen' = Caller.entry,
         Linked(Front(calls), Caller.entry, stack), NEW m, Advance(m)
  PROVE  SearchInv' /\ control' \in {"return", "candidate"}
<1> DEFINE next == NextCandidate(m, Id(Caller.p), Caller.c)
           call2 == [Caller EXCEPT !.c = next, !.opened = FALSE, !.taken = FALSE]
           over == next = NoNode \/ Late(Current)
           rest == Front(calls)
<1>1. /\ clock' = Tick(Current).t /\ skipped' = (skipped \/ Skips(m, Id(Caller.p), Caller.c))
      /\ over => calls' = rest /\ control' = "return"
      /\ ~ over => calls' = Append(rest, call2) /\ control' = "candidate"
  BY DEF Advance
<1>2. clock' \in Int /\ skipped' \in BOOLEAN
  <2>1. clock' = IF clock <= 0 THEN clock ELSE clock - 1
    BY <1>1 DEF Tick, Current
  <2> QED BY <1>1, <2>1
<1>3. /\ rest \in Seq(Pass2Calls) /\ Caller \in Pass2Calls /\ Len(rest) = Len(calls) - 1 /\ Len(calls) \in Nat
  BY SeqFacts DEF Caller
<1>4. Caller.entry \in Snapshots
  BY <1>3, CallTypes
<1>5. next \in CodeNodes \cup {NoNode}
  BY LeastFine
<1> HIDE DEF next, rest
<1>6. PICK ctl, cs, s : ctl = control' /\ cs = calls' /\ s = Seen'
  OBVIOUS
<1>7. CASE over
  <2>1. ctl = "return" /\ cs = rest /\ s = Caller.entry
    BY <1>1, <1>6, <1>7
  <2>2. Reached(ctl, cs, s, stack)
    BY <1>3, <1>4, <2>1 DEF Reached, rest
  <2> QED BY <1>2, <1>6, <2>1, <2>2, ReachedStays
<1>8. CASE ~ over
  <2>1. ctl = "candidate" /\ cs = Append(rest, call2) /\ s = Caller.entry /\ next \in CodeNodes
    BY <1>1, <1>5, <1>6, <1>8
  <2>2. call2 \in Pass2Calls
    BY <1>3, <2>1 DEF Pass2Calls
  <2>3. call2.p = Caller.p /\ call2.kind = "many" /\ call2.entry = Caller.entry
    BY <1>3 DEF Pass2Calls
  <2> HIDE DEF call2
  <2>4. /\ cs \in Seq(Pass2Calls) /\ cs # <<>> /\ Last(cs) = call2 /\ Front(cs) = rest
        /\ Len(cs) = Len(rest) + 1
    BY <1>3, <2>1, <2>2, AppendFacts
  <2>5. Len(cs) = Len(calls)
    BY <1>3, <2>4
  <2>6. CallOK(Len(cs), Last(cs))
    BY <2>3, <2>4, <2>5 DEF CallOK
  <2>7. Reached(ctl, cs, s, stack)
    BY <1>4, <2>1, <2>3, <2>4, <2>6 DEF Reached, rest
  <2> QED BY <1>2, <1>6, <2>1, <2>7, ReachedStays
<1> QED BY <1>7, <1>8

(* The steps.  Each keeps the invariant, and what is undone is so. *)

Undone == control' \in {"return", "candidate"} => Seen' = IF control = "call" THEN Seen ELSE Caller.entry

\* What the invariant says while a variant is searched
LEMMA InvFacts ==
  ASSUME SearchInv, InPass2
  PROVE  /\ CodeGiven /\ OrderGiven /\ clock \in Int /\ skipped \in BOOLEAN
         /\ Reached(control, calls, Seen, aStack)
         /\ calls \in Seq(Pass2Calls) /\ Seen \in Snapshots /\ aStack \in Seq(Matrices)
BY DEF SearchInv, Reached

\* The first candidate of the node that is called for
LEMMA FirstFine ==
  ASSUME CodeGiven, OrderGiven, Len(calls) < Len(order), Len(calls) \in Nat, First # NoNode
  PROVE  /\ First \in CodeNodes /\ First \in Nat /\ IsCandidateType(GetAssignment(oMatrix, Id(Called), First))
         /\ Len(calls) + 1 \in 1 .. Len(order) /\ Called = order[Len(calls) + 1]
         /\ Called \in {order[k] : k \in DOMAIN order} /\ Id(Called) \in Nat
<1>1. First \in Candidates(oMatrix, Id(Called))
  BY LeastFine DEF First
<1>2. Len(calls) + 1 \in 1 .. Len(order) /\ Len(calls) + 1 \in DOMAIN order
  BY DEF OrderGiven
<1>3. Called = order[Len(calls) + 1]
  BY DEF Called
<1>4. Id(Called) \in Nat
  BY <1>2, <1>3 DEF OrderGiven
<1> QED BY <1>1, <1>2, <1>3, <1>4 DEF Candidates, CodeGiven

\* The end of the order is reached.
LEMMA CallOfEndInv == SearchInv /\ Fixed /\ CallOfEnd => SearchInv' /\ Undone
<1> SUFFICES ASSUME SearchInv, Fixed, CallOfEnd PROVE SearchInv' /\ Undone
  OBVIOUS
<1>1. /\ control = "call" /\ control' \in {"done", "return"}
      /\ UNCHANGED <<oMatrix, aStack, oFlagMap, oOpaqueAssignment, clock, skipped, calls>>
  BY DEF CallOfEnd
<1>2. Seen' = Seen
  BY <1>1 DEF Seen, Fixed, CodeNodes
<1>3. CASE control' = "done"
  <2>1. CodeGiven'
    BY DEF SearchInv, Fixed, CodeGiven, CodeNodes
  <2> QED BY <1>3, <2>1 DEF SearchInv, InPass2, Undone
<1>4. CASE control' = "return"
  <2>1. InPass2
    BY <1>1 DEF InPass2
  <2>2. PICK ctl, cs, s, stack : ctl = control' /\ cs = calls' /\ s = Seen' /\ stack = aStack'
    OBVIOUS
  <2>3. Reached(control, calls, Seen, aStack) /\ CodeGiven /\ OrderGiven /\ clock' \in Int /\ skipped' \in BOOLEAN
    BY <1>1, <2>1, InvFacts
  <2>4. Reached(ctl, cs, s, stack)
    <3>1. Reached(control, cs, s, stack)
      BY <1>1, <1>2, <2>2, <2>3
    <3>2. control = "call" /\ ctl = "return"
      BY <1>1, <1>4, <2>2
    <3> QED BY <3>1, <3>2 DEF Reached
  <2>5. SearchInv'
    BY <2>2, <2>3, <2>4, ReachedStays
  <2> QED BY <1>1, <1>2, <2>5 DEF Undone
<1> QED BY <1>1, <1>3, <1>4

\* A call without a candidate
LEMMA CallFailsInv == SearchInv /\ Fixed /\ CallFails => SearchInv' /\ Undone
<1> SUFFICES ASSUME SearchInv, Fixed, CallFails PROVE SearchInv' /\ Undone
  OBVIOUS
<1>1. /\ control = "call" /\ control' = "return"
      /\ UNCHANGED <<oMatrix, aStack, oFlagMap, oOpaqueAssignment, clock, skipped, calls>>
  BY DEF CallFails, InCall, Unsearched
<1>2. Seen' = Seen
  BY <1>1 DEF Seen, Fixed, CodeNodes
<1>3. InPass2
  BY <1>1 DEF InPass2
<1>4. PICK ctl, cs, s, stack : ctl = control' /\ cs = calls' /\ s = Seen' /\ stack = aStack'
  OBVIOUS
<1>5. Reached(control, calls, Seen, aStack) /\ CodeGiven /\ OrderGiven /\ clock' \in Int /\ skipped' \in BOOLEAN
  BY <1>1, <1>3, InvFacts
<1>6. Reached(ctl, cs, s, stack)
  <2>1. Reached(control, cs, s, stack)
    BY <1>1, <1>2, <1>4, <1>5
  <2>2. control = "call" /\ ctl = "return"
    BY <1>1, <1>4
  <2> QED BY <2>1, <2>2 DEF Reached
<1>7. SearchInv'
  BY <1>4, <1>5, <1>6, ReachedStays
<1> QED BY <1>1, <1>2, <1>7 DEF Undone

\* A call with several candidates goes to the first.
LEMMA CallManyInv == SearchInv /\ Fixed /\ CallMany => SearchInv' /\ Undone
<1> SUFFICES ASSUME SearchInv, Fixed, CallMany PROVE SearchInv' /\ Undone
  OBVIOUS
<1> DEFINE call == Pass2Call(Called, First, "many")
<1>1. /\ control = "call" /\ control' = "candidate" /\ First # NoNode /\ calls' = Append(calls, call)
      /\ Len(calls) < Len(order)
      /\ UNCHANGED <<oMatrix, aStack, oFlagMap, oOpaqueAssignment, clock, skipped>>
  BY DEF CallMany, InCall, Unsearched
<1>2. Seen' = Seen
  BY <1>1 DEF Seen, Fixed, CodeNodes
<1>3. InPass2
  BY <1>1 DEF InPass2
<1>4. PICK ctl, cs, s, stack : ctl = control' /\ cs = calls' /\ s = Seen' /\ stack = aStack'
  OBVIOUS
<1>5. /\ Reached(control, calls, Seen, aStack) /\ CodeGiven /\ OrderGiven /\ clock' \in Int /\ skipped' \in BOOLEAN
      /\ calls \in Seq(Pass2Calls) /\ Seen \in Snapshots /\ aStack \in Seq(Matrices)
  BY <1>1, <1>3, InvFacts
<1>6. Linked(calls, Seen, aStack) /\ NoneValid(Seen.m, Len(calls) + 1)
  BY <1>1, <1>5 DEF Reached
<1>7. Len(calls) \in Nat
  BY <1>5, SeqFacts
<1>8. /\ First \in CodeNodes /\ Len(calls) + 1 \in 1 .. Len(order) /\ Called = order[Len(calls) + 1]
      /\ Called \in {order[k] : k \in DOMAIN order}
  BY <1>1, <1>5, <1>7, FirstFine
<1>9. call \in Pass2Calls /\ call.kind = "many" /\ call.entry = Seen /\ call.p = Called
  BY <1>5, <1>8 DEF Pass2Call, Pass2Calls
<1> HIDE DEF call
<1>10. CallOK(Len(calls) + 1, call)
  BY <1>6, <1>8, <1>9 DEF CallOK
<1>11. /\ cs \in Seq(Pass2Calls) /\ cs # <<>> /\ Last(cs) = call /\ Front(cs) = calls /\ Len(cs) = Len(calls) + 1
  BY <1>1, <1>4, <1>5, <1>9, AppendFacts
<1>12. Reached(ctl, cs, s, stack)
  <2>1. ctl = "candidate" /\ s = Seen /\ stack = aStack
    BY <1>1, <1>2, <1>4
  <2> QED BY <1>5, <1>6, <1>9, <1>10, <1>11, <2>1 DEF Reached
<1>13. SearchInv'
  BY <1>4, <1>5, <1>12, ReachedStays
<1> QED BY <1>1, <1>2, <1>13 DEF Undone

\* A call with one candidate, that is not refused
LEMMA CallSingleInv == SearchInv /\ Fixed /\ CallSingle => SearchInv' /\ Undone
<1> SUFFICES ASSUME SearchInv, Fixed, CallSingle PROVE SearchInv' /\ Undone
  OBVIOUS
<1> DEFINE call == Pass2Call(Called, First, "single")
           call2 == [call EXCEPT !.taken = TRUE]
<1>1. /\ control = "call" /\ First # NoNode /\ ~ Refused(Called, First) /\ Len(calls) < Len(order)
  BY DEF CallSingle, InCall, IsSingle
<1>2. InPass2
  BY <1>1 DEF InPass2
<1>3. /\ Reached(control, calls, Seen, aStack) /\ CodeGiven /\ OrderGiven /\ clock \in Int /\ skipped \in BOOLEAN
      /\ calls \in Seq(Pass2Calls) /\ Seen \in Snapshots /\ aStack \in Seq(Matrices)
  BY <1>2, InvFacts
<1>4. Linked(calls, Seen, aStack) /\ NoneValid(Seen.m, Len(calls) + 1)
  BY <1>1, <1>3 DEF Reached
<1>5. Len(calls) \in Nat
  BY <1>3, SeqFacts
<1>6. /\ First \in CodeNodes /\ First \in Nat /\ IsCandidateType(GetAssignment(oMatrix, Id(Called), First))
      /\ Len(calls) + 1 \in 1 .. Len(order) /\ Called = order[Len(calls) + 1] /\ Id(Called) \in Nat
      /\ Called \in {order[k] : k \in DOMAIN order}
  BY <1>1, <1>3, <1>5, FirstFine
<1>7. /\ call \in Pass2Calls /\ call.kind = "single" /\ call.entry = Seen /\ call.p = Called /\ call.c = First
      /\ call2 \in Pass2Calls /\ call2.kind = "single" /\ call2.entry = Seen /\ call2.p = Called
      /\ call2.c = First /\ call2.opened = FALSE /\ call2.taken = TRUE
  BY <1>3, <1>6 DEF Pass2Call, Pass2Calls
<1>8. CallOK(Len(calls) + 1, call) /\ CallOK(Len(calls) + 1, call2)
  <2> HIDE DEF call, call2
  <2> QED BY <1>4, <1>5, <1>6, <1>7 DEF CallOK
<1>9. CASE OpaqueStatus(Called, First) = "OK"
  <2>1. Explore(call, calls)
    BY <1>9 DEF CallSingle
  <2> HIDE DEF call, call2
  <2>2. PICK cs : cs = calls
    OBVIOUS
  <2>3. Explore(call, cs)
    BY <2>1, <2>2
  <2>4. ~ Refused(call.p, call.c) /\ OpaqueStatus(call.p, call.c) = "OK"
    BY <1>1, <1>7, <1>9
  <2>5. SearchInv' /\ control' \in {"call", "undo"}
    BY <1>3, <1>4, <1>7, <1>8, <2>2, <2>3, <2>4, ExploreFine
  <2> QED BY <2>5 DEF Undone
<1>10. CASE OpaqueStatus(Called, First) # "OK"
  <2>1. /\ oMatrix' = Assign(oMatrix, Id(Called), First, Valid, FALSE)
        /\ oFlagMap' = Flag(oFlagMap, First)
        /\ calls' = Append(calls, call2)
        /\ UNCHANGED <<clock, skipped, aStack, oOpaqueAssignment, control>>
    BY <1>10 DEF CallSingle
  <2> HIDE DEF call, call2
  <2>2. /\ oMatrix \in Matrices /\ oOpaqueAssignment \in Opaques
        /\ Seen = [m |-> oMatrix, opaque |-> oOpaqueAssignment, depth |-> Len(aStack), taken |-> Taken(oFlagMap)]
        /\ Len(aStack) \in Nat
    BY <1>3, SeenNow, SeqFacts
  <2>3. GetAssignment(oMatrix, Id(Called), First) = Undefined
    <3>1. GetAssignment(oMatrix, Id(Called), First) # Valid
      <4>1. Len(calls) + 1 \in Len(calls) + 1 .. Len(order)
        BY <1>5, <1>6
      <4>2. Seen.m = oMatrix
        BY <2>2
      <4> QED BY <1>4, <1>6, <4>1, <4>2 DEF NoneValid
    <3> QED BY <1>6, <3>1 DEF IsCandidateType
  <2>4. oMatrix' \in Matrices /\ OnlyValidIn({Id(Called)}, oMatrix, oMatrix')
    <3>1. Valid \in Numbers
      BY DEF Valid, Numbers
    <3> QED BY <1>6, <2>1, <2>2, <3>1, AssignFine
  <2>5. Taken(oFlagMap) = Taken(oFlagMap') \ {First}
    <3>1. ~ IsAssigned(oFlagMap, First)
      BY <1>1 DEF Refused
    <3> QED BY <1>3, <1>6, <2>1, <3>1, TakenFine
  <2>6. /\ Seen' = [m |-> oMatrix', opaque |-> oOpaqueAssignment, depth |-> Len(aStack), taken |-> Taken(oFlagMap')]
        /\ Seen' \in Snapshots
    <3>1. Seen' = [m |-> oMatrix', opaque |-> oOpaqueAssignment, depth |-> Len(aStack), taken |-> Taken(oFlagMap')]
      BY <2>1, SeenNext
    <3>2. Taken(oFlagMap') \in SUBSET CodeNodes
      BY DEF Taken
    <3> QED BY <2>2, <2>4, <3>1, <3>2 DEF Snapshots
  <2>7. ~ Pushed(call2)
    BY <1>7 DEF Pushed
  <2>8. Did(call2, Seen')
    <3>1. Seen'.opaque = call2.entry.opaque /\ ~ call2.opened
      BY <1>7, <2>2, <2>6
    <3>2. call2.taken /\ call2.entry.taken = Seen'.taken \ {call2.c}
      BY <1>7, <2>2, <2>5, <2>6
    <3>3. /\ Seen'.depth = call2.entry.depth
          /\ GetAssignment(call2.entry.m, Id(call2.p), call2.c) = Undefined
          /\ Seen'.m = Assign(call2.entry.m, Id(call2.p), call2.c, Valid, FALSE)
      BY <1>7, <2>1, <2>2, <2>3, <2>6
    <3> QED BY <2>7, <3>1, <3>2, <3>3 DEF Did
  <2>9. PICK ctl, cs, s, stack : ctl = control' /\ cs = calls' /\ s = Seen' /\ stack = aStack'
    OBVIOUS
  <2>10. cs \in Seq(Pass2Calls) /\ Len(cs) = Len(calls) + 1
    BY <1>3, <1>7, <2>1, <2>9, AppendFacts
  <2>11. Linked(cs, s, stack)
    <3>1. Seen.m \in Matrices /\ stack = aStack
      BY <2>1, <2>2, <2>9
    <3> QED BY <1>3, <1>4, <1>7, <1>8, <2>1, <2>7, <2>8, <2>9, <3>1, LinkedAppend
  <2>12. NoneValid(oMatrix', Len(calls) + 1 + 1)
    <3>1. NoneValid(oMatrix, Len(calls) + 1)
      BY <1>4, <2>2
    <3> QED BY <1>3, <1>6, <2>4, <3>1, NoneValidNext
  <2>13. Reached(ctl, cs, s, stack)
    <3>1. ctl = "call" /\ s.m = oMatrix'
      BY <1>1, <2>1, <2>6, <2>9
    <3>2. s \in Snapshots /\ stack \in Seq(Matrices) /\ NoneValid(s.m, Len(cs) + 1)
      BY <1>3, <2>1, <2>6, <2>9, <2>10, <2>12, <3>1
    <3> QED BY <2>10, <2>11, <3>1, <3>2 DEF Reached
  <2>14. SearchInv'
    BY <1>3, <2>1, <2>9, <2>13, ReachedStays
  <2> QED BY <1>1, <2>1, <2>14 DEF Undone
<1> QED BY <1>9, <1>10

\* A candidate that is not refused
LEMMA TryCandidateInv == SearchInv /\ Fixed /\ TryCandidate => SearchInv' /\ Undone
<1> SUFFICES ASSUME SearchInv, Fixed, TryCandidate PROVE SearchInv' /\ Undone
  OBVIOUS
<1>1. control = "candidate" /\ ~ Refused(Caller.p, Caller.c) /\ Explore(Caller, Front(calls))
  BY DEF TryCandidate
<1>2. InPass2
  BY <1>1 DEF InPass2
<1>3. /\ Reached(control, calls, Seen, aStack) /\ CodeGiven /\ OrderGiven /\ clock \in Int /\ skipped \in BOOLEAN
      /\ calls \in Seq(Pass2Calls) /\ Seen \in Snapshots /\ aStack \in Seq(Matrices)
  BY <1>2, InvFacts
<1>4. /\ calls # <<>> /\ Caller.kind = "many" /\ Caller.entry = Seen /\ CallOK(Len(calls), Caller)
      /\ Linked(Front(calls), Seen, aStack)
  BY <1>1, <1>3 DEF Reached, Caller
<1>5. /\ Front(calls) \in Seq(Pass2Calls) /\ Len(Front(calls)) = Len(calls) - 1 /\ Len(calls) \in Nat
      /\ Caller \in Pass2Calls
  BY <1>3, <1>4, SeqFacts DEF Caller
<1>6. PICK rest, call : rest = Front(calls) /\ call = Caller
  OBVIOUS
<1>7. Explore(call, rest)
  BY <1>1, <1>6
<1>8. Len(rest) + 1 = Len(calls)
  BY <1>5, <1>6
<1>9. SearchInv' /\ control' \in {"call", "undo"}
  BY <1>1, <1>3, <1>4, <1>5, <1>6, <1>7, <1>8, ExploreFine
<1> QED BY <1>9 DEF Undone

\* A candidate that is taken, or of another type than its reference
LEMMA RefuseCandidateInv == SearchInv /\ Fixed /\ RefuseCandidate => SearchInv' /\ Undone
<1> SUFFICES ASSUME SearchInv, Fixed, RefuseCandidate PROVE SearchInv' /\ Undone
  OBVIOUS
<1>1. control = "candidate" /\ Advance(oMatrix) /\ UNCHANGED <<oMatrix, aStack, oOpaqueAssignment, oFlagMap>>
  BY DEF RefuseCandidate
<1>2. InPass2
  BY <1>1 DEF InPass2
<1>3. /\ Reached(control, calls, Seen, aStack) /\ CodeGiven /\ OrderGiven /\ clock \in Int /\ skipped \in BOOLEAN
      /\ calls \in Seq(Pass2Calls) /\ Seen \in Snapshots /\ aStack \in Seq(Matrices)
  BY <1>2, InvFacts
<1>4. /\ calls # <<>> /\ Caller.kind = "many" /\ Caller.entry = Seen /\ CallOK(Len(calls), Caller)
      /\ Linked(Front(calls), Seen, aStack)
  BY <1>1, <1>3 DEF Reached, Caller
<1>5. Seen' = Seen
  BY <1>1 DEF Seen, Fixed, CodeNodes
<1>6. PICK stack, m : stack = aStack /\ m = oMatrix
  OBVIOUS
<1>7. Advance(m) /\ stack = aStack' /\ stack \in Seq(Matrices) /\ Linked(Front(calls), Caller.entry, stack)
  BY <1>1, <1>3, <1>4, <1>6
<1>8. SearchInv'
  BY <1>3, <1>4, <1>5, <1>7, AdvanceFine
<1> QED BY <1>1, <1>4, <1>5, <1>8 DEF Undone

\* A call that has failed gives back what it took.
LEMMA UndoFine ==
  ASSUME CodeGiven, Fixed, Undo, Seen \in Snapshots, Caller \in Pass2Calls, Did(Caller, Seen),
         oMatrix' = Caller.entry.m, Len(aStack') = Caller.entry.depth
  PROVE  Seen' = Caller.entry
<1> DEFINE e == Caller.entry
<1>1. /\ oOpaqueAssignment \in Opaques
      /\ Seen = [m |-> oMatrix, opaque |-> oOpaqueAssignment, depth |-> Len(aStack), taken |-> Taken(oFlagMap)]
  BY SeenNow
<1>2. /\ e \in Snapshots /\ e.opaque \in Opaques /\ Caller.c \in CodeNodes
  BY CallTypes
<1>3. oOpaqueAssignment' = e.opaque
  <2>1. CASE Caller.opened
    <3>1. /\ oOpaqueAssignment = [e.opaque EXCEPT ![Ref(Caller.p)] = TypeSpec(Caller.c)]
          /\ e.opaque[Ref(Caller.p)] = UNKNOWN
      BY <1>1, <2>1 DEF Did
    <3>2. oOpaqueAssignment' = [oOpaqueAssignment EXCEPT ![Ref(Caller.p)] = UNKNOWN]
      BY <2>1 DEF Undo, UndoOpaque
    <3> QED BY <1>2, <3>1, <3>2, OpaqueFine
  <2>2. CASE ~ Caller.opened
    <3>1. oOpaqueAssignment = e.opaque
      BY <1>1, <2>2 DEF Did
    <3> QED BY <2>2, <3>1 DEF Undo, UndoOpaque
  <2> QED BY <2>1, <2>2
<1>4. Taken(oFlagMap') = e.taken
  <2>1. e.taken = IF Caller.taken THEN Taken(oFlagMap) \ {Caller.c} ELSE Taken(oFlagMap)
    BY <1>1 DEF Did
  <2>2. oFlagMap' = IF Caller.taken THEN Unflag(oFlagMap, Caller.c) ELSE oFlagMap
    BY DEF Undo
  <2> QED BY <1>2, <2>1, <2>2, TakenFine
<1>5. e = [m |-> e.m, opaque |-> e.opaque, depth |-> e.depth, taken |-> e.taken]
  BY <1>2 DEF Snapshots
<1> HIDE DEF e
<1>6. Seen' = [m |-> e.m, opaque |-> e.opaque, depth |-> e.depth, taken |-> e.taken]
  BY <1>3, <1>4, SeenNext DEF e
<1> QED BY <1>5, <1>6 DEF e

\* What a call that failed leaves to the one before
LEMMA UndoneFine ==
  ASSUME CodeGiven, OrderGiven, Fixed, calls \in Seq(Pass2Calls), calls # <<>>,
         NEW stack \in Seq(Matrices), stack = aStack', Linked(Front(calls), Caller.entry, stack),
         Seen' = Caller.entry, calls' = Front(calls), control' = "return",
         clock' \in Int, skipped' \in BOOLEAN
  PROVE  SearchInv'
<1>1. PICK ctl, cs, s : ctl = control' /\ cs = calls' /\ s = Seen'
  OBVIOUS
<1>2. cs \in Seq(Pass2Calls) /\ Caller \in Pass2Calls
  BY <1>1, SeqFacts DEF Caller
<1>3. s \in Snapshots
  BY <1>1, <1>2, CallTypes
<1>4. Reached(ctl, cs, s, stack)
  <2>1. ctl = "return" /\ Linked(cs, s, stack)
    BY <1>1
  <2> QED BY <1>2, <1>3, <2>1 DEF Reached
<1> QED BY <1>1, <1>4, ReachedStays

\* A call that pushed no matrix takes its assignment back.
LEMMA UndoUnpushedInv == SearchInv /\ Fixed /\ UndoUnpushed => SearchInv' /\ Undone
<1> SUFFICES ASSUME SearchInv, Fixed, UndoUnpushed PROVE SearchInv' /\ Undone
  OBVIOUS
<1>1. /\ Undo /\ Caller.kind = "single" /\ ~ Caller.opened
      /\ oMatrix' = Assign(oMatrix, Id(Caller.p), Caller.c, Undefined, FALSE)
      /\ calls' = Front(calls)
      /\ UNCHANGED <<aStack, control, clock, skipped>>
  BY DEF UndoUnpushed
<1>2. InPass2
  BY <1>1 DEF InPass2, Undo
<1>3. /\ Reached(control, calls, Seen, aStack) /\ CodeGiven /\ OrderGiven /\ clock \in Int /\ skipped \in BOOLEAN
      /\ calls \in Seq(Pass2Calls) /\ Seen \in Snapshots /\ aStack \in Seq(Matrices)
  BY <1>2, InvFacts
<1>4. ~ Pushed(Caller)
  BY <1>1 DEF Pushed
<1>5. control = "return" /\ calls # <<>> /\ Linked(calls, Seen, aStack)
  <2>1. control # "undo"
    BY <1>3, <1>4 DEF Reached, Caller
  <2>2. control = "return" /\ calls # <<>>
    BY <1>1, <2>1 DEF Undo
  <2> QED BY <1>3, <2>2 DEF Reached
<1>6. PICK call, stack : call = Caller /\ stack = aStack
  OBVIOUS
<1>7. /\ Linked(Front(calls), call.entry, stack)
      /\ CallOK(Len(calls), call) /\ Did(call, Seen)
      /\ call \in Pass2Calls /\ Len(stack) = call.entry.depth
  <2>1. call = Last(calls) /\ stack = IF Pushed(call) THEN Front(aStack) ELSE aStack
    BY <1>4, <1>6 DEF Caller
  <2> QED BY <1>3, <1>5, <2>1, LinkedFront
<1>8. oMatrix' = call.entry.m
  <2>1. /\ GetAssignment(call.entry.m, Id(call.p), call.c) = Undefined
        /\ Seen.m = Assign(call.entry.m, Id(call.p), call.c, Valid, FALSE)
    BY <1>4, <1>6, <1>7 DEF Did
  <2>2. Seen.m = oMatrix
    BY DEF Seen
  <2>3. call.entry.m \in Matrices /\ call.c \in Nat
    BY <1>3, <1>7, CallTypes DEF CodeGiven
  <2>4. Id(call.p) \in Nat
    <3>1. Len(calls) \in DOMAIN order
      BY <1>3, <1>5, <1>7, SeqFacts DEF CallOK, OrderGiven
    <3> QED BY <1>3, <1>7, <3>1 DEF CallOK, OrderGiven
  <2>5. Assign(Assign(call.entry.m, Id(call.p), call.c, Valid, FALSE), Id(call.p), call.c, Undefined, FALSE)
        = call.entry.m
    BY <2>1, <2>3, <2>4, AssignUndone
  <2> QED BY <1>1, <1>6, <2>1, <2>2, <2>5
<1>9. Seen' = Caller.entry
  BY <1>1, <1>3, <1>6, <1>7, <1>8, UndoFine
<1>10. SearchInv'
  BY <1>1, <1>3, <1>5, <1>6, <1>7, <1>9, UndoneFine
<1> QED BY <1>5, <1>9, <1>10 DEF Undone

\* PopMatrix, and the next candidate of a loop
LEMMA UndoPushedInv == SearchInv /\ Fixed /\ UndoPushed => SearchInv' /\ Undone
<1> SUFFICES ASSUME SearchInv, Fixed, UndoPushed PROVE SearchInv' /\ Undone
  OBVIOUS
<1>1. /\ Undo /\ (Caller.kind = "many" \/ Caller.opened)
      /\ oMatrix' = Last(aStack) /\ aStack' = Front(aStack)
      /\ Caller.kind = "many" => Advance(Last(aStack))
      /\ Caller.kind # "many" => calls' = Front(calls) /\ control' = "return" /\ UNCHANGED <<clock, skipped>>
  BY DEF UndoPushed
<1>2. InPass2 /\ control \in {"undo", "return"} /\ control # "call"
  BY <1>1 DEF InPass2, Undo
<1>3. /\ Reached(control, calls, Seen, aStack) /\ CodeGiven /\ OrderGiven /\ clock \in Int /\ skipped \in BOOLEAN
      /\ calls \in Seq(Pass2Calls) /\ Seen \in Snapshots /\ aStack \in Seq(Matrices)
  BY <1>2, InvFacts
<1>4. Pushed(Caller)
  BY <1>1 DEF Pushed
<1>5. calls # <<>> /\ Linked(calls, Seen, aStack)
  BY <1>1, <1>2, <1>3 DEF Reached, Undo
<1>6. PICK call, stack, m : call = Caller /\ stack = aStack' /\ m = Last(aStack)
  OBVIOUS
<1>7. /\ Linked(Front(calls), call.entry, stack)
      /\ CallOK(Len(calls), call) /\ Did(call, Seen) /\ Last(aStack) = call.entry.m
      /\ call \in Pass2Calls /\ Len(stack) = call.entry.depth /\ stack \in Seq(Matrices)
  <2>1. call = Last(calls) /\ stack = IF Pushed(call) THEN Front(aStack) ELSE aStack
    BY <1>1, <1>4, <1>6 DEF Caller
  <2>2. Pushed(call)
    BY <1>4, <1>6
  <2> QED BY <1>3, <1>5, <2>1, <2>2, LinkedFront
<1>8. Seen' = Caller.entry
  BY <1>1, <1>3, <1>6, <1>7, UndoFine
<1>9. SearchInv'
  <2>1. CASE Caller.kind = "many"
    <3>1. Advance(m)
      BY <1>1, <1>6, <2>1
    <3> QED BY <1>3, <1>5, <1>6, <1>7, <1>8, <2>1, <3>1, AdvanceFine
  <2>2. CASE Caller.kind # "many"
    <3>1. calls' = Front(calls) /\ control' = "return" /\ clock' \in Int /\ skipped' \in BOOLEAN
      BY <1>1, <1>3, <2>2
    <3> QED BY <1>3, <1>5, <1>6, <1>7, <1>8, <3>1, UndoneFine
  <2> QED BY <2>1, <2>2
<1> QED BY <1>2, <1>8, <1>9 DEF Undone

\* What Pass 1 leaves begins a search.
LEMMA ReadyInv == CodeGiven /\ VariantReady => SearchInv
<1> SUFFICES ASSUME CodeGiven, VariantReady, InPass2
             PROVE  Reached(control, calls, Seen, aStack)
  BY DEF SearchInv, VariantReady
<1>1. control = "call" /\ calls = <<>> /\ aStack = <<>> /\ oMatrix \in Matrices /\ NoneValid(oMatrix, 1)
  BY DEF VariantReady, InPass2
<1>2. oOpaqueAssignment \in Opaques
  <2>1. PICK R \in SUBSET Int : oOpaqueAssignment = [r \in R |-> UNKNOWN]
    BY DEF VariantReady
  <2>2. oOpaqueAssignment \in [R -> Types]
    BY <2>1 DEF Types
  <2> QED BY <2>2 DEF Opaques
<1>3. Len(aStack) = 0 /\ Len(calls) = 0
  BY <1>1
<1>4. Seen \in Snapshots /\ Seen.depth = Len(aStack) /\ Seen.m = oMatrix
  BY <1>1, <1>2, <1>3 DEF Seen, Snapshots
<1>5. Linked(calls, Seen, aStack)
  <2>1. 1 .. Len(calls) = {}
    BY <1>3
  <2> QED BY <1>4, <2>1 DEF Linked
<1>6. NoneValid(Seen.m, Len(calls) + 1)
  <2>1. Len(calls) + 1 = 1
    BY <1>3
  <2> QED BY <1>1, <1>4, <2>1
<1>7. calls \in Seq(Pass2Calls) /\ aStack \in Seq(Matrices)
  BY <1>1
<1> QED BY <1>1, <1>4, <1>5, <1>6, <1>7 DEF Reached

LEMMA SearchStep ==
  SearchInv /\ [SearchNext]_<<evaluatorVars, heap, aIdMap>> => SearchInv' /\ [Undone]_evaluatorVars
<1>1. VariantReady' /\ CodeGiven' => SearchInv'
  BY ReadyInv, PTL
<1> SUFFICES ASSUME SearchInv, [SearchNext]_<<evaluatorVars, heap, aIdMap>>
             PROVE  SearchInv' /\ [Undone]_evaluatorVars
  OBVIOUS
<1>2. aIdMap' = aIdMap
  BY DEF SearchNext
<1>3. CodeGiven'
  BY <1>2 DEF SearchInv, CodeGiven, CodeNodes
<1>4. CASE VariantReady'
  BY <1>1, <1>3, <1>4 DEF VariantReady, Undone
<1>5. CASE NextVariant
  <2>1. control' \in {"done", "variant"}
    BY <1>5 DEF NextVariant
  <2>2. ~ InPass2'
    BY <2>1 DEF InPass2
  <2> QED BY <1>3, <2>1, <2>2 DEF SearchInv, Undone
<1>6. CASE Pass2 /\ UNCHANGED <<variant, order, variants, heap, aIdMap>>
  <2>1. Fixed
    BY <1>6 DEF Fixed
  <2> QED BY <1>6, <2>1, CallOfEndInv, CallFailsInv, CallSingleInv, CallManyInv, TryCandidateInv,
             RefuseCandidateInv, UndoUnpushedInv, UndoPushedInv DEF Pass2
<1>7. CASE UNCHANGED <<evaluatorVars, heap, aIdMap>>
  <2>1. Fixed /\ control' = control /\ calls' = calls /\ aStack' = aStack /\ clock' = clock
        /\ skipped' = skipped /\ Seen' = Seen
    BY <1>7 DEF evaluatorVars, Fixed, Seen, CodeNodes
  <2>2. SearchInv'
    <3>1. CASE InPass2
      <4>1. PICK ctl, cs, s, stack : ctl = control' /\ cs = calls' /\ s = Seen' /\ stack = aStack'
        OBVIOUS
      <4>2. CodeGiven /\ OrderGiven /\ clock \in Int /\ skipped \in BOOLEAN /\ Reached(ctl, cs, s, stack)
        BY <2>1, <3>1, <4>1, InvFacts
      <4> QED BY <2>1, <4>1, <4>2, ReachedStays
    <3>2. CASE ~ InPass2
      <4>1. ~ InPass2'
        BY <2>1, <3>2 DEF InPass2
      <4> QED BY <1>3, <4>1 DEF SearchInv
    <3> QED BY <3>1, <3>2
  <2>3. [Undone]_evaluatorVars
    BY <1>7
  <2> QED BY <2>2, <2>3
<1> QED BY <1>4, <1>5, <1>6, <1>7 DEF SearchNext

\* A call of Pass2Recurse that fails, and a loop that goes on to the next candidate, leave
\* the matrix, the taken nodes, the types of the references and the stack as the call found
\* them: for any graphs, any size of the entries of the matrix, whatever Pass 1 leaves and
\* however the branch failed.
THEOREM BranchesUndoneCorrect == SearchSpec => BranchesUndone
<1>1. SearchInit => SearchInv
  BY DEF SearchInit, SearchInv, InPass2
<1>2. SearchSpec => [][Undone]_evaluatorVars
  BY <1>1, SearchStep, PTL DEF SearchSpec
<1> QED BY <1>2 DEF BranchesUndone, Undone

===============================================================================
