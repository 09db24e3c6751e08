------------------------------ MODULE Cleanup ------------------------------
(***************************************************************************)
(* Data flow graphs as objects in memory, and what BrokerImpl::Cleanup     *)
(* (src/src/Broker.cpp) does to one: a node goes when nothing that stays   *)
(* uses it and nothing says to keep it.                                    *)
(*                                                                         *)
(* Every container of nodes but aInputNodes is a hash table, iterated in an*)
(* order that is open: Cleanup takes a step for every node, in any order.  *)
(***************************************************************************)
EXTENDS Integers, FiniteSets, SequencesExt

VARIABLES
  heap,       \* for each pointer <<graph, dwNodeId>> that was in use, the node
  aIdMap,     \* for each graph, its nodes: from dwNodeId to pointer
  aCalls,     \* the calls of Cleanup_Impl in progress: for each, the nodes it has still to come to
  aScheduledForRemoval

cleanupVars == <<heap, aIdMap, aCalls, aScheduledForRemoval>>

Id(p) == p[2]
Nodes(g) == {aIdMap[g][id] : id \in DOMAIN aIdMap[g]}

\* The arcs of a graph: each node is tied to its inputs, by pointers that stay
\* inside the graph, and to what it is an input of.
Tied(g) ==
  \A id \in DOMAIN aIdMap[g] :
    LET p == aIdMap[g][id]
        n == heap[p]
    IN /\ p = <<g, id>>
       /\ n.unique = ToSet(n.in) /\ n.unique \subseteq Nodes(g)
       /\ n.out = {q \in Nodes(g) : p \in heap[q].unique}

------------------------------------------------------------------------------
StartCleanup(g) ==
  /\ aCalls' = <<Nodes(g)>>
  /\ aScheduledForRemoval' = {}
  /\ UNCHANGED <<heap, aIdMap>>

ChildrenRemoved(p) == {c \in aScheduledForRemoval : p \in heap[c].unique}

\* aNumChildrenRemoved has as many nodes as aOutputNodes
Unused(p) == Cardinality(ChildrenRemoved(p)) = Cardinality(heap[p].out)

\* Faulty variant: the inputs of a removed node are not looked at again.
Removal_NotUpwards(calls, p) == calls

Removal(calls, p) == Append(calls, heap[p].unique \ aScheduledForRemoval)

\* Cleanup_Impl of the next node p of the innermost call.  It returns at once from a
\* node that is scheduled; these calls are left out.
CleanNode(ShouldClean(_), p) ==
  LET removed == Unused(p) /\ ShouldClean(p)
      rest == IF removed THEN [i \in DOMAIN aCalls |-> aCalls[i] \ {p}]
              ELSE [aCalls EXCEPT ![Len(aCalls)] = @ \ {p}]
  IN /\ aCalls # <<>> /\ p \in Last(aCalls)
     /\ aScheduledForRemoval' = IF removed THEN aScheduledForRemoval \cup {p}
                                ELSE aScheduledForRemoval
     /\ aCalls' = IF removed THEN Removal(rest, p) ELSE rest
     /\ UNCHANGED <<heap, aIdMap>>

CleanupReturns ==
  /\ Len(aCalls) > 1 /\ Last(aCalls) = {}
  /\ aCalls' = Front(aCalls)
  /\ UNCHANGED <<heap, aIdMap, aScheduledForRemoval>>

\* RemoveNode of the scheduled nodes in turn unties them from their inputs and their outputs.
Untied(p) ==
  IF p \in aScheduledForRemoval THEN [heap[p] EXCEPT !.out = {}, !.unique = {}]
  ELSE [heap[p] EXCEPT !.out = @ \ ChildrenRemoved(p)]

\* The loop at the end of Cleanup
RemoveScheduled(g) ==
  /\ aCalls = <<{}>>
  /\ heap' = [p \in DOMAIN heap |-> Untied(p)]
  /\ aIdMap' = [aIdMap EXCEPT ![g] =
                  [id \in {i \in DOMAIN @ : @[i] \notin aScheduledForRemoval} |-> @[id]]]
  /\ aCalls' = <<>>
  /\ UNCHANGED aScheduledForRemoval

==============================================================================
