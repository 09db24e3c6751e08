------------------------------ MODULE DFGraph ------------------------------
(***************************************************************************)
(* The graph of a function: DFGraphImpl (src/src/DFGraph.cpp) with its     *)
(* nodes (src/src/DFGNode.cpp), made of expressions, its fork by           *)
(* CodeBrokerImpl (src/src/Broker.cpp), a step for every node in any order,*)
(* and what CodeBrokerImpl keeps of it when it is cleaned.                 *)
(***************************************************************************)
EXTENDS Expression, Cleanup

CONSTANTS
  Graphs,     \* names of graphs
  MaxDepth,   \* dwStackSize of CopyNode (10000)
  SP          \* the register that points to the stack (13)

VARIABLE todo   \* the nodes a fork in progress has still to come to

graphVars == <<cleanupVars, todo>>

NullPtr == <<>>

------------------------------------------------------------------------------
(* Building a graph of expressions.                                        *)

\* BrokerImpl::FindNode: t and what it is made of are added to the nodes, unless the
\* graph has one with the same idx(); the inputs of a node come before it.
RECURSIVE FindNode(_, _)
FindNode(nodes, t) ==
  IF t \in ToSet(nodes) THEN nodes ELSE Append(FoldLeft(FindNode, nodes, t.in), t)

\* InsertNode of the nodes in turn, each tied to its inputs
InsertNodes(g, nodes) ==
  LET id(t) == SelectInSeq(nodes, LAMBDA x : x = t) - 1
      outputs(t) == {x \in ToSet(nodes) : t \in ToSet(x.in)}
      pointers(terms) == {<<g, id(t)>> : t \in terms}
  IN [p \in pointers(ToSet(nodes)) |->
        LET t == nodes[Id(p) + 1]
        IN [op |-> t.op, v |-> t.v, in |-> [i \in DOMAIN t.in |-> <<g, id(t.in[i])>>],
            unique |-> pointers(ToSet(t.in)), out |-> pointers(outputs(t))]]

\* The expression of a node
RECURSIVE Term(_, _)
Term(hp, p) == [op |-> hp[p].op, v |-> hp[p].v,
                in |-> [i \in DOMAIN hp[p].in |-> Term(hp, hp[p].in[i])]]

------------------------------------------------------------------------------
(* DFGraphImpl::fork.  A copy keeps the dwNodeId; the inputs of a node are *)
(* copied before it.                                                       *)

\* h is a record of heap and aIdMap: p is a new node of its graph, and an output of its
\* inputs.
Tie(h, p, op, v, in) ==
  [heap |-> FoldSet(LAMBDA q, hp : [hp EXCEPT ![q].out = @ \cup {p}],
                    (p :> [op |-> op, v |-> v, in |-> in, unique |-> ToSet(in), out |-> {}]) @@ h.heap,
                    ToSet(in)),
   aIdMap |-> [h.aIdMap EXCEPT ![p[1]] = (Id(p) :> p) @@ @]]

\* Faulty variant: the copy has the inputs of the original.
CopyNode_SharesInputs(h, f, p, depth) ==
  IF Id(p) \in DOMAIN h.aIdMap[f] THEN [h |-> h, p |-> h.aIdMap[f][Id(p)]]
  ELSE IF depth = 0 THEN [h |-> h, p |-> NullPtr]
  ELSE [h |-> Tie(h, <<f, Id(p)>>, h.heap[p].op, h.heap[p].v, h.heap[p].in),
        p |-> <<f, Id(p)>>]

RECURSIVE CopyNode(_, _, _, _)
CopyNode(h, f, p, depth) ==
  LET n == h.heap[p]
      step(acc, q) == LET r == CopyNode(acc.h, f, q, depth - 1)
                      IN IF acc.null THEN acc
                         ELSE [h |-> r.h, in |-> Append(acc.in, r.p), null |-> r.p = NullPtr]
      inputs == FoldLeft(step, [h |-> h, in |-> <<>>, null |-> FALSE], n.in)
      copy == <<f, Id(p)>>
  IN IF Id(p) \in DOMAIN h.aIdMap[f] THEN [h |-> h, p |-> h.aIdMap[f][Id(p)]]
     ELSE IF depth = 0 \/ inputs.null THEN [h |-> h, p |-> NullPtr]
     ELSE [h |-> Tie(inputs.h, copy, n.op, n.v, inputs.in), p |-> copy]

Memory == [heap |-> heap, aIdMap |-> aIdMap]

\* A round of the loop of fork, into graph f, that finds node p.  The rounds that find
\* a node with a copy do nothing and are left out.
ForkNode(f, p) ==
  LET r == CopyNode(Memory, f, p, MaxDepth)
  IN /\ p \in todo
     /\ r.p # NullPtr
     /\ heap' = r.h.heap /\ aIdMap' = r.h.aIdMap
     /\ todo' = {q \in todo : Id(q) \notin DOMAIN r.h.aIdMap[f]}
     /\ UNCHANGED <<aCalls, aScheduledForRemoval>>

\* A node below more than MaxDepth others that have no copy yet: fork returns nullptr.
ForkFails(f, p) ==
  /\ p \in todo
  /\ CopyNode(Memory, f, p, MaxDepth).p = NullPtr
  /\ aIdMap' = [aIdMap EXCEPT ![f] = <<>>]
  /\ heap' = [q \in {q \in DOMAIN heap : q[1] # f} |-> heap[q]]
  /\ todo' = {}
  /\ UNCHANGED <<aCalls, aScheduledForRemoval>>

------------------------------------------------------------------------------
(* What Cleanup keeps of the graph of a function.                          *)

\* CodeBrokerImpl::ShouldCleanNode and ArmImpl::ShouldClean: aMemoryMap from the
\* dwNodeId of an address to the data last stored there, r0 the returned value
ShouldCleanCode(aMemoryMap, r0, p) ==
  LET n == heap[p]
      data == n.in[1]
      address == n.in[2]
      isSP(q) == heap[q].op = "REGISTER" /\ heap[q].v = SP
      overwritten == Id(address) \notin DOMAIN aMemoryMap \/ aMemoryMap[Id(address)] # data
      onStack == \/ isSP(address)
                 \/ heap[address].op = "ADD" /\ \E q \in heap[address].unique : isSP(q)
  IN /\ n.op # "CALL"
     /\ \/ n.op = "STORE" /\ overwritten
        \/ p # r0 /\ (n.op = "STORE" => onStack)

==============================================================================
