------------------------- MODULE SignatureEvaluator -------------------------
(***************************************************************************)
(* SignatureEvaluatorImpl (src/src/SignatureEvaluator.cpp and .hpp): the   *)
(* search for a subgraph of a code graph that is the graph of a signature. *)
(* Pass 1 is one step; Pass 2 is in SignatureSearch.                       *)
(***************************************************************************)
EXTENDS DFGraph, SignatureSearch

CONSTANT Clocks   \* how long the clocks run

Forever == -1   \* a clock that does not run out

------------------------------------------------------------------------------
(* Pass 1: which pairs are candidates, from the outputs upwards.  st is the*)
(* matrix m, the clock t and skipped.                                      *)

RECURSIVE Pass1Recurse(_, _, _)

\* Every input of n has a candidate among the inputs of c
Pass1AnyOrder(st, n, c) ==
  LET paired(acc, r) == [st |-> r.st, exists |-> acc.exists \/ r.a = Undefined]
      pairs(s, q) == FoldSet(LAMBDA x, acc : paired(acc, Pass1Recurse(acc.st, q, x)),
                             [st |-> s, exists |-> FALSE], UniqueIds(CodeNode(c)))
      result(r) == [st |-> r.st, a |-> IF r.exists THEN Undefined ELSE Invalid]
  IN FoldSet(LAMBDA q, acc : IF acc.a = Invalid THEN acc ELSE result(pairs(acc.st, q)),
             [st |-> st, a |-> Undefined], n.unique)

\* Every input of n is a candidate for the input of c in its place
Pass1InOrder(st, n, c) ==
  LET result(r) == [st |-> r.st, a |-> IF r.a = Invalid THEN Invalid ELSE Undefined]
      input(acc, i) == IF acc.a = Invalid THEN acc
                       ELSE result(Pass1Recurse(acc.st, n.in[i], InputIds(CodeNode(c))[i]))
  IN IF Len(n.in) # Len(CodeNode(c).in) THEN [st |-> st, a |-> Undefined]
     ELSE FoldLeft(input, [st |-> st, a |-> Undefined], [i \in DOMAIN n.in |-> i])

Pass1Recurse(st, p, c) ==
  LET n == heap[p]
      known == GetAssignment(st.m, Id(p), c)
      result(r) == [st |-> [r.st EXCEPT !.m = Assign(@, Id(p), c, r.a, TRUE)], a |-> r.a]
  IN IF known # Unexplored THEN [st |-> st, a |-> known]
     ELSE IF Late(st) /\ IsCandidate(n, c) THEN [st |-> st, a |-> Invalid]
     ELSE result(IF ~IsCandidate(n, c) THEN [st |-> st, a |-> Invalid]
                 ELSE IF InputOrderMatters(n) THEN Pass1InOrder(Tick(st), n, c)
                 ELSE Pass1AnyOrder(Tick(st), n, c))

\* Pass 1 of all signature nodes without outputs; exists: all had a candidate
Pass1(st, nodes) ==
  LET paired(acc, r) == [st |-> r.st, exists |-> acc.exists \/ r.a = Undefined]
      pairs(s, p) == FoldSet(LAMBDA c, acc : paired(acc, Pass1Recurse(acc.st, p, c)),
                             [st |-> s, exists |-> FALSE], CodeNodes)
      result(r) == [st |-> Tick(r.st), exists |-> r.exists, late |-> Late(r.st)]
      node(acc, p) == IF heap[p].out # {} \/ ~acc.exists \/ acc.late THEN acc
                      ELSE result(pairs(acc.st, p))
  IN FoldLeft(node, [st |-> st, exists |-> TRUE, late |-> FALSE], nodes)

------------------------------------------------------------------------------
(* Evaluate: variant after variant, until one matches or the time is over. *)

SetToAllOrders(S) == {f \in [1 .. Cardinality(S) -> S] : ToSet(f) = S}

\* How Pass 1 and, if all nodes have candidates, the first PruneFlagged end
Pass1Ends(first, nodes) ==
  LET ended(pruned) == [st |-> pruned.st, control |-> IF pruned.ok THEN "call" ELSE "next"]
  IN IF first.exists /\ ~first.late
     THEN ended(PruneFlagged([first.st EXCEPT !.m = CleanInvalid(@)], nodes))
     ELSE [st |-> first.st, control |-> IF first.late THEN "done" ELSE "next"]

StartVariant ==
  /\ control = "variant"
  /\ \E nodes \in SetToAllOrders(Nodes(variants[variant].g)) :
       \E ended \in {Pass1Ends(Pass1([Current EXCEPT !.m = <<>>], nodes), nodes)} :
         order' = nodes /\ Searched(ended.st) /\ control' = ended.control
  /\ aStack' = <<>> /\ calls' = <<>> /\ oFlagMap' = <<>>
  /\ oOpaqueAssignment' = [r \in 0 .. variants[variant].dwNumOpaqueRefs - 1 |-> UNKNOWN]
  /\ UNCHANGED <<variant, oMapping>>

StartEvaluate ==
  /\ variant' = 1
  /\ clock' \in Clocks
  /\ control' = IF variants = <<>> THEN "done" ELSE "variant"
  /\ UNCHANGED <<variants, order, oMatrix, aStack, oFlagMap, oOpaqueAssignment, calls,
                 oMapping, skipped>>

Evaluate ==
  /\ \/ StartVariant
     \/ NextVariant
     \/ Pass2 /\ UNCHANGED <<variant, order>>
  /\ UNCHANGED variants

------------------------------------------------------------------------------
(* Properties.                                                             *)

\* Reference: f maps the nodes of a variant to code nodes that are such a subgraph.
Embeds(f, k) ==
  LET ref(p) == IF heap[p].op = "OPAQUE" THEN variants[k].ref[heap[p].v] ELSE -1
  IN \A p \in DOMAIN f :
       LET n == heap[p]
           c == CodeNode(f[p])
       IN /\ IsCandidate(n, f[p])
          /\ IF InputOrderMatters(n)
             THEN InputIds(c) = [i \in DOMAIN n.in |-> f[n.in[i]]]
             ELSE \A q \in n.unique : f[q] \in UniqueIds(c)
          /\ \A q \in DOMAIN f : ref(p) # -1 /\ ref(q) = ref(p) => TypeSpec(f[q]) = TypeSpec(f[p])

\* The test of a code node sees whether it is taken.
CanBeTested(c) == c % Block < Tested /\ (c \div Block) % 2 = 0

\* A match that is reported is a subgraph with the structure of the variant, its
\* nodes of the types the signature names, and no code node that the test for
\* taken nodes covers stands for two of them.  If none is reported although there
\* was time, no variant has one, whatever the order of the hash tables.  Erased
\* entries make the search leave candidates out; it promises nothing then.
VerdictIsRight ==
  control = "done" /\ ~skipped =>
    IF oMapping # <<>>
    THEN /\ Embeds(oMapping, variant)
         /\ \A p, q \in DOMAIN oMapping :
              p # q /\ oMapping[p] = oMapping[q] => ~CanBeTested(oMapping[p])
    ELSE clock # 0 =>
         \A k \in DOMAIN variants :
           \A f \in [Nodes(variants[k].g) -> CodeNodes] :
             ~(Embeds(f, k) /\ \A p, q \in DOMAIN f : f[p] = f[q] => p = q)

==============================================================================
