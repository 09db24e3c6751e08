------------------------------ MODULE Matching ------------------------------
(***************************************************************************)
(* From the text of a signature and the graph of a function to a verdict:  *)
(* SignatureParser makes the variants of the signature and cleans them, the*)
(* graph of the function is forked (CodeBrokerImpl::fork) and the fork     *)
(* cleaned (the end of CodeBrokerImpl::Build_Impl), and SignatureEvaluator *)
(* compares the two.  BlockPermutation needs no signature; it is looked at *)
(* for a file that has none.                                               *)
(***************************************************************************)
EXTENDS SignatureText, BlockPermutation

CONSTANTS
  Cases     \* signatures, what is written and its tree, each with the functions it is searched
            \* in: the nodes one makes in turn and the returned one

ASSUME MatchingAssumption == MaxDepth \in Nat

VARIABLES
  text,        \* the signature
  functions,   \* the functions it is searched in
  code,        \* the function
  phase,
  builders,    \* the builders of the variants
  aMemoryMap,  \* for the graph and its fork, from dwNodeId of an address to data
  r0           \* for the graph and its fork, the returned node

vars == <<graphVars, evaluatorVars, blockVars, text, functions, code, phase, builders, aMemoryMap, r0>>
searchVars == <<order, oMatrix, aStack, oFlagMap, oOpaqueAssignment, clock, calls, control,
                oMapping, skipped, blockVars>>
givenVars == <<text, functions, code, builders, aMemoryMap, r0>>

NoFunction == [terms |-> <<>>]
SignatureGraph(k) == <<"sig1", "sig2">>[k]

Init ==
  /\ \E case \in Cases : text = case.text /\ functions = case.functions
  /\ code = NoFunction
  /\ phase = "parse" /\ builders = <<>>
  /\ heap = <<>> /\ aIdMap = [g \in Graphs |-> <<>>]
  /\ todo = {} /\ aCalls = <<>> /\ aScheduledForRemoval = {}
  /\ aMemoryMap = <<>> /\ r0 = <<>>
  /\ variants = <<>> /\ variant = 1 /\ order = <<>>
  /\ oMatrix = <<>> /\ aStack = <<>> /\ oFlagMap = <<>> /\ oOpaqueAssignment = <<>>
  /\ clock = Forever /\ calls = <<>> /\ control = "idle" /\ oMapping = <<>> /\ skipped = FALSE
  /\ aCandidates = <<>> /\ aLeft = {} /\ oNode1 = NoNode /\ aQueue = <<>> /\ aFlaggedNodes = {}
  /\ oEvalCache = <<>> /\ oBFSPath = <<>> /\ stage = "idle"

\* New graphs of the sequences of nodes
AddGraphs(graphs) ==
  LET new(g) == InsertNodes(g, graphs[g])
  IN /\ heap' = FoldSet(LAMBDA g, h : new(g) @@ h, heap, DOMAIN graphs)
     /\ aIdMap' = [g \in Graphs |-> IF g \in DOMAIN graphs
                                   THEN [id \in {Id(p) : p \in DOMAIN new(g)} |-> <<g, id>>]
                                   ELSE aIdMap[g]]

\* The parser has ended with r, after the variants parsed
Parsed(r, parsed) ==
  LET nodes(b) == FoldSet(LAMBDA t, all : FindNode(all, t), <<>>, b.made)
      graphs == {SignatureGraph(k) : k \in DOMAIN parsed}
  IN /\ builders' = parsed
     /\ phase' = IF ~r.ok THEN "rejected" ELSE IF parsed = <<>> THEN "build" ELSE "parsed"
     /\ AddGraphs([g \in graphs |-> nodes(parsed[CHOOSE k \in DOMAIN parsed : SignatureGraph(k) = g])])
     /\ variants' = [k \in DOMAIN parsed |->
                       [g |-> SignatureGraph(k), ref |-> parsed[k].ref,
                        dwNumOpaqueRefs |-> Cardinality(DOMAIN parsed[k].refs)]]

ParseText ==
  /\ phase = "parse"
  /\ \E r \in {Parse(text.tokens)} : Parsed(r, r.s.variants)
  /\ UNCHANGED <<todo, aCalls, aScheduledForRemoval, variant, order, oMatrix, aStack, oFlagMap,
                 oOpaqueAssignment, clock, calls, control, oMapping, skipped,
                 blockVars, text, functions, code, aMemoryMap, r0>>

------------------------------------------------------------------------------
(* The end of a variant: what is not kept is cleaned. *)

ShouldCleanSignature(p) == Term(heap, p) \notin ToSet(builders[variant].kept)

\* Bound: Cleanup comes to the oldest or to the newest node next, as a parser makes
\* very many.
Ends(nodes) == {p \in nodes : Id(p) \in {Min({Id(q) : q \in nodes}), Max({Id(q) : q \in nodes})}}

CleanSignature ==
  /\ phase = "parsed"
  /\ \/ aCalls = <<>> /\ StartCleanup(SignatureGraph(variant)) /\ UNCHANGED <<variant, phase>>
     \/ /\ \/ aCalls # <<>> /\ \E p \in Ends(Last(aCalls)) : CleanNode(ShouldCleanSignature, p)
           \/ CleanupReturns
        /\ UNCHANGED <<variant, phase>>
     \/ /\ RemoveScheduled(SignatureGraph(variant))
        /\ IF variant = Len(builders) THEN phase' = "build" /\ variant' = 1
           ELSE variant' = variant + 1 /\ UNCHANGED phase
  /\ UNCHANGED <<givenVars, searchVars, variants, todo>>

------------------------------------------------------------------------------
(* The graph of the function, its fork, and the cleaning of the fork. *)

\* The node of the function for an expression
Pointer(nodes, t) == <<"code", SelectInSeq(nodes, LAMBDA x : x = t) - 1>>

\* Stores, the last to an address counts
MemoryMap(nodes, terms) ==
  FoldLeft(LAMBDA m, t : IF t.op # "STORE" THEN m
                         ELSE (Id(Pointer(nodes, t.in[2])) :> Pointer(nodes, t.in[1])) @@ m,
           <<>>, terms)

BuildCode ==
  /\ phase = "build" /\ variants # <<>>
  /\ \E f \in functions :
       LET nodes == FoldLeft(FindNode, <<>>, f.terms)
       IN /\ code' = f
          /\ AddGraphs([g \in {"code"} |-> nodes])
          /\ aMemoryMap' = [code |-> MemoryMap(nodes, f.terms)]
          /\ r0' = [code |-> Pointer(nodes, f.returned)]
          /\ todo' = {Pointer(nodes, t) : t \in ToSet(nodes)}
  /\ phase' = "fork"
  /\ UNCHANGED <<aCalls, aScheduledForRemoval, searchVars, variants, variant, text, functions, builders>>

\* A graph that need not be forked, and of which nothing is cleaned
BuildBlocks ==
  /\ phase = "build" /\ variants = <<>>
  /\ \E f \in functions : code' = f /\ AddGraphs([g \in {CodeGraph} |-> FoldLeft(FindNode, <<>>, f.terms)])
  /\ phase' = "built"
  /\ UNCHANGED <<todo, aCalls, aScheduledForRemoval, searchVars, variants, variant, text, functions,
                 builders, aMemoryMap, r0>>

\* The same nodes in the graph of the fork
Migrated(m) == [id \in DOMAIN m |-> aIdMap["fork"][Id(m[id])]]

\* CodeBrokerImpl::fork, and the fork of the processor as far as the returned node
ForkCode ==
  /\ phase = "fork"
  /\ \/ (\E p \in todo : ForkNode("fork", p)) /\ UNCHANGED <<phase, aMemoryMap, r0>>
     \/ (\E p \in todo : ForkFails("fork", p)) /\ phase' = "nullptr" /\ UNCHANGED <<aMemoryMap, r0>>
     \/ /\ todo = {}
        /\ aMemoryMap' = [code |-> aMemoryMap.code, fork |-> Migrated(aMemoryMap.code)]
        /\ r0' = [code |-> r0.code, fork |-> aIdMap["fork"][Id(r0.code)]]
        /\ phase' = "forked"
        /\ UNCHANGED graphVars
  /\ UNCHANGED <<searchVars, variants, variant, text, functions, code, builders>>

CleanCode ==
  /\ phase \in {"forked", "cleaning"}
  /\ \/ phase = "forked" /\ StartCleanup("fork") /\ phase' = "cleaning"
     \/ (\E p \in DOMAIN heap : CleanNode(LAMBDA q : ShouldCleanCode(aMemoryMap.fork, r0.fork, q), p))
          /\ UNCHANGED phase
     \/ CleanupReturns /\ UNCHANGED phase
     \/ RemoveScheduled("fork") /\ phase' = "cleaned"
  /\ UNCHANGED <<givenVars, searchVars, variants, variant, todo>>

Match ==
  /\ \/ phase = "cleaned" /\ StartEvaluate /\ phase' = "evaluate"
     \/ phase = "evaluate" /\ Evaluate /\ UNCHANGED phase
  /\ UNCHANGED <<graphVars, givenVars, blockVars>>

MatchBlocks ==
  /\ \/ phase = "built" /\ StartBlocks /\ phase' = "blocks"
     \/ phase = "blocks" /\ EvaluateBlocks /\ UNCHANGED phase
  /\ UNCHANGED <<graphVars, givenVars, variants, variant, order, oMatrix, aStack, oFlagMap,
                 oOpaqueAssignment, calls, control, oMapping, skipped>>

Next == ParseText \/ CleanSignature \/ BuildCode \/ BuildBlocks \/ ForkCode \/ CleanCode \/ Match
        \/ MatchBlocks
Spec == Init /\ [][Next]_vars

------------------------------------------------------------------------------
(* Properties.                                                             *)

Terms(g) == {Term(heap, p) : p \in Nodes(g)}
RECURSIVE Below(_)
Below(terms) == IF terms = {} THEN {} ELSE terms \cup Below(UNION {ToSet(t.in) : t \in terms})
RECURSIVE Depth(_)
Depth(t) == IF t.in = <<>> THEN 1 ELSE 1 + Max({Depth(x) : x \in ToSet(t.in)})

\* A fork has the nodes of the graph under their numbers, with the same inputs in
\* the same order, and the same memory map and returned node; all its pointers,
\* and all of the original's, stay inside.  It fails only on a node with more than
\* MaxDepth levels, whatever the order in which nodes are copied.
ForkIsCopy ==
  /\ phase = "nullptr" => \E t \in Below(ToSet(code.terms)) : Depth(t) > MaxDepth
  /\ phase = "forked" =>
       /\ DOMAIN aIdMap["fork"] = DOMAIN aIdMap["code"]
       /\ \A id \in DOMAIN aIdMap["code"] :
            Term(heap, <<"fork", id>>) = Term(heap, <<"code", id>>)
       /\ Tied("code") /\ Tied("fork")
       /\ aMemoryMap.fork = [id \in DOMAIN aMemoryMap.code |-> <<"fork", Id(aMemoryMap.code[id])>>]
       /\ r0.fork = <<"fork", Id(r0.code)>>

\* What a function must not lose: calls, the returned node, and to each address
\* that is not on the stack the last store
IsOnStack(address) == LET isSP(t) == t.op = "REGISTER" /\ t.v = SP
                      IN isSP(address) \/ (address.op = "ADD" /\ \E t \in ToSet(address.in) : isSP(t))
Outputs ==
  {code.returned} \cup
  {code.terms[i] : i \in {i \in DOMAIN code.terms :
     \/ code.terms[i].op = "CALL"
     \/ /\ code.terms[i].op = "STORE" /\ ~IsOnStack(code.terms[i].in[2])
        /\ \A j \in i + 1 .. Len(code.terms) :
             code.terms[j].op = "STORE" => code.terms[j].in[2] # code.terms[i].in[2]}}

\* Whatever the order in which Cleanup comes to the nodes, what is left is what
\* has to be kept and all it is computed from, tied together.  The graph that was
\* forked is as it was.
CleanupExact ==
  /\ phase = "build" =>
       \A k \in DOMAIN builders :
         Terms(SignatureGraph(k)) = Below(ToSet(builders[k].kept)) /\ Tied(SignatureGraph(k))
  /\ phase = "cleaned" =>
       /\ Terms("fork") = Below(Outputs) /\ Tied("fork")
       /\ Terms("code") = Below(ToSet(code.terms)) /\ Tied("code")

\* A well-formed text is accepted and stands for the nodes and references of its
\* tree, although operands are parsed several times over and what failed attempts
\* made stays in the graph until it is cleaned.  One that defines a label twice is
\* rejected.  (It does not hold of texts with TRANSIENT.)
ParsedAsWritten ==
  phase # "parse" =>
    /\ text.tree.ok =>
         /\ phase # "rejected"
         /\ [k \in DOMAIN builders |->
               [nodes |-> Canonical(builders[k].kept, builders[k].ref),
                numRefs |-> Cardinality(DOMAIN builders[k].refs)]]
            = [k \in DOMAIN text.tree.variants |-> CanonicalMeaning(text.tree.variants[k])]
    /\ text.redefines => phase = "rejected"

\* What is searched for is what the statements without TRANSIENT are computed from, and
\* no other node: what SignatureParser.cpp:97-101 and 115 are for, and what
\* signatures/xtea.txt:19 and signatures/lfsr.txt rely on.
TransientLeftOut ==
  phase = "build" =>
    \A k \in DOMAIN builders :
      Cardinality(Terms(SignatureGraph(k)))
        = Cardinality(Below(ToSet(MeaningOfVariant(text.tree.variants[k]).kept)))

==============================================================================
