-------------------------- MODULE SignatureSearch --------------------------
(***************************************************************************)
(* Pass 2 of SignatureEvaluatorImpl (src/src/SignatureEvaluator.cpp and    *)
(* .hpp): one candidate for each signature node, with backtracking.        *)
(*                                                                         *)
(* oMatrix says for a signature node and a code node whether the pair is   *)
(* out of the question.  It is sparse: one entry of the map holds Block    *)
(* consecutive code nodes (32), and an entry without candidates is erased, *)
(* also while its candidates are gone through.  PruneFlagged is one step;  *)
(* Pass2Recurse, which backtracks, is a step per call, candidate and       *)
(* return.                                                                 *)
(*                                                                         *)
(* GetTickCount is read in every round of every loop.  The time runs out at*)
(* one of these readings, or never: clock counts them down.                *)
(***************************************************************************)
EXTENDS Cleanup

CONSTANTS
  Block,      \* code nodes in an entry of the matrix or of the flags (32)
  Tested,     \* IsAssigned tests the Tested lowest bits of an entry (6)
  CodeGraph   \* the graph that is searched

ASSUME SearchAssumption == Block \in Nat \ {0} /\ Tested \in 0 .. Block

VARIABLES
  variants,          \* the signature: for each variant, its graph g and the references ref of its opaque nodes
  variant,           \* the variant that is searched for
  order,             \* its nodes in the order of its hash table
  oMatrix,           \* from <<signature node, code node \div Block>> to a row of assignments
  aStack,            \* the matrices of PushMatrix
  oFlagMap,          \* from code node \div Block to the bits that are set
  oOpaqueAssignment, \* for each reference, the type it stands for, or UNKNOWN
  clock,             \* readings of the clock until the time is over
  calls,             \* the calls of Pass2Recurse in progress
  control,           \* what Evaluate is doing
  oMapping,          \* the code node of each signature node, once a match is found
  skipped            \* history: a candidate was left out when an entry was erased

evaluatorVars == <<variants, variant, order, oMatrix, aStack, oFlagMap, oOpaqueAssignment, clock, calls, control,
                   oMapping, skipped>>

Unexplored == 0
Invalid == 1
Undefined == 2
Valid == 3
IsCandidateType(a) == a \in {Undefined, Valid}

NoNode == -1
Least(ids) == IF ids = {} THEN NoNode ELSE Min(ids)

------------------------------------------------------------------------------
(* SparseMatrix. *)

GetAssignment(m, e, c) ==
  IF <<e, c \div Block>> \in DOMAIN m THEN m[<<e, c \div Block>>][c % Block] ELSE Unexplored

Without(f, keys) == [k \in DOMAIN f \ keys |-> f[k]]
Dead(row) == \A i \in DOMAIN row : ~IsCandidateType(row[i])

Assign(m, e, c, type, keepInvalid) ==
  LET key == <<e, c \div Block>>
      row == IF key \in DOMAIN m THEN [m[key] EXCEPT ![c % Block] = type]
             ELSE [i \in 0 .. Block - 1 |-> IF i = c % Block THEN type ELSE Unexplored]
  IN IF ~keepInvalid /\ Dead(row) THEN Without(m, {key})
     ELSE [k \in DOMAIN m \cup {key} |-> IF k = key THEN row ELSE m[k]]

CleanInvalid(m) == Without(m, {key \in DOMAIN m : Dead(m[key])})

CodeNodes == DOMAIN aIdMap[CodeGraph]
Candidates(m, e) ==
  {c \in CodeNodes : IsCandidateType(GetAssignment(m, e, c))}
FirstCandidate(m, e) == Least(Candidates(m, e))

\* From the entry of c, or else the one after it, but from the bit after that of c
After(m, e, c) ==
  LET block == Least({key[2] : key \in {k \in DOMAIN m : k[1] = e /\ k[2] >= c \div Block}})
  IN {x \in Candidates(m, e) : /\ x \div Block >= block
                               /\ x \div Block = block => x % Block > c % Block}
NextCandidate(m, e, c) == Least(After(m, e, c))
Skips(m, e, c) == \E x \in Candidates(m, e) : x > c /\ x \notin After(m, e, c)

------------------------------------------------------------------------------
(* FlagMap: the code nodes that are taken.  A new entry gets its bit in an *)
(* int, an old one in 64 bits, where the odd entries use the upper half;   *)
(* the test, 1 << id & 0x3f, is of (1 << id) & 0x3f.                       *)

Flag(flags, c) ==
  LET index == c \div Block
      bits == IF index \in DOMAIN flags THEN flags[index] \cup {c % (2 * Block)}
              ELSE {c % Block}
  IN [i \in DOMAIN flags \cup {index} |-> IF i = index THEN bits ELSE flags[i]]

Unflag(flags, c) == [i \in DOMAIN flags |-> IF i = c \div Block THEN flags[i] \ {c % Block}
                                             ELSE flags[i]]

IsAssigned(flags, c) ==
  c \div Block \in DOMAIN flags /\ c % Block < Tested /\ c % Block \in flags[c \div Block]

------------------------------------------------------------------------------
(* Types. *)

CodeNode(c) == heap[aIdMap[CodeGraph][c]]
TypeSpec(c) == <<CodeNode(c).op, CodeNode(c).v>>   \* node_type_spec_t
UNKNOWN == <<>>

\* STORE, LOAD, SHIFT and ROTATE
InputOrderMatters(n) == n.op \in {"STORE", "LOAD", "SHIFT", "ROTATE"}
InputIds(n) == [i \in DOMAIN n.in |-> Id(n.in[i])]
UniqueIds(n) == {Id(p) : p \in n.unique}
OutputIds(n) == {Id(p) : p \in n.out}

\* For signature node n and code node c
IsCandidate(n, c) ==
  CASE n.op = "CONSTANT" -> TypeSpec(c) = <<n.op, n.v>>
    [] n.op = "OPAQUE" -> TRUE
    [] OTHER -> n.op = CodeNode(c).op

Ref(p) == IF heap[p].op = "OPAQUE" THEN variants[variant].ref[heap[p].v] ELSE -1

Late(st) == st.t = 0
Tick(st) == [st EXCEPT !.t = IF @ <= 0 THEN @ ELSE @ - 1]

------------------------------------------------------------------------------
(* PruneFlagged: candidates whose neighbours have none go, until no more   *)
(* does.                                                                   *)

\* The neighbours of n and c: each of n has a candidate among those of c
FitsInputs(m, n, c) ==
  IF InputOrderMatters(n)
  THEN /\ Len(n.in) = Len(CodeNode(c).in)
       /\ \A i \in DOMAIN n.in :
            IsCandidateType(GetAssignment(m, Id(n.in[i]), InputIds(CodeNode(c))[i]))
  ELSE /\ Cardinality(n.unique) <= Cardinality(CodeNode(c).unique)
       /\ \A q \in n.unique : Candidates(m, Id(q)) \cap UniqueIds(CodeNode(c)) # {}

Fits(m, n, c) ==
  /\ FitsInputs(m, n, c)
  /\ \A q \in n.out : Candidates(m, Id(q)) \cap OutputIds(CodeNode(c)) # {}

\* A round of the loop over the candidates of signature node p: s is the search, the
\* candidate c, whether there is time and candidates were found, and whether to prune again
PruneCandidate(p, s) ==
  LET fits == Fits(s.st.m, heap[p], s.c)
      m == IF fits THEN s.st.m ELSE Assign(s.st.m, Id(p), s.c, Invalid, FALSE)
      st == [Tick(s.st) EXCEPT !.m = m, !.skipped = @ \/ Skips(m, Id(p), s.c)]
  IN IF s.c = NoNode THEN s
     ELSE IF Late(s.st) THEN [s EXCEPT !.st = st, !.c = NoNode, !.ok = FALSE]
     ELSE [s EXCEPT !.st = st, !.c = NextCandidate(m, Id(p), s.c), !.again = @ \/ ~fits]

\* Candidates come in the order of their numbers: there is a round at most for each node.
PruneNode(p, s) ==
  LET first == FirstCandidate(s.st.m, Id(p))
      after[k \in 0 .. Cardinality(CodeNodes)] ==
        IF k = 0 THEN [s EXCEPT !.c = first] ELSE PruneCandidate(p, after[k - 1])
  IN IF ~s.ok THEN s
     ELSE IF first = NoNode THEN [s EXCEPT !.ok = FALSE]
     ELSE after[Cardinality(CodeNodes)]

\* All signature nodes in turn
PruneNodes(st, nodes) ==
  LET start == [st |-> st, c |-> NoNode, ok |-> TRUE, again |-> FALSE]
      after[k \in 0 .. Len(nodes)] == IF k = 0 THEN start ELSE PruneNode(nodes[k], after[k - 1])
  IN after[Len(nodes)]

\* To prune again takes a candidate that has gone.
PruneFlagged(st, nodes) ==
  LET pairs == Len(nodes) * Cardinality(CodeNodes)
      again(s) == IF s.ok /\ s.again THEN PruneNodes(s.st, nodes) ELSE s
      after[k \in 0 .. pairs] == IF k = 0 THEN PruneNodes(st, nodes) ELSE again(after[k - 1])
  IN after[pairs]

------------------------------------------------------------------------------
(* Pass 2: one candidate for each signature node, in order.                *)

\* A round of a loop over the candidates of e, which come to c: those in valid become
\* Valid, those in keep stay what they are and the others become Invalid.
RetypeCandidate(s, e, valid, keep) ==
  LET type == IF s.c \in valid THEN Valid ELSE Invalid
      m == IF s.c \in keep THEN s.st.m ELSE Assign(s.st.m, e, s.c, type, FALSE)
  IN IF s.c = NoNode THEN s
     ELSE [st |-> [s.st EXCEPT !.m = m, !.skipped = @ \/ Skips(m, e, s.c)],
           c |-> NextCandidate(m, e, s.c)]

Retype(st, e, valid, keep) ==
  LET after[k \in 0 .. Cardinality(CodeNodes)] ==
        IF k = 0 THEN [st |-> st, c |-> FirstCandidate(st.m, e)]
        ELSE RetypeCandidate(after[k - 1], e, valid, keep)
  IN after[Cardinality(CodeNodes)].st

\* The nodes with the reference of p keep only candidates of the type of c.
InvalidateReference(st, p, c) ==
  LET alike == {x \in CodeNodes : TypeSpec(x) = TypeSpec(c)}
      after[k \in 0 .. Len(order)] ==
        CASE k = 0 -> st
          [] k > 0 /\ Ref(order[k]) = Ref(p) -> Retype(after[k - 1], Id(order[k]), {}, alike)
          [] OTHER -> after[k - 1]
  IN after[Len(order)]

Current == [m |-> oMatrix, t |-> clock, skipped |-> skipped]

\* OpaqueAssignmentImpl::Assign
OpaqueStatus(p, c) ==
  IF Ref(p) = -1 THEN "ALREADY_SET"
  ELSE IF oOpaqueAssignment[Ref(p)] = UNKNOWN THEN "OK"
  ELSE IF oOpaqueAssignment[Ref(p)] = TypeSpec(c) THEN "ALREADY_SET" ELSE "NOK"

\* What a call can see of the search, when it begins or is over
Seen == [m |-> oMatrix, opaque |-> oOpaqueAssignment, depth |-> Len(aStack),
         taken |-> {c \in CodeNodes : IsAssigned(oFlagMap, c)}]

Pass2Call(p, c, kind) ==
  [p |-> p, c |-> c, kind |-> kind, opened |-> FALSE, taken |-> FALSE, entry |-> Seen]

Caller == Last(calls)
Called == order[Len(calls) + 1]
First == FirstCandidate(oMatrix, Id(Called))
IsSingle == First # NoNode /\ NextCandidate(oMatrix, Id(Called), First) = NoNode

\* Faulty variant: a code node that is taken is only refused for its type.
Refused_TypeOnly(p, c) == OpaqueStatus(p, c) = "NOK"

Refused(p, c) == IsAssigned(oFlagMap, c) \/ OpaqueStatus(p, c) = "NOK"

Searched(st) == /\ oMatrix' = st.m /\ clock' = st.t /\ skipped' = st.skipped
Unsearched == UNCHANGED <<oMatrix, clock, skipped>>

\* PushMatrix, the candidates that p := c leaves, PruneFlagged, and the next call
Explore(call, rest) ==
  LET p == call.p
      c == call.c
      opened == OpaqueStatus(p, c) = "OK"
      own == IF call.kind = "single" THEN Current
             ELSE Retype(Current, Id(p), {c}, {})
      st == IF opened THEN InvalidateReference(own, p, c) ELSE own
      pruned == PruneFlagged(st, order)
  IN /\ Searched(pruned.st)
     /\ aStack' = Append(aStack, oMatrix)
     /\ oOpaqueAssignment' = IF opened THEN [oOpaqueAssignment EXCEPT ![Ref(p)] = TypeSpec(c)]
                             ELSE oOpaqueAssignment
     /\ oFlagMap' = IF pruned.ok THEN Flag(oFlagMap, c) ELSE oFlagMap
     /\ calls' = Append(rest, [call EXCEPT !.opened = opened, !.taken = pruned.ok])
     /\ control' = IF pruned.ok THEN "call" ELSE "undo"

InCall == control = "call" /\ Len(calls) < Len(order)

\* No candidate, or the only one is taken or of another type than its reference
CallFails ==
  /\ InCall
  /\ First = NoNode \/ (IsSingle /\ Refused(Called, First))
  /\ control' = "return"
  /\ UNCHANGED <<oOpaqueAssignment, oFlagMap, aStack, calls>> /\ Unsearched

CallSingle ==
  /\ InCall /\ IsSingle /\ ~Refused(Called, First)
  /\ LET call == Pass2Call(Called, First, "single")
     IN IF OpaqueStatus(Called, First) = "OK" THEN Explore(call, calls)
        ELSE /\ oMatrix' = Assign(oMatrix, Id(Called), First, Valid, FALSE)
             /\ oFlagMap' = Flag(oFlagMap, First)
             /\ calls' = Append(calls, [call EXCEPT !.taken = TRUE])
             /\ UNCHANGED <<clock, skipped, aStack, oOpaqueAssignment, control>>

CallMany ==
  /\ InCall /\ First # NoNode /\ ~IsSingle
  /\ calls' = Append(calls, Pass2Call(Called, First, "many"))
  /\ control' = "candidate"
  /\ UNCHANGED <<oOpaqueAssignment, oFlagMap, aStack>> /\ Unsearched

TryCandidate ==
  /\ control = "candidate" /\ ~Refused(Caller.p, Caller.c)
  /\ Explore(Caller, Front(calls))

\* The next candidate of the innermost call, in matrix m, if there is time
Advance(m) ==
  LET next == NextCandidate(m, Id(Caller.p), Caller.c)
  IN /\ clock' = Tick(Current).t
     /\ skipped' = (skipped \/ Skips(m, Id(Caller.p), Caller.c))
     /\ IF next = NoNode \/ Late(Current)
        THEN calls' = Front(calls) /\ control' = "return"
        ELSE /\ calls' = Append(Front(calls), [Caller EXCEPT !.c = next, !.opened = FALSE, !.taken = FALSE])
             /\ control' = "candidate"

RefuseCandidate ==
  /\ control = "candidate" /\ Refused(Caller.p, Caller.c)
  /\ Advance(oMatrix)
  /\ UNCHANGED <<oMatrix, aStack, oOpaqueAssignment, oFlagMap>>

\* Faulty variant: a reference keeps its type when pruning fails.
UndoOpaque_OnlyAfterCall(call) ==
  IF call.opened /\ call.taken THEN [oOpaqueAssignment EXCEPT ![Ref(call.p)] = UNKNOWN]
  ELSE oOpaqueAssignment

UndoOpaque(call) ==
  IF call.opened THEN [oOpaqueAssignment EXCEPT ![Ref(call.p)] = UNKNOWN]
  ELSE oOpaqueAssignment

\* The call after the innermost one returned false, or PruneFlagged did
Undo ==
  /\ control = "undo" \/ (control = "return" /\ calls # <<>>)
  /\ oFlagMap' = IF Caller.taken THEN Unflag(oFlagMap, Caller.c) ELSE oFlagMap
  /\ oOpaqueAssignment' = UndoOpaque(Caller)

UndoUnpushed ==
  /\ Undo /\ Caller.kind = "single" /\ ~Caller.opened
  /\ oMatrix' = Assign(oMatrix, Id(Caller.p), Caller.c, Undefined, FALSE)
  /\ calls' = Front(calls)
  /\ UNCHANGED <<aStack, control, clock, skipped>>

\* PopMatrix
UndoPushed ==
  /\ Undo /\ (Caller.kind = "many" \/ Caller.opened)
  /\ oMatrix' = Last(aStack) /\ aStack' = Front(aStack)
  /\ IF Caller.kind = "many" THEN Advance(Last(aStack))
     ELSE calls' = Front(calls) /\ control' = "return" /\ UNCHANGED <<clock, skipped>>

\* The test at the end: inputs of a node are candidates of its inputs
IsMatch(m) ==
  \A k \in DOMAIN order :
    LET n == heap[order[k]]
        c == FirstCandidate(m, Id(order[k]))
    IN /\ c # NoNode
       /\ IF InputOrderMatters(n)
          THEN \A i \in DOMAIN n.in :
                 IsCandidateType(GetAssignment(m, Id(n.in[i]), InputIds(CodeNode(c))[i]))
          ELSE \A q \in n.unique : Candidates(m, Id(q)) \cap UniqueIds(CodeNode(c)) # {}

CallOfEnd ==
  /\ control = "call" /\ Len(calls) = Len(order)
  /\ IF IsMatch(oMatrix)
     THEN /\ oMapping' = [p \in ToSet(order) |-> FirstCandidate(oMatrix, Id(p))]
          /\ control' = "done"
     ELSE control' = "return" /\ UNCHANGED oMapping
  /\ UNCHANGED <<oMatrix, aStack, oFlagMap, oOpaqueAssignment, clock, skipped, calls>>

Pass2 ==
  \/ CallOfEnd
  \/ /\ \/ CallFails \/ CallSingle \/ CallMany \/ TryCandidate \/ RefuseCandidate
        \/ UndoUnpushed \/ UndoPushed
     /\ UNCHANGED oMapping

\* Pass2Recurse returned false, or the variant had no candidates
NextVariant ==
  /\ control = "next" \/ (control = "return" /\ calls = <<>>)
  /\ clock' = Tick(Current).t
  /\ IF Late(Current) \/ variant = Len(variants)
     THEN control' = "done" /\ UNCHANGED variant
     ELSE control' = "variant" /\ variant' = variant + 1
  /\ UNCHANGED <<order, oMatrix, aStack, oFlagMap, oOpaqueAssignment, calls, oMapping, skipped>>

------------------------------------------------------------------------------
(* Properties.                                                             *)

\* A call of Pass2Recurse that returns false, and the candidate loop when it goes
\* on, leave the matrix, the taken nodes, the types of the references and the
\* stack of matrices as the call found them, however the branch failed.
BranchesUndone ==
  [][control' \in {"return", "candidate"} =>
       Seen' = IF control = "call" THEN Seen ELSE Caller.entry]_evaluatorVars

==============================================================================
