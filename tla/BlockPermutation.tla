-------------------------- MODULE BlockPermutation --------------------------
(***************************************************************************)
(* BlockPermutationEvaluatorImpl (src/src/BlockPermutationEvaluator.cpp):  *)
(* the search for a permutation that is applied to one block after the     *)
(* other.  Three loads at equal distances are three blocks; the shortest   *)
(* path in the graph from the first to the second is to be followed, back  *)
(* from the third to the second, along nodes that are alike.               *)
(*                                                                         *)
(* The sparse matrix, here a cache of the pairs of nodes that are alike,   *)
(* the types of nodes and the clock are those of SignatureEvaluator.  A    *)
(* round of the loop of BreadthFirstSearch is a step, and BFSMapPath of    *)
(* the triplets of one first load.                                         *)
(***************************************************************************)
EXTENDS SignatureEvaluator

CONSTANTS
  MinDistance,   \* between two loads (16)
  MinDepth       \* of a path (4)

VARIABLES
  aCandidates,     \* for each first load of a triplet, its triplets: one, two, three and oPath
  aLeft,           \* the entries that the loop over aCandidates has still to come to
  oNode1,          \* the load that is searched from, or NoNode
  aQueue,          \* paths from it: sequences of a node and whether it is an output of the one before
  aFlaggedNodes,
  oEvalCache,
  oBFSPath,        \* the path of the match, or <<>>
  stage            \* what Evaluate is doing

blockVars == <<aCandidates, aLeft, oNode1, aQueue, aFlaggedNodes, oEvalCache, oBFSPath, stage>>

------------------------------------------------------------------------------
(* Triplets. *)

\* The address of load c: its inputs but for constants, and the sum of these
SpecString(c) ==
  LET address == CodeNode(c).in[1]
      inputs == IF heap[address].op = "ADD" THEN heap[address].in ELSE <<address>>
      ids == [i \in DOMAIN inputs |-> IF heap[inputs[i]].op = "CONSTANT" THEN NoNode ELSE Id(inputs[i])]
      sum(s, p) == IF heap[p].op = "CONSTANT" THEN Wrap(s + heap[p].v) ELSE s
  IN [aNodeIds |-> SortSeq(SelectSeq(ids, LAMBDA id : id # NoNode), LAMBDA x, y : x < y),
      dwConstant |-> FoldLeft(sum, 0, inputs)]

Group(c) == SpecString(c).aNodeIds
LoadNodes == {c \in CodeNodes : CodeNode(c).op = "LOAD"}
LoadSpec(c) == [oNode |-> c, dwConstant |-> SpecString(c).dwConstant]

\* Before the first with a greater constant
Insert(list, spec) ==
  LET at(i) == IF i = 0 THEN Append(list, spec) ELSE InsertAt(list, i, spec)
  IN at(SelectInSeq(list, LAMBDA x : x.dwConstant > spec.dwConstant))

\* The first of the loads after j with constant v or more, if v is its constant
Third(list, j, v) ==
  LET atLeast == {k \in j + 1 .. Len(list) : v <= list[k].dwConstant}
  IN {k \in atLeast : list[k].dwConstant = v /\ \A x \in atLeast : k <= x}

\* The triplets of a group.  A distance counts once; without a third load the next
\* first one follows, whatever second ones are left.
Triplets(list) ==
  LET triplet(i, j, k) == [one |-> list[i].oNode, two |-> list[j].oNode, three |-> list[k].oNode,
                           oPath |-> <<>>]
      third(acc, i, j, dwDiff, ks) ==
        IF acc.next \/ dwDiff < MinDistance \/ dwDiff \in acc.aDistances THEN acc
        ELSE IF ks = {} THEN [acc EXCEPT !.next = TRUE]
        ELSE [acc EXCEPT !.aDistances = @ \cup {dwDiff},
                         !.found = Append(@, triplet(i, j, CHOOSE k \in ks : TRUE))]
      second(acc, i, j, dwDiff) ==
        third(acc, i, j, dwDiff, Third(list, j, Wrap(list[j].dwConstant + dwDiff)))
      first(acc, i) ==
        FoldLeft(LAMBDA a, j : second(a, i, j, Signed(Wrap(list[j].dwConstant - list[i].dwConstant))),
                 [acc EXCEPT !.next = FALSE], [n \in 1 .. Len(list) - i |-> i + n])
  IN FoldLeft(first, [found |-> <<>>, aDistances |-> {}, next |-> FALSE],
              [i \in DOMAIN list |-> i]).found

\* The triplets of all groups, for loads in an order of the hash table
AllTriplets(loads) ==
  LET of(group) == SelectSeq(loads, LAMBDA c : Group(c) = group)
      list(group) == FoldLeft(LAMBDA specs, c : Insert(specs, LoadSpec(c)), <<>>, of(group))
  IN FoldSet(LAMBDA group, all : all \o Triplets(list(group)), <<>>, {Group(c) : c \in ToSet(loads)})

StartBlocks ==
  /\ \E loads \in SetToAllOrders(LoadNodes) : \E found \in {AllTriplets(loads)} :
       aCandidates' = [c \in {t.one : t \in ToSet(found)} |-> SelectSeq(found, LAMBDA t : t.one = c)]
  /\ aLeft' = DOMAIN aCandidates'
  /\ clock' \in Clocks
  /\ stage' = "search"
  /\ UNCHANGED <<oNode1, aQueue, aFlaggedNodes, oEvalCache, oBFSPath>>

------------------------------------------------------------------------------
(* BreadthFirstSearch. *)

SearchStarts ==
  /\ stage = "search" /\ oNode1 = NoNode
  /\ \E one \in aLeft :
       /\ oNode1' = one
       /\ aQueue' = <<<<[oNode |-> one, down |-> TRUE]>>>>
       /\ aFlaggedNodes' = {one}
  /\ UNCHANGED <<aCandidates, aLeft, oEvalCache, oBFSPath, stage, clock>>

IsNode2(one, c) == \E t \in ToSet(aCandidates[one]) : t.two = c

\* The search from one does not go on from c.
IsEnd(one, c) ==
  /\ ~IsNode2(one, c)
  /\ \/ CodeNode(c).op \in {"CONSTANT", "STORE", "REGISTER"}
     \/ c # one /\ CodeNode(c).op = "LOAD" /\ Group(c) = Group(one)

\* Faulty variant: nodes are not flagged.
Push_Unflagged(search, path, next, down) ==
  LET step(c) == [oNode |-> c, down |-> down]
  IN [search EXCEPT !.queue = @ \o [i \in DOMAIN next |-> Append(path, step(next[i]))]]

\* The nodes next, which are not flagged, to the end of the queue
Push(search, path, next, down) ==
  LET push(acc, c) == IF c \in acc.flagged THEN acc
                      ELSE [queue |-> Append(acc.queue, Append(path, [oNode |-> c, down |-> down])),
                            flagged |-> acc.flagged \cup {c}]
  IN FoldLeft(push, search, next)

\* A round of the loop.  Outputs come in any order of the hash table.
SearchNode ==
  /\ aQueue # <<>>
  /\ LET path == Head(aQueue)
         c == Last(path).oNode
         popped == [queue |-> Tail(aQueue), flagged |-> aFlaggedNodes]
         upwards == IF c = oNode1 THEN popped ELSE Push(popped, path, InputIds(CodeNode(c)), FALSE)
         reached(t) == IF t.two = c THEN [t EXCEPT !.oPath = path] ELSE t
         unflagged == IF IsEnd(oNode1, c) THEN {} ELSE OutputIds(CodeNode(c)) \ aFlaggedNodes
     IN /\ aCandidates' = [aCandidates EXCEPT ![oNode1] = [i \in DOMAIN @ |-> reached(@[i])]]
        /\ \E outputs \in SetToAllOrders(unflagged) :
             LET search == IF IsEnd(oNode1, c) THEN popped ELSE Push(upwards, path, outputs, TRUE)
             IN aQueue' = search.queue /\ aFlaggedNodes' = search.flagged
  /\ UNCHANGED <<aLeft, oNode1, oEvalCache, oBFSPath, stage, clock>>

\* The search from one load is over, and then the one from all, unless the time is.
SearchEnds ==
  /\ stage = "search" /\ aQueue = <<>>
  /\ oNode1 # NoNode \/ aLeft = {}
  /\ LET left == aLeft \ {oNode1}
         late == oNode1 # NoNode /\ Late(Current)
     IN /\ clock' = IF oNode1 = NoNode THEN clock ELSE Tick(Current).t
        /\ stage' = IF late THEN "done" ELSE IF left = {} THEN "map" ELSE stage
        /\ aLeft' = IF left = {} THEN DOMAIN aCandidates ELSE left
  /\ oNode1' = NoNode /\ aFlaggedNodes' = {}
  /\ UNCHANGED <<aCandidates, aQueue, oEvalCache, oBFSPath>>

------------------------------------------------------------------------------
(* BFSMapPath. *)

\* Each of part has one of the nodes of its type, no two the same.
HasAll(nodes, part) ==
  LET numOf(ids, c) == Cardinality({x \in ids : TypeSpec(x) = TypeSpec(c)})
  IN \A c \in part : numOf(part, c) <= numOf(nodes, c)

\* Node c of a path and oSource: of one type, oSource with the inputs of c, but for
\* those that could be an IV, and with no outputs that c has not
IsCompatible(c, oSource) ==
  /\ TypeSpec(c) = TypeSpec(oSource)
  /\ HasAll(UniqueIds(CodeNode(oSource)),
            {x \in UniqueIds(CodeNode(c)) : CodeNode(x).op \notin {"LOAD", "REGISTER", "CONSTANT"}})
  /\ HasAll(OutputIds(CodeNode(c)), OutputIds(CodeNode(oSource)))

\* Back from the end of a path, for oSource in the place of that end
Backwards(path, oSource) ==
  IF Last(path).down THEN UniqueIds(CodeNode(oSource)) ELSE OutputIds(CodeNode(oSource))

\* st is the cache m and the clock t.  Bound: neighbours are tried in one order.
RECURSIVE BFSMapPath(_, _, _, _)
BFSMapPath(st, path, oSource, oTarget) ==
  LET c == Last(path).oNode
      known == GetAssignment(st.m, c, oSource)
      cached(s, a) == [s EXCEPT !.m = Assign(@, c, oSource, a, FALSE)]
      follow(s) == FoldSet(LAMBDA x, acc : IF acc.found THEN acc
                                           ELSE BFSMapPath(acc.st, Front(path), x, oTarget),
                           [st |-> s, found |-> FALSE], Backwards(path, oSource))
      compared(s, alike) == IF alike THEN follow(cached(s, Valid))
                            ELSE [st |-> cached(s, Invalid), found |-> FALSE]
  IN IF Len(path) = 1 THEN [st |-> st, found |-> oSource = oTarget]
     ELSE IF c = oSource THEN follow(st)
     ELSE IF known # Unexplored THEN compared(st, known = Valid)
     ELSE IF Late(st) THEN [st |-> st, found |-> FALSE]
     ELSE compared(Tick(st), IsCompatible(c, oSource))

\* The triplets of a first load in turn
MapTriplets ==
  /\ stage = "map"
  /\ \E one \in aLeft :
       LET result(r, t) == [st |-> IF r.found THEN r.st ELSE Tick(r.st),
                            late |-> ~r.found /\ Late(r.st),
                            oBFSPath |-> IF r.found THEN t.oPath ELSE <<>>]
           triplet(acc, t) == IF acc.late \/ acc.oBFSPath # <<>> \/ Len(t.oPath) - 1 < MinDepth THEN acc
                              ELSE result(BFSMapPath(acc.st, t.oPath, t.three, t.two), t)
           ended == FoldLeft(triplet, [st |-> [m |-> oEvalCache, t |-> clock], late |-> FALSE,
                                       oBFSPath |-> <<>>], aCandidates[one])
       IN /\ oEvalCache' = ended.st.m /\ clock' = ended.st.t
          /\ oBFSPath' = ended.oBFSPath
          /\ stage' = IF ended.late \/ ended.oBFSPath # <<>> THEN "done" ELSE stage
          /\ aLeft' = aLeft \ {one}
  /\ UNCHANGED <<aCandidates, oNode1, aQueue, aFlaggedNodes>>

MapEnds ==
  /\ stage = "map" /\ aLeft = {}
  /\ stage' = "done"
  /\ UNCHANGED <<aCandidates, aLeft, oNode1, aQueue, aFlaggedNodes, oEvalCache, oBFSPath, clock>>

EvaluateBlocks == SearchStarts \/ SearchNode \/ SearchEnds \/ MapTriplets \/ MapEnds

------------------------------------------------------------------------------
(* Properties.                                                             *)

\* Reference: the nodes that at most n moves of the search from one lead to
RECURSIVE Within(_, _)
Within(one, n) ==
  LET moves(c) == IF IsEnd(one, c) THEN {}
                  ELSE OutputIds(CodeNode(c)) \cup IF c = one THEN {} ELSE UniqueIds(CodeNode(c))
  IN IF n = 0 THEN {one}
     ELSE LET nearer == Within(one, n - 1) IN nearer \cup UNION {moves(c) : c \in nearer}

\* Reference: where the nodes lead to when they follow a path back
RECURSIVE Images(_, _)
Images(path, nodes) ==
  LET c == Last(path).oNode
      alike == {x \in nodes : x = c \/ IsCompatible(c, x)}
  IN IF Len(path) = 1 THEN nodes ELSE Images(Front(path), UNION {Backwards(path, x) : x \in alike})

Offset(c) == SpecString(c).dwConstant
TripletsFound == UNION {ToSet(aCandidates[one]) : one \in DOMAIN aCandidates}
Chained(t) == Len(t.oPath) > MinDepth /\ t.two \in Images(t.oPath, {t.three})

\* The three loads of a triplet are as far apart, without a sum that wraps, and the
\* path from the first to the second is a shortest one that meets no other block,
\* or there is none, in whatever order outputs come.
PathsShortest ==
  \A t \in TripletsFound :
    /\ Offset(t.two) - Offset(t.one) >= MinDistance
    /\ Offset(t.three) - Offset(t.two) = Offset(t.two) - Offset(t.one)
    /\ IF t.oPath = <<>>
       THEN stage = "map" => t.two \notin Within(t.one, Cardinality(CodeNodes))
       ELSE /\ t.oPath[1].oNode = t.one /\ Last(t.oPath).oNode = t.two
              /\ t.two \notin Within(t.one, Len(t.oPath) - 2)
              /\ \A i \in 2 .. Len(t.oPath) :
                   LET c == t.oPath[i].oNode
                       before == t.oPath[i - 1].oNode
                   IN /\ ~IsEnd(t.one, before)
                      /\ c \in IF t.oPath[i].down THEN OutputIds(CodeNode(before))
                               ELSE UniqueIds(CodeNode(before))

\* A block permutation that is reported is one: three loads at equal distances, a
\* long enough path from the first to the second, and one like it from the second
\* to the third.  If none is reported although there was time, no path that was
\* found can be followed, although pairs of nodes are compared only once.
BlocksChained ==
  stage = "done" =>
    IF oBFSPath # <<>> THEN \E t \in TripletsFound : t.oPath = oBFSPath /\ Chained(t)
    ELSE clock # 0 => \A t \in TripletsFound : ~Chained(t)

PermutationIsRight == PathsShortest /\ BlocksChained

==============================================================================
