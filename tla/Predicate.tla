------------------------------ MODULE Predicate ------------------------------
(***************************************************************************)
(* The conjunction of conditions under which a path is taken               *)
(* (PredicateImpl in src/src/Predicate.cpp).                               *)
(***************************************************************************)
EXTENDS Terms, SequencesExt

\* CompareNormalized of two conditions, c the new one
Compared(c, old) == IF old.e1 # c.e1 THEN NotMergable
                    ELSE CompareNormalized(c.op, c.e2.v, old.op, old.e2.v)

FirstFalse(conditions) == SelectInSeq(conditions, LAMBDA o : o.special = "FALSE")
\* The first condition that has something to say of c
FirstRelated(c, conditions) ==
  SelectInSeq(conditions, LAMBDA o : Compared(c, o) # NotMergable)

(* MergeCondition: a merged condition may merge with earlier ones, so the  *)
(* list is read from the start again.  A state st of its loop: the         *)
(* condition c and the conditions, whether it is over, and, as history,    *)
(* whether a merge ran past the last value of an interval.                 *)

\* To the next return, or the next erase
MergeRound(st) ==
  LET f == FirstFalse(st.conditions)
      i == FirstRelated(st.c, st.conditions)
      over(conditions) == [st EXCEPT !.conditions = conditions, !.over = TRUE]
      related(o, compared) ==
        CASE compared.result = "NEVER" -> over(<<Special("FALSE")>>)
          [] compared.result = "ALWAYS" -> over(st.conditions)
          [] OTHER -> [st EXCEPT !.c = NormalCondition(@.e1, compared.op, Const(compared.v)),
                                 !.conditions = RemoveAt(@, i),
                                 !.cut = @ \/ CutsLastValue(st.c.op, st.c.e2.v, o.op, o.e2.v)]
  IN CASE st.over \/ (f # 0 /\ (i = 0 \/ f <= i)) -> over(st.conditions)
       [] ~st.over /\ f = 0 /\ i = 0 -> over(Append(st.conditions, st.c))
       [] OTHER -> related(st.conditions[i], Compared(st.c, st.conditions[i]))

\* An erase leaves a condition less, so that the loop is over then
Merging(c, conditions) ==
  LET start == [c |-> c, conditions |-> conditions, over |-> FALSE, cut |-> FALSE]
      after[k \in 0 .. Len(conditions) + 1] == IF k = 0 THEN start ELSE MergeRound(after[k - 1])
  IN after[Len(conditions) + 1]

MergeNormalized(c, conditions) == Merging(c, conditions).conditions

\* MergeCondition of a condition that Normalize has returned
MergeCondition(n, conditions) ==
  CASE n.special = "TRUE" -> conditions
    [] n.special = "FALSE" -> <<n>>
    [] OTHER -> MergeNormalized(n, conditions)

\* IsSatisfied, of one as well: whether the conditions imply it, or its contrary
IsSatisfied(n, conditions) ==
  LET decisive == SelectInSeq(conditions,
                    LAMBDA o : Compared(n, o).result \in {"NEVER", "ALWAYS"})
  IN CASE n.special = "TRUE" -> "ALWAYS"
       [] n.special = "FALSE" -> "NEVER"
       [] n.special = "NORMAL" /\ decisive # 0 -> Compared(n, conditions[decisive]).result
       [] OTHER -> "SOMETIMES"

------------------------------------------------------------------------------
(* Reference: whether merging c runs past the last value of an interval.   *)

RunsPastLast(c, conditions) == Merging(c, conditions).cut

==============================================================================
