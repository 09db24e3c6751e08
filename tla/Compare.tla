------------------------------- MODULE Compare -------------------------------
(***************************************************************************)
(* Machine words, the ten comparisons of src/src/Condition.hpp, and how    *)
(* two normalized comparisons of one expression with constants relate      *)
(* (PredicateImpl::CompareNormalized, src/src/Predicate.cpp).              *)
(*                                                                         *)
(* A word is 32 bits wide in the code; MaxInt and MaxWord stand for        *)
(* 0x7fffffff and 0xffffffff.                                              *)
(***************************************************************************)
EXTENDS Integers

CONSTANTS
  MaxInt,   \* 0x7fffffff
  MaxWord   \* 0xffffffff

ASSUME WordAssumption == MaxInt \in Nat /\ MaxWord = 2 * MaxInt + 1

Words == 0 .. MaxWord
MinInt == MaxInt + 1   \* 0x80000000
Signed(x) == IF x > MaxInt THEN x - (MaxWord + 1) ELSE x

\* dwValue + 1 and dwValue - 1 on unsigned int
Next1(x) == IF x = MaxWord THEN 0 ELSE x + 1
Previous1(x) == IF x = 0 THEN MaxWord ELSE x - 1

Operators == {"EQ", "NEQ", "UGE", "ULT", "UGT", "ULE", "GE", "LT", "GT", "LE"}
Normalized == {"EQ", "NEQ", "UGE", "ULE", "GE", "LE"}

\* Reference: x operator v
Holds(x, operator, v) ==
  CASE operator = "EQ"  -> x = v
    [] operator = "NEQ" -> x # v
    [] operator = "UGE" -> x >= v
    [] operator = "ULT" -> x < v
    [] operator = "UGT" -> x > v
    [] operator = "ULE" -> x <= v
    [] operator = "GE"  -> Signed(x) >= Signed(v)
    [] operator = "LT"  -> Signed(x) < Signed(v)
    [] operator = "GT"  -> Signed(x) > Signed(v)
    [] operator = "LE"  -> Signed(x) <= Signed(v)

\* The operator after the operands were swapped
FlipOperator(operator) ==
  CASE operator = "UGE" -> "ULE" [] operator = "ULE" -> "UGE"
    [] operator = "ULT" -> "UGT" [] operator = "UGT" -> "ULT"
    [] operator = "GE"  -> "LE"  [] operator = "LE"  -> "GE"
    [] operator = "LT"  -> "GT"  [] operator = "GT"  -> "LT"
    [] OTHER -> operator

\* The operators are numbered in pairs: eOperator ^ 1
NegateOperator(operator) ==
  CASE operator = "EQ"  -> "NEQ" [] operator = "NEQ" -> "EQ"
    [] operator = "UGE" -> "ULT" [] operator = "ULT" -> "UGE"
    [] operator = "UGT" -> "ULE" [] operator = "ULE" -> "UGT"
    [] operator = "GE"  -> "LT"  [] operator = "LT"  -> "GE"
    [] operator = "GT"  -> "LE"  [] operator = "LE"  -> "GT"

------------------------------------------------------------------------------
(* A result of CompareNormalized: the first comparison, where the second   *)
(* holds, is never or always true, independent, or merged with the second  *)
(* into one comparison (op, v).                                            *)

Never == [result |-> "NEVER", op |-> "EQ", v |-> 0]
Always == [result |-> "ALWAYS", op |-> "EQ", v |-> 0]
NotMergable == [result |-> "NOT_MERGABLE", op |-> "EQ", v |-> 0]
Mergable(op, v) == [result |-> "MERGABLE", op |-> op, v |-> v]

\* x == v1 where x op2 v2: it is the stronger one, or contradicts it
CompareEQ(v1, op2, v2) ==
  IF op2 = "EQ" THEN IF v1 = v2 THEN Always ELSE Never
  ELSE IF Holds(v1, op2, v2) THEN Mergable("EQ", v1) ELSE Never

\* x != v1 where x op2 v2: it may cut the last value off an interval
CompareNEQ(v1, op2, v2) ==
  CASE op2 = "EQ"  -> IF v1 = v2 THEN Never ELSE Always
    [] op2 = "NEQ" -> IF v1 = v2 THEN Always ELSE NotMergable
    [] op2 \in {"UGE", "GE"} -> IF v1 = v2 THEN Mergable(op2, Next1(v1))
                                ELSE IF Holds(v1, op2, v2) THEN NotMergable ELSE Always
    [] op2 \in {"ULE", "LE"} -> IF v1 = v2 THEN Mergable(op2, Previous1(v1))
                                ELSE IF Holds(v1, op2, v2) THEN NotMergable ELSE Always

\* Faulty variant: an interval that begins at the excluded value keeps it.
CompareUGE_KeepsEnd(v1, op2, v2) ==
  CASE op2 = "EQ"  -> IF v1 <= v2 THEN Always ELSE Never
    [] op2 = "NEQ" -> IF v1 >= v2 THEN Mergable("UGE", v1) ELSE NotMergable
    [] op2 = "UGE" -> IF v1 > v2 THEN Mergable("UGE", v1) ELSE Always
    [] op2 = "ULE" -> IF v1 = v2 THEN Mergable("EQ", v1)
                      ELSE IF v1 > v2 THEN Never ELSE NotMergable
    [] op2 \in {"LE", "GE"} -> NotMergable

\* x >=u v1 where x op2 v2
CompareUGE(v1, op2, v2) ==
  CASE op2 = "EQ"  -> IF v1 <= v2 THEN Always ELSE Never
    [] op2 = "NEQ" -> IF v1 = v2 THEN Mergable("UGE", Next1(v1))
                      ELSE IF v1 > v2 THEN Mergable("UGE", v1) ELSE NotMergable
    [] op2 = "UGE" -> IF v1 > v2 THEN Mergable("UGE", v1) ELSE Always
    [] op2 = "ULE" -> IF v1 = v2 THEN Mergable("EQ", v1)
                      ELSE IF v1 > v2 THEN Never ELSE NotMergable
    [] op2 \in {"LE", "GE"} -> NotMergable

\* x <=u v1 where x op2 v2
CompareULE(v1, op2, v2) ==
  CASE op2 = "EQ"  -> IF v1 >= v2 THEN Always ELSE Never
    [] op2 = "NEQ" -> IF v1 = v2 THEN Mergable("ULE", Previous1(v1))
                      ELSE IF v1 < v2 THEN Mergable("ULE", v1) ELSE NotMergable
    [] op2 = "ULE" -> IF v1 < v2 THEN Mergable("ULE", v1) ELSE Always
    [] op2 = "UGE" -> IF v1 = v2 THEN Mergable("EQ", v1)
                      ELSE IF v1 < v2 THEN Never ELSE NotMergable
    [] op2 \in {"LE", "GE"} -> NotMergable

\* x >= v1, signed, where x op2 v2
CompareGE(v1, op2, v2) ==
  LET s1 == Signed(v1)
      s2 == Signed(v2)
  IN CASE op2 = "EQ"  -> IF s1 <= s2 THEN Always ELSE Never
       [] op2 = "NEQ" -> IF v1 = v2 THEN Mergable("GE", Next1(v1))
                         ELSE IF s1 > s2 THEN Mergable("GE", v1) ELSE NotMergable
       [] op2 = "GE"  -> IF s1 > s2 THEN Mergable("GE", v1) ELSE Always
       [] op2 = "LE"  -> IF v1 = v2 THEN Mergable("EQ", v1)
                         ELSE IF s1 > s2 THEN Never ELSE NotMergable
       [] op2 \in {"ULE", "UGE"} -> NotMergable

\* x <= v1, signed, where x op2 v2; of two equal ones the new one is kept
CompareLE(v1, op2, v2) ==
  LET s1 == Signed(v1)
      s2 == Signed(v2)
  IN CASE op2 = "EQ"  -> IF s1 >= s2 THEN Always ELSE Never
       [] op2 = "NEQ" -> IF v1 = v2 THEN Mergable("LE", Previous1(v1))
                         ELSE IF s1 < s2 THEN Mergable("LE", v1) ELSE NotMergable
       [] op2 = "LE"  -> IF s1 <= s2 THEN Mergable("LE", v1) ELSE Always
       [] op2 = "GE"  -> IF v1 = v2 THEN Mergable("EQ", v1)
                         ELSE IF s1 < s2 THEN Never ELSE NotMergable
       [] op2 \in {"ULE", "UGE"} -> NotMergable

CompareNormalized(op1, v1, op2, v2) ==
  CASE op1 = "EQ"  -> CompareEQ(v1, op2, v2)
    [] op1 = "NEQ" -> CompareNEQ(v1, op2, v2)
    [] op1 = "ULE" -> CompareULE(v1, op2, v2)
    [] op1 = "UGE" -> CompareUGE(v1, op2, v2)
    [] op1 = "LE"  -> CompareLE(v1, op2, v2)
    [] op1 = "GE"  -> CompareGE(v1, op2, v2)

(* The constant of a merged comparison moved past the last value of its    *)
(* interval: x >= last /\ x != last became true of every x.                *)
LastValue(op) == CASE op = "UGE" -> MaxWord [] op = "ULE" -> 0
                   [] op = "GE" -> MaxInt   [] op = "LE" -> MinInt
                   [] OTHER -> MaxWord

CutsLastValue(op1, v1, op2, v2) ==
  /\ v1 = v2
  /\ \/ op1 = "NEQ" /\ op2 \in {"UGE", "ULE", "GE", "LE"} /\ v1 = LastValue(op2)
     \/ op2 = "NEQ" /\ op1 \in {"UGE", "ULE", "GE", "LE"} /\ v1 = LastValue(op1)

==============================================================================
