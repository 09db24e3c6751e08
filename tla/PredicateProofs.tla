--------------------------- MODULE PredicateProofs ---------------------------
(***************************************************************************)
(* The comparisons, the table of CompareNormalized, and the loops over the *)
(* conditions of a predicate, for words of any width, predicates of any    *)
(* length and expressions of any value: the runs check them in the         *)
(* predicates of paths, on four bits.                                      *)
(***************************************************************************)
EXTENDS Predicate, FiniteSetTheorems, WellFoundedInduction, SequenceTheorems, TLAPS

\* What a result r says of x op1 v1, where x op2 v2, is so; a merged comparison stands
\* for both, unless a bound was moved past the last value of its interval.
Sound(r, x, op1, v1, op2, v2) ==
  /\ r.result = "NEVER" => ~(Holds(x, op1, v1) /\ Holds(x, op2, v2))
  /\ r.result = "ALWAYS" => (Holds(x, op2, v2) => Holds(x, op1, v1))
  /\ r.result = "MERGABLE" /\ ~CutsLastValue(op1, v1, op2, v2) =>
       (Holds(x, r.op, r.v) <=> Holds(x, op1, v1) /\ Holds(x, op2, v2))

\* A merged comparison is normalized again, of a word
WellFormed(r) == r.result = "MERGABLE" => r.op \in Normalized /\ r.v \in Words

\* The ten comparisons.
LEMMA HoldsMeaning ==
  ASSUME NEW x, NEW v
  PROVE  /\ Holds(x, "EQ", v) <=> x = v
         /\ Holds(x, "NEQ", v) <=> x # v
         /\ Holds(x, "UGE", v) <=> x >= v
         /\ Holds(x, "ULT", v) <=> x < v
         /\ Holds(x, "UGT", v) <=> x > v
         /\ Holds(x, "ULE", v) <=> x <= v
         /\ Holds(x, "GE", v) <=> Signed(x) >= Signed(v)
         /\ Holds(x, "LT", v) <=> Signed(x) < Signed(v)
         /\ Holds(x, "GT", v) <=> Signed(x) > Signed(v)
         /\ Holds(x, "LE", v) <=> Signed(x) <= Signed(v)
BY DEF Holds

\* A word is an integer, and so is its signed value, which tells words apart.
LEMMA WordFacts ==
  ASSUME NEW x \in Words, NEW v \in Words
  PROVE  /\ x \in Int /\ v \in Int /\ Signed(x) \in Int /\ Signed(v) \in Int
         /\ Signed(x) = Signed(v) <=> x = v
BY WordAssumption DEF Signed, Words

\* Away from the last values, Next1 moves a bound up by one, in both orders.
LEMMA NextWord ==
  ASSUME NEW v \in Words
  PROVE  /\ Next1(v) \in Words
         /\ v # MaxWord => Next1(v) = v + 1
         /\ v # MaxInt => Signed(Next1(v)) = Signed(v) + 1
BY WordAssumption DEF Next1, Signed, Words

\* Previous1 moves it down by one.
LEMMA PreviousWord ==
  ASSUME NEW v \in Words
  PROVE  /\ Previous1(v) \in Words
         /\ v # 0 => Previous1(v) = v - 1
         /\ v # MinInt => Signed(Previous1(v)) = Signed(v) - 1
BY WordAssumption DEF Previous1, Signed, Words, MinInt

\* The ends of the two orders.
LEMMA LeastWords ==
  ASSUME NEW x \in Words
  PROVE  /\ x >= 0 /\ x <= MaxWord
         /\ Signed(x) >= Signed(MinInt) /\ Signed(x) <= Signed(MaxInt)
BY WordAssumption DEF Signed, Words, MinInt

\* NegateOperator and FlipOperator (Condition.hpp) turn a comparison into its contrary
\* and into that of the swapped operands, for all ten operators.
THEOREM OperatorsCorrect ==
  ASSUME NEW x \in Words, NEW v \in Words, NEW operator \in Operators
  PROVE  /\ Holds(x, NegateOperator(operator), v) <=> ~Holds(x, operator, v)
         /\ Holds(v, FlipOperator(operator), x) <=> Holds(x, operator, v)
<1>1. /\ NegateOperator("EQ") = "NEQ" /\ NegateOperator("NEQ") = "EQ"
      /\ NegateOperator("UGE") = "ULT" /\ NegateOperator("ULT") = "UGE"
      /\ NegateOperator("UGT") = "ULE" /\ NegateOperator("ULE") = "UGT"
      /\ NegateOperator("GE") = "LT" /\ NegateOperator("LT") = "GE"
      /\ NegateOperator("GT") = "LE" /\ NegateOperator("LE") = "GT"
  BY DEF NegateOperator
<1>2. /\ FlipOperator("EQ") = "EQ" /\ FlipOperator("NEQ") = "NEQ"
      /\ FlipOperator("UGE") = "ULE" /\ FlipOperator("ULE") = "UGE"
      /\ FlipOperator("ULT") = "UGT" /\ FlipOperator("UGT") = "ULT"
      /\ FlipOperator("GE") = "LE" /\ FlipOperator("LE") = "GE"
      /\ FlipOperator("LT") = "GT" /\ FlipOperator("GT") = "LT"
  BY DEF FlipOperator
<1>3. CASE operator \in {"EQ", "NEQ"}
  BY <1>1, <1>2, <1>3, HoldsMeaning, WordFacts
<1>4. CASE operator \in {"UGE", "ULT", "UGT", "ULE"}
  BY <1>1, <1>2, <1>4, HoldsMeaning, WordFacts
<1>5. CASE operator \in {"GE", "LT", "GT", "LE"}
  BY <1>1, <1>2, <1>5, HoldsMeaning, WordFacts
<1> QED
  BY <1>3, <1>4, <1>5 DEF Operators

(* The table, for a first comparison with each operator. *)

\* x = v1 is implied or impossible, or it is the stronger one.
LEMMA CompareEQCorrect ==
  ASSUME NEW x \in Words, NEW v1 \in Words, NEW v2 \in Words, NEW op2 \in Normalized
  PROVE  /\ Sound(CompareEQ(v1, op2, v2), x, "EQ", v1, op2, v2)
         /\ WellFormed(CompareEQ(v1, op2, v2))
BY HoldsMeaning DEF CompareEQ, Sound, WellFormed, Normalized, Always, Never, Mergable, CutsLastValue

\* x >=u v1 is merged with x # v1 by moving the bound, and with x <=u v1 into x = v1.
LEMMA CompareUGECorrect ==
  ASSUME NEW x \in Words, NEW v1 \in Words, NEW v2 \in Words, NEW op2 \in Normalized
  PROVE  /\ Sound(CompareUGE(v1, op2, v2), x, "UGE", v1, op2, v2)
         /\ WellFormed(CompareUGE(v1, op2, v2))
<1>1. CASE op2 = "EQ"
  BY <1>1, HoldsMeaning, WordFacts DEF CompareUGE, Sound, WellFormed, Always, Never
<1>2. CASE op2 = "NEQ"
  <2>1. v1 # MaxWord => Next1(v1) = v1 + 1
    BY DEF Next1
  <2>2. Next1(v1) \in Words
    BY WordAssumption DEF Next1, Words
  <2>3. v1 = v2 /\ ~CutsLastValue("UGE", v1, op2, v2) => v1 # MaxWord
    BY <1>2 DEF CutsLastValue, LastValue
  <2> QED
    BY <1>2, <2>1, <2>2, <2>3, HoldsMeaning, WordFacts, WordAssumption
       DEF CompareUGE, Sound, WellFormed, Mergable, NotMergable, Normalized, Words
<1>3. CASE op2 = "UGE"
  BY <1>3, HoldsMeaning, WordFacts DEF CompareUGE, Sound, WellFormed, Always, Mergable, Normalized, Words
<1>4. CASE op2 = "ULE"
  BY <1>4, HoldsMeaning, WordFacts
     DEF CompareUGE, Sound, WellFormed, Never, Mergable, NotMergable, Normalized, Words
<1>5. CASE op2 \in {"LE", "GE"}
  BY <1>5 DEF CompareUGE, Sound, WellFormed, NotMergable
<1> QED
  BY <1>1, <1>2, <1>3, <1>4, <1>5 DEF Normalized

\* x # v1 is merged only with an interval that ends at v1.
LEMMA CompareNEQCorrect ==
  ASSUME NEW x \in Words, NEW v1 \in Words, NEW v2 \in Words, NEW op2 \in Normalized
  PROVE  /\ Sound(CompareNEQ(v1, op2, v2), x, "NEQ", v1, op2, v2)
         /\ WellFormed(CompareNEQ(v1, op2, v2))
<1>1. CASE op2 \in {"EQ", "NEQ"}
  BY <1>1, HoldsMeaning, WordFacts
     DEF CompareNEQ, Sound, WellFormed, Always, Never, NotMergable
<1>2. CASE op2 \in {"UGE", "GE", "ULE", "LE"} /\ v1 # v2
  <2>1. CompareNEQ(v1, op2, v2) = IF Holds(v1, op2, v2) THEN NotMergable ELSE Always
    BY <1>2 DEF CompareNEQ
  <2>2. Holds(x, op2, v2) /\ ~Holds(v1, op2, v2) => x # v1
    OBVIOUS
  <2> QED
    BY <2>1, <2>2, HoldsMeaning DEF Sound, WellFormed, Always, NotMergable
<1>3. CASE op2 = "UGE" /\ v1 = v2
  <2>1. CompareNEQ(v1, op2, v2) = Mergable("UGE", Next1(v1))
    BY <1>3 DEF CompareNEQ
  <2>2. ~CutsLastValue("NEQ", v1, op2, v2) => v1 # MaxWord
    BY <1>3 DEF CutsLastValue, LastValue
  <2> QED
    BY <1>3, <2>1, <2>2, NextWord, HoldsMeaning, WordFacts DEF Sound, WellFormed, Mergable, Normalized
<1>4. CASE op2 = "GE" /\ v1 = v2
  <2>1. CompareNEQ(v1, op2, v2) = Mergable("GE", Next1(v1))
    BY <1>4 DEF CompareNEQ
  <2>2. ~CutsLastValue("NEQ", v1, op2, v2) => v1 # MaxInt
    BY <1>4 DEF CutsLastValue, LastValue
  <2> QED
    BY <1>4, <2>1, <2>2, NextWord, HoldsMeaning, WordFacts DEF Sound, WellFormed, Mergable, Normalized
<1>5. CASE op2 = "ULE" /\ v1 = v2
  <2>1. CompareNEQ(v1, op2, v2) = Mergable("ULE", Previous1(v1))
    BY <1>5 DEF CompareNEQ
  <2>2. ~CutsLastValue("NEQ", v1, op2, v2) => v1 # 0
    BY <1>5 DEF CutsLastValue, LastValue
  <2> QED
    BY <1>5, <2>1, <2>2, PreviousWord, HoldsMeaning, WordFacts DEF Sound, WellFormed, Mergable, Normalized
<1>6. CASE op2 = "LE" /\ v1 = v2
  <2>1. CompareNEQ(v1, op2, v2) = Mergable("LE", Previous1(v1))
    BY <1>6 DEF CompareNEQ
  <2>2. ~CutsLastValue("NEQ", v1, op2, v2) => v1 # MinInt
    BY <1>6 DEF CutsLastValue, LastValue
  <2> QED
    BY <1>6, <2>1, <2>2, PreviousWord, HoldsMeaning, WordFacts DEF Sound, WellFormed, Mergable, Normalized
<1> QED
  BY <1>1, <1>2, <1>3, <1>4, <1>5, <1>6 DEF Normalized

\* x <=u v1, the mirror image of x >=u v1.
LEMMA CompareULECorrect ==
  ASSUME NEW x \in Words, NEW v1 \in Words, NEW v2 \in Words, NEW op2 \in Normalized
  PROVE  /\ Sound(CompareULE(v1, op2, v2), x, "ULE", v1, op2, v2)
         /\ WellFormed(CompareULE(v1, op2, v2))
<1>1. CASE op2 = "EQ"
  BY <1>1, HoldsMeaning, WordFacts DEF CompareULE, Sound, WellFormed, Always, Never
<1>2. CASE op2 = "NEQ"
  <2>1. v1 = v2 /\ ~CutsLastValue("ULE", v1, op2, v2) => v1 # 0
    BY <1>2 DEF CutsLastValue, LastValue
  <2> QED
    BY <1>2, <2>1, PreviousWord, HoldsMeaning, WordFacts
       DEF CompareULE, Sound, WellFormed, Mergable, NotMergable, Normalized
<1>3. CASE op2 = "ULE"
  BY <1>3, HoldsMeaning, WordFacts DEF CompareULE, Sound, WellFormed, Always, Mergable, Normalized
<1>4. CASE op2 = "UGE"
  BY <1>4, HoldsMeaning, WordFacts
     DEF CompareULE, Sound, WellFormed, Never, Mergable, NotMergable, Normalized
<1>5. CASE op2 \in {"LE", "GE"}
  BY <1>5 DEF CompareULE, Sound, WellFormed, NotMergable
<1> QED
  BY <1>1, <1>2, <1>3, <1>4, <1>5 DEF Normalized

\* x >= v1 in the signed order.
LEMMA CompareGECorrect ==
  ASSUME NEW x \in Words, NEW v1 \in Words, NEW v2 \in Words, NEW op2 \in Normalized
  PROVE  /\ Sound(CompareGE(v1, op2, v2), x, "GE", v1, op2, v2)
         /\ WellFormed(CompareGE(v1, op2, v2))
<1>1. CASE op2 = "EQ"
  BY <1>1, HoldsMeaning, WordFacts DEF CompareGE, Sound, WellFormed, Always, Never
<1>2. CASE op2 = "NEQ"
  <2>1. v1 = v2 /\ ~CutsLastValue("GE", v1, op2, v2) => v1 # MaxInt
    BY <1>2 DEF CutsLastValue, LastValue
  <2>2. v1 # v2 => Signed(v1) # Signed(v2)
    BY WordFacts
  <2> QED
    BY <1>2, <2>1, <2>2, NextWord, HoldsMeaning, WordFacts
       DEF CompareGE, Sound, WellFormed, Mergable, NotMergable, Normalized
<1>3. CASE op2 = "GE"
  BY <1>3, HoldsMeaning, WordFacts DEF CompareGE, Sound, WellFormed, Always, Mergable, Normalized
<1>4. CASE op2 = "LE"
  BY <1>4, HoldsMeaning, WordFacts
     DEF CompareGE, Sound, WellFormed, Never, Mergable, NotMergable, Normalized
<1>5. CASE op2 \in {"ULE", "UGE"}
  BY <1>5 DEF CompareGE, Sound, WellFormed, NotMergable
<1> QED
  BY <1>1, <1>2, <1>3, <1>4, <1>5 DEF Normalized

\* x <= v1 in the signed order, which replaces an equal bound by itself.
LEMMA CompareLECorrect ==
  ASSUME NEW x \in Words, NEW v1 \in Words, NEW v2 \in Words, NEW op2 \in Normalized
  PROVE  /\ Sound(CompareLE(v1, op2, v2), x, "LE", v1, op2, v2)
         /\ WellFormed(CompareLE(v1, op2, v2))
<1>1. CASE op2 = "EQ"
  BY <1>1, HoldsMeaning, WordFacts DEF CompareLE, Sound, WellFormed, Always, Never
<1>2. CASE op2 = "NEQ"
  <2>1. v1 = v2 /\ ~CutsLastValue("LE", v1, op2, v2) => v1 # MinInt
    BY <1>2 DEF CutsLastValue, LastValue
  <2>2. v1 # v2 => Signed(v1) # Signed(v2)
    BY WordFacts
  <2> QED
    BY <1>2, <2>1, <2>2, PreviousWord, HoldsMeaning, WordFacts
       DEF CompareLE, Sound, WellFormed, Mergable, NotMergable, Normalized
<1>3. CASE op2 = "LE"
  BY <1>3, HoldsMeaning, WordFacts DEF CompareLE, Sound, WellFormed, Always, Mergable, Normalized
<1>4. CASE op2 = "GE"
  BY <1>4, HoldsMeaning, WordFacts
     DEF CompareLE, Sound, WellFormed, Never, Mergable, NotMergable, Normalized
<1>5. CASE op2 \in {"ULE", "UGE"}
  BY <1>5 DEF CompareLE, Sound, WellFormed, NotMergable
<1> QED
  BY <1>1, <1>2, <1>3, <1>4, <1>5 DEF Normalized

\* CompareNormalized (Predicate.cpp) never calls a condition impossible, implied or
\* merged when it is not, for words of every width, unless a bound was moved past the
\* last value; and what it merges is normalized again.
THEOREM CompareCorrect ==
  ASSUME NEW x \in Words, NEW v1 \in Words, NEW v2 \in Words,
         NEW op1 \in Normalized, NEW op2 \in Normalized
  PROVE  /\ Sound(CompareNormalized(op1, v1, op2, v2), x, op1, v1, op2, v2)
         /\ WellFormed(CompareNormalized(op1, v1, op2, v2))
<1>1. CASE op1 = "EQ"
  BY <1>1, CompareEQCorrect DEF CompareNormalized
<1>2. CASE op1 = "NEQ"
  BY <1>2, CompareNEQCorrect DEF CompareNormalized
<1>3. CASE op1 = "UGE"
  BY <1>3, CompareUGECorrect DEF CompareNormalized
<1>4. CASE op1 = "ULE"
  BY <1>4, CompareULECorrect DEF CompareNormalized
<1>5. CASE op1 = "GE"
  BY <1>5, CompareGECorrect DEF CompareNormalized
<1>6. CASE op1 = "LE"
  BY <1>6, CompareLECorrect DEF CompareNormalized
<1> QED
  BY <1>1, <1>2, <1>3, <1>4, <1>5, <1>6 DEF Normalized

\* The exception is needed: a bound that CompareNormalized moves past the last value wraps
\* to the first one, and the merged condition holds of every word.
THEOREM CutHoldsAlways ==
  ASSUME NEW x \in Words, NEW v1 \in Words, NEW v2 \in Words,
         NEW op1 \in Normalized, NEW op2 \in Normalized,
         CutsLastValue(op1, v1, op2, v2)
  PROVE  LET r == CompareNormalized(op1, v1, op2, v2)
         IN  r.result = "MERGABLE" /\ Holds(x, r.op, r.v)
<1> DEFINE r == CompareNormalized(op1, v1, op2, v2)
<1>1. PICK o \in {"UGE", "ULE", "GE", "LE"} :
        /\ {op1, op2} = {"NEQ", o}
        /\ v1 = v2 /\ v1 = LastValue(o)
  BY DEF CutsLastValue
<1>2. CASE o \in {"UGE", "GE"}
  <2>1. r = Mergable(o, Next1(v1))
    BY <1>1, <1>2 DEF CompareNormalized, CompareNEQ, CompareUGE, CompareGE
  <2>2. Next1(v1) = IF o = "UGE" THEN 0 ELSE MinInt
    BY <1>1, <1>2, WordAssumption DEF LastValue, Next1, MinInt
  <2>3. Holds(x, o, Next1(v1))
    BY <1>2, <2>2, HoldsMeaning, LeastWords
  <2> QED
    BY <2>1, <2>3 DEF Mergable
<1>3. CASE o \in {"ULE", "LE"}
  <2>1. r = Mergable(o, Previous1(v1))
    BY <1>1, <1>3 DEF CompareNormalized, CompareNEQ, CompareULE, CompareLE
  <2>2. Previous1(v1) = IF o = "ULE" THEN MaxWord ELSE MaxInt
    BY <1>1, <1>3, WordAssumption DEF LastValue, Previous1, MinInt
  <2>3. Holds(x, o, Previous1(v1))
    BY <1>3, <2>2, HoldsMeaning, LeastWords
  <2> QED
    BY <2>1, <2>3 DEF Mergable
<1> QED
  BY <1>1, <1>2, <1>3

------------------------------------------------------------------------------
(* Induction over lengths, by the least one that fails.                    *)

\* Every nonempty set of natural numbers has a least element.
LEMMA Least == ASSUME NEW T \in SUBSET Nat, T # {} PROVE \E x \in T : \A y \in T : x <= y
<1>1. PICK n \in T : TRUE
  OBVIOUS
<1> DEFINE below == 0 .. n
           starts == {0 .. m : m \in {k \in T : k <= n}}
<1>2. IsFiniteSet(below)
  BY FS_Interval
<1>3. FiniteSubsetsOf(below) = SUBSET below
  BY <1>2, FS_FiniteSubsetsOfFinite
<1>4. starts \subseteq SUBSET below /\ 0 .. n \in starts
  BY <1>1
<1> HIDE DEF below, starts
<1>5. IsWellFoundedOn(StrictSubsetOrdering(below), FiniteSubsetsOf(below))
  BY FS_StrictSubsetOrderingWellFounded
<1>6. PICK X \in starts : \A Y \in starts : ~ (<<Y, X>> \in StrictSubsetOrdering(below))
  BY <1>3, <1>4, <1>5, WFMin
<1>7. \A Y \in starts : ~ (Y \subseteq X /\ X # Y)
  BY <1>6, <1>4 DEF StrictSubsetOrdering
<1>8. PICK m \in T : m <= n /\ X = 0 .. m
  BY <1>6 DEF starts
<1>9. ASSUME NEW y \in T, y < m PROVE FALSE
  <2>1. y <= n
    BY <1>8, <1>9, <1>1
  <2>2. 0 .. y \in starts
    BY <2>1 DEF starts
  <2>3. 0 .. y \subseteq X /\ m \notin 0 .. y /\ m \in 0 .. m
    BY <1>8, <1>9
  <2> QED BY <2>2, <2>3, <1>7, <1>8
<1> QED BY <1>8, <1>9

\* The greatest of some numbers up to n is one of them, and none is greater.
LEMMA MaxIn ==
  ASSUME NEW n \in Nat, NEW I \in SUBSET (1 .. n), I # {}
  PROVE  Max(I) \in I /\ \A i \in I : i <= Max(I)
<1> DEFINE T == {n - i : i \in I}
<1>1. T \in SUBSET Nat /\ T # {}
  OBVIOUS
<1> HIDE DEF T
<1>2. PICK x \in T : \A y \in T : x <= y
  BY <1>1, Least
<1>3. PICK m \in I : x = n - m
  BY <1>2 DEF T
<1>4. \A i \in I : m >= i
  <2> TAKE i \in I
  <2>1. n - i \in T
    BY DEF T
  <2> QED BY <2>1, <1>2, <1>3
<1>5. Max(I) \in I /\ \A i \in I : Max(I) >= i
  BY <1>4 DEF Max
<1> QED BY <1>5

\* The least of some numbers up to n is one of them, and none is less.
LEMMA MinIn ==
  ASSUME NEW n \in Nat, NEW I \in SUBSET (1 .. n), I # {}
  PROVE  Min(I) \in I /\ \A i \in I : Min(I) <= i
<1>1. PICK m \in I : \A y \in I : m <= y
  BY Least
<1> QED BY <1>1 DEF Min

\* A function is defined by what it is at 0 and what MergeRound makes of it from there on.
LEMMA RoundsDefined ==
  ASSUME NEW start, NEW n \in Nat
  PROVE  \E f : f = [k \in 0 .. n |-> IF k = 0 THEN start ELSE MergeRound(f[k - 1])]
<1> DEFINE Defined(f, m) == f = [k \in 0 .. m |-> IF k = 0 THEN start ELSE MergeRound(f[k - 1])]
           T == {m \in Nat : \A f : ~Defined(f, m)}
<1>1. SUFFICES T = {}
  OBVIOUS
<1>2. SUFFICES ASSUME T # {} PROVE FALSE
  OBVIOUS
<1>3. PICK m \in T : \A y \in T : m <= y
  <2>1. T \in SUBSET Nat
    OBVIOUS
  <2> HIDE DEF T
  <2> QED BY <1>2, <2>1, Least
<1>4. m \in Nat /\ \A f : ~Defined(f, m)
  OBVIOUS
<1>5. m # 0
  <2>1. ASSUME m = 0 PROVE Defined([k \in 0 .. 0 |-> start], m)
    BY <2>1
  <2> HIDE DEF Defined
  <2> QED BY <1>4, <2>1
<1>6. PICK f : Defined(f, m - 1)
  <2>1. m - 1 \in Nat /\ ~ (m <= m - 1)
    BY <1>4, <1>5
  <2>2. m - 1 \notin T
    <3> HIDE DEF T
    <3> QED BY <1>3, <2>1
  <2> QED BY <2>1, <2>2
<1> DEFINE g == [k \in 0 .. m |-> IF k = m THEN MergeRound(f[m - 1]) ELSE f[k]]
<1>7. \A k \in 0 .. m : g[k] = IF k = 0 THEN start ELSE MergeRound(g[k - 1])
  <2> TAKE k \in 0 .. m
  <2>1. CASE k = m
    BY <2>1, <1>4, <1>5
  <2>2. CASE k # m
    <3>1. k \in 0 .. m - 1 /\ g[k] = f[k]
      BY <2>2, <1>4
    <3>2. f[k] = IF k = 0 THEN start ELSE MergeRound(f[k - 1])
      BY <3>1, <1>6
    <3>3. k # 0 => k - 1 \in 0 .. m /\ k - 1 # m
      BY <3>1, <1>4
    <3> QED BY <3>1, <3>2, <3>3
  <2> QED BY <2>1, <2>2
<1>8. Defined(g, m)
  <2> DEFINE h == [k \in 0 .. m |-> IF k = 0 THEN start ELSE MergeRound(g[k - 1])]
  <2>1. \A k \in 0 .. m : g[k] = h[k]
    <3> HIDE DEF g
    <3> QED BY <1>7
  <2>2. DOMAIN g = 0 .. m /\ DOMAIN h = 0 .. m
    OBVIOUS
  <2>3. g = h
    <3>1. g = [k \in 0 .. m |-> g[k]] /\ h = [k \in 0 .. m |-> h[k]]
      OBVIOUS
    <3> HIDE DEF g, h
    <3> QED BY <2>1, <3>1
  <2> QED BY <2>3
<1> HIDE DEF Defined, g
<1> QED BY <1>4, <1>8

------------------------------------------------------------------------------
(* The conditions of a predicate, on expressions E: a valuation gives each *)
(* of them a word, and is any at all.                                      *)

\* What Normalize makes of a condition, unless it is always or never true
Forms(E) == {NormalCondition(e, op, Const(v)) : e \in E, op \in Normalized, v \in Words}
\* A predicate that is false keeps that as its condition
Listed(E) == Forms(E) \cup {Special("FALSE")}

HoldsOf(c, val) == c.special = "TRUE" \/ (c.special = "NORMAL" /\ Holds(val[c.e1], c.op, c.e2.v))
AllHold(conditions, val) == \A i \in 1 .. Len(conditions) : HoldsOf(conditions[i], val)

\* The states of MergeCondition's loop, and what one stands for
Rounds(E) == [c : Forms(E), conditions : Seq(Listed(E)), over : BOOLEAN, cut : BOOLEAN]
Meaning(st, val) == AllHold(st.conditions, val) /\ (st.over \/ HoldsOf(st.c, val))

\* The parts of a condition.
LEMMA FormFacts ==
  ASSUME NEW E, NEW c \in Forms(E)
  PROVE  /\ c.special = "NORMAL" /\ c.e1 \in E /\ c.op \in Normalized /\ c.e2.v \in Words
         /\ \A op \in Normalized, v \in Words : NormalCondition(c.e1, op, Const(v)) \in Forms(E)
BY DEF Forms, NormalCondition, Const

\* A condition of a predicate is normal, or that of a predicate that is false.
LEMMA ListedFacts ==
  ASSUME NEW E, NEW c \in Listed(E)
  PROVE  /\ c.special \in {"NORMAL", "FALSE"}
         /\ c.special = "NORMAL" <=> c \in Forms(E)
BY FormFacts DEF Listed, Special

\* SelectInSeq returns the first one, or 0.
LEMMA FirstFalseFacts ==
  ASSUME NEW E, NEW conditions \in Seq(Listed(E))
  PROVE  /\ FirstFalse(conditions) \in 0 .. Len(conditions)
         /\ FirstFalse(conditions) = 0 =>
              \A k \in 1 .. Len(conditions) : conditions[k].special # "FALSE"
         /\ FirstFalse(conditions) # 0 =>
              /\ conditions[FirstFalse(conditions)].special = "FALSE"
              /\ \A k \in 1 .. Len(conditions) :
                   k < FirstFalse(conditions) => conditions[k].special # "FALSE"
<1> DEFINE I == {i \in 1 .. Len(conditions) : conditions[i].special = "FALSE"}
<1>1. FirstFalse(conditions) = IF I # {} THEN Min(I) ELSE 0
  BY DEF FirstFalse, SelectInSeq
<1>2. Len(conditions) \in Nat /\ I \in SUBSET (1 .. Len(conditions))
  OBVIOUS
<1>3. CASE I = {}
  BY <1>1, <1>2, <1>3
<1>4. CASE I # {}
  <2> HIDE DEF I
  <2>1. Min(I) \in I /\ \A i \in I : Min(I) <= i
    BY <1>2, <1>4, MinIn
  <2>2. PICK f : f = FirstFalse(conditions)
    OBVIOUS
  <2>3. f \in I /\ \A i \in I : f <= i
    BY <2>1, <2>2, <1>1, <1>4
  <2>4. f \in 1 .. Len(conditions) /\ conditions[f].special = "FALSE"
    BY <2>3 DEF I
  <2>5. ASSUME NEW k \in 1 .. Len(conditions), k < f PROVE conditions[k].special # "FALSE"
    <3>1. k \notin I
      BY <2>3, <2>4, <2>5, <1>2
    <3> QED BY <3>1 DEF I
  <2>6. f \in 0 .. Len(conditions) /\ f # 0
    BY <2>4, <1>2
  <2> QED BY <2>2, <2>4, <2>5, <2>6
<1> QED BY <1>3, <1>4

\* The same of the first condition that is related to c.
LEMMA FirstRelatedFacts ==
  ASSUME NEW E, NEW conditions \in Seq(Listed(E)), NEW c
  PROVE  /\ FirstRelated(c, conditions) \in 0 .. Len(conditions)
         /\ FirstRelated(c, conditions) # 0 =>
              Compared(c, conditions[FirstRelated(c, conditions)]) # NotMergable
<1> DEFINE I == {i \in 1 .. Len(conditions) : Compared(c, conditions[i]) # NotMergable}
<1>1. FirstRelated(c, conditions) = IF I # {} THEN Min(I) ELSE 0
  BY DEF FirstRelated, SelectInSeq
<1>2. Len(conditions) \in Nat /\ I \in SUBSET (1 .. Len(conditions))
  OBVIOUS
<1>3. CASE I = {}
  BY <1>1, <1>2, <1>3
<1>4. CASE I # {}
  <2> HIDE DEF I
  <2>1. Min(I) \in I
    BY <1>2, <1>4, MinIn
  <2>2. FirstRelated(c, conditions) = Min(I)
    BY <1>1, <1>4
  <2> USE DEF I
  <2> QED BY <2>1, <2>2, <1>2
<1> QED BY <1>3, <1>4

\* RemoveAt takes the i-th condition out, and leaves the others.
LEMMA RemoveFacts ==
  ASSUME NEW S, NEW s \in Seq(S), NEW i \in 1 .. Len(s)
  PROVE  /\ RemoveAt(s, i) \in Seq(S)
         /\ Len(RemoveAt(s, i)) = Len(s) - 1
         /\ \A P : (\A k \in 1 .. Len(s) : s[k] \in P) <=>
                      s[i] \in P /\ \A k \in 1 .. Len(s) - 1 : RemoveAt(s, i)[k] \in P
<1>1. Len(s) \in Nat /\ i \in Int /\ 1 <= i /\ i <= Len(s)
  OBVIOUS
<1> DEFINE a == SubSeq(s, 1, i - 1)
           b == SubSeq(s, i + 1, Len(s))
           r == RemoveAt(s, i)
<1>2. a \in Seq(S) /\ Len(a) = i - 1 /\ \A k \in 1 .. i - 1 : a[k] = s[k]
  BY <1>1
<1>3. b \in Seq(S) /\ Len(b) = Len(s) - i /\ \A k \in 1 .. Len(s) - i : b[k] = s[i + k]
  BY <1>1
<1>4. r = a \o b
  BY DEF RemoveAt
<1> HIDE DEF a, b, r
<1>5. r \in Seq(S) /\ Len(r) = Len(s) - 1
  BY <1>1, <1>2, <1>3, <1>4
<1>6. \A k \in 1 .. Len(s) - 1 : r[k] = IF k < i THEN s[k] ELSE s[k + 1]
  <2> TAKE k \in 1 .. Len(s) - 1
  <2>1. CASE k < i
    BY <2>1, <1>1, <1>2, <1>3, <1>4
  <2>2. CASE ~ (k < i)
    <3>1. k - Len(a) \in 1 .. Len(b) /\ i + (k - Len(a)) = k + 1
      BY <2>2, <1>1, <1>2, <1>3
    <3>2. r[k] = b[k - Len(a)]
      BY <2>2, <1>1, <1>2, <1>3, <1>4
    <3> QED BY <2>2, <3>1, <3>2, <1>2, <1>3
  <2> QED BY <2>1, <2>2
<1>7. ASSUME NEW P
      PROVE  (\A k \in 1 .. Len(s) : s[k] \in P) <=>
                s[i] \in P /\ \A k \in 1 .. Len(s) - 1 : r[k] \in P
  <2>1. ASSUME \A k \in 1 .. Len(s) : s[k] \in P
        PROVE  s[i] \in P /\ \A k \in 1 .. Len(s) - 1 : r[k] \in P
    <3>1. \A k \in 1 .. Len(s) - 1 : k \in 1 .. Len(s) /\ k + 1 \in 1 .. Len(s)
      BY <1>1
    <3> QED BY <2>1, <3>1, <1>6
  <2>2. ASSUME s[i] \in P, \A k \in 1 .. Len(s) - 1 : r[k] \in P, NEW k \in 1 .. Len(s)
        PROVE  s[k] \in P
    <3>1. CASE k < i
      <4>1. k \in 1 .. Len(s) - 1
        BY <3>1, <1>1
      <4> QED BY <4>1, <3>1, <2>2, <1>6
    <3>2. CASE k > i
      <4>1. k - 1 \in 1 .. Len(s) - 1 /\ ~ (k - 1 < i) /\ (k - 1) + 1 = k
        BY <3>2, <1>1
      <4> QED BY <4>1, <2>2, <1>6
    <3>3. CASE k = i
      BY <3>3, <2>2
    <3> QED BY <3>1, <3>2, <3>3, <1>1
  <2> QED BY <2>1, <2>2
<1> QED BY <1>5, <1>7 DEF r

\* A round of the loop keeps the parts of its state what they are, and what they stand for,
\* unless a bound moves past the last value: then it may say less.  It ends the loop or
\* takes a condition from the list.
LEMMA RoundFine ==
  ASSUME NEW E, NEW val \in [E -> Words], NEW st \in Rounds(E)
  PROVE  LET r == MergeRound(st)
         IN  /\ r \in Rounds(E)
             /\ Meaning(st, val) => Meaning(r, val)
             /\ ~r.cut => ~st.cut /\ (Meaning(r, val) => Meaning(st, val))
             /\ ~r.over => Len(r.conditions) = Len(st.conditions) - 1
             /\ st.over => r.over
<1> DEFINE r == MergeRound(st)
           over(conditions) == [st EXCEPT !.conditions = conditions, !.over = TRUE]
<1>1. PICK list, c : list = st.conditions /\ c = st.c
  OBVIOUS
<1>2. list \in Seq(Listed(E)) /\ c \in Forms(E) /\ st.over \in BOOLEAN /\ st.cut \in BOOLEAN
      /\ Len(list) \in Nat
  BY <1>1 DEF Rounds
<1>3. PICK f, i : f = FirstFalse(list) /\ i = FirstRelated(c, list)
  OBVIOUS
<1>4. /\ f \in 0 .. Len(list)
      /\ f = 0 => \A k \in 1 .. Len(list) : list[k].special # "FALSE"
      /\ f # 0 => /\ list[f].special = "FALSE"
                  /\ \A k \in 1 .. Len(list) : k < f => list[k].special # "FALSE"
  BY <1>2, <1>3, FirstFalseFacts
<1>5. /\ i \in 0 .. Len(list)
      /\ i # 0 => Compared(c, list[i]) # NotMergable
  BY <1>2, <1>3, FirstRelatedFacts
<1>6. \A new \in Seq(Listed(E)) :
        /\ over(new) \in Rounds(E) /\ over(new).over /\ over(new).cut = st.cut
        /\ Meaning(over(new), val) <=> AllHold(new, val)
  BY DEF Rounds, Meaning
<1>7. Meaning(st, val) <=> AllHold(list, val) /\ (st.over \/ HoldsOf(c, val))
  BY <1>1 DEF Meaning
<1>8. CASE st.over \/ (f # 0 /\ (i = 0 \/ f <= i))
  <2>1. r = over(list)
    BY <1>1, <1>3, <1>8 DEF MergeRound
  <2>2. ~ st.over => ~ AllHold(list, val)
    <3>1. SUFFICES ASSUME ~ st.over PROVE ~ AllHold(list, val)
      OBVIOUS
    <3>2. f \in 1 .. Len(list) /\ list[f].special = "FALSE"
      BY <1>2, <1>4, <1>8, <3>1
    <3> QED BY <3>2 DEF AllHold, HoldsOf
  <2> HIDE DEF over, r
  <2> QED BY <2>1, <2>2, <1>2, <1>6, <1>7 DEF r
<1>9. CASE ~ st.over /\ f = 0 /\ i = 0
  <2>1. r = over(Append(list, c))
    BY <1>1, <1>3, <1>9 DEF MergeRound
  <2>2. Append(list, c) \in Seq(Listed(E))
    BY <1>2 DEF Listed
  <2>3. AllHold(Append(list, c), val) <=> AllHold(list, val) /\ HoldsOf(c, val)
    <3>1. \A k \in 1 .. Len(list) : Append(list, c)[k] = list[k]
      BY <1>2
    <3>2. Append(list, c)[Len(list) + 1] = c /\ Len(Append(list, c)) = Len(list) + 1
      BY <1>2
    <3>3. \A k : k \in 1 .. Len(list) + 1 <=> (k \in 1 .. Len(list) \/ k = Len(list) + 1)
      BY <1>2
    <3> QED BY <3>1, <3>2, <3>3 DEF AllHold
  <2> HIDE DEF over, r
  <2> QED BY <2>1, <2>2, <2>3, <1>2, <1>6, <1>7, <1>9 DEF r
<1>10. CASE ~ (st.over \/ (f # 0 /\ (i = 0 \/ f <= i))) /\ ~ (~ st.over /\ f = 0 /\ i = 0)
  <2>1. PICK o : o = list[i]
    OBVIOUS
  <2>2. i \in 1 .. Len(list) /\ o \in Listed(E) /\ o.special # "FALSE"
    BY <2>1, <1>2, <1>4, <1>5, <1>10
  <2>3. o \in Forms(E)
    BY <2>2, ListedFacts
  <2>4. PICK x, v1, v2 : x = val[c.e1] /\ v1 = c.e2.v /\ v2 = o.e2.v
    OBVIOUS
  <2>5. /\ c.special = "NORMAL" /\ c.e1 \in E /\ c.op \in Normalized /\ v1 \in Words
        /\ \A op \in Normalized, v \in Words : NormalCondition(c.e1, op, Const(v)) \in Forms(E)
        /\ o.special = "NORMAL" /\ o.op \in Normalized /\ v2 \in Words
        /\ x \in Words
    BY <1>2, <2>3, <2>4, FormFacts
  <2>6. PICK q : q = Compared(c, o)
    OBVIOUS
  <2>7. o.e1 = c.e1 /\ q = CompareNormalized(c.op, v1, o.op, v2)
    BY <2>1, <2>2, <2>4, <2>6, <1>5 DEF Compared
  <2>8. Sound(q, x, c.op, v1, o.op, v2) /\ WellFormed(q)
    BY <2>5, <2>7, CompareCorrect
  <2>9. /\ HoldsOf(c, val) <=> Holds(x, c.op, v1)
        /\ HoldsOf(o, val) <=> Holds(x, o.op, v2)
    BY <2>4, <2>5, <2>7 DEF HoldsOf
  <2>10. PICK rest : rest = RemoveAt(list, i)
    OBVIOUS
  <2>11. /\ rest \in Seq(Listed(E)) /\ Len(rest) = Len(list) - 1
         /\ AllHold(list, val) <=> HoldsOf(o, val) /\ AllHold(rest, val)
    <3> DEFINE P == {d \in Listed(E) : HoldsOf(d, val)}
    <3>1. /\ rest \in Seq(Listed(E)) /\ Len(rest) = Len(list) - 1
          /\ (\A k \in 1 .. Len(list) : list[k] \in P) <=>
                list[i] \in P /\ \A k \in 1 .. Len(list) - 1 : rest[k] \in P
      BY <2>2, <2>10, <1>2, RemoveFacts
    <3>2. \A s \in Seq(Listed(E)) :
            AllHold(s, val) <=> \A k \in 1 .. Len(s) : s[k] \in P
      BY DEF AllHold
    <3>3. o \in P <=> HoldsOf(o, val)
      BY <2>2
    <3> HIDE DEF P
    <3> QED BY <3>1, <3>2, <3>3, <2>1, <1>2
  <2>12. CASE q.result = "NEVER"
    <3>1. r = over(<<Special("FALSE")>>)
      BY <1>1, <1>3, <1>10, <2>1, <2>6, <2>12 DEF MergeRound
    <3>2. <<Special("FALSE")>> \in Seq(Listed(E))
      BY DEF Listed
    <3>3. ~ AllHold(<<Special("FALSE")>>, val)
      BY DEF AllHold, HoldsOf, Special
    <3>4. ~ (AllHold(list, val) /\ HoldsOf(c, val))
      BY <2>8, <2>9, <2>11, <2>12 DEF Sound
    <3> HIDE DEF over, r
    <3> QED BY <3>1, <3>2, <3>3, <3>4, <1>2, <1>6, <1>7, <1>10 DEF r
  <2>13. CASE q.result = "ALWAYS"
    <3>1. r = over(list)
      BY <1>1, <1>3, <1>10, <2>1, <2>6, <2>13 DEF MergeRound
    <3>2. AllHold(list, val) => HoldsOf(c, val)
      BY <2>8, <2>9, <2>11, <2>13 DEF Sound
    <3> HIDE DEF over, r
    <3> QED BY <3>1, <3>2, <1>2, <1>6, <1>7, <1>10 DEF r
  <2>14. CASE q.result \notin {"NEVER", "ALWAYS"}
    <3> DEFINE d == NormalCondition(c.e1, q.op, Const(q.v))
               cuts == CutsLastValue(c.op, v1, o.op, v2)
    <3>1. r = [st EXCEPT !.c = d, !.conditions = rest, !.cut = @ \/ cuts]
      BY <1>1, <1>3, <1>10, <2>1, <2>4, <2>6, <2>10, <2>14 DEF MergeRound
    <3>2. q.result = "MERGABLE"
      <4>1. q # NotMergable
        BY <2>1, <2>2, <2>6, <1>5
      <4>2. q.result \in {"NEVER", "ALWAYS", "MERGABLE"} \/ q = NotMergable
        BY <2>5, <2>7 DEF CompareNormalized, CompareEQ, CompareNEQ, CompareUGE, CompareULE,
             CompareGE, CompareLE, Never, Always, Mergable, Normalized
      <4> QED BY <4>1, <4>2, <2>14
    <3>3. q.op \in Normalized /\ q.v \in Words
      BY <3>2, <2>8 DEF WellFormed
    <3>4. d \in Forms(E)
      BY <3>3, <2>5
    <3>5. HoldsOf(d, val) <=> Holds(x, q.op, q.v)
      BY <2>4 DEF HoldsOf, NormalCondition, Const
    <3>6. cuts \in BOOLEAN
      BY DEF CutsLastValue
    <3>7. HoldsOf(c, val) /\ HoldsOf(o, val) => HoldsOf(d, val)
      <4>1. CASE cuts
        <5>1. Holds(x, q.op, q.v)
          BY <4>1, <2>5, <2>7, CutHoldsAlways
        <5> QED BY <5>1, <3>5
      <4>2. CASE ~ cuts
        BY <4>2, <3>2, <3>5, <2>8, <2>9 DEF Sound
      <4> QED BY <4>1, <4>2
    <3>8. ~ cuts /\ HoldsOf(d, val) => HoldsOf(c, val) /\ HoldsOf(o, val)
      BY <3>2, <3>5, <2>8, <2>9 DEF Sound
    <3> HIDE DEF d, cuts
    <3>9. r \in Rounds(E) /\ r.c = d /\ r.conditions = rest /\ r.over = st.over
          /\ r.cut = (st.cut \/ cuts)
      BY <3>1, <3>4, <3>6, <2>11 DEF Rounds
    <3>10. Meaning(r, val) <=> AllHold(rest, val) /\ HoldsOf(d, val)
      BY <3>9, <1>10 DEF Meaning
    <3>11. Meaning(st, val) <=> AllHold(rest, val) /\ HoldsOf(o, val) /\ HoldsOf(c, val)
      BY <1>7, <1>10, <2>11
    <3>12. r.cut <=> st.cut \/ cuts
      BY <3>9, <3>6, <1>2
    <3>13. Len(r.conditions) = Len(st.conditions) - 1 /\ ~ st.over
      BY <3>9, <1>1, <1>10, <2>11
    <3> HIDE DEF r
    <3> QED BY <3>7, <3>8, <3>9, <3>10, <3>11, <3>12, <3>13 DEF r
  <2> QED BY <2>12, <2>13, <2>14
<1> HIDE DEF r
<1> QED BY <1>8, <1>9, <1>10

\* After as many rounds as there are conditions, and one, the loop is over: what it leaves
\* stands for what it began with.
LEMMA MergingFine ==
  ASSUME NEW E, NEW val \in [E -> Words], NEW conditions \in Seq(Listed(E)), NEW c \in Forms(E)
  PROVE  LET r == Merging(c, conditions)
         IN  /\ r \in Rounds(E) /\ r.over
             /\ AllHold(conditions, val) /\ HoldsOf(c, val) => AllHold(r.conditions, val)
             /\ ~r.cut => (AllHold(r.conditions, val) => AllHold(conditions, val) /\ HoldsOf(c, val))
<1> DEFINE start == [c |-> c, conditions |-> conditions, over |-> FALSE, cut |-> FALSE]
           n == Len(conditions) + 1
           F(f) == f = [k \in 0 .. n |-> IF k = 0 THEN start ELSE MergeRound(f[k - 1])]
           after == CHOOSE f : F(f)
<1>1. n \in Nat
  OBVIOUS
<1>2. Merging(c, conditions) = after[n]
  BY DEF Merging
<1>3. F(after)
  <2>1. \E f : F(f)
    <3> HIDE DEF start, n
    <3> QED BY <1>1, RoundsDefined
  <2> HIDE DEF F
  <2> QED BY <2>1
<1>4. start \in Rounds(E) /\ (Meaning(start, val) <=> AllHold(conditions, val) /\ HoldsOf(c, val))
      /\ start.cut = FALSE /\ start.over = FALSE /\ Len(start.conditions) = n - 1
  BY DEF Rounds, Meaning
<1> DEFINE Fine(st, k) ==
             /\ st \in Rounds(E)
             /\ Meaning(start, val) => Meaning(st, val)
             /\ ~st.cut => (Meaning(st, val) => Meaning(start, val))
             /\ ~st.over => Len(st.conditions) = n - 1 - k
<1>5. after[0] = start /\ \A k \in 1 .. n : after[k] = MergeRound(after[k - 1])
  <2> HIDE DEF start, n, after
  <2> QED BY <1>1, <1>3
<1> HIDE DEF start, n, F, after
<1> DEFINE T == {k \in 0 .. n : ~ Fine(after[k], k)}
<1>6. T = {}
  <2>1. SUFFICES ASSUME T # {} PROVE FALSE
    OBVIOUS
  <2>2. PICK k \in T : \A y \in T : k <= y
    <3>1. T \in SUBSET Nat
      BY <1>1
    <3> HIDE DEF T
    <3> QED BY <2>1, <3>1, Least
  <2>3. k \in 0 .. n /\ ~ Fine(after[k], k)
    OBVIOUS
  <2>4. k # 0
    <3>1. Fine(start, 0)
      BY <1>1, <1>4
    <3> HIDE DEF Fine
    <3> QED BY <2>3, <3>1, <1>5
  <2>5. k - 1 \in 0 .. n /\ k \in 1 .. n /\ ~ (k <= k - 1) /\ n - 1 - k = (n - 1 - (k - 1)) - 1
    BY <2>3, <2>4, <1>1
  <2>6. k - 1 \notin T
    <3> HIDE DEF T
    <3> QED BY <2>2, <2>5
  <2>7. PICK st : st = after[k - 1]
    OBVIOUS
  <2>8. Fine(st, k - 1)
    <3> HIDE DEF Fine
    <3> QED BY <2>5, <2>6, <2>7
  <2>9. after[k] = MergeRound(st)
    BY <2>5, <2>7, <1>5
  <2>10. PICK r : r = MergeRound(st)
    OBVIOUS
  <2>11. /\ r \in Rounds(E)
         /\ Meaning(st, val) => Meaning(r, val)
         /\ ~r.cut => ~st.cut /\ (Meaning(r, val) => Meaning(st, val))
         /\ ~r.over => Len(r.conditions) = Len(st.conditions) - 1
         /\ st.over => r.over
    BY <2>8, <2>10, RoundFine
  <2>12. Fine(r, k)
    <3>1. ~ r.over => Len(r.conditions) = n - 1 - k
      BY <2>5, <2>8, <2>11
    <3> QED BY <2>8, <2>11, <3>1
  <2> HIDE DEF Fine
  <2> QED BY <2>3, <2>9, <2>10, <2>12
<1>7. PICK r : r = after[n]
  OBVIOUS
<1>8. Fine(r, n)
  <2>1. n \in 0 .. n
    BY <1>1
  <2> HIDE DEF Fine
  <2> QED BY <2>1, <1>6, <1>7
<1>9. r.over
  <2>1. Len(r.conditions) \in Nat
    BY <1>8 DEF Rounds
  <2>2. n - 1 - n \notin Nat
    BY <1>1
  <2>3. r.over \in BOOLEAN
    BY <1>8 DEF Rounds
  <2> QED BY <2>1, <2>2, <2>3, <1>8
<1>10. Meaning(r, val) <=> AllHold(r.conditions, val)
  BY <1>9 DEF Meaning
<1> QED BY <1>2, <1>4, <1>7, <1>8, <1>9, <1>10

\* MergeCondition adds a condition to a predicate so that, of any words the expressions may
\* have, the new predicate holds where the old one and the condition hold; and it holds
\* nowhere else, unless a bound moved past the last value.  What it leaves is a predicate again.
THEOREM MergeCorrect ==
  ASSUME NEW E, NEW val \in [E -> Words], NEW conditions \in Seq(Listed(E)),
         NEW n \in Forms(E) \cup {Special("TRUE"), Special("FALSE")}
  PROVE  LET merged == MergeCondition(n, conditions)
         IN  /\ merged \in Seq(Listed(E))
             /\ AllHold(conditions, val) /\ HoldsOf(n, val) => AllHold(merged, val)
             /\ ~(n.special = "NORMAL" /\ RunsPastLast(n, conditions)) =>
                  (AllHold(merged, val) => AllHold(conditions, val) /\ HoldsOf(n, val))
<1>1. CASE n = Special("TRUE")
  <2>1. n.special = "TRUE"
    BY <1>1 DEF Special
  <2>2. MergeCondition(n, conditions) = conditions
    BY <2>1 DEF MergeCondition
  <2> QED BY <2>1, <2>2 DEF HoldsOf
<1>2. CASE n = Special("FALSE")
  <2>1. n.special = "FALSE"
    BY <1>2 DEF Special
  <2>2. MergeCondition(n, conditions) = <<n>>
    BY <2>1 DEF MergeCondition
  <2>3. <<n>> \in Seq(Listed(E))
    BY <1>2 DEF Listed
  <2>4. ~ HoldsOf(n, val)
    BY <2>1 DEF HoldsOf
  <2>5. ~ AllHold(<<n>>, val)
    BY <2>4 DEF AllHold
  <2> QED BY <2>2, <2>3, <2>4, <2>5
<1>3. CASE n \in Forms(E)
  <2>1. n.special = "NORMAL"
    BY <1>3, FormFacts
  <2>2. MergeCondition(n, conditions) = Merging(n, conditions).conditions
    BY <2>1 DEF MergeCondition, MergeNormalized
  <2>3. PICK r : r = Merging(n, conditions)
    OBVIOUS
  <2>4. /\ r \in Rounds(E)
        /\ AllHold(conditions, val) /\ HoldsOf(n, val) => AllHold(r.conditions, val)
        /\ ~r.cut => (AllHold(r.conditions, val) => AllHold(conditions, val) /\ HoldsOf(n, val))
    BY <1>3, <2>3, MergingFine
  <2>5. r.conditions \in Seq(Listed(E))
    BY <2>4 DEF Rounds
  <2> QED BY <2>1, <2>2, <2>3, <2>4, <2>5 DEF RunsPastLast
<1> QED BY <1>1, <1>2, <1>3

\* What IsSatisfied finds is so: of words that meet a predicate, a condition it calls
\* always true is true, and one it calls never true is false; the path oracle takes or leaves
\* out a branch on its word.
THEOREM SatisfiedCorrect ==
  ASSUME NEW E, NEW val \in [E -> Words], NEW conditions \in Seq(Listed(E)),
         NEW n \in Forms(E) \cup {Special("TRUE"), Special("FALSE")},
         AllHold(conditions, val)
  PROVE  /\ IsSatisfied(n, conditions) = "ALWAYS" => HoldsOf(n, val)
         /\ IsSatisfied(n, conditions) = "NEVER" => ~HoldsOf(n, val)
<1>1. CASE n = Special("TRUE")
  <2>1. n.special = "TRUE"
    BY <1>1 DEF Special
  <2> QED BY <2>1 DEF IsSatisfied, HoldsOf
<1>2. CASE n = Special("FALSE")
  <2>1. n.special = "FALSE"
    BY <1>2 DEF Special
  <2> QED BY <2>1 DEF IsSatisfied, HoldsOf
<1>3. CASE n \in Forms(E)
  <2>1. /\ n.special = "NORMAL" /\ n.e1 \in E /\ n.op \in Normalized /\ n.e2.v \in Words
    BY <1>3, FormFacts
  <2> DEFINE I == {i \in 1 .. Len(conditions) :
                     Compared(n, conditions[i]).result \in {"NEVER", "ALWAYS"}}
  <2>2. IsSatisfied(n, conditions) =
          IF I # {} /\ Min(I) # 0 THEN Compared(n, conditions[Min(I)]).result ELSE "SOMETIMES"
    BY <2>1 DEF IsSatisfied, SelectInSeq
  <2>3. CASE I = {}
    BY <2>2, <2>3
  <2>4. CASE I # {}
    <3>1. PICK i : i = Min(I)
      OBVIOUS
    <3>2. i \in I
      <4>1. Len(conditions) \in Nat /\ I \in SUBSET (1 .. Len(conditions))
        OBVIOUS
      <4> HIDE DEF I
      <4> QED BY <2>4, <3>1, <4>1, MinIn
    <3>3. PICK o : o = conditions[i]
      OBVIOUS
    <3>4. i \in 1 .. Len(conditions) /\ o \in Listed(E) /\ HoldsOf(o, val)
      BY <3>2, <3>3 DEF AllHold
    <3>5. o \in Forms(E)
      <4>1. o.special # "FALSE"
        BY <3>4 DEF HoldsOf
      <4> QED BY <4>1, <3>4, ListedFacts
    <3>6. o.op \in Normalized /\ o.e2.v \in Words /\ o.special = "NORMAL"
      BY <3>5, FormFacts
    <3>7. Compared(n, o).result \in {"NEVER", "ALWAYS"}
      BY <3>2, <3>3
    <3>8. o.e1 = n.e1 /\ Compared(n, o) = CompareNormalized(n.op, n.e2.v, o.op, o.e2.v)
      BY <3>7 DEF Compared, NotMergable
    <3>9. Sound(Compared(n, o), val[n.e1], n.op, n.e2.v, o.op, o.e2.v)
      BY <2>1, <3>6, <3>8, CompareCorrect
    <3>10. Holds(val[n.e1], o.op, o.e2.v)
      BY <3>4, <3>6, <3>8 DEF HoldsOf
    <3>11. IsSatisfied(n, conditions) \in {Compared(n, o).result, "SOMETIMES"}
      BY <2>2, <3>1, <3>3
    <3> QED BY <2>1, <3>9, <3>10, <3>11 DEF Sound, HoldsOf
  <2> QED BY <2>3, <2>4
<1> QED BY <1>1, <1>2, <1>3

==============================================================================
