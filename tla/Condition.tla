------------------------------ MODULE Condition ------------------------------
(***************************************************************************)
(* Conditions on expressions and their normal form (ConditionImpl in       *)
(* src/src/Condition.cpp): an expression without a constant summand is     *)
(* compared with a constant by =, # or a bound that is not strict.         *)
(***************************************************************************)
EXTENDS Expression

\* A constant goes to the right; two expressions are subtracted and compared with 0
Oriented(c) ==
  CASE IsConst(c.e2) -> c
    [] ~IsConst(c.e2) /\ IsConst(c.e1) -> NormalCondition(c.e2, FlipOperator(c.op), c.e1)
    [] OTHER -> NormalCondition(NewAdd(c.e1, Negative(c.e2)), c.op, Const(0))

------------------------------------------------------------------------------
(* One step isolates what is left of the constant in a sum, a product, an  *)
(* exclusive or, or a shift or rotation to the right.                      *)

\* Position of the constant among the inputs; 0: none, or behind three others
ConstantInput(t) ==
  LET i == SelectInSeq(t.in, IsConst)
  IN IF i <= 3 THEN i ELSE 0

\* The inputs but the constant, combined anew
Rest(t, New(_, _)) ==
  LET in == RemoveAt(t.in, ConstantInput(t))
  IN FoldLeft(New, Head(in), Tail(in))

\* C++ division of ints, which rounds towards zero
Quotient(a, b) == LET q == (IF a < 0 THEN 0 - a ELSE a) \div (IF b < 0 THEN 0 - b ELSE b)
                  IN IF (a < 0) = (b < 0) THEN q ELSE 0 - q

Magnitude(v) == LET s == Signed(v) IN IF s < 0 THEN 0 - s ELSE s

Isolates(c) ==
  LET t == c.e1
  IN \/ t.op \in {"ADD", "XOR"} /\ ConstantInput(t) # 0
     \/ /\ t.op = "MULT" /\ ConstantInput(t) # 0
        /\ c.e2.v % Magnitude(t.in[ConstantInput(t)].v) = 0
     \/ t.op \in {"SHIFT", "ROTATE"} /\ IsConst(t.in[2]) /\ Signed(t.in[2].v) < 0

IsolateProduct(c, factor) ==
  IF c.e2.v = MinInt /\ factor = MaxWord THEN Special("FALSE")
  ELSE NormalCondition(Rest(c.e1, NewMult),
                       IF Signed(factor) < 0 THEN FlipOperator(c.op) ELSE c.op,
                       Const(Wrap(Quotient(Signed(c.e2.v), Signed(factor)))))

\* The code replaces the expression before it asks whether it is a SHIFT
IsolateShift(c, amount) ==
  LET value == c.e2.v
      left == Shl(value, Abs(amount))
  IN NormalCondition(c.e1.in[1], c.op,
       Const(IF c.e1.in[1].op = "SHIFT" THEN left ELSE left | Shr(value, W - Abs(amount))))

IsolateStep(c) ==
  LET t == c.e1
      k == t.in[ConstantInput(t)].v
  IN CASE t.op = "ADD" -> NormalCondition(Rest(t, NewAdd), c.op, Const(Wrap(c.e2.v - k)))
       [] t.op = "XOR" -> NormalCondition(Rest(t, NewXor), c.op, Const(c.e2.v ^^ k))
       [] t.op = "MULT" -> IsolateProduct(c, k)
       [] OTHER -> IsolateShift(c, t.in[2].v)

RECURSIVE Isolated(_)
Isolated(c) == IF c.special = "NORMAL" /\ Isolates(c) THEN Isolated(IsolateStep(c)) ELSE c

\* Strict bounds become inclusive; one at the end of the range is decided
Bounded(c) ==
  LET v == c.e2.v
  IN CASE c.op = "UGT" /\ v = MaxWord -> Special("FALSE")
       [] c.op = "UGE" /\ v = 0       -> Special("TRUE")
       [] c.op = "ULT" /\ v = 0       -> Special("FALSE")
       [] c.op = "ULE" /\ v = MaxWord -> Special("TRUE")
       [] c.op = "GT" /\ v = MaxInt   -> Special("FALSE")
       [] c.op = "GE" /\ v = MinInt   -> Special("TRUE")
       [] c.op = "LT" /\ v = MinInt   -> Special("FALSE")
       [] c.op = "LE" /\ v = MaxInt   -> Special("TRUE")
       [] c.op = "UGT" /\ v # MaxWord -> NormalCondition(c.e1, "UGE", Const(v + 1))
       [] c.op = "ULT" /\ v # 0       -> NormalCondition(c.e1, "ULE", Const(v - 1))
       [] c.op = "GT" /\ v # MaxInt   -> NormalCondition(c.e1, "GE", Const(Next1(v)))
       [] c.op = "LT" /\ v # MinInt   -> NormalCondition(c.e1, "LE", Const(Previous1(v)))
       [] OTHER -> c

Decided(c) ==
  IF c.special = "NORMAL" /\ IsConst(c.e1)
  THEN Special(IF Holds(c.e1.v, c.op, c.e2.v) THEN "TRUE" ELSE "FALSE") ELSE c

Normalize(c) ==
  LET finish(i) == IF i.special # "NORMAL" THEN i ELSE Decided(Bounded(i))
  IN IF c.special # "NORMAL" THEN c ELSE finish(Isolated(Oriented(c)))

------------------------------------------------------------------------------
(* Reference: whether a condition holds of the values env, and which       *)
(* conditions keep their meaning there.  Words wrap: an order survives a   *)
(* step only if both sides wrap or neither does, a product and a shift     *)
(* only if no bit is lost.                                                 *)

True(c, env) == CASE c.special = "TRUE" -> TRUE
                  [] c.special = "FALSE" -> FALSE
                  [] OTHER -> Holds(Value(c.e1, env), c.op, Value(c.e2, env))

Equalities == {"EQ", "NEQ"}
SignedOrders == {"GE", "LT", "GT", "LE"}
InRange(i) == i \in 0 - MinInt .. MaxInt

\* The order of y and v is that of y - k and v - k.
Translates(op, y, v, k) ==
  CASE op \in Equalities -> TRUE
    [] op \in SignedOrders -> InRange(Signed(y) - Signed(k)) = InRange(Signed(v) - Signed(k))
    [] OTHER -> (y < k) = (v < k)

\* What is compared is factor times what is compared after the step, and the constant is
\* a multiple of factor in either reading: divisibility is tested on words without sign.
\* MinInt and -1 make the step FALSE, whatever is asked.
Divides(c, factor, env) ==
  /\ c.op \in Equalities \cup SignedOrders
  /\ Signed(Value(Rest(c.e1, NewMult), env)) * Signed(factor) = Signed(Value(c.e1, env))
  /\ c.e2.v <= MaxInt \/ Magnitude(c.e2.v) % Magnitude(factor) = 0
  /\ IsolateProduct(c, factor).special = "FALSE" => c.op \in {"EQ", "LT", "LE"}

ShiftsBack(c, after, amount, env) ==
  /\ c.op \notin SignedOrders /\ amount < W /\ after.e2.v = c.e2.v * 2^amount
  /\ c.op \in {"UGE", "ULT"} \/ Value(after.e1, env) = Value(c.e1, env) * 2^amount

StepKeepsMeaning(c, env) ==
  LET t == c.e1
      k == t.in[ConstantInput(t)].v
  IN CASE t.op = "ADD" -> Translates(c.op, Value(t, env), c.e2.v, k)
       [] t.op = "XOR" -> c.op \in Equalities
       [] t.op = "MULT" -> Divides(c, k, env)
       [] t.op = "SHIFT" -> ShiftsBack(c, IsolateStep(c), Abs(t.in[2].v), env)
       [] OTHER -> FALSE

RECURSIVE StepsKeepMeaning(_, _)
StepsKeepMeaning(c, env) ==
  c.special = "NORMAL" /\ Isolates(c) =>
    StepKeepsMeaning(c, env) /\ StepsKeepMeaning(IsolateStep(c), env)

\* x op y is x - y op 0, which wraps as well
OnceKeepsMeaning(c, env) ==
  c.special = "NORMAL" =>
     /\ \/ IsConst(c.e1) \/ IsConst(c.e2) \/ c.op \in Equalities
        \/ c.op \in SignedOrders /\ InRange(Signed(Value(c.e1, env)) - Signed(Value(c.e2, env)))
     /\ StepsKeepMeaning(Oriented(c), env)

\* A normal form is normalized again before it is merged: an inclusive bound may be
\* a multiple of a factor that the strict one was not.
KeepsMeaning(c, env) == OnceKeepsMeaning(c, env) /\ OnceKeepsMeaning(Normalize(c), env)

==============================================================================
