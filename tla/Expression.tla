----------------------------- MODULE Expression -----------------------------
(***************************************************************************)
(* The rewriting of BrokerImpl in src/src/Broker.cpp: every node is made   *)
(* by one of the New operators below, which bring equal values into one    *)
(* form.                                                                   *)
(***************************************************************************)
EXTENDS Terms, Bitwise, SequencesExt

Shr(a, n) == a \div 2^(n % W)
\* abs() of an int: that of the smallest one is itself
Abs(v) == LET s == Signed(v) IN IF s < 0 /\ v # MinInt THEN 0 - s ELSE s

(* What an operation returns through its result and through lpCarry; NULL  *)
(* where it leaves *lpCarry alone.                                         *)
Out(n, carry) == [n |-> n, carry |-> carry]

\* An operation of the code: constants a op b, its identity and zero (-1: none)
Dot(op, a, b) ==
  CASE op = "ADD" -> Wrap(a + b)
    [] op = "MULT" -> Wrap(a * b)
    [] op = "XOR" -> a ^^ b
    [] op = "AND" -> a & b
    [] op = "OR" -> a | b
    [] op = "SHIFT" -> Shl(a, b)
    [] op = "ROTATE" -> Shr(a, b) | Shl(a, W - b)
Identity(op) == CASE op = "MULT" -> 1 [] op = "AND" -> MaxWord [] OTHER -> 0
Zero(op) == CASE op \in {"MULT", "AND"} -> 0 [] op = "SHIFT" -> W [] OTHER -> -1

\* DOT_FLAG_CARRY; only ADD, SHIFT and ROTATE set the flags
DotCarry(op, a, b) ==
  CASE op = "ADD" -> (a + b) \div (MaxWord + 1)
    [] op = "SHIFT" -> Shl(a, b - (W - 1)) % 2
    [] op = "ROTATE" -> Shl(a, b - W) % 2
    [] OTHER -> 0

MergeOperations(op, a, b) ==
  IF IsConst(a) /\ IsConst(b)
  THEN Out(Const(Dot(op, a.v, b.v)), Const(DotCarry(op, a.v, b.v)))
  ELSE IF Const(Zero(op)) \in {a, b} THEN Out(Const(Zero(op)), Const(0))
  ELSE IF a = Const(Identity(op)) THEN Out(b, Const(0))
  ELSE IF b = Const(Identity(op)) THEN Out(a, Const(0))
  ELSE Out(Node(op, <<a, b>>), Node("CARRY", <<Node(op, <<a, b>>)>>))

Inputs(op, t) == IF t.op = op THEN t.in ELSE <<t>>

\* Of inputs and the constant that all constants make
Flattened(op, rest, dot) ==
  LET in == IF dot = Identity(op) THEN rest ELSE Append(rest, Const(dot))
  IN IF dot = Zero(op) \/ in = <<>> THEN Out(Const(dot), Const(0))
     ELSE IF Len(in) = 1 THEN Out(in[1], Const(0))
     ELSE Out(Node(op, in), Node("CARRY", <<Node(op, in)>>))

(* An operand of the same operation is flattened into it, and all          *)
(* constants become one, the last input.                                   *)
MergeOperationsCommutative(op, a, b) ==
  LET inputs == Inputs(op, a) \o Inputs(op, b)
  IN IF op \notin {a.op, b.op} THEN MergeOperations(op, a, b)
     ELSE Flattened(op, SelectSeq(inputs, LAMBDA t : ~IsConst(t)),
                    FoldLeft(LAMBDA v, t : IF IsConst(t) THEN Dot(op, v, t.v) ELSE v,
                             Identity(op), inputs))

------------------------------------------------------------------------------
(* Sums.  A summand that is a multiple of another one joins it.            *)

\* Of a summand, what it is a multiple of, and how often; NULL: joins nothing
Scaled(t) ==
  IF t.op # "MULT" THEN [base |-> t, times |-> 1]
  ELSE IF Len(t.in) = 2 /\ IsConst(t.in[2]) THEN [base |-> t.in[1], times |-> t.in[2].v]
  ELSE IF Len(t.in) = 2 /\ IsConst(t.in[1]) THEN [base |-> t.in[2], times |-> t.in[1].v]
  ELSE [base |-> NULL, times |-> 0]

Multiple(t, n) == MergeOperationsCommutative("MULT", t, Const(Wrap(n)))

(* The carry of a sum whose first summand is CONST * x and whose second is *)
(* x goes to the wrong out-parameter.                                      *)
LosesCarry(x, y) == x.op = "MULT" /\ y.op # "MULT" /\ IsConst(x.in[1])

\* Summand x and y become the multiple m
JoinWith(x, ys, j, m) ==
  [x |-> m.n, ys |-> RemoveAt(ys, j), carry |-> IF LosesCarry(x, ys[j]) THEN NULL ELSE m.carry]

JoinAt(x, ys, j) ==
  IF j = 0 THEN [x |-> x, ys |-> ys, carry |-> NULL]
  ELSE JoinWith(x, ys, j, Multiple(Scaled(x).base, Scaled(x).times + Scaled(ys[j]).times))

\* Summand x joins the first of ys that is a multiple of the same node
Join(x, ys) ==
  JoinAt(x, ys, SelectInSeq(ys, LAMBDA y : /\ Scaled(y).base = Scaled(x).base
                                            /\ Scaled(x).base # NULL))

Joined(acc, j) == [xs |-> Append(acc.xs, j.x), ys |-> j.ys,
                   carry |-> IF j.carry = NULL THEN acc.carry ELSE j.carry]

SumOf(all, carry) ==
  IF Len(all) = 1 THEN Out(all[1], carry)
  ELSE MergeOperationsCommutative("ADD", IF Len(all) = 2 THEN all[1] ELSE Node("ADD", Front(all)),
                                  Last(all))

AddOut(a, b) ==
  LET sum(joined) == SumOf(joined.xs \o joined.ys, joined.carry)
  IN sum(FoldLeft(LAMBDA acc, x : Joined(acc, Join(x, acc.ys)),
                  [xs |-> <<>>, ys |-> Inputs("ADD", b), carry |-> NULL], Inputs("ADD", a)))

NewAdd(a, b) == AddOut(a, b).n

\* Products distribute over sums, the first operand's first
RECURSIVE NewMult(_, _)
NewMult(a, b) ==
  LET sum(s, t) == FoldLeft(LAMBDA r, x : NewAdd(r, NewMult(x, t)),
                            NewMult(Head(s.in), t), Tail(s.in))
  IN IF "ADD" \notin {a.op, b.op} THEN MergeOperationsCommutative("MULT", a, b).n
     ELSE IF a.op = "ADD" THEN sum(a, b) ELSE sum(b, a)

Negative(t) == NewMult(t, MinusOne)

------------------------------------------------------------------------------
(* Bits.  Shifts and rotations by a constant are combined, exchanged with  *)
(* masks, and dropped where a mask makes them redundant.                   *)

ByConstant(op, t) == t.op = op /\ IsConst(t.in[2])
\* The ones below the highest bit of a mask
RECURSIVE Smear(_)
Smear(mask) == IF mask = 0 THEN 0 ELSE 2 * Smear(mask \div 2) + 1

NewXor(a, b) == IF a = b THEN Const(0) ELSE MergeOperationsCommutative("XOR", a, b).n
Inverted(t) == NewXor(t, MinusOne)
NewOr(a, b) == MergeOperationsCommutative("OR", a, b).n

RECURSIVE NewAnd(_, _), ShiftOut(_, _)
NewShift(t, amount) == ShiftOut(t, amount).n

NewAnd(a, b) ==
  LET amount == Signed(a.in[2].v)
      right == amount % W   \* of a rotation
  IN CASE ByConstant("ROTATE", a) /\ IsConst(b) /\ Smear(b.v) <= Shr(MaxWord, right)
            -> NewAnd(NewShift(a.in[1], Const(Wrap(0 - right))), b)
       [] ByConstant("SHIFT", a) /\ IsConst(b) /\ b.v = MaxWord - Shl(MaxWord, amount) -> a
       [] OTHER -> MergeOperationsCommutative("AND", a, b).n

\* A mask is shifted with its operand: (A & x) << y ==> (A << y) & (x << y)
ShiftMasked(t, amount) ==
  LET constant == SelectInSeq(t.in, IsConst)
      rest == RemoveAt(t.in, constant)
      mask == Const(Shl(t.in[constant].v, Signed(amount.v)))
      masked(shifted) == Out(IF t.op = "AND" THEN NewAnd(shifted.n, mask) ELSE NewOr(shifted.n, mask),
                             shifted.carry)
  IN masked(IF Len(rest) # 1 THEN ShiftOut(Node(t.op, rest), amount)
            ELSE IF t.op = "AND" /\ ByConstant("SHIFT", rest[1])
            THEN ShiftOut(rest[1].in[1], Const(Wrap(rest[1].in[2].v + amount.v)))
            ELSE ShiftOut(rest[1], amount))

\* All bits are shifted out; the carry is the last of them
ShiftAll(t, s) ==
  Out(Const(0),
      IF Abs(Wrap(s)) > W THEN Const(0)
      ELSE NewAnd(NewShift(t, Const(Wrap(IF s < 0 THEN s + 1 ELSE s - (W - 1)))), Const(1)))

ShiftOut(t, amount) ==
  IF ~IsConst(amount) THEN MergeOperations("SHIFT", t, amount)
  ELSE IF ByConstant("SHIFT", t) /\ (Signed(t.in[2].v) < 0) = (Signed(amount.v) < 0)
  THEN ShiftOut(t.in[1], Const(Wrap(t.in[2].v + amount.v)))
  ELSE IF t.op \in {"AND", "OR"} /\ \E i \in DOMAIN t.in : IsConst(t.in[i])
  THEN ShiftMasked(t, amount)
  ELSE IF Abs(amount.v) >= W THEN ShiftAll(t, Signed(amount.v))
  ELSE MergeOperations("SHIFT", t, amount)

RECURSIVE NewRotate(_, _)
NewRotate(t, amount) ==
  IF ByConstant("ROTATE", t) /\ IsConst(amount)
  THEN NewRotate(t.in[1], Const(Wrap(t.in[2].v + amount.v)))
  ELSE LET local == IF IsConst(amount) /\ Abs(amount.v) >= W
                    THEN Const(Abs(amount.v) % W) ELSE amount
       IN MergeOperations("ROTATE", t, local).n

------------------------------------------------------------------------------
(* Reference: the value of an expression where the registers had values    *)
(* env.r and the memory env.m when the code started.                       *)

\* What a call returns: any function of its target and first argument
CallResult(address, x) == Wrap(3 * x + address + 5)

ShiftValue(x, s) == IF s >= W \/ s <= 0 - W THEN 0
                    ELSE IF s >= 0 THEN Shl(x, s) ELSE Shr(x, 0 - s)
\* The last bit shifted out, none by 0
ShiftedOut(x, s) == IF s > 0 /\ s <= W THEN (x \div 2^(W - s)) % 2
                    ELSE IF s < 0 /\ s >= 0 - W THEN (x \div 2^(0 - s - 1)) % 2 ELSE 0
RotateValue(x, s) == Shr(x, s) | (Shl(x, W - (s % W)) % (MaxWord + 1))

RECURSIVE Value(_, _)
Value(t, env) ==
  LET in(i) == Value(t.in[i], env)
      all == [i \in DOMAIN t.in |-> Value(t.in[i], env)]
      total(in2) == FoldLeft(LAMBDA x, y : x + Value(y, env), 0, in2)
  IN CASE t.op = "CONSTANT" -> t.v
       [] t.op = "REGISTER" -> env.r[t.v]
       [] t.op \in {"ADD", "MULT", "XOR", "AND", "OR"}
            -> FoldLeft(LAMBDA x, y : Dot(t.op, x, y), Identity(t.op), all)
       [] t.op = "SHIFT" -> ShiftValue(in(1), Signed(in(2)))
       [] t.op = "ROTATE" -> IF in(2) % W = 0 THEN in(1) ELSE RotateValue(in(1), in(2))
       [] t.op = "LOAD" -> env.m[in(1)]
       [] t.op = "CALL" -> CallResult(t.v, in(1))
       [] t.op = "CARRY" /\ t.in[1].op = "ADD" -> total(t.in[1].in) \div (MaxWord + 1)
       [] t.op = "CARRY" /\ t.in[1].op = "SHIFT"
            -> ShiftedOut(Value(t.in[1].in[1], env), Signed(Value(t.in[1].in[2], env)))
       [] OTHER -> 0

==============================================================================
