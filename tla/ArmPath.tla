------------------------------- MODULE ArmPath -------------------------------
(***************************************************************************)
(* What a path that ArmImpl has executed says of the processors that       *)
(* follow it: Arm with the nodes that BrokerImpl makes and the normal form *)
(* of ConditionImpl, next to machines that compute on words.               *)
(*                                                                         *)
(* Everything but the two operators that choose among the functions of     *)
(* Broker.cpp is history and reference.                                    *)
(***************************************************************************)
EXTENDS Arm, Condition

CONSTANT Env   \* a sequence of initial register and memory contents to look at

VARIABLES
  runs,        \* the machines started in Env that follow this path
  exact,       \* the machines for which nothing was met that is known not to keep its meaning
  cut          \* a merge moved a bound past the last value

pathVars == <<vars, runs, exact, cut>>

\* What New, CarryOf and NormalForm stand for
NewNode(op, a, b) ==
  LET sum == NewAdd(a, b)
      product == NewMult(a, b)
      moved == IF op = "SHIFT" THEN NewShift(a, b) ELSE NewRotate(a, b)
  IN CASE op = "ADD" -> sum
       [] op = "MULT" -> product
       [] op = "AND" -> NewAnd(a, b)
       [] op = "OR" -> NewOr(a, b)
       [] op = "XOR" -> NewXor(a, b)
       [] op \in {"SHIFT", "ROTATE"} -> moved
CarryNode(op, a, b) ==
  LET sum == AddOut(a, b)
      shifted == ShiftOut(a, b)
  IN IF op = "ADD" THEN sum.carry ELSE shifted.carry

------------------------------------------------------------------------------
(* Reference: an ARM processor with registers r, memory m and flags f, and *)
(* which instructions are known not to keep their meaning.                 *)

M == INSTANCE ArmMachine

\* A right shift moves constants and masks to the left (Broker.cpp, NewShift, DOT_OPERATION)
Masked(t) == t.op \in {"AND", "OR"} /\ \E i \in DOMAIN t.in : IsConst(t.in[i])
\* The neutral amounts 0 and W are looked for on both sides (MergeOperations)
ShiftLoses(t, amount) ==
  IF IsConst(amount) THEN Signed(amount.v) < 0 /\ (IsConst(t) \/ Masked(t))
  ELSE t \in {Const(0), Const(W)}
\* An amount in a register is a signed number, which turns the shift round
TurnsRound(amount, e) == ~IsConst(amount) /\ Value(amount, Env[e]) > MaxInt

\* The low mask that a left shift makes zero is taken for redundant
MaskLoses(t, mask) ==
  \/ /\ ByConstant("SHIFT", t) /\ IsConst(mask) /\ Signed(t.in[2].v) > 0
     /\ mask.v = MaxWord - Shl(MaxWord, t.in[2].v)
  \/ ByConstant("ROTATE", t) /\ ShiftLoses(t.in[1], MinusOne)

OperandLoses(o, update) ==
  LET amount == Const(IF o.type = "LSR" THEN Wrap(0 - o.v) ELSE o.v)
  IN CASE o.t = "shift" -> \/ o.v = 0 \/ o.type \in {"ASR", "RRX"} \/ (o.type = "ROR" /\ update)
                           \/ ShiftLoses(GetRegister(cpu, o.r), amount)
       [] OTHER -> FALSE

\* The nodes an instruction masks, with the masks
Maskings(ins, left, right, value) ==
  CASE ins.i \in {"and", "tst"} -> {<<left, right>>}
    [] ins.i = "bic" -> {<<left, Inverted(right)>>}
    [] ins.i = "uxth" -> {<<value, Const(Ones(Half))>>}
    [] ins.i = "uxtb" -> {<<value, Const(Ones(Byte))>>}
    [] ins.i = "ubfx" -> {<<New("SHIFT", value, Const(Wrap(0 - ins.ops[3].v))), Const(Ones(ins.ops[4].v))>>}
    [] ins.i = "movt" -> {<<GetRegister(cpu, Rd(ins)), Const(Ones(Half))>>}
    [] OTHER -> {}

\* The nodes an instruction shifts, with the amounts
Shiftings(ins, left, right, value) ==
  CASE ins.i = "lsl" -> {<<left, right>>}
    [] ins.i = "lsr" -> {<<left, Negative(right)>>}
    [] ins.i = "ubfx" /\ ins.ops[3].v # 0
         -> {<<value, Const(Wrap(0 - ins.ops[3].v))>>}
    [] ins.i = "rev" -> {<<value, MinusOne>>}
    [] OTHER -> {}

\* What the instruction computes need not be what processor e would
Loses(ins, e) ==
  LET flag == cpu.flags["C"]
      bits(left, right, value) ==
        \/ ins.i = "ror" /\ (~IsConst(right) \/ right.v > MaxInt \/ IsConst(left))
        \/ \E m \in Maskings(ins, left, right, value) : MaskLoses(m[1], m[2])
        \/ \E m \in Shiftings(ins, left, right, value) : ShiftLoses(m[1], m[2])
        \/ ins.i \in {"lsl", "lsr"} /\ TurnsRound(right, e)
      operands(n) == bits(n[IF Len(ins.ops) = 2 THEN 1 ELSE 2], n[Len(ins.ops)], n[2])
  IN \/ ins.i \in {"sbc", "cmn", "asr", "sbfx"}
     \/ ins.i \in {"mvn", "neg", "ror"} /\ ins.s
     \/ ins.i = "adc" /\ \/ origin["C"].by # "add"
                         \/ Carry(flag) # Node("CARRY", <<Node("ADD", <<flag.n1, flag.n2>>)>>)
     \/ operands([k \in DOMAIN ins.ops |-> GetOperand(cpu, ins.ops[k], FALSE).n])
     \/ \E k \in DOMAIN ins.ops : OperandLoses(ins.ops[k], ins.s \/ ins.i \in {"tst", "teq"})

\* The flags say what the code reads from them, and the condition keeps its meaning for e
Exact(ins, e) ==
  LET x == CHOOSE y \in FlagsRead(ins.cc) : TRUE
      flag == cpu.flags[x]
      by == origin[x].by
      moved == CASE by = "add" -> flag.n2  \* the operand that changes its sign
                 [] by = "rsb" -> flag.n1
      ordered == /\ ins.cc \in SignedCodes \cup DOMAIN UnsignedOperator
                 /\ \/ by \in {"cmp", "sub"}
                    \/ /\ by \in {"add", "rsb"}
                       /\ Value(moved, Env[e]) # (IF ins.cc \in SignedCodes THEN MinInt ELSE 0)
      lost == /\ flag.op = "SHIFT" /\ ins.cc \in {"CS", "CC"}
              /\ New("SHIFT", flag.n1, flag.n2) = Node("SHIFT", <<flag.n1, flag.n2>>)
              /\ Value(flag.n2, Env[e]) # 0
      said == ins.cc \in DOMAIN ZeroOperator \/ ordered \/ lost
      own == HasOwnCondition(ins)
  IN \/ ~own /\ (ins.cc \in {"AL", "NV"} \/ ~FlagsUsable(cpu, ins.cc))
     \/ (own \/ said) /\ KeepsMeaning(IF own THEN OwnCondition(ins) ELSE ConditionFor(cpu, ins.cc), Env[e])

------------------------------------------------------------------------------
(* Paths and the machines that follow them.                                *)

\* The machines that go on, and those for which the path is still exact
Record(ins, v) ==
  /\ runs' = [e \in {d \in DOMAIN runs : M!Passed(ins, runs[d]) = v.executed} |->
               IF v.executed THEN M!Executed(ins, runs[e], Env[e].m, cpu.pc, cpu'.call) ELSE runs[e]]
  /\ exact' = {e \in exact : Exact(ins, e) /\ (v.executed => ~Loses(ins, e))}
  /\ cut' = (cut \/ v.past)

PathInit == /\ Init
            /\ runs = [e \in DOMAIN Env |-> M!Start(Env[e])]
            /\ exact = DOMAIN Env /\ cut = FALSE

\* A step of Arm, recorded
PathNext ==
  \/ /\ Running
     /\ \E ins \in Programs[code][cpu.pc] : \E v \in Verdicts(ins) : Step(ins, v) /\ Record(ins, v)
  \/ NotDecoded /\ UNCHANGED <<runs, exact, cut>>

PathSpec == PathInit /\ [][PathNext]_pathVars

------------------------------------------------------------------------------
(* Properties.                                                             *)

AllTrue(merged, env) == \A i \in DOMAIN merged : True(merged[i], env)

\* Run e uses no word by two address expressions, and stores to no read-only one
Separate(e) ==
  /\ \A a, b \in cpu.addresses : a # b => Value(a, Env[e]) # Value(b, Env[e])
  /\ \A a \in DOMAIN cpu.mem : Value(a, Env[e]) \notin ReadOnly

\* On every machine that follows the path the registers and the stored words
\* have the values of their expressions, whatever the initial registers were,
\* as long as it met nothing listed in Loses and no two address expressions
\* meet: no rewriting of Broker.cpp changes a value.
RegistersSound ==
  cpu.status = "OK" =>
    \A e \in exact \cap DOMAIN runs : Separate(e) =>
      /\ \A r \in Registers : Value(cpu.regs[r], Env[e]) = runs[e].r[r]
      /\ \A a \in DOMAIN cpu.mem : Value(cpu.mem[a], Env[e]) = runs[e].m[Value(a, Env[e])]

\* The predicate of a path holds on every machine that follows it: where no
\* word wraps, normalizing, merging and negating conditions excludes no execution
\* (Condition.cpp, Predicate.cpp).
PathSound ==
  \A e \in exact \cap DOMAIN runs : Separate(e) => AllTrue(conditions, Env[e])

\* A machine on which the predicate holds follows the path: no branch is decided
\* without the oracle that some machine takes the other way, and a merged condition
\* is as strong as those it replaces, unless its bound ran past the last value.
PathPrecise ==
  ~cut /\ cpu.status # "INTERNAL_ERROR" =>
    \A e \in exact \ DOMAIN runs : Separate(e) => ~AllTrue(conditions, Env[e])

\* A path is followed by the machines on which its predicate holds and no others, with no
\* exception: what Arm.cpp:323-324 says of cCS ("Unsigned higher or same") and cCC
\* ("Unsigned lower") after a comparison of two registers.
ConditionsAsDocumented ==
  cpu.status = "OK" => \A e \in DOMAIN Env : e \in DOMAIN runs <=> AllTrue(conditions, Env[e])

==============================================================================
