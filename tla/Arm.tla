--------------------------------- MODULE Arm ---------------------------------
(***************************************************************************)
(* The symbolic execution of one path by the ARM processor module          *)
(* (ArmImpl in src/src/Arm.cpp and src/src/Arm.hpp), with the path         *)
(* predicate of its builder (IntroduceCondition, src/src/Broker.cpp).      *)
(* A step is one instruction: its condition first, then its body.          *)
(*                                                                         *)
(* Where the predicate leaves a condition open the path oracle decides;    *)
(* every decision is a behaviour.  After TAKE_BOTH a behaviour follows     *)
(* either the builder or the fork, whose processor has been migrated.      *)
(*                                                                         *)
(* The decoder is external: code says which instructions may be at an      *)
(* address.  The nodes of the broker and the normal form of a condition    *)
(* are parameters: what this module does with them does not depend on how  *)
(* they are rewritten.  Module ArmPath gives the real ones, and says what  *)
(* the path computes.  Widths of 32, 16 and 8 bits are W, W/2 and W/4.     *)
(***************************************************************************)
EXTENDS Predicate

CONSTANTS
  New(_, _, _),     \* the node of an operation on two nodes (BrokerImpl::NewAdd and others)
  CarryOf(_, _, _), \* what the operation returns through lpCarry; NULL: it leaves it alone
  NormalForm(_)     \* ConditionImpl::Normalize

CONSTANTS
  Programs,      \* by name, for each address the instructions it may hold
  Size,          \* dwInstructionSize
  PcOffset,      \* what PC is ahead: 4 in Thumb, 8 in ARM
  Registers,     \* those in use, of 0 .. 14
  Segment,       \* the addresses that are in a segment, and not extern
  NoReturn,      \* functions that do not return
  Data,          \* the words of the image
  ReadOnly,      \* the addresses in segments that are not writable
  MaxCallDepth,  \* PathOracle::MaxCallDepth
  MaxConditions, \* PathOracle::MaxConditions
  MaxSteps       \* bound: instructions on a path

SP == 13
LR == 14
PC == 15

ASSUME ArmAssumption ==
  /\ (W % 4) = 0 /\ Data \in [Words -> Words] /\ ReadOnly \subseteq Words
  /\ {0, SP, LR} \subseteq Registers
  /\ Size \in Nat /\ (Size % 2) = 0
  /\ MaxCallDepth \in Nat /\ MaxConditions \in Nat /\ MaxSteps \in Nat

VARIABLES
  code,        \* the name of the program
  cpu,         \* the processor module and the memory map of its broker
  conditions,  \* oStatePredicate->aConditions
  asked,       \* dwNumConditions
  steps,       \* the number of instructions so far
  origin       \* history: for each flag, the SetFlag call and instruction it is from

vars == <<code, cpu, conditions, asked, steps, origin>>

------------------------------------------------------------------------------
(* Flags.  A flag is the operation it follows from, an object of its own;  *)
(* flags of one operation share the object, and the code compares          *)
(* pointers: id.                                                           *)

Flags == {"C", "V", "Z", "N"}
NoFlag == [id |-> 0, op |-> "UNSET", n1 |-> NULL, n2 |-> NULL]

\* Faulty variant: a shift takes the overflow flag with it.
FlagsSetBy_ShiftSetsAll(op) == IF op \in {"ADD", "SHIFT"} THEN Flags ELSE {"Z", "N"}

FlagsSetBy(op) == CASE op = "ADD" -> Flags
                    [] op = "SHIFT" -> {"C", "Z", "N"}
                    [] OTHER -> {"Z", "N"}

SetFlag(s, op, n1, n2) ==
  LET object == [id |-> s.objects + 1, op |-> op, n1 |-> n1, n2 |-> n2]
  IN [s EXCEPT !.objects = @ + 1,
               !.flags = [x \in Flags |-> IF x \in FlagsSetBy(op) THEN object ELSE @[x]]]

SetFlagIf(update, s, op, n1, n2) == IF update THEN SetFlag(s, op, n1, n2) ELSE s

Carry(flag) == CASE flag.op \in {"ADD", "SHIFT"} -> CarryOf(flag.op, flag.n1, flag.n2)
                 [] OTHER -> NULL

\* Faulty variant: every flag gets a copy of its own.
MigrateFlags_CopiesEach(s) ==
  LET rank == [C |-> 1, V |-> 2, Z |-> 3, N |-> 4]
  IN [s EXCEPT !.objects = @ + 4,
               !.flags = [x \in Flags |-> IF @[x] = NoFlag THEN NoFlag
                                          ELSE [@[x] EXCEPT !.id = s.objects + rank[x]]]]

\* ArmImpl::Migrate: the flags of a fork share objects as those of the original do
MigrateFlags(s) ==
  LET order == <<"C", "V", "Z", "N">>
      first(x) == SelectInSeq(order, LAMBDA y : s.flags[y] = s.flags[x])
  IN [s EXCEPT !.objects = @ + 4,
               !.flags = [x \in Flags |-> IF @[x] = NoFlag THEN NoFlag
                                          ELSE [@[x] EXCEPT !.id = s.objects + first(x)]]]

------------------------------------------------------------------------------
(* Condition codes as conditions on expressions.                           *)

Minus(t) == New("MULT", t, MinusOne)
Complement(t) == New("XOR", t, MinusOne)

SignedCodes == {"GE", "LT", "GT", "LE"}
UnsignedOperator == [CS |-> "UGE", CC |-> "ULT", HI |-> "UGT", LS |-> "ULE"]
ZeroOperator == [EQ |-> "EQ", NE |-> "NEQ", MI |-> "LT", PL |-> "GE"]

\* What eOperator holds where no case of the code assigns it
UNINITIALIZED == "uninitialized"

\* The operators on the operands, or on their sum, after an addition
SumCodes == {"MI", "PL", "VS", "VC"}
AddOperator(cc) == CASE cc \in SignedCodes -> cc
                     [] cc \in DOMAIN UnsignedOperator -> UnsignedOperator[cc]
                     [] cc \in DOMAIN ZeroOperator -> ZeroOperator[cc]
                     [] cc = "VS" -> "NEQ"
                     [] cc = "VC" -> "EQ"

ConditionalInstructionAdd(flag, cc) ==
  IF cc \in SumCodes THEN NormalCondition(New("ADD", flag.n1, flag.n2), AddOperator(cc), Const(0))
  ELSE NormalCondition(flag.n1, AddOperator(cc), Minus(flag.n2))

ConditionalInstructionShift(flag, cc) ==
  LET nonzero(yes) == IF cc = yes THEN "NEQ" ELSE "EQ"
      result == New("SHIFT", flag.n1, flag.n2)
      carry == CarryOf("SHIFT", flag.n1, flag.n2)
  IN CASE cc \in DOMAIN ZeroOperator -> NormalCondition(result, ZeroOperator[cc], Const(0))
       [] cc \in {"CS", "CC"} -> NormalCondition(carry, nonzero("CS"), Const(0))
       [] cc \in {"HI", "LS"}
            -> NormalCondition(New("OR", Complement(result), carry), nonzero("HI"), Const(0))
       [] OTHER -> NormalCondition(NULL, UNINITIALIZED, NULL)

ConditionalInstructionBitwise(flag, cc) ==
  IF flag.op = "XOR" /\ cc \in {"EQ", "NE"}
  THEN NormalCondition(flag.n1, ZeroOperator[cc], flag.n2)
  ELSE NormalCondition(New(flag.op, flag.n1, flag.n2),
                       IF cc \in DOMAIN ZeroOperator THEN ZeroOperator[cc] ELSE UNINITIALIZED, Const(0))

ConditionalInstruction(flag, cc) ==
  CASE flag.op = "ADD" -> ConditionalInstructionAdd(flag, cc)
    [] flag.op = "SHIFT" -> ConditionalInstructionShift(flag, cc)
    [] OTHER -> ConditionalInstructionBitwise(flag, cc)

Codes == DOMAIN ZeroOperator \cup DOMAIN UnsignedOperator \cup SignedCodes \cup {"VS", "VC"}

\* The flags a condition code reads
FlagsRead(cc) ==
  CASE cc \in {"EQ", "NE"} -> {"Z"}
    [] cc \in {"CS", "CC"} -> {"C"}
    [] cc \in {"MI", "PL"} -> {"N"}
    [] cc \in {"VS", "VC"} -> {"V"}
    [] cc \in {"HI", "LS"} -> {"C", "Z"}
    [] cc \in {"GE", "LT"} -> {"N", "V"}
    [] cc \in {"GT", "LE"} -> {"Z", "N", "V"}

\* They are set, and by one operation: otherwise PROCESSOR_STATUS_INTERNAL_ERROR
FlagsUsable(s, cc) ==
  /\ \A x \in FlagsRead(cc) : s.flags[x] # NoFlag
  /\ \A x, y \in FlagsRead(cc) : s.flags[x] = s.flags[y]

ConditionFor(s, cc) == ConditionalInstruction(s.flags[CHOOSE x \in FlagsRead(cc) : TRUE], cc)

(* Comparisons of the stack pointer that are decided without the           *)
(* predicate: "always", "skip", or open.                                   *)
StackHack(c) ==
  LET t == c.e1
      stack == \/ t = Register(SP)
               \/ /\ t.op = "ADD" /\ Len(t.in) = 2
                  /\ t.in[1] = Register(SP) /\ IsConst(t.in[2])
  IN IF ~(stack /\ IsConst(c.e2)) THEN "open"
     ELSE CASE c.op = "UGE" /\ c.e2.v = 0 -> "always"
            [] c.op = "UGE" /\ c.e2.v = MaxWord -> "skip"
            [] c.op = "NEQ" /\ c.e2.v = 0 -> "always"
            [] c.op = "EQ" /\ c.e2.v = 0 -> "skip"
            [] OTHER -> "open"

------------------------------------------------------------------------------
(* Registers, jumps and the call stack, on a processor state s whose       *)
(* instruction is at s.pc.                                                 *)

Even(a) == 2 * (a \div 2)

\* PopCallStack: the topmost entry that equals the address, and all above it
PopCallStack(stack, address) ==
  LET i == SelectLastInSeq(stack, LAMBDA a : a = address)
  IN IF i = 0 THEN stack ELSE SubSeq(stack, 1, i - 1)

GetRegister(s, r) == IF r = PC THEN Const(Wrap(s.pc + PcOffset)) ELSE s.regs[r]

Stop(s, status) == [s EXCEPT !.status = status]

\* Faulty variant: a call that is not followed leaves its return address behind.
ReturnFromCall_KeepsEntry(s) ==
  LET lr == s.regs[LR]
  IN CASE IsConst(lr) -> [s EXCEPT !.next = Even(lr.v)]
       [] lr = Register(LR) -> Stop(s, "DONE")
       [] OTHER -> Stop(s, "INTERNAL_ERROR")

\* After a CALL node was made: on to where LR says
ReturnFromCall(s) ==
  LET lr == s.regs[LR]
  IN CASE IsConst(lr) -> [s EXCEPT !.next = Even(lr.v), !.stack = PopCallStack(@, Even(lr.v))]
       [] lr = Register(LR) -> Stop(s, "DONE")
       [] OTHER -> Stop(s, "INTERNAL_ERROR")

\* A jump to an address is followed, or becomes a CALL node
JumpTo(s, target) ==
  LET p == [s EXCEPT !.stack = PopCallStack(@, target)]
      call == NewCall(target, s.regs[0])
  IN IF target \in Segment /\ Len(p.stack) < MaxCallDepth THEN [p EXCEPT !.next = target]
     ELSE IF target \in NoReturn THEN Stop(p, "DONE")
     ELSE ReturnFromCall([p EXCEPT !.call = call, !.regs[0] = call])

JumpToNode(s, t) ==
  CASE IsConst(t) -> JumpTo(s, Even(t.v))
    [] t.op = "LOAD" /\ IsConst(t.in[1]) -> JumpTo(s, Even(Data[t.in[1].v]))
    [] t = Register(LR) -> Stop(s, "DONE")
    [] OTHER -> Stop(s, "INTERNAL_ERROR")

SetRegister(s, r, t) == IF r = PC THEN JumpToNode(s, t) ELSE [s EXCEPT !.regs[r] = t]

\* Go on with what follows unless a step failed or ended the path
Then(s, Continue(_)) == IF s.status = "OK" THEN Continue(s) ELSE s

Load(s, address) == NewLoad([a \in ReadOnly |-> Data[a]], s.mem, address)
Touch(s, address) == [s EXCEPT !.addresses = @ \cup {address}]
Store(s, data, address) == [Touch(s, address) EXCEPT !.mem = NewStore(@, data, address)]

------------------------------------------------------------------------------
(* Operands.  GetOperand returns the node and the state after it, as it    *)
(* may set flags.                                                          *)

Reg(r) == [t |-> "reg", r |-> r]
Imm(v) == [t |-> "imm", v |-> v]                       \* o_imm, o_mem, o_near
Displ(r, v) == [t |-> "displ", r |-> r, v |-> v]       \* [r, #v]
Phrase(r, r2, type, v) == [t |-> "phrase", r |-> r, r2 |-> r2, type |-> type, v |-> v]
Shifted(r, type, v) == [t |-> "shift", r |-> r, type |-> type, v |-> v, r2 |-> PC]
ShiftedBy(r, type, r2) == [t |-> "shift", r |-> r, type |-> type, v |-> 0, r2 |-> r2]

Got(s, n) == [s |-> s, n |-> n]

\* RRX: shift by one, and the carry comes in at the top
RotateExtended(s, base, update) ==
  LET extended(result, carry) == IF carry \in {NULL, Const(0)} THEN result
                                 ELSE New("ADD", result, New("SHIFT", carry, Const(W - 1)))
  IN Got(SetFlagIf(update, s, "SHIFT", base, MinusOne),
         extended(New("SHIFT", base, MinusOne), Carry(s.flags["C"])))

GetOperandShift(s, base, shift, type, update) ==
  LET by(amount) == Got(SetFlagIf(update, s, "SHIFT", base, amount),
                        IF type = "ROR" THEN New("ROTATE", base, amount) ELSE New("SHIFT", base, amount))
  IN IF type = "RRX" THEN RotateExtended(s, base, update)
     ELSE by(IF type \in {"LSR", "ASR"} THEN Minus(shift) ELSE shift)

GetOperand(s, o, update) ==
  LET reg == GetRegister(s, o.r)
      reg2 == GetRegister(s, o.r2)
      sum(x) == Got(SetFlagIf(update, s, "ADD", reg, x), New("ADD", reg, x))
      indexed(g) == IF o.t = "shift" THEN g ELSE Got(g.s, New("ADD", reg, g.n))
      amount == IF o.t = "shift" /\ o.v = 0 /\ o.type # "LSL" THEN reg2 ELSE Const(o.v)
  IN CASE o.t = "imm" -> Got(s, Const(o.v))
       [] o.t = "reg" -> Got(SetFlagIf(update, s, "ADD", reg, Const(0)), reg)
       [] o.t = "displ" \/ (o.t = "phrase" /\ o.v = 0)
            -> sum(IF o.t = "displ" THEN Const(o.v) ELSE reg2)
       [] o.t = "shift" \/ (o.t = "phrase" /\ o.v # 0)
            -> indexed(GetOperandShift(s, IF o.t = "shift" THEN reg ELSE reg2, amount, o.type, update))
       [] OTHER -> Got(s, NULL)

------------------------------------------------------------------------------
(* Instructions: mnemonic i, condition code cc, operands ops, the first of *)
(* them the register written or stored, s for aux_cond, and the addressing *)
(* bits wback, post and neg.  A body maps a processor state to the next.   *)

Rd(ins) == ins.ops[1].r
\* op Rd, Rm stands for op Rd, Rd, Rm
Left(ins) == IF Len(ins.ops) = 2 THEN ins.ops[1] ELSE ins.ops[2]
Right(ins) == ins.ops[Len(ins.ops)]

\* Base register and address of [r, #v], [r, #v]! and [r], #v
Access(s, ins) ==
  LET o == ins.ops[2]
      at(moved) == [address |-> IF o.t = "displ" /\ ins.post /\ ~ins.wback THEN GetRegister(s, o.r)
                                ELSE moved,
                    writes |-> o.t = "displ" /\ (ins.wback \/ ins.post), base |-> moved]
  IN at(GetOperand(s, o, FALSE).n)

WriteBack(s, ins, access) ==
  IF access.writes THEN SetRegister(s, ins.ops[2].r, access.base) ELSE s

\* Faulty variant: a store leaves what an earlier one left at its address.
StoreAt_FirstStays(s, data, address) == IF address \in DOMAIN s.mem THEN s ELSE Store(s, data, address)

StoreAt(s, data, address) == Store(s, data, address)

LoadStoreBody(s, ins) ==
  LET transfer(a) ==
        IF ins.i = "ldr"
        THEN Then(WriteBack(Touch(s, a.address), ins, a),
                  LAMBDA w : SetRegister(w, Rd(ins), Load(s, a.address)))
        ELSE WriteBack(StoreAt(s, GetRegister(s, Rd(ins)), a.address), ins, a)
  IN transfer(Access(s, ins))

LoadStoreDoubleBody(s, ins) ==
  LET r2 == ins.ops[2].r
      transfer(low, high) ==
        IF ins.i = "ldrd"
        THEN Then(SetRegister(Touch(Touch(s, low), high), Rd(ins), Load(s, low)),
                  LAMBDA w : SetRegister(w, r2, Load(s, high)))
        ELSE Store(Store(s, GetRegister(s, Rd(ins)), low), GetRegister(s, r2), high)
      words(low) == transfer(low, New("ADD", low, Const(4)))
  IN words(GetOperand(s, ins.ops[3], FALSE).n)

\* Rd := result, and the flags follow from op of n1 and n2
SetResult(s, ins, updates, result, op, n1, n2) ==
  Then(IF ins.i \in {"cmp", "cmn", "tst", "teq"} THEN s ELSE SetRegister(s, Rd(ins), result),
       LAMBDA w : SetFlagIf(updates, w, op, n1, n2))

MultiplyBody(s, ins) ==
  LET product(n1, n2) == SetResult(s, ins, ins.s, New("MULT", n1, n2), "MULT", n1, n2)
  IN product(GetOperand(s, Left(ins), FALSE).n, GetOperand(s, Right(ins), FALSE).n)

\* add, adc, sub, sbc, rsb, cmp, cmn: a sum of two nodes, which the flags keep
ArithmeticBody(s, ins) ==
  LET usesCarry == ins.i \in {"adc", "sbc"}
      sum(n1, n2) == SetResult(s, ins, ins.s \/ ins.i \in {"cmp", "cmn"}, New("ADD", n1, n2), "ADD", n1, n2)
      signed(a, b) == sum(IF ins.i = "rsb" THEN Minus(a) ELSE a,
                          CASE ins.i \in {"sub", "cmp", "sbc"} -> Minus(b)
                            [] ins.i = "cmn" -> Minus(Complement(b))
                            [] OTHER -> b)
      carried(a, b, carry) ==
        IF usesCarry /\ (s.flags["C"] = NoFlag \/ carry = NULL) THEN Stop(s, "INTERNAL_ERROR")
        ELSE signed(a, IF usesCarry THEN New("ADD", b, carry) ELSE b)
  IN carried(GetOperand(s, Left(ins), FALSE).n, GetOperand(s, Right(ins), FALSE).n, Carry(s.flags["C"]))

MoveBody(s, ins) ==
  LET move(g) == SetRegister(g.s, Rd(ins), CASE ins.i = "mov" -> g.n
                                             [] ins.i = "mvn" -> Complement(g.n)
                                             [] ins.i = "neg" -> Minus(g.n))
  IN move(GetOperand(s, ins.ops[2], ins.s))

\* push, pop, stm, ldm: the registers of the list, lowest at the lowest address
MultipleBody(s, ins) ==
  LET base == GetRegister(s, Rd(ins))
      list == ins.ops[2].list
      order == SelectSeq(IF ins.neg THEN [k \in 1 .. 16 |-> 16 - k] ELSE [k \in 1 .. 16 |-> k - 1],
                         LAMBDA r : r \in list)
      moved(n) == New("ADD", base, Const(Wrap(IF ins.neg THEN 0 - 4 * n ELSE 4 * n)))
      address(k) == moved(IF ins.post THEN k - 1 ELSE k)
      touched == [s EXCEPT !.addresses = @ \cup {address(k) : k \in DOMAIN order}]
      stored == [touched EXCEPT !.mem =
                  FoldLeft(LAMBDA m, k : NewStore(m, GetRegister(s, order[k]), address(k)), s.mem,
                           [k \in DOMAIN order |-> k])]
      value == [r \in list |-> Load(s, address(CHOOSE k \in DOMAIN order : order[k] = r))]
      load(w) == [w EXCEPT !.regs = [r \in Registers |-> IF r \in list THEN value[r] ELSE w.regs[r]]]
      jump(w) == IF PC \in list THEN SetRegister(w, PC, value[PC]) ELSE w
      loaded == IF ins.neg THEN Then(jump(touched), load) ELSE jump(load(touched))
  IN Then(IF ins.i = "stm" THEN stored ELSE loaded,
          LAMBDA w : IF ins.wback THEN SetRegister(w, Rd(ins), moved(Len(order))) ELSE w)

\* tst, teq, and, orr, eor, bic, orn; the operand may set flags of its own
BitwiseBody(s, ins) ==
  LET tests == ins.i \in {"tst", "teq"}
      op == CASE ins.i \in {"tst", "and", "bic"} -> "AND"
              [] ins.i \in {"orr", "orn"} -> "OR"
              [] OTHER -> "XOR"
      combine(w, n1, n2) ==
        SetResult(w, ins, ins.s \/ tests, New(op, n1, n2), op, n1, n2)
      operand(g) == combine(g.s, GetRegister(g.s, Left(ins).r),
                            IF ins.i \in {"bic", "orn"} THEN Complement(g.n) ELSE g.n)
  IN operand(GetOperand(s, Right(ins), ins.s \/ tests))

\* lsl, lsr, asr, ror
ShiftBody(s, ins) ==
  LET shift(w, n1, n2) == SetRegister(SetFlagIf(ins.s, w, "SHIFT", n1, n2), Rd(ins),
                                      IF ins.i = "ror" THEN New("ROTATE", n1, n2) ELSE New("SHIFT", n1, n2))
      operand(g) == shift(g.s, GetRegister(g.s, Left(ins).r),
                          IF ins.i \in {"lsr", "asr"} THEN Minus(g.n) ELSE g.n)
  IN operand(GetOperand(s, Right(ins), ins.s))

Half == W \div 2
Byte == W \div 4
Ones(n) == 2^n - 1

\* rev: the bytes in reverse order
Reversed(t) ==
  LET byte(k, shift) == New("AND", New("SHIFT", t, Const(Wrap(shift))), Const(Ones(Byte) * 2^(k * Byte)))
  IN New("OR", New("OR", New("OR", New("SHIFT", t, Const(Wrap(0 - 3 * Byte))), byte(1, 0 - Byte)),
                 byte(2, Byte)), byte(3, 3 * Byte))

\* sbfx extends the sign of a constant only
SignExtended(t, width) ==
  IF IsConst(t) /\ ((t.v \div 2^(width - 1)) % 2) = 1
  THEN Const(Shl(MaxWord, width) + (t.v % 2^(width % W))) ELSE t

\* ubfx, sbfx: width bits from lsb on
BitField(t, ins) == New("AND", New("SHIFT", t, Const(Wrap(0 - ins.ops[3].v))), Const(Ones(ins.ops[4].v)))

\* uxth, uxtb, rev, ubfx, sbfx, movt
FieldBody(s, ins) ==
  LET result(g) == CASE ins.i = "uxth" -> New("AND", g, Const(Ones(Half)))
                     [] ins.i = "uxtb" -> New("AND", g, Const(Ones(Byte)))
                     [] ins.i = "rev" -> Reversed(g)
                     [] ins.i = "ubfx" -> BitField(g, ins)
                     [] ins.i = "sbfx" -> SignExtended(BitField(g, ins), ins.ops[4].v)
                     [] ins.i = "movt" -> New("OR", New("AND", GetRegister(s, Rd(ins)), Const(Ones(Half))),
                                                Const(Shl(g.v, Half)))
  IN SetRegister(s, Rd(ins), result(GetOperand(s, ins.ops[2], FALSE).n))

\* b, bx, bl, ret
BranchBody(s, ins) ==
  JumpToNode(IF ins.i # "bl" THEN s
             ELSE [s EXCEPT !.regs[LR] = Const(s.next), !.stack = Append(@, s.next)],
             IF ins.i = "ret" THEN GetRegister(s, LR) ELSE GetOperand(s, ins.ops[1], FALSE).n)

------------------------------------------------------------------------------
(* The builder's answer to a condition (CodeBrokerImpl::IntroduceCondition *)
(* and the oracle): whether the body is executed, and the predicate then.  *)

\* Known without the oracle; an error; the oracle's decision that c is merged
Known(executed) == [executed |-> executed, conditions |-> conditions, asked |-> 0,
                    forked |-> FALSE, status |-> "OK", past |-> FALSE]
Error(n) == [Known(FALSE) EXCEPT !.status = "INTERNAL_ERROR", !.asked = n]
Decision(executed, n, forked) ==
  [executed |-> executed, conditions |-> MergeCondition(n, conditions), asked |-> 1,
   forked |-> forked, status |-> "OK", past |-> RunsPastLast(n, conditions)]

\* Faulty variant: the fork follows the false branch but keeps the condition.
Branches_ForkKeepsTrue(c) == {<<TRUE, c, FALSE>>, <<FALSE, Negate(c), FALSE>>, <<FALSE, c, TRUE>>}

\* What the oracle can say of c: whether the body is executed, what is merged, forked
Branches(c) == {<<TRUE, c, FALSE>>,          \* TAKE_TRUE, or TAKE_BOTH here
                <<FALSE, Negate(c), FALSE>>, \* TAKE_FALSE
                <<FALSE, Negate(c), TRUE>>}  \* TAKE_BOTH in the fork

\* IsSatisfied normalizes the condition in place, MergeCondition once more.
IntroduceCondition(c) ==
  LET introduced(n, satisfied) ==
        CASE satisfied = "ALWAYS" -> {Known(TRUE)}
          [] satisfied = "NEVER" -> {Known(FALSE)}
          [] satisfied = "SOMETIMES" /\ asked + 1 >= MaxConditions -> {Error(1)}
          [] OTHER -> {Decision(b[1], NormalForm(b[2]), b[3]) : b \in Branches(n)}
      normal(n) == introduced(n, IsSatisfied(n, conditions))
  IN normal(NormalForm(c))

\* cbz and cbnz have a condition of their own
OwnCondition(ins) == NormalCondition(GetRegister(cpu, Rd(ins)),
                                     IF ins.i = "cbz" THEN "EQ" ELSE "NEQ", Const(0))

HasOwnCondition(ins) == ins.i \in {"cbz", "cbnz"}

Verdicts(ins) ==
  LET hack(c) == CASE HasOwnCondition(ins) -> "open"
                   [] ~HasOwnCondition(ins) /\ c.op = UNINITIALIZED -> "skip"
                   [] OTHER -> StackHack(c)
      verdict(c) == IF hack(c) = "open" THEN IntroduceCondition(c) ELSE {Known(hack(c) = "always")}
  IN CASE ~HasOwnCondition(ins) /\ ins.cc = "AL" -> {Known(TRUE)}
       [] ~HasOwnCondition(ins) /\ ins.cc = "NV" -> {Known(FALSE)}
       [] OTHER ->
            IF ~HasOwnCondition(ins) /\ ~FlagsUsable(cpu, ins.cc) THEN {Error(0)}
            ELSE verdict(IF HasOwnCondition(ins) THEN OwnCondition(ins) ELSE ConditionFor(cpu, ins.cc))

------------------------------------------------------------------------------

Init ==
  /\ code \in DOMAIN Programs
  /\ cpu = [regs |-> [r \in Registers |-> Register(r)], stack |-> <<>>,
            flags |-> [x \in Flags |-> NoFlag], mem |-> [a \in {} |-> NULL],
            pc |-> 0, next |-> 0, status |-> "OK", call |-> NULL, objects |-> 0,
            addresses |-> {}]
  /\ conditions = <<>> /\ asked = 0 /\ steps = 0
  /\ origin = [x \in Flags |-> [call |-> 0, by |-> "none"]]

Running == cpu.status = "OK" /\ cpu.pc \in DOMAIN Programs[code] /\ steps < MaxSteps

\* The builder has decoded the instruction
Fetched == [cpu EXCEPT !.next = cpu.pc + Size, !.call = NULL]
Finished(s) == [s EXCEPT !.pc = s.next]

\* One instruction: its condition, then the body if it is executed, which leads to after
Instruction(ins, v, after) ==
  /\ cpu' = Finished(CASE v.status # "OK" -> Stop(Fetched, v.status)
                       [] v.status = "OK" /\ v.executed -> after
                       [] v.status = "OK" /\ ~v.executed
                            -> IF v.forked THEN MigrateFlags(Fetched) ELSE Fetched)
  /\ conditions' = v.conditions
  /\ asked' = asked + v.asked
  /\ steps' = steps + 1
  /\ origin' = [x \in Flags |->
       IF v.executed /\ cpu'.flags[x] # cpu.flags[x]
       THEN [call |-> cpu'.flags[x].id, by |-> ins.i] ELSE origin[x]]
  /\ UNCHANGED code

LoadStore(ins, v) ==
  ins.i \in {"ldr", "str"} /\ Instruction(ins, v, LoadStoreBody(Fetched, ins))
LoadStoreDouble(ins, v) ==
  ins.i \in {"ldrd", "strd"} /\ Instruction(ins, v, LoadStoreDoubleBody(Fetched, ins))
Multiply(ins, v) ==
  ins.i = "mul" /\ Instruction(ins, v, MultiplyBody(Fetched, ins))
Arithmetic(ins, v) ==
  /\ ins.i \in {"add", "adc", "sub", "sbc", "rsb", "cmp", "cmn"}
  /\ Instruction(ins, v, ArithmeticBody(Fetched, ins))
Move(ins, v) ==
  ins.i \in {"mov", "mvn", "neg"} /\ Instruction(ins, v, MoveBody(Fetched, ins))
MoveMultiple(ins, v) ==
  ins.i \in {"stm", "ldm"} /\ Instruction(ins, v, MultipleBody(Fetched, ins))
BitOperation(ins, v) ==
  /\ ins.i \in {"tst", "teq", "and", "orr", "eor", "bic", "orn"}
  /\ Instruction(ins, v, BitwiseBody(Fetched, ins))
ShiftOperation(ins, v) ==
  ins.i \in {"lsl", "lsr", "asr", "ror"} /\ Instruction(ins, v, ShiftBody(Fetched, ins))
Field(ins, v) ==
  /\ ins.i \in {"uxth", "uxtb", "rev", "ubfx", "sbfx", "movt"}
  /\ Instruction(ins, v, FieldBody(Fetched, ins))
Branch(ins, v) ==
  ins.i \in {"b", "bl", "ret"} /\ Instruction(ins, v, BranchBody(Fetched, ins))
\* The branch itself is not followed, whatever the condition
CompareBranch(ins, v) ==
  ins.i \in {"cbz", "cbnz", "nop"} /\ Instruction(ins, v, Fetched)

Step(ins, v) ==
  \/ LoadStore(ins, v) \/ LoadStoreDouble(ins, v) \/ Multiply(ins, v) \/ Arithmetic(ins, v)
  \/ Move(ins, v) \/ MoveMultiple(ins, v) \/ BitOperation(ins, v) \/ ShiftOperation(ins, v)
  \/ Field(ins, v) \/ Branch(ins, v) \/ CompareBranch(ins, v)

\* No instruction at the address, or one the processor module does not know
NotDecoded ==
  /\ cpu.status = "OK" /\ steps < MaxSteps
  /\ cpu.pc \notin DOMAIN Programs[code]
  /\ cpu' = Stop(cpu, "INTERNAL_ERROR")
  /\ UNCHANGED <<code, conditions, asked, steps, origin>>

Next ==
  \/ Running /\ \E ins \in Programs[code][cpu.pc] : \E v \in Verdicts(ins) : Step(ins, v)
  \/ NotDecoded

Spec == Init /\ [][Next]_vars

------------------------------------------------------------------------------
(* Properties.                                                             *)

\* Two flags share an object exactly when one SetFlag call set both, on the original
\* and in every fork: the combined condition codes rely on it (Arm.cpp, Migrate).
FlagsShared ==
  \A x, y \in Flags :
    cpu.flags[x] # NoFlag /\ cpu.flags[y] # NoFlag =>
      (cpu.flags[x].id = cpu.flags[y].id <=> origin[x].call = origin[y].call)

\* Whatever condition code comes next, an operation is only asked for a condition that
\* it defines; otherwise eOperator is used uninitialized (ConditionalInstructionShift,
\* ConditionalInstructionBitwise).
ConditionDefined ==
  \A cc \in Codes : FlagsUsable(cpu, cc) => ConditionFor(cpu, cc).op # UNINITIALIZED

\* A path is never more than MaxCallDepth - 1 calls deep where it goes on, also when
\* calls are not followed, return addresses are equal, or the target is on the stack.
CallStackBounded ==
  cpu.status = "OK" => Len(cpu.stack) < (IF MaxCallDepth = 0 THEN 1 ELSE MaxCallDepth)

==============================================================================
