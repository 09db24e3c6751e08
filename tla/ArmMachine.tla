------------------------------ MODULE ArmMachine ------------------------------
(***************************************************************************)
(* Reference: what the ARM instructions compute on concrete registers r,   *)
(* memory m (the words stored so far) and flags f, as the architecture     *)
(* defines them.  A call that is not followed is a function of its target  *)
(* and R0.  Used to state what the symbolic execution of Arm promises;     *)
(* nothing here is code of the repository.                                 *)
(***************************************************************************)
EXTENDS Expression

CONSTANTS Size, PcOffset

Start(e) == [r |-> e.r, m |-> [a \in {} |-> 0], f |-> [N |-> FALSE, Z |-> FALSE, C |-> FALSE, V |-> FALSE]]

Read(x, r, pc) == IF r = 15 THEN Wrap(pc + PcOffset) ELSE x.r[r]

\* The word at an address, and the machine after storing there; m0 is the initial memory
Word(x, m0, a) == IF a \in DOMAIN x.m THEN x.m[a] ELSE m0[a]
Stored(x, a, v) == [x EXCEPT !.m = (a :> v) @@ @]

Bit(b) == IF b THEN 1 ELSE 0
Ror(v, n) == IF (n % W) = 0 THEN v ELSE RotateValue(v, n)
Asr(v, n) == IF Signed(v) >= 0 THEN ShiftValue(v, 0 - n)
             ELSE MaxWord - ShiftValue(MaxWord - v, 0 - n)

\* The value of a shifted operand, and the carry out of the shifter
Shifter(v, type, n, c) ==
  CASE n = 0 /\ type # "RRX" -> [v |-> v, c |-> c]
    [] n # 0 /\ type = "LSL" -> [v |-> ShiftValue(v, n), c |-> ShiftedOut(v, n) = 1]
    [] n # 0 /\ type = "LSR" -> [v |-> ShiftValue(v, 0 - n), c |-> ShiftedOut(v, 0 - n) = 1]
    [] n # 0 /\ type = "ASR" -> [v |-> Asr(v, n), c |-> (Asr(v, n - 1) % 2) = 1]
    [] n # 0 /\ type = "ROR" -> [v |-> Ror(v, n), c |-> Ror(v, n) > MaxInt]
    [] type = "RRX" -> [v |-> (v \div 2) + Bit(c) * MinInt, c |-> (v % 2) = 1]

Operand(x, o, pc) ==
  LET plain(v) == [v |-> v, c |-> x.f.C]
      by == IF o.v = 0 /\ o.type # "LSL" THEN Read(x, o.r2, pc) ELSE o.v
  IN CASE o.t = "imm" -> plain(o.v)
       [] o.t = "reg" -> plain(Read(x, o.r, pc))
       [] o.t = "displ" -> plain(Wrap(Read(x, o.r, pc) + o.v))
       [] o.t = "phrase" -> plain(Wrap(Read(x, o.r, pc)
                                       + Shifter(Read(x, o.r2, pc), o.type, o.v, x.f.C).v))
       [] o.t = "shift" -> Shifter(Read(x, o.r, pc), o.type, by, x.f.C)

Sum(a, b, c) ==
  LET u == a + b + Bit(c)
  IN [v |-> Wrap(u), C |-> u > MaxWord, V |-> Signed(Wrap(u)) # Signed(a) + Signed(b) + Bit(c)]

\* Write v to register rd, and the flags if s is set
Wrote(x, rd, v, s, c, o) ==
  [x EXCEPT !.r = [r \in DOMAIN @ |-> IF r = rd THEN v ELSE @[r]],
            !.f = IF s THEN [N |-> v > MaxInt, Z |-> v = 0, C |-> c, V |-> o] ELSE @]
FlagsOnly(x, v, c, o) == Wrote(x, 99, v, TRUE, c, o)

Added(x, ins, pc) ==
  LET two == Len(ins.ops) = 2
      a == Operand(x, IF two THEN ins.ops[1] ELSE ins.ops[2], pc).v
      b == Operand(x, ins.ops[Len(ins.ops)], pc).v
      sum == CASE ins.i \in {"add", "cmn"} -> Sum(a, b, FALSE)
               [] ins.i \in {"sub", "cmp"} -> Sum(a, MaxWord - b, TRUE)
               [] ins.i = "rsb" -> Sum(b, MaxWord - a, TRUE)
               [] ins.i = "adc" -> Sum(a, b, x.f.C)
               [] ins.i = "sbc" -> Sum(a, MaxWord - b, x.f.C)
  IN IF ins.i \in {"cmp", "cmn"} THEN FlagsOnly(x, sum.v, sum.C, sum.V)
     ELSE Wrote(x, ins.ops[1].r, sum.v, ins.s, sum.C, sum.V)

Combined(x, ins, pc) ==
  LET a == Operand(x, IF Len(ins.ops) = 2 THEN ins.ops[1] ELSE ins.ops[2], pc).v
      o == Operand(x, ins.ops[Len(ins.ops)], pc)
      v == CASE ins.i \in {"tst", "and"} -> a & o.v
             [] ins.i \in {"teq", "eor"} -> a ^^ o.v
             [] ins.i = "orr" -> a | o.v
             [] ins.i = "bic" -> a & (MaxWord - o.v)
             [] ins.i = "orn" -> a | (MaxWord - o.v)
  IN IF ins.i \in {"tst", "teq"} THEN FlagsOnly(x, v, o.c, x.f.V)
     ELSE Wrote(x, ins.ops[1].r, v, ins.s, o.c, x.f.V)

Moved(x, ins, pc) ==
  LET o == Operand(x, ins.ops[2], pc)
      sum == Sum(0, MaxWord - o.v, TRUE)
  IN CASE ins.i = "mov" -> Wrote(x, ins.ops[1].r, o.v, ins.s, o.c, x.f.V)
       [] ins.i = "mvn" -> Wrote(x, ins.ops[1].r, MaxWord - o.v, ins.s, o.c, x.f.V)
       [] ins.i = "neg" -> Wrote(x, ins.ops[1].r, sum.v, ins.s, sum.C, sum.V)

ShiftedBy(x, ins, pc) ==
  LET a == Operand(x, IF Len(ins.ops) = 2 THEN ins.ops[1] ELSE ins.ops[2], pc).v
      n == Operand(x, ins.ops[Len(ins.ops)], pc).v
      type == CASE ins.i = "lsl" -> "LSL" [] ins.i = "lsr" -> "LSR"
                [] ins.i = "asr" -> "ASR" [] ins.i = "ror" -> "ROR"
      o == Shifter(a, type, n, x.f.C)
  IN Wrote(x, ins.ops[1].r, o.v, ins.s, o.c, x.f.V)

\* Bits, bytes and halves; a byte is a quarter of a word
FieldOf(x, ins, pc) ==
  LET v == Operand(x, ins.ops[2], pc).v
      bytes == 2^(W \div 4)
      halves == 2^(W \div 2)
      digit(k) == (v \div bytes^k) % bytes
      field == (v \div 2^ins.ops[3].v) % 2^ins.ops[4].v
      result == CASE ins.i = "uxth" -> v % halves
                  [] ins.i = "uxtb" -> v % bytes
                  [] ins.i = "rev" -> digit(3) + bytes * (digit(2) + bytes * (digit(1) + bytes * digit(0)))
                  [] ins.i = "movt" -> (x.r[ins.ops[1].r] % halves) + halves * (v % halves)
                  [] OTHER -> IF ins.i = "sbfx" /\ field >= 2^(ins.ops[4].v - 1)
                              THEN Wrap(field - 2^ins.ops[4].v) ELSE field
  IN Wrote(x, ins.ops[1].r, result, FALSE, FALSE, FALSE)

\* ldr and str: address, and the base register afterwards
Accessed(x, ins, m0, pc) ==
  LET o == ins.ops[2]
      moved == Operand(x, o, pc).v
      post == ins.post /\ ~ins.wback
      address == IF o.t = "displ" /\ post THEN Read(x, o.r, pc) ELSE moved
      y == IF o.t = "displ" /\ (ins.wback \/ ins.post) THEN Wrote(x, o.r, moved, FALSE, FALSE, FALSE)
           ELSE x
  IN IF ins.i = "ldr" THEN Wrote(y, ins.ops[1].r, Word(x, m0, address), FALSE, FALSE, FALSE)
     ELSE Stored(y, address, Read(x, ins.ops[1].r, pc))

Doubled(x, ins, m0, pc) ==
  LET low == Operand(x, ins.ops[3], pc).v
      high == Wrap(low + 4)
      r == ins.ops[1].r
      r2 == ins.ops[2].r
  IN IF ins.i = "strd" THEN Stored(Stored(x, low, Read(x, r, pc)), high, Read(x, r2, pc))
     ELSE Wrote(Wrote(x, r, Word(x, m0, low), FALSE, FALSE, FALSE),
                r2, Word(x, m0, high), FALSE, FALSE, FALSE)

\* ldm and stm: the k-th register of the list in ascending order, from the lowest address on
MovedMultiple(x, ins, m0, pc) ==
  LET base == Read(x, ins.ops[1].r, pc)
      list == SetToSortSeq(ins.ops[2].list, <)
      n == Len(list)
      low == CASE ins.neg /\ ins.post -> base - 4 * n + 4
               [] ins.neg /\ ~ins.post -> base - 4 * n
               [] ~ins.neg /\ ins.post -> base
               [] ~ins.neg /\ ~ins.post -> base + 4
      after == Wrap(IF ins.neg THEN base - 4 * n ELSE base + 4 * n)
      move(y, k) == LET a == Wrap(low + 4 * (k - 1))
                    IN IF ins.i = "stm" THEN Stored(y, a, Read(x, list[k], pc))
                       ELSE Wrote(y, list[k], Word(x, m0, a), FALSE, FALSE, FALSE)
      y == FoldLeft(move, x, [k \in 1 .. n |-> k])
  IN IF ins.wback THEN Wrote(y, ins.ops[1].r, after, FALSE, FALSE, FALSE) ELSE y

\* A call that was not followed
Called(x, call) == IF call.op # "CALL" THEN x
                   ELSE Wrote(x, 0, CallResult(call.v, x.r[0]), FALSE, FALSE, FALSE)

Branched(x, ins, pc) ==
  IF ins.i = "bl" THEN Wrote(x, 14, Wrap(pc + Size), FALSE, FALSE, FALSE) ELSE x

\* The machine after the instruction at pc; call is the CALL node made for it
Executed(ins, x, m0, pc, call) ==
  LET y == CASE ins.i \in {"add", "adc", "sub", "sbc", "rsb", "cmp", "cmn"} -> Added(x, ins, pc)
             [] ins.i \in {"tst", "teq", "and", "orr", "eor", "bic", "orn"} -> Combined(x, ins, pc)
             [] ins.i \in {"mov", "mvn", "neg"} -> Moved(x, ins, pc)
             [] ins.i \in {"lsl", "lsr", "asr", "ror"} -> ShiftedBy(x, ins, pc)
             [] ins.i \in {"uxth", "uxtb", "rev", "ubfx", "sbfx", "movt"} -> FieldOf(x, ins, pc)
             [] ins.i = "mul" ->
                  LET n == Len(ins.ops)
                      v == Wrap(Operand(x, ins.ops[n - 1], pc).v * Operand(x, ins.ops[n], pc).v)
                  IN Wrote(x, ins.ops[1].r, v, ins.s, x.f.C, x.f.V)
             [] ins.i \in {"ldr", "str"} -> Accessed(x, ins, m0, pc)
             [] ins.i \in {"ldrd", "strd"} -> Doubled(x, ins, m0, pc)
             [] ins.i \in {"ldm", "stm"} -> MovedMultiple(x, ins, m0, pc)
             [] ins.i \in {"b", "bl", "ret"} -> Branched(x, ins, pc)
             [] OTHER -> x
  IN Called(y, call)

\* Whether the machine executes the instruction: its condition code, or cbz and cbnz
Passed(ins, x) ==
  LET f == x.f
      cc == ins.cc
  IN CASE ins.i = "cbz" -> x.r[ins.ops[1].r] = 0
       [] ins.i = "cbnz" -> x.r[ins.ops[1].r] # 0
       [] cc = "EQ" -> f.Z    [] cc = "NE" -> ~f.Z
       [] cc = "CS" -> f.C    [] cc = "CC" -> ~f.C
       [] cc = "MI" -> f.N    [] cc = "PL" -> ~f.N
       [] cc = "VS" -> f.V    [] cc = "VC" -> ~f.V
       [] cc = "HI" -> f.C /\ ~f.Z    [] cc = "LS" -> ~f.C \/ f.Z
       [] cc = "GE" -> f.N = f.V      [] cc = "LT" -> f.N # f.V
       [] cc = "GT" -> ~f.Z /\ f.N = f.V    [] cc = "LE" -> f.Z \/ f.N # f.V
       [] cc = "AL" -> TRUE   [] cc = "NV" -> FALSE

==============================================================================
