-------------------------------- MODULE MCArm --------------------------------
(* Model checking Arm and ArmPath on words of four bits, instructions two     *)
(* bytes apart.                                                               *)
EXTENDS ArmPath

MCRegisters == {0, 1, SP, LR}
MCSegment == {0, 2, 4, 6}
MCNoReturn == {12}
MCData == [a \in Words |-> (5 * a + 3) % 16]
MCReadOnly == {2, 9}

\* Every value of R0, with some of R1 and of the memory
MCEnv == LET Second == <<0, 7, 12, 1, 15, 8, 6, 3, 9, 0, 5, 14, 2, 15, 4, 11, 10, 0, 13, 8, 1, 7, 0, 15>>
         IN [k \in 1 .. 24 |->
              [r |-> (0 :> (k - 1) % 16) @@ (1 :> Second[k]) @@ (SP :> 8) @@ (LR :> 5),
               m |-> [a \in Words |-> IF a \in MCReadOnly THEN MCData[a] ELSE (7 * a + Second[k]) % 16]]]

Ins(i, ops) == [i |-> i, cc |-> "AL", ops |-> ops,
                s |-> FALSE, wback |-> FALSE, post |-> FALSE, neg |-> FALSE]
If(cc, ins) == [ins EXCEPT !.cc = cc]
S(ins) == [ins EXCEPT !.s = TRUE]
R0 == Reg(0)
R1 == Reg(1)
Pc == Reg(PC)

\* The k-th set of instructions at the k-th address
Program(sets) == [a \in {2 * (k - 1) : k \in DOMAIN sets} |-> sets[a \div 2 + 1]]

Immediates == {0, 1, 7, 8, 15}
CompareR0 == {Ins("cmp", <<R0, Imm(v)>>) : v \in Immediates}
Conditional == {If(cc, Ins("mov", <<R1, Imm(3)>>)) : cc \in Codes}

\* Two conditions on one register, and a third
Comparing == LET first == {Ins("cmp", <<R0, Imm(v)>>) : v \in {1, 7, 15}}
                 bounds == {If(cc, Ins("mov", <<R1, Imm(3)>>)) : cc \in Codes}
             IN Program(<<first, bounds, CompareR0, bounds, {Ins("cbz", <<R0>>)}>>)

\* Bounds on what was computed from a register, and on the difference of two
Bounds == LET computed == {Ins("add", <<R1, R0, Imm(9)>>), Ins("add", <<R1, R0, R0>>), Ins("rsb", <<R1, R0, Imm(2)>>),
                           Ins("mul", <<R1, R0>>), Ins("lsr", <<R1, R0, Imm(1)>>), Ins("eor", <<R1, R0, Imm(5)>>),
                           Ins("mov", <<R0, Imm(9)>>)}
              compared == {Ins("cmp", <<R1, Imm(v)>>) : v \in {2, 7, 8, 10, 15}} \cup {Ins("cmp", <<R0, R1>>)}
          IN Program(<<{Ins("nop", <<>>), Ins("mov", <<R1, Imm(3)>>)}, computed, compared, Conditional>>)

\* Sums, differences and products, with and without flags, and what reads the flags
Sums == LET simple == {S(Ins("add", <<R1, R0, Imm(9)>>)), S(Ins("add", <<R0, R1>>)), S(Ins("rsb", <<R1, R0, Imm(2)>>)),
                       S(Ins("sub", <<R1, R0, R1>>)), S(Ins("mul", <<R0, R1>>)), Ins("mul", <<R1, R0, R0>>),
                       Ins("cmn", <<R0, Imm(1)>>), S(Ins("neg", <<R1, R0>>)), S(Ins("mvn", <<R1, R0>>))}
            carried == {Ins("adc", <<R1, R0>>), Ins("sbc", <<R0, R1>>)}
        IN Program(<<simple, simple \cup carried, simple \cup carried, Conditional>>)

Shifts == LET shifts == {S(Ins("lsl", <<R1, R0, Imm(n)>>)) : n \in {1, 3}}
                        \cup {S(Ins("lsr", <<R0, R0, Imm(2)>>)), Ins("lsr", <<R1, Imm(1)>>), S(Ins("asr", <<R1, Imm(1)>>)),
                              S(Ins("ror", <<R0, Imm(1)>>)), Ins("ror", <<R1, R0>>), Ins("lsl", <<R0, R1>>),
                              Ins("mov", <<R0, Imm(9)>>), Ins("mov", <<R1, Shifted(0, "ASR", 1)>>),
                              S(Ins("mov", <<R1, Shifted(0, "RRX", 1)>>)),
                              Ins("add", <<R0, R1, Shifted(0, "LSL", 2)>>),
                              Ins("mov", <<R1, ShiftedBy(0, "LSR", 1)>>)}
              bits == {Ins("and", <<R0, R1, Imm(12)>>), S(Ins("eor", <<R1, R0, Imm(5)>>)), Ins("orr", <<R1, R0>>),
                       Ins("bic", <<R1, R0, Imm(3)>>), Ins("orn", <<R0, R1, Imm(6)>>), Ins("tst", <<R0, Shifted(1, "ROR", 1)>>),
                       Ins("and", <<R1, Imm(1)>>), Ins("teq", <<R0, R1>>), Ins("ror", <<R0, Imm(1)>>)}
              fields == {Ins("uxth", <<R0, R1>>), Ins("uxtb", <<R1, R0>>), Ins("rev", <<R1, R0>>),
                         Ins("ubfx", <<R1, R0, Imm(1), Imm(2)>>), Ins("sbfx", <<R1, R0, Imm(0), Imm(2)>>),
                         Ins("movt", <<R0, Imm(2)>>)}
              tests == {If(cc, Ins("mov", <<R1, Imm(3)>>)) : cc \in {"NE", "CC", "LS", "PL", "VS", "GT"}}
          IN Program(<<shifts \cup fields, bits, shifts \cup fields, tests>>)

\* Loads and stores of words that may be the same, and of read-only data
Memory == LET at == {Displ(0, 0), Displ(0, 4), Phrase(0, 1, "LSL", 0), Phrase(1, 0, "LSL", 1), Imm(9)}
              single == {Ins("str", <<R1, o>>) : o \in at} \cup {Ins("ldr", <<R1, o>>) : o \in at}
                        \cup {[Ins("str", <<R1, Displ(0, 4)>>) EXCEPT !.wback = TRUE],
                              [Ins("ldr", <<R1, Displ(0, 4)>>) EXCEPT !.post = TRUE]}
              double == {Ins(i, <<R0, R1, Displ(SP, 0)>>) : i \in {"ldrd", "strd"}}
          IN Program(<<single, single \cup double, single \cup double, {S(Ins("add", <<R0, R1>>))}>>)

\* Push and pop in the four addressing modes, and loads into PC
Stack == LET list(s) == [t |-> "list", list |-> s]
             multiple(i, s, neg, post) == [Ins(i, <<Reg(SP), list(s)>>) EXCEPT !.wback = TRUE, !.neg = neg, !.post = post]
             push == {multiple("stm", {0, 1, LR}, TRUE, FALSE), multiple("stm", {0, LR}, FALSE, TRUE),
                      multiple("stm", {1, LR}, FALSE, FALSE), multiple("stm", {0, 1}, TRUE, TRUE)}
             pop == {multiple("ldm", {0, 1, PC}, FALSE, TRUE), multiple("ldm", {1, PC}, TRUE, FALSE),
                     multiple("ldm", {0, 1}, TRUE, TRUE), multiple("ldm", {0, LR}, FALSE, FALSE)}
         IN Program(<<push, {Ins("add", <<R0, R1>>), Ins("mov", <<R1, R0>>)}, push \cup pop, pop>>)

\* Calls: followed, recursive, to functions outside the segment and to those that do not return
Calls == LET jumps == {Ins("bl", <<Imm(a)>>) : a \in {0, 4, 6, 10, 12}}
                      \cup {Ins("ret", <<>>), Ins("b", <<Imm(2)>>), Ins("b", <<Reg(LR)>>), Ins("b", <<R0>>), Ins("b", <<Imm(10)>>),
                            Ins("mov", <<Pc, R1>>), Ins("ldr", <<Pc, Imm(2)>>)}
             zero == {Ins("cbz", <<R0>>), Ins("cbnz", <<R1>>), Ins("nop", <<>>), Ins("mov", <<R1, Imm(4)>>)}
         IN Program(<<jumps, jumps \cup zero, jumps \cup zero, jumps>>)

\* The stack pointer compared with constants, and a condition on flags nothing has set
StackPointer == Program(<<{Ins("cmp", <<Reg(SP), Imm(v)>>) : v \in {0, 1, 15}},
                          Conditional \cup {If("NV", Ins("nop", <<>>))}>>)

\* Two registers compared without sign
Unsigned == Program(<<{Ins("cmp", <<R0, R1>>)}, {If(cc, Ins("mov", <<R1, Imm(3)>>)) : cc \in {"CS", "CC"}}>>)

MCUnsignedPrograms == [unsigned |-> Unsigned]
MCPrograms == [comparing |-> Comparing, bounds |-> Bounds, sums |-> Sums, shifts |-> Shifts, memory |-> Memory, stack |-> Stack,
               calls |-> Calls, stackPointer |-> StackPointer]
==============================================================================
