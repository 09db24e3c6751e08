------------------------------ MODULE ArmProofs ------------------------------
(***************************************************************************)
(* Proofs about the processor module: the call stack, and the flags that   *)
(* share the operation they follow from.  They hold for every program,     *)
(* every instruction and operand the decoder may report, every node the    *)
(* broker may make and every normal form a condition may have.             *)
(*                                                                         *)
(* An instruction is followed from the state it was fetched in, base, by   *)
(* what each call of it keeps: Machine of the registers and the call       *)
(* stack, Objects of the flags that have changed since.                    *)
(***************************************************************************)
EXTENDS Arm, PredicateProofs

Fields == {"regs", "stack", "flags", "mem", "pc", "next", "status", "call", "objects", "addresses"}

EvenAddress(a) == a \in Int /\ Even(a) = a

\* The registers are all there, the next instruction is at an even address, and there
\* are at most n calls
Machine(n, s) ==
  /\ DOMAIN s = Fields /\ DOMAIN s.regs = Registers
  /\ EvenAddress(s.next)
  /\ s.stack \in Seq(Int) /\ Len(s.stack) <= n

Operations == {"ADD", "SHIFT", "MULT", "AND", "OR", "XOR"}

\* The operations a flag may follow from
OperationsOf(x) == CASE x = "C" -> {"ADD", "SHIFT"} [] x = "V" -> {"ADD"} [] OTHER -> Operations

\* flag x holds an object made after the first low ones
Made(x, flag, low, high) ==
  /\ DOMAIN flag = {"id", "op", "n1", "n2"}
  /\ flag.id \in low + 1 .. high /\ flag.op \in OperationsOf(x)

\* What the flags of s may be when those of base were there first
Objects(base, s) ==
  /\ base.objects \in Nat /\ s.objects \in Nat /\ base.objects <= s.objects
  /\ DOMAIN s.flags = Flags
  /\ \A x \in Flags : \/ s.flags[x] = base.flags[x] /\ s.flags[x].id \in 0 .. base.objects
                      \/ Made(x, s.flags[x], base.objects, s.objects)
  /\ \A x, y \in Flags : s.flags[x].id = s.flags[y].id /\ s.flags[x].id > base.objects
                          => s.flags[x] = s.flags[y]

Fine(base, n, s) == Machine(n, s) /\ Objects(base, s)

------------------------------------------------------------------------------
(* The call stack.                                                         *)

\* Unwinding keeps a beginning of the call stack, and not all of it if the address is on it.
LEMMA PopFine ==
  ASSUME NEW stack \in Seq(Int), NEW address
  PROVE  /\ PopCallStack(stack, address) \in Seq(Int)
         /\ Len(PopCallStack(stack, address)) <= Len(stack)
         /\ PopCallStack(stack, address) = stack \/ Len(PopCallStack(stack, address)) < Len(stack)
         /\ (\E i \in 1 .. Len(stack) : stack[i] = address)
              => Len(PopCallStack(stack, address)) < Len(stack)
<1> DEFINE I == {i \in 1 .. Len(stack) : stack[i] = address}
<1>1. SelectLastInSeq(stack, LAMBDA a : a = address) = IF I # {} THEN Max(I) ELSE 0
  BY DEF SelectLastInSeq
<1>2. CASE I = {}
  <2>1. PopCallStack(stack, address) = stack
    BY <1>1, <1>2 DEF PopCallStack
  <2> QED BY <2>1, <1>2, LenProperties
<1>3. CASE I # {}
  <2>1. Max(I) \in I
    <3>1. I \in SUBSET (1 .. Len(stack)) /\ Len(stack) \in Nat
      BY LenProperties
    <3> HIDE DEF I
    <3> QED BY <3>1, <1>3, MaxIn
  <2>2. PopCallStack(stack, address) = SubSeq(stack, 1, Max(I) - 1)
    <3>1. SelectLastInSeq(stack, LAMBDA a : a = address) = Max(I) /\ Max(I) # 0
      BY <1>1, <1>3, <2>1
    <3> HIDE DEF I
    <3> QED BY <3>1 DEF PopCallStack
  <2>3. Max(I) \in 1 .. Len(stack)
    BY <2>1
  <2> HIDE DEF I
  <2>4. PICK k \in 1 .. Len(stack) : k = Max(I)
    BY <2>3
  <2>5. Len(stack) \in Nat
    BY LenProperties
  <2>6. SubSeq(stack, 1, k - 1) \in Seq(Int) /\ Len(SubSeq(stack, 1, k - 1)) = k - 1
    BY <2>4, <2>5, SubSeqProperties
  <2> QED BY <2>2, <2>4, <2>5, <2>6
<1> QED BY <1>2, <1>3

------------------------------------------------------------------------------
(* What the calls of an instruction keep.                                  *)

\* Flags and objects that are left alone are still what they may be.
LEMMA SameObjects ==
  ASSUME NEW base, NEW s, NEW t, Objects(base, s), t.flags = s.flags, t.objects = s.objects
  PROVE  Objects(base, t)
BY DEF Objects

\* Setting flags makes one object, which they share.
LEMMA SetFlagFine ==
  ASSUME NEW base, NEW n \in Nat, NEW s, NEW op \in Operations, NEW n1, NEW n2, Fine(base, n, s)
  PROVE  Fine(base, n, SetFlag(s, op, n1, n2))
<1> DEFINE object == [id |-> s.objects + 1, op |-> op, n1 |-> n1, n2 |-> n2]
           flags == [x \in Flags |-> IF x \in FlagsSetBy(op) THEN object ELSE s.flags[x]]
           t == SetFlag(s, op, n1, n2)
<1>1. t = [s EXCEPT !.objects = s.objects + 1, !.flags = flags]
  BY DEF SetFlag
<1>2. DOMAIN s = Fields /\ "flags" \in Fields /\ "objects" \in Fields
  BY DEF Fine, Machine, Fields
<1>3. /\ t.objects = s.objects + 1 /\ t.flags = flags
      /\ t.regs = s.regs /\ t.stack = s.stack /\ t.next = s.next /\ DOMAIN t = Fields
  <2> HIDE DEF flags
  <2> QED BY <1>1, <1>2 DEF Fields
<1> HIDE DEF t
<1>4. Machine(n, t)
  BY <1>3 DEF Fine, Machine
<1>5. \A x \in FlagsSetBy(op) : op \in OperationsOf(x)
  BY DEF FlagsSetBy, OperationsOf, Operations, Flags
<1>6. /\ s.objects \in Nat /\ base.objects \in Nat /\ base.objects <= s.objects
      /\ \A x \in Flags : \/ s.flags[x] = base.flags[x] /\ s.flags[x].id \in 0 .. base.objects
                          \/ Made(x, s.flags[x], base.objects, s.objects)
      /\ \A x, y \in Flags : s.flags[x].id = s.flags[y].id /\ s.flags[x].id > base.objects
                              => s.flags[x] = s.flags[y]
  BY DEF Fine, Objects
<1>7. object.id = s.objects + 1 /\ object.op = op /\ DOMAIN object = {"id", "op", "n1", "n2"}
  OBVIOUS
<1> HIDE DEF object
<1>8. /\ DOMAIN t.flags = Flags
      /\ \A x \in Flags : t.flags[x] = IF x \in FlagsSetBy(op) THEN object ELSE s.flags[x]
  BY <1>3
<1>9. \A x \in Flags : \/ t.flags[x] = base.flags[x] /\ t.flags[x].id \in 0 .. base.objects
                       \/ Made(x, t.flags[x], base.objects, t.objects)
  BY <1>3, <1>5, <1>6, <1>7, <1>8 DEF Made
<1>10. \A x \in Flags : s.flags[x].id \in 0 .. s.objects
  BY <1>6 DEF Made
<1>11. \A x, y \in Flags : t.flags[x].id = t.flags[y].id /\ t.flags[x].id > base.objects
                           => t.flags[x] = t.flags[y]
  BY <1>6, <1>7, <1>8, <1>10
<1>12. Objects(base, t)
  BY <1>3, <1>6, <1>8, <1>9, <1>11 DEF Objects
<1> QED BY <1>4, <1>12 DEF Fine, t

\* Flags are set if the instruction says so.
LEMMA SetFlagIfFine ==
  ASSUME NEW base, NEW n \in Nat, NEW s, NEW op \in Operations, NEW n1, NEW n2, NEW update,
         Fine(base, n, s)
  PROVE  Fine(base, n, SetFlagIf(update, s, op, n1, n2))
BY SetFlagFine DEF SetFlagIf

\* An error or the end of the path changes nothing else.
LEMMA StopFine ==
  ASSUME NEW base, NEW n \in Nat, NEW s, NEW status, Fine(base, n, s)
  PROVE  Fine(base, n, Stop(s, status)) /\ Stop(s, status).status = status
<1>1. DOMAIN s = Fields
  BY DEF Fine, Machine
<1> DEFINE t == Stop(s, status)
<1>2. /\ t.status = status /\ DOMAIN t = Fields /\ t.regs = s.regs /\ t.stack = s.stack
      /\ t.next = s.next /\ t.flags = s.flags /\ t.objects = s.objects
  BY <1>1 DEF Stop, Fields
<1> HIDE DEF t
<1>3. Machine(n, t)
  BY <1>2 DEF Fine, Machine
<1>4. Objects(base, t)
  BY <1>2, SameObjects DEF Fine
<1> QED BY <1>2, <1>3, <1>4 DEF Fine, t

\* A load or a store changes neither registers, nor the call stack, nor flags.
LEMMA StoreFine ==
  ASSUME NEW base, NEW n \in Nat, NEW s, NEW data, NEW address, Fine(base, n, s)
  PROVE  Fine(base, n, Touch(s, address)) /\ Fine(base, n, Store(s, data, address))
<1>1. ASSUME NEW t, DOMAIN t = Fields, t.regs = s.regs, t.stack = s.stack, t.next = s.next,
             t.flags = s.flags, t.objects = s.objects
      PROVE  Fine(base, n, t)
  <2>1. Machine(n, t)
    BY <1>1 DEF Fine, Machine
  <2>2. Objects(base, t)
    BY <1>1, SameObjects DEF Fine
  <2> QED BY <2>1, <2>2 DEF Fine
<1>2. DOMAIN s = Fields
  BY DEF Fine, Machine
<1> DEFINE t == Touch(s, address)
           u == Store(s, data, address)
<1>3. /\ DOMAIN t = Fields /\ t.regs = s.regs /\ t.stack = s.stack /\ t.next = s.next
      /\ t.flags = s.flags /\ t.objects = s.objects
  BY <1>2 DEF Touch, Fields
<1>4. /\ DOMAIN u = Fields /\ u.regs = t.regs /\ u.stack = t.stack /\ u.next = t.next
      /\ u.flags = t.flags /\ u.objects = t.objects
  <2> HIDE DEF t
  <2>1. u = [t EXCEPT !.mem = NewStore(t.mem, data, address)]
    BY DEF Store, t
  <2> HIDE DEF u
  <2> QED BY <2>1, <1>3 DEF Fields
<1> HIDE DEF t, u
<1>5. Fine(base, n, t)
  BY <1>1, <1>3
<1>6. Fine(base, n, u)
  BY <1>1, <1>3, <1>4
<1> QED BY <1>5, <1>6 DEF t, u

------------------------------------------------------------------------------
(* Jumps.                                                                  *)

\* The return address that was pushed last is still in LR
Calling(s) ==
  s.stack # <<>> /\ s.regs[LR] = Const(s.stack[Len(s.stack)]) /\ EvenAddress(s.stack[Len(s.stack)])

\* The even address at or below a number is an even address, and itself if the number is.
LEMMA EvenFine == \A a \in Int : EvenAddress(Even(a))
BY DEF Even, EvenAddress

\* Going on elsewhere, with a call stack that is no longer.
LEMMA GoOnFine ==
  ASSUME NEW base, NEW n \in Nat, NEW s, NEW t, Fine(base, n, s),
         DOMAIN t = Fields, DOMAIN t.regs = Registers, EvenAddress(t.next),
         t.stack \in Seq(Int), Len(t.stack) <= Len(s.stack),
         t.flags = s.flags, t.objects = s.objects
  PROVE  Fine(base, n, t)
<1>1. Len(s.stack) \in Nat /\ Len(t.stack) \in Nat /\ Len(s.stack) <= n
  BY LenProperties DEF Fine, Machine
<1>2. Machine(n, t)
  BY <1>1 DEF Machine
<1>3. Objects(base, t)
  BY SameObjects DEF Fine
<1> QED BY <1>2, <1>3 DEF Fine

\* After a call that is not followed, the path goes on where LR says, and the return address
\* that the call pushed is gone.
LEMMA ReturnFromCallFine ==
  ASSUME NEW base, NEW n \in Nat, NEW s, Fine(base, n, s)
  PROVE  /\ Fine(base, n, ReturnFromCall(s))
         /\ Calling(s) /\ ReturnFromCall(s).status = "OK" => Len(ReturnFromCall(s).stack) < Len(s.stack)
         /\ Len(ReturnFromCall(s).stack) <= Len(s.stack)
<1> DEFINE lr == s.regs[LR]
           t == ReturnFromCall(s)
<1>1. /\ DOMAIN s = Fields /\ DOMAIN s.regs = Registers /\ s.stack \in Seq(Int)
      /\ Len(s.stack) \in Nat
  BY LenProperties DEF Fine, Machine
<1>2. CASE IsConst(lr)
  <2>1. lr.v \in Int
    BY <1>2 DEF IsConst, Words
  <2> DEFINE stack == PopCallStack(s.stack, Even(lr.v))
  <2>2. EvenAddress(Even(lr.v))
    BY <2>1, EvenFine
  <2>3. t = [s EXCEPT !.next = Even(lr.v), !.stack = stack]
    <3>1. lr # Register(LR)
      BY <1>2 DEF IsConst, Register
    <3> QED BY <1>2, <3>1 DEF ReturnFromCall
  <2>4. /\ stack \in Seq(Int) /\ Len(stack) <= Len(s.stack)
        /\ (\E i \in 1 .. Len(s.stack) : s.stack[i] = Even(lr.v)) => Len(stack) < Len(s.stack)
    BY <1>1, PopFine
  <2> HIDE DEF lr, t, stack
  <2>5. /\ DOMAIN t = Fields /\ t.regs = s.regs /\ t.next = Even(lr.v) /\ t.stack = stack
        /\ t.flags = s.flags /\ t.objects = s.objects
    BY <2>3, <1>1 DEF Fields
  <2>6. Fine(base, n, t)
    BY <2>2, <2>4, <2>5, <1>1, GoOnFine
  <2>7. ASSUME Calling(s) PROVE Len(t.stack) < Len(s.stack)
    <3>1. /\ s.stack # <<>> /\ lr = Const(s.stack[Len(s.stack)])
          /\ Even(s.stack[Len(s.stack)]) = s.stack[Len(s.stack)]
      BY <2>7 DEF Calling, lr, EvenAddress
    <3>2. lr.v = s.stack[Len(s.stack)]
      BY <3>1 DEF Const
    <3>3. Len(s.stack) \in 1 .. Len(s.stack)
      BY <1>1, <3>1, EmptySeq
    <3> QED BY <3>1, <3>2, <3>3, <2>4, <2>5
  <2> QED BY <2>4, <2>5, <2>6, <2>7 DEF t
<1>3. CASE ~IsConst(lr)
  <2>1. PICK status \in {"DONE", "INTERNAL_ERROR"} : t = Stop(s, status)
    BY <1>3 DEF ReturnFromCall
  <2>2. Fine(base, n, t) /\ t.status # "OK"
    BY <2>1, StopFine
  <2>3. t.stack = s.stack
    <3> HIDE DEF t
    <3> QED BY <2>1, <1>1 DEF Stop, Fields
  <2> QED BY <1>1, <2>2, <2>3
<1> QED BY <1>2, <1>3

\* A jump leaves fewer than MaxCallDepth calls if it goes on, or fewer than there were, the one
\* it is part of included.
LEMMA JumpToFine ==
  ASSUME NEW base, NEW n \in Nat, NEW s, NEW target, Fine(base, n, s), EvenAddress(target)
  PROVE  /\ Fine(base, n, JumpTo(s, target))
         /\ Calling(s) /\ JumpTo(s, target).status = "OK"
              => \/ Len(JumpTo(s, target).stack) < MaxCallDepth
                 \/ Len(JumpTo(s, target).stack) < Len(s.stack)
<1> DEFINE p == [s EXCEPT !.stack = PopCallStack(s.stack, target)]
           call == NewCall(target, s.regs[0])
           q == [p EXCEPT !.call = call, !.regs[0] = call]
           t == JumpTo(s, target)
<1>1. /\ DOMAIN s = Fields /\ DOMAIN s.regs = Registers /\ s.stack \in Seq(Int)
      /\ Len(s.stack) \in Nat /\ EvenAddress(s.next)
  BY LenProperties DEF Fine, Machine
<1>2. t = IF target \in Segment /\ Len(p.stack) < MaxCallDepth THEN [p EXCEPT !.next = target]
          ELSE IF target \in NoReturn THEN Stop(p, "DONE") ELSE ReturnFromCall(q)
  BY DEF JumpTo
<1> DEFINE stack == PopCallStack(s.stack, target)
<1>3. stack \in Seq(Int) /\ Len(stack) <= Len(s.stack) /\ (stack = s.stack \/ Len(stack) < Len(s.stack))
  BY <1>1, PopFine
<1> HIDE DEF t, call, stack
<1>4. /\ DOMAIN p = Fields /\ p.regs = s.regs /\ p.next = s.next /\ p.stack = stack
      /\ p.flags = s.flags /\ p.objects = s.objects
  BY <1>1 DEF Fields, stack
<1> HIDE DEF p
<1>5. Fine(base, n, p)
  BY <1>1, <1>3, <1>4, GoOnFine
<1>6. CASE target \in Segment /\ Len(p.stack) < MaxCallDepth
  <2>1. t = [p EXCEPT !.next = target]
    BY <1>2, <1>6
  <2>2. /\ DOMAIN t = Fields /\ t.regs = p.regs /\ t.next = target /\ t.stack = p.stack
        /\ t.flags = p.flags /\ t.objects = p.objects
    BY <2>1, <1>4 DEF Fields
  <2>3. Fine(base, n, t)
    BY <2>2, <1>1, <1>3, <1>4, <1>5, GoOnFine
  <2> QED BY <2>2, <2>3, <1>6 DEF t
<1>7. CASE ~(target \in Segment /\ Len(p.stack) < MaxCallDepth) /\ target \in NoReturn
  BY <1>2, <1>5, <1>7, StopFine DEF t
<1>8. CASE ~(target \in Segment /\ Len(p.stack) < MaxCallDepth) /\ target \notin NoReturn
  <2>1. t = ReturnFromCall(q)
    BY <1>2, <1>8
  <2>2. 0 \in Registers /\ LR \in Registers /\ LR # 0
    BY ArmAssumption DEF LR
  <2>3. q = [p EXCEPT !.call = call, !.regs = [p.regs EXCEPT ![0] = call]]
    BY <1>4 DEF Fields
  <2>4. DOMAIN [p.regs EXCEPT ![0] = call] = Registers /\ [p.regs EXCEPT ![0] = call][LR] = p.regs[LR]
    BY <2>2, <1>1, <1>4
  <2> HIDE DEF q
  <2>5. /\ DOMAIN q = Fields /\ DOMAIN q.regs = Registers /\ q.regs[LR] = p.regs[LR]
        /\ q.next = p.next /\ q.stack = p.stack /\ q.flags = p.flags /\ q.objects = p.objects
    BY <2>3, <2>4, <1>4 DEF Fields
  <2>6. Fine(base, n, q)
    BY <2>5, <1>1, <1>3, <1>4, <1>5, GoOnFine
  <2>7. /\ Fine(base, n, t) /\ Len(t.stack) <= Len(q.stack)
        /\ Calling(q) /\ t.status = "OK" => Len(t.stack) < Len(q.stack)
    BY <2>1, <2>6, ReturnFromCallFine
  <2>8. Len(t.stack) \in Nat /\ Len(stack) \in Nat
    BY <2>7, <1>3, LenProperties DEF Fine, Machine
  <2>9. ASSUME Calling(s), t.status = "OK" PROVE Len(t.stack) < Len(s.stack)
    <3>1. CASE stack = s.stack
      <4>1. Calling(q)
        BY <3>1, <2>5, <2>9, <1>4 DEF Calling
      <4> QED BY <4>1, <2>5, <2>7, <2>9, <3>1, <1>4
    <3>2. CASE Len(stack) < Len(s.stack)
      BY <3>2, <2>5, <2>7, <2>8, <1>1, <1>4
    <3> QED BY <3>1, <3>2, <1>3
  <2> QED BY <2>7, <2>9 DEF t
<1> QED BY <1>6, <1>7, <1>8

\* So does a jump to a node, whatever the node is.
LEMMA JumpToNodeFine ==
  ASSUME NEW base, NEW n \in Nat, NEW s, NEW node, Fine(base, n, s)
  PROVE  /\ Fine(base, n, JumpToNode(s, node))
         /\ Calling(s) /\ JumpToNode(s, node).status = "OK"
              => \/ Len(JumpToNode(s, node).stack) < MaxCallDepth
                 \/ Len(JumpToNode(s, node).stack) < Len(s.stack)
<1> DEFINE t == JumpToNode(s, node)
<1>1. CASE IsConst(node)
  <2>1. node.v \in Int
    BY <1>1 DEF IsConst, Words
  <2>2. t = JumpTo(s, Even(node.v)) /\ EvenAddress(Even(node.v))
    <3>1. node # Register(LR) /\ node.op # "LOAD"
      BY <1>1 DEF IsConst, Register
    <3> QED BY <1>1, <2>1, <3>1, EvenFine DEF JumpToNode
  <2> QED BY <2>2, JumpToFine
<1>2. CASE ~IsConst(node) /\ node.op = "LOAD" /\ IsConst(node.in[1])
  <2>1. t = JumpTo(s, Even(Data[node.in[1].v]))
    <3>1. node # Register(LR)
      BY <1>2 DEF Register
    <3> QED BY <1>2, <3>1 DEF JumpToNode
  <2>2. Data[node.in[1].v] \in Int
    BY <1>2, ArmAssumption DEF IsConst, Words
  <2>3. EvenAddress(Even(Data[node.in[1].v]))
    BY <2>2, EvenFine
  <2> QED BY <2>1, <2>3, JumpToFine
<1>3. CASE ~IsConst(node) /\ ~(node.op = "LOAD" /\ IsConst(node.in[1]))
  <2>1. PICK status \in {"DONE", "INTERNAL_ERROR"} : t = Stop(s, status)
    BY <1>3 DEF JumpToNode
  <2> QED BY <2>1, StopFine
<1> QED BY <1>1, <1>2, <1>3

\* A register is written, or the path goes on elsewhere.
LEMMA SetRegisterFine ==
  ASSUME NEW base, NEW n \in Nat, NEW s, NEW r, NEW node, Fine(base, n, s)
  PROVE  Fine(base, n, SetRegister(s, r, node))
<1>1. CASE r = PC
  BY <1>1, JumpToNodeFine DEF SetRegister
<1>2. CASE r # PC
  <2> DEFINE regs == [s.regs EXCEPT ![r] = node]
             t == SetRegister(s, r, node)
  <2>1. DOMAIN s = Fields /\ DOMAIN s.regs = Registers /\ s.stack \in Seq(Int) /\ EvenAddress(s.next)
    BY DEF Fine, Machine
  <2>2. t = [s EXCEPT !.regs = regs]
    BY <1>2, <2>1 DEF SetRegister, Fields
  <2>3. DOMAIN regs = Registers
    BY <2>1
  <2> HIDE DEF regs, t
  <2>4. /\ DOMAIN t = Fields /\ t.regs = regs /\ t.next = s.next /\ t.stack = s.stack
        /\ t.flags = s.flags /\ t.objects = s.objects
    BY <2>1, <2>2 DEF Fields
  <2>5. Len(t.stack) <= Len(s.stack)
    BY <2>1, <2>4, LenProperties
  <2> QED BY <2>1, <2>3, <2>4, <2>5, GoOnFine DEF t
<1> QED BY <1>1, <1>2

------------------------------------------------------------------------------
(* Operands and bodies.                                                    *)

\* An operand, supported or not, sets flags of one operation at most.
LEMMA OperandFine ==
  ASSUME NEW base, NEW n \in Nat, NEW s, NEW o, NEW update, Fine(base, n, s)
  PROVE  Fine(base, n, GetOperand(s, o, update).s)
<1> DEFINE t == GetOperand(s, o, update).s
<1>1. ASSUME NEW b, NEW amount, NEW type
      PROVE  \E n1, n2 : GetOperandShift(s, b, amount, type, update).s
                            = SetFlagIf(update, s, "SHIFT", n1, n2)
  <2>1. CASE type = "RRX"
    <3>1. GetOperandShift(s, b, amount, type, update).s = SetFlagIf(update, s, "SHIFT", b, MinusOne)
      BY <2>1 DEF GetOperandShift, RotateExtended, Got
    <3> QED BY <3>1
  <2>2. CASE type # "RRX"
    <3>1. \E n2 : GetOperandShift(s, b, amount, type, update).s = SetFlagIf(update, s, "SHIFT", b, n2)
      BY <2>2 DEF GetOperandShift, Got
    <3> QED BY <3>1
  <2> QED BY <2>1, <2>2
<1>2. "SHIFT" \in Operations /\ "ADD" \in Operations
  BY DEF Operations
<1>3. CASE o.t = "reg"
  <2>1. \E n1 : t = SetFlagIf(update, s, "ADD", n1, Const(0))
    BY <1>3 DEF GetOperand, Got
  <2> QED BY <2>1, <1>2, SetFlagIfFine
<1>4. CASE o.t = "displ" \/ (o.t = "phrase" /\ o.v = 0)
  <2>1. \E n1, n2 : t = SetFlagIf(update, s, "ADD", n1, n2)
    BY <1>4 DEF GetOperand, Got
  <2> QED BY <2>1, <1>2, SetFlagIfFine
<1>5. CASE o.t = "shift" \/ (o.t = "phrase" /\ o.v # 0)
  <2>1. \E b, amount : t = GetOperandShift(s, b, amount, o.type, update).s
    BY <1>5 DEF GetOperand, Got
  <2>2. \E n1, n2 : t = SetFlagIf(update, s, "SHIFT", n1, n2)
    BY <2>1, <1>1
  <2> QED BY <2>2, <1>2, SetFlagIfFine
<1>6. CASE o.t \notin {"reg", "displ", "phrase", "shift"}
  <2>1. t = s
    BY <1>6 DEF GetOperand, Got
  <2> QED BY <2>1
<1> QED BY <1>3, <1>4, <1>5, <1>6

\* A write back to the base register is a write to a register.
LEMMA WriteBackFine ==
  ASSUME NEW base, NEW n \in Nat, NEW s, NEW ins, NEW access, Fine(base, n, s)
  PROVE  Fine(base, n, WriteBack(s, ins, access))
BY SetRegisterFine DEF WriteBack

\* So is a result, and the flags are set after it.
LEMMA SetResultFine ==
  ASSUME NEW base, NEW n \in Nat, NEW s, NEW ins, NEW updates, NEW result, NEW op \in Operations,
         NEW n1, NEW n2, Fine(base, n, s)
  PROVE  Fine(base, n, SetResult(s, ins, updates, result, op, n1, n2))
<1>1. PICK w : w = IF ins.i \in {"cmp", "cmn", "tst", "teq"} THEN s ELSE SetRegister(s, Rd(ins), result)
  OBVIOUS
<1>2. Fine(base, n, w)
  BY <1>1, SetRegisterFine
<1>3. SetResult(s, ins, updates, result, op, n1, n2)
        = IF w.status = "OK" THEN SetFlagIf(updates, w, op, n1, n2) ELSE w
  BY <1>1 DEF SetResult, Then
<1> QED BY <1>2, <1>3, SetFlagIfFine

\* ldr and str.
LEMMA LoadStoreFine ==
  ASSUME NEW base, NEW n \in Nat, NEW s, NEW ins, Fine(base, n, s)
  PROVE  Fine(base, n, LoadStoreBody(s, ins))
<1> DEFINE a == Access(s, ins)
           w == WriteBack(Touch(s, a.address), ins, a)
<1>1. LoadStoreBody(s, ins)
        = IF ins.i = "ldr"
          THEN IF w.status = "OK" THEN SetRegister(w, Rd(ins), Load(s, a.address)) ELSE w
          ELSE WriteBack(StoreAt(s, GetRegister(s, Rd(ins)), a.address), ins, a)
  BY DEF LoadStoreBody, Then
<1>2. Fine(base, n, w)
  BY StoreFine, WriteBackFine
<1>3. Fine(base, n, StoreAt(s, GetRegister(s, Rd(ins)), a.address))
  BY StoreFine DEF StoreAt
<1> HIDE DEF a, w
<1> QED BY <1>1, <1>2, <1>3, SetRegisterFine, WriteBackFine

\* ldrd and strd.
LEMMA LoadStoreDoubleFine ==
  ASSUME NEW base, NEW n \in Nat, NEW s, NEW ins, Fine(base, n, s)
  PROVE  Fine(base, n, LoadStoreDoubleBody(s, ins))
<1> DEFINE low == GetOperand(s, ins.ops[3], FALSE).n
           high == New("ADD", low, Const(4))
           w == SetRegister(Touch(Touch(s, low), high), Rd(ins), Load(s, low))
<1>1. LoadStoreDoubleBody(s, ins)
        = IF ins.i = "ldrd"
          THEN IF w.status = "OK" THEN SetRegister(w, ins.ops[2].r, Load(s, high)) ELSE w
          ELSE Store(Store(s, GetRegister(s, Rd(ins)), low), GetRegister(s, ins.ops[2].r), high)
  BY DEF LoadStoreDoubleBody, Then
<1>2. Fine(base, n, Touch(Touch(s, low), high))
  BY StoreFine
<1>3. Fine(base, n, w)
  BY <1>2, SetRegisterFine
<1>4. Fine(base, n, Store(Store(s, GetRegister(s, Rd(ins)), low), GetRegister(s, ins.ops[2].r), high))
  BY StoreFine
<1> HIDE DEF low, high, w
<1> QED BY <1>1, <1>3, <1>4, SetRegisterFine

\* mul, and the sums: add, adc, sub, sbc, rsb, cmp, cmn.
LEMMA ArithmeticFine ==
  ASSUME NEW base, NEW n \in Nat, NEW s, NEW ins, Fine(base, n, s)
  PROVE  Fine(base, n, MultiplyBody(s, ins)) /\ Fine(base, n, ArithmeticBody(s, ins))
<1>1. "MULT" \in Operations /\ "ADD" \in Operations
  BY DEF Operations
<1>2. \E n1, n2 : MultiplyBody(s, ins) = SetResult(s, ins, ins.s, New("MULT", n1, n2), "MULT", n1, n2)
  BY DEF MultiplyBody
<1>3. \/ ArithmeticBody(s, ins) = Stop(s, "INTERNAL_ERROR")
      \/ \E updates, n1, n2 :
           ArithmeticBody(s, ins) = SetResult(s, ins, updates, New("ADD", n1, n2), "ADD", n1, n2)
  BY DEF ArithmeticBody
<1> QED BY <1>1, <1>2, <1>3, SetResultFine, StopFine

\* mov, mvn and neg; the bit operations; the shifts; and the instructions on fields.
LEMMA BitsFine ==
  ASSUME NEW base, NEW n \in Nat, NEW s, NEW ins, Fine(base, n, s)
  PROVE  /\ Fine(base, n, MoveBody(s, ins)) /\ Fine(base, n, BitwiseBody(s, ins))
         /\ Fine(base, n, ShiftBody(s, ins)) /\ Fine(base, n, FieldBody(s, ins))
<1>1. \E node : MoveBody(s, ins) = SetRegister(GetOperand(s, ins.ops[2], ins.s).s, Rd(ins), node)
  BY DEF MoveBody
<1>3. \E n1, n2, node :
        ShiftBody(s, ins)
          = SetRegister(SetFlagIf(ins.s, GetOperand(s, Right(ins), ins.s).s, "SHIFT", n1, n2),
                        Rd(ins), node)
  BY DEF ShiftBody
<1>4. \E node : FieldBody(s, ins) = SetRegister(s, Rd(ins), node)
  BY DEF FieldBody
<1>5. "SHIFT" \in Operations
  BY DEF Operations
<1>6. Fine(base, n, MoveBody(s, ins))
  BY <1>1, OperandFine, SetRegisterFine
<1>7. Fine(base, n, BitwiseBody(s, ins))
  <2> DEFINE tests == ins.i \in {"tst", "teq"}
             g == GetOperand(s, Right(ins), ins.s \/ tests)
             n1 == GetRegister(g.s, Left(ins).r)
             n2 == IF ins.i \in {"bic", "orn"} THEN Complement(g.n) ELSE g.n
  <2>1. PICK op \in {"AND", "OR", "XOR"} :
          op = CASE ins.i \in {"tst", "and", "bic"} -> "AND"
                 [] ins.i \in {"orr", "orn"} -> "OR"
                 [] OTHER -> "XOR"
    OBVIOUS
  <2>2. BitwiseBody(s, ins) = SetResult(g.s, ins, ins.s \/ tests, New(op, n1, n2), op, n1, n2)
    BY <2>1 DEF BitwiseBody
  <2>3. Fine(base, n, g.s)
    BY OperandFine
  <2>4. op \in Operations
    BY <2>1 DEF Operations
  <2> HIDE DEF n1, n2, g
  <2>5. Fine(base, n, SetResult(g.s, ins, ins.s \/ tests, New(op, n1, n2), op, n1, n2))
    BY <2>3, <2>4, SetResultFine
  <2> QED BY <2>2, <2>5
<1>8. Fine(base, n, ShiftBody(s, ins))
  BY <1>3, <1>5, OperandFine, SetFlagIfFine, SetRegisterFine
<1> QED BY <1>4, <1>6, <1>7, <1>8, SetRegisterFine

\* stm and ldm.
LEMMA MultipleFine ==
  ASSUME NEW base, NEW n \in Nat, NEW s, NEW ins, Fine(base, n, s)
  PROVE  Fine(base, n, MultipleBody(s, ins))
<1> DEFINE list == ins.ops[2].list
           load(w, value) ==
             [w EXCEPT !.regs = [r \in Registers |-> IF r \in list THEN value[r] ELSE w.regs[r]]]
<1>1. ASSUME NEW w, Fine(base, n, w), NEW value PROVE Fine(base, n, load(w, value))
  <2> DEFINE t == load(w, value)
             regs == [r \in Registers |-> IF r \in list THEN value[r] ELSE w.regs[r]]
  <2>1. DOMAIN w = Fields /\ w.stack \in Seq(Int) /\ EvenAddress(w.next)
    BY <1>1 DEF Fine, Machine
  <2>2. t = [w EXCEPT !.regs = regs] /\ DOMAIN regs = Registers
    OBVIOUS
  <2> HIDE DEF regs, t
  <2>3. /\ DOMAIN t = Fields /\ t.regs = regs /\ t.next = w.next /\ t.stack = w.stack
        /\ t.flags = w.flags /\ t.objects = w.objects
    BY <2>1, <2>2 DEF Fields
  <2>4. Len(t.stack) <= Len(w.stack)
    BY <2>1, <2>3, LenProperties
  <2> QED BY <1>1, <2>1, <2>2, <2>3, <2>4, GoOnFine DEF t
<1>2. ASSUME NEW addresses, NEW mem
      PROVE  /\ Fine(base, n, [s EXCEPT !.addresses = addresses])
             /\ Fine(base, n, [[s EXCEPT !.addresses = addresses] EXCEPT !.mem = mem])
  <2>1. DOMAIN s = Fields /\ s.stack \in Seq(Int) /\ EvenAddress(s.next) /\ DOMAIN s.regs = Registers
    BY DEF Fine, Machine
  <2>2. Len(s.stack) <= Len(s.stack)
    BY <2>1, LenProperties
  <2> DEFINE t == [s EXCEPT !.addresses = addresses]
             u == [t EXCEPT !.mem = mem]
  <2>3. /\ DOMAIN t = Fields /\ t.regs = s.regs /\ t.next = s.next /\ t.stack = s.stack
        /\ t.flags = s.flags /\ t.objects = s.objects
    BY <2>1 DEF Fields
  <2>4. Fine(base, n, t)
    <3> HIDE DEF t
    <3> QED BY <2>1, <2>2, <2>3, GoOnFine
  <2>5. /\ DOMAIN u = Fields /\ u.regs = s.regs /\ u.next = s.next /\ u.stack = s.stack
        /\ u.flags = s.flags /\ u.objects = s.objects
    <3> HIDE DEF t
    <3> QED BY <2>3 DEF Fields
  <2>6. Fine(base, n, u)
    <3> HIDE DEF u
    <3> QED BY <2>1, <2>2, <2>5, GoOnFine
  <2> QED BY <2>4, <2>6
<1> HIDE DEF load
<1>3. ASSUME NEW w, NEW jumps, NEW node, Fine(base, n, w)
      PROVE  Fine(base, n, IF jumps THEN SetRegister(w, PC, node) ELSE w)
  BY <1>3, SetRegisterFine
<1> DEFINE order == SelectSeq(IF ins.neg THEN [k \in 1 .. 16 |-> 16 - k] ELSE [k \in 1 .. 16 |-> k - 1],
                              LAMBDA r : r \in list)
           moved(k) == New("ADD", GetRegister(s, Rd(ins)), Const(Wrap(IF ins.neg THEN 0 - 4 * k ELSE 4 * k)))
           address(k) == moved(IF ins.post THEN k - 1 ELSE k)
           touched == [s EXCEPT !.addresses = s.addresses \cup {address(k) : k \in DOMAIN order}]
           mem == FoldLeft(LAMBDA m, k : NewStore(m, GetRegister(s, order[k]), address(k)), s.mem,
                           [k \in DOMAIN order |-> k])
           stored == [touched EXCEPT !.mem = mem]
           value == [r \in list |-> Load(s, address(CHOOSE k \in DOMAIN order : order[k] = r))]
           jump(w) == IF PC \in list THEN SetRegister(w, PC, value[PC]) ELSE w
           loaded == IF ins.neg
                     THEN IF jump(touched).status = "OK" THEN load(jump(touched), value) ELSE jump(touched)
                     ELSE jump(load(touched, value))
           w == IF ins.i = "stm" THEN stored ELSE loaded
<1>4. MultipleBody(s, ins) = IF w.status = "OK" THEN IF ins.wback THEN SetRegister(w, Rd(ins), moved(Len(order)))
                                                     ELSE w
                             ELSE w
  BY DEF MultipleBody, Then, load
<1>5. Fine(base, n, touched) /\ Fine(base, n, stored)
  <2> HIDE DEF order, moved, address, mem
  <2> QED BY <1>2
<1>6. Fine(base, n, loaded)
  <2> HIDE DEF touched, value
  <2>1. Fine(base, n, jump(touched))
    BY <1>3, <1>5
  <2>2. Fine(base, n, load(touched, value))
    BY <1>1, <1>5
  <2>3. Fine(base, n, jump(load(touched, value)))
    BY <1>3, <2>2
  <2>4. Fine(base, n, load(jump(touched), value))
    BY <1>1, <2>1
  <2> HIDE DEF jump
  <2> QED BY <2>1, <2>2, <2>3, <2>4
<1> HIDE DEF moved, order, loaded, stored
<1> QED BY <1>4, <1>5, <1>6, SetRegisterFine

\* Where an instruction may lead that is fetched in base, with n calls on the stack: there may
\* be one more, if that is not too many.
Follows(base, n, t) ==
  /\ Fine(base, n + 1, t)
  /\ t.status = "OK" => Len(t.stack) <= n \/ Len(t.stack) < MaxCallDepth

\* A processor with no more calls than before follows.
LEMMA FineFollows ==
  ASSUME NEW base, NEW n \in Nat, NEW t, Fine(base, n, t)
  PROVE  Follows(base, n, t)
<1>1. Len(t.stack) \in Nat /\ Len(t.stack) <= n
  BY LenProperties DEF Fine, Machine
<1>2. Len(t.stack) <= n + 1
  BY <1>1
<1> QED BY <1>1, <1>2 DEF Fine, Machine, Follows

\* b, bx, bl and ret.
LEMMA BranchFollows ==
  ASSUME NEW base, NEW s, NEW ins, Fine(base, Len(s.stack), s)
  PROVE  Follows(base, Len(s.stack), BranchBody(s, ins))
<1> DEFINE n == Len(s.stack)
           node == IF ins.i = "ret" THEN GetRegister(s, LR) ELSE GetOperand(s, ins.ops[1], FALSE).n
           t == BranchBody(s, ins)
<1>1. /\ DOMAIN s = Fields /\ DOMAIN s.regs = Registers /\ s.stack \in Seq(Int) /\ EvenAddress(s.next)
      /\ n \in Nat
  BY LenProperties DEF Fine, Machine
<1>2. CASE ins.i # "bl"
  <2>1. t = JumpToNode(s, node)
    BY <1>2 DEF BranchBody
  <2>2. Fine(base, n, JumpToNode(s, node))
    BY <1>1, JumpToNodeFine
  <2> QED BY <1>1, <2>1, <2>2, FineFollows
<1>3. CASE ins.i = "bl"
  <2> DEFINE regs == [s.regs EXCEPT ![LR] = Const(s.next)]
             stack == Append(s.stack, s.next)
             u == [s EXCEPT !.regs[LR] = Const(s.next), !.stack = stack]
  <2>1. t = JumpToNode(u, node)
    BY <1>3 DEF BranchBody
  <2>2. s.next \in Int
    BY <1>1 DEF EvenAddress
  <2>3. stack \in Seq(Int) /\ Len(stack) = n + 1 /\ stack[Len(stack)] = s.next
    BY <1>1, <2>2, AppendProperties
  <2>4. LR \in Registers
    BY ArmAssumption
  <2>5. DOMAIN regs = Registers /\ regs[LR] = Const(s.next)
    BY <1>1, <2>4
  <2>6. u = [s EXCEPT !.regs = regs, !.stack = stack]
    BY <1>1 DEF Fields
  <2> HIDE DEF regs, stack, u, node, t
  <2>7. /\ DOMAIN u = Fields /\ u.regs = regs /\ u.next = s.next /\ u.stack = stack
        /\ u.flags = s.flags /\ u.objects = s.objects
    BY <1>1, <2>6 DEF Fields
  <2>8. Machine(n + 1, u)
    BY <1>1, <2>3, <2>5, <2>7 DEF Machine
  <2>9. Fine(base, n + 1, u)
    BY <2>7, <2>8, SameObjects DEF Fine
  <2>10. Calling(u)
    <3>1. u.stack # <<>>
      BY <1>1, <2>3, <2>7
    <3> QED BY <1>1, <2>3, <2>5, <2>7, <3>1 DEF Calling
  <2>11. n + 1 \in Nat
    BY <1>1
  <2>12. /\ Fine(base, n + 1, t)
         /\ t.status = "OK" => Len(t.stack) < MaxCallDepth \/ Len(t.stack) < n + 1
    BY <2>1, <2>3, <2>7, <2>9, <2>10, <2>11, JumpToNodeFine
  <2>13. Len(t.stack) \in Nat
    BY <2>12, LenProperties DEF Fine, Machine
  <2> QED BY <1>1, <2>12, <2>13 DEF Follows, t
<1> QED BY <1>2, <1>3

------------------------------------------------------------------------------
(* The invariant.  That an object is one operation, which the flags have   *)
(* that it set, is what makes FlagsShared and ConditionDefined inductive;  *)
(* that LR holds an even address after a call makes CallStackBounded so.   *)

IInv ==
  /\ DOMAIN cpu = Fields /\ DOMAIN cpu.regs = Registers
  /\ EvenAddress(cpu.pc) /\ EvenAddress(cpu.next)
  /\ cpu.stack \in Seq(Int)
  /\ CallStackBounded
  /\ cpu.objects \in Nat /\ DOMAIN cpu.flags = Flags
  /\ \A x \in Flags : cpu.flags[x] = NoFlag \/ Made(x, cpu.flags[x], 0, cpu.objects)
  /\ \A x, y \in Flags : cpu.flags[x].id = cpu.flags[y].id => cpu.flags[x] = cpu.flags[y]
  /\ \A x \in Flags : origin[x].call \in 0 .. cpu.objects
  /\ FlagsShared

\* It holds initially.
LEMMA InitIInv == Init => IInv
<1> SUFFICES ASSUME Init PROVE IInv
  OBVIOUS
<1>1. /\ cpu = [regs |-> [r \in Registers |-> Register(r)], stack |-> <<>>,
                flags |-> [x \in Flags |-> NoFlag], mem |-> [a \in {} |-> NULL],
                pc |-> 0, next |-> 0, status |-> "OK", call |-> NULL, objects |-> 0,
                addresses |-> {}]
      /\ origin = [x \in Flags |-> [call |-> 0, by |-> "none"]]
  BY DEF Init
<1>2. /\ DOMAIN cpu = Fields /\ DOMAIN cpu.regs = Registers /\ cpu.stack = <<>> /\ cpu.pc = 0
      /\ cpu.next = 0 /\ cpu.objects = 0 /\ cpu.flags = [x \in Flags |-> NoFlag]
  BY <1>1 DEF Fields
<1>3. EvenAddress(0)
  BY DEF EvenAddress, Even
<1>4. cpu.stack \in Seq(Int) /\ Len(cpu.stack) = 0
  BY <1>2
<1>5. CallStackBounded
  BY <1>4, ArmAssumption DEF CallStackBounded
<1>6. FlagsShared
  BY <1>2 DEF FlagsShared
<1> QED BY <1>1, <1>2, <1>3, <1>4, <1>5, <1>6 DEF IInv

\* What is fetched follows itself, with the calls and the flags there were.
LEMMA FetchedFine ==
  ASSUME IInv
  PROVE  /\ Fine(Fetched, Len(Fetched.stack), Fetched)
         /\ Fetched.stack = cpu.stack /\ Fetched.flags = cpu.flags /\ Fetched.objects = cpu.objects
         /\ Fetched.status = cpu.status
<1>1. /\ DOMAIN cpu = Fields /\ DOMAIN cpu.regs = Registers /\ EvenAddress(cpu.pc)
      /\ cpu.stack \in Seq(Int) /\ cpu.objects \in Nat /\ DOMAIN cpu.flags = Flags
      /\ \A x \in Flags : cpu.flags[x] = NoFlag \/ Made(x, cpu.flags[x], 0, cpu.objects)
  BY DEF IInv
<1> DEFINE s == Fetched
<1>2. /\ DOMAIN s = Fields /\ s.regs = cpu.regs /\ s.next = cpu.pc + Size /\ s.stack = cpu.stack
      /\ s.flags = cpu.flags /\ s.objects = cpu.objects /\ s.status = cpu.status
  BY <1>1 DEF Fetched, Fields
<1> HIDE DEF s
<1>3. EvenAddress(s.next)
  <2>1. \A a, k \in Int : 2 * (a \div 2) = a /\ (k % 2) = 0 => 2 * ((a + k) \div 2) = a + k
    OBVIOUS
  <2>2. Size \in Int /\ (Size % 2) = 0
    BY ArmAssumption
  <2>3. PICK a, k \in Int : a = cpu.pc /\ k = Size
    BY <1>1, <2>2 DEF EvenAddress
  <2>4. 2 * (a \div 2) = a /\ (k % 2) = 0
    BY <1>1, <2>2, <2>3 DEF EvenAddress, Even
  <2>5. s.next = a + k /\ a + k \in Int
    BY <1>2, <2>3
  <2> QED BY <2>1, <2>4, <2>5 DEF EvenAddress, Even
<1>4. Machine(Len(s.stack), s)
  BY <1>1, <1>2, <1>3, LenProperties DEF Machine
<1>5. \A x \in Flags : s.flags[x].id \in 0 .. s.objects
  BY <1>1, <1>2 DEF Made, NoFlag
<1>6. Objects(s, s)
  BY <1>1, <1>2, <1>5 DEF Objects
<1> QED BY <1>2, <1>4, <1>6 DEF Fine, s

\* The invariant holds after an instruction that leads to t, if each flag that changes is said
\* to be from the operation it has then.
LEMMA FinishedIInv ==
  ASSUME IInv, Running, NEW t, Follows(Fetched, Len(cpu.stack), t), cpu' = Finished(t),
         \A x \in Flags : origin'[x].call = IF cpu'.flags[x] # cpu.flags[x] THEN cpu'.flags[x].id
                                            ELSE origin[x].call
  PROVE  IInv'
<1>1. /\ cpu.stack \in Seq(Int) /\ cpu.objects \in Nat /\ cpu.status = "OK"
      /\ \A x \in Flags : cpu.flags[x] = NoFlag \/ Made(x, cpu.flags[x], 0, cpu.objects)
      /\ \A x, y \in Flags : cpu.flags[x].id = cpu.flags[y].id => cpu.flags[x] = cpu.flags[y]
      /\ \A x \in Flags : origin[x].call \in 0 .. cpu.objects
      /\ Len(cpu.stack) \in Nat
  BY LenProperties DEF IInv, Running
<1>2. /\ DOMAIN t = Fields /\ DOMAIN t.regs = Registers /\ EvenAddress(t.next)
      /\ t.stack \in Seq(Int) /\ Len(t.stack) \in Nat
      /\ t.status = "OK" => Len(t.stack) <= Len(cpu.stack) \/ Len(t.stack) < MaxCallDepth
  BY LenProperties DEF Follows, Fine, Machine
<1>3. /\ t.objects \in Nat /\ cpu.objects <= t.objects /\ DOMAIN t.flags = Flags
      /\ \A x \in Flags : \/ t.flags[x] = cpu.flags[x] /\ t.flags[x].id \in 0 .. cpu.objects
                          \/ Made(x, t.flags[x], cpu.objects, t.objects)
      /\ \A x, y \in Flags : t.flags[x].id = t.flags[y].id /\ t.flags[x].id > cpu.objects
                              => t.flags[x] = t.flags[y]
  BY FetchedFine DEF Follows, Fine, Objects
<1>4. /\ DOMAIN cpu' = Fields /\ cpu'.regs = t.regs /\ cpu'.pc = t.next /\ cpu'.next = t.next
      /\ cpu'.stack = t.stack /\ cpu'.flags = t.flags /\ cpu'.objects = t.objects
      /\ cpu'.status = t.status
  BY <1>2 DEF Finished, Fields
<1>5. CallStackBounded'
  <2>1. Len(cpu.stack) < (IF MaxCallDepth = 0 THEN 1 ELSE MaxCallDepth)
    BY <1>1 DEF IInv, CallStackBounded
  <2>2. MaxCallDepth \in Nat
    BY ArmAssumption
  <2> QED BY <1>1, <1>2, <1>4, <2>1, <2>2 DEF CallStackBounded
<1>6. \A x \in Flags : cpu'.flags[x] = NoFlag \/ Made(x, cpu'.flags[x], 0, cpu'.objects)
  BY <1>1, <1>3, <1>4 DEF Made
<1>7. \A x, y \in Flags : cpu'.flags[x].id = cpu'.flags[y].id => cpu'.flags[x] = cpu'.flags[y]
  BY <1>1, <1>3, <1>4 DEF Made
<1>8. \A x \in Flags : \/ /\ t.flags[x] = cpu.flags[x] /\ t.flags[x].id \in 0 .. cpu.objects
                          /\ origin'[x].call = origin[x].call
                       \/ /\ t.flags[x].id \in cpu.objects + 1 .. t.objects
                          /\ origin'[x].call = t.flags[x].id
  <2> TAKE x \in Flags
  <2>1. CASE t.flags[x] = cpu.flags[x] /\ t.flags[x].id \in 0 .. cpu.objects
    BY <2>1, <1>4
  <2>2. CASE Made(x, t.flags[x], cpu.objects, t.objects)
    <3>1. t.flags[x].id \in cpu.objects + 1 .. t.objects
      BY <2>2 DEF Made
    <3>2. cpu.flags[x].id \in 0 .. cpu.objects
      BY <1>1 DEF Made, NoFlag
    <3>3. t.flags[x] # cpu.flags[x]
      BY <3>1, <3>2, <1>1, <1>3
    <3> QED BY <3>1, <3>3, <1>4
  <2> QED BY <2>1, <2>2, <1>3
<1>9. \A x \in Flags : origin'[x].call \in 0 .. cpu'.objects
  BY <1>1, <1>3, <1>4, <1>8
<1>10. FlagsShared'
  <2> SUFFICES ASSUME NEW x \in Flags, NEW y \in Flags, t.flags[x] # NoFlag, t.flags[y] # NoFlag
               PROVE  t.flags[x].id = t.flags[y].id <=> origin'[x].call = origin'[y].call
    BY <1>4 DEF FlagsShared
  <2>1. cpu.flags[x] # NoFlag /\ cpu.flags[y] # NoFlag
          => (cpu.flags[x].id = cpu.flags[y].id <=> origin[x].call = origin[y].call)
    BY DEF IInv, FlagsShared
  <2>2. origin[x].call \in 0 .. cpu.objects /\ origin[y].call \in 0 .. cpu.objects
    BY <1>1
  <2> DEFINE old(z) == /\ t.flags[z] = cpu.flags[z] /\ t.flags[z].id \in 0 .. cpu.objects
                       /\ origin'[z].call = origin[z].call
             new(z) == /\ t.flags[z].id \in cpu.objects + 1 .. t.objects
                       /\ origin'[z].call = t.flags[z].id
  <2>3. (old(x) \/ new(x)) /\ (old(y) \/ new(y))
    BY <1>8
  <2>4. cpu.objects \in Nat
    BY <1>1
  <2>5. CASE old(x) /\ old(y)
    BY <2>1, <2>5
  <2>6. CASE old(x) /\ new(y)
    BY <2>2, <2>4, <2>6
  <2>7. CASE new(x) /\ old(y)
    BY <2>2, <2>4, <2>7
  <2>8. CASE new(x) /\ new(y)
    BY <2>8
  <2> QED BY <2>3, <2>5, <2>6, <2>7, <2>8
<1> QED BY <1>2, <1>3, <1>4, <1>5, <1>6, <1>7, <1>9, <1>10 DEF IInv

\* The flags of a fork share objects as those of the original do.
LEMMA MigrateIInv ==
  ASSUME IInv, Running, cpu' = Finished(MigrateFlags(Fetched)),
         \A x \in Flags : origin'[x].call = origin[x].call
  PROVE  IInv'
<1> DEFINE s == Fetched
           order == <<"C", "V", "Z", "N">>
           I(x) == {i \in 1 .. Len(order) : s.flags[order[i]] = s.flags[x]}
           first == [x \in Flags |-> SelectInSeq(order, LAMBDA y : s.flags[y] = s.flags[x])]
           t == MigrateFlags(s)
<1>1. /\ cpu.objects \in Nat /\ DOMAIN cpu.flags = Flags
      /\ \A x \in Flags : cpu.flags[x] = NoFlag \/ Made(x, cpu.flags[x], 0, cpu.objects)
      /\ \A x, y \in Flags : cpu.flags[x].id = cpu.flags[y].id => cpu.flags[x] = cpu.flags[y]
      /\ \A x \in Flags : origin[x].call \in 0 .. cpu.objects
  BY DEF IInv
<1>2. /\ DOMAIN s = Fields /\ DOMAIN s.regs = Registers /\ EvenAddress(s.next) /\ s.stack \in Seq(Int)
      /\ s.flags = cpu.flags /\ s.stack = cpu.stack /\ s.status = cpu.status /\ s.objects = cpu.objects
  BY FetchedFine DEF Fine, Machine
<1> HIDE DEF s
<1>3. \A x \in Flags : first[x] \in 1 .. 4 /\ s.flags[order[first[x]]] = s.flags[x]
  <2> TAKE x \in Flags
  <2>1. first[x] = IF I(x) # {} THEN Min(I(x)) ELSE 0
    BY DEF SelectInSeq
  <2>2. I(x) \in SUBSET (1 .. 4) /\ I(x) # {}
    BY DEF Flags
  <2>3. PICK m \in I(x) : \A y \in I(x) : m <= y
    <3> HIDE DEF I
    <3> QED BY <2>2, Least
  <2>4. Min(I(x)) \in I(x)
    <3> HIDE DEF I
    <3> QED BY <2>3 DEF Min
  <2> QED BY <2>1, <2>2, <2>4
<1>4. \A x, y \in Flags : s.flags[x] = s.flags[y] => first[x] = first[y]
  <2>1. \A x \in Flags : first[x] = IF I(x) # {} THEN Min(I(x)) ELSE 0
    BY DEF SelectInSeq
  <2>2. \A x, y \in Flags : s.flags[x] = s.flags[y] => I(x) = I(y)
    OBVIOUS
  <2> HIDE DEF I, first
  <2> QED BY <2>1, <2>2
<1> DEFINE flags == [x \in Flags |-> IF s.flags[x] = NoFlag THEN NoFlag
                                     ELSE [s.flags[x] EXCEPT !.id = s.objects + first[x]]]
<1>5. t = [s EXCEPT !.objects = s.objects + 4, !.flags = flags]
  BY DEF MigrateFlags
<1> HIDE DEF t, first, order
<1>6. /\ DOMAIN flags = Flags
      /\ \A x \in Flags : \/ s.flags[x] = NoFlag /\ flags[x] = NoFlag
                          \/ /\ s.flags[x] # NoFlag /\ Made(x, flags[x], 0, s.objects + 4)
                              /\ flags[x] = [s.flags[x] EXCEPT !.id = s.objects + first[x]]
                              /\ flags[x].id = s.objects + first[x]
  BY <1>1, <1>2, <1>3 DEF Made
<1> HIDE DEF flags
<1>7. /\ DOMAIN cpu' = Fields /\ cpu'.regs = s.regs /\ cpu'.pc = s.next /\ cpu'.next = s.next
      /\ cpu'.stack = s.stack /\ cpu'.flags = flags /\ cpu'.objects = s.objects + 4
      /\ cpu'.status = s.status
  BY <1>2, <1>5 DEF Finished, Fields, t, s
<1>8. \A x, y \in Flags : s.flags[x] # NoFlag /\ s.flags[y] # NoFlag
        => (flags[x].id = flags[y].id <=> s.flags[x].id = s.flags[y].id)
  <2> TAKE x, y \in Flags
  <2>1. first[x] \in Int /\ first[y] \in Int /\ s.objects \in Int
    BY <1>1, <1>2, <1>3
  <2>2. first[x] = first[y] <=> s.flags[x] = s.flags[y]
    BY <1>3, <1>4
  <2>3. s.flags[x] = s.flags[y] <=> s.flags[x].id = s.flags[y].id
    BY <1>1, <1>2
  <2> QED BY <1>6, <2>1, <2>2, <2>3
<1>9. \A x, y \in Flags : flags[x].id = flags[y].id => flags[x] = flags[y]
  <2> TAKE x, y \in Flags
  <2>1. CASE s.flags[x] = NoFlag \/ s.flags[y] = NoFlag
    BY <1>1, <1>2, <1>6, <2>1 DEF Made, NoFlag
  <2>2. CASE s.flags[x] # NoFlag /\ s.flags[y] # NoFlag
    <3> HAVE flags[x].id = flags[y].id
    <3>1. s.flags[x] = s.flags[y] /\ first[x] = first[y]
      BY <1>1, <1>2, <1>4, <1>8, <2>2
    <3> QED BY <3>1, <1>6, <2>2
  <2> QED BY <2>1, <2>2
<1>10. FlagsShared'
  <2> SUFFICES ASSUME NEW x \in Flags, NEW y \in Flags, flags[x] # NoFlag, flags[y] # NoFlag
               PROVE  flags[x].id = flags[y].id <=> origin'[x].call = origin'[y].call
    BY <1>7 DEF FlagsShared
  <2>1. s.flags[x] # NoFlag /\ s.flags[y] # NoFlag
    BY <1>6
  <2>2. s.flags[x].id = s.flags[y].id <=> origin[x].call = origin[y].call
    BY <2>1, <1>2 DEF IInv, FlagsShared
  <2> QED BY <1>8, <2>1, <2>2
<1>11. CallStackBounded'
  BY <1>2, <1>7 DEF CallStackBounded, IInv, Running
<1>12. \A x \in Flags : origin'[x].call \in 0 .. cpu'.objects
  BY <1>1, <1>2, <1>7
<1>13. cpu'.objects \in Nat
  BY <1>1, <1>2, <1>7
<1> QED BY <1>2, <1>6, <1>7, <1>9, <1>10, <1>11, <1>12, <1>13 DEF IInv

\* Every instruction keeps it, executed or skipped, on the original or in a fork.
LEMMA InstructionIInv ==
  ASSUME IInv, Running, NEW ins, NEW v, NEW after, Follows(Fetched, Len(cpu.stack), after),
         cpu' = Finished(CASE v.status # "OK" -> Stop(Fetched, v.status)
                           [] v.status = "OK" /\ v.executed -> after
                           [] v.status = "OK" /\ ~v.executed
                                -> IF v.forked THEN MigrateFlags(Fetched) ELSE Fetched),
         origin' = [x \in Flags |->
           IF v.executed /\ cpu'.flags[x] # cpu.flags[x]
           THEN [call |-> cpu'.flags[x].id, by |-> ins.i] ELSE origin[x]]
  PROVE  IInv'
<1> DEFINE n == Len(cpu.stack)
<1>1. /\ n \in Nat /\ Fine(Fetched, n, Fetched) /\ Fetched.flags = cpu.flags
  BY FetchedFine, LenProperties DEF IInv
<1>2. ASSUME NEW t, cpu' = Finished(t), DOMAIN t = Fields, t.flags = cpu.flags
      PROVE  \A x \in Flags : cpu'.flags[x] = cpu.flags[x] /\ origin'[x].call = origin[x].call
  <2>1. cpu'.flags = cpu.flags
    BY <1>2 DEF Finished, Fields
  <2> QED BY <2>1
<1>3. CASE v.status # "OK"
  <2> DEFINE t == Stop(Fetched, v.status)
  <2>1. cpu' = Finished(t)
    BY <1>3
  <2>2. DOMAIN t = Fields /\ t.flags = cpu.flags
    BY <1>1 DEF Stop, Fields, Fine, Machine
  <2>3. Fine(Fetched, n, t)
    BY <1>1, StopFine
  <2> HIDE DEF t
  <2>4. Follows(Fetched, n, t)
    BY <1>1, <2>3, FineFollows
  <2>5. \A x \in Flags : cpu'.flags[x] = cpu.flags[x] /\ origin'[x].call = origin[x].call
    BY <1>2, <2>1, <2>2
  <2> QED BY <2>1, <2>4, <2>5, FinishedIInv
<1>4. CASE v.status = "OK" /\ v.executed
  <2>1. cpu' = Finished(after)
    BY <1>4
  <2>2. \A x \in Flags : origin'[x].call = IF cpu'.flags[x] # cpu.flags[x] THEN cpu'.flags[x].id
                                           ELSE origin[x].call
    BY <1>4
  <2> QED BY <2>1, <2>2, FinishedIInv
<1>5. CASE v.status = "OK" /\ ~v.executed /\ v.forked
  <2>1. cpu' = Finished(MigrateFlags(Fetched))
    BY <1>5
  <2>2. \A x \in Flags : origin'[x].call = origin[x].call
    BY <1>5
  <2> QED BY <2>1, <2>2, MigrateIInv
<1>6. CASE v.status = "OK" /\ ~v.executed /\ ~v.forked
  <2>1. cpu' = Finished(Fetched)
    BY <1>6
  <2>2. DOMAIN Fetched = Fields
    BY <1>1 DEF Fine, Machine
  <2>3. \A x \in Flags : cpu'.flags[x] = cpu.flags[x] /\ origin'[x].call = origin[x].call
    BY <1>1, <1>2, <2>1, <2>2
  <2>4. Follows(Fetched, n, Fetched)
    BY <1>1, FineFollows
  <2> QED BY <2>1, <2>3, <2>4, FinishedIInv
<1> QED BY <1>3, <1>4, <1>5, <1>6

\* So does every step.
LEMMA NextIInv == IInv /\ [Next]_vars => IInv'
<1> SUFFICES ASSUME IInv, [Next]_vars PROVE IInv'
  OBVIOUS
<1>1. CASE UNCHANGED vars
  BY <1>1 DEF vars, IInv, CallStackBounded, FlagsShared
<1>2. CASE NotDecoded
  <2>1. DOMAIN cpu = Fields
    BY DEF IInv
  <2>2. /\ DOMAIN cpu' = Fields /\ cpu'.regs = cpu.regs /\ cpu'.pc = cpu.pc /\ cpu'.next = cpu.next
        /\ cpu'.stack = cpu.stack /\ cpu'.flags = cpu.flags /\ cpu'.objects = cpu.objects
        /\ cpu'.status = "INTERNAL_ERROR" /\ origin' = origin
    BY <1>2, <2>1 DEF NotDecoded, Stop, Fields
  <2> QED BY <2>2 DEF IInv, CallStackBounded, FlagsShared
<1>3. CASE Running /\ \E ins \in Programs[code][cpu.pc] : \E v \in Verdicts(ins) : Step(ins, v)
  <2>1. PICK ins, v : Step(ins, v)
    BY <1>3
  <2> DEFINE s == Fetched
             n == Len(s.stack)
  <2>2. n \in Nat /\ Fine(s, n, s) /\ s.stack = cpu.stack
    BY FetchedFine, LenProperties DEF IInv
  <2>3. ASSUME NEW after, Follows(s, n, after), Instruction(ins, v, after) PROVE IInv'
    BY <1>3, <2>2, <2>3, InstructionIInv DEF Instruction
  <2>4. ASSUME NEW after, Fine(s, n, after), Instruction(ins, v, after) PROVE IInv'
    BY <2>2, <2>3, <2>4, FineFollows
  <2>5. CASE LoadStore(ins, v)
    <3>1. Fine(s, n, LoadStoreBody(s, ins))
      BY <2>2, LoadStoreFine
    <3> QED BY <2>5, <3>1, <2>4 DEF LoadStore
  <2>6. CASE LoadStoreDouble(ins, v)
    <3>1. Fine(s, n, LoadStoreDoubleBody(s, ins))
      BY <2>2, LoadStoreDoubleFine
    <3> QED BY <2>6, <3>1, <2>4 DEF LoadStoreDouble
  <2>7. CASE Multiply(ins, v) \/ Arithmetic(ins, v)
    <3>1. Fine(s, n, MultiplyBody(s, ins)) /\ Fine(s, n, ArithmeticBody(s, ins))
      BY <2>2, ArithmeticFine
    <3> QED BY <2>7, <3>1, <2>4 DEF Multiply, Arithmetic
  <2>8. CASE Move(ins, v) \/ BitOperation(ins, v) \/ ShiftOperation(ins, v) \/ Field(ins, v)
    <3>1. /\ Fine(s, n, MoveBody(s, ins)) /\ Fine(s, n, BitwiseBody(s, ins))
          /\ Fine(s, n, ShiftBody(s, ins)) /\ Fine(s, n, FieldBody(s, ins))
      BY <2>2, BitsFine
    <3> QED BY <2>8, <3>1, <2>4 DEF Move, BitOperation, ShiftOperation, Field
  <2>9. CASE MoveMultiple(ins, v)
    <3>1. Fine(s, n, MultipleBody(s, ins))
      BY <2>2, MultipleFine
    <3> QED BY <2>9, <3>1, <2>4 DEF MoveMultiple
  <2>10. CASE Branch(ins, v)
    <3>1. Follows(s, n, BranchBody(s, ins))
      BY <2>2, BranchFollows
    <3> QED BY <2>10, <3>1, <2>3 DEF Branch
  <2>11. CASE CompareBranch(ins, v)
    BY <2>11, <2>2, <2>4 DEF CompareBranch
  <2> QED BY <2>1, <2>5, <2>6, <2>7, <2>8, <2>9, <2>10, <2>11 DEF Step
<1> QED BY <1>1, <1>2, <1>3 DEF Next

\* The invariant is one.
THEOREM Invariant == Spec => []IInv
BY InitIInv, NextIInv, PTL DEF Spec

\* A path is never more than MaxCallDepth - 1 calls deep where it goes on, whatever the program
\* calls, jumps to and loads into PC and LR (ArmImpl::JumpToNode, PopCallStack).
THEOREM CallDepth == Spec => []CallStackBounded
<1>1. IInv => CallStackBounded
  BY DEF IInv
<1> QED BY <1>1, Invariant, PTL

\* Flags share an object exactly when one instruction's SetFlag set both, on the original and in
\* every fork of a fork (ArmImpl::SetFlag, Migrate).
THEOREM Sharing == Spec => []FlagsShared
<1>1. IInv => FlagsShared
  BY DEF IInv
<1> QED BY <1>1, Invariant, PTL

\* No condition code that may come next makes a condition of an operator that no case of the code
\* assigns, since the operation that all the flags it reads share defines it
\* (flag_op_t::ConditionalInstruction).
THEOREM Defined == Spec => []ConditionDefined
<1>1. IInv => ConditionDefined
  <2> SUFFICES ASSUME IInv, NEW cc \in Codes, FlagsUsable(cpu, cc)
               PROVE  ConditionFor(cpu, cc).op # UNINITIALIZED
    BY DEF ConditionDefined
  <2> DEFINE f == cpu.flags[CHOOSE x \in FlagsRead(cc) : TRUE]
  <2>1. cc \in {"EQ", "NE", "MI", "PL", "CS", "CC", "HI", "LS", "GE", "LT", "GT", "LE", "VS", "VC"}
    BY DEF Codes, ZeroOperator, UnsignedOperator, SignedCodes
  <2>2. FlagsRead(cc) # {} /\ FlagsRead(cc) \subseteq Flags
    BY <2>1 DEF FlagsRead, Flags
  <2>3. \A x \in FlagsRead(cc) : cpu.flags[x] = f /\ f # NoFlag
    BY <2>2 DEF FlagsUsable
  <2> HIDE DEF f
  <2>4. \A x \in FlagsRead(cc) : f.op \in OperationsOf(x)
    BY <2>2, <2>3 DEF IInv, Made
  <2>5. f.op \in Operations
    BY <2>2, <2>4 DEF OperationsOf, Operations
  <2>6. /\ cc \in {"CS", "CC", "HI", "LS"} => f.op \in {"ADD", "SHIFT"}
        /\ cc \in {"GE", "LT", "GT", "LE", "VS", "VC"} => f.op = "ADD"
    BY <2>4 DEF FlagsRead, OperationsOf
  <2>7. ConditionFor(cpu, cc) = ConditionalInstruction(f, cc)
    BY DEF ConditionFor, f
  <2>8. CASE f.op = "ADD"
    <3>1. AddOperator(cc) # UNINITIALIZED
      BY <2>1 DEF AddOperator, SignedCodes, UnsignedOperator, ZeroOperator, UNINITIALIZED
    <3> QED BY <2>7, <2>8, <3>1 DEF ConditionalInstruction, ConditionalInstructionAdd, NormalCondition
  <2>9. CASE f.op # "ADD"
    <3>1. cc \in {"EQ", "NE", "MI", "PL", "CS", "CC", "HI", "LS"}
      BY <2>1, <2>6, <2>9
    <3>2. /\ DOMAIN ZeroOperator = {"EQ", "NE", "MI", "PL"}
          /\ \A c \in DOMAIN ZeroOperator : ZeroOperator[c] # UNINITIALIZED
      BY DEF ZeroOperator, UNINITIALIZED
    <3>3. CASE f.op = "SHIFT"
      BY <2>7, <3>1, <3>2, <3>3
         DEF ConditionalInstruction, ConditionalInstructionShift, NormalCondition, UNINITIALIZED
    <3>4. CASE f.op # "SHIFT"
      <4>1. cc \in DOMAIN ZeroOperator
        BY <3>1, <3>2, <3>4, <2>6, <2>9
      <4> QED BY <2>7, <2>9, <3>2, <3>4, <4>1
              DEF ConditionalInstruction, ConditionalInstructionBitwise, NormalCondition
    <3> QED BY <3>3, <3>4
  <2> QED BY <2>8, <2>9
<1> QED BY <1>1, Invariant, PTL

==============================================================================
