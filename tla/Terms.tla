-------------------------------- MODULE Terms --------------------------------
(***************************************************************************)
(* The nodes of a data flow graph as expressions, the memory map of a      *)
(* broker, and conditions on expressions, as data: what the parts of       *)
(* BrokerImpl, ConditionImpl, PredicateImpl and ArmImpl pass to each other.*)
(*                                                                         *)
(* FindNode looks a node up by its type, its value and the numbers of its  *)
(* inputs, in order, so that a graph never has two nodes of one structure: *)
(* a node is its structure here, and pointer equality is equality.         *)
(*                                                                         *)
(* Words are W bits wide (32 in the code).  C++ leaves a << n undefined    *)
(* for n < 0 and n >= W; the x86 build takes n modulo W.                   *)
(***************************************************************************)
EXTENDS Compare, Sequences, FiniteSets

CONSTANT W   \* bits in a word

ASSUME WidthAssumption == W \in Nat \ {0, 1} /\ MaxWord = 2^W - 1

Const(v) == [op |-> "CONSTANT", v |-> v, in |-> <<>>]
Register(r) == [op |-> "REGISTER", v |-> r, in |-> <<>>]
Node(op, in) == [op |-> op, v |-> 0, in |-> in]
NewCall(address, argument) == [op |-> "CALL", v |-> address, in |-> <<argument>>]
NULL == Node("nullptr", <<>>)

\* The value of a constant is an unsigned int
IsConst(t) == t.op = "CONSTANT" /\ t.v \in Words
MinusOne == Const(MaxWord)   \* NewConstant(-1), NewConstant(0xffffffff)

Wrap(i) == i % (MaxWord + 1)
Shl(a, n) == Wrap(a * 2^(n % W))

------------------------------------------------------------------------------
(* Memory: what was last stored to an address expression, by the code or   *)
(* in read-only data.                                                      *)

\* NewLoad, in a broker with memory map m and read-only words rom
NewLoad(rom, m, address) ==
  IF IsConst(address) /\ address.v \in DOMAIN rom THEN Const(rom[address.v])
  ELSE IF address \in DOMAIN m THEN m[address]
  ELSE Node("LOAD", <<address>>)

\* NewStore: the memory map after it
NewStore(m, data, address) == [a \in DOMAIN m \cup {address} |-> IF a = address THEN data ELSE m[a]]

------------------------------------------------------------------------------
(* Conditions. *)

NormalCondition(e1, op, e2) == [special |-> "NORMAL", e1 |-> e1, op |-> op, e2 |-> e2]
Special(truth) == [special |-> truth, e1 |-> NULL, op |-> "EQ", e2 |-> NULL]

Negate(c) == [c EXCEPT !.special = "NORMAL", !.op = NegateOperator(c.op)]

==============================================================================
