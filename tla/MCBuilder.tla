------------------------------ MODULE MCBuilder ------------------------------
(* Small instances of the builders for TLC. *)
EXTENDS Builder, TLC

\* A loop with two conditions:    1: addne    2: beq 1    3: ret
LoopAddresses == 1 .. 3
LoopConditional == {1, 2}
LoopTarget == <<2, 1, RETURN>>
LoopFollowing == <<2, 3, 3>>

AtFirst == [f \in Functions |-> 1]

ForkSymmetry == Permutations(Forks)

==============================================================================
