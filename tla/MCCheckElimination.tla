------------------------ MODULE MCCheckElimination -------------------------
(* Programs of a few instructions in three blocks. *)
EXTENDS CheckElimination, TLC

CONSTANTS A, B, C   \* the blocks

ThreeBlocks == {A, B, C}
Order == <<A, B, C>>

(* A branch from A to B and C, and a jump from A to B and from B to C. *)
Fork == {<<A, B>>, <<A, C>>}
Chain == {<<A, B>>, <<A, C>>, <<B, C>>}
ForkOrChain == {Fork, Chain}

ValueSymmetry == Permutations(Values)
=============================================================================
