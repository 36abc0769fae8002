---- MODULE MCDefUse ----
(* Graphs of a few instructions. *)
EXTENDS DefUse

BlockSymmetry == Permutations(Blocks)
====
