-------------------------- MODULE MCDominatorTree --------------------------
(* DominatorTree::Build on the graphs of MCCfgs. *)
EXTENDS DominatorTree, MCCfgs

CONSTANT MAX_EDGES   \* bound: how many edges the graphs have

(* Graphs with few edges, so that some block is left to extend them at. *)
SparseCfgs == {g \in CanonicalCfgs : EdgeCount(g) <= MAX_EDGES}
=============================================================================
