--------------------------- MODULE MCLoopAnalyzer ---------------------------
(* LoopAnalyzer::Run on the graphs of MCCfgs. *)
EXTENDS LoopAnalyzer, MCCfgs

CONSTANT MAX_EDGES   \* bound: how many edges the graphs have

SparseCfgs == {g \in PlainCfgs : EdgeCount(g) <= MAX_EDGES}
=============================================================================
