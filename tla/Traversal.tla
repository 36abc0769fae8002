----------------------------- MODULE Traversal -----------------------------
(***************************************************************************)
(* What the traversals of the graph have in common, DFS and RPO: what they *)
(* are given, and the recursion as a stack of activations (Cfg.tla).  A    *)
(* step of either is one iteration of the loop over the successors, or a   *)
(* return.                                                                 *)
(***************************************************************************)
EXTENDS Cfg

CONSTANTS INITIAL_MARKS,     \* the marks blocks may carry before the walk
          INITIAL_MARKERS    \* the markers it may be given

ASSUME InitialMarksAssumption ==
  INITIAL_MARKS \subseteq Marks /\ INITIAL_MARKERS \subseteq AllMarkers

VARIABLES
  succs,   \* the graph, which the walk does not change
  marks,   \* the marks on the blocks
  marker,  \* DFS::marker_, RPO::marker_
  stack    \* the activations of DFSImpl, RPO::DFS
=============================================================================
