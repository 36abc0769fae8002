----------------------------- MODULE MCMarkers -----------------------------
(* Markers on two interchangeable blocks.  INDEX_VALUES and                *)
(* MAX_MARKER_INDEX keep the code's order but are small enough for the     *)
(* counter to run into its assertion.                                      *)
EXTENDS Markers, TLC

Symmetry == Permutations(Blocks)
=============================================================================
