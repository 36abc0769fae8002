----------------------------- MODULE MarkerBits -----------------------------
(***************************************************************************)
(* The representation of a marker (ir/marker.h) and of the marks a basic   *)
(* block carries (ir/basic_block.cpp).                                     *)
(*                                                                         *)
(* A Marker is one uint32_t: the two low bits are a color, the rest is the *)
(* index the MarkerManager gave it.  A block keeps one index per color,    *)
(* markers_[color], and "is marked by m" means that the index it keeps     *)
(* under m's color is m's index.  Nothing ever wipes the marks of a block  *)
(* when a marker is given back, so stale indexes stay behind.              *)
(*                                                                         *)
(* `marks' below is always such a table: marks[b][c] is the index block b  *)
(* keeps under color c.                                                    *)
(***************************************************************************)
EXTENDS Integers

CONSTANTS Blocks,         \* Graph::basicBlocks_
          INDEX_VALUES    \* how many indexes a Marker can hold: 2^30 in the
                          \* code (32 bits less COLOR_BITS), small for TLC

ASSUME IndexValuesAssumption == INDEX_VALUES \in Nat \ {0}

COLORS_NUM == 4
Colors     == 0 .. COLORS_NUM - 1
UNMARKER   == 0

(* (markerIndex_ << COLOR_BITS) | idx, cut to the 32 bits of a Marker. *)
MarkerOf(index, color) ==
  (index * COLORS_NUM + color) % (INDEX_VALUES * COLORS_NUM)

AllMarkers == 0 .. INDEX_VALUES * COLORS_NUM - 1

(* marker >> COLOR_BITS and marker & COLOR_MASK. *)
ValueOf(marker) == marker \div COLORS_NUM
ColorOf(marker) == marker % COLORS_NUM

(* Mutant: a block remembers only the last mark it was given. *)
WithOnlyMarker(marks, block, marker) ==
  [marks EXCEPT ![block] =
     [c \in Colors |-> IF c = ColorOf(marker) THEN ValueOf(marker) ELSE UNMARKER]]

(* BasicBlock::IsMarked, SetMarker, EraseMarker and ClearMarkers. *)
IsMarked(marks, block, marker) ==
  marks[block][ColorOf(marker)] = ValueOf(marker)

WithMarker(marks, block, marker) ==
  [marks EXCEPT ![block][ColorOf(marker)] = ValueOf(marker)]

WithoutMarker(marks, block, marker) ==
  [marks EXCEPT ![block][ColorOf(marker)] = UNMARKER]

WithoutMarkers(marks, block) ==
  [marks EXCEPT ![block] = [c \in Colors |-> UNMARKER]]

(* What a marker stands for: the set of the blocks that carry it. *)
MarkedBy(marks, marker) == {b \in Blocks : IsMarked(marks, b, marker)}

Marks == [Blocks -> [Colors -> Nat]]
=============================================================================
