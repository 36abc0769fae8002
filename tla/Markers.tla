------------------------------ MODULE Markers ------------------------------
(***************************************************************************)
(* MarkerManager (ir/marker.h), which hands out markers, and the marks its *)
(* clients put on basic blocks (ir/basic_block.cpp).                       *)
(*                                                                         *)
(* A client creates a marker, marks and unmarks blocks with it for as long *)
(* as it holds it, and gives it back; this is how every traversal of       *)
(* src/analysis uses markers, and `live' records who holds what.           *)
(***************************************************************************)
EXTENDS MarkerBits, FiniteSets, FiniteSetsExt

CONSTANT MAX_MARKER_INDEX

(* The code has 2^28 - 1 indexes before the assertion and 2^30 before the  *)
(* index wraps in a Marker: the proofs need no more than this order.       *)
ASSUME MaxIndexAssumption ==
  MAX_MARKER_INDEX \in Nat /\ MAX_MARKER_INDEX <= INDEX_VALUES

VARIABLES
  markerIndex,  \* MarkerManager::markerIndex_
  colors,       \* MarkerManager::colors_, the colors in use
  marks,        \* BasicBlock::markers_ of every block
  live,         \* the markers handed out and not given back
  outcome       \* "running", or how the program ended

markerVars == <<markerIndex, colors, marks, live, outcome>>

Outcomes == {"running", "assert", "unreachable"}

(* Mutant: the search for a free color runs one too far. *)
FreeColorsOneMore == (0 .. COLORS_NUM) \ colors

FreeColors == Colors \ colors

(* The value CreateNewMarker returns: the next index with the first free   *)
(* color.                                                                  *)
NewMarker == MarkerOf(markerIndex + 1, Min(FreeColors))

(* assert(markerIndex_ < MAX_MARKER_INDEX), after the increment. *)
IndexAvailable == markerIndex + 1 < MAX_MARKER_INDEX

MarkersInit ==
  /\ markerIndex = 0
  /\ colors = {}
  /\ marks = [b \in Blocks |-> [c \in Colors |-> UNMARKER]]
  /\ live = {}
  /\ outcome = "running"
-----------------------------------------------------------------------------
(* Mutant: the color of a new marker stays free. *)
CreateNewMarkerKeepingColor ==
  /\ outcome = "running" /\ IndexAvailable /\ FreeColors # {}
  /\ markerIndex' = markerIndex + 1
  /\ live' = live \cup {NewMarker}
  /\ UNCHANGED <<colors, marks, outcome>>

(* Mutant: the index is not counted up, so freed markers come back. *)
CreateNewMarkerSameIndex ==
  /\ outcome = "running" /\ IndexAvailable /\ FreeColors # {}
  /\ colors' = colors \cup {Min(FreeColors)}
  /\ live' = live \cup {NewMarker}
  /\ UNCHANGED <<markerIndex, marks, outcome>>

(* MarkerManager::CreateNewMarker, by how it ends. *)
CreateNewMarker ==
  /\ outcome = "running"
  /\ IndexAvailable
  /\ FreeColors # {}
  /\ markerIndex' = markerIndex + 1
  /\ colors' = colors \cup {Min(FreeColors)}
  /\ live' = live \cup {NewMarker}
  /\ UNCHANGED <<marks, outcome>>

CreateNewMarkerAborts ==
  /\ outcome = "running"
  /\ markerIndex' = markerIndex + 1
  /\ \/ ~IndexAvailable /\ outcome' = "assert"
     \/ IndexAvailable /\ FreeColors = {} /\ outcome' = "unreachable"
  /\ UNCHANGED <<colors, marks, live>>

(* MarkerManager::EraseMarker: the marks on the blocks stay. *)
EraseMarker(marker) ==
  /\ outcome = "running"
  /\ colors' = colors \ {ColorOf(marker)}
  /\ live' = live \ {marker}
  /\ UNCHANGED <<markerIndex, marks, outcome>>

(* BasicBlock::SetMarker, EraseMarker, ClearMarkers. *)
SetMarker(block, marker) ==
  /\ outcome = "running"
  /\ marks' = WithMarker(marks, block, marker)
  /\ UNCHANGED <<markerIndex, colors, live, outcome>>

UnsetMarker(block, marker) ==
  /\ outcome = "running"
  /\ marks' = WithoutMarker(marks, block, marker)
  /\ UNCHANGED <<markerIndex, colors, live, outcome>>

ClearMarkers(block) ==
  /\ outcome = "running"
  /\ marks' = WithoutMarkers(marks, block)
  /\ UNCHANGED <<markerIndex, colors, live, outcome>>

MarkersNext ==
  \/ CreateNewMarker
  \/ CreateNewMarkerAborts
  \/ \E m \in live :
       \/ EraseMarker(m)
       \/ \E b \in Blocks : SetMarker(b, m) \/ UnsetMarker(b, m)
  \/ \E b \in Blocks : ClearMarkers(b)

MarkersSpec == MarkersInit /\ [][MarkersNext]_markerVars
-----------------------------------------------------------------------------
(* Types: indexes are bounded by the counter, marks hold indexes. *)
MarkersTypeOK ==
  /\ markerIndex \in Nat
  /\ colors \subseteq Colors
  /\ marks \in Marks
  /\ live \subseteq AllMarkers
  /\ outcome \in Outcomes

(* No two markers in use share a color and each one's color is taken, so   *)
(* giving one back (colors_[marker & COLOR_MASK] = 0) cannot free the      *)
(* color of another, and marking with one cannot erase marks of another.   *)
LiveColorsDistinct ==
  /\ \A m \in live : ColorOf(m) \in colors
  /\ \A m, n \in live : ColorOf(m) = ColorOf(n) => m = n

(* Every index a block remembers, and every index in use, was handed out   *)
(* before: the next marker cannot be found on any block, although no       *)
(* EraseMarker of the manager ever cleaned one.                            *)
NoFutureMarks ==
  /\ \A b \in Blocks, c \in Colors : marks[b][c] <= markerIndex
  /\ \A m \in live : ValueOf(m) \in 1 .. markerIndex

(* A marker about to be handed out marks no block. *)
FreshMarkerUnseen ==
  IndexAvailable /\ FreeColors # {} => MarkedBy(marks, NewMarker) = {}

(* "Only 4 markers are available at one moment" (ir/marker.h:39). *)
AtMostFourLive == IsFiniteSet(live) /\ Cardinality(live) <= COLORS_NUM

(* The manager implements sets of blocks: see MarkerSets.tla. *)
Sets == INSTANCE MarkerSets
          WITH MarkerNames <- AllMarkers, Limit <- COLORS_NUM,
               members <- [m \in live |-> MarkedBy(marks, m)]
ImplementsSets == Sets!Spec

=============================================================================
