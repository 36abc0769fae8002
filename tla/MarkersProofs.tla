--------------------------- MODULE MarkersProofs ---------------------------
(***************************************************************************)
(* Proofs about Markers.tla, for every set of blocks and every number of   *)
(* indexes: the invariant MarkersInv, the two facts clients rely on (live  *)
(* markers never share a color, a fresh marker marks nothing), and the     *)
(* refinement of MarkerSets.                                               *)
(***************************************************************************)
EXTENDS Markers, FiniteSetTheorems, TLAPS

MarkersInv == MarkersTypeOK /\ LiveColorsDistinct /\ NoFutureMarks
-----------------------------------------------------------------------------
(* Packing an index and a color in a Marker loses neither, as long as the  *)
(* index fits: MarkerOf, ValueOf and ColorOf are the shifts and masks of   *)
(* ir/marker.h:47 and ir/basic_block.cpp:29-30.                            *)
LEMMA MarkerParts ==
  ASSUME NEW i \in Nat, NEW c \in Colors, i < INDEX_VALUES
  PROVE  /\ MarkerOf(i, c) \in AllMarkers
         /\ ValueOf(MarkerOf(i, c)) = i
         /\ ColorOf(MarkerOf(i, c)) = c
<1> DEFINE m == i * 4 + c
<1>1. m \in 0 .. INDEX_VALUES * 4 - 1
  BY IndexValuesAssumption DEF Colors, COLORS_NUM
<1>2. \A k \in Nat \ {0} : \A x \in 0 .. k - 1 : x % k = x
  OBVIOUS
<1>3. m % (INDEX_VALUES * 4) = m
  BY <1>1, <1>2, IndexValuesAssumption
<1>4. MarkerOf(i, c) = m
  BY <1>3 DEF MarkerOf, COLORS_NUM
<1>5. m \div 4 = i /\ m % 4 = c
  BY DEF Colors, COLORS_NUM
<1> QED
  BY <1>1, <1>4, <1>5 DEF AllMarkers, ValueOf, ColorOf, COLORS_NUM

(* Every marker has a color of the manager. *)
LEMMA ColorInRange ==
  ASSUME NEW m \in AllMarkers
  PROVE  ColorOf(m) \in Colors /\ ValueOf(m) \in Nat
BY IndexValuesAssumption DEF AllMarkers, ColorOf, ValueOf, Colors, COLORS_NUM

(* The first free color is a free color. *)
LEMMA MinFreeColor ==
  ASSUME colors \subseteq Colors, FreeColors # {}
  PROVE  Min(FreeColors) \in Colors /\ Min(FreeColors) \notin colors
<1>1. \E c \in FreeColors : \A d \in FreeColors : c <= d
  <2>1. CASE 0 \in FreeColors
    BY <2>1 DEF FreeColors, Colors, COLORS_NUM
  <2>2. CASE 0 \notin FreeColors /\ 1 \in FreeColors
    BY <2>2 DEF FreeColors, Colors, COLORS_NUM
  <2>3. CASE 0 \notin FreeColors /\ 1 \notin FreeColors /\ 2 \in FreeColors
    BY <2>3 DEF FreeColors, Colors, COLORS_NUM
  <2>4. CASE FreeColors = {3}
    BY <2>4
  <2> QED
    BY <2>1, <2>2, <2>3, <2>4 DEF FreeColors, Colors, COLORS_NUM
<1>2. Min(FreeColors) \in FreeColors
  BY <1>1 DEF Min
<1> QED
  BY <1>2 DEF FreeColors

(* The marker CreateNewMarker returns carries the next index and a color   *)
(* no marker in use has.                                                   *)
LEMMA NewMarkerParts ==
  ASSUME MarkersTypeOK, IndexAvailable, FreeColors # {}
  PROVE  /\ NewMarker \in AllMarkers
         /\ ValueOf(NewMarker) = markerIndex + 1
         /\ ColorOf(NewMarker) = Min(FreeColors)
         /\ Min(FreeColors) \in Colors \ colors
<1>1. Min(FreeColors) \in Colors \ colors
  BY MinFreeColor DEF MarkersTypeOK
<1>2. markerIndex + 1 \in Nat /\ markerIndex + 1 < INDEX_VALUES
  BY MaxIndexAssumption, IndexValuesAssumption DEF MarkersTypeOK, IndexAvailable
<1> QED
  BY <1>1, <1>2, MarkerParts DEF NewMarker
-----------------------------------------------------------------------------
(* The invariant holds before the first marker is created. *)
LEMMA MarkersInvInit == MarkersInit => MarkersInv
BY DEF MarkersInit, MarkersInv, MarkersTypeOK, LiveColorsDistinct, NoFutureMarks,
       Marks, Outcomes, UNMARKER, Colors, COLORS_NUM, AllMarkers

(* A new marker has a colour and an index of its own. *)
LEMMA CreateNewMarkerInv ==
  ASSUME MarkersInv, CreateNewMarker
  PROVE  MarkersInv'
<1>1. /\ NewMarker \in AllMarkers
      /\ ValueOf(NewMarker) = markerIndex + 1
      /\ ColorOf(NewMarker) \in Colors \ colors
      /\ colors' = colors \cup {ColorOf(NewMarker)}
  BY NewMarkerParts DEF MarkersInv, CreateNewMarker
<1>2. MarkersTypeOK'
  BY <1>1 DEF MarkersInv, MarkersTypeOK, CreateNewMarker
<1>3. LiveColorsDistinct'
  BY <1>1 DEF MarkersInv, LiveColorsDistinct, CreateNewMarker
<1>4. NoFutureMarks'
  <2>1. \A b \in Blocks, c \in Colors : marks'[b][c] <= markerIndex'
    BY DEF MarkersInv, MarkersTypeOK, Marks, NoFutureMarks, CreateNewMarker
  <2>2. \A m \in live' : ValueOf(m) \in 1 .. markerIndex'
    BY <1>1 DEF MarkersInv, MarkersTypeOK, NoFutureMarks, CreateNewMarker
  <2> QED
    BY <2>1, <2>2 DEF NoFutureMarks
<1> QED
  BY <1>2, <1>3, <1>4 DEF MarkersInv

(* A failed creation hands out no marker. *)
LEMMA CreateNewMarkerAbortsInv ==
  ASSUME MarkersInv, CreateNewMarkerAborts
  PROVE  MarkersInv'
<1>1. MarkersTypeOK'
  BY DEF MarkersInv, MarkersTypeOK, CreateNewMarkerAborts, Outcomes
<1>2. NoFutureMarks'
  BY DEF MarkersInv, MarkersTypeOK, Marks, NoFutureMarks, CreateNewMarkerAborts
<1> QED
  BY <1>1, <1>2 DEF MarkersInv, LiveColorsDistinct, CreateNewMarkerAborts

(* Freeing a marker frees its colour and no other, and leaves the marks    *)
(* alone.                                                                  *)
LEMMA EraseMarkerInv ==
  ASSUME MarkersInv, NEW m \in live, EraseMarker(m)
  PROVE  MarkersInv'
<1>1. MarkersTypeOK'
  BY DEF MarkersInv, MarkersTypeOK, EraseMarker
<1>2. LiveColorsDistinct'
  BY DEF MarkersInv, LiveColorsDistinct, EraseMarker
<1>3. NoFutureMarks'
  BY DEF MarkersInv, NoFutureMarks, EraseMarker
<1> QED
  BY <1>1, <1>2, <1>3 DEF MarkersInv

(* Marks only ever move to an index in use or back to UNMARKER. *)
LEMMA MarksInv ==
  ASSUME MarkersInv, NEW b \in Blocks,
         \/ ClearMarkers(b)
         \/ \E m \in live : SetMarker(b, m) \/ UnsetMarker(b, m)
  PROVE  MarkersInv'
<1>1. UNCHANGED <<markerIndex, colors, live, outcome>>
  BY DEF ClearMarkers, SetMarker, UnsetMarker
<1>2. \A m \in live : /\ ColorOf(m) \in Colors
                       /\ ValueOf(m) \in 0 .. markerIndex
  BY ColorInRange DEF MarkersInv, MarkersTypeOK, NoFutureMarks
<1>3. marks' \in Marks /\ \A x \in Blocks, c \in Colors : marks'[x][c] <= markerIndex
  <2>1. CASE ClearMarkers(b)
    BY <2>1 DEF ClearMarkers, WithoutMarkers, MarkersInv, MarkersTypeOK, Marks,
                NoFutureMarks, UNMARKER
  <2>2. ASSUME NEW m \in live, SetMarker(b, m)
        PROVE  <1>3!1 /\ <1>3!2
    BY <2>2, <1>2 DEF SetMarker, WithMarker, MarkersInv, MarkersTypeOK, Marks,
                      NoFutureMarks
  <2>3. ASSUME NEW m \in live, UnsetMarker(b, m)
        PROVE  <1>3!1 /\ <1>3!2
    BY <2>3, <1>2 DEF UnsetMarker, WithoutMarker, MarkersInv, MarkersTypeOK, Marks,
                      NoFutureMarks, UNMARKER
  <2> QED
    BY <2>1, <2>2, <2>3
<1> QED
  BY <1>1, <1>3 DEF MarkersInv, MarkersTypeOK, LiveColorsDistinct, NoFutureMarks

(* Every operation of the manager and of the blocks keeps the invariant. *)
LEMMA MarkersInvNext == MarkersInv /\ [MarkersNext]_markerVars => MarkersInv'
<1> SUFFICES ASSUME MarkersInv, [MarkersNext]_markerVars
             PROVE  MarkersInv'
  OBVIOUS
<1>1. CASE UNCHANGED markerVars
  BY <1>1 DEF markerVars, MarkersInv, MarkersTypeOK, LiveColorsDistinct, NoFutureMarks
<1>2. CASE MarkersNext
  BY <1>2, CreateNewMarkerInv, CreateNewMarkerAbortsInv, EraseMarkerInv, MarksInv
     DEF MarkersNext
<1> QED
  BY <1>1, <1>2

(* MarkersInv holds in every state: in particular the types, and that      *)
(* markers in use never share a color (MarkerManager::EraseMarker and      *)
(* BasicBlock::SetMarker cannot disturb another client).                   *)
THEOREM MarkersInvariant == MarkersSpec => []MarkersInv
<1>1. MarkersInit => MarkersInv
  BY MarkersInvInit
<1>2. MarkersInv /\ [MarkersNext]_markerVars => MarkersInv'
  BY MarkersInvNext
<1> QED
  BY <1>1, <1>2, PTL DEF MarkersSpec

(* The manager and the marks on the blocks keep their types: the packed    *)
(* markers stay within the width of Marker.                                *)
THEOREM MarkersTypes == MarkersSpec => []MarkersTypeOK
<1>1. MarkersInv => MarkersTypeOK
  BY DEF MarkersInv
<1> QED
  BY <1>1, MarkersInvariant, PTL

(* MarkerManager::EraseMarker frees a colour by the marker that carries    *)
(* it: no two markers in use share one, so no other marker loses its       *)
(* colour.                                                                 *)
THEOREM ColorsNeverShared == MarkersSpec => []LiveColorsDistinct
<1>1. MarkersInv => LiveColorsDistinct
  BY DEF MarkersInv
<1> QED
  BY <1>1, MarkersInvariant, PTL
-----------------------------------------------------------------------------
(* The next marker is found on no block, although EraseMarker leaves every *)
(* mark behind: its index is one no block has seen.                        *)
LEMMA FreshIsUnseen == MarkersInv => FreshMarkerUnseen
<1> SUFFICES ASSUME MarkersInv, IndexAvailable, FreeColors # {},
                    NEW b \in Blocks, IsMarked(marks, b, NewMarker)
             PROVE  FALSE
  BY DEF FreshMarkerUnseen, MarkedBy
<1>1. /\ ValueOf(NewMarker) = markerIndex + 1
      /\ ColorOf(NewMarker) \in Colors
  BY NewMarkerParts DEF MarkersInv
<1>2. marks[b][ColorOf(NewMarker)] <= markerIndex
  BY <1>1 DEF MarkersInv, NoFutureMarks
<1> QED
  BY <1>1, <1>2 DEF IsMarked, MarkersInv, MarkersTypeOK

(* MarkerManager never cleans the blocks of a marker it frees, and still a *)
(* marker that is handed out is found on no block.                         *)
THEOREM FreshMarkers == MarkersSpec => []FreshMarkerUnseen
BY FreshIsUnseen, MarkersInvariant, PTL
-----------------------------------------------------------------------------
(* "Only 4 markers are available at one moment" (ir/marker.h:39): markers  *)
(* in use inject into the busy colors, so they never outnumber them, and   *)
(* there is room for one more exactly when a color is free.                *)
LEMMA LiveInjectsIntoColors ==
  ASSUME MarkersInv
  PROVE  /\ IsFiniteSet(live)
         /\ Cardinality(live) <= COLORS_NUM
         /\ FreeColors # {} => Cardinality(live) < COLORS_NUM
<1> DEFINE f == [m \in live |-> ColorOf(m)]
<1>1. f \in Injection(live, colors)
  BY ColorInRange DEF MarkersInv, MarkersTypeOK, LiveColorsDistinct, Injection, IsInjective
<1>2. /\ IsFiniteSet(Colors)
      /\ Cardinality(Colors) = COLORS_NUM
  <2> HIDE DEF f
  <2>1. /\ IsFiniteSet(0 .. 3)
        /\ Cardinality(0 .. 3) = IF 0 > 3 THEN 0 ELSE 3 - 0 + 1
    BY 0 \in Int, 3 \in Int, FS_Interval, Zenon
  <2>2. Colors = 0 .. 3
    BY DEF Colors, COLORS_NUM
  <2> QED
    BY <2>1, <2>2 DEF COLORS_NUM
<1>3. colors \in SUBSET Colors
  BY DEF MarkersInv, MarkersTypeOK
<1>4. /\ IsFiniteSet(colors)
      /\ Cardinality(colors) <= COLORS_NUM
      /\ FreeColors # {} => Cardinality(colors) # COLORS_NUM
  BY <1>2, <1>3, FS_Subset DEF FreeColors
<1>5. /\ IsFiniteSet(live)
      /\ Cardinality(live) <= Cardinality(colors)
  BY <1>1, <1>4, FS_Injection
<1>6. Cardinality(live) \in Nat /\ Cardinality(colors) \in Nat
  BY <1>4, <1>5, FS_CardinalityType
<1> QED
  BY <1>4, <1>5, <1>6 DEF COLORS_NUM

(* No more than COLORS_NUM markers are ever in use. *)
THEOREM AtMostFour == MarkersSpec => []AtMostFourLive
<1>1. MarkersInv => AtMostFourLive
  BY LiveInjectsIntoColors DEF AtMostFourLive
<1> QED
  BY <1>1, MarkersInvariant, PTL
-----------------------------------------------------------------------------
(* Markers implements sets of blocks (MarkerSets.tla).  `Members' is the   *)
(* refinement mapping.                                                     *)
Members == [m \in live |-> MarkedBy(marks, m)]

(* Two markers in use never look at the same index: setting or clearing    *)
(* one leaves the blocks of the other alone, and its own index is never    *)
(* UNMARKER.                                                               *)
LEMMA MarkingIsLocal ==
  ASSUME MarkersInv, NEW m \in live, NEW n \in live, NEW b \in Blocks
  PROVE  /\ MarkedBy(WithMarker(marks, b, m), n) =
              IF n = m THEN MarkedBy(marks, n) \cup {b} ELSE MarkedBy(marks, n)
         /\ MarkedBy(WithoutMarker(marks, b, m), n) =
              IF n = m THEN MarkedBy(marks, n) \ {b} ELSE MarkedBy(marks, n)
         /\ MarkedBy(WithoutMarkers(marks, b), n) = MarkedBy(marks, n) \ {b}
<1>1. /\ ColorOf(m) \in Colors /\ ColorOf(n) \in Colors
      /\ ValueOf(n) # UNMARKER /\ ValueOf(m) # UNMARKER
      /\ ColorOf(m) = ColorOf(n) => m = n
  BY ColorInRange DEF MarkersInv, MarkersTypeOK, LiveColorsDistinct, NoFutureMarks, UNMARKER
<1>2. marks \in [Blocks -> [Colors -> Nat]]
  BY DEF MarkersInv, MarkersTypeOK, Marks
<1>3. \A x \in Blocks :
        IsMarked(WithMarker(marks, b, m), x, n) <=>
          IsMarked(marks, x, n) \/ (x = b /\ n = m)
  BY <1>1, <1>2 DEF IsMarked, WithMarker
<1>4. \A x \in Blocks :
        IsMarked(WithoutMarker(marks, b, m), x, n) <=>
          IsMarked(marks, x, n) /\ ~(x = b /\ n = m)
  BY <1>1, <1>2 DEF IsMarked, WithoutMarker
<1>5. \A x \in Blocks :
        IsMarked(WithoutMarkers(marks, b), x, n) <=> IsMarked(marks, x, n) /\ x # b
  BY <1>1, <1>2 DEF IsMarked, WithoutMarkers
<1> QED
  BY <1>3, <1>4, <1>5 DEF MarkedBy

(* Without markers there are no sets. *)
LEMMA RefinementInit == MarkersInit => Sets!Init
BY DEF MarkersInit, Sets!Init

(* A marker that is handed out is a new and empty set. *)
LEMMA CreateRefines ==
  ASSUME MarkersInv, CreateNewMarker
  PROVE  Sets!Create
<1>1. /\ NewMarker \in AllMarkers \ live
      /\ MarkedBy(marks, NewMarker) = {}
  <2>1. NewMarker \in AllMarkers /\ ColorOf(NewMarker) \notin colors
    BY NewMarkerParts DEF MarkersInv, CreateNewMarker
  <2> QED
    BY <2>1, FreshIsUnseen
       DEF FreshMarkerUnseen, CreateNewMarker, MarkersInv, LiveColorsDistinct
<1>2. Members' = [x \in live \cup {NewMarker} |->
                    IF x = NewMarker THEN {} ELSE Members[x]]
  BY <1>1 DEF Members, CreateNewMarker, MarkedBy
<1>3. Cardinality(live) < COLORS_NUM
  BY LiveInjectsIntoColors DEF CreateNewMarker
<1>4. DOMAIN Members = live
  BY DEF Members
<1> QED
  BY ZenonT(60), <1>1, <1>2, <1>3, <1>4 DEF Sets!Create, Sets!Cardinality, Cardinality, Members

(* Every step of the manager and of the blocks is a step of the sets or    *)
(* leaves them alone.                                                      *)
LEMMA StepRefines == MarkersInv /\ [MarkersNext]_markerVars => [Sets!Next]_Members
<1> SUFFICES ASSUME MarkersInv, [MarkersNext]_markerVars
             PROVE  [Sets!Next]_Members
  OBVIOUS
<1>1. DOMAIN Members = live
  BY DEF Members
<1>2. CASE CreateNewMarker
  BY <1>2, CreateRefines DEF Sets!Next, Members
<1>3. CASE CreateNewMarkerAborts \/ UNCHANGED markerVars
  BY <1>3 DEF CreateNewMarkerAborts, markerVars, Members, MarkedBy
<1>4. ASSUME NEW m \in live, EraseMarker(m)
      PROVE  [Sets!Next]_Members
  <2>1. Sets!Free(m)
    BY <1>4 DEF EraseMarker, Sets!Free, Members, MarkedBy
  <2> QED
    BY <2>1, <1>1 DEF Sets!Next, Members
<1>5. ASSUME NEW m \in live, NEW b \in Blocks, SetMarker(b, m)
      PROVE  [Sets!Next]_Members
  <2>1. Members' = [n \in live |-> MarkedBy(WithMarker(marks, b, m), n)]
    BY <1>5 DEF SetMarker, Members, MarkedBy
  <2>2. Sets!Insert(m, b)
    <3>0. \A n \in live : MarkedBy(WithMarker(marks, b, m), n) =
                           IF n = m THEN MarkedBy(marks, n) \cup {b} ELSE MarkedBy(marks, n)
      BY MarkingIsLocal
    <3>1. Members' = [Members EXCEPT ![m] = @ \cup {b}]
      BY <2>1, <3>0 DEF Members
    <3> QED
      BY <3>1 DEF Sets!Insert, Members
  <2> QED
    BY <2>2, <1>1 DEF Sets!Next, Members
<1>6. ASSUME NEW m \in live, NEW b \in Blocks, UnsetMarker(b, m)
      PROVE  [Sets!Next]_Members
  <2>1. Members' = [n \in live |-> MarkedBy(WithoutMarker(marks, b, m), n)]
    BY <1>6 DEF UnsetMarker, Members, MarkedBy
  <2>2. Sets!Delete(m, b)
    <3>0. \A n \in live : MarkedBy(WithoutMarker(marks, b, m), n) =
                           IF n = m THEN MarkedBy(marks, n) \ {b} ELSE MarkedBy(marks, n)
      BY MarkingIsLocal
    <3>1. Members' = [Members EXCEPT ![m] = @ \ {b}]
      BY <2>1, <3>0 DEF Members
    <3> QED
      BY <3>1 DEF Sets!Delete, Members
  <2> QED
    BY <2>2, <1>1 DEF Sets!Next, Members
<1>7. ASSUME NEW b \in Blocks, ClearMarkers(b)
      PROVE  [Sets!Next]_Members
  <2>1. Members' = [n \in live |-> MarkedBy(WithoutMarkers(marks, b), n)]
    BY <1>7 DEF ClearMarkers, Members, MarkedBy
  <2>2. Sets!DeleteAll(b)
    BY <2>1, <1>7, MarkingIsLocal DEF Sets!DeleteAll, Members
  <2> QED
    BY <2>2, <1>1 DEF Sets!Next, Members
<1> QED
  BY <1>2, <1>3, <1>4, <1>5, <1>6, <1>7 DEF MarkersNext

(* Every traversal may reason about a marker as a set of blocks that       *)
(* starts empty and that only it changes.                                  *)
THEOREM Refinement == MarkersSpec => ImplementsSets
<1>1. MarkersInit => Sets!Init
  BY RefinementInit
<1>2. MarkersInv /\ [MarkersNext]_markerVars => [Sets!Next]_Members
  BY StepRefines
<1> QED
  BY <1>1, <1>2, MarkersInvariant, PTL DEF MarkersSpec, ImplementsSets, Sets!Spec, Members

=============================================================================
