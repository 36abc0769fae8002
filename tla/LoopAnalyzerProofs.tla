------------------------- MODULE LoopAnalyzerProofs -------------------------
(***************************************************************************)
(* Proofs about LoopAnalyzer.tla, for every finite graph.                  *)
(*                                                                         *)
(* AnalyzerInv is the inductive invariant: BuildPart while the dominator   *)
(* tree is built, which is BuildInv of DominatorTreeProofs.tla and leaves  *)
(* a connected graph and an empty stack, and LoopPart for what follows.    *)
(* Two markers of different colors with no block are created.  During the  *)
(* walk the gray blocks are those on the stack, the black ones those seen, *)
(* and every edge that is done with led to a finished block or made a      *)
(* latch: so the latches cut every cycle among the finished blocks, and    *)
(* when the stack is empty all blocks are finished.  What follows leaves   *)
(* the latches alone and holds one marker at a time.                       *)
(*                                                                         *)
(* NaturalInv, on top of it, is about the loops.  Dominance orders the     *)
(* blocks and the vector; the walk makes a latch of every edge back to a   *)
(* block that dominates it; PopulateLoops takes the headers from the last  *)
(* of the vector to the first, so the inner loops come before the outer    *)
(* ones, and after each header the loops done are the natural ones.        *)
(*                                                                         *)
(* DominatorTreeProofs is instantiated as late as possible: every proof    *)
(* after it carries all of it along.                                       *)
(***************************************************************************)
EXTENDS LoopAnalyzer, SequenceTheorems, FiniteSetTheorems, TLAPS

(* The marker manager, with what is proved about it. *)
MP == INSTANCE MarkersProofs
-----------------------------------------------------------------------------
(* The places of the analysis during Build... *)
BuildPlaces == {"begin", "rpo", "take", "remove", "dfs", "idom", "built"}

(* ... and after it. *)
LaterPlaces == {"gray", "walk", "latches", "populate", "search", "done"}

(* No header is known. *)
NoLatches == latches = [h \in Blocks |-> {}]

(* The colors in use are those of the markers in use, and which these are  *)
(* is a matter of the place.                                               *)
ColorsInUse == colors = {ColorOf(m) : m \in live}

(* Who holds a marker, and where. *)
MarkersHeld ==
  /\ pc \in BuildPlaces =>
       live = IF pc \in {"rpo", "remove", "dfs"} THEN {marker} ELSE {}
  /\ pc \in {"gray", "search"} => live = {blackMrk}
  /\ pc \in {"walk", "latches"} => live = {blackMrk, grayMrk}
  /\ pc \in {"populate", "done"} => live = {}

(* What Build leaves is a connected graph. *)
TreeDone == pc \in LaterPlaces => succs \in CFGS /\ Reachable(succs) = Blocks

(* The blocks that carry the black marker, and the gray one. *)
Black == MarkedBy(marks, blackMrk)

Gray  == MarkedBy(marks, grayMrk)

(* Neither marker touches the marks of the other. *)
TwoMarkers ==
  /\ marks \in Marks /\ {blackMrk, grayMrk} \subseteq AllMarkers
  /\ ColorOf(blackMrk) # ColorOf(grayMrk) /\ ValueOf(grayMrk) # UNMARKER

(* Before the walk each of the markers is on no block. *)
BeforeWalk ==
  /\ outcome = "running" /\ pc = "gray" =>
       MP!MarkersInv /\ NoLatches /\ stack = <<>> /\ Black = {}
  /\ pc = "walk" =>
       TwoMarkers /\ NoLatches /\ stack = <<>> /\ Black = {} /\ Gray = {}

(* The gray blocks are those on the stack, and black, too.  An activation  *)
(* can be reached from those below it.                                     *)
GrayOnStack ==
  /\ stack \in Seq(Frames)
  /\ Gray = OnStack(stack) /\ Gray \subseteq Black /\ Start \in Black
  /\ \A k, l \in 1 .. Len(stack) :
       /\ stack[k].block = stack[l].block => k = l
       /\ k <= l =>
            stack[l].block \in ReachableAvoiding(succs, stack[k].block, {})

(* The i-th successor of b is yet to be looked at. *)
Waiting(b, i) == \E k \in 1 .. Len(stack) : stack[k].block = b /\ stack[k].next <= i

(* The visit of b is waiting for that of c. *)
Visiting(b, c) ==
  \E k \in 1 .. Len(stack) - 1 : stack[k].block = b /\ stack[k + 1].block = c

(* An edge that is done with led to a finished block or made a latch. *)
EdgesFollowed ==
  \A b \in Black : \A i \in 1 .. Len(succs[b]) :
    \/ Waiting(b, i) \/ Visiting(b, succs[b][i])
    \/ succs[b][i] \in Black \ Gray \/ b \in latches[succs[b][i]]

(* The latches cut every cycle among the blocks of F. *)
CutIn(F) ==
  \A S \in (SUBSET F) \ {{}} :
    \E b \in S : \A c \in SuccSet(succs, b) \cap S : b \in latches[c]

(* A latch has an edge to its header, which closes a cycle. *)
LatchesClose ==
  /\ latches \in [Blocks -> SUBSET Blocks]
  /\ \A h \in Blocks : \A l \in latches[h] :
       h \in SuccSet(succs, l) /\ l \in ReachableAvoiding(succs, h, {})

(* Only a block that was visited is a header. *)
HeadersVisited == \A h \in Blocks : latches[h] # {} => h \in Black

(* What holds during the walk. *)
LatchWalk ==
  /\ TwoMarkers /\ GrayOnStack /\ EdgesFollowed /\ CutIn(Black \ Gray)
  /\ HeadersVisited

(* What holds at every place, and what the later ones add. *)
LoopPart ==
  /\ pc \in BuildPlaces \cup LaterPlaces
  /\ ColorsInUse /\ MarkersHeld /\ TreeDone /\ BeforeWalk /\ LatchesClose
  /\ pc = "latches" => LatchWalk
  /\ pc \in {"populate", "search", "done"} => CutIn(Blocks)
-----------------------------------------------------------------------------
(* The loop over the successors goes on: only the activation on top moves. *)
LEMMA LoopOnFrames ==
  ASSUME NEW s \in Seq(Frames), s # <<>>
  PROVE  /\ LoopOn(s) \in Seq(Frames) /\ Len(LoopOn(s)) = Len(s)
         /\ \A k \in 1 .. Len(s) : LoopOn(s)[k].block = s[k].block
         /\ \A k \in 1 .. Len(s) - 1 : LoopOn(s)[k] = s[k]
         /\ LoopOn(s)[Len(s)].next = s[Len(s)].next + 1
<1>1. Len(s) \in Nat \ {0} /\ DOMAIN s = 1 .. Len(s)
  OBVIOUS
<1>2. \A k \in 1 .. Len(s) : s[k] \in Frames
  OBVIOUS
<1>3. LoopOn(s) = [k \in 1 .. Len(s) |->
                     IF k = Len(s) THEN [s[k] EXCEPT !.next = @ + 1] ELSE s[k]]
  BY <1>1 DEF LoopOn
<1>4. \A k \in 1 .. Len(s) : LoopOn(s)[k] \in Frames
  BY <1>1, <1>2, <1>3 DEF Frames
<1>5. LoopOn(s) \in Seq(Frames) /\ Len(LoopOn(s)) = Len(s)
  BY <1>1, <1>3, <1>4
<1> QED
  BY <1>1, <1>2, <1>3, <1>5 DEF Frames

(* A return keeps the activations below. *)
LEMMA PopFrames ==
  ASSUME NEW s \in Seq(Frames), s # <<>>
  PROVE  /\ Pop(s) \in Seq(Frames) /\ Len(Pop(s)) = Len(s) - 1
         /\ \A k \in 1 .. Len(s) - 1 : Pop(s)[k] = s[k]
BY DEF Pop

(* The walk goes on to the next successor of the block on top. *)
LEMMA Onward ==
  ASSUME succs \in [Blocks -> Seq(Blocks)], stack \in Seq(Frames), stack # <<>>,
         ~LoopDone(succs, stack)
  PROVE  /\ Len(stack) \in Nat \ {0} /\ stack[Len(stack)] = Top(stack)
         /\ Top(stack).block \in Blocks /\ SuccBlock(succs, stack) \in Blocks
         /\ Top(stack).next \in 1 .. Len(succs[Top(stack).block])
         /\ SuccBlock(succs, stack) = succs[Top(stack).block][Top(stack).next]
         /\ SuccBlock(succs, stack) \in SuccSet(succs, Top(stack).block)
         /\ LoopOn(stack) \in Seq(Frames) /\ Len(LoopOn(stack)) = Len(stack)
         /\ \A k \in 1 .. Len(stack) : LoopOn(stack)[k].block = stack[k].block
         /\ \A k \in 1 .. Len(stack) - 1 : LoopOn(stack)[k] = stack[k]
         /\ LoopOn(stack)[Len(stack)].next = Top(stack).next + 1
<1>1. /\ Len(stack) \in Nat \ {0} /\ stack[Len(stack)] = Top(stack)
      /\ LoopOn(stack) \in Seq(Frames) /\ Len(LoopOn(stack)) = Len(stack)
      /\ \A k \in 1 .. Len(stack) : LoopOn(stack)[k].block = stack[k].block
      /\ \A k \in 1 .. Len(stack) - 1 : LoopOn(stack)[k] = stack[k]
      /\ LoopOn(stack)[Len(stack)].next = stack[Len(stack)].next + 1
  BY LoopOnFrames DEF Top
<1>2. Top(stack) \in Frames
  BY <1>1
<1>3. Top(stack).block \in Blocks /\ Top(stack).next \in Nat \ {0}
  BY <1>2 DEF Frames
<1>4. succs[Top(stack).block] \in Seq(Blocks)
  BY <1>3
<1>5. Top(stack).next \in 1 .. Len(succs[Top(stack).block])
  BY <1>3, <1>4 DEF LoopDone
<1> QED
  BY <1>1, <1>3, <1>4, <1>5 DEF SuccBlock, SuccSet

(* A visit is a new activation on top of the others. *)
LEMMA Deeper ==
  ASSUME NEW s \in Seq(Frames), NEW b \in Blocks
  PROVE  /\ Append(s, Call(b)) \in Seq(Frames)
         /\ Len(Append(s, Call(b))) = Len(s) + 1
         /\ \A k \in 1 .. Len(s) : Append(s, Call(b))[k] = s[k]
         /\ Append(s, Call(b))[Len(s) + 1].block = b
         /\ Append(s, Call(b))[Len(s) + 1].next = 1
<1>1. Call(b) \in Frames /\ Call(b).block = b /\ Call(b).next = 1
  BY DEF Call, Frames
<1> HIDE DEF Call
<1> QED
  BY <1>1

(* A return drops the activation on top. *)
LEMMA Back ==
  ASSUME stack \in Seq(Frames), stack # <<>>
  PROVE  /\ Len(stack) \in Nat \ {0} /\ stack[Len(stack)] = Top(stack)
         /\ Top(stack).block \in Blocks /\ Top(stack).next \in Nat \ {0}
         /\ Pop(stack) \in Seq(Frames) /\ Len(Pop(stack)) = Len(stack) - 1
         /\ \A k \in 1 .. Len(stack) - 1 : Pop(stack)[k] = stack[k]
<1>1. Len(stack) \in Nat \ {0} /\ stack[Len(stack)] = Top(stack)
  BY DEF Top
<1>2. Top(stack) \in Frames
  BY <1>1
<1>3. /\ Pop(stack) \in Seq(Frames) /\ Len(Pop(stack)) = Len(stack) - 1
      /\ \A k \in 1 .. Len(stack) - 1 : Pop(stack)[k] = stack[k]
  BY PopFrames
<1> QED
  BY <1>1, <1>2, <1>3 DEF Frames

(* What can be reached is closed under successors, and the least such set. *)
LEMMA ReachableGrows ==
  ASSUME succs \in [Blocks -> Seq(Blocks)], NEW from \in Blocks,
         NEW b \in ReachableAvoiding(succs, from, {}), NEW c \in SuccSet(succs, b)
  PROVE  c \in ReachableAvoiding(succs, from, {})
<1>1. b \in Blocks /\ succs[b] \in Seq(Blocks)
  BY DEF ReachableAvoiding
<1>2. c \in Blocks
  BY <1>1 DEF SuccSet
<1>3. ASSUME NEW S \in SUBSET Blocks, from \in S, ClosedAvoiding(succs, {}, S)
      PROVE  c \in S
  BY <1>3 DEF ReachableAvoiding, ClosedAvoiding
<1> QED
  BY <1>2, <1>3 DEF ReachableAvoiding

(* A block can be reached from itself. *)
LEMMA ReachableBegins ==
  ASSUME NEW from \in Blocks
  PROVE  from \in ReachableAvoiding(succs, from, {})
BY DEF ReachableAvoiding

(* A set that holds the start and is closed holds a connected graph. *)
LEMMA ClosedIsAll ==
  ASSUME Reachable(succs) = Blocks, NEW S \in SUBSET Blocks, Start \in S,
         \A b \in S : SuccSet(succs, b) \subseteq S
  PROVE  S = Blocks
BY DEF Reachable, ReachableAvoiding, ClosedAvoiding
-----------------------------------------------------------------------------
(* The marker manager. *)
LEMMA SameMarkers ==
  /\ MP!Marks = Marks /\ MP!AllMarkers = AllMarkers /\ MP!Colors = Colors
  /\ \A m : MP!ColorOf(m) = ColorOf(m) /\ MP!ValueOf(m) = ValueOf(m)
  /\ \A m : M!ColorOf(m) = ColorOf(m)
  /\ \A ms, m : MP!MarkedBy(ms, m) = MarkedBy(ms, m)
  /\ MP!IsFiniteSet(Blocks)
BY LoopAnalyzerAssumption
   DEF MP!Marks, Marks, MP!AllMarkers, AllMarkers, MP!Colors, Colors, MP!ColorOf, ColorOf,
       M!ColorOf, M!COLORS_NUM, MP!ValueOf, ValueOf, MP!COLORS_NUM, COLORS_NUM,
       MP!MarkedBy, MarkedBy, MP!IsMarked, IsMarked, MP!IsFiniteSet, IsFiniteSet

(* A new marker is on no block, and has a color of its own. *)
LEMMA FreshMarker ==
  ASSUME MP!MarkersInv, M!IndexAvailable, M!FreeColors # {}
  PROVE  /\ M!NewMarker = MP!NewMarker /\ M!Min(M!FreeColors) = MP!Min(MP!FreeColors)
         /\ MP!IndexAvailable /\ MP!FreeColors # {}
         /\ M!NewMarker \in AllMarkers
         /\ ValueOf(M!NewMarker) = markerIndex + 1
         /\ ColorOf(M!NewMarker) = M!Min(M!FreeColors)
         /\ ColorOf(M!NewMarker) \in Colors \ colors
         /\ MarkedBy(marks, M!NewMarker) = {}
<1>1. M!NewMarker = MP!NewMarker /\ M!FreeColors = MP!FreeColors
  BY Zenon DEF M!NewMarker, MP!NewMarker, M!MarkerOf, MP!MarkerOf, M!Min, MP!Min,
               M!FreeColors, MP!FreeColors, M!Colors, MP!Colors,
               M!COLORS_NUM, MP!COLORS_NUM
<1>2. M!Min(M!FreeColors) = MP!Min(MP!FreeColors)
  BY <1>1, Zenon DEF M!Min, MP!Min
<1>3. MP!IndexAvailable /\ MP!FreeColors # {}
  BY <1>1 DEF M!IndexAvailable, MP!IndexAvailable
<1>4. /\ MP!NewMarker \in MP!AllMarkers
      /\ MP!ValueOf(MP!NewMarker) = markerIndex + 1
      /\ MP!ColorOf(MP!NewMarker) = MP!Min(MP!FreeColors)
      /\ MP!Min(MP!FreeColors) \in MP!Colors \ colors
  BY <1>3, MP!NewMarkerParts, IndexValuesAssumption, LoopAnalyzerAssumption
     DEF MP!MarkersInv
<1>5. MP!MarkedBy(marks, MP!NewMarker) = {}
  BY <1>3, MP!FreshIsUnseen, IndexValuesAssumption, LoopAnalyzerAssumption
     DEF MP!FreshMarkerUnseen
<1> QED
  BY <1>1, <1>2, <1>3, <1>4, <1>5, SameMarkers

LEMMA MarkerCreated ==
  ASSUME MP!MarkersInv, M!CreateNewMarker
  PROVE  /\ MP!MarkersInv' /\ M!NewMarker \in AllMarkers
         /\ live' = live \cup {M!NewMarker}
         /\ colors' = colors \cup {ColorOf(M!NewMarker)}
         /\ ColorOf(M!NewMarker) \notin colors
         /\ ValueOf(M!NewMarker) # UNMARKER
         /\ marks' = marks /\ MarkedBy(marks, M!NewMarker) = {}
         /\ outcome' = outcome
<1>1. /\ M!NewMarker = MP!NewMarker /\ M!Min(M!FreeColors) = MP!Min(MP!FreeColors)
      /\ MP!IndexAvailable /\ MP!FreeColors # {}
      /\ M!NewMarker \in AllMarkers /\ ValueOf(M!NewMarker) = markerIndex + 1
      /\ ColorOf(M!NewMarker) = M!Min(M!FreeColors)
      /\ ColorOf(M!NewMarker) \notin colors /\ MarkedBy(marks, M!NewMarker) = {}
  BY FreshMarker DEF M!CreateNewMarker
<1>2. MP!CreateNewMarker
  BY <1>1 DEF M!CreateNewMarker, MP!CreateNewMarker
<1>3. MP!MarkersInv'
  BY <1>2, MP!CreateNewMarkerInv, IndexValuesAssumption, LoopAnalyzerAssumption
<1>4. markerIndex + 1 # UNMARKER
  BY DEF MP!MarkersInv, MP!MarkersTypeOK, UNMARKER
<1> QED
  BY <1>1, <1>3, <1>4 DEF M!CreateNewMarker

(* What a step of Build does with its markers, and where. *)
LEMMA BuildStepMarkers ==
  ASSUME T!BuildStep
  PROVE  /\ outcome = "running"
         /\ pc \in BuildPlaces \ {"built"} /\ pc' \in BuildPlaces
         /\ \/ colors' = colors /\ live' = live
            \/ M!CreateNewMarker /\ pc \in {"begin", "take"}
            \/ M!EraseMarker(marker) /\ pc \in {"rpo", "dfs"}
<1>1. T!M!NewMarker = M!NewMarker /\ T!M!FreeColors = M!FreeColors
  BY Zenon DEF T!M!NewMarker, M!NewMarker, T!M!MarkerOf, M!MarkerOf, T!M!Min, M!Min,
               T!M!FreeColors, M!FreeColors, T!M!Colors, M!Colors,
               T!M!COLORS_NUM, M!COLORS_NUM
<1>2. T!M!Min(T!M!FreeColors) = M!Min(M!FreeColors)
  BY <1>1, Zenon DEF T!M!Min, M!Min
<1>3. T!M!CreateNewMarker => M!CreateNewMarker
  BY <1>1, <1>2
     DEF T!M!CreateNewMarker, M!CreateNewMarker, T!M!IndexAvailable, M!IndexAvailable
<1>4. T!M!EraseMarker(marker) => M!EraseMarker(marker)
  BY DEF T!M!EraseMarker, M!EraseMarker, T!M!ColorOf, M!ColorOf, T!M!COLORS_NUM,
         M!COLORS_NUM
<1>5. CASE T!RunRpo \/ T!TakeMarker
  BY <1>3, <1>5
     DEF T!RunRpo, T!TakeMarker, T!CreateMarker, T!Running, T!M!CreateNewMarkerAborts,
         BuildPlaces
<1>6. CASE T!StartTree \/ T!CalculateDominatedBlocks
  BY <1>4, <1>6 DEF T!StartTree, T!CalculateDominatedBlocks, T!Running, BuildPlaces
<1>7. CASE T!RpoWalk \/ T!DfsWalk
  BY <1>7 DEF T!RpoWalk, T!DfsWalk, T!Running, BuildPlaces
<1>8. CASE T!TakeBlockOut \/ T!EndOfLoop \/ T!EndOfBuild \/ T!CalculateImmediateDominators
  BY <1>8
     DEF T!TakeBlockOut, T!EndOfLoop, T!EndOfBuild, T!CalculateImmediateDominators,
         T!Running, T!M!SetMarker, T!markerState, BuildPlaces
<1>9. CASE T!TakeNullOut \/ T!DominatedWithoutEntry \/ T!ImmediateWithoutEntry
             \/ T!ImmediateOfNull
  BY <1>9
     DEF T!TakeNullOut, T!DominatedWithoutEntry, T!ImmediateWithoutEntry,
         T!ImmediateOfNull, T!Running, T!Halt, BuildPlaces
<1> QED
  BY <1>5, <1>6, <1>7, <1>8, <1>9 DEF T!BuildStep
-----------------------------------------------------------------------------
(* The gray marker, of another color than the black one. *)
LEMMA CreateGrayMarkerInv ==
  ASSUME LoopPart, CreateGrayMarker
  PROVE  LoopPart'
<1>1. /\ outcome = "running" /\ pc = "gray"
      /\ UNCHANGED <<succs, stack, latches, blackMrk>>
  BY DEF CreateGrayMarker, Running, loopState
<1>2. /\ MP!MarkersInv /\ NoLatches /\ stack = <<>> /\ Black = {}
      /\ live = {blackMrk} /\ colors = {ColorOf(m) : m \in live}
  BY <1>1 DEF LoopPart, BeforeWalk, MarkersHeld, ColorsInUse
<1>3. LatchesClose' /\ TreeDone'
  <2>1. UNCHANGED <<succs, latches>> /\ pc \in LaterPlaces
    BY <1>1 DEF LaterPlaces
  <2> QED
    BY <2>1 DEF LoopPart, LatchesClose, TreeDone
<1>4. CASE M!CreateNewMarker /\ grayMrk' = M!NewMarker /\ pc' = "walk"
  <2>1. /\ M!NewMarker \in AllMarkers
        /\ live' = live \cup {M!NewMarker}
        /\ colors' = colors \cup {ColorOf(M!NewMarker)}
        /\ ColorOf(M!NewMarker) \notin colors
        /\ ValueOf(M!NewMarker) # UNMARKER
        /\ marks' = marks /\ MarkedBy(marks, M!NewMarker) = {}
    BY <1>2, <1>4, MarkerCreated
  <2>2. ColorsInUse'
    BY <2>1, <1>2 DEF ColorsInUse
  <2>3. MarkersHeld'
    BY <2>1, <1>1, <1>2, <1>4 DEF MarkersHeld, BuildPlaces
  <2>4. marks \in Marks /\ blackMrk \in AllMarkers
    BY <1>2, SameMarkers DEF MP!MarkersInv, MP!MarkersTypeOK
  <2>5. TwoMarkers'
    BY <2>1, <2>4, <1>1, <1>2, <1>4 DEF TwoMarkers
  <2>6. BeforeWalk'
    BY <2>1, <2>5, <1>1, <1>2, <1>4 DEF BeforeWalk, NoLatches, Black, Gray
  <2> QED
    BY <2>2, <2>3, <2>6, <1>3, <1>4 DEF LoopPart, BuildPlaces, LaterPlaces
<1>5. CASE M!CreateNewMarkerAborts /\ UNCHANGED <<grayMrk, pc>>
  <2>1. colors' = colors /\ live' = live /\ outcome' # "running" /\ pc' = "gray"
    BY <1>1, <1>5 DEF M!CreateNewMarkerAborts
  <2>2. ColorsInUse'
    BY <2>1, <1>2 DEF ColorsInUse
  <2>3. MarkersHeld'
    BY <2>1, <1>1, <1>2 DEF MarkersHeld, BuildPlaces
  <2>4. BeforeWalk'
    BY <2>1 DEF BeforeWalk
  <2> QED
    BY <2>1, <2>2, <2>3, <2>4, <1>3 DEF LoopPart, BuildPlaces, LaterPlaces
<1> QED
  BY <1>4, <1>5 DEF CreateGrayMarker
-----------------------------------------------------------------------------
(* The walk.  A step of it keeps the markers in use and the graph.         *)
LEMMA WalkKeeps ==
  ASSUME LoopPart, pc \in {"walk", "latches"}, pc' = "latches",
         UNCHANGED <<colors, live, succs, blackMrk, grayMrk>>, LatchesClose', LatchWalk'
  PROVE  LoopPart'
<1>1. ColorsInUse'
  BY DEF LoopPart, ColorsInUse
<1>2. MarkersHeld'
  BY DEF LoopPart, MarkersHeld, BuildPlaces
<1>3. TreeDone'
  BY DEF LoopPart, TreeDone, LaterPlaces
<1> QED
  BY <1>1, <1>2, <1>3 DEF LoopPart, BeforeWalk, BuildPlaces, LaterPlaces

(* The first thing a visit does puts both markers on the block... *)
LEMMA EnterMarks ==
  ASSUME TwoMarkers, NEW b \in Blocks,
         marks' = WithMarker(WithMarker(marks, b, blackMrk), b, grayMrk),
         UNCHANGED <<blackMrk, grayMrk>>
  PROVE  TwoMarkers' /\ Black' = Black \cup {b} /\ Gray' = Gray \cup {b}
<1>1. /\ ColorOf(blackMrk) \in Colors /\ ColorOf(grayMrk) \in Colors
      /\ ValueOf(blackMrk) \in Nat /\ ValueOf(grayMrk) \in Nat
  BY IndexValuesAssumption
     DEF TwoMarkers, AllMarkers, ColorOf, ValueOf, Colors, COLORS_NUM
<1>2. ColorOf(blackMrk) # ColorOf(grayMrk) /\ marks \in [Blocks -> [Colors -> Nat]]
  BY DEF TwoMarkers, Marks
<1>3. marks' \in [Blocks -> [Colors -> Nat]]
  BY <1>1, <1>2 DEF WithMarker
<1>4. \A x \in Blocks :
        /\ marks'[x][ColorOf(blackMrk)] = ValueOf(blackMrk) <=>
             x = b \/ marks[x][ColorOf(blackMrk)] = ValueOf(blackMrk)
        /\ marks'[x][ColorOf(grayMrk)] = ValueOf(grayMrk) <=>
             x = b \/ marks[x][ColorOf(grayMrk)] = ValueOf(grayMrk)
  BY <1>1, <1>2 DEF WithMarker
<1> QED
  BY <1>3, <1>4 DEF TwoMarkers, Marks, Black, Gray, MarkedBy, IsMarked

(* ... and the last thing it does takes the gray one back, and only that.  *)
LEMMA ReturnMarks ==
  ASSUME TwoMarkers, NEW b \in Blocks, marks' = WithoutMarker(marks, b, grayMrk),
         UNCHANGED <<blackMrk, grayMrk>>
  PROVE  TwoMarkers' /\ Black' = Black /\ Gray' = Gray \ {b}
<1>1. /\ ColorOf(blackMrk) \in Colors /\ ColorOf(grayMrk) \in Colors
      /\ ValueOf(grayMrk) # UNMARKER /\ UNMARKER \in Nat
  BY IndexValuesAssumption
     DEF TwoMarkers, AllMarkers, ColorOf, Colors, COLORS_NUM, UNMARKER
<1>2. ColorOf(blackMrk) # ColorOf(grayMrk) /\ marks \in [Blocks -> [Colors -> Nat]]
  BY DEF TwoMarkers, Marks
<1>3. marks' \in [Blocks -> [Colors -> Nat]]
  BY <1>1, <1>2 DEF WithoutMarker
<1>4. \A x \in Blocks :
        /\ marks'[x][ColorOf(blackMrk)] = marks[x][ColorOf(blackMrk)]
        /\ marks'[x][ColorOf(grayMrk)] = ValueOf(grayMrk) <=>
             x # b /\ marks[x][ColorOf(grayMrk)] = ValueOf(grayMrk)
  BY <1>1, <1>2 DEF WithoutMarker
<1> QED
  BY <1>3, <1>4 DEF TwoMarkers, Marks, Black, Gray, MarkedBy, IsMarked

(* The walk begins at the start block. *)
LEMMA CollectLatchesInv ==
  ASSUME LoopPart, CollectLatches
  PROVE  LoopPart'
<1>1. /\ pc = "walk" /\ pc' = "latches"
      /\ UNCHANGED <<colors, live, succs, blackMrk, grayMrk, latches>>
      /\ marks' = WithMarker(WithMarker(marks, Start, blackMrk), Start, grayMrk)
      /\ stack' = Append(stack, Call(Start))
  BY DEF CollectLatches, EnterBlock, WalkUnchanged, loopState, Running
<1>2. TwoMarkers /\ NoLatches /\ stack = <<>> /\ Black = {} /\ Gray = {}
  BY <1>1 DEF LoopPart, BeforeWalk
<1>3. succs \in [Blocks -> Seq(Blocks)]
  BY <1>1, CfgsAssumption DEF LoopPart, TreeDone, LaterPlaces
<1>4. TwoMarkers' /\ Black' = {Start} /\ Gray' = {Start}
  BY <1>1, <1>2, EnterMarks, StartAssumption
<1>5. /\ stack' \in Seq(Frames) /\ Len(stack') = 1
      /\ stack'[1].block = Start /\ stack'[1].next = 1
  <2>1. <<>> \in Seq(Frames) /\ Len(<<>>) = 0 /\ 0 + 1 = 1
    OBVIOUS
  <2>2. stack \in Seq(Frames) /\ Len(stack) + 1 = 1
    BY <1>2, <2>1
  <2> QED
    BY <1>1, <2>2, Deeper, StartAssumption
<1>6. GrayOnStack'
  <2>1. OnStack(stack') = {Start}
    BY <1>5 DEF OnStack
  <2>2. Start \in ReachableAvoiding(succs', Start, {})
    BY StartAssumption, ReachableBegins, <1>1
  <2>3. \A k \in 1 .. Len(stack') : k = 1
    BY <1>5
  <2> QED
    BY <1>4, <1>5, <2>1, <2>2, <2>3 DEF GrayOnStack
<1>7. EdgesFollowed'
  <2>1. \A i \in 1 .. Len(succs'[Start]) : Waiting(Start, i)'
    BY <1>5, <1>1, <1>3, StartAssumption DEF Waiting
  <2> QED
    BY <2>1, <1>4 DEF EdgesFollowed
<1>8. CutIn(Black \ Gray)'
  BY <1>4 DEF CutIn
<1>9. LatchesClose' /\ HeadersVisited'
  BY <1>1, <1>2 DEF LoopPart, LatchesClose, HeadersVisited, NoLatches
<1> QED
  BY <1>1, <1>4, <1>6, <1>7, <1>8, <1>9, WalkKeeps DEF LatchWalk

(* What holds in the loop of a visit. *)
LEMMA InWalk ==
  ASSUME LoopPart, pc = "latches"
  PROVE  /\ LatchWalk /\ LatchesClose /\ stack \in Seq(Frames)
         /\ succs \in [Blocks -> Seq(Blocks)]
BY CfgsAssumption DEF LoopPart, TreeDone, LaterPlaces, LatchWalk, GrayOnStack

(* The set CutIn asks for grows with the latches. *)
LEMMA CutKept ==
  ASSUME latches \in [Blocks -> SUBSET Blocks], succs \in [Blocks -> Seq(Blocks)],
         \A h \in Blocks : latches[h] \subseteq latches'[h],
         UNCHANGED succs, NEW F \in SUBSET Blocks, NEW G \in SUBSET F, CutIn(F)
  PROVE  \A S \in (SUBSET G) \ {{}} :
           \E b \in S : \A c \in SuccSet(succs', b) \cap S : b \in latches'[c]
<1> TAKE S \in (SUBSET G) \ {{}}
<1>1. PICK b \in S : \A c \in SuccSet(succs, b) \cap S : b \in latches[c]
  BY DEF CutIn
<1>2. \A c \in SuccSet(succs', b) \cap S : b \in latches'[c]
  BY <1>1
<1> QED
  BY <1>2

(* A successor nobody has seen is visited. *)
LEMMA LatchVisitInv ==
  ASSUME LoopPart, LatchVisit
  PROVE  LoopPart'
<1>0. PICK c : c = SuccBlock(succs, stack)
  OBVIOUS
<1> DEFINE t == Top(stack).block
           n == Len(stack)
           s == LoopOn(stack)
<1>1. /\ pc = "latches" /\ pc' = "latches" /\ stack # <<>> /\ ~LoopDone(succs, stack)
      /\ c \notin Gray /\ c \notin Black
      /\ UNCHANGED <<colors, live, succs, blackMrk, grayMrk, latches>>
      /\ marks' = WithMarker(WithMarker(marks, c, blackMrk), c, grayMrk)
      /\ stack' = Append(s, Call(c))
  BY <1>0
     DEF LatchVisit, EnterBlock, WalkUnchanged, loopState, Running, Gray, Black, MarkedBy
<1>2. /\ LatchWalk /\ LatchesClose /\ stack \in Seq(Frames)
      /\ succs \in [Blocks -> Seq(Blocks)]
  BY <1>1, InWalk
<1>3. /\ n \in Nat \ {0} /\ stack[n] = Top(stack) /\ t \in Blocks /\ c \in Blocks
      /\ Top(stack).next \in 1 .. Len(succs[t]) /\ c = succs[t][Top(stack).next]
      /\ c \in SuccSet(succs, t) /\ s \in Seq(Frames) /\ Len(s) = n
      /\ \A k \in 1 .. n : s[k].block = stack[k].block
      /\ \A k \in 1 .. n - 1 : s[k] = stack[k]
      /\ s[n].next = Top(stack).next + 1
  BY <1>0, <1>1, <1>2, Onward
<1>4. /\ stack' \in Seq(Frames) /\ Len(stack') = n + 1
      /\ \A k \in 1 .. n : stack'[k] = s[k]
      /\ stack'[n + 1].block = c /\ stack'[n + 1].next = 1
  BY <1>1, <1>3, Deeper
<1> HIDE DEF t, n, s
<1>5. TwoMarkers' /\ Black' = Black \cup {c} /\ Gray' = Gray \cup {c}
  BY <1>1, <1>2, <1>3, EnterMarks DEF LatchWalk
<1>6. GrayOnStack'
  <2>1. \A k \in 1 .. n : stack'[k].block = stack[k].block
    BY <1>3, <1>4
  <2>2. OnStack(stack') = OnStack(stack) \cup {c}
    <3>1. 1 .. n + 1 = (1 .. n) \cup {n + 1}
      BY <1>3
    <3> QED
      BY <2>1, <3>1, <1>4 DEF OnStack, n
  <2>3. \A k \in 1 .. n : c # stack[k].block
    BY <1>1, <1>2 DEF LatchWalk, GrayOnStack, OnStack, n
  <2>4. \A k \in 1 .. n : c \in ReachableAvoiding(succs, stack[k].block, {})
    <3> TAKE k \in 1 .. n
    <3>1. t \in ReachableAvoiding(succs, stack[k].block, {})
      BY <1>2, <1>3 DEF LatchWalk, GrayOnStack, n, t
    <3>2. stack[k] \in Frames
      BY <1>2 DEF n
    <3>3. stack[k].block \in Blocks
      BY <3>2 DEF Frames
    <3> QED
      BY <3>1, <3>3, <1>2, <1>3, ReachableGrows
  <2>5. c \in ReachableAvoiding(succs, c, {})
    BY <1>3, ReachableBegins
  <2>6. ASSUME NEW k \in 1 .. Len(stack'), NEW l \in 1 .. Len(stack')
        PROVE  /\ stack'[k].block = stack'[l].block => k = l
               /\ k <= l => stack'[l].block
                              \in ReachableAvoiding(succs', stack'[k].block, {})
    <3>1. k \in 1 .. n \/ k = n + 1
      BY <1>3, <1>4
    <3>2. l \in 1 .. n \/ l = n + 1
      BY <1>3, <1>4
    <3>3. CASE k \in 1 .. n /\ l \in 1 .. n
      BY <3>3, <2>1, <1>1, <1>2 DEF LatchWalk, GrayOnStack, n
    <3>4. CASE k \in 1 .. n /\ l = n + 1
      BY <3>4, <2>1, <2>3, <2>4, <1>1, <1>4
    <3>5. CASE k = n + 1 /\ l \in 1 .. n
      BY <3>5, <2>1, <2>3, <1>3, <1>4
    <3>6. CASE k = n + 1 /\ l = n + 1
      BY <3>6, <2>5, <1>1, <1>4
    <3> QED
      BY <3>1, <3>2, <3>3, <3>4, <3>5, <3>6
  <2> QED
    BY <2>2, <2>6, <1>2, <1>4, <1>5 DEF LatchWalk, GrayOnStack
<1>7. EdgesFollowed'
  <2>1. \A i \in 1 .. Len(succs[c]) : Waiting(c, i)'
    <3>1. n + 1 \in 1 .. Len(stack') /\ stack'[n + 1].block = c
          /\ \A i \in 1 .. Len(succs[c]) : stack'[n + 1].next <= i
      BY <1>3, <1>4
    <3> QED
      BY <3>1 DEF Waiting
  <2>2. ASSUME NEW b \in Black, NEW i \in 1 .. Len(succs[b])
        PROVE  \/ Waiting(b, i)' \/ Visiting(b, succs[b][i])'
               \/ succs[b][i] \in Black \ Gray \/ b \in latches[succs[b][i]]
    <3>1. CASE Waiting(b, i)
      <4>1. PICK k \in 1 .. n : stack[k].block = b /\ stack[k].next <= i
        BY <3>1 DEF Waiting, n
      <4>2. CASE k < n
        <5>1. k \in 1 .. n - 1 /\ k \in 1 .. Len(stack')
          BY <4>2, <1>3, <1>4
        <5>2. stack'[k] = stack[k]
          BY <5>1, <1>3, <1>4
        <5> QED
          BY <4>1, <5>1, <5>2 DEF Waiting
      <4>3. CASE k = n
        <5>1. b = t /\ Top(stack).next <= i
          BY <4>1, <4>3, <1>3 DEF t
        <5>2. CASE i = Top(stack).next
          <6>1. succs[b][i] = c
            BY <5>1, <5>2, <1>3
          <6>2. n \in 1 .. Len(stack') - 1
            BY <1>3, <1>4
          <6>3. stack'[n].block = b /\ stack'[n + 1].block = c
            BY <1>3, <1>4, <4>1, <4>3
          <6> QED
            BY <6>1, <6>2, <6>3, <1>1 DEF Visiting
        <5>3. CASE i # Top(stack).next
          <6>1. Top(stack).next + 1 <= i
            BY <5>1, <5>3, <1>3
          <6>2. n \in 1 .. Len(stack')
            BY <1>3, <1>4
          <6>3. stack'[n].block = b /\ stack'[n].next = Top(stack).next + 1
            BY <1>3, <1>4, <4>1, <4>3
          <6> QED
            BY <6>1, <6>2, <6>3 DEF Waiting
        <5> QED
          BY <5>2, <5>3
      <4> QED
        BY <4>1, <4>2, <4>3, <1>3
    <3>2. CASE Visiting(b, succs[b][i])
      <4>1. PICK k \in 1 .. n - 1 :
              stack[k].block = b /\ stack[k + 1].block = succs[b][i]
        BY <3>2 DEF Visiting, n
      <4>2. k \in 1 .. n /\ k + 1 \in 1 .. n /\ k \in 1 .. Len(stack') - 1
        BY <1>3, <1>4
      <4>3. stack'[k].block = b /\ stack'[k + 1].block = succs[b][i]
        BY <4>1, <4>2, <1>3, <1>4
      <4> QED
        BY <4>2, <4>3, <1>1 DEF Visiting
    <3> QED
      BY <3>1, <3>2, <1>2 DEF LatchWalk, EdgesFollowed
  <2>3. Black' \ Gray' = Black \ Gray
    BY <1>1, <1>5
  <2> QED
    BY <2>1, <2>2, <2>3, <1>1, <1>5 DEF EdgesFollowed
<1>8. CutIn(Black \ Gray)'
  <2>1. Black' \ Gray' = Black \ Gray
    BY <1>1, <1>5
  <2> QED
    BY <2>1, <1>1, <1>2 DEF LatchWalk, CutIn
<1>9. LatchesClose' /\ HeadersVisited'
  BY <1>1, <1>2, <1>5 DEF LatchesClose, LatchWalk, HeadersVisited
<1> QED
  BY <1>1, <1>5, <1>6, <1>7, <1>8, <1>9, WalkKeeps DEF LatchWalk

(* The loop goes on to the next successor when it is done with one, which  *)
(* is finished or of which the block is now a latch.                       *)
LEMMA GoOnInv ==
  ASSUME LoopPart, pc = "latches", pc' = "latches",
         stack # <<>>, ~LoopDone(succs, stack), stack' = LoopOn(stack),
         UNCHANGED <<colors, live, succs, blackMrk, grayMrk, marks>>,
         LatchesClose', HeadersVisited',
         \A h \in Blocks : latches[h] \subseteq latches'[h],
         \/ SuccBlock(succs, stack) \in Black \ Gray
         \/ Top(stack).block \in latches'[SuccBlock(succs, stack)]
  PROVE  LoopPart'
<1>0. PICK c, t, n : c = SuccBlock(succs, stack) /\ t = Top(stack).block /\ n = Len(stack)
  OBVIOUS
<1>1. /\ LatchWalk /\ LatchesClose /\ stack \in Seq(Frames)
      /\ succs \in [Blocks -> Seq(Blocks)]
  BY InWalk
<1>2. /\ n \in Nat \ {0} /\ stack[n] = Top(stack) /\ t \in Blocks /\ c \in Blocks
      /\ Top(stack).next \in 1 .. Len(succs[t]) /\ c = succs[t][Top(stack).next]
      /\ stack' \in Seq(Frames) /\ Len(stack') = n
      /\ \A k \in 1 .. n : stack'[k].block = stack[k].block
      /\ \A k \in 1 .. n - 1 : stack'[k] = stack[k]
      /\ stack'[n].next = Top(stack).next + 1
  BY <1>0, <1>1, Onward
<1>3. TwoMarkers' /\ Black' = Black /\ Gray' = Gray
  BY <1>1 DEF LatchWalk, TwoMarkers, Black, Gray
<1>4. GrayOnStack'
  <2>1. OnStack(stack') = OnStack(stack)
    BY <1>0, <1>2 DEF OnStack
  <2>2. ASSUME NEW k \in 1 .. Len(stack'), NEW l \in 1 .. Len(stack')
        PROVE  /\ stack'[k].block = stack'[l].block => k = l
               /\ k <= l => stack'[l].block
                              \in ReachableAvoiding(succs', stack'[k].block, {})
    BY <1>0, <1>1, <1>2 DEF LatchWalk, GrayOnStack
  <2> QED
    BY <2>1, <2>2, <1>1, <1>2, <1>3 DEF LatchWalk, GrayOnStack
<1>5. EdgesFollowed'
  <2>1. ASSUME NEW b \in Black, NEW i \in 1 .. Len(succs[b])
        PROVE  \/ Waiting(b, i)' \/ Visiting(b, succs[b][i])'
               \/ succs[b][i] \in Black \ Gray \/ b \in latches'[succs[b][i]]
    <3>1. CASE Waiting(b, i)
      <4>1. PICK k \in 1 .. n : stack[k].block = b /\ stack[k].next <= i
        BY <1>0, <3>1 DEF Waiting
      <4>2. CASE k < n
        <5>1. k \in 1 .. n - 1 /\ k \in 1 .. Len(stack')
          BY <4>2, <1>2
        <5>2. stack'[k] = stack[k]
          BY <5>1, <1>2
        <5> QED
          BY <4>1, <5>1, <5>2 DEF Waiting
      <4>3. CASE k = n
        <5>1. b = t /\ Top(stack).next <= i
          BY <4>1, <4>3, <1>0, <1>2
        <5>2. CASE i = Top(stack).next
          <6>1. succs[b][i] = c
            BY <5>1, <5>2, <1>2
          <6> QED
            BY <5>1, <6>1, <1>0
        <5>3. CASE i # Top(stack).next
          <6>1. Top(stack).next + 1 <= i
            BY <5>1, <5>3, <1>2
          <6>2. n \in 1 .. Len(stack')
            BY <1>2
          <6>3. stack'[n].block = b /\ stack'[n].next = Top(stack).next + 1
            BY <1>2, <4>1, <4>3
          <6> QED
            BY <6>1, <6>2, <6>3 DEF Waiting
        <5> QED
          BY <5>2, <5>3
      <4> QED
        BY <4>1, <4>2, <4>3, <1>2
    <3>2. CASE Visiting(b, succs[b][i])
      <4>1. PICK k \in 1 .. n - 1 :
              stack[k].block = b /\ stack[k + 1].block = succs[b][i]
        BY <1>0, <3>2 DEF Visiting
      <4>2. k \in 1 .. n /\ k + 1 \in 1 .. n /\ k \in 1 .. Len(stack') - 1
        BY <1>2
      <4>3. stack'[k].block = b /\ stack'[k + 1].block = succs[b][i]
        BY <4>1, <4>2, <1>2
      <4> QED
        BY <4>2, <4>3 DEF Visiting
    <3>3. succs[b][i] \in Blocks
      BY <1>1 DEF Black, MarkedBy
    <3> QED
      BY <3>1, <3>2, <3>3, <1>1 DEF LatchWalk, EdgesFollowed
  <2> QED
    BY <2>1, <1>3 DEF EdgesFollowed
<1>6. CutIn(Black \ Gray)'
  <2>1. Black \ Gray \in SUBSET Blocks
    BY DEF Black, MarkedBy
  <2>2. \A S \in (SUBSET (Black \ Gray)) \ {{}} :
          \E b \in S : \A x \in SuccSet(succs', b) \cap S : b \in latches'[x]
    BY <2>1, <1>1, CutKept DEF LatchWalk, LatchesClose
  <2> QED
    BY <2>2, <1>3 DEF CutIn
<1> QED
  BY <1>3, <1>4, <1>5, <1>6, WalkKeeps DEF LatchWalk

(* A finished successor is skipped. *)
LEMMA LatchSkipInv ==
  ASSUME LoopPart, LatchSkip
  PROVE  LoopPart'
<1>1. /\ pc = "latches" /\ pc' = "latches" /\ stack # <<>> /\ ~LoopDone(succs, stack)
      /\ stack' = LoopOn(stack)
      /\ UNCHANGED <<colors, live, succs, blackMrk, grayMrk, marks, latches>>
      /\ ~IsMarked(marks, SuccBlock(succs, stack), grayMrk)
      /\ IsMarked(marks, SuccBlock(succs, stack), blackMrk)
  BY DEF LatchSkip, WalkUnchanged, loopState, Running
<1>2. LatchesClose /\ SuccBlock(succs, stack) \in Blocks
  BY <1>1, InWalk, Onward
<1>3. SuccBlock(succs, stack) \in Black \ Gray
  BY <1>1, <1>2 DEF Black, Gray, MarkedBy
<1>4. LatchesClose' /\ HeadersVisited'
  BY <1>1, <1>2, InWalk DEF LatchesClose, LatchWalk, HeadersVisited, Black
<1> QED
  BY <1>1, <1>3, <1>4, GoOnInv

(* A gray successor is below on the stack, so the block can be reached     *)
(* from it: the block is a latch.                                          *)
LEMMA ProcessNewLatchInv ==
  ASSUME LoopPart, ProcessNewLatch
  PROVE  LoopPart'
<1> DEFINE c == SuccBlock(succs, stack)
           t == Top(stack).block
<1>1. /\ pc = "latches" /\ pc' = "latches" /\ stack # <<>> /\ ~LoopDone(succs, stack)
      /\ stack' = LoopOn(stack)
      /\ UNCHANGED <<colors, live, succs, blackMrk, grayMrk, marks>>
      /\ IsMarked(marks, c, grayMrk)
      /\ latches' = [latches EXCEPT ![c] = @ \cup {t}]
  BY DEF ProcessNewLatch, WalkUnchanged, Running
<1>2. LatchWalk /\ LatchesClose /\ stack \in Seq(Frames)
  BY <1>1, InWalk
<1>3. /\ c \in Blocks /\ t \in Blocks /\ c \in SuccSet(succs, t)
      /\ Len(stack) \in Nat \ {0} /\ stack[Len(stack)].block = t
  BY <1>1, InWalk, Onward
<1> HIDE DEF c, t
<1>4. t \in ReachableAvoiding(succs, c, {})
  <2>1. c \in OnStack(stack)
    BY <1>1, <1>2, <1>3 DEF LatchWalk, GrayOnStack, Gray, MarkedBy
  <2>2. PICK k \in 1 .. Len(stack) : stack[k].block = c
    BY <2>1 DEF OnStack
  <2>3. k <= Len(stack) /\ Len(stack) \in 1 .. Len(stack)
    BY <1>3
  <2> QED
    BY <2>2, <2>3, <1>2, <1>3 DEF LatchWalk, GrayOnStack
<1>5. /\ \A h \in Blocks :
           latches'[h] = IF h = c THEN latches[h] \cup {t} ELSE latches[h]
      /\ latches' \in [Blocks -> SUBSET Blocks]
  BY <1>1, <1>2, <1>3 DEF LatchesClose
<1>6. LatchesClose' /\ HeadersVisited'
  <2>1. LatchesClose'
    BY <1>1, <1>2, <1>3, <1>4, <1>5 DEF LatchesClose
  <2>2. c \in Black /\ Black' = Black
    BY <1>1, <1>2, <1>3 DEF LatchWalk, GrayOnStack, Gray, Black, MarkedBy
  <2> QED
    BY <2>1, <2>2, <1>2, <1>5 DEF LatchWalk, HeadersVisited
<1>7. t \in latches'[c] /\ \A h \in Blocks : latches[h] \subseteq latches'[h]
  BY <1>3, <1>5
<1> QED
  BY <1>1, <1>6, <1>7, GoOnInv DEF c, t

(* A visit is over: the edges from its block are done with, and so are     *)
(* those to it from the finished blocks, which were latches, since the     *)
(* block was not finished.                                                 *)
LEMMA LatchReturnInv ==
  ASSUME LoopPart, LatchReturn
  PROVE  LoopPart'
<1>0. PICK t, n : t = Top(stack).block /\ n = Len(stack)
  OBVIOUS
<1>1. /\ pc = "latches" /\ pc' = "latches" /\ stack # <<>> /\ LoopDone(succs, stack)
      /\ UNCHANGED <<colors, live, succs, blackMrk, grayMrk, latches>>
      /\ marks' = WithoutMarker(marks, t, grayMrk) /\ stack' = Pop(stack)
  BY <1>0 DEF LatchReturn, WalkUnchanged, loopState, Running
<1>2. /\ LatchWalk /\ LatchesClose /\ stack \in Seq(Frames)
      /\ succs \in [Blocks -> Seq(Blocks)]
  BY <1>1, InWalk
<1>3. /\ n \in Nat \ {0} /\ stack[n] = Top(stack) /\ t \in Blocks
      /\ Top(stack).next \in Nat /\ Top(stack).next > Len(succs[t])
      /\ stack' \in Seq(Frames) /\ Len(stack') = n - 1
      /\ \A k \in 1 .. n - 1 : stack'[k] = stack[k]
  BY <1>0, <1>1, <1>2, Back DEF LoopDone
<1>4. TwoMarkers' /\ Black' = Black /\ Gray' = Gray \ {t}
  BY <1>1, <1>2, <1>3, ReturnMarks DEF LatchWalk
<1>5. \A k, l \in 1 .. n : stack[k].block = stack[l].block => k = l
  BY <1>0, <1>2 DEF LatchWalk, GrayOnStack
<1>6. Gray = {stack[k].block : k \in 1 .. n} /\ t \in Gray /\ t \in Black
  <2>1. Gray = {stack[k].block : k \in 1 .. n} /\ Gray \subseteq Black
    BY <1>0, <1>2 DEF LatchWalk, GrayOnStack, OnStack
  <2>2. n \in 1 .. n /\ stack[n].block = t
    BY <1>0, <1>3
  <2> QED
    BY <2>1, <2>2
<1>7. ASSUME NEW i \in 1 .. Len(succs[t])
      PROVE  ~Waiting(t, i) /\ \A x : ~Visiting(t, x)
  <2>1. n \in 1 .. n /\ stack[n].block = t
    BY <1>0, <1>3
  <2>2. \A k \in 1 .. n : stack[k].block = t => k = n
    BY <2>1, <1>5
  <2>3. ~(Top(stack).next <= i)
    BY <1>2, <1>3
  <2>4. ~Waiting(t, i)
    BY <2>2, <2>3, <1>0, <1>3 DEF Waiting
  <2>5. \A k \in 1 .. n - 1 : k \in 1 .. n /\ k # n
    BY <1>3
  <2> QED
    BY <2>2, <2>4, <2>5, <1>0 DEF Visiting
<1>8. GrayOnStack'
  <2>1. OnStack(stack') = Gray \ {t}
    <3>1. \A k \in 1 .. n - 1 : k \in 1 .. n /\ k # n
      BY <1>3
    <3>2. \A k \in 1 .. n : k \in 1 .. n - 1 \/ k = n
      BY <1>3
    <3>3. n \in 1 .. n /\ stack[n].block = t
      BY <1>0, <1>3
    <3> QED
      BY <3>1, <3>2, <3>3, <1>3, <1>5, <1>6 DEF OnStack
  <2>2. ASSUME NEW k \in 1 .. Len(stack'), NEW l \in 1 .. Len(stack')
        PROVE  /\ stack'[k].block = stack'[l].block => k = l
               /\ k <= l => stack'[l].block
                              \in ReachableAvoiding(succs', stack'[k].block, {})
    <3>1. k \in 1 .. n - 1 /\ l \in 1 .. n - 1 /\ k \in 1 .. n /\ l \in 1 .. n
      BY <1>3
    <3> QED
      BY <3>1, <1>0, <1>1, <1>2, <1>3 DEF LatchWalk, GrayOnStack
  <2> QED
    BY <2>1, <2>2, <1>2, <1>3, <1>4 DEF LatchWalk, GrayOnStack
<1>9. EdgesFollowed'
  <2>1. ASSUME NEW b \in Black, NEW i \in 1 .. Len(succs[b])
        PROVE  \/ Waiting(b, i)' \/ Visiting(b, succs[b][i])'
               \/ succs[b][i] \in (Black \ Gray) \cup {t} \/ b \in latches[succs[b][i]]
    <3>1. CASE Waiting(b, i)
      <4>1. PICK k \in 1 .. n : stack[k].block = b /\ stack[k].next <= i
        BY <1>0, <3>1 DEF Waiting
      <4>2. k # n
        BY <4>1, <3>1, <1>0, <1>3, <1>7
      <4>3. k \in 1 .. n - 1 /\ k \in 1 .. Len(stack')
        BY <4>2, <1>3
      <4> QED
        BY <4>1, <4>3, <1>3 DEF Waiting
    <3>2. CASE Visiting(b, succs[b][i])
      <4>1. PICK k \in 1 .. n - 1 :
              stack[k].block = b /\ stack[k + 1].block = succs[b][i]
        BY <1>0, <3>2 DEF Visiting
      <4>2. CASE k + 1 = n
        BY <4>1, <4>2, <1>0, <1>3
      <4>3. CASE k + 1 # n
        <5>1. k \in 1 .. n - 1 /\ k + 1 \in 1 .. n - 1 /\ k \in 1 .. Len(stack') - 1
          BY <4>3, <1>3
        <5> QED
          BY <4>1, <5>1, <1>1, <1>3 DEF Visiting
      <4> QED
        BY <4>2, <4>3
    <3> QED
      BY <3>1, <3>2, <1>2 DEF LatchWalk, EdgesFollowed
  <2>2. Black' \ Gray' = (Black \ Gray) \cup {t}
    BY <1>4, <1>6
  <2> QED
    BY <2>1, <2>2, <1>1, <1>4 DEF EdgesFollowed
<1>10. CutIn(Black \ Gray)'
  <2>1. ASSUME NEW S \in (SUBSET ((Black \ Gray) \cup {t})) \ {{}}
        PROVE  \E b \in S : \A c \in SuccSet(succs, b) \cap S : b \in latches[c]
    <3>1. CASE t \notin S
      <4>1. S \in (SUBSET (Black \ Gray)) \ {{}}
        BY <3>1
      <4> QED
        BY <4>1, <1>2 DEF LatchWalk, CutIn
    <3>2. CASE S = {t}
      <4>1. ASSUME NEW c \in SuccSet(succs, t) \cap S PROVE t \in latches[c]
        <5>1. PICK i \in 1 .. Len(succs[t]) : c = succs[t][i]
          BY DEF SuccSet
        <5>2. c = t /\ t \notin Black \ Gray
          BY <3>2, <1>6
        <5> QED
          BY <5>1, <5>2, <1>2, <1>6, <1>7 DEF LatchWalk, EdgesFollowed
      <4> QED
        BY <4>1, <3>2
    <3>3. CASE t \in S /\ S # {t}
      <4>1. S \ {t} \in (SUBSET (Black \ Gray)) \ {{}}
        BY <3>3
      <4>2. PICK b \in S \ {t} :
              \A c \in SuccSet(succs, b) \cap (S \ {t}) : b \in latches[c]
        BY <4>1, <1>2 DEF LatchWalk, CutIn
      <4>3. ASSUME NEW c \in SuccSet(succs, b) \cap S PROVE b \in latches[c]
        <5>1. CASE c # t
          BY <5>1, <4>2
        <5>2. CASE c = t
          <6>1. PICK i \in 1 .. Len(succs[b]) : c = succs[b][i]
            BY DEF SuccSet
          <6>2. b \in Black /\ b \notin Gray /\ c \notin Black \ Gray
            BY <5>2, <4>1, <1>6
          <6>3. ~Waiting(b, i) /\ ~Visiting(b, c)
            <7>1. \A k \in 1 .. n - 1 : k \in 1 .. n
              BY <1>3
            <7> QED
              BY <6>2, <7>1, <1>0, <1>6 DEF Waiting, Visiting
          <6> QED
            BY <6>1, <6>2, <6>3, <1>2 DEF LatchWalk, EdgesFollowed
        <5> QED
          BY <5>1, <5>2
      <4> QED
        BY <4>2, <4>3
    <3> QED
      BY <3>1, <3>2, <3>3
  <2>2. Black' \ Gray' = (Black \ Gray) \cup {t}
    BY <1>4, <1>6
  <2> QED
    BY <2>1, <2>2, <1>1 DEF CutIn
<1>11. LatchesClose' /\ HeadersVisited'
  BY <1>1, <1>2, <1>4 DEF LatchesClose, LatchWalk, HeadersVisited
<1> QED
  BY <1>1, <1>4, <1>8, <1>9, <1>10, <1>11, WalkKeeps DEF LatchWalk

(* When the walk is over it has been everywhere... *)
LEMMA WalkSawAll ==
  ASSUME LoopPart, pc = "latches", stack = <<>>
  PROVE  Black = Blocks /\ Gray = {}
<1>1. LatchWalk /\ LatchesClose /\ Reachable(succs) = Blocks
      /\ succs \in [Blocks -> Seq(Blocks)]
  BY InWalk DEF LoopPart, TreeDone, LaterPlaces
<1>2. Gray = {}
  BY <1>1 DEF LatchWalk, GrayOnStack, OnStack
<1>3. ASSUME NEW b \in Black, NEW c \in SuccSet(succs, b)
      PROVE  c \in Black
  <2>1. PICK i \in 1 .. Len(succs[b]) : c = succs[b][i]
    BY DEF SuccSet
  <2>2. ~Waiting(b, i) /\ ~Visiting(b, c)
    BY DEF Waiting, Visiting
  <2>3. c \in Black \ Gray \/ b \in latches[c]
    BY <2>1, <2>2, <1>1 DEF LatchWalk, EdgesFollowed
  <2>4. c \in Blocks
    BY <2>1, <1>1 DEF Black, MarkedBy
  <2> QED
    BY <2>3, <2>4, <1>1 DEF LatchWalk, HeadersVisited
<1>4. Black \in SUBSET Blocks /\ Start \in Black
  BY <1>1 DEF Black, MarkedBy, LatchWalk, GrayOnStack
<1> QED
  BY <1>1, <1>2, <1>3, <1>4, ClosedIsAll

(* ... so the latches cut all cycles. *)
LEMMA WalkIsOver ==
  ASSUME LoopPart, pc = "latches", stack = <<>>
  PROVE  CutIn(Blocks)
<1>1. LatchWalk /\ Black \ Gray = Blocks
  BY InWalk, WalkSawAll
<1> QED
  BY <1>1 DEF LatchWalk

(* Both markers are given back. *)
LEMMA EraseBothMarkersInv ==
  ASSUME LoopPart, EraseBothMarkers
  PROVE  LoopPart'
<1>1. /\ pc = "latches" /\ stack = <<>> /\ pc' = "populate"
      /\ colors' = colors \ {ColorOf(blackMrk), ColorOf(grayMrk)}
      /\ live' = live \ {blackMrk, grayMrk}
      /\ UNCHANGED <<succs, latches>>
  BY DEF EraseBothMarkers, Running, loopState
<1>2. /\ live = {blackMrk, grayMrk} /\ colors = {ColorOf(m) : m \in live}
      /\ succs \in CFGS /\ Reachable(succs) = Blocks /\ LatchesClose
  BY <1>1 DEF LoopPart, MarkersHeld, ColorsInUse, TreeDone, LaterPlaces
<1>3. live' = {} /\ colors' = {}
  BY <1>1, <1>2
<1>4. CutIn(Blocks)'
  BY <1>1, WalkIsOver DEF CutIn
<1>5. LatchesClose'
  BY <1>1, <1>2 DEF LatchesClose
<1> QED
  BY <1>1, <1>2, <1>3, <1>4, <1>5
     DEF LoopPart, ColorsInUse, MarkersHeld, TreeDone, BeforeWalk,
         BuildPlaces, LaterPlaces
-----------------------------------------------------------------------------
(* The loops are filled with the latches as they are, and with one marker  *)
(* at a time.                                                              *)
LEMMA AfterWalk ==
  ASSUME LoopPart, pc \in {"populate", "search", "done"},
         pc' \in {"populate", "search", "done"},
         UNCHANGED <<succs, latches>>, ColorsInUse', MarkersHeld'
  PROVE  LoopPart'
<1>1. /\ pc \in LaterPlaces /\ pc' \in LaterPlaces
      /\ pc' \notin BuildPlaces \cup {"gray", "walk", "latches"}
  BY DEF BuildPlaces, LaterPlaces
<1>2. LatchesClose' /\ CutIn(Blocks)' /\ TreeDone'
  BY <1>1 DEF LoopPart, LatchesClose, CutIn, TreeDone
<1> QED
  BY <1>1, <1>2 DEF LoopPart, BeforeWalk

(* Most steps keep the markers, too. *)
LEMMA PopulateInv ==
  ASSUME LoopPart,
         \/ SkipBlock \/ ProcessIrreducibleLoopHeader \/ ReturnAtMarked
         \/ LoopSearchDFS \/ BuildLoopTree
  PROVE  LoopPart'
<1>1. /\ pc \in {"populate", "search"} /\ pc' \in {"populate", "search", "done"}
      /\ pc' # pc => pc = "populate" /\ pc' = "done"
      /\ UNCHANGED <<succs, latches, colors, live, blackMrk>>
  BY DEF SkipBlock, ProcessIrreducibleLoopHeader, ReturnAtMarked, LoopSearchDFS,
         BuildLoopTree, JoinLoop, PopulateUnchanged, Running, markerState, loopState
<1>2. ColorsInUse' /\ MarkersHeld'
  BY <1>1 DEF LoopPart, ColorsInUse, MarkersHeld, BuildPlaces
<1> QED
  BY <1>1, <1>2, AfterWalk

(* A search creates one marker, or aborts... *)
LEMMA ProcessReducibleLoopHeaderInv ==
  ASSUME LoopPart, ProcessReducibleLoopHeader
  PROVE  LoopPart'
<1>1. pc = "populate" /\ UNCHANGED <<succs, latches>>
  BY DEF ProcessReducibleLoopHeader, PopulateUnchanged, Running, loopState
<1>2. live = {} /\ colors = {}
  BY <1>1 DEF LoopPart, ColorsInUse, MarkersHeld
<1>3. CASE /\ pc' = "search" /\ blackMrk' = M!NewMarker
           /\ colors' = colors \cup {ColorOf(M!NewMarker)}
           /\ live' = live \cup {M!NewMarker}
  <2>1. ColorsInUse' /\ MarkersHeld'
    BY <1>2, <1>3 DEF ColorsInUse, MarkersHeld, BuildPlaces
  <2> QED
    BY <2>1, <1>1, <1>3, AfterWalk
<1>4. CASE pc' = pc /\ colors' = colors /\ live' = live
  <2>1. ColorsInUse' /\ MarkersHeld'
    BY <1>1, <1>2, <1>4 DEF ColorsInUse, MarkersHeld, BuildPlaces
  <2> QED
    BY <2>1, <1>1, <1>4, AfterWalk
<1> QED
  BY <1>3, <1>4 DEF ProcessReducibleLoopHeader, M!CreateNewMarkerAborts

(* ... and gives it back. *)
LEMMA EndOfSearchInv ==
  ASSUME LoopPart, EndOfSearch
  PROVE  LoopPart'
<1>1. /\ pc = "search" /\ pc' = "populate" /\ UNCHANGED <<succs, latches>>
      /\ live' = live \ {blackMrk} /\ colors' = colors \ {ColorOf(blackMrk)}
  BY SameMarkers DEF EndOfSearch, PopulateUnchanged, Running, loopState, M!EraseMarker
<1>2. live = {blackMrk} /\ colors = {ColorOf(m) : m \in live}
  BY <1>1 DEF LoopPart, ColorsInUse, MarkersHeld
<1>3. ColorsInUse' /\ MarkersHeld'
  BY <1>1, <1>2 DEF ColorsInUse, MarkersHeld, BuildPlaces
<1> QED
  BY <1>1, <1>3, AfterWalk

(* Build is not called again. *)
LEMMA AfterBuild ==
  ASSUME AnalyzerStep, ~BuildDominatorTree, ~CreateBlackMarker
  PROVE  pc' \notin BuildPlaces
<1>1. CASE CreateGrayMarker \/ CollectLatches
  BY <1>1 DEF CreateGrayMarker, CollectLatches, Running, BuildPlaces
<1>2. CASE LatchVisit \/ LatchSkip \/ ProcessNewLatch \/ LatchReturn
             \/ EraseBothMarkers
  BY <1>2 DEF LatchVisit, LatchSkip, ProcessNewLatch, LatchReturn, EraseBothMarkers,
              Running, BuildPlaces
<1>3. CASE SkipBlock \/ ProcessReducibleLoopHeader \/ ProcessIrreducibleLoopHeader
             \/ BuildLoopTree
  BY <1>3 DEF SkipBlock, ProcessReducibleLoopHeader, ProcessIrreducibleLoopHeader,
              BuildLoopTree, Running, BuildPlaces
<1>4. CASE ReturnAtMarked \/ LoopSearchDFS \/ EndOfSearch
  BY <1>4 DEF ReturnAtMarked, LoopSearchDFS, EndOfSearch, Running, BuildPlaces
<1> QED
  BY <1>1, <1>2, <1>3, <1>4 DEF AnalyzerStep

(* Every step but those of Build and of its caller keeps this part. *)
LEMMA LoopPartNext ==
  ASSUME LoopPart, AnalyzerStep, ~BuildDominatorTree, ~CreateBlackMarker
  PROVE  LoopPart'
<1>1. CASE CreateGrayMarker
  BY <1>1, CreateGrayMarkerInv
<1>2. CASE CollectLatches
  BY <1>2, CollectLatchesInv
<1>3. CASE LatchVisit
  BY <1>3, LatchVisitInv
<1>4. CASE LatchSkip
  BY <1>4, LatchSkipInv
<1>5. CASE ProcessNewLatch
  BY <1>5, ProcessNewLatchInv
<1>6. CASE LatchReturn
  BY <1>6, LatchReturnInv
<1>7. CASE EraseBothMarkers
  BY <1>7, EraseBothMarkersInv
<1>8. CASE SkipBlock \/ ProcessIrreducibleLoopHeader \/ ReturnAtMarked
              \/ LoopSearchDFS \/ BuildLoopTree
  BY <1>8, PopulateInv
<1>9. CASE ProcessReducibleLoopHeader
  BY <1>9, ProcessReducibleLoopHeaderInv
<1>10. CASE EndOfSearch
  BY <1>10, EndOfSearchInv
<1> QED
  BY <1>1, <1>2, <1>3, <1>4, <1>5, <1>6, <1>7, <1>8, <1>9, <1>10
     DEF AnalyzerStep
-----------------------------------------------------------------------------
(* The loops found are the natural ones.  NaturalInv is proved on top of   *)
(* LoopPart.  Its first part is what the later places know of the tree: *)
(* dominance is an order in which the dominators of a block form a chain,  *)
(* a block other than d is only entered from what d dominates, if d        *)
(* dominates it, and RPO puts dominators first.                            *)
Dom(d, b) == T!IsDominatesOver(d, b)

TreeSound ==
  /\ \A b \in Blocks : Dom(b, b)
  /\ \A b, c, d \in Blocks : Dom(b, c) /\ Dom(c, d) => Dom(b, d)
  /\ \A b, c, d \in Blocks : Dom(b, d) /\ Dom(c, d) => Dom(b, c) \/ Dom(c, b)
  /\ \A d, b \in Blocks : \A p \in PredSet(b) : Dom(d, b) /\ d # b => Dom(d, p)
  /\ \A d \in Blocks : Dom(d, Start) => d = Start

OrderSound ==
  /\ \A i \in Slots : rpoVector[i] \in Blocks
  /\ \A b \in Blocks : \E i \in Slots : rpoVector[i] = b
  /\ \A i, j \in Slots : Dom(rpoVector[i], rpoVector[j]) => i <= j
-----------------------------------------------------------------------------
(* Natural loops.  A header has a predecessor that it dominates.           *)
LoopHeaders == {h \in Blocks : BackSources(h) # {}}

(* A natural loop has the header, the sources of the back edges, and the   *)
(* predecessors of what it has besides the header...                       *)
LEMMA BodyIsClosed ==
  ASSUME NEW h \in Blocks
  PROVE  /\ NaturalLoop(h) \subseteq Blocks /\ h \in NaturalLoop(h)
         /\ BackSources(h) \subseteq NaturalLoop(h)
         /\ \A c \in NaturalLoop(h) \ {h} : PredSet(c) \subseteq NaturalLoop(h)
<1>1. \A b : PredSet(b) \subseteq Blocks
  BY DEF PredSet
<1>2. BackSources(h) \subseteq Blocks
  BY DEF BackSources, PredSet
<1>3. ASSUME NEW c \in NaturalLoop(h) \ {h}, NEW p \in PredSet(c)
      PROVE  p \in NaturalLoop(h)
  BY <1>1 DEF NaturalLoop
<1> QED
  BY <1>2, <1>3 DEF NaturalLoop

(* ... and is the least such set. *)
LEMMA BodyIsLeast ==
  ASSUME NEW h \in Blocks, NEW S \in SUBSET Blocks, h \in S, BackSources(h) \subseteq S,
         \A c \in S \ {h} : PredSet(c) \subseteq S
  PROVE  NaturalLoop(h) \subseteq S
BY DEF NaturalLoop

(* The header dominates its natural loop. *)
LEMMA HeaderDominates ==
  ASSUME TreeSound, NEW h \in Blocks, NEW b \in NaturalLoop(h)
  PROVE  b \in Blocks /\ Dom(h, b)
<1> DEFINE S == {c \in Blocks : Dom(h, c)}
<1>1. h \in S
  BY DEF TreeSound
<1>2. BackSources(h) \subseteq S
  BY DEF BackSources, PredSet, Dom
<1>3. \A c \in S \ {h} : PredSet(c) \subseteq S
  BY DEF TreeSound, PredSet
<1>4. S \in SUBSET Blocks
  OBVIOUS
<1> HIDE DEF S
<1>5. NaturalLoop(h) \subseteq S
  BY <1>1, <1>2, <1>3, <1>4, BodyIsLeast
<1> QED
  BY <1>5 DEF S

(* Two blocks that dominate each other are one. *)
LEMMA DomAntisymmetric ==
  ASSUME OrderSound, NEW g \in Blocks, NEW h \in Blocks, Dom(g, h), Dom(h, g)
  PROVE  g = h
<1>1. PICK i \in Slots : rpoVector[i] = g
  BY DEF OrderSound
<1>2. PICK j \in Slots : rpoVector[j] = h
  BY DEF OrderSound
<1>3. i <= j /\ j <= i
  BY <1>1, <1>2 DEF OrderSound
<1>4. i \in Int /\ j \in Int
  BY DEF Slots
<1>5. i = j
  BY <1>3, <1>4
<1> QED
  BY <1>1, <1>2, <1>5

(* The walk back from a block of the loop of h that is in the loop of g,   *)
(* too, stays in both until it comes to h, if g is above h: h is in the    *)
(* loop of g, and so is all of its loop.                                   *)
LEMMA LoopsNest ==
  ASSUME TreeSound, OrderSound,
         succs \in [Blocks -> Seq(Blocks)], Reachable(succs) = Blocks,
         NEW g \in Blocks, NEW h \in Blocks, g # h, Dom(g, h),
         NEW b \in NaturalLoop(g), b \in NaturalLoop(h)
  PROVE  h \in NaturalLoop(g) /\ NaturalLoop(h) \subseteq NaturalLoop(g)
<1> DEFINE Both == NaturalLoop(g) \cap NaturalLoop(h)
<1>0. /\ NaturalLoop(g) \subseteq Blocks /\ h \in NaturalLoop(h)
      /\ \A c \in NaturalLoop(g) \ {g} : PredSet(c) \subseteq NaturalLoop(g)
      /\ BackSources(h) \subseteq NaturalLoop(h) /\ NaturalLoop(h) \subseteq Blocks
      /\ \A c \in NaturalLoop(h) \ {h} : PredSet(c) \subseteq NaturalLoop(h)
  BY BodyIsClosed
<1>1. g \notin NaturalLoop(h)
  BY HeaderDominates, DomAntisymmetric
<1>2. h \in NaturalLoop(g)
  <2> SUFFICES ASSUME h \notin NaturalLoop(g) PROVE FALSE
    OBVIOUS
  <2> DEFINE X == Blocks \ Both
  <2>1. Start \in X
    <3>1. Start \in NaturalLoop(h) => Start = h
      BY HeaderDominates DEF TreeSound
    <3> QED
      BY <3>1, StartAssumption
  <2>2. ASSUME NEW c \in X, NEW s \in SuccSet(succs, c), s \in Both
        PROVE  FALSE
    <3>1. c \in PredSet(s) /\ s # g /\ s # h
      BY <2>2, <1>1 DEF PredSet
    <3>2. c \in Both
      BY <2>2, <3>1, <1>0
    <3> QED
      BY <3>2
  <2>3. ASSUME NEW c \in X PROVE SuccSet(succs, c) \subseteq X
    <3>1. SuccSet(succs, c) \subseteq Blocks
      BY DEF SuccSet
    <3> QED
      BY <2>2, <3>1
  <2>4. X = Blocks
    <3>1. X \in SUBSET Blocks
      OBVIOUS
    <3> HIDE DEF X
    <3> QED
      BY <2>1, <2>3, <3>1, ClosedIsAll
  <2> QED
    BY <2>4, <1>0
<1>3. h \in Both /\ BackSources(h) \subseteq Both
  BY <1>0, <1>2 DEF BackSources
<1>4. \A c \in Both \ {h} : PredSet(c) \subseteq Both
  BY <1>0, <1>1
<1>5. NaturalLoop(h) \subseteq Both
  <2>1. Both \in SUBSET Blocks
    BY <1>0
  <2> HIDE DEF Both
  <2> QED
    BY <2>1, <1>3, <1>4, BodyIsLeast
<1> QED
  BY <1>2, <1>5
-----------------------------------------------------------------------------
(* The headers PopulateLoops is done with before slot i. *)
DoneHeaders(i) == LoopHeaders \cap {rpoVector[j] : j \in {k \in Slots : k > i}}

(* x is the innermost of the loops of G, or nothing if there is none. *)
Innermost(x, G, none) ==
  IF G = {} THEN x = none ELSE x \in G /\ \A g \in G : Dom(g, x)

Around(b, G) == {g \in G : b \in NaturalLoop(g)}

(* What is known of the graph once Build has returned. *)
Sound ==
  /\ TreeSound /\ OrderSound
  /\ succs \in [Blocks -> Seq(Blocks)] /\ Reachable(succs) = Blocks

(* The next slot may be that of a header. *)
LEMMA DoneNext ==
  ASSUME OrderSound, NEW i \in Slots
  PROVE  /\ DoneHeaders(i - 1) = DoneHeaders(i) \cup (LoopHeaders \cap {rpoVector[i]})
         /\ rpoVector[i] \notin DoneHeaders(i)
         /\ i - 1 \in -1 .. Cardinality(Blocks) - 1
<1>1. Slots \subseteq Int /\ \A k \in Slots : k > i - 1 <=> k > i \/ k = i
  BY DEF Slots
<1>2. rpoVector[i] \notin DoneHeaders(i)
  <2> SUFFICES ASSUME NEW k \in Slots, k > i, rpoVector[k] = rpoVector[i] PROVE FALSE
    BY DEF DoneHeaders
  <2>1. k <= i
    <3>1. \A b \in Blocks : Dom(b, b)
      BY DEF Dom, T!IsDominatesOver
    <3> QED
      BY <3>1 DEF OrderSound
  <2> QED
    BY <2>1, <1>1
<1>3. DoneHeaders(i - 1) = DoneHeaders(i) \cup (LoopHeaders \cap {rpoVector[i]})
  BY <1>1 DEF DoneHeaders
<1>4. i - 1 \in -1 .. Cardinality(Blocks) - 1
  <2>1. Cardinality(Blocks) \in Nat
    BY LoopAnalyzerAssumption, FS_CardinalityType
  <2> QED
    BY <2>1 DEF Slots
<1> QED
  BY <1>2, <1>3, <1>4

(* Nothing is done at first, everything in the end. *)
LEMMA DoneEnds ==
  ASSUME OrderSound
  PROVE  DoneHeaders(Cardinality(Blocks) - 1) = {} /\ DoneHeaders(-1) = LoopHeaders
<1>1. Cardinality(Blocks) \in Nat
  BY LoopAnalyzerAssumption, FS_CardinalityType
<1>2. \A k \in Slots : ~(k > Cardinality(Blocks) - 1) /\ k > -1
  BY <1>1 DEF Slots
<1>3. ASSUME NEW b \in LoopHeaders PROVE \E k \in Slots : rpoVector[k] = b
  <2>1. b \in Blocks
    BY DEF LoopHeaders
  <2> QED
    BY <2>1 DEF OrderSound
<1> QED
  BY <1>2, <1>3 DEF DoneHeaders

(* A loop that was filled before and shares a block with that of slot i is *)
(* inside it.                                                              *)
LEMMA DoneIsInner ==
  ASSUME Sound, NEW i \in Slots, NEW g \in DoneHeaders(i),
         NEW b \in NaturalLoop(g), b \in NaturalLoop(rpoVector[i])
  PROVE  /\ g # rpoVector[i] /\ Dom(rpoVector[i], g)
         /\ g \in NaturalLoop(rpoVector[i])
<1>1. PICK k \in Slots : k > i /\ rpoVector[k] = g
  BY DEF DoneHeaders
<1>2. g \in Blocks /\ rpoVector[i] \in Blocks
  BY DEF Sound, OrderSound, DoneHeaders, LoopHeaders
<1>3. ~(k <= i)
  BY <1>1 DEF Slots
<1>4. ~Dom(g, rpoVector[i]) /\ Dom(g, g)
  BY <1>1, <1>2, <1>3 DEF Sound, TreeSound, OrderSound
<1>5. b \in Blocks /\ Dom(g, b) /\ Dom(rpoVector[i], b)
  BY <1>2, HeaderDominates DEF Sound
<1>6. Dom(rpoVector[i], g)
  BY <1>2, <1>4, <1>5 DEF Sound, TreeSound
<1>7. g # rpoVector[i]
  BY <1>4
<1> QED
  BY <1>2, <1>6, <1>7, LoopsNest DEF Sound
-----------------------------------------------------------------------------
(* The fields of the loops and of the blocks tell the same. *)
Books(l, o, bs, ins) ==
  /\ l \in [Blocks -> Blocks \cup {Null}] /\ o \in [Blocks -> Blocks \cup {Null}]
  /\ bs \in [Blocks \cup {Root} -> SUBSET Blocks]
  /\ ins \in [Blocks \cup {Root} -> SUBSET Blocks]
  /\ \A h \in Blocks : /\ bs[h] = {b \in Blocks : l[b] = h}
                       /\ ins[h] = {g \in Blocks : o[g] = h}

(* A header is in its own loop; what is none has no loop to be inner. *)
HeadersIn(l, o) ==
  /\ \A h \in LoopHeaders : l[h] = h
  /\ \A b \in Blocks \ LoopHeaders : o[b] = Null

(* The loops of G are filled: every other block is in the innermost of     *)
(* those around it, and so is every loop.                                  *)
Filled(l, o, G) ==
  /\ \A b \in Blocks \ LoopHeaders : Innermost(l[b], Around(b, G), Null)
  /\ \A h \in LoopHeaders : Innermost(o[h], Around(h, G \ {h}), Null)

(* So they are, and that of header cur with the blocks of seen: a loop is  *)
(* inner to it at the latest when its header is seen.                      *)
Searched(l, o, seen, cur, G) ==
  /\ \A b \in Blocks \ LoopHeaders :
       IF Around(b, G) # {} \/ b \notin seen
       THEN Innermost(l[b], Around(b, G), Null)
       ELSE l[b] = cur
  /\ \A h \in LoopHeaders :
       IF Around(h, G \ {h}) # {}
       THEN Innermost(o[h], Around(h, G \ {h}), Null)
       ELSE \/ o[h] = Null /\ h \notin seen \ {cur}
            \/ o[h] = cur /\ h \in NaturalLoop(cur) \ {cur}

(* The search begins at the header... *)
LEMMA SearchBegins ==
  ASSUME NEW l, NEW o, NEW G, Filled(l, o, G), NEW cur \in LoopHeaders
  PROVE  Searched(l, o, {cur}, cur, G)
<1>1. ASSUME NEW h \in LoopHeaders, Around(h, G \ {h}) = {}
      PROVE  o[h] = Null
  BY <1>1 DEF Filled, Innermost
<1> QED
  BY <1>1 DEF Filled, Searched

(* ... and when it has seen the natural loop, that loop is filled, too. *)
LEMMA SearchFills ==
  ASSUME Sound, NEW i \in Slots, rpoVector[i] \in LoopHeaders, NEW l, NEW o,
         Searched(l, o, NaturalLoop(rpoVector[i]), rpoVector[i], DoneHeaders(i))
  PROVE  Filled(l, o, DoneHeaders(i - 1))
<1> DEFINE cur == rpoVector[i]
           G == DoneHeaders(i)
           N == DoneHeaders(i - 1)
<1>1. N = G \cup {cur} /\ cur \notin G
  BY DoneNext DEF Sound
<1>2. \A g \in G : \A b \in NaturalLoop(g) : b \in NaturalLoop(cur) => Dom(cur, g)
  BY DoneIsInner
<1>3. Dom(cur, cur)
  BY DEF Dom, T!IsDominatesOver
<1>4. Searched(l, o, NaturalLoop(cur), cur, G)
  OBVIOUS
<1> HIDE DEF cur, G, N
<1>5. ASSUME NEW b \in Blocks \ LoopHeaders
      PROVE  Innermost(l[b], Around(b, N), Null)
  <2>1. CASE b \notin NaturalLoop(cur)
    <3>1. Around(b, N) = Around(b, G)
      BY <2>1, <1>1 DEF Around
    <3> QED
      BY <2>1, <3>1, <1>4 DEF Searched
  <2>2. CASE b \in NaturalLoop(cur) /\ Around(b, G) = {}
    <3>1. Around(b, N) = {cur} /\ l[b] = cur
      BY <2>2, <1>1, <1>4 DEF Around, Searched
    <3> QED
      BY <3>1, <1>3 DEF Innermost
  <2>3. CASE b \in NaturalLoop(cur) /\ Around(b, G) # {}
    <3>1. Around(b, N) = Around(b, G) \cup {cur}
      BY <2>3, <1>1 DEF Around
    <3>2. l[b] \in Around(b, G) /\ \A g \in Around(b, G) : Dom(g, l[b])
      BY <2>3, <1>4 DEF Searched, Innermost
    <3>3. Dom(cur, l[b])
      BY <2>3, <3>2, <1>2 DEF Around
    <3> QED
      BY <3>1, <3>2, <3>3 DEF Innermost
  <2> QED
    BY <2>1, <2>2, <2>3
<1>6. ASSUME NEW h \in LoopHeaders
      PROVE  Innermost(o[h], Around(h, N \ {h}), Null)
  <2>1. CASE h = cur
    <3>1. N \ {h} = G \ {h}
      BY <2>1, <1>1
    <3>2. \/ Innermost(o[h], Around(h, G \ {h}), Null)
          \/ Around(h, G \ {h}) = {} /\ o[h] = Null
      BY <2>1, <1>4 DEF Searched
    <3> QED
      BY <3>1, <3>2 DEF Innermost
  <2>2. CASE h # cur /\ h \notin NaturalLoop(cur)
    <3>1. Around(h, N \ {h}) = Around(h, G \ {h})
      BY <2>2, <1>1 DEF Around
    <3>2. \/ Innermost(o[h], Around(h, G \ {h}), Null)
          \/ Around(h, G \ {h}) = {} /\ o[h] = Null
      BY <2>2, <1>4 DEF Searched
    <3> QED
      BY <3>1, <3>2 DEF Innermost
  <2>3. CASE h # cur /\ h \in NaturalLoop(cur) /\ Around(h, G \ {h}) = {}
    <3>1. Around(h, N \ {h}) = {cur} /\ o[h] = cur
      BY <2>3, <1>1, <1>4 DEF Around, Searched
    <3> QED
      BY <3>1, <1>3 DEF Innermost
  <2>4. CASE h # cur /\ h \in NaturalLoop(cur) /\ Around(h, G \ {h}) # {}
    <3>1. Around(h, N \ {h}) = Around(h, G \ {h}) \cup {cur}
      BY <2>4, <1>1 DEF Around
    <3>2. /\ o[h] \in Around(h, G \ {h})
          /\ \A g \in Around(h, G \ {h}) : Dom(g, o[h])
      BY <2>4, <1>4 DEF Searched, Innermost
    <3>3. Dom(cur, o[h])
      BY <2>4, <3>2, <1>2 DEF Around
    <3> QED
      BY <3>1, <3>2, <3>3 DEF Innermost
  <2> QED
    BY <2>1, <2>2, <2>3, <2>4
<1> QED
  BY <1>5, <1>6 DEF Filled, N

(* A block without a loop joins this one, or its loop becomes an inner     *)
(* one: the books are kept either way.                                     *)
LEMMA JoinBooks ==
  ASSUME Books(loop, outerLoop, blocks, innerLoops), NEW cur \in Blocks,
         NEW b \in Blocks, JoinLoop(cur, b)
  PROVE  Books(loop', outerLoop', blocks', innerLoops')
<1>1. CASE /\ loop[b] = Null /\ loop' = [loop EXCEPT ![b] = cur]
           /\ blocks' = [blocks EXCEPT ![cur] = @ \cup {b}]
           /\ UNCHANGED <<outerLoop, innerLoops>>
  BY <1>1, LoopAnalyzerAssumption DEF Books
<1>2. CASE /\ loop[b] # Null /\ outerLoop[loop[b]] = Null
           /\ outerLoop' = [outerLoop EXCEPT ![loop[b]] = cur]
           /\ innerLoops' = [innerLoops EXCEPT ![cur] = @ \cup {loop[b]}]
           /\ UNCHANGED <<loop, blocks>>
  <2>1. loop[b] \in Blocks
    BY <1>2 DEF Books
  <2> QED
    BY <1>2, <2>1, LoopAnalyzerAssumption DEF Books
<1>3. CASE UNCHANGED <<loop, outerLoop, blocks, innerLoops>>
  BY <1>3
<1> QED
  BY <1>1, <1>2, <1>3 DEF JoinLoop, loopState

(* The search goes on to a block of the natural loop. *)
LEMMA JoinSearched ==
  ASSUME Sound, NEW i \in Slots, rpoVector[i] \in LoopHeaders,
         Books(loop, outerLoop, blocks, innerLoops), HeadersIn(loop, outerLoop),
         NEW seen, rpoVector[i] \in seen,
         Searched(loop, outerLoop, seen, rpoVector[i], DoneHeaders(i)),
         NEW b \in NaturalLoop(rpoVector[i]), b \notin seen,
         JoinLoop(rpoVector[i], b)
  PROVE  /\ HeadersIn(loop', outerLoop')
         /\ Searched(loop', outerLoop', seen \cup {b}, rpoVector[i], DoneHeaders(i))
<1> DEFINE cur == rpoVector[i]
           G == DoneHeaders(i)
<1>1. /\ cur \in Blocks /\ b \in Blocks /\ b # cur /\ cur \notin G
      /\ G \subseteq LoopHeaders /\ LoopHeaders \subseteq Blocks
  BY BodyIsClosed, DoneNext DEF Sound, LoopHeaders, DoneHeaders
<1>2. \A g \in G : b \in NaturalLoop(g) => g # cur /\ g \in NaturalLoop(cur)
  BY DoneIsInner
<1>3. /\ loop \in [Blocks -> Blocks \cup {Null}]
      /\ outerLoop \in [Blocks -> Blocks \cup {Null}] /\ Null \notin Blocks
  BY LoopAnalyzerAssumption DEF Books
<1>4. /\ Searched(loop, outerLoop, seen, cur, G) /\ JoinLoop(cur, b)
      /\ cur \in LoopHeaders /\ cur \in seen /\ b \in NaturalLoop(cur)
  OBVIOUS
<1> HIDE DEF cur, G
<1>5. \A x : \A H : H \subseteq Blocks /\ H # {} /\ Innermost(x, H, Null) => x \in H
  BY DEF Innermost
<1>6. \A c : \A H : H \subseteq Blocks => Around(c, H) \subseteq Blocks
  BY DEF Around
<1>7. CASE loop[b] = Null /\ loop' = [loop EXCEPT ![b] = cur] /\ outerLoop' = outerLoop
  <2>1. b \notin LoopHeaders
    BY <1>1, <1>3, <1>7 DEF HeadersIn
  <2>2. Around(b, G) = {}
    <3>1. Innermost(loop[b], Around(b, G), Null)
      BY <2>1, <1>1, <1>4 DEF Searched
    <3> QED
      BY <3>1, <1>1, <1>3, <1>5, <1>6, <1>7
  <2>3. loop'[b] = cur /\ \A c \in Blocks : c # b => loop'[c] = loop[c]
    BY <1>1, <1>3, <1>7
  <2>4. ASSUME NEW c \in Blocks \ LoopHeaders
        PROVE  IF Around(c, G) # {} \/ c \notin seen \cup {b}
               THEN Innermost(loop'[c], Around(c, G), Null)
               ELSE loop'[c] = cur
    <3>1. CASE c = b
      BY <3>1, <2>2, <2>3
    <3>2. CASE c # b
      BY <3>2, <2>3, <1>4 DEF Searched
    <3> QED
      BY <3>1, <3>2
  <2>5. HeadersIn(loop', outerLoop')
    BY <2>1, <2>3, <1>1, <1>7 DEF HeadersIn
  <2>6. ASSUME NEW h \in LoopHeaders
        PROVE  IF Around(h, G \ {h}) # {}
               THEN Innermost(outerLoop'[h], Around(h, G \ {h}), Null)
               ELSE \/ outerLoop'[h] = Null /\ h \notin (seen \cup {b}) \ {cur}
                    \/ outerLoop'[h] = cur /\ h \in NaturalLoop(cur) \ {cur}
    BY <2>1, <1>4, <1>7 DEF Searched
  <2> QED
    BY <2>4, <2>5, <2>6 DEF Searched, cur, G
<1>8. ASSUME loop[b] # Null, loop' = loop,
             \A h \in LoopHeaders : h # loop[b] => outerLoop'[h] = outerLoop[h],
             loop[b] \in LoopHeaders =>
               \/ outerLoop'[loop[b]] = outerLoop[loop[b]]
                  /\ (loop[b] # cur => outerLoop[loop[b]] # Null)
               \/ /\ outerLoop[loop[b]] = Null /\ outerLoop'[loop[b]] = cur
                  /\ loop[b] # cur
      PROVE  Searched(loop', outerLoop', seen \cup {b}, cur, G)
  <2>1. CASE b \in LoopHeaders
    <3>1. loop[b] = b
      BY <2>1 DEF HeadersIn
    <3>2. ASSUME NEW h \in LoopHeaders
          PROVE  IF Around(h, G \ {h}) # {}
                 THEN Innermost(outerLoop'[h], Around(h, G \ {h}), Null)
                 ELSE \/ outerLoop'[h] = Null /\ h \notin (seen \cup {b}) \ {cur}
                      \/ outerLoop'[h] = cur /\ h \in NaturalLoop(cur) \ {cur}
      <4>1. CASE h # b
        BY <4>1, <3>1, <1>4, <1>8 DEF Searched
      <4>2. CASE h = b /\ Around(b, G \ {b}) # {}
        <5>1. Innermost(outerLoop[b], Around(b, G \ {b}), Null)
          BY <4>2, <1>4 DEF Searched
        <5>2. outerLoop[b] # Null
          <6>1. G \ {b} \subseteq Blocks
            BY <1>1
          <6> QED
            BY <4>2, <5>1, <6>1, <1>3, <1>5, <1>6
        <5> QED
          BY <4>2, <5>1, <5>2, <3>1, <1>8
      <4>3. CASE h = b /\ Around(b, G \ {b}) = {}
        <5>1. \/ outerLoop[b] = Null
              \/ outerLoop[b] = cur /\ b \in NaturalLoop(cur) \ {cur}
          BY <4>3, <1>4 DEF Searched
        <5> QED
          BY <4>3, <5>1, <3>1, <2>1, <1>1, <1>4, <1>8
      <4> QED
        BY <4>1, <4>2, <4>3
    <3>3. ASSUME NEW c \in Blocks \ LoopHeaders
          PROVE  IF Around(c, G) # {} \/ c \notin seen \cup {b}
                 THEN Innermost(loop'[c], Around(c, G), Null)
                 ELSE loop'[c] = cur
      BY <2>1, <1>4, <1>8 DEF Searched
    <3> QED
      BY <3>2, <3>3 DEF Searched
  <2>2. CASE b \notin LoopHeaders
    <3>1. Innermost(loop[b], Around(b, G), Null)
      BY <2>2, <1>1, <1>4 DEF Searched
    <3>2. Around(b, G) # {} /\ loop[b] \in G /\ b \in NaturalLoop(loop[b])
      BY <3>1, <1>8 DEF Innermost, Around
    <3>3. loop[b] \in LoopHeaders /\ loop[b] # cur /\ loop[b] \in NaturalLoop(cur)
      BY <3>2, <1>1, <1>2
    <3>4. ASSUME NEW h \in LoopHeaders
          PROVE  IF Around(h, G \ {h}) # {}
                 THEN Innermost(outerLoop'[h], Around(h, G \ {h}), Null)
                 ELSE \/ outerLoop'[h] = Null /\ h \notin (seen \cup {b}) \ {cur}
                      \/ outerLoop'[h] = cur /\ h \in NaturalLoop(cur) \ {cur}
      <4>1. CASE h # loop[b]
        BY <4>1, <2>2, <1>4, <1>8 DEF Searched
      <4>2. CASE h = loop[b] /\ Around(h, G \ {h}) # {}
        <5>1. Innermost(outerLoop[h], Around(h, G \ {h}), Null)
          BY <4>2, <1>4 DEF Searched
        <5>2. outerLoop[h] # Null
          <6>1. G \ {h} \subseteq Blocks
            BY <1>1
          <6> QED
            BY <4>2, <5>1, <6>1, <1>3, <1>5, <1>6
        <5> QED
          BY <4>2, <5>1, <5>2, <3>3, <1>8
      <4>3. CASE h = loop[b] /\ Around(h, G \ {h}) = {}
        <5>1. \/ outerLoop[h] = Null
              \/ outerLoop[h] = cur /\ h \in NaturalLoop(cur) \ {cur}
          BY <4>3, <1>4 DEF Searched
        <5> QED
          BY <4>3, <5>1, <3>3, <1>8
      <4> QED
        BY <4>1, <4>2, <4>3
    <3>5. ASSUME NEW c \in Blocks \ LoopHeaders
          PROVE  IF Around(c, G) # {} \/ c \notin seen \cup {b}
                 THEN Innermost(loop'[c], Around(c, G), Null)
                 ELSE loop'[c] = cur
      <4>1. CASE c = b
        BY <4>1, <3>1, <3>2, <1>8
      <4>2. CASE c # b
        BY <4>2, <1>4, <1>8 DEF Searched
      <4> QED
        BY <4>1, <4>2
    <3> QED
      BY <3>4, <3>5 DEF Searched
  <2> QED
    BY <2>1, <2>2
<1>9. CASE /\ loop[b] # Null /\ loop[b] # cur /\ outerLoop[loop[b]] = Null
           /\ outerLoop' = [outerLoop EXCEPT ![loop[b]] = cur] /\ loop' = loop
  <2>1. loop[b] \in Blocks
    BY <1>1, <1>3, <1>9
  <2>2. /\ outerLoop'[loop[b]] = cur
        /\ \A h \in Blocks : h # loop[b] => outerLoop'[h] = outerLoop[h]
    BY <2>1, <1>3, <1>9
  <2>3. Searched(loop', outerLoop', seen \cup {b}, cur, G)
    BY <2>2, <1>1, <1>8, <1>9
  <2>4. loop[b] \in LoopHeaders
    <3>1. CASE b \in LoopHeaders
      BY <3>1 DEF HeadersIn
    <3>2. CASE b \notin LoopHeaders
      <4>1. Innermost(loop[b], Around(b, G), Null)
        BY <3>2, <1>1, <1>4 DEF Searched
      <4> QED
        BY <4>1, <1>1, <1>9 DEF Innermost, Around
    <3> QED
      BY <3>1, <3>2
  <2>5. HeadersIn(loop', outerLoop')
    BY <2>2, <2>4, <1>9 DEF HeadersIn
  <2> QED
    BY <2>3, <2>5 DEF cur, G
<1>10. CASE /\ loop[b] # Null /\ (loop[b] = cur \/ outerLoop[loop[b]] # Null)
            /\ UNCHANGED <<loop, outerLoop>>
  <2>1. Searched(loop', outerLoop', seen \cup {b}, cur, G)
    BY <1>8, <1>10
  <2> QED
    BY <2>1, <1>10 DEF cur, G
<1> QED
  BY <1>4, <1>7, <1>9, <1>10 DEF JoinLoop, loopState
-----------------------------------------------------------------------------
(* The invariant.  The marks and the markers in use are no newer than the  *)
(* index of the manager, so the marker of the next search is on no block.  *)
MarksUpTo(ms, n) == ms \in Marks /\ \A b \in Blocks, c \in Colors : ms[b][c] <= n

Manager ==
  /\ markerIndex \in Nat /\ colors \subseteq Colors /\ live \subseteq AllMarkers
  /\ MarksUpTo(marks, markerIndex)
  /\ \A m \in live : ValueOf(m) \in 1 .. markerIndex

(* Until the loops are filled a block has a loop if it has latches: its    *)
(* own.                                                                    *)
LatchLoops ==
  /\ Books(loop, outerLoop, blocks, innerLoops)
  /\ \A h \in Blocks : /\ loop[h] = IF latches[h] = {} THEN Null ELSE h
                       /\ outerLoop[h] = Null

(* Whether a loop is reducible is what one of its latches says. *)
ReducibleByLatch ==
  /\ reducible \in [Blocks -> BOOLEAN]
  /\ \A h \in Blocks : latches[h] # {} =>
       \E l \in latches[h] : reducible[h] <=> Dom(h, l)

(* A back edge that is done with made a latch... *)
BackEdgesFollowed ==
  \A b \in Black : \A i \in 1 .. Len(succs[b]) :
    Dom(succs[b][i], b) => Waiting(b, i) \/ b \in latches[succs[b][i]]

(* ... because the dominators of a block are below it on the stack. *)
DominatorsBelow ==
  \A k \in 1 .. Len(stack) : \A d \in Blocks :
    Dom(d, stack[k].block) => \E j \in 1 .. k : stack[j].block = d

(* After the walk every source of a back edge is known. *)
SourcesFound == \A h \in Blocks : BackSources(h) \subseteq latches[h]

(* The search has seen a part of the natural loop; the rest can be reached *)
(* from the calls still to be made.                                        *)
SearchOf(cur) ==
  /\ cur \in LoopHeaders /\ cur \in Black /\ blackMrk \in AllMarkers
  /\ Black \cup pending \subseteq NaturalLoop(cur)
  /\ BackSources(cur) \subseteq Black \cup pending
  /\ \A c \in Black \ {cur} : PredSet(c) \subseteq Black \cup pending

(* The innermost of loops by what it has, and the loop tree.               *)
InnermostBody(x, G, none) ==
  IF G = {} THEN x = none
  ELSE x \in G /\ \A g \in G : NaturalLoop(x) \subseteq NaturalLoop(g)

NaturalTree(l, o, bs, ins) ==
  /\ {h \in Blocks : l[h] = h} = LoopHeaders
  /\ \A b \in Blocks : InnermostBody(l[b], Around(b, LoopHeaders), Null)
  /\ \A h \in LoopHeaders :
       InnermostBody(o[h], Around(h, LoopHeaders \ {h}), Root)
  /\ \A h \in LoopHeaders : bs[h] = {b \in Blocks : l[b] = h}
  /\ bs[Root] = {b \in Blocks : l[b] = Null}
  /\ \A h \in LoopHeaders \cup {Root} : ins[h] = {g \in LoopHeaders : o[g] = h}

(* What holds while the loops are filled, and then. *)
Populating ==
  /\ pc \in {"populate", "search"} =>
       Books(loop, outerLoop, blocks, innerLoops) /\ HeadersIn(loop, outerLoop)
  /\ pc = "populate" => Filled(loop, outerLoop, DoneHeaders(pos))
  /\ pc = "search" =>
       /\ pos \in Slots /\ SearchOf(rpoVector[pos])
       /\ Searched(loop, outerLoop, Black, rpoVector[pos], DoneHeaders(pos))
  /\ pc = "done" => NaturalTree(loop, outerLoop, blocks, innerLoops)

NaturalInv ==
  /\ pc \in LaterPlaces => TreeSound /\ OrderSound
  /\ outcome = "running" /\ pc \in LaterPlaces => Manager
  /\ pc \notin {"populate", "search", "done"} => LatchLoops
  /\ ReducibleByLatch
  /\ pc = "latches" => BackEdgesFollowed /\ DominatorsBelow
  /\ pc \in {"populate", "search", "done"} => SourcesFound
  /\ AllReducible => Populating
-----------------------------------------------------------------------------
(* After Build the tree stays as it is, and so does all that is defined by *)
(* it.                                                                     *)
LEMMA TreeStays ==
  ASSUME UNCHANGED <<succs, rpoVector, dominatedBlocks>>
  PROVE  /\ \A d, b : Dom(d, b)' <=> Dom(d, b)
         /\ \A b : PredSet(b)' = PredSet(b) /\ BackSources(b)' = BackSources(b)
                   /\ NaturalLoop(b)' = NaturalLoop(b)
         /\ LoopHeaders' = LoopHeaders
         /\ \A i : DoneHeaders(i)' = DoneHeaders(i)
<1>1. \A d, b : Dom(d, b)' <=> Dom(d, b)
  BY DEF Dom, T!IsDominatesOver
<1>2. \A b : PredSet(b)' = PredSet(b)
  BY DEF PredSet, SuccSet
<1>3. \A b : BackSources(b)' = BackSources(b)
  BY <1>2 DEF BackSources, T!IsDominatesOver
<1>4. \A b : NaturalLoop(b)' = NaturalLoop(b)
  BY <1>2, <1>3 DEF NaturalLoop
<1>5. LoopHeaders' = LoopHeaders
  BY <1>3 DEF LoopHeaders
<1>6. \A i : DoneHeaders(i)' = DoneHeaders(i)
  BY <1>5 DEF DoneHeaders
<1> QED
  BY <1>1, <1>2, <1>3, <1>4, <1>5, <1>6

(* What is said of the fields after a step is said with the same tree. *)
LEMMA FieldsStay ==
  ASSUME UNCHANGED <<succs, rpoVector, dominatedBlocks>>
  PROVE  /\ TreeSound /\ OrderSound => (TreeSound /\ OrderSound)'
         /\ HeadersIn(loop', outerLoop') => HeadersIn(loop, outerLoop)'
         /\ Books(loop', outerLoop', blocks', innerLoops') =>
              Books(loop, outerLoop, blocks, innerLoops)'
         /\ Filled(loop', outerLoop', DoneHeaders(pos')) =>
              Filled(loop, outerLoop, DoneHeaders(pos))'
         /\ Searched(loop', outerLoop', Black', rpoVector[pos'], DoneHeaders(pos')) =>
              Searched(loop, outerLoop, Black, rpoVector[pos], DoneHeaders(pos))'
         /\ NaturalTree(loop', outerLoop', blocks', innerLoops') =>
              NaturalTree(loop, outerLoop, blocks, innerLoops)'
<1>1. /\ \A d, b : Dom(d, b)' <=> Dom(d, b)
      /\ \A b : PredSet(b)' = PredSet(b) /\ BackSources(b)' = BackSources(b)
                /\ NaturalLoop(b)' = NaturalLoop(b)
      /\ LoopHeaders' = LoopHeaders
      /\ \A i : DoneHeaders(i)' = DoneHeaders(i)
  BY TreeStays
<1>2. TreeSound /\ OrderSound => (TreeSound /\ OrderSound)'
  BY <1>1 DEF TreeSound, OrderSound
<1>3. HeadersIn(loop', outerLoop') => HeadersIn(loop, outerLoop)'
  BY <1>1 DEF HeadersIn
<1>4. Books(loop', outerLoop', blocks', innerLoops') =>
              Books(loop, outerLoop, blocks, innerLoops)'
  BY DEF Books
<1>5. DoneHeaders(pos)' = DoneHeaders(pos')
  BY <1>1 DEF DoneHeaders
<1>6. Filled(loop', outerLoop', DoneHeaders(pos')) =>
              Filled(loop, outerLoop, DoneHeaders(pos))'
  BY <1>1, <1>5 DEF Filled, Innermost, Around
<1>7. Searched(loop', outerLoop', Black', rpoVector[pos'], DoneHeaders(pos')) =>
              Searched(loop, outerLoop, Black, rpoVector[pos], DoneHeaders(pos))'
  BY <1>1, <1>5 DEF Searched, Innermost, Around
<1>8. NaturalTree(loop', outerLoop', blocks', innerLoops') =>
              NaturalTree(loop, outerLoop, blocks, innerLoops)'
  BY <1>1, Zenon DEF NaturalTree, InnermostBody, Around
<1> QED
  BY <1>2, <1>3, <1>4, <1>6, <1>7, <1>8

(* A mark of a marker that is no newer than the others changes no bound. *)
LEMMA MarkBounds ==
  ASSUME NEW n \in Nat, NEW ms, MarksUpTo(ms, n), NEW b,
         NEW m \in AllMarkers
  PROVE  /\ ValueOf(m) <= n => MarksUpTo(WithMarker(ms, b, m), n)
         /\ b \in Blocks => MarksUpTo(WithoutMarker(ms, b, m), n)
         /\ MarksUpTo(ms, n + 1)
<1>1. ColorOf(m) \in Colors /\ ValueOf(m) \in Nat
  BY IndexValuesAssumption DEF AllMarkers, ColorOf, ValueOf, Colors, COLORS_NUM
<1>2. ms \in [Blocks -> [Colors -> Nat]] /\ \A x \in Blocks, c \in Colors : ms[x][c] <= n
  BY DEF MarksUpTo, Marks
<1>3. ASSUME ValueOf(m) <= n PROVE MarksUpTo(WithMarker(ms, b, m), n)
  <2>1. WithMarker(ms, b, m) \in [Blocks -> [Colors -> Nat]]
    BY <1>1, <1>2 DEF WithMarker
  <2>2. \A x \in Blocks, c \in Colors : WithMarker(ms, b, m)[x][c] <= n
    BY <1>1, <1>2, <1>3 DEF WithMarker
  <2> QED
    BY <2>1, <2>2 DEF MarksUpTo, Marks
<1>4. ASSUME b \in Blocks PROVE MarksUpTo(WithoutMarker(ms, b, m), n)
  <2>1. WithoutMarker(ms, b, m) \in [Blocks -> [Colors -> Nat]]
    BY <1>1, <1>2, <1>4 DEF WithoutMarker, UNMARKER
  <2>2. \A x \in Blocks, c \in Colors : WithoutMarker(ms, b, m)[x][c] <= n
    BY <1>1, <1>2, <1>4 DEF WithoutMarker, UNMARKER
  <2> QED
    BY <2>1, <2>2 DEF MarksUpTo, Marks
<1>5. MarksUpTo(ms, n + 1)
  BY <1>2 DEF MarksUpTo, Marks
<1> QED
  BY <1>3, <1>4, <1>5

(* What MarkersProofs says of the manager, in the terms used here. *)
LEMMA ManagerIs ==
  /\ MP!MarkersInv => Manager
  /\ Manager /\ outcome = "running" /\ live = {} => MP!MarkersInv
<1>1. /\ MP!Marks = Marks /\ MP!AllMarkers = AllMarkers /\ MP!Colors = Colors
      /\ \A m : MP!ColorOf(m) = ColorOf(m) /\ MP!ValueOf(m) = ValueOf(m)
  BY SameMarkers
<1>2. MP!MarkersInv => Manager
  BY <1>1 DEF MP!MarkersInv, MP!MarkersTypeOK, MP!NoFutureMarks, Manager, MarksUpTo
<1>3. Manager /\ outcome = "running" /\ live = {} => MP!MarkersInv
  BY <1>1
     DEF MP!MarkersInv, MP!MarkersTypeOK, MP!NoFutureMarks, MP!LiveColorsDistinct,
         MP!Outcomes, Manager, MarksUpTo
<1> QED
  BY <1>2, <1>3

(* So it is after a step. *)
LEMMA ManagerIsNext == MP!MarkersInv' => Manager'
<1>1. /\ MP!Marks = Marks /\ MP!AllMarkers = AllMarkers /\ MP!Colors = Colors
      /\ \A m : MP!ColorOf(m) = ColorOf(m) /\ MP!ValueOf(m) = ValueOf(m)
  BY SameMarkers
<1> QED
  BY <1>1 DEF MP!MarkersInv, MP!MarkersTypeOK, MP!NoFutureMarks, Manager, MarksUpTo

(* The invariant holds at first. *)
LEMMA NaturalInvInit == LoopInit => NaturalInv
<1> SUFFICES ASSUME LoopInit PROVE NaturalInv
  OBVIOUS
<1>1. /\ pc = "begin" /\ loop = [b \in Blocks |-> Null]
      /\ latches = [h \in Blocks |-> {}] /\ reducible = [h \in Blocks |-> FALSE]
      /\ blocks = [h \in Blocks \cup {Root} |-> {}]
      /\ outerLoop = [h \in Blocks |-> Null]
      /\ innerLoops = [h \in Blocks \cup {Root} |-> {}]
  BY DEF LoopInit, T!Init
<1>2. LatchLoops
  BY <1>1, LoopAnalyzerAssumption DEF LatchLoops, Books
<1>3. ReducibleByLatch
  BY <1>1 DEF ReducibleByLatch
<1> QED
  BY <1>1, <1>2, <1>3 DEF NaturalInv, Populating, LaterPlaces

(* Before the walk the loops are as they were. *)
LEMMA NoLoopsKept ==
  ASSUME NaturalInv, NoLatches, pc \notin {"populate", "search", "done"},
         pc' \notin {"latches", "populate", "search", "done"},
         UNCHANGED <<loop, latches, reducible, blocks, outerLoop, innerLoops>>,
         pc' \in LaterPlaces => TreeSound' /\ OrderSound',
         outcome' = "running" /\ pc' \in LaterPlaces => Manager'
  PROVE  NaturalInv'
<1>1. LatchLoops'
  BY DEF NaturalInv, LatchLoops, Books
<1>2. ReducibleByLatch'
  BY DEF NaturalInv, ReducibleByLatch, NoLatches
<1> QED
  BY <1>1, <1>2 DEF NaturalInv, Populating
-----------------------------------------------------------------------------
LEMMA CreateGrayMarkerNatural ==
  ASSUME LoopPart, NaturalInv, CreateGrayMarker
  PROVE  NaturalInv'
<1>1. /\ outcome = "running" /\ pc = "gray"
      /\ UNCHANGED <<loop, latches, reducible, blocks, outerLoop, innerLoops>>
      /\ UNCHANGED <<succs, rpoVector, dominatedBlocks>>
  BY DEF CreateGrayMarker, Running, loopState, treeState
<1>2. MP!MarkersInv /\ NoLatches
  BY <1>1 DEF LoopPart, BeforeWalk
<1>3. TreeSound' /\ OrderSound'
  BY <1>1, FieldsStay DEF NaturalInv, LaterPlaces
<1>4. CASE M!CreateNewMarker /\ pc' = "walk"
  <2>1. MP!MarkersInv'
    BY <1>2, <1>4, MarkerCreated
  <2> QED
    BY <2>1, <1>1, <1>2, <1>3, <1>4, ManagerIsNext, NoLoopsKept
<1>5. CASE M!CreateNewMarkerAborts /\ pc' = pc
  <2>1. pc' = "gray" /\ outcome' # "running"
    BY <1>1, <1>5 DEF M!CreateNewMarkerAborts
  <2> QED
    BY <2>1, <1>1, <1>2, <1>3, NoLoopsKept
<1> QED
  BY <1>4, <1>5 DEF CreateGrayMarker
-----------------------------------------------------------------------------
(* The walk.  What a step of it has to show. *)
LEMMA WalkNatural ==
  ASSUME NaturalInv, pc \in {"walk", "latches"}, pc' = "latches",
         UNCHANGED <<succs, rpoVector, dominatedBlocks>>,
         Manager', LatchLoops', ReducibleByLatch', BackEdgesFollowed', DominatorsBelow'
  PROVE  NaturalInv'
<1>1. TreeSound' /\ OrderSound'
  BY FieldsStay DEF NaturalInv, LaterPlaces
<1> QED
  BY <1>1 DEF NaturalInv, Populating

(* What holds during the walk besides LatchWalk. *)
LEMMA InNaturalWalk ==
  ASSUME LoopPart, NaturalInv, outcome = "running", pc \in {"walk", "latches"}
  PROVE  /\ TreeSound /\ OrderSound /\ Manager /\ LatchLoops /\ ReducibleByLatch
         /\ pc = "latches" => BackEdgesFollowed /\ DominatorsBelow
         /\ succs \in [Blocks -> Seq(Blocks)]
         /\ blackMrk \in AllMarkers /\ ValueOf(blackMrk) \in 1 .. markerIndex
         /\ grayMrk \in AllMarkers /\ ValueOf(grayMrk) \in 1 .. markerIndex
<1>1. TreeSound /\ OrderSound /\ Manager /\ LatchLoops /\ ReducibleByLatch
  BY DEF NaturalInv, LaterPlaces
<1>2. live = {blackMrk, grayMrk}
  BY DEF LoopPart, MarkersHeld
<1>3. succs \in [Blocks -> Seq(Blocks)]
  BY CfgsAssumption DEF LoopPart, TreeDone, LaterPlaces
<1> QED
  BY <1>1, <1>2, <1>3 DEF NaturalInv, Manager

(* Loops and latches are left alone by all steps of the walk but one. *)
LEMMA LatchLoopsKept ==
  ASSUME LatchLoops, ReducibleByLatch,
         UNCHANGED <<loop, latches, reducible, blocks, outerLoop, innerLoops>>,
         UNCHANGED <<succs, rpoVector, dominatedBlocks>>
  PROVE  LatchLoops' /\ ReducibleByLatch'
<1>1. \A d, b : Dom(d, b)' <=> Dom(d, b)
  BY TreeStays
<1> QED
  BY <1>1 DEF LatchLoops, ReducibleByLatch, Books

(* A visit puts two marks in use on a block. *)
LEMMA EnterManager ==
  ASSUME Manager, NEW b \in Blocks,
         blackMrk \in AllMarkers, ValueOf(blackMrk) \in 1 .. markerIndex,
         grayMrk \in AllMarkers, ValueOf(grayMrk) \in 1 .. markerIndex,
         marks' = WithMarker(WithMarker(marks, b, blackMrk), b, grayMrk),
         UNCHANGED <<markerIndex, colors, live>>
  PROVE  Manager'
<1>1. PICK ms : ms = WithMarker(marks, b, blackMrk)
  OBVIOUS
<1>2. /\ markerIndex \in Nat
      /\ ValueOf(blackMrk) <= markerIndex /\ ValueOf(grayMrk) <= markerIndex
  BY DEF Manager
<1>3. MarksUpTo(ms, markerIndex)
  BY <1>1, <1>2, MarkBounds DEF Manager
<1>4. MarksUpTo(WithMarker(ms, b, grayMrk), markerIndex)
  BY <1>2, <1>3, MarkBounds
<1> QED
  BY <1>1, <1>4 DEF Manager, MarksUpTo

LEMMA CollectLatchesNatural ==
  ASSUME LoopPart, NaturalInv, CollectLatches
  PROVE  NaturalInv'
<1>1. /\ outcome = "running" /\ pc = "walk" /\ pc' = "latches"
      /\ UNCHANGED <<loop, latches, reducible, blocks, outerLoop, innerLoops>>
      /\ UNCHANGED <<succs, rpoVector, dominatedBlocks>>
      /\ UNCHANGED <<markerIndex, colors, live, blackMrk, grayMrk>>
      /\ marks' = WithMarker(WithMarker(marks, Start, blackMrk), Start, grayMrk)
      /\ stack' = Append(stack, Call(Start))
  BY DEF CollectLatches, EnterBlock, WalkUnchanged, loopState, treeState, Running
<1>2. TwoMarkers /\ stack = <<>> /\ Black = {} /\ Gray = {}
  BY <1>1 DEF LoopPart, BeforeWalk
<1>3. /\ TreeSound /\ Manager /\ LatchLoops /\ ReducibleByLatch
      /\ succs \in [Blocks -> Seq(Blocks)]
      /\ blackMrk \in AllMarkers /\ ValueOf(blackMrk) \in 1 .. markerIndex
      /\ grayMrk \in AllMarkers /\ ValueOf(grayMrk) \in 1 .. markerIndex
  BY <1>1, InNaturalWalk
<1>4. Manager'
  BY <1>1, <1>3, EnterManager, StartAssumption
<1>5. LatchLoops' /\ ReducibleByLatch'
  BY <1>1, <1>3, LatchLoopsKept
<1>6. Black' = {Start}
  BY <1>1, <1>2, EnterMarks, StartAssumption
<1>7. Len(stack') = 1 /\ stack'[1].block = Start /\ stack'[1].next = 1
  <2>1. <<>> \in Seq(Frames) /\ Len(<<>>) = 0 /\ 0 + 1 = 1
    OBVIOUS
  <2>2. stack \in Seq(Frames) /\ Len(stack) + 1 = 1
    BY <1>2, <2>1
  <2> QED
    BY <1>1, <2>2, Deeper, StartAssumption
<1>8. \A d, b : Dom(d, b)' <=> Dom(d, b)
  BY <1>1, TreeStays
<1>9. BackEdgesFollowed'
  <2>1. \A i \in 1 .. Len(succs'[Start]) : Waiting(Start, i)'
    BY <1>1, <1>3, <1>7, StartAssumption DEF Waiting
  <2> QED
    BY <2>1, <1>6 DEF BackEdgesFollowed
<1>10. DominatorsBelow'
  BY <1>3, <1>7, <1>8 DEF DominatorsBelow, TreeSound
<1> QED
  BY <1>1, <1>4, <1>5, <1>9, <1>10, WalkNatural

(* A dominator of the block on top that the edge leads back to is below    *)
(* it on the stack: it is gray.                                            *)
LEMMA BackEdgeIsGray ==
  ASSUME LatchWalk, DominatorsBelow, stack \in Seq(Frames), stack # <<>>,
         NEW c \in Blocks, Dom(c, Top(stack).block)
  PROVE  c \in Gray
<1>1. Len(stack) \in Nat \ {0} /\ stack[Len(stack)] = Top(stack)
  BY DEF Top
<1>2. PICK j \in 1 .. Len(stack) : stack[j].block = c
  BY <1>1 DEF DominatorsBelow
<1> QED
  BY <1>2 DEF LatchWalk, GrayOnStack, OnStack

LEMMA LatchVisitNatural ==
  ASSUME LoopPart, NaturalInv, LatchVisit
  PROVE  NaturalInv'
<1>0. PICK c, t, n, s : /\ c = SuccBlock(succs, stack) /\ t = Top(stack).block
                        /\ n = Len(stack) /\ s = LoopOn(stack)
  OBVIOUS
<1>1. /\ outcome = "running" /\ pc = "latches" /\ pc' = "latches"
      /\ stack # <<>> /\ ~LoopDone(succs, stack) /\ c \notin Gray
      /\ UNCHANGED <<loop, latches, reducible, blocks, outerLoop, innerLoops>>
      /\ UNCHANGED <<succs, rpoVector, dominatedBlocks>>
      /\ UNCHANGED <<markerIndex, colors, live, blackMrk, grayMrk>>
      /\ marks' = WithMarker(WithMarker(marks, c, blackMrk), c, grayMrk)
      /\ stack' = Append(s, Call(c))
  BY <1>0
     DEF LatchVisit, EnterBlock, WalkUnchanged, loopState, treeState, Running, Gray,
         MarkedBy
<1>2. /\ LatchWalk /\ stack \in Seq(Frames)
      /\ TreeSound /\ Manager /\ LatchLoops /\ ReducibleByLatch
      /\ BackEdgesFollowed /\ DominatorsBelow /\ succs \in [Blocks -> Seq(Blocks)]
      /\ blackMrk \in AllMarkers /\ ValueOf(blackMrk) \in 1 .. markerIndex
      /\ grayMrk \in AllMarkers /\ ValueOf(grayMrk) \in 1 .. markerIndex
  BY <1>1, InWalk, InNaturalWalk
<1>3. /\ n \in Nat \ {0} /\ stack[n] = Top(stack) /\ t \in Blocks /\ c \in Blocks
      /\ Top(stack).next \in 1 .. Len(succs[t]) /\ c = succs[t][Top(stack).next]
      /\ c \in SuccSet(succs, t) /\ s \in Seq(Frames) /\ Len(s) = n
      /\ \A k \in 1 .. n : s[k].block = stack[k].block
      /\ \A k \in 1 .. n - 1 : s[k] = stack[k]
      /\ s[n].next = Top(stack).next + 1
  BY <1>0, <1>1, <1>2, Onward
<1>4. /\ Len(stack') = n + 1
      /\ \A k \in 1 .. n : stack'[k] = s[k]
      /\ stack'[n + 1].block = c /\ stack'[n + 1].next = 1
  BY <1>1, <1>3, Deeper
<1>5. Manager'
  BY <1>1, <1>2, <1>3, EnterManager
<1>6. LatchLoops' /\ ReducibleByLatch'
  BY <1>1, <1>2, LatchLoopsKept
<1>7. Black' = Black \cup {c}
  BY <1>1, <1>2, <1>3, EnterMarks DEF LatchWalk
<1>8. \A d, b : Dom(d, b)' <=> Dom(d, b)
  BY <1>1, TreeStays
<1>9. ~Dom(c, t)
  BY <1>0, <1>1, <1>2, <1>3, BackEdgeIsGray
<1>10. BackEdgesFollowed'
  <2>1. \A i \in 1 .. Len(succs[c]) : Waiting(c, i)'
    <3>1. n + 1 \in 1 .. Len(stack') /\ stack'[n + 1].block = c
          /\ \A i \in 1 .. Len(succs[c]) : stack'[n + 1].next <= i
      BY <1>3, <1>4
    <3> QED
      BY <3>1 DEF Waiting
  <2>2. ASSUME NEW b \in Black, NEW i \in 1 .. Len(succs[b]), Dom(succs[b][i], b)
        PROVE  Waiting(b, i)' \/ b \in latches[succs[b][i]]
    <3>1. CASE Waiting(b, i)
      <4>1. PICK k \in 1 .. n : stack[k].block = b /\ stack[k].next <= i
        BY <1>0, <3>1 DEF Waiting
      <4>2. CASE k < n
        <5>1. k \in 1 .. n - 1 /\ k \in 1 .. Len(stack')
          BY <4>2, <1>3, <1>4
        <5>2. stack'[k] = stack[k]
          BY <5>1, <1>3, <1>4
        <5> QED
          BY <4>1, <5>1, <5>2 DEF Waiting
      <4>3. CASE k = n
        <5>1. b = t /\ Top(stack).next <= i
          BY <4>1, <4>3, <1>0, <1>3
        <5>2. i # Top(stack).next
          BY <5>1, <2>2, <1>3, <1>9
        <5>3. Top(stack).next + 1 <= i
          BY <5>1, <5>2, <1>3
        <5>4. n \in 1 .. Len(stack')
          BY <1>3, <1>4
        <5>5. stack'[n].block = b /\ stack'[n].next = Top(stack).next + 1
          BY <1>3, <1>4, <4>1, <4>3
        <5> QED
          BY <5>3, <5>4, <5>5 DEF Waiting
      <4> QED
        BY <4>1, <4>2, <4>3, <1>3
    <3>2. CASE b \in latches[succs[b][i]]
      BY <3>2
    <3> QED
      BY <2>2, <3>1, <3>2, <1>2 DEF BackEdgesFollowed
  <2> QED
    BY <2>1, <2>2, <1>1, <1>7, <1>8 DEF BackEdgesFollowed
<1>11. DominatorsBelow'
  <2>0. \A k \in 1 .. n : \A d \in Blocks :
          Dom(d, stack[k].block) => \E j \in 1 .. k : stack[j].block = d
    BY <1>0, <1>2 DEF DominatorsBelow
  <2>1. ASSUME NEW k \in 1 .. n + 1, NEW d \in Blocks, Dom(d, stack'[k].block)
        PROVE  \E j \in 1 .. k : stack'[j].block = d
    <3>1. CASE k \in 1 .. n
      <4>1. PICK j \in 1 .. k : stack[j].block = d
        <5>1. Dom(d, stack[k].block)
          BY <2>1, <3>1, <1>3, <1>4
        <5> QED
          BY <5>1, <3>1, <2>0
      <4>2. j \in 1 .. n
        BY <3>1, <1>3
      <4> QED
        BY <4>1, <4>2, <1>3, <1>4
    <3>2. CASE k = n + 1 /\ d = c
      BY <3>2, <1>3, <1>4
    <3>3. CASE k = n + 1 /\ d # c
      <4>1. t \in PredSet(c)
        BY <1>3 DEF PredSet
      <4>2. Dom(d, t)
        BY <4>1, <2>1, <3>3, <1>2, <1>3, <1>4 DEF TreeSound
      <4>3. PICK j \in 1 .. n : stack[j].block = d
        <5>1. n \in 1 .. n /\ Dom(d, stack[n].block)
          BY <4>2, <1>0, <1>3
        <5> QED
          BY <5>1, <2>0
      <4> QED
        BY <3>3, <4>3, <1>3, <1>4
    <3> QED
      BY <3>1, <3>2, <3>3, <1>3
  <2> QED
    BY <2>1, <1>4, <1>8 DEF DominatorsBelow
<1> QED
  BY <1>1, <1>5, <1>6, <1>10, <1>11, WalkNatural

(* The loop goes on: the edge it is done with is no back edge, or made a   *)
(* latch.                                                                  *)
LEMMA GoOnNatural ==
  ASSUME LoopPart, NaturalInv, outcome = "running", pc = "latches", pc' = "latches",
         stack # <<>>, ~LoopDone(succs, stack), stack' = LoopOn(stack),
         UNCHANGED <<succs, rpoVector, dominatedBlocks>>,
         UNCHANGED <<markerIndex, colors, live, blackMrk, grayMrk, marks>>,
         LatchLoops', ReducibleByLatch',
         \A h \in Blocks : latches[h] \subseteq latches'[h],
         \/ SuccBlock(succs, stack) \notin Gray
         \/ Top(stack).block \in latches'[SuccBlock(succs, stack)]
  PROVE  NaturalInv'
<1>0. PICK c, t, n : c = SuccBlock(succs, stack) /\ t = Top(stack).block /\ n = Len(stack)
  OBVIOUS
<1>1. /\ LatchWalk /\ stack \in Seq(Frames) /\ succs \in [Blocks -> Seq(Blocks)]
      /\ Manager /\ BackEdgesFollowed /\ DominatorsBelow
  BY InWalk, InNaturalWalk
<1>2. /\ n \in Nat \ {0} /\ stack[n] = Top(stack) /\ t \in Blocks /\ c \in Blocks
      /\ Top(stack).next \in 1 .. Len(succs[t]) /\ c = succs[t][Top(stack).next]
      /\ Len(stack') = n
      /\ \A k \in 1 .. n : stack'[k].block = stack[k].block
      /\ \A k \in 1 .. n - 1 : stack'[k] = stack[k]
      /\ stack'[n].next = Top(stack).next + 1
  BY <1>0, <1>1, Onward
<1>3. Manager' /\ Black' = Black
  BY <1>1 DEF Manager, MarksUpTo, Black
<1>4. \A d, b : Dom(d, b)' <=> Dom(d, b)
  BY TreeStays
<1>5. Dom(c, t) => t \in latches'[c]
  BY <1>0, <1>1, <1>2, BackEdgeIsGray
<1>6. BackEdgesFollowed'
  <2>1. ASSUME NEW b \in Black, NEW i \in 1 .. Len(succs[b]), Dom(succs[b][i], b)
        PROVE  Waiting(b, i)' \/ b \in latches'[succs[b][i]]
    <3>1. CASE Waiting(b, i)
      <4>1. PICK k \in 1 .. n : stack[k].block = b /\ stack[k].next <= i
        BY <1>0, <3>1 DEF Waiting
      <4>2. CASE k < n
        <5>1. k \in 1 .. n - 1 /\ k \in 1 .. Len(stack')
          BY <4>2, <1>2
        <5>2. stack'[k] = stack[k]
          BY <5>1, <1>2
        <5> QED
          BY <4>1, <5>1, <5>2 DEF Waiting
      <4>3. CASE k = n
        <5>1. b = t /\ Top(stack).next <= i
          BY <4>1, <4>3, <1>0, <1>2
        <5>2. CASE i = Top(stack).next
          <6>1. succs[b][i] = c
            BY <5>1, <5>2, <1>2
          <6> QED
            BY <5>1, <6>1, <2>1, <1>5
        <5>3. CASE i # Top(stack).next
          <6>1. Top(stack).next + 1 <= i
            BY <5>1, <5>3, <1>2
          <6>2. n \in 1 .. Len(stack')
            BY <1>2
          <6>3. stack'[n].block = b /\ stack'[n].next = Top(stack).next + 1
            BY <1>2, <4>1, <4>3
          <6> QED
            BY <6>1, <6>2, <6>3 DEF Waiting
        <5> QED
          BY <5>2, <5>3
      <4> QED
        BY <4>1, <4>2, <4>3, <1>2
    <3>2. CASE b \in latches[succs[b][i]]
      <4>1. succs[b][i] \in Blocks
        BY <1>1 DEF Black, MarkedBy
      <4> QED
        BY <3>2, <4>1
    <3> QED
      BY <2>1, <3>1, <3>2, <1>1 DEF BackEdgesFollowed
  <2> QED
    BY <2>1, <1>3, <1>4 DEF BackEdgesFollowed
<1>7. DominatorsBelow'
  <2>1. ASSUME NEW k \in 1 .. n, NEW d \in Blocks, Dom(d, stack'[k].block)
        PROVE  \E j \in 1 .. k : stack'[j].block = d
    <3>1. PICK j \in 1 .. k : stack[j].block = d
      BY <2>1, <1>0, <1>1, <1>2 DEF DominatorsBelow
    <3>2. j \in 1 .. n
      BY <1>2
    <3> QED
      BY <3>1, <3>2, <1>2
  <2> QED
    BY <2>1, <1>2, <1>4 DEF DominatorsBelow
<1> QED
  BY <1>3, <1>6, <1>7, WalkNatural

LEMMA LatchSkipNatural ==
  ASSUME LoopPart, NaturalInv, LatchSkip
  PROVE  NaturalInv'
<1>1. /\ outcome = "running" /\ pc = "latches" /\ pc' = "latches"
      /\ stack # <<>> /\ ~LoopDone(succs, stack) /\ stack' = LoopOn(stack)
      /\ UNCHANGED <<loop, latches, reducible, blocks, outerLoop, innerLoops>>
      /\ UNCHANGED <<succs, rpoVector, dominatedBlocks>>
      /\ UNCHANGED <<markerIndex, colors, live, blackMrk, grayMrk, marks>>
      /\ SuccBlock(succs, stack) \notin Gray
  BY DEF LatchSkip, WalkUnchanged, loopState, treeState, Running, Gray, MarkedBy
<1>2. LatchLoops' /\ ReducibleByLatch'
  BY <1>1, InNaturalWalk, LatchLoopsKept
<1> QED
  BY <1>1, <1>2, GoOnNatural

LEMMA ProcessNewLatchNatural ==
  ASSUME LoopPart, NaturalInv, ProcessNewLatch
  PROVE  NaturalInv'
<1>0. PICK c, t : c = SuccBlock(succs, stack) /\ t = Top(stack).block
  OBVIOUS
<1>1. /\ outcome = "running" /\ pc = "latches" /\ pc' = "latches"
      /\ stack # <<>> /\ ~LoopDone(succs, stack) /\ stack' = LoopOn(stack)
      /\ UNCHANGED <<outerLoop, innerLoops>>
      /\ UNCHANGED <<succs, rpoVector, dominatedBlocks>>
      /\ UNCHANGED <<markerIndex, colors, live, blackMrk, grayMrk, marks>>
      /\ loop' = [loop EXCEPT ![c] = c]
      /\ blocks' = [blocks EXCEPT ![c] = @ \cup {c}]
      /\ latches' = [latches EXCEPT ![c] = @ \cup {t}]
      /\ reducible' = [reducible EXCEPT ![c] = Dom(c, t)]
  BY <1>0 DEF ProcessNewLatch, WalkUnchanged, treeState, Running, Dom
<1>2. /\ LatchWalk /\ stack \in Seq(Frames) /\ succs \in [Blocks -> Seq(Blocks)]
      /\ LatchLoops /\ ReducibleByLatch /\ LatchesClose
  BY <1>1, InWalk, InNaturalWalk
<1>3. t \in Blocks /\ c \in Blocks
  BY <1>0, <1>1, <1>2, Onward
<1>4. /\ latches' \in [Blocks -> SUBSET Blocks]
      /\ \A h \in Blocks :
           latches'[h] = IF h = c THEN latches[h] \cup {t} ELSE latches[h]
  BY <1>1, <1>2, <1>3 DEF LatchesClose
<1>5. LatchLoops'
  <2>1. loop[c] \in {Null, c} /\ Null \notin Blocks
    BY <1>2, <1>3, LoopAnalyzerAssumption DEF LatchLoops
  <2>2. Books(loop', outerLoop', blocks', innerLoops')
    BY <1>1, <1>2, <1>3, <2>1, LoopAnalyzerAssumption DEF LatchLoops, Books
  <2>3. \A h \in Blocks : /\ loop'[h] = IF latches'[h] = {} THEN Null ELSE h
                          /\ outerLoop'[h] = Null
    <3>1. \A h \in Blocks : loop'[h] = IF h = c THEN c ELSE loop[h]
      BY <1>1, <1>2, <1>3 DEF LatchLoops, Books
    <3> QED
      BY <3>1, <1>1, <1>2, <1>4 DEF LatchLoops
  <2>4. Books(loop, outerLoop, blocks, innerLoops)'
    BY <2>2, <1>1, FieldsStay
  <2> QED
    BY <2>3, <2>4 DEF LatchLoops
<1>6. ReducibleByLatch'
  <2>1. \A d, b : Dom(d, b)' <=> Dom(d, b)
    BY <1>1, TreeStays
  <2>2. Dom(c, t) \in BOOLEAN
    BY DEF Dom, T!IsDominatesOver
  <2>3. /\ reducible' \in [Blocks -> BOOLEAN]
        /\ \A h \in Blocks : h # c => reducible'[h] = reducible[h]
        /\ reducible'[c] <=> Dom(c, t)
    BY <2>2, <1>1, <1>2, <1>3 DEF ReducibleByLatch
  <2>4. ASSUME NEW h \in Blocks, latches'[h] # {}
        PROVE  \E l \in latches'[h] : reducible'[h] <=> Dom(h, l)
    <3>1. CASE h = c
      BY <3>1, <2>3, <1>3, <1>4
    <3>2. CASE h # c
      BY <3>2, <2>3, <2>4, <1>2, <1>4 DEF ReducibleByLatch
    <3> QED
      BY <3>1, <3>2
  <2> QED
    BY <2>1, <2>3, <2>4 DEF ReducibleByLatch
<1>7. t \in latches'[c] /\ \A h \in Blocks : latches[h] \subseteq latches'[h]
  BY <1>3, <1>4
<1> QED
  BY <1>0, <1>1, <1>5, <1>6, <1>7, GoOnNatural

LEMMA LatchReturnNatural ==
  ASSUME LoopPart, NaturalInv, LatchReturn
  PROVE  NaturalInv'
<1>0. PICK t, n : t = Top(stack).block /\ n = Len(stack)
  OBVIOUS
<1>1. /\ outcome = "running" /\ pc = "latches" /\ pc' = "latches"
      /\ stack # <<>> /\ LoopDone(succs, stack) /\ stack' = Pop(stack)
      /\ UNCHANGED <<loop, latches, reducible, blocks, outerLoop, innerLoops>>
      /\ UNCHANGED <<succs, rpoVector, dominatedBlocks>>
      /\ UNCHANGED <<markerIndex, colors, live, blackMrk, grayMrk>>
      /\ marks' = WithoutMarker(marks, t, grayMrk)
  BY <1>0 DEF LatchReturn, WalkUnchanged, loopState, treeState, Running
<1>2. /\ LatchWalk /\ stack \in Seq(Frames) /\ succs \in [Blocks -> Seq(Blocks)]
      /\ Manager /\ LatchLoops /\ ReducibleByLatch /\ grayMrk \in AllMarkers
      /\ BackEdgesFollowed /\ DominatorsBelow
  BY <1>1, InWalk, InNaturalWalk
<1>3. /\ n \in Nat \ {0} /\ stack[n] = Top(stack) /\ t \in Blocks
      /\ Top(stack).next \in Nat /\ Top(stack).next > Len(succs[t])
      /\ Len(stack') = n - 1 /\ \A k \in 1 .. n - 1 : stack'[k] = stack[k]
  BY <1>0, <1>1, <1>2, Back DEF LoopDone
<1>4. Manager'
  <2>1. MarksUpTo(WithoutMarker(marks, t, grayMrk), markerIndex)
    BY <1>2, <1>3, MarkBounds DEF Manager
  <2> QED
    BY <2>1, <1>1, <1>2 DEF Manager, MarksUpTo
<1>5. LatchLoops' /\ ReducibleByLatch'
  BY <1>1, <1>2, LatchLoopsKept
<1>6. Black' = Black
  BY <1>1, <1>2, <1>3, ReturnMarks DEF LatchWalk
<1>7. \A d, b : Dom(d, b)' <=> Dom(d, b)
  BY <1>1, TreeStays
<1>8. BackEdgesFollowed'
  <2>1. ASSUME NEW b \in Black, NEW i \in 1 .. Len(succs[b]), Waiting(b, i)
        PROVE  Waiting(b, i)'
    <3>1. PICK k \in 1 .. n : stack[k].block = b /\ stack[k].next <= i
      BY <1>0, <2>1 DEF Waiting
    <3>2. k # n
      BY <3>1, <1>0, <1>2, <1>3
    <3>3. k \in 1 .. n - 1 /\ k \in 1 .. Len(stack')
      BY <3>2, <1>3
    <3> QED
      BY <3>1, <3>3, <1>3 DEF Waiting
  <2> QED
    BY <2>1, <1>1, <1>2, <1>6, <1>7 DEF BackEdgesFollowed
<1>9. DominatorsBelow'
  <2>1. ASSUME NEW k \in 1 .. n - 1, NEW d \in Blocks, Dom(d, stack'[k].block)
        PROVE  \E j \in 1 .. k : stack'[j].block = d
    <3>1. k \in 1 .. n /\ Dom(d, stack[k].block)
      BY <2>1, <1>3
    <3>2. PICK j \in 1 .. k : stack[j].block = d
      BY <3>1, <1>0, <1>2 DEF DominatorsBelow
    <3>3. j \in 1 .. n - 1
      BY <1>3
    <3> QED
      BY <3>2, <3>3, <1>3
  <2> QED
    BY <2>1, <1>3, <1>7 DEF DominatorsBelow
<1> QED
  BY <1>1, <1>4, <1>5, <1>8, <1>9, WalkNatural
-----------------------------------------------------------------------------
(* When the walk is over, all sources of back edges are latches. *)
LEMMA SourcesAreFound ==
  ASSUME LoopPart, NaturalInv, outcome = "running", pc = "latches", stack = <<>>
  PROVE  SourcesFound
<1> SUFFICES ASSUME NEW h \in Blocks, NEW p \in BackSources(h) PROVE p \in latches[h]
  BY Zenon DEF SourcesFound
<1>1. Black = Blocks /\ BackEdgesFollowed
  BY WalkSawAll, InNaturalWalk
<1>2. p \in Blocks /\ h \in SuccSet(succs, p) /\ Dom(h, p)
  BY DEF BackSources, PredSet, Dom
<1>3. PICK i \in 1 .. Len(succs[p]) : h = succs[p][i]
  BY <1>2 DEF SuccSet
<1>4. ~Waiting(p, i)
  BY DEF Waiting
<1> QED
  BY <1>1, <1>2, <1>3, <1>4 DEF BackEdgesFollowed

(* PopulateLoops.  What a step of it has to show: it changes neither the   *)
(* tree nor the latches.                                                   *)
LEMMA PopulateNatural ==
  ASSUME NaturalInv, pc \in {"latches", "populate", "search"},
         pc' \in {"populate", "search", "done"},
         UNCHANGED <<succs, rpoVector, dominatedBlocks, latches, reducible>>,
         SourcesFound, outcome' = "running" => Manager',
         AllReducible => Populating'
  PROVE  NaturalInv'
<1>1. /\ \A d, b : Dom(d, b)' <=> Dom(d, b)
      /\ \A b : BackSources(b)' = BackSources(b)
  BY TreeStays
<1>2. TreeSound' /\ OrderSound'
  BY FieldsStay DEF NaturalInv, LaterPlaces
<1>3. ReducibleByLatch'
  BY <1>1 DEF NaturalInv, ReducibleByLatch
<1>4. SourcesFound'
  BY <1>1, Zenon DEF SourcesFound
<1>5. AllReducible' => AllReducible
  BY <1>1, Zenon DEF AllReducible
<1> QED
  BY <1>2, <1>3, <1>4, <1>5 DEF NaturalInv

(* All of a reducible graph's headers have loops now. *)
LEMMA HeadersHaveLoops ==
  ASSUME OrderSound, LatchLoops, SourcesFound, AllReducible
  PROVE  /\ Books(loop, outerLoop, blocks, innerLoops) /\ HeadersIn(loop, outerLoop)
         /\ Filled(loop, outerLoop, DoneHeaders(Cardinality(Blocks) - 1))
<1>1. ASSUME NEW h \in Blocks
      PROVE  loop[h] = (IF h \in LoopHeaders THEN h ELSE Null) /\ outerLoop[h] = Null
  <2>1. latches[h] = BackSources(h)
    BY Zenon DEF SourcesFound, AllReducible
  <2> QED
    BY <2>1 DEF LatchLoops, LoopHeaders
<1>2. \A h \in Blocks : /\ loop[h] = IF h \in LoopHeaders THEN h ELSE Null
                        /\ outerLoop[h] = Null
  BY <1>1, Zenon
<1>3. HeadersIn(loop, outerLoop) /\ LoopHeaders \subseteq Blocks
  BY <1>2 DEF HeadersIn, LoopHeaders
<1>4. Filled(loop, outerLoop, {})
  BY <1>2, <1>3 DEF Filled, Innermost, Around
<1> QED
  BY <1>3, <1>4, DoneEnds DEF LatchLoops

LEMMA EraseBothMarkersNatural ==
  ASSUME LoopPart, NaturalInv, EraseBothMarkers
  PROVE  NaturalInv'
<1>1. /\ outcome = "running" /\ pc = "latches" /\ stack = <<>>
      /\ pc' = "populate" /\ pos' = Cardinality(Blocks) - 1
      /\ UNCHANGED <<succs, rpoVector, dominatedBlocks, latches, reducible>>
      /\ UNCHANGED <<loop, blocks, outerLoop, innerLoops>>
      /\ colors' \subseteq colors /\ live' \subseteq live
      /\ UNCHANGED <<markerIndex, marks>>
  BY DEF EraseBothMarkers, loopState, treeState, Running
<1>2. OrderSound /\ Manager /\ LatchLoops
  BY <1>1, InNaturalWalk
<1>3. SourcesFound
  BY <1>1, SourcesAreFound
<1>4. Manager'
  BY <1>1, <1>2 DEF Manager, MarksUpTo
<1>5. ASSUME AllReducible PROVE Populating'
  <2>1. /\ Books(loop, outerLoop, blocks, innerLoops)
        /\ HeadersIn(loop, outerLoop)
        /\ Filled(loop, outerLoop, DoneHeaders(Cardinality(Blocks) - 1))
    BY <1>2, <1>3, <1>5, HeadersHaveLoops
  <2>2. /\ Books(loop', outerLoop', blocks', innerLoops')
        /\ HeadersIn(loop', outerLoop')
        /\ Filled(loop', outerLoop', DoneHeaders(pos'))
    BY <2>1, <1>1
  <2>3. /\ Books(loop, outerLoop, blocks, innerLoops)'
        /\ HeadersIn(loop, outerLoop)'
        /\ Filled(loop, outerLoop, DoneHeaders(pos))'
    BY <2>2, <1>1, FieldsStay
  <2> QED
    BY <2>3, <1>1 DEF Populating
<1> QED
  BY <1>1, <1>3, <1>4, <1>5, PopulateNatural
-----------------------------------------------------------------------------
(* While the loops are filled, a block is in a loop of its own if it is a  *)
(* header, and then the loop is reducible.                                 *)
LEMMA OnlyHeaders ==
  ASSUME SourcesFound, ReducibleByLatch, AllReducible, NEW b \in Blocks,
         Books(loop, outerLoop, blocks, innerLoops), HeadersIn(loop, outerLoop),
         NEW i, Filled(loop, outerLoop, DoneHeaders(i))
  PROVE  /\ IsHeader(b) <=> b \in LoopHeaders
         /\ IsHeader(b) => reducible[b]
         /\ latches[b] = BackSources(b)
<1>1. latches[b] = BackSources(b)
  BY Zenon DEF SourcesFound, AllReducible
<1>2. ASSUME b \notin LoopHeaders, loop[b] = b
      PROVE  FALSE
  <2>1. Innermost(loop[b], Around(b, DoneHeaders(i)), Null)
    BY <1>2 DEF Filled
  <2>2. b \in DoneHeaders(i)
    BY <2>1, <1>2, LoopAnalyzerAssumption DEF Innermost, Around
  <2> QED
    BY <2>2, <1>2 DEF DoneHeaders
<1>3. ASSUME b \in LoopHeaders PROVE loop[b] = b /\ reducible[b]
  <2>1. latches[b] # {}
    BY <1>1, <1>3 DEF LoopHeaders
  <2>2. PICK l \in latches[b] : reducible[b] <=> Dom(b, l)
    BY <2>1 DEF ReducibleByLatch
  <2>3. Dom(b, l)
    BY <1>1, <2>2 DEF BackSources, Dom
  <2> QED
    BY <1>3, <2>2, <2>3 DEF HeadersIn
<1> QED
  BY <1>1, <1>2, <1>3 DEF IsHeader

(* What the steps begin with. *)
LEMMA InPopulate ==
  ASSUME LoopPart, NaturalInv, outcome = "running", pc \in {"populate", "search"}
  PROVE  /\ Sound /\ Manager /\ SourcesFound /\ ReducibleByLatch
         /\ AllReducible => Populating
         /\ pc = "populate" => live = {}
         /\ pc = "search" => live = {blackMrk}
<1>1. succs \in [Blocks -> Seq(Blocks)] /\ Reachable(succs) = Blocks
  BY CfgsAssumption DEF LoopPart, TreeDone, LaterPlaces
<1>2. /\ pc = "populate" => live = {}
      /\ pc = "search" => live = {blackMrk}
  BY DEF LoopPart, MarkersHeld
<1> QED
  BY <1>1, <1>2 DEF NaturalInv, LaterPlaces, Sound

LEMMA SkipBlockNatural ==
  ASSUME LoopPart, NaturalInv, SkipBlock
  PROVE  NaturalInv'
<1>1. /\ outcome = "running" /\ pc = "populate" /\ pc' = "populate"
      /\ pos \in Slots /\ pos' = pos - 1 /\ ~IsHeader(rpoVector[pos])
      /\ UNCHANGED <<succs, rpoVector, dominatedBlocks, latches, reducible>>
      /\ UNCHANGED <<loop, blocks, outerLoop, innerLoops>>
      /\ UNCHANGED <<markerIndex, marks, colors, live>>
  BY DEF SkipBlock, PopulateUnchanged, markerState, loopState, treeState, Running
<1>2. /\ Sound /\ Manager /\ SourcesFound /\ ReducibleByLatch
      /\ AllReducible => Populating
  BY <1>1, InPopulate
<1>3. Manager'
  BY <1>1, <1>2 DEF Manager, MarksUpTo
<1>4. ASSUME AllReducible PROVE Populating'
  <2>1. /\ Books(loop, outerLoop, blocks, innerLoops)
        /\ HeadersIn(loop, outerLoop)
        /\ Filled(loop, outerLoop, DoneHeaders(pos))
    BY <1>1, <1>2, <1>4 DEF Populating
  <2>2. rpoVector[pos] \in Blocks
    BY <1>1, <1>2 DEF Sound, OrderSound
  <2>3. rpoVector[pos] \notin LoopHeaders
    BY <1>1, <1>2, <1>4, <2>1, <2>2, OnlyHeaders
  <2>4. DoneHeaders(pos - 1) = DoneHeaders(pos)
    <3>1. DoneHeaders(pos - 1) = DoneHeaders(pos) \cup (LoopHeaders \cap {rpoVector[pos]})
      BY <1>1, <1>2, DoneNext DEF Sound
    <3> QED
      BY <2>3, <3>1
  <2>5. /\ Books(loop', outerLoop', blocks', innerLoops')
        /\ HeadersIn(loop', outerLoop')
        /\ Filled(loop', outerLoop', DoneHeaders(pos'))
    BY <2>1, <2>4, <1>1
  <2>6. /\ Books(loop, outerLoop, blocks, innerLoops)'
        /\ HeadersIn(loop, outerLoop)'
        /\ Filled(loop, outerLoop, DoneHeaders(pos))'
    BY <2>5, <1>1, FieldsStay
  <2> QED
    BY <2>6, <1>1 DEF Populating
<1> QED
  BY <1>1, <1>2, <1>3, <1>4, PopulateNatural

(* No header of a reducible graph has an irreducible loop. *)
LEMMA ProcessIrreducibleLoopHeaderNatural ==
  ASSUME LoopPart, NaturalInv, ProcessIrreducibleLoopHeader
  PROVE  NaturalInv'
<1>1. /\ outcome = "running" /\ pc = "populate" /\ pc' = "populate"
      /\ pos \in Slots /\ IsHeader(rpoVector[pos]) /\ ~reducible[rpoVector[pos]]
      /\ UNCHANGED <<succs, rpoVector, dominatedBlocks, latches, reducible>>
      /\ UNCHANGED <<markerIndex, marks, colors, live>>
  BY DEF ProcessIrreducibleLoopHeader, PopulateUnchanged, markerState, treeState, Running
<1>2. /\ Sound /\ Manager /\ SourcesFound /\ ReducibleByLatch
      /\ AllReducible => Populating
  BY <1>1, InPopulate
<1>3. Manager'
  BY <1>1, <1>2 DEF Manager, MarksUpTo
<1>4. ASSUME AllReducible PROVE FALSE
  <2>1. /\ Books(loop, outerLoop, blocks, innerLoops)
        /\ HeadersIn(loop, outerLoop)
        /\ Filled(loop, outerLoop, DoneHeaders(pos))
    BY <1>1, <1>2, <1>4 DEF Populating
  <2>2. rpoVector[pos] \in Blocks
    BY <1>1, <1>2 DEF Sound, OrderSound
  <2> QED
    BY <1>1, <1>2, <1>4, <2>1, <2>2, OnlyHeaders
<1> QED
  BY <1>1, <1>2, <1>3, <1>4, PopulateNatural

(* The search is still one for the loop of cur if it lost no block and     *)
(* waits for the predecessors of what it newly marked.                     *)
LEMMA SearchStays ==
  ASSUME UNCHANGED <<succs, rpoVector, dominatedBlocks, blackMrk, pos>>,
         SearchOf(rpoVector[pos]), Black \subseteq Black',
         Black \cup pending \subseteq Black' \cup pending',
         Black' \cup pending' \subseteq NaturalLoop(rpoVector[pos]),
         \A c \in Black' \ Black : PredSet(c) \subseteq Black' \cup pending'
  PROVE  SearchOf(rpoVector[pos])'
<1> DEFINE cur == rpoVector[pos]
<1>1. PICK S, P : S = Black \cup pending /\ P = Black' \cup pending'
  OBVIOUS
<1>2. /\ \A b : PredSet(b)' = PredSet(b) /\ BackSources(b)' = BackSources(b)
                /\ NaturalLoop(b)' = NaturalLoop(b)
      /\ LoopHeaders' = LoopHeaders
  BY TreeStays
<1>3. cur' = cur
  OBVIOUS
<1>4. /\ cur \in LoopHeaders /\ cur \in Black /\ blackMrk \in AllMarkers
      /\ BackSources(cur) \subseteq S
  BY <1>1 DEF SearchOf
<1>5. ASSUME NEW c \in Black' \ {cur}, NEW p \in PredSet(c) PROVE p \in P
  <2>1. CASE c \in Black
    <3>1. PredSet(c) \subseteq S
      BY <2>1, <1>1, <1>5 DEF SearchOf
    <3> QED
      BY <3>1, <1>1, <1>5
  <2>2. CASE c \notin Black
    BY <2>2, <1>1, <1>5
  <2> QED
    BY <2>1, <2>2
<1>6. /\ cur \in LoopHeaders' /\ cur \in Black' /\ blackMrk' \in AllMarkers
      /\ P \subseteq NaturalLoop(cur)' /\ BackSources(cur)' \subseteq P
  BY <1>1, <1>2, <1>3, <1>4
<1> QED
  BY <1>1, <1>2, <1>3, <1>5, <1>6 DEF SearchOf

(* A block the search has marked is already seen. *)
LEMMA ReturnAtMarkedNatural ==
  ASSUME LoopPart, NaturalInv, ReturnAtMarked
  PROVE  NaturalInv'
<1>1. PICK b \in pending : IsMarked(marks, b, blackMrk) /\ pending' = pending \ {b}
  BY DEF ReturnAtMarked
<1>2. /\ outcome = "running" /\ pc = "search" /\ pc' = "search" /\ pos' = pos
      /\ UNCHANGED <<succs, rpoVector, dominatedBlocks, latches, reducible>>
      /\ UNCHANGED <<loop, blocks, outerLoop, innerLoops>>
      /\ UNCHANGED <<markerIndex, marks, colors, live, blackMrk>>
  BY DEF ReturnAtMarked, PopulateUnchanged, markerState, loopState, treeState, Running
<1>3. /\ Sound /\ Manager /\ SourcesFound
      /\ AllReducible => Populating
  BY <1>2, InPopulate
<1>4. Manager'
  BY <1>2, <1>3 DEF Manager, MarksUpTo
<1>5. Black' = Black
  BY <1>2 DEF Black, MarkedBy, IsMarked
<1>6. ASSUME AllReducible PROVE Populating'
  <2>1. /\ Books(loop, outerLoop, blocks, innerLoops)
        /\ HeadersIn(loop, outerLoop)
        /\ pos \in Slots /\ SearchOf(rpoVector[pos])
        /\ Searched(loop, outerLoop, Black, rpoVector[pos], DoneHeaders(pos))
    BY <1>2, <1>3, <1>6 DEF Populating
  <2>2. /\ Books(loop', outerLoop', blocks', innerLoops')
        /\ HeadersIn(loop', outerLoop')
        /\ Searched(loop', outerLoop', Black', rpoVector[pos'], DoneHeaders(pos'))
    BY <2>1, <1>2, <1>5
  <2>3. /\ Books(loop, outerLoop, blocks, innerLoops)'
        /\ HeadersIn(loop, outerLoop)'
        /\ Searched(loop, outerLoop, Black, rpoVector[pos], DoneHeaders(pos))'
    BY <2>2, <1>2, FieldsStay
  <2>4. b \in Black
    <3>1. b \in Blocks
      BY <2>1, BodyIsClosed DEF SearchOf, LoopHeaders
    <3> QED
      BY <3>1, <1>1 DEF Black, MarkedBy
  <2>5. Black' \cup pending' = Black \cup pending
    BY <2>4, <1>1, <1>5
  <2>6. SearchOf(rpoVector[pos])'
    <3>1. Black \cup pending \subseteq NaturalLoop(rpoVector[pos])
      BY <2>1 DEF SearchOf
    <3> QED
      BY <2>1, <2>5, <3>1, <1>2, <1>5, SearchStays
  <2>7. (pos \in Slots)'
    BY <2>1, <1>2 DEF Slots
  <2> QED
    BY <2>3, <2>6, <2>7, <1>2 DEF Populating
<1> QED
  BY <1>2, <1>3, <1>4, <1>6, PopulateNatural

(* A mark puts one block more into the set a marker stands for. *)
LEMMA MarkGrows ==
  ASSUME NEW ms \in Marks, NEW m \in AllMarkers, NEW b \in Blocks
  PROVE  MarkedBy(WithMarker(ms, b, m), m) = MarkedBy(ms, m) \cup {b}
<1>1. ColorOf(m) \in Colors /\ ValueOf(m) \in Nat
  BY IndexValuesAssumption DEF AllMarkers, ColorOf, ValueOf, Colors, COLORS_NUM
<1>2. ms \in [Blocks -> [Colors -> Nat]]
  BY DEF Marks
<1>3. \A x \in Blocks :
        WithMarker(ms, b, m)[x][ColorOf(m)] = ValueOf(m) <=>
          x = b \/ ms[x][ColorOf(m)] = ValueOf(m)
  BY <1>1, <1>2 DEF WithMarker
<1> QED
  BY <1>3 DEF MarkedBy, IsMarked

(* A header's search begins with the header marked, and nothing else. *)
LEMMA ProcessReducibleLoopHeaderNatural ==
  ASSUME LoopPart, NaturalInv, ProcessReducibleLoopHeader
  PROVE  NaturalInv'
<1>0. PICK cur, m, i : cur = rpoVector[pos] /\ m = M!NewMarker /\ i = pos
  OBVIOUS
<1>1. /\ outcome = "running" /\ pc = "populate" /\ pos \in Slots /\ pos' = pos
      /\ IsHeader(cur)
      /\ UNCHANGED <<succs, rpoVector, dominatedBlocks, latches, reducible>>
      /\ UNCHANGED <<loop, blocks, outerLoop, innerLoops>>
  BY <1>0
     DEF ProcessReducibleLoopHeader, PopulateUnchanged, loopState, treeState, Running
<1>2. /\ Sound /\ Manager /\ SourcesFound /\ ReducibleByLatch
      /\ AllReducible => Populating
      /\ live = {}
  BY <1>1, InPopulate
<1>3. cur \in Blocks
  BY <1>0, <1>1, <1>2 DEF Sound, OrderSound
<1>4. CASE M!CreateNewMarkerAborts /\ pc' = pc
  <2>1. outcome' # "running"
    BY <1>4 DEF M!CreateNewMarkerAborts
  <2>2. ASSUME AllReducible PROVE Populating'
    <3>1. /\ Books(loop, outerLoop, blocks, innerLoops)
          /\ HeadersIn(loop, outerLoop)
          /\ Filled(loop, outerLoop, DoneHeaders(pos))
      BY <1>1, <1>2, <2>2 DEF Populating
    <3>2. /\ Books(loop', outerLoop', blocks', innerLoops')
          /\ HeadersIn(loop', outerLoop')
          /\ Filled(loop', outerLoop', DoneHeaders(pos'))
      BY <3>1, <1>1
    <3>3. /\ Books(loop, outerLoop, blocks, innerLoops)'
          /\ HeadersIn(loop, outerLoop)'
          /\ Filled(loop, outerLoop, DoneHeaders(pos))'
      BY <3>2, <1>1, FieldsStay
    <3> QED
      BY <3>3, <1>1, <1>4 DEF Populating
  <2> QED
    BY <2>1, <2>2, <1>1, <1>2, <1>4, PopulateNatural
<1>5. CASE /\ M!IndexAvailable /\ M!FreeColors # {}
           /\ markerIndex' = markerIndex + 1 /\ colors' = colors \cup {ColorOf(m)}
           /\ live' = live \cup {m} /\ blackMrk' = m
           /\ marks' = WithMarker(marks, cur, m) /\ pending' = latches[cur]
           /\ pc' = "search"
  <2>1. MP!MarkersInv
    BY <1>1, <1>2, ManagerIs
  <2>2. /\ m \in AllMarkers /\ ValueOf(m) = markerIndex + 1
        /\ ColorOf(m) \in Colors /\ MarkedBy(marks, m) = {}
    BY <1>0, <1>5, <2>1, FreshMarker
  <2>3. markerIndex + 1 \in Nat /\ marks \in Marks
    BY <1>2 DEF Manager, MarksUpTo
  <2>4. Manager'
    <3>1. MarksUpTo(marks, markerIndex + 1)
      BY <1>2, <2>2, MarkBounds DEF Manager
    <3>2. MarksUpTo(WithMarker(marks, cur, m), markerIndex + 1)
      BY <3>1, <2>2, <2>3, MarkBounds
    <3>3. ValueOf(m) \in 1 .. markerIndex + 1
      BY <1>2, <2>2 DEF Manager
    <3> QED
      BY <1>2, <1>5, <2>2, <2>3, <3>2, <3>3 DEF Manager, MarksUpTo
  <2>5. Black' = {cur}
    <3>1. MarkedBy(WithMarker(marks, cur, m), m) = MarkedBy(marks, m) \cup {cur}
      BY <1>3, <2>2, <2>3, MarkGrows
    <3>2. Black' = MarkedBy(WithMarker(marks, cur, m), m)
      BY <1>5 DEF Black, MarkedBy, IsMarked
    <3> QED
      BY <2>2, <3>1, <3>2
  <2>6. ASSUME AllReducible PROVE Populating'
    <3>1. /\ Books(loop, outerLoop, blocks, innerLoops)
          /\ HeadersIn(loop, outerLoop)
          /\ Filled(loop, outerLoop, DoneHeaders(i))
      BY <1>0, <1>1, <1>2, <2>6 DEF Populating
    <3>2. cur \in LoopHeaders /\ latches[cur] = BackSources(cur)
      BY <1>1, <1>2, <1>3, <2>6, <3>1, OnlyHeaders
    <3>3. Searched(loop, outerLoop, {cur}, cur, DoneHeaders(i))
      BY <3>1, <3>2, SearchBegins
    <3>4. rpoVector'[pos'] = cur /\ pos' = i
      BY <1>0, <1>1
    <3>5. /\ Books(loop', outerLoop', blocks', innerLoops')
          /\ HeadersIn(loop', outerLoop')
          /\ Searched(loop', outerLoop', Black', rpoVector[pos'], DoneHeaders(pos'))
      BY <1>1, <2>5, <3>1, <3>3, <3>4
    <3>6. /\ Books(loop, outerLoop, blocks, innerLoops)'
          /\ HeadersIn(loop, outerLoop)'
          /\ Searched(loop, outerLoop, Black, rpoVector[pos], DoneHeaders(pos))'
      BY <1>1, <3>5, FieldsStay
    <3>7. SearchOf(rpoVector[pos])'
      <4>1. /\ LoopHeaders' = LoopHeaders /\ NaturalLoop(cur)' = NaturalLoop(cur)
            /\ BackSources(cur)' = BackSources(cur)
        BY <1>1, TreeStays
      <4>2. cur \in NaturalLoop(cur) /\ BackSources(cur) \subseteq NaturalLoop(cur)
        BY <1>3, BodyIsClosed
      <4>3. SearchOf(cur)'
        BY <1>5, <2>2, <2>5, <3>2, <4>1, <4>2 DEF SearchOf
      <4> QED
        BY <3>4, <4>3 DEF SearchOf
    <3>8. (pos \in Slots)'
      BY <1>1 DEF Slots
    <3> QED
      BY <1>5, <3>6, <3>7, <3>8 DEF Populating
  <2> QED
    BY <1>1, <1>2, <1>5, <2>4, <2>6, PopulateNatural
<1> QED
  BY <1>0, <1>4, <1>5 DEF ProcessReducibleLoopHeader

(* The search goes on with the predecessors of a block it has not seen.    *)
LEMMA LoopSearchDFSNatural ==
  ASSUME LoopPart, NaturalInv, LoopSearchDFS
  PROVE  NaturalInv'
<1>0. PICK cur, i : cur = rpoVector[pos] /\ i = pos
  OBVIOUS
<1>1. PICK b \in pending : /\ ~IsMarked(marks, b, blackMrk)
                           /\ marks' = WithMarker(marks, b, blackMrk)
                           /\ JoinLoop(cur, b)
                           /\ pending' = (pending \ {b}) \cup PredSet(b)
  BY <1>0 DEF LoopSearchDFS
<1>2. /\ outcome = "running" /\ pc = "search" /\ pc' = "search" /\ pos' = pos
      /\ UNCHANGED <<succs, rpoVector, dominatedBlocks>>
      /\ UNCHANGED <<markerIndex, colors, live, blackMrk>>
  BY DEF LoopSearchDFS, PopulateUnchanged, treeState, Running
<1>3. UNCHANGED <<latches, reducible>>
  BY <1>1 DEF JoinLoop, loopState
<1>4. /\ Sound /\ Manager /\ SourcesFound /\ live = {blackMrk}
      /\ AllReducible => Populating
  BY <1>2, InPopulate
<1>5. /\ blackMrk \in AllMarkers /\ ValueOf(blackMrk) <= markerIndex
      /\ markerIndex \in Nat /\ marks \in Marks
  BY <1>4 DEF Manager, MarksUpTo
<1>6. Manager'
  <2>1. MarksUpTo(WithMarker(marks, b, blackMrk), markerIndex)
    BY <1>4, <1>5, MarkBounds DEF Manager
  <2> QED
    BY <2>1, <1>1, <1>2, <1>4 DEF Manager, MarksUpTo
<1>7. ASSUME AllReducible PROVE Populating'
  <2>1. /\ Books(loop, outerLoop, blocks, innerLoops)
        /\ HeadersIn(loop, outerLoop)
        /\ pos \in Slots /\ SearchOf(cur)
        /\ Searched(loop, outerLoop, Black, cur, DoneHeaders(i))
    BY <1>0, <1>2, <1>4, <1>7 DEF Populating
  <2>2. /\ cur \in LoopHeaders /\ cur \in Blocks /\ cur \in Black
        /\ b \in NaturalLoop(cur) /\ Black \cup pending \subseteq NaturalLoop(cur)
    BY <2>1 DEF SearchOf, LoopHeaders
  <2>3. b \in Blocks
    BY <2>2, BodyIsClosed
  <2>4. b \notin Black /\ b # cur
    BY <1>1, <2>2 DEF Black, MarkedBy
  <2>5. Black' = Black \cup {b}
    <3>1. MarkedBy(WithMarker(marks, b, blackMrk), blackMrk)
            = MarkedBy(marks, blackMrk) \cup {b}
      BY <1>5, <2>3, MarkGrows
    <3> QED
      BY <3>1, <1>1, <1>2 DEF Black, MarkedBy, IsMarked
  <2>6. Books(loop', outerLoop', blocks', innerLoops')
    BY <1>1, <2>1, <2>2, <2>3, JoinBooks
  <2>7. /\ HeadersIn(loop', outerLoop')
        /\ Searched(loop', outerLoop', Black \cup {b}, cur, DoneHeaders(i))
    BY <1>0, <1>1, <1>4, <2>1, <2>2, <2>4, JoinSearched
  <2>8. /\ Books(loop, outerLoop, blocks, innerLoops)'
        /\ HeadersIn(loop, outerLoop)'
        /\ Searched(loop, outerLoop, Black, rpoVector[pos], DoneHeaders(pos))'
    <3>1. Searched(loop', outerLoop', Black', rpoVector[pos'], DoneHeaders(pos'))
      BY <1>0, <1>2, <2>5, <2>7
    <3> QED
      BY <1>2, <2>6, <2>7, <3>1, FieldsStay
  <2>9. SearchOf(rpoVector[pos])'
    <3>1. PredSet(b) \subseteq NaturalLoop(cur)
      BY <2>2, <2>4, BodyIsClosed
    <3>2. /\ Black \subseteq Black'
          /\ Black \cup pending \subseteq Black' \cup pending'
          /\ Black' \cup pending' \subseteq NaturalLoop(cur)
      BY <1>1, <2>2, <2>5, <3>1
    <3>3. \A c \in Black' \ Black : PredSet(c) \subseteq Black' \cup pending'
      <4> SUFFICES ASSUME NEW c \in Black' \ Black, NEW p \in PredSet(c)
                   PROVE  p \in Black' \cup pending'
        OBVIOUS
      <4>1. c = b
        BY <2>5
      <4> QED
        BY <4>1, <1>1
    <3> QED
      BY <1>0, <1>2, <2>1, <3>2, <3>3, SearchStays
  <2>10. (pos \in Slots)'
    BY <2>1, <1>2 DEF Slots
  <2> QED
    BY <2>8, <2>9, <2>10, <1>2 DEF Populating
<1> QED
  BY <1>2, <1>3, <1>4, <1>6, <1>7, PopulateNatural

(* With no calls left, all of the natural loop is seen. *)
LEMMA EndOfSearchNatural ==
  ASSUME LoopPart, NaturalInv, EndOfSearch
  PROVE  NaturalInv'
<1>0. PICK cur, i : cur = rpoVector[pos] /\ i = pos
  OBVIOUS
<1>1. /\ outcome = "running" /\ pc = "search" /\ pc' = "populate"
      /\ pending = {} /\ pos' = pos - 1
      /\ UNCHANGED <<succs, rpoVector, dominatedBlocks, latches, reducible>>
      /\ UNCHANGED <<loop, blocks, outerLoop, innerLoops>>
      /\ UNCHANGED <<markerIndex, marks>>
      /\ colors' \subseteq colors /\ live' \subseteq live
  BY DEF EndOfSearch, PopulateUnchanged, loopState, treeState, Running, M!EraseMarker
<1>2. /\ Sound /\ Manager /\ SourcesFound
      /\ AllReducible => Populating
  BY <1>1, InPopulate
<1>3. Manager'
  BY <1>1, <1>2 DEF Manager, MarksUpTo
<1>4. ASSUME AllReducible PROVE Populating'
  <2>1. /\ Books(loop, outerLoop, blocks, innerLoops)
        /\ HeadersIn(loop, outerLoop)
        /\ i \in Slots /\ SearchOf(cur)
        /\ Searched(loop, outerLoop, Black, cur, DoneHeaders(i))
    BY <1>0, <1>1, <1>2, <1>4 DEF Populating
  <2>2. /\ cur \in LoopHeaders /\ cur \in Black /\ Black \subseteq NaturalLoop(cur)
        /\ BackSources(cur) \subseteq Black
        /\ \A c \in Black \ {cur} : PredSet(c) \subseteq Black
    BY <1>1, <2>1 DEF SearchOf
  <2>3. Black = NaturalLoop(cur)
    <3>1. cur \in Blocks /\ Black \subseteq Blocks
      BY <2>2 DEF LoopHeaders, Black, MarkedBy
    <3>2. NaturalLoop(cur) \subseteq Black
      BY <2>2, <3>1, BodyIsLeast
    <3> QED
      BY <2>2, <3>2
  <2>4. Filled(loop, outerLoop, DoneHeaders(i - 1))
    BY <1>0, <1>2, <2>1, <2>2, <2>3, SearchFills
  <2>5. /\ Books(loop', outerLoop', blocks', innerLoops')
        /\ HeadersIn(loop', outerLoop')
        /\ Filled(loop', outerLoop', DoneHeaders(pos'))
    BY <1>0, <1>1, <2>1, <2>4
  <2>6. /\ Books(loop, outerLoop, blocks, innerLoops)'
        /\ HeadersIn(loop, outerLoop)'
        /\ Filled(loop, outerLoop, DoneHeaders(pos))'
    BY <1>1, <2>5, FieldsStay
  <2> QED
    BY <1>1, <2>6 DEF Populating
<1> QED
  BY <1>1, <1>2, <1>3, <1>4, PopulateNatural
-----------------------------------------------------------------------------
(* The innermost loop by dominance is the one by what the loops have.      *)
LEMMA InnermostIsLeast ==
  ASSUME Sound, NEW G \in SUBSET LoopHeaders, NEW b \in Blocks, NEW x,
         Innermost(x, Around(b, G), Null)
  PROVE  InnermostBody(x, Around(b, G), Null)
<1>1. G \subseteq Blocks
  BY DEF LoopHeaders
<1>2. ASSUME NEW g \in Around(b, G), x \in Around(b, G), Dom(g, x)
      PROVE  NaturalLoop(x) \subseteq NaturalLoop(g)
  <2>1. /\ g \in Blocks /\ x \in Blocks
        /\ b \in NaturalLoop(g) /\ b \in NaturalLoop(x)
    BY <1>1, <1>2 DEF Around
  <2>2. CASE g = x
    BY <2>2
  <2>3. CASE g # x
    BY <1>2, <2>1, <2>3, LoopsNest DEF Sound
  <2> QED
    BY <2>2, <2>3
<1> QED
  BY <1>2 DEF Innermost, InnermostBody

(* What is outermost goes to the root: the tree is the natural one.        *)
LEMMA TreeOfLoops ==
  ASSUME Sound, Books(loop, outerLoop, blocks, innerLoops),
         HeadersIn(loop, outerLoop), Filled(loop, outerLoop, LoopHeaders),
         NEW outermost,
         outermost = {loop[b] : b \in {c \in Blocks :
                        loop[c] # Null /\ outerLoop[loop[c]] = Null}},
         NEW o, o = [h \in Blocks |-> IF h \in outermost THEN Root ELSE outerLoop[h]],
         NEW bs, bs = [blocks EXCEPT ![Root] = {b \in Blocks : loop[b] = Null}],
         NEW ins, ins = [innerLoops EXCEPT ![Root] = outermost]
  PROVE  NaturalTree(loop, o, bs, ins)
<1>1. /\ LoopHeaders \subseteq Blocks /\ Null \notin Blocks
      /\ Root \notin Blocks
      /\ \A h \in LoopHeaders : loop[h] = h
  BY LoopAnalyzerAssumption DEF LoopHeaders, HeadersIn
<1>2. ASSUME NEW b \in Blocks
      PROVE  InnermostBody(loop[b], Around(b, LoopHeaders), Null)
  <2>1. CASE b \in LoopHeaders
    <3>1. loop[b] = b /\ b \in Around(b, LoopHeaders)
      BY <1>1, <2>1, BodyIsClosed DEF Around
    <3>2. ASSUME NEW g \in Around(b, LoopHeaders)
          PROVE  NaturalLoop(b) \subseteq NaturalLoop(g)
      <4>1. g \in Blocks /\ b \in NaturalLoop(g) /\ b \in NaturalLoop(b)
        BY <1>1, <3>1 DEF Around
      <4>2. Dom(g, b)
        BY <4>1, HeaderDominates DEF Sound
      <4>3. CASE g = b
        BY <4>3
      <4>4. CASE g # b
        BY <4>1, <4>2, <4>4, LoopsNest DEF Sound
      <4> QED
        BY <4>3, <4>4
    <3> QED
      BY <3>1, <3>2 DEF InnermostBody
  <2>2. CASE b \notin LoopHeaders
    <3>1. Innermost(loop[b], Around(b, LoopHeaders), Null)
      BY <2>2 DEF Filled
    <3> QED
      BY <3>1, InnermostIsLeast
  <2> QED
    BY <2>1, <2>2
<1>3. ASSUME NEW b \in Blocks PROVE loop[b] \in LoopHeaders \cup {Null}
  BY <1>2 DEF InnermostBody, Around
<1>4. {h \in Blocks : loop[h] = h} = LoopHeaders
  BY <1>1, <1>3
<1>5. outermost = {h \in LoopHeaders : outerLoop[h] = Null}
  BY <1>1, <1>3
<1>6. ASSUME NEW h \in Blocks
      PROVE  /\ h \in LoopHeaders /\ outerLoop[h] = Null => o[h] = Root
             /\ ~(h \in LoopHeaders /\ outerLoop[h] = Null) => o[h] = outerLoop[h]
  <2>1. h \in outermost <=> h \in LoopHeaders /\ outerLoop[h] = Null
    BY <1>5
  <2>2. o[h] = IF h \in outermost THEN Root ELSE outerLoop[h]
    BY Zenon
  <2> QED
    BY <2>1, <2>2, Zenon
<1>7. ASSUME NEW h \in LoopHeaders
      PROVE  InnermostBody(o[h], Around(h, LoopHeaders \ {h}), Root)
  <2>1. Innermost(outerLoop[h], Around(h, LoopHeaders \ {h}), Null)
    BY DEF Filled
  <2>2. InnermostBody(outerLoop[h], Around(h, LoopHeaders \ {h}), Null)
    BY <2>1, <1>1, InnermostIsLeast
  <2>3. CASE Around(h, LoopHeaders \ {h}) = {}
    BY <2>2, <2>3, <1>1, <1>6 DEF InnermostBody
  <2>4. CASE Around(h, LoopHeaders \ {h}) # {}
    <3>1. outerLoop[h] \in LoopHeaders
      BY <2>2, <2>4 DEF InnermostBody, Around
    <3>2. o[h] = outerLoop[h]
      BY <3>1, <1>1, <1>6
    <3> QED
      BY <3>2, <2>2, <2>4, Zenon DEF InnermostBody
  <2> QED
    BY <2>3, <2>4
<1>8. /\ \A h \in LoopHeaders : bs[h] = {b \in Blocks : loop[b] = h}
      /\ bs[Root] = {b \in Blocks : loop[b] = Null}
  BY <1>1 DEF Books
<1>9. ASSUME NEW h \in LoopHeaders \cup {Root}
      PROVE  ins[h] = {g \in LoopHeaders : o[g] = h}
  <2>1. CASE h = Root
    <3>1. ins[h] = outermost
      BY <2>1 DEF Books
    <3>2. \A g \in Blocks : outerLoop[g] # Root \/ outerLoop[g] = Null
      BY <1>1 DEF Books
    <3>3. ASSUME NEW g
          PROVE  g \in outermost <=> g \in LoopHeaders /\ o[g] = Root
      <4>1. CASE g \in LoopHeaders
        BY <4>1, <3>2, <1>1, <1>5, <1>6
      <4>2. CASE g \notin LoopHeaders
        BY <4>2, <1>5
      <4> QED
        BY <4>1, <4>2
    <3> QED
      BY <3>1, <3>3, <2>1, Zenon
  <2>2. CASE h \in LoopHeaders
    <3>1. ins[h] = {g \in Blocks : outerLoop[g] = h}
      BY <2>2, <1>1 DEF Books
    <3>2. \A g \in Blocks \ LoopHeaders : outerLoop[g] = Null
      BY DEF HeadersIn
    <3>3. ASSUME NEW g \in Blocks
          PROVE  outerLoop[g] = h <=> g \in LoopHeaders /\ o[g] = h
      <4>1. CASE g \in LoopHeaders
        BY <4>1, <2>2, <1>1, <1>6
      <4>2. CASE g \notin LoopHeaders
        BY <4>2, <3>2, <2>2, <1>1
      <4> QED
        BY <4>1, <4>2
    <3> QED
      BY <3>1, <3>3, <1>1, Zenon
  <2> QED
    BY <2>1, <2>2, Zenon
<1> QED
  BY <1>2, <1>4, <1>7, <1>8, <1>9, Zenon DEF NaturalTree

LEMMA BuildLoopTreeNatural ==
  ASSUME LoopPart, NaturalInv, BuildLoopTree
  PROVE  NaturalInv'
<1>0. PICK outermost :
        outermost = {loop[b] : b \in {c \in Blocks :
                       loop[c] # Null /\ outerLoop[loop[c]] = Null}}
  OBVIOUS
<1>1. /\ outcome = "running" /\ pc = "populate" /\ pc' = "done" /\ pos = -1
      /\ UNCHANGED <<succs, rpoVector, dominatedBlocks, latches, reducible>>
      /\ UNCHANGED <<loop, markerIndex, marks, colors, live>>
      /\ blocks' = [blocks EXCEPT ![Root] = {b \in Blocks : loop[b] = Null}]
      /\ innerLoops' = [innerLoops EXCEPT ![Root] = outermost]
      /\ outerLoop' = [h \in Blocks |-> IF h \in outermost THEN Root ELSE outerLoop[h]]
  BY <1>0 DEF BuildLoopTree, PopulateUnchanged, markerState, treeState, Running
<1>2. /\ Sound /\ Manager /\ SourcesFound
      /\ AllReducible => Populating
  BY <1>1, InPopulate
<1>3. Manager'
  BY <1>1, <1>2 DEF Manager, MarksUpTo
<1>4. ASSUME AllReducible PROVE Populating'
  <2>1. /\ Books(loop, outerLoop, blocks, innerLoops)
        /\ HeadersIn(loop, outerLoop)
        /\ Filled(loop, outerLoop, DoneHeaders(-1))
    BY <1>1, <1>2, <1>4 DEF Populating
  <2>2. DoneHeaders(-1) = LoopHeaders
    BY <1>2, DoneEnds DEF Sound
  <2>3. NaturalTree(loop, outerLoop', blocks', innerLoops')
    BY <1>0, <1>1, <1>2, <2>1, <2>2, TreeOfLoops
  <2>4. NaturalTree(loop', outerLoop', blocks', innerLoops')
    BY <1>1, <2>3
  <2>5. NaturalTree(loop, outerLoop, blocks, innerLoops)'
    BY <1>1, <2>4, FieldsStay
  <2> QED
    BY <1>1, <2>5 DEF Populating
<1> QED
  BY <1>1, <1>2, <1>3, <1>4, PopulateNatural
-----------------------------------------------------------------------------
(* Nothing happens in a stuttering step here, either. *)
LEMMA NaturalStutter ==
  ASSUME NaturalInv, UNCHANGED vars
  PROVE  NaturalInv'
<1>1. /\ UNCHANGED <<markerIndex, colors, marks, live, outcome, stack, pc, pos>>
      /\ UNCHANGED <<succs, rpoVector, dominatedBlocks, blackMrk, pending>>
      /\ UNCHANGED <<loop, latches, reducible, blocks, outerLoop, innerLoops>>
  BY DEF vars, markerState, treeState, loopState
<1>2. /\ \A d, b : Dom(d, b)' <=> Dom(d, b)
      /\ \A b : BackSources(b)' = BackSources(b)
  BY <1>1, TreeStays
<1>3. TreeSound /\ OrderSound => (TreeSound /\ OrderSound)'
  BY <1>1, FieldsStay
<1>4. (Manager => Manager') /\ Black' = Black
  BY <1>1 DEF Manager, MarksUpTo, Black, MarkedBy, IsMarked
<1>5. (LatchLoops => LatchLoops') /\ (ReducibleByLatch => ReducibleByLatch')
  BY <1>1, <1>2 DEF LatchLoops, Books, ReducibleByLatch
<1>6. /\ BackEdgesFollowed => BackEdgesFollowed'
      /\ DominatorsBelow => DominatorsBelow'
  BY <1>1, <1>2, <1>4 DEF BackEdgesFollowed, Waiting, DominatorsBelow
<1>7. (SourcesFound => SourcesFound') /\ (AllReducible' => AllReducible)
  BY <1>1, <1>2, Zenon DEF SourcesFound, AllReducible
<1>8. Populating => Populating'
  <2>1. SearchOf(rpoVector[pos]) => SearchOf(rpoVector[pos])'
    <3> SUFFICES ASSUME SearchOf(rpoVector[pos]) PROVE SearchOf(rpoVector[pos])'
      OBVIOUS
    <3>1. Black \cup pending \subseteq NaturalLoop(rpoVector[pos])
      BY DEF SearchOf
    <3> QED
      BY <3>1, <1>1, <1>4, SearchStays
  <2>2. /\ HeadersIn(loop, outerLoop) => HeadersIn(loop, outerLoop)'
        /\ Books(loop, outerLoop, blocks, innerLoops) =>
             Books(loop, outerLoop, blocks, innerLoops)'
        /\ Filled(loop, outerLoop, DoneHeaders(pos)) =>
             Filled(loop, outerLoop, DoneHeaders(pos))'
        /\ Searched(loop, outerLoop, Black, rpoVector[pos], DoneHeaders(pos)) =>
             Searched(loop, outerLoop, Black, rpoVector[pos], DoneHeaders(pos))'
        /\ NaturalTree(loop, outerLoop, blocks, innerLoops) =>
             NaturalTree(loop, outerLoop, blocks, innerLoops)'
    BY <1>1, <1>4, FieldsStay
  <2>3. pos \in Slots => (pos \in Slots)'
    BY <1>1 DEF Slots
  <2> QED
    BY <2>1, <2>2, <2>3, <1>1 DEF Populating
<1> QED
  BY <1>1, <1>3, <1>4, <1>5, <1>6, <1>7, <1>8 DEF NaturalInv

(* Every step but those of Build and of its caller keeps NaturalInv. *)
LEMMA NaturalPartNext ==
  ASSUME LoopPart, NaturalInv, AnalyzerStep, ~BuildDominatorTree, ~CreateBlackMarker
  PROVE  NaturalInv'
<1>1. CASE CreateGrayMarker
  BY <1>1, CreateGrayMarkerNatural
<1>2. CASE CollectLatches
  BY <1>2, CollectLatchesNatural
<1>3. CASE LatchVisit
  BY <1>3, LatchVisitNatural
<1>4. CASE LatchSkip
  BY <1>4, LatchSkipNatural
<1>5. CASE ProcessNewLatch
  BY <1>5, ProcessNewLatchNatural
<1>6. CASE LatchReturn
  BY <1>6, LatchReturnNatural
<1>7. CASE EraseBothMarkers
  BY <1>7, EraseBothMarkersNatural
<1>8. CASE SkipBlock
  BY <1>8, SkipBlockNatural
<1>9. CASE ProcessReducibleLoopHeader
  BY <1>9, ProcessReducibleLoopHeaderNatural
<1>10. CASE ProcessIrreducibleLoopHeader
  BY <1>10, ProcessIrreducibleLoopHeaderNatural
<1>11. CASE ReturnAtMarked
  BY <1>11, ReturnAtMarkedNatural
<1>12. CASE LoopSearchDFS
  BY <1>12, LoopSearchDFSNatural
<1>13. CASE EndOfSearch
  BY <1>13, EndOfSearchNatural
<1>14. CASE BuildLoopTree
  BY <1>14, BuildLoopTreeNatural
<1> QED
  BY <1>1, <1>2, <1>3, <1>4, <1>5, <1>6, <1>7, <1>8, <1>9, <1>10, <1>11, <1>12,
     <1>13, <1>14 DEF AnalyzerStep
-----------------------------------------------------------------------------
(* What the invariant says at the end is the property. *)
LEMMA TreeIsNatural ==
  ASSUME NaturalInv
  PROVE  LoopsAreNatural
<1> DEFINE body == [h \in LoopHeaders |-> NaturalLoop(h)]
           IsInnermost(h, around, none) ==
             IF around = {} THEN h = none
             ELSE h \in around /\ \A g \in around : body[h] \subseteq body[g]
<1> SUFFICES ASSUME Done, AllReducible
             PROVE  /\ Headers = LoopHeaders
                    /\ \A b \in Blocks :
                         IsInnermost(loop[b], {h \in LoopHeaders : b \in body[h]}, Null)
                    /\ \A h \in LoopHeaders :
                         IsInnermost(outerLoop[h],
                                     {g \in LoopHeaders \ {h} : h \in body[g]}, Root)
                    /\ \A h \in LoopHeaders : blocks[h] = {b \in Blocks : loop[b] = h}
                    /\ blocks[Root] = {b \in Blocks : loop[b] = Null}
                    /\ \A h \in LoopHeaders \cup {Root} :
                         innerLoops[h] = {g \in LoopHeaders : outerLoop[g] = h}
  BY Zenon DEF LoopsAreNatural, LoopHeaders
<1>1. NaturalTree(loop, outerLoop, blocks, innerLoops)
  BY DEF NaturalInv, Populating, Done
<1>2. ASSUME NEW b, NEW G \in SUBSET LoopHeaders, NEW x, NEW none,
             InnermostBody(x, Around(b, G), none)
      PROVE  IsInnermost(x, {h \in G : b \in body[h]}, none)
  <2>1. {h \in G : b \in body[h]} = Around(b, G)
    BY DEF Around
  <2>2. \A h \in Around(b, G) : body[h] = NaturalLoop(h)
    BY DEF Around
  <2> HIDE DEF body
  <2> QED
    BY <2>1, <2>2, <1>2, Zenon DEF InnermostBody
<1>3. ASSUME NEW b \in Blocks
      PROVE  IsInnermost(loop[b], {h \in LoopHeaders : b \in body[h]}, Null)
  <2> HIDE DEF IsInnermost, body
  <2>1. InnermostBody(loop[b], Around(b, LoopHeaders), Null)
    BY <1>1, Zenon DEF NaturalTree
  <2>2. LoopHeaders \in SUBSET LoopHeaders
    OBVIOUS
  <2> QED
    BY <2>1, <2>2, <1>2, Zenon
<1>4. ASSUME NEW h \in LoopHeaders
      PROVE  IsInnermost(outerLoop[h], {g \in LoopHeaders \ {h} : h \in body[g]}, Root)
  <2> HIDE DEF IsInnermost, body
  <2>1. InnermostBody(outerLoop[h], Around(h, LoopHeaders \ {h}), Root)
    BY <1>1, Zenon DEF NaturalTree
  <2>2. LoopHeaders \ {h} \in SUBSET LoopHeaders
    OBVIOUS
  <2> QED
    BY <2>1, <2>2, <1>2, Zenon
<1> HIDE DEF IsInnermost, body
<1> QED
  BY <1>1, <1>3, <1>4, Zenon DEF NaturalTree, Headers
-----------------------------------------------------------------------------
(* Build, with what is proved about it. *)
B == INSTANCE DominatorTreeProofs WITH MAX_BUILDS <- 1

(* A marker is created in the same way. *)
LEMMA SameCreate ==
  ASSUME NEW from, NEW to
  PROVE  T!CreateMarker(from, to) <=> B!CreateMarker(from, to)
<1>1. T!M!NewMarker = B!M!NewMarker /\ T!M!FreeColors = B!M!FreeColors
  BY Zenon DEF T!M!NewMarker, B!M!NewMarker, T!M!MarkerOf, B!M!MarkerOf, T!M!Min,
               B!M!Min, T!M!FreeColors, B!M!FreeColors, T!M!Colors, B!M!Colors,
               T!M!COLORS_NUM, B!M!COLORS_NUM
<1>2. T!M!Min(T!M!FreeColors) = B!M!Min(B!M!FreeColors)
  BY <1>1, Zenon DEF T!M!Min, B!M!Min
<1>3. /\ T!M!CreateNewMarker <=> B!M!CreateNewMarker
      /\ T!M!CreateNewMarkerAborts <=> B!M!CreateNewMarkerAborts
  BY <1>1, <1>2
     DEF T!M!CreateNewMarker, B!M!CreateNewMarker, T!M!IndexAvailable,
         B!M!IndexAvailable, T!M!CreateNewMarkerAborts, B!M!CreateNewMarkerAborts
<1> QED
  BY <1>1, <1>3
     DEF T!CreateMarker, B!CreateMarker, T!Running, B!Running, T!rpoState, B!rpoState,
         T!dfsState, B!dfsState, T!treeState, B!treeState

(* So is it given back. *)
LEMMA SameErase == T!M!EraseMarker(marker) <=> B!M!EraseMarker(marker)
BY DEF T!M!EraseMarker, B!M!EraseMarker, T!M!ColorOf, B!M!ColorOf, T!M!COLORS_NUM,
       B!M!COLORS_NUM

(* The slots of the vector are the same. *)
LEMMA SameSlots ==
  /\ T!R!AliveBlockCount = B!R!AliveBlockCount
  /\ T!Slots = Slots /\ B!Slots = Slots /\ T!R!Slots = Slots /\ B!R!Slots = Slots
<1>1. /\ T!R!AliveBlockCount = Cardinality(Blocks)
      /\ B!R!AliveBlockCount = Cardinality(Blocks)
  BY DEF T!R!AliveBlockCount, B!R!AliveBlockCount, T!R!Cardinality, B!R!Cardinality,
         Cardinality
<1> QED
  BY <1>1 DEF T!Slots, B!Slots, T!R!Slots, B!R!Slots, Slots

(* A step of RPO in Build is the same. *)
LEMMA SameRpo == T!RpoWalk <=> B!RpoWalk
<1>1. T!R!RpoRun <=> B!R!RpoRun
  BY SameSlots, Zenon
     DEF T!R!RpoRun, B!R!RpoRun, T!R!RpoIdle, B!R!RpoIdle, T!R!RpoEnter, B!R!RpoEnter,
         T!R!Call, B!R!Call, T!R!WithMarker, B!R!WithMarker, T!R!ColorOf, B!R!ColorOf,
         T!R!ValueOf, B!R!ValueOf, T!R!COLORS_NUM, B!R!COLORS_NUM
<1>2. T!R!RpoVisit <=> B!R!RpoVisit
  BY Zenon
     DEF T!R!RpoVisit, B!R!RpoVisit, T!R!RpoEnter, B!R!RpoEnter, T!R!Call, B!R!Call,
         T!R!WithMarker, B!R!WithMarker, T!R!ColorOf, B!R!ColorOf, T!R!ValueOf,
         B!R!ValueOf, T!R!COLORS_NUM, B!R!COLORS_NUM, T!R!LoopDone, B!R!LoopDone,
         T!R!SuccBlock, B!R!SuccBlock, T!R!LoopOn, B!R!LoopOn, T!R!Top, B!R!Top,
         T!R!IsMarked, B!R!IsMarked
<1>3. T!R!RpoSkip <=> B!R!RpoSkip
  BY Zenon
     DEF T!R!RpoSkip, B!R!RpoSkip, T!R!ColorOf, B!R!ColorOf, T!R!ValueOf, B!R!ValueOf,
         T!R!COLORS_NUM, B!R!COLORS_NUM, T!R!LoopDone, B!R!LoopDone, T!R!SuccBlock,
         B!R!SuccBlock, T!R!LoopOn, B!R!LoopOn, T!R!Top, B!R!Top, T!R!IsMarked,
         B!R!IsMarked
<1>4. T!R!RpoFinish <=> B!R!RpoFinish
  BY Zenon
     DEF T!R!RpoFinish, B!R!RpoFinish, T!R!LoopDone, B!R!LoopDone, T!R!Top, B!R!Top,
         T!R!Pop, B!R!Pop
<1> QED
  BY <1>1, <1>2, <1>3, <1>4
     DEF T!R!RpoStep, B!R!RpoStep, T!RpoWalk, B!RpoWalk, T!Running, B!Running,
         T!dfsState, B!dfsState, T!treeState, B!treeState

(* A step of DFS in Build is the same. *)
LEMMA SameDfs == T!DfsWalk <=> B!DfsWalk
<1>1. T!D!DfsRun \/ T!D!DfsStep <=> B!D!DfsRun \/ B!D!DfsStep
  BY DEF T!D!DfsRun, T!D!DfsStep, B!D!DfsRun, B!D!DfsStep, T!D!DfsVisit, T!D!DfsSkip,
         T!D!DfsReturn, B!D!DfsVisit, B!D!DfsSkip, B!D!DfsReturn, T!D!DfsIdle,
         B!D!DfsIdle, T!D!DfsEnter, B!D!DfsEnter, T!D!LoopDone, B!D!LoopDone,
         T!D!SuccBlock, B!D!SuccBlock, T!D!LoopOn, B!D!LoopOn, T!D!Top, B!D!Top,
         T!D!Pop, B!D!Pop, T!D!Call, B!D!Call, T!D!WithMarker, B!D!WithMarker,
         T!D!IsMarked, B!D!IsMarked, T!D!MarkedBy, B!D!MarkedBy, T!D!ColorOf,
         B!D!ColorOf, T!D!ValueOf, B!D!ValueOf, T!D!COLORS_NUM, B!D!COLORS_NUM
<1> QED
  BY <1>1
     DEF T!DfsWalk, B!DfsWalk, T!Running, B!Running, T!rpoState, B!rpoState,
         T!treeState, B!treeState

(* A step of Build in the analysis is a step of Build. *)
LEMMA SameBuildStep == T!BuildStep => B!BuildStep
<1>1. T!RunRpo => B!RunRpo
  BY SameCreate DEF T!RunRpo, B!RunRpo
<1>2. T!StartTree => B!StartTree
  BY SameErase, SameSlots
     DEF T!StartTree, B!StartTree, T!Running, B!Running, T!R!RpoDone, B!R!RpoDone,
         T!rpoState, B!rpoState, T!dfsState, B!dfsState
<1>3. T!TakeMarker => B!TakeMarker
  BY SameCreate, SameSlots DEF T!TakeMarker, B!TakeMarker
<1>4. T!TakeBlockOut => B!TakeBlockOut
  BY DEF T!TakeBlockOut, B!TakeBlockOut, T!Running, B!Running, T!M!SetMarker,
         B!M!SetMarker, T!M!WithMarker, B!M!WithMarker, T!M!ColorOf, B!M!ColorOf,
         T!M!ValueOf, B!M!ValueOf, T!M!COLORS_NUM, B!M!COLORS_NUM, T!rpoState,
         B!rpoState, T!dfsState, B!dfsState, T!treeState, B!treeState
<1>5. \A how : T!Halt(how) => B!Halt(how)
  BY DEF T!Halt, B!Halt, T!rpoState, B!rpoState, T!dfsState, B!dfsState, T!treeState,
         B!treeState
<1>6. T!TakeNullOut => B!TakeNullOut
  BY <1>5 DEF T!TakeNullOut, B!TakeNullOut, T!Running, B!Running
<1>7. T!NotFound = B!NotFound /\ (T!D!DfsDone <=> B!D!DfsDone)
  BY SameSlots
     DEF T!NotFound, B!NotFound, T!D!Found, B!D!Found, T!D!DfsDone, B!D!DfsDone
<1>8. T!CalculateDominatedBlocks => B!CalculateDominatedBlocks
  BY <1>7, SameErase
     DEF T!CalculateDominatedBlocks, B!CalculateDominatedBlocks, T!Running, B!Running,
         T!rpoState, B!rpoState
<1>9. T!DominatedWithoutEntry => B!DominatedWithoutEntry
  BY <1>5, <1>7
     DEF T!DominatedWithoutEntry, B!DominatedWithoutEntry, T!Running, B!Running
<1>10. T!EndOfLoop => B!EndOfLoop
  BY SameSlots
     DEF T!EndOfLoop, B!EndOfLoop, T!Running, B!Running, T!markerState, B!markerState,
         T!rpoState, B!rpoState, T!dfsState, B!dfsState, T!treeState, B!treeState
<1>11. \A b : T!ImmediatelyDominated(b) = B!ImmediatelyDominated(b)
  BY DEF T!ImmediatelyDominated, B!ImmediatelyDominated, T!IsDominatesOver,
         B!IsDominatesOver
<1>12. T!CalculateImmediateDominators => B!CalculateImmediateDominators
  BY <1>11, SameSlots
     DEF T!CalculateImmediateDominators, B!CalculateImmediateDominators, T!Running,
         B!Running, T!markerState, B!markerState, T!rpoState, B!rpoState, T!dfsState,
         B!dfsState
<1>13. T!ImmediateWithoutEntry => B!ImmediateWithoutEntry
  BY <1>5, SameSlots
     DEF T!ImmediateWithoutEntry, B!ImmediateWithoutEntry, T!Running, B!Running
<1>14. T!ImmediateOfNull => B!ImmediateOfNull
  BY <1>5, SameSlots DEF T!ImmediateOfNull, B!ImmediateOfNull, T!Running, B!Running
<1>15. T!EndOfBuild => B!EndOfBuild
  BY SameSlots
     DEF T!EndOfBuild, B!EndOfBuild, T!Running, B!Running, T!markerState, B!markerState,
         T!rpoState, B!rpoState, T!dfsState, B!dfsState, T!treeState, B!treeState
<1> QED
  BY <1>1, <1>2, <1>3, <1>4, <1>6, <1>8, <1>9, <1>10, <1>12, <1>13, <1>14, <1>15,
     SameRpo, SameDfs DEF T!BuildStep, B!BuildStep

(* So are the initial states. *)
LEMMA SameInit == T!Init => B!Init
BY DEF T!Init, B!Init, T!M!MarkersInit, B!M!MarkersInit, T!M!Colors, B!M!Colors,
       T!M!COLORS_NUM, B!M!COLORS_NUM, T!M!UNMARKER, B!M!UNMARKER, T!UNMARKER, B!UNMARKER

(* What the modules of Build assume is assumed here. *)
LEMMA SameAssumptions ==
  B!IsFiniteSet(Blocks) /\ B!MAX_SUCCESSORS = MAX_SUCCESSORS /\ 1 \in Nat
BY LoopAnalyzerAssumption
   DEF B!IsFiniteSet, IsFiniteSet, B!MAX_SUCCESSORS, MAX_SUCCESSORS

(* What can be reached means the same there. *)
LEMMA SameReach ==
  /\ \A ss, from, avoid :
       B!ReachableAvoiding(ss, from, avoid) = ReachableAvoiding(ss, from, avoid)
  /\ \A ss, b : B!SuccSet(ss, b) = SuccSet(ss, b)
<1>1. \A ss, b : B!SuccSet(ss, b) = SuccSet(ss, b)
  BY DEF B!SuccSet, SuccSet
<1>2. \A ss, avoid, S : B!ClosedAvoiding(ss, avoid, S) <=> ClosedAvoiding(ss, avoid, S)
  BY <1>1 DEF B!ClosedAvoiding, ClosedAvoiding
<1> QED
  BY <1>1, <1>2 DEF B!ReachableAvoiding, ReachableAvoiding

(* Build keeps its invariant. *)
LEMMA BuildKeeps ==
  ASSUME B!BuildInv, T!BuildStep
  PROVE  B!BuildInv'
<1>1. B!BuildStep
  BY SameBuildStep
<1>2. [B!Next]_B!vars
  BY <1>1 DEF B!Next
<1> QED
  BY <1>2, B!BuildInvNext, SameAssumptions, IndexValuesAssumption, StartAssumption,
     CfgsAssumption, LoopAnalyzerAssumption
-----------------------------------------------------------------------------
(* An aborted Build leaves no more than that. *)
BuildPart ==
  pc \in BuildPlaces => NoLatches /\ (outcome = "running" => B!BuildInv)

(* The inductive invariant. *)
AnalyzerInv == BuildPart /\ LoopPart

(* The manager of Build is the same. *)
LEMMA BuildMarkers ==
  ASSUME B!BuildInv
  PROVE  /\ outcome = "running" => MP!MarkersInv
         /\ live = IF pc \in {"rpo", "remove", "dfs"} THEN {marker} ELSE {}
<1>1. B!MP!Marks = MP!Marks /\ B!MP!AllMarkers = MP!AllMarkers /\ B!MP!Colors = MP!Colors
  BY DEF B!MP!Marks, MP!Marks, B!MP!AllMarkers, MP!AllMarkers, B!MP!Colors, MP!Colors,
         B!MP!COLORS_NUM, MP!COLORS_NUM
<1>2. \A m : B!MP!ColorOf(m) = MP!ColorOf(m) /\ B!MP!ValueOf(m) = MP!ValueOf(m)
  BY DEF B!MP!ColorOf, MP!ColorOf, B!MP!ValueOf, MP!ValueOf, B!MP!COLORS_NUM,
         MP!COLORS_NUM
<1>3. B!MP!MarkersInv => MP!MarkersInv
  <2>1. B!MP!MarkersTypeOK => MP!MarkersTypeOK
    BY <1>1 DEF B!MP!MarkersTypeOK, MP!MarkersTypeOK, B!MP!Outcomes, MP!Outcomes
  <2>2. B!MP!LiveColorsDistinct => MP!LiveColorsDistinct
    BY <1>2 DEF B!MP!LiveColorsDistinct, MP!LiveColorsDistinct
  <2>3. B!MP!NoFutureMarks => MP!NoFutureMarks
    BY <1>1, <1>2 DEF B!MP!NoFutureMarks, MP!NoFutureMarks
  <2> QED
    BY <2>1, <2>2, <2>3 DEF B!MP!MarkersInv, MP!MarkersInv
<1> QED
  BY <1>3 DEF B!BuildInv, B!RunInv, B!MarkerHeld

(* So it is after a step. *)
LEMMA BuildMarkersNext ==
  ASSUME B!BuildInv'
  PROVE  live' = IF pc' \in {"rpo", "remove", "dfs"} THEN {marker'} ELSE {}
BY DEF B!BuildInv, B!RunInv, B!MarkerHeld

(* The invariant holds at first. *)
LEMMA AnalyzerInvInit == LoopInit => AnalyzerInv
<1> SUFFICES ASSUME LoopInit PROVE AnalyzerInv
  OBVIOUS
<1>1. B!BuildInv
  BY SameInit, B!BuildInvInit, SameAssumptions, IndexValuesAssumption, StartAssumption,
     CfgsAssumption, LoopAnalyzerAssumption DEF LoopInit
<1>2. /\ pc = "begin" /\ live = {} /\ colors = {}
      /\ latches = [h \in Blocks |-> {}]
  BY DEF LoopInit, T!Init, T!M!MarkersInit
<1> QED
  BY <1>1, <1>2
     DEF AnalyzerInv, LoopPart, BuildPart, NoLatches, ColorsInUse, MarkersHeld, TreeDone,
         BeforeWalk,
         LatchesClose, BuildPlaces, LaterPlaces

(* Build keeps it. *)
LEMMA BuildDominatorTreeInv ==
  ASSUME AnalyzerInv, BuildDominatorTree
  PROVE  AnalyzerInv'
<1>1. /\ T!BuildStep /\ latches' = latches
      /\ outcome = "running" /\ pc \in BuildPlaces \ {"built"} /\ pc' \in BuildPlaces
      /\ \/ colors' = colors /\ live' = live
         \/ M!CreateNewMarker /\ pc \in {"begin", "take"}
         \/ M!EraseMarker(marker) /\ pc \in {"rpo", "dfs"}
  BY BuildStepMarkers DEF BuildDominatorTree, loopState
<1>2. B!BuildInv /\ B!BuildInv' /\ NoLatches
  BY <1>1, BuildKeeps DEF AnalyzerInv, LoopPart, BuildPart
<1>3. /\ MP!MarkersInv
      /\ live = IF pc \in {"rpo", "remove", "dfs"} THEN {marker} ELSE {}
  BY <1>1, <1>2, BuildMarkers
<1>4. ColorsInUse'
  <2>1. CASE colors' = colors /\ live' = live
    BY <2>1 DEF AnalyzerInv, LoopPart, ColorsInUse
  <2>2. CASE M!CreateNewMarker /\ pc \in {"begin", "take"}
    <3>1. /\ live' = live \cup {M!NewMarker}
          /\ colors' = colors \cup {ColorOf(M!NewMarker)}
      BY <2>2, <1>3, MarkerCreated
    <3> QED
      BY <3>1 DEF AnalyzerInv, LoopPart, ColorsInUse
  <2>3. CASE M!EraseMarker(marker) /\ pc \in {"rpo", "dfs"}
    <3>1. /\ live = {marker} /\ live' = {}
          /\ colors' = colors \ {ColorOf(marker)}
      BY <2>3, <1>3, SameMarkers DEF M!EraseMarker
    <3> QED
      BY <3>1 DEF AnalyzerInv, LoopPart, ColorsInUse
  <2> QED
    BY <2>1, <2>2, <2>3, <1>1
<1>5. MarkersHeld'
  <2>1. live' = IF pc' \in {"rpo", "remove", "dfs"} THEN {marker'} ELSE {}
    BY <1>2, BuildMarkersNext
  <2> QED
    BY <2>1, <1>1 DEF MarkersHeld, BuildPlaces
<1>6. pc' \notin LaterPlaces
  BY <1>1 DEF BuildPlaces, LaterPlaces
<1>7. LatchesClose'
  BY <1>1, <1>2 DEF LatchesClose, NoLatches
<1> QED
  BY <1>1, <1>2, <1>4, <1>5, <1>6, <1>7
     DEF AnalyzerInv, LoopPart, BuildPart, NoLatches, MarkersHeld, TreeDone, BeforeWalk,
         BuildPlaces, LaterPlaces

(* What is there when Build returns. *)
LEMMA BuiltTree ==
  ASSUME B!BuildInv, outcome = "running", pc = "built"
  PROVE  /\ MP!MarkersInv /\ live = {} /\ stack = <<>>
         /\ succs \in CFGS /\ Reachable(succs) = Blocks
<1>1. MP!MarkersInv /\ live = {}
  BY BuildMarkers
<1>2. B!Connected
  BY B!BuiltFacts, SameAssumptions, IndexValuesAssumption, StartAssumption,
     CfgsAssumption, LoopAnalyzerAssumption DEF B!Built
<1>3. Reachable(succs) = Blocks
  BY <1>2, SameReach DEF B!Connected, B!Reachable, Reachable
<1>5. stack = <<>> /\ succs \in CFGS
  BY DEF B!BuildInv, B!RunInv, B!WalkInv, B!NoWalk, B!TypeOK
<1> QED
  BY <1>1, <1>3, <1>5

(* The black marker. *)
LEMMA CreateBlackMarkerInv ==
  ASSUME AnalyzerInv, CreateBlackMarker
  PROVE  AnalyzerInv'
<1>1. /\ outcome = "running" /\ pc = "built"
      /\ UNCHANGED <<succs, stack, latches>>
  BY DEF CreateBlackMarker, Running, loopState
<1>2. B!BuildInv /\ NoLatches
  BY <1>1 DEF AnalyzerInv, LoopPart, BuildPart, BuildPlaces
<1>3. /\ MP!MarkersInv /\ live = {} /\ stack = <<>>
      /\ succs \in CFGS /\ Reachable(succs) = Blocks
  BY <1>1, <1>2, BuiltTree
<1>4. LatchesClose'
  BY <1>1, <1>2 DEF LatchesClose, NoLatches
<1>5. CASE M!CreateNewMarker /\ blackMrk' = M!NewMarker /\ pc' = "gray"
  <2>1. /\ MP!MarkersInv'
        /\ live' = live \cup {M!NewMarker}
        /\ colors' = colors \cup {ColorOf(M!NewMarker)}
        /\ marks' = marks /\ MarkedBy(marks, M!NewMarker) = {}
    BY <1>3, <1>5, MarkerCreated
  <2>2. ColorsInUse'
    BY <2>1 DEF AnalyzerInv, LoopPart, ColorsInUse
  <2>3. MarkersHeld'
    BY <2>1, <1>3, <1>5 DEF MarkersHeld, BuildPlaces
  <2>4. TreeDone'
    BY <1>1, <1>3 DEF TreeDone
  <2>5. BeforeWalk'
    BY <2>1, <1>1, <1>2, <1>3, <1>5 DEF BeforeWalk, NoLatches, Black
  <2> QED
    BY <2>2, <2>3, <2>4, <2>5, <1>4, <1>5
       DEF AnalyzerInv, LoopPart, BuildPart, BuildPlaces, LaterPlaces
<1>6. CASE M!CreateNewMarkerAborts /\ UNCHANGED <<blackMrk, pc>>
  <2>1. colors' = colors /\ live' = live /\ outcome' # "running" /\ pc' = "built"
    BY <1>1, <1>6 DEF M!CreateNewMarkerAborts
  <2>2. ColorsInUse'
    BY <2>1 DEF AnalyzerInv, LoopPart, ColorsInUse
  <2>3. MarkersHeld'
    BY <2>1, <1>3 DEF MarkersHeld
  <2> QED
    BY <2>1, <2>2, <2>3, <1>1, <1>2, <1>4
       DEF AnalyzerInv, LoopPart, BuildPart, NoLatches, TreeDone, BeforeWalk, BuildPlaces,
           LaterPlaces
<1> QED
  BY <1>5, <1>6 DEF CreateBlackMarker

(* Nothing happens in a stuttering step. *)
LEMMA AnalyzerStutter ==
  ASSUME AnalyzerInv, UNCHANGED vars
  PROVE  AnalyzerInv'
<1>1. /\ UNCHANGED <<markerIndex, colors, marks, live, outcome, succs, marker, stack, pc>>
      /\ UNCHANGED <<blackMrk, grayMrk, latches>>
      /\ B!vars' = B!vars
  BY DEF vars, markerState, treeState, loopState, B!vars, B!markerState, B!rpoState,
         B!dfsState, B!treeState
<1>2. B!BuildInv => B!BuildInv'
  <2>1. [B!Next]_B!vars
    BY <1>1
  <2> QED
    BY <2>1, B!BuildInvNext, SameAssumptions, IndexValuesAssumption, StartAssumption,
       CfgsAssumption, LoopAnalyzerAssumption
<1>3. (BuildPart /\ ColorsInUse /\ MarkersHeld /\ TreeDone /\ LatchesClose)
       => (BuildPart /\ ColorsInUse /\ MarkersHeld /\ TreeDone /\ LatchesClose)'
  BY <1>1, <1>2
     DEF BuildPart, NoLatches, ColorsInUse, MarkersHeld, TreeDone, LatchesClose
<1>4. (MP!MarkersInv => MP!MarkersInv') /\ (TwoMarkers => TwoMarkers')
      /\ Black' = Black /\ Gray' = Gray
  BY <1>1
     DEF MP!MarkersInv, MP!MarkersTypeOK, MP!LiveColorsDistinct, MP!NoFutureMarks,
         TwoMarkers, Black, Gray
<1>5. BeforeWalk => BeforeWalk'
  BY <1>1, <1>4 DEF BeforeWalk, NoLatches
<1>6. LatchWalk => LatchWalk'
  BY <1>1, <1>4
     DEF LatchWalk, GrayOnStack, EdgesFollowed, Waiting, Visiting, CutIn, HeadersVisited
<1>7. CutIn(Blocks) => CutIn(Blocks)'
  BY <1>1 DEF CutIn
<1> QED
  BY <1>1, <1>3, <1>5, <1>6, <1>7 DEF AnalyzerInv, LoopPart

(* Every step of the analysis keeps the invariant. *)
LEMMA AnalyzerInvNext == AnalyzerInv /\ [AnalyzerStep]_vars => AnalyzerInv'
<1> SUFFICES ASSUME AnalyzerInv, [AnalyzerStep]_vars PROVE AnalyzerInv'
  OBVIOUS
<1>1. CASE BuildDominatorTree
  BY <1>1, BuildDominatorTreeInv
<1>2. CASE CreateBlackMarker
  BY <1>2, CreateBlackMarkerInv
<1>3. CASE UNCHANGED vars
  BY <1>3, AnalyzerStutter
<1>4. CASE AnalyzerStep /\ ~BuildDominatorTree /\ ~CreateBlackMarker
  <2>1. BuildPart'
    BY <1>4, AfterBuild DEF BuildPart
  <2>2. LoopPart'
    BY <1>4, LoopPartNext DEF AnalyzerInv
  <2> QED
    BY <2>1, <2>2 DEF AnalyzerInv
<1> QED
  BY <1>1, <1>2, <1>3, <1>4
-----------------------------------------------------------------------------
(* So it is when Build returns.                                            *)
LEMMA BuiltIsSound ==
  ASSUME B!BuildInv, outcome = "running", pc = "built"
  PROVE  TreeSound /\ OrderSound
<1>1. /\ B!IsGraph /\ B!VectorDone /\ B!Connected
      /\ \A d \in Blocks : dominatedBlocks[d] = B!StrictlyDominated(d)
  BY B!BuiltFacts, SameAssumptions, IndexValuesAssumption, StartAssumption,
     CfgsAssumption, LoopAnalyzerAssumption DEF B!Built
<1>2. ASSUME NEW d \in Blocks, NEW b \in Blocks PROVE Dom(d, b) <=> B!Dominates(d, b)
  <2>1. B!Dominates(b, b)
    BY B!DominatesItself, SameAssumptions, IndexValuesAssumption, StartAssumption,
       CfgsAssumption, LoopAnalyzerAssumption
  <2> QED
    BY <1>1, <2>1 DEF Dom, T!IsDominatesOver, B!StrictlyDominated
<1>3. ASSUME NEW b \in Blocks PROVE B!Dominates(Start, b)
  BY B!StartDominates, SameAssumptions, IndexValuesAssumption, StartAssumption,
     CfgsAssumption, LoopAnalyzerAssumption
<1>4. \A b, c, d \in Blocks : B!Dominates(b, c) /\ B!Dominates(c, d) => B!Dominates(b, d)
  BY B!DominatesTransitive, SameAssumptions, IndexValuesAssumption, StartAssumption,
     CfgsAssumption, LoopAnalyzerAssumption
<1>5. \A b, c, d \in Blocks :
        B!Dominates(b, d) /\ B!Dominates(c, d) => B!Dominates(b, c) \/ B!Dominates(c, b)
  BY <1>1, B!DominatorsComparable, SameAssumptions, IndexValuesAssumption,
     StartAssumption, CfgsAssumption, LoopAnalyzerAssumption DEF B!Connected
<1>6. \A c, d \in Blocks : B!Dominates(c, d) /\ B!Dominates(d, c) => c = d
  BY <1>1, B!DominatesAntisymmetric, SameAssumptions, IndexValuesAssumption,
     StartAssumption, CfgsAssumption, LoopAnalyzerAssumption
<1>7. ASSUME NEW d \in Blocks, NEW b \in Blocks, NEW p \in PredSet(b),
             B!Dominates(d, b), d # b
      PROVE  B!Dominates(d, p)
  <2>0. p \in Blocks /\ b \in SuccSet(succs, p)
    BY DEF PredSet
  <2>1. CASE d = Start
    BY <2>0, <2>1, <1>3
  <2>2. CASE d # Start
    <3>1. b \notin B!ReachableAvoiding(succs, Start, {d})
      BY <2>2, <1>1, <1>7, B!DominatesUnreachable, SameAssumptions,
         IndexValuesAssumption, StartAssumption, CfgsAssumption, LoopAnalyzerAssumption
    <3>2. p \in B!ReachableAvoiding(succs, Start, {d}) =>
            b \in B!ReachableAvoiding(succs, Start, {d})
      BY <2>0, <1>7, SameReach DEF ReachableAvoiding, ClosedAvoiding
    <3> QED
      BY <2>0, <2>2, <3>1, <3>2, <1>1, B!DominatesUnreachable, SameAssumptions,
         IndexValuesAssumption, StartAssumption, CfgsAssumption, LoopAnalyzerAssumption
  <2> QED
    BY <2>1, <2>2
<1>8. /\ \A i \in Slots : rpoVector[i] \in Blocks
      /\ \A b \in Blocks : \E i \in Slots : rpoVector[i] = b
      /\ \A i, j \in Slots : B!Dominates(rpoVector[i], rpoVector[j]) => i <= j
  <2>1. B!Slots = Slots
    BY SameSlots
  <2>2. /\ \A i \in Slots : rpoVector[i] \in Blocks
        /\ \A b \in Blocks : \E i \in Slots : rpoVector[i] = b
    BY <1>1, <2>1 DEF B!VectorDone
  <2>3. \A i, j \in B!Slots : B!Dominates(rpoVector[i], rpoVector[j]) => i <= j
    BY <1>1, B!NoDominatorBehind, SameAssumptions, IndexValuesAssumption,
       StartAssumption, CfgsAssumption, LoopAnalyzerAssumption
  <2> QED
    BY <2>1, <2>2, <2>3
<1>9. TreeSound
  <2>1. \A b, c \in Blocks : Dom(b, c) <=> B!Dominates(b, c)
    BY <1>2
  <2>2. \A b : PredSet(b) \subseteq Blocks
    BY DEF PredSet
  <2> QED
    BY <2>1, <2>2, <1>3, <1>4, <1>5, <1>6, <1>7, StartAssumption
       DEF TreeSound, Dom, T!IsDominatesOver
<1>10. OrderSound
  BY <1>2, <1>8 DEF OrderSound
<1> QED
  BY <1>9, <1>10

LEMMA BuildDominatorTreeNatural ==
  ASSUME AnalyzerInv, NaturalInv, BuildDominatorTree
  PROVE  NaturalInv'
<1>1. /\ UNCHANGED <<loop, latches, reducible, blocks, outerLoop, innerLoops>>
      /\ pc \in BuildPlaces /\ pc' \in BuildPlaces
  BY BuildStepMarkers DEF BuildDominatorTree, loopState
<1>2. NoLatches
  BY <1>1 DEF AnalyzerInv, LoopPart, BuildPart
<1> QED
  BY <1>1, <1>2, NoLoopsKept DEF BuildPlaces, LaterPlaces

LEMMA CreateBlackMarkerNatural ==
  ASSUME AnalyzerInv, NaturalInv, CreateBlackMarker
  PROVE  NaturalInv'
<1>1. /\ outcome = "running" /\ pc = "built"
      /\ UNCHANGED <<loop, latches, reducible, blocks, outerLoop, innerLoops>>
      /\ UNCHANGED <<succs, rpoVector, dominatedBlocks>>
  BY DEF CreateBlackMarker, Running, loopState, treeState
<1>2. B!BuildInv /\ NoLatches
  BY <1>1 DEF AnalyzerInv, LoopPart, BuildPart, BuildPlaces
<1>3. TreeSound' /\ OrderSound'
  BY <1>1, <1>2, BuiltIsSound, FieldsStay
<1>4. CASE M!CreateNewMarker /\ pc' = "gray"
  <2>1. MP!MarkersInv'
    BY <1>1, <1>2, <1>4, BuiltTree, MarkerCreated
  <2> QED
    BY <2>1, <1>1, <1>2, <1>3, <1>4, ManagerIsNext, NoLoopsKept
<1>5. CASE M!CreateNewMarkerAborts /\ pc' = pc
  <2>1. pc' = "built"
    BY <1>1, <1>5
  <2> QED
    BY <2>1, <1>1, <1>2, NoLoopsKept DEF LaterPlaces
<1> QED
  BY <1>4, <1>5 DEF CreateBlackMarker

(* Every step of the analysis keeps this invariant, too. *)
LEMMA NaturalInvNext ==
  AnalyzerInv /\ NaturalInv /\ [AnalyzerStep]_vars => NaturalInv'
<1> SUFFICES ASSUME AnalyzerInv, NaturalInv, [AnalyzerStep]_vars PROVE NaturalInv'
  OBVIOUS
<1>1. CASE BuildDominatorTree
  BY <1>1, BuildDominatorTreeNatural
<1>2. CASE CreateBlackMarker
  BY <1>2, CreateBlackMarkerNatural
<1>3. CASE UNCHANGED vars
  BY <1>3, NaturalStutter
<1>4. CASE AnalyzerStep /\ ~BuildDominatorTree /\ ~CreateBlackMarker
  BY <1>4, NaturalPartNext DEF AnalyzerInv
<1> QED
  BY <1>1, <1>2, <1>3, <1>4
-----------------------------------------------------------------------------
(* The invariant holds at every time, for every finite set of blocks. *)
THEOREM AnalyzerInvariance == LoopSpec => []AnalyzerInv
<1>1. LoopInit => AnalyzerInv
  BY AnalyzerInvInit
<1>2. AnalyzerInv /\ [AnalyzerStep]_vars => AnalyzerInv'
  BY AnalyzerInvNext
<1> QED
  BY <1>1, <1>2, PTL DEF LoopSpec

(* At most two markers are in use at a time, none when the analysis is at  *)
(* rest, so the four colors always suffice (CollectLatches, LoopSearch).   *)
THEOREM TwoMarkersUsed == LoopSpec => []TwoMarkersSuffice
<1>1. ASSUME AnalyzerInv PROVE TwoMarkersSuffice
  <2>1. \E x, y : live \subseteq {x, y}
    BY <1>1 DEF AnalyzerInv, LoopPart, MarkersHeld, BuildPlaces, LaterPlaces
  <2>2. Cardinality(live) <= 2
    <3>1. PICK x, y : live \subseteq {x, y}
      BY <2>1
    <3>2. IsFiniteSet({x, y}) /\ Cardinality({x, y}) <= 2
      <4>1. IsFiniteSet({x}) /\ Cardinality({x}) = 1 /\ {x, y} = {x} \cup {y}
        BY FS_Singleton
      <4> QED
        BY <4>1, FS_AddElement
    <3> QED
      BY <3>1, <3>2, FS_Subset, FS_CardinalityType
  <2>3. pc \in {"begin", "built", "populate", "done"} => live = {}
    BY <1>1 DEF AnalyzerInv, LoopPart, MarkersHeld, BuildPlaces
  <2>4. live = {} => colors = {}
    BY <1>1 DEF AnalyzerInv, LoopPart, ColorsInUse
  <2> QED
    BY <2>2, <2>3, <2>4 DEF TwoMarkersSuffice
<1> QED
  BY <1>1, AnalyzerInvariance, PTL

(* What CollectLatches finds cuts every cycle of the graph, and nothing    *)
(* else: every latch closes a cycle through its header.                    *)
THEOREM LatchesFound == LoopSpec => []LatchesCutCycles
<1>1. ASSUME AnalyzerInv PROVE LatchesCutCycles
  BY <1>1 DEF AnalyzerInv, LoopPart, LatchesClose, CutIn, LatchesCutCycles
<1> QED
  BY <1>1, AnalyzerInvariance, PTL

(* On a graph whose latches are all dominated by their headers the loops   *)
(* found are the natural ones (LoopAnalyzer::Run): every block lies in the *)
(* innermost one around it, every loop in the innermost one around its     *)
(* header, and the lists of blocks and of inner loops say the same.        *)
THEOREM LoopsFound == LoopSpec => []LoopsAreNatural
<1>1. LoopInit => NaturalInv
  BY NaturalInvInit
<1>2. AnalyzerInv /\ NaturalInv /\ [AnalyzerStep]_vars => NaturalInv'
  BY NaturalInvNext
<1>3. NaturalInv => LoopsAreNatural
  BY TreeIsNatural
<1> QED
  BY <1>1, <1>2, <1>3, AnalyzerInvariance, PTL DEF LoopSpec
=============================================================================
