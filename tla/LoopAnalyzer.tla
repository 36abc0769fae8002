---------------------------- MODULE LoopAnalyzer ----------------------------
(***************************************************************************)
(* LoopAnalyzer::Run (analysis/loop_analyzer.cpp) on a graph that was not  *)
(* analysed before: the dominator tree (DominatorTree.tla), a depth-first  *)
(* walk with a black and a gray marker that finds the latches, a backward  *)
(* search from the latches of each reducible header, in reverse RPO so     *)
(* that inner loops come first, and the loop tree.                         *)
(*                                                                         *)
(* ProcessNewLatch creates the only loop a header ever has, so a Loop is   *)
(* named by its header; Root names the loop without header.  LoopSearchDFS *)
(* does nothing after its recursive calls and its effects on the blocks it *)
(* visits do not depend on their order, so its recursion is the set of the *)
(* calls still to be made, taken in any order.                             *)
(***************************************************************************)
EXTENDS Cfg, FiniteSets

CONSTANTS Null, MAX_MARKER_INDEX,
          Root               \* LoopAnalyzer::rootLoop_

ASSUME LoopAnalyzerAssumption ==
  /\ IsFiniteSet(Blocks)
  /\ Null \notin Blocks /\ Root \notin Blocks
  /\ MAX_MARKER_INDEX \in Nat \ {0} /\ MAX_MARKER_INDEX <= INDEX_VALUES

VARIABLES
  markerIndex, colors, marks, live, outcome,          \* Markers
  succs, marker, stack, blockCount, rpoVector,        \* the graph, and Rpo
  dfsVector, removed,                                 \* Dfs
  dominatorsMap, dominatedBlocks, immediateDominator, \* DominatorTree
  pc, pos, builds,
  blackMrk, grayMrk,   \* LoopAnalyzer::blackMrk_, grayMrk_
  pending,             \* the calls of LoopSearchDFS still to be made
  loop,                \* BasicBlock::loop_ of each block
  latches,             \* Loop::latches_, of the loop of each header
  reducible,           \* Loop::isReducible_
  blocks,              \* Loop::blocks_
  outerLoop,           \* Loop::outerLoop_
  innerLoops           \* Loop::innerLoops_

markerState == <<markerIndex, colors, marks, live, outcome>>
treeState   == <<blockCount, rpoVector, dfsVector, removed, dominatorsMap,
                 dominatedBlocks, immediateDominator, builds>>
loopState   == <<loop, latches, reducible, blocks, outerLoop, innerLoops>>
vars == <<markerState, succs, marker, stack, treeState, pc, pos,
          blackMrk, grayMrk, pending, loopState>>

M == INSTANCE Markers
T == INSTANCE DominatorTree WITH MAX_BUILDS <- 1

Slots == 0 .. Cardinality(Blocks) - 1

PredSet(b) == {p \in Blocks : b \in SuccSet(succs, p)}

LoopInit ==
  /\ T!Init
  /\ blackMrk = UNMARKER /\ grayMrk = UNMARKER
  /\ pending = {}
  /\ loop = [b \in Blocks |-> Null]
  /\ latches = [h \in Blocks |-> {}]
  /\ reducible = [h \in Blocks |-> FALSE]
  /\ blocks = [h \in Blocks \cup {Root} |-> {}]
  /\ outerLoop = [h \in Blocks |-> Null]
  /\ innerLoops = [h \in Blocks \cup {Root} |-> {}]

Running(label) == outcome = "running" /\ pc = label
-----------------------------------------------------------------------------
BuildDominatorTree ==
  /\ T!BuildStep
  /\ UNCHANGED <<blackMrk, grayMrk, pending, loopState>>

(* CollectLatches up to its walk: two markers at a time. *)
CreateBlackMarker ==
  /\ Running("built")
  /\ \/ M!CreateNewMarker /\ blackMrk' = M!NewMarker /\ pc' = "gray"
     \/ M!CreateNewMarkerAborts /\ UNCHANGED <<blackMrk, pc>>
  /\ UNCHANGED <<succs, marker, stack, treeState, pos, grayMrk, pending, loopState>>

CreateGrayMarker ==
  /\ Running("gray")
  /\ \/ M!CreateNewMarker /\ grayMrk' = M!NewMarker /\ pc' = "walk"
     \/ M!CreateNewMarkerAborts /\ UNCHANGED <<grayMrk, pc>>
  /\ UNCHANGED <<succs, marker, stack, treeState, pos, blackMrk, pending, loopState>>

(* The prologue of SearchLatchDFS. *)
EnterBlock(b, callers) ==
  /\ marks' = WithMarker(WithMarker(marks, b, blackMrk), b, grayMrk)
  /\ stack' = Append(callers, Call(b))

WalkUnchanged ==
  UNCHANGED <<markerIndex, colors, live, outcome, succs, marker, treeState, pos,
              blackMrk, grayMrk, pending>>

CollectLatches ==
  /\ Running("walk")
  /\ EnterBlock(Start, stack)
  /\ pc' = "latches"
  /\ WalkUnchanged /\ UNCHANGED loopState

LatchVisit ==
  /\ Running("latches") /\ stack # <<>> /\ ~LoopDone(succs, stack)
  /\ ~IsMarked(marks, SuccBlock(succs, stack), grayMrk)
  /\ ~IsMarked(marks, SuccBlock(succs, stack), blackMrk)
  /\ EnterBlock(SuccBlock(succs, stack), LoopOn(stack))
  /\ WalkUnchanged /\ UNCHANGED <<pc, loopState>>

(* Mutant: the loop stays at a successor that is black. *)
LatchSkipStays ==
  /\ Running("latches") /\ stack # <<>> /\ ~LoopDone(succs, stack)
  /\ ~IsMarked(marks, SuccBlock(succs, stack), grayMrk)
  /\ IsMarked(marks, SuccBlock(succs, stack), blackMrk)
  /\ UNCHANGED vars

LatchSkip ==
  /\ Running("latches") /\ stack # <<>> /\ ~LoopDone(succs, stack)
  /\ ~IsMarked(marks, SuccBlock(succs, stack), grayMrk)
  /\ IsMarked(marks, SuccBlock(succs, stack), blackMrk)
  /\ stack' = LoopOn(stack)
  /\ WalkUnchanged /\ UNCHANGED <<pc, marks, loopState>>

(* ProcessNewLatch: the header gets its loop with its first latch, and the *)
(* last latch says whether the loop is reducible.                          *)
ProcessNewLatch ==
  LET header == SuccBlock(succs, stack)
      latch  == Top(stack).block
  IN  /\ Running("latches") /\ stack # <<>> /\ ~LoopDone(succs, stack)
      /\ IsMarked(marks, header, grayMrk)
      /\ stack' = LoopOn(stack)
      /\ loop' = [loop EXCEPT ![header] = header]
      /\ blocks' = [blocks EXCEPT ![header] = @ \cup {header}]
      /\ latches' = [latches EXCEPT ![header] = @ \cup {latch}]
      /\ reducible' = [reducible EXCEPT ![header] = T!IsDominatesOver(header, latch)]
      /\ WalkUnchanged /\ UNCHANGED <<pc, marks, outerLoop, innerLoops>>

(* Mutant: a finished block stays gray. *)
LatchReturnGray ==
  /\ Running("latches") /\ stack # <<>> /\ LoopDone(succs, stack)
  /\ stack' = Pop(stack)
  /\ WalkUnchanged /\ UNCHANGED <<pc, marks, loopState>>

LatchReturn ==
  /\ Running("latches") /\ stack # <<>> /\ LoopDone(succs, stack)
  /\ marks' = WithoutMarker(marks, Top(stack).block, grayMrk)
  /\ stack' = Pop(stack)
  /\ WalkUnchanged /\ UNCHANGED <<pc, loopState>>

(* Mutant: the gray marker is kept. *)
EraseBlackMarker ==
  /\ Running("latches") /\ stack = <<>>
  /\ M!EraseMarker(blackMrk)
  /\ pc' = "populate" /\ pos' = Cardinality(Blocks) - 1
  /\ UNCHANGED <<succs, marker, stack, treeState, blackMrk, grayMrk, pending, loopState>>

(* The end of CollectLatches: both markers are given back. *)
EraseBothMarkers ==
  /\ Running("latches") /\ stack = <<>>
  /\ colors' = colors \ {ColorOf(blackMrk), ColorOf(grayMrk)}
  /\ live' = live \ {blackMrk, grayMrk}
  /\ pc' = "populate" /\ pos' = Cardinality(Blocks) - 1
  /\ UNCHANGED <<markerIndex, marks, outcome, succs, marker, stack, treeState,
                 blackMrk, grayMrk, pending, loopState>>
-----------------------------------------------------------------------------
(* PopulateLoops, from the last block of the RPO vector to the first. *)
IsHeader(b) == loop[b] = b

PopulateUnchanged ==
  UNCHANGED <<succs, marker, stack, treeState, grayMrk>>

SkipBlock ==
  /\ Running("populate") /\ pos \in Slots
  /\ ~IsHeader(rpoVector[pos])
  /\ pos' = pos - 1
  /\ PopulateUnchanged
  /\ UNCHANGED <<markerState, pc, blackMrk, pending, loopState>>

ProcessReducibleLoopHeader ==
  LET header == rpoVector[pos] IN
  /\ Running("populate") /\ pos \in Slots
  /\ IsHeader(header) /\ reducible[header]
  /\ \/ /\ M!IndexAvailable /\ M!FreeColors # {}
        /\ markerIndex' = markerIndex + 1
        /\ colors' = colors \cup {ColorOf(M!NewMarker)}
        /\ live' = live \cup {M!NewMarker}
        /\ blackMrk' = M!NewMarker
        /\ marks' = WithMarker(marks, header, M!NewMarker)
        /\ pending' = latches[header]
        /\ pc' = "search"
        /\ UNCHANGED outcome
     \/ M!CreateNewMarkerAborts /\ UNCHANGED <<blackMrk, pending, pc>>
  /\ PopulateUnchanged /\ UNCHANGED <<pos, loopState>>

(* LoopSearchDFS(loop, b). *)
ReturnAtMarked ==
  /\ Running("search")
  /\ \E b \in pending :
       /\ IsMarked(marks, b, blackMrk)
       /\ pending' = pending \ {b}
  /\ PopulateUnchanged
  /\ UNCHANGED <<markerState, pc, pos, blackMrk, loopState>>

(* Mutant: an inner loop leaves the outer loop it already has. *)
JoinLoopAgain(header, b) ==
  \/ /\ loop[b] = Null
     /\ loop' = [loop EXCEPT ![b] = header]
     /\ blocks' = [blocks EXCEPT ![header] = @ \cup {b}]
     /\ UNCHANGED <<latches, reducible, outerLoop, innerLoops>>
  \/ /\ loop[b] \notin {Null, header}
     /\ outerLoop' = [outerLoop EXCEPT ![loop[b]] = header]
     /\ innerLoops' = [innerLoops EXCEPT ![header] = @ \cup {loop[b]}]
     /\ UNCHANGED <<loop, latches, reducible, blocks>>
  \/ loop[b] = header /\ UNCHANGED loopState

(* A block without a loop joins this one; the loop of a block that has one *)
(* becomes an inner loop, unless it already has its outer loop.            *)
JoinLoop(header, b) ==
  \/ /\ loop[b] = Null
     /\ loop' = [loop EXCEPT ![b] = header]
     /\ blocks' = [blocks EXCEPT ![header] = @ \cup {b}]
     /\ UNCHANGED <<latches, reducible, outerLoop, innerLoops>>
  \/ /\ loop[b] # Null /\ loop[b] # header /\ outerLoop[loop[b]] = Null
     /\ outerLoop' = [outerLoop EXCEPT ![loop[b]] = header]
     /\ innerLoops' = [innerLoops EXCEPT ![header] = @ \cup {loop[b]}]
     /\ UNCHANGED <<loop, latches, reducible, blocks>>
  \/ /\ loop[b] # Null /\ (loop[b] = header \/ outerLoop[loop[b]] # Null)
     /\ UNCHANGED loopState

LoopSearchDFS ==
  /\ Running("search")
  /\ \E b \in pending :
       /\ ~IsMarked(marks, b, blackMrk)
       /\ marks' = WithMarker(marks, b, blackMrk)
       /\ JoinLoop(rpoVector[pos], b)
       /\ pending' = (pending \ {b}) \cup PredSet(b)
  /\ PopulateUnchanged
  /\ UNCHANGED <<markerIndex, colors, live, outcome, pc, pos, blackMrk>>

EndOfSearch ==
  /\ Running("search") /\ pending = {}
  /\ M!EraseMarker(blackMrk)
  /\ pc' = "populate" /\ pos' = pos - 1
  /\ PopulateUnchanged /\ UNCHANGED <<blackMrk, pending, loopState>>

(* The latches join the loop, whatever loop they were in. *)
ProcessIrreducibleLoopHeader ==
  LET header == rpoVector[pos] IN
  /\ Running("populate") /\ pos \in Slots
  /\ IsHeader(header) /\ ~reducible[header]
  /\ loop' = [b \in Blocks |-> IF b \in latches[header] THEN header ELSE loop[b]]
  /\ blocks' = [blocks EXCEPT ![header] = @ \cup latches[header]]
  /\ pos' = pos - 1
  /\ PopulateUnchanged
  /\ UNCHANGED <<markerState, pc, blackMrk, pending, latches, reducible,
                 outerLoop, innerLoops>>
-----------------------------------------------------------------------------
(* BuildLoopTree: what is in no loop, and the loops in no other, go to the *)
(* root loop.                                                              *)
BuildLoopTree ==
  /\ Running("populate") /\ pos = -1
  /\ LET outermost == {loop[b] : b \in {c \in Blocks :
                          loop[c] # Null /\ outerLoop[loop[c]] = Null}}
     IN  /\ blocks' = [blocks EXCEPT ![Root] = {b \in Blocks : loop[b] = Null}]
         /\ innerLoops' = [innerLoops EXCEPT ![Root] = outermost]
         /\ outerLoop' = [h \in Blocks |->
                            IF h \in outermost THEN Root ELSE outerLoop[h]]
  /\ pc' = "done"
  /\ PopulateUnchanged
  /\ UNCHANGED <<markerState, pos, blackMrk, pending, loop, latches, reducible>>

AnalyzerStep ==
  \/ BuildDominatorTree
  \/ CreateBlackMarker \/ CreateGrayMarker
  \/ CollectLatches \/ LatchVisit \/ LatchSkip \/ ProcessNewLatch \/ LatchReturn
  \/ EraseBothMarkers
  \/ SkipBlock \/ ProcessReducibleLoopHeader \/ ProcessIrreducibleLoopHeader
  \/ ReturnAtMarked \/ LoopSearchDFS \/ EndOfSearch
  \/ BuildLoopTree

LoopSpec == LoopInit /\ [][AnalyzerStep]_vars

(* Run is a plain function call: nothing can hold it up. *)
LoopFairSpec == LoopSpec /\ WF_vars(AnalyzerStep)
-----------------------------------------------------------------------------
Done == outcome = "running" /\ pc = "done"

Headers == {h \in Blocks : loop[h] = h}

(* The latches found cut every cycle of the graph, and each of them closes *)
(* one: the gray blocks are at every time the ones being visited, although *)
(* the walk holds two markers on the same blocks and takes one back.       *)
LatchesCutCycles ==
  pc \in {"populate", "done"} =>
    /\ \A S \in (SUBSET Blocks) \ {{}} :
         \E b \in S : \A c \in SuccSet(succs, b) \cap S : b \in latches[c]
    /\ \A h \in Blocks : \A l \in latches[h] :
         h \in SuccSet(succs, l) /\ l \in ReachableAvoiding(succs, h, {})

(* The natural loop of a header, by its definition: the header and what    *)
(* reaches a latch of it without passing the header.                       *)
BackSources(h) == {p \in PredSet(h) : T!IsDominatesOver(h, p)}

NaturalLoop(h) ==
  {b \in Blocks : \A S \in SUBSET Blocks :
     {h} \cup BackSources(h) \subseteq S /\ (\A c \in S \ {h} : PredSet(c) \subseteq S)
       => b \in S}

AllReducible == \A h \in Blocks : latches[h] \subseteq BackSources(h)

(* On a graph whose latches are all dominated by their headers, the        *)
(* analysis finds the natural loops: every block lies in the innermost one *)
(* around it, every loop in the innermost one around its header, and the   *)
(* lists of blocks and of inner loops say the same.                        *)
LoopsAreNatural ==
  Done /\ AllReducible =>
    LET headers == {h \in Blocks : BackSources(h) # {}}
        body    == [h \in headers |-> NaturalLoop(h)]
        IsInnermost(h, around, none) ==
          IF around = {} THEN h = none
          ELSE h \in around /\ \A g \in around : body[h] \subseteq body[g]
    IN  /\ Headers = headers
        /\ \A b \in Blocks :
             IsInnermost(loop[b], {h \in headers : b \in body[h]}, Null)
        /\ \A h \in headers :
             IsInnermost(outerLoop[h], {g \in headers \ {h} : h \in body[g]}, Root)
        /\ \A h \in headers : blocks[h] = {b \in Blocks : loop[b] = h}
        /\ blocks[Root] = {b \in Blocks : loop[b] = Null}
        /\ \A h \in headers \cup {Root} :
             innerLoops[h] = {g \in headers : outerLoop[g] = h}

(* "now we in inner loop" (analysis/loop_analyzer.cpp:131): where a loop   *)
(* is made an inner loop of another, the outer header dominates its header.*)
InnerLoopIsInner ==
  \A h \in Blocks : outerLoop[h] \in Blocks => T!IsDominatesOver(outerLoop[h], h)

(* At most two markers are in use at a time and all are given back, so the *)
(* analysis never runs out of colors.                                      *)
TwoMarkersSuffice ==
  /\ Cardinality(live) <= 2
  /\ pc \in {"begin", "built", "populate", "done"} => live = {} /\ colors = {}

(* The analysis ends. *)
AnalysisEnds == <>(pc = "done" \/ outcome # "running")
=============================================================================
