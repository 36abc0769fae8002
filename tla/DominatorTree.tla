--------------------------- MODULE DominatorTree ---------------------------
(***************************************************************************)
(* DominatorTree::Build (analysis/dominator_tree.cpp) with everything it   *)
(* runs: Graph::RunRpo (ir/graph.cpp, Rpo.tla), a DFS for each block       *)
(* (Dfs.tla) and the marker manager they share (Markers.tla).              *)
(*                                                                         *)
(* For each block the graph is walked with that block taken out; what the  *)
(* walk no longer finds, the block dominates.  The passes (peepholes,      *)
(* check elimination, loop analysis) each build the tree anew on the same  *)
(* graph, so the marks of the blocks, the index of the manager and the     *)
(* results kept in the blocks survive from one Build to the next.          *)
(***************************************************************************)
EXTENDS Cfg, FiniteSets

CONSTANTS Null, MAX_MARKER_INDEX,
          MAX_BUILDS       \* bound: how often the tree is built

ASSUME DominatorTreeAssumption ==
  /\ IsFiniteSet(Blocks)
  /\ Null \notin Blocks
  /\ MAX_MARKER_INDEX \in Nat \ {0} /\ MAX_MARKER_INDEX <= INDEX_VALUES
  /\ MAX_BUILDS \in Nat

VARIABLES
  markerIndex, colors, marks, live, outcome,          \* Markers
  succs, marker, stack, blockCount, rpoVector,        \* the graph, and Rpo
  dfsVector, removed,                                 \* Dfs
  dominatorsMap,       \* DominatorTree::dominatorsMap_: the blocks known
                       \* to dominate the key
  dominatedBlocks,     \* BasicBlock::dominatedBlocks_
  immediateDominator,  \* BasicBlock::immediateDominator_
  pc,                  \* where Build is
  pos,                 \* the position of its loops in rpoVector
  builds               \* how many times the tree was built

markerState == <<markerIndex, colors, marks, live, outcome>>
rpoState    == <<blockCount, rpoVector>>
dfsState    == <<dfsVector, removed>>
treeState   == <<dominatorsMap, dominatedBlocks, immediateDominator>>
vars == <<markerState, succs, marker, stack, rpoState, dfsState, treeState,
          pc, pos, builds>>

M == INSTANCE Markers
R == INSTANCE Rpo WITH INITIAL_MARKS <- Marks, INITIAL_MARKERS <- AllMarkers
D == INSTANCE Dfs WITH INITIAL_MARKS <- Marks, INITIAL_MARKERS <- AllMarkers

Slots == R!Slots

Init ==
  /\ M!MarkersInit
  /\ succs \in CFGS
  /\ marker = UNMARKER
  /\ stack = <<>> /\ blockCount = 0 /\ rpoVector = <<>>
  /\ dfsVector = <<>> /\ removed = {}
  /\ dominatorsMap = [b \in {} |-> {}]
  /\ dominatedBlocks = [b \in Blocks |-> {}]
  /\ immediateDominator = [b \in Blocks |-> Null]
  /\ pc = "begin" /\ pos = 0 /\ builds = 0
-----------------------------------------------------------------------------
Running(label) == outcome = "running" /\ pc = label

(* What a null dereference, a failed assertion or UNREACHABLE() leads to.  *)
Halt(how) ==
  /\ outcome' = how
  /\ UNCHANGED <<markerIndex, colors, marks, live, succs, marker, stack, rpoState,
                 dfsState, treeState, pc, pos, builds>>

(* auto marker = CreateNewMarker(), which also Halts with an assertion.    *)
CreateMarker(from, to) ==
  /\ Running(from)
  /\ \/ /\ M!CreateNewMarker
        /\ marker' = M!NewMarker
        /\ pc' = to
     \/ M!CreateNewMarkerAborts /\ UNCHANGED <<marker, pc>>
  /\ UNCHANGED <<succs, stack, rpoState, dfsState, treeState, pos, builds>>

(* Graph::RunRpo: a marker, the walk, and the marker is given back. *)
RunRpo == CreateMarker("begin", "rpo")

RpoWalk ==
  /\ Running("rpo")
  /\ R!RpoRun \/ R!RpoStep
  /\ UNCHANGED <<markerIndex, colors, live, outcome, dfsState, treeState, pc, pos,
                 builds>>

(* The end of RunRpo, and Build up to its loop: the root dominates all.    *)
StartTree ==
  /\ Running("rpo") /\ R!RpoDone
  /\ M!EraseMarker(marker)
  /\ dominatedBlocks' =
       [dominatedBlocks EXCEPT ![Start] = {rpoVector[i] : i \in Slots}]
  /\ dominatorsMap' = [b \in {rpoVector[i] : i \in Slots \ {0}} |-> {Start}]
  /\ pc' = "take" /\ pos' = 1
  /\ UNCHANGED <<succs, marker, stack, rpoState, dfsState, immediateDominator, builds>>
-----------------------------------------------------------------------------
(* The loop of Build over rpoVec.begin() + 1 .. rpoVec.end(). *)
TakeMarker ==
  /\ pos \in Slots
  /\ CreateMarker("take", "remove")

(* block->SetMarker(marker): the first slots are null when the graph has   *)
(* blocks that cannot be reached.                                          *)
TakeBlockOut ==
  /\ Running("remove") /\ rpoVector[pos] # Null
  /\ M!SetMarker(rpoVector[pos], marker)
  /\ pc' = "dfs"
  /\ UNCHANGED <<succs, marker, stack, rpoState, dfsState, treeState, pos, builds>>

TakeNullOut ==
  Running("remove") /\ rpoVector[pos] = Null /\ Halt("null")

DfsWalk ==
  /\ Running("dfs")
  /\ D!DfsRun \/ D!DfsStep
  /\ UNCHANGED <<markerIndex, colors, live, outcome, rpoState, treeState, pc, pos,
                 builds>>

(* What the walk did not find, the block taken out excepted. *)
NotFound == {rpoVector[i] : i \in Slots} \ (D!Found \cup {rpoVector[pos]})

(* Mutant: the marker of the walk is not given back. *)
CalculateDominatedBlocksKeepingMarker ==
  /\ Running("dfs") /\ D!DfsDone
  /\ dominatorsMap' = [b \in DOMAIN dominatorsMap |->
                         IF b \in NotFound THEN dominatorsMap[b] \cup {rpoVector[pos]}
                                           ELSE dominatorsMap[b]]
  /\ dominatedBlocks' = [dominatedBlocks EXCEPT ![rpoVector[pos]] = NotFound]
  /\ dfsVector' = <<>> /\ removed' = {}
  /\ pc' = "take" /\ pos' = pos + 1
  /\ UNCHANGED <<markerState, succs, marker, stack, rpoState, immediateDominator, builds>>

(* CalculateDominatedBlocks, and graph_->EraseMarker(marker).  A block     *)
(* without an entry in dominatorsMap_ leads to UNREACHABLE(), which is     *)
(* undefined behaviour: the program ends, or goes on as if nothing were.   *)
CalculateDominatedBlocks ==
  /\ Running("dfs") /\ D!DfsDone
  /\ M!EraseMarker(marker)
  /\ dominatorsMap' = [b \in DOMAIN dominatorsMap |->
                         IF b \in NotFound THEN dominatorsMap[b] \cup {rpoVector[pos]}
                                           ELSE dominatorsMap[b]]
  /\ dominatedBlocks' = [dominatedBlocks EXCEPT ![rpoVector[pos]] = NotFound]
  /\ dfsVector' = <<>> /\ removed' = {}
  /\ pc' = "take" /\ pos' = pos + 1
  /\ UNCHANGED <<succs, marker, stack, rpoState, immediateDominator, builds>>

DominatedWithoutEntry ==
  /\ Running("dfs") /\ D!DfsDone
  /\ ~ NotFound \subseteq DOMAIN dominatorsMap
  /\ Halt("unreachable")
-----------------------------------------------------------------------------
EndOfLoop ==
  /\ Running("take") /\ pos \notin Slots
  /\ pc' = "idom" /\ pos' = 0
  /\ UNCHANGED <<markerState, succs, marker, stack, rpoState, dfsState, treeState, builds>>

(* Mutant: a block does not dominate itself. *)
StrictlyDominatesOver(d, b) == b \in dominatedBlocks[d]

(* BasicBlock::IsDominatesOver *)
IsDominatesOver(d, b) == b = d \/ b \in dominatedBlocks[d]

(* The blocks that CalculateImmediateDominators(block) finds to have no    *)
(* dominator between them and the block.                                   *)
ImmediatelyDominated(block) ==
  {b \in dominatedBlocks[block] \cap DOMAIN dominatorsMap :
     \A d \in dominatorsMap[b] : IsDominatesOver(d, block)}

(* CalculateImmediateDominators for the block at pos.  The root is in its  *)
(* own dominatedBlocks_ but never in dominatorsMap_: as in                 *)
(* CalculateDominatedBlocks, the program may end there or go on.           *)
CalculateImmediateDominators ==
  /\ Running("idom") /\ pos \in Slots /\ rpoVector[pos] # Null
  /\ immediateDominator' =
       [b \in Blocks |-> IF b \in ImmediatelyDominated(rpoVector[pos])
                         THEN rpoVector[pos] ELSE immediateDominator[b]]
  /\ pos' = pos + 1
  /\ UNCHANGED <<markerState, succs, marker, stack, rpoState, dfsState, dominatorsMap,
                 dominatedBlocks, pc, builds>>

ImmediateWithoutEntry ==
  /\ Running("idom") /\ pos \in Slots /\ rpoVector[pos] # Null
  /\ ~ dominatedBlocks[rpoVector[pos]] \subseteq DOMAIN dominatorsMap
  /\ Halt("unreachable")

(* assert(block) *)
ImmediateOfNull ==
  Running("idom") /\ pos \in Slots /\ rpoVector[pos] = Null /\ Halt("assert")

EndOfBuild ==
  /\ Running("idom") /\ pos \notin Slots
  /\ pc' = "built" /\ builds' = builds + 1
  /\ UNCHANGED <<markerState, succs, marker, stack, rpoState, dfsState, treeState, pos>>
-----------------------------------------------------------------------------
(* Between two builds the graph may get a new branch or jump, appended by  *)
(* IrBuilder::CreateInstruction to a block that has none.                  *)
ExtendGraph ==
  /\ Running("built") /\ builds < MAX_BUILDS
  /\ \E b, c, d \in Blocks :
       /\ succs[b] = <<>>
       /\ \E list \in {<<c>>, <<c, d>>} : succs' = [succs EXCEPT ![b] = list]
  /\ succs' \in CFGS
  /\ pc' = "extended"
  /\ UNCHANGED <<markerState, marker, stack, rpoState, dfsState, treeState, pos, builds>>

(* A new DominatorTree on the same graph: its map is empty and so is the   *)
(* RPO, the blocks keep what the last one wrote.                           *)
BuildAgain ==
  /\ Running("built") \/ Running("extended")
  /\ builds < MAX_BUILDS
  /\ dominatorsMap' = [b \in {} |-> {}]
  /\ blockCount' = 0 /\ rpoVector' = <<>>
  /\ pc' = "begin" /\ pos' = 0
  /\ UNCHANGED <<markerState, succs, marker, stack, dfsState, dominatedBlocks,
                 immediateDominator, builds>>

BuildStep ==
  \/ RunRpo \/ RpoWalk \/ StartTree
  \/ TakeMarker \/ TakeBlockOut \/ TakeNullOut \/ DfsWalk
  \/ CalculateDominatedBlocks \/ DominatedWithoutEntry
  \/ EndOfLoop
  \/ CalculateImmediateDominators \/ ImmediateWithoutEntry \/ ImmediateOfNull
  \/ EndOfBuild

Next == BuildStep \/ ExtendGraph \/ BuildAgain

Spec == Init /\ [][Next]_vars

(* Build is a plain function call: nothing can hold it up. *)
FairSpec == Spec /\ WF_vars(BuildStep)
-----------------------------------------------------------------------------
(* Dominance, by its definition: d dominates b when every path from the    *)
(* start block to b goes through d.  Paths without repetition suffice.     *)
SimplePaths ==
  {p \in UNION {[1 .. n -> Blocks] : n \in 1 .. Cardinality(Blocks)} :
     /\ p[1] = Start
     /\ \A i \in 1 .. Len(p) - 1 : p[i + 1] \in SuccSet(succs, p[i])
     /\ \A i, j \in 1 .. Len(p) : p[i] = p[j] => i = j}

Dominance ==
  LET paths == SimplePaths
  IN  {e \in Blocks \X Blocks :
         \A p \in paths : p[Len(p)] = e[2] => \E i \in 1 .. Len(p) : p[i] = e[1]}

Connected == Reachable(succs) = Blocks

Built == pc = "built" /\ outcome = "running"

Dominators(dominance, b) == {d \in Blocks : <<d, b>> \in dominance}

TypeOK ==
  /\ markerIndex \in Nat /\ colors \subseteq Colors /\ live \subseteq AllMarkers
  /\ outcome \in {"running", "assert", "unreachable", "null"}
  /\ marks \in Marks /\ marker \in AllMarkers
  /\ succs \in CFGS
  /\ stack \in Seq(Frames)
  /\ DOMAIN dominatorsMap \subseteq Blocks \cup {Null}
  /\ \A b \in DOMAIN dominatorsMap : dominatorsMap[b] \subseteq Blocks
  /\ dominatedBlocks \in [Blocks -> SUBSET (Blocks \cup {Null})]
  /\ immediateDominator \in [Blocks -> Blocks \cup {Null}]
  /\ pos \in 0 .. Cardinality(Blocks)

(* After Build every block knows exactly the blocks it strictly dominates, *)
(* whatever marks and results earlier builds left behind; the root counts  *)
(* itself in.                                                              *)
DominatedBlocksCorrect ==
  Built =>
    LET dominance == Dominance
    IN  \A d \in Blocks :
          dominatedBlocks[d] =
            {b \in Blocks : <<d, b>> \in dominance /\ (b # d \/ d = Start)}

(* After Build the immediate dominator of a block is the one of its strict *)
(* dominators that all the others dominate; the root has none.             *)
ImmediateDominatorsCorrect ==
  Built =>
    LET dominance == Dominance
    IN  /\ immediateDominator[Start] = Null
        /\ \A b \in Blocks \ {Start} :
             /\ immediateDominator[b] # b
             /\ Dominators(dominance, b) =
                  {b} \cup Dominators(dominance, immediateDominator[b])

(* A block comes after everything that dominates it in the order in which  *)
(* the passes visit the blocks.                                            *)
DominatorsComeFirst ==
  Built =>
    \A d \in Blocks : \A b \in dominatedBlocks[d] \ {d} :
      R!Position(d) < R!Position(b)

(* Every walk holds one marker and gives it back: none is left when Build  *)
(* ends, so no number of builds exhausts the colors.                       *)
MarkersGivenBack ==
  /\ Cardinality(live) <= 1
  /\ pc \in {"begin", "take", "idom", "built"} => live = {}

(* Only a graph with blocks that cannot be reached makes Build dereference *)
(* a null pointer or fail its own assertion, and such a graph always does; *)
(* otherwise only the markers can run out.                                 *)
BuildNeedsConnectedGraph ==
  /\ outcome = "null" => ~Connected
  /\ outcome = "assert" => ~Connected \/ markerIndex = MAX_MARKER_INDEX
  /\ Built => Connected

(* "UNREACHABLE()" (analysis/dominator_tree.cpp:60 and :82, and the marker *)
(* manager): the lines it stands on are never executed.                    *)
UnreachableNotReached == outcome # "unreachable"

(* Every Build ends. *)
BuildTerminates == (pc = "begin") ~> (pc = "built" \/ outcome # "running")
=============================================================================
