-------------------------------- MODULE Dfs --------------------------------
(***************************************************************************)
(* DFS (analysis/dfs.cpp): the blocks a depth-first walk finds from the    *)
(* start block, in the order it finds them, without entering a block that  *)
(* already carries the marker.  DominatorTree marks one block beforehand   *)
(* to take it out of the walk.                                             *)
(***************************************************************************)
EXTENDS Traversal

VARIABLES
  dfsVector,  \* the blocks found so far
  removed     \* history: the blocks that carried the marker beforehand

dfsVars == <<succs, marks, marker, stack, dfsVector, removed>>

DfsIdle == stack = <<>> /\ dfsVector = <<>>
DfsDone == stack = <<>> /\ dfsVector # <<>>

(* Mutant: a block is not marked when it is entered. *)
DfsEnterUnmarked(b, callers) ==
  /\ dfsVector' = Append(dfsVector, b)
  /\ stack' = Append(callers, Call(b))
  /\ UNCHANGED marks

(* The prologue of DFSImpl. *)
DfsEnter(b, callers) ==
  /\ marks' = WithMarker(marks, b, marker)
  /\ dfsVector' = Append(dfsVector, b)
  /\ stack' = Append(callers, Call(b))

DfsRun ==
  /\ DfsIdle
  /\ DfsEnter(Start, stack)
  /\ removed' = MarkedBy(marks, marker)
  /\ UNCHANGED <<succs, marker>>

DfsVisit ==
  /\ stack # <<>> /\ ~LoopDone(succs, stack)
  /\ ~IsMarked(marks, SuccBlock(succs, stack), marker)
  /\ DfsEnter(SuccBlock(succs, stack), LoopOn(stack))
  /\ UNCHANGED <<succs, marker, removed>>

(* Mutant: the loop stays at a successor that is marked. *)
DfsSkipStays ==
  /\ stack # <<>> /\ ~LoopDone(succs, stack)
  /\ IsMarked(marks, SuccBlock(succs, stack), marker)
  /\ UNCHANGED dfsVars

DfsSkip ==
  /\ stack # <<>> /\ ~LoopDone(succs, stack)
  /\ IsMarked(marks, SuccBlock(succs, stack), marker)
  /\ stack' = LoopOn(stack)
  /\ UNCHANGED <<succs, marks, marker, dfsVector, removed>>

DfsReturn ==
  /\ stack # <<>> /\ LoopDone(succs, stack)
  /\ stack' = Pop(stack)
  /\ UNCHANGED <<succs, marks, marker, dfsVector, removed>>

DfsStep == DfsVisit \/ DfsSkip \/ DfsReturn

DfsInit ==
  /\ succs \in CFGS
  /\ marks \in INITIAL_MARKS
  /\ marker \in INITIAL_MARKERS
  /\ stack = <<>>
  /\ dfsVector = <<>>
  /\ removed = {}

DfsNext == DfsRun \/ DfsStep

DfsSpec == DfsInit /\ [][DfsNext]_dfsVars

-----------------------------------------------------------------------------
Found == {dfsVector[i] : i \in 1 .. Len(dfsVector)}

DfsTypeOK ==
  /\ succs \in CFGS
  /\ marks \in Marks
  /\ marker \in AllMarkers
  /\ stack \in Seq(Frames)
  /\ dfsVector \in Seq(Blocks)
  /\ removed \subseteq Blocks

(* A block is entered once, so the recursion is never deeper than the      *)
(* graph has blocks.                                                       *)
FoundOnce ==
  \A i, j \in 1 .. Len(dfsVector) : dfsVector[i] = dfsVector[j] => i = j

(* The blocks being visited form a path of the graph from the start block, *)
(* and all of them have been found.                                        *)
StackIsPath ==
  /\ stack # <<>> => stack[1].block = Start
  /\ \A k \in 1 .. Len(stack) - 1 :
       stack[k + 1].block \in SuccSet(succs, stack[k].block)
  /\ OnStack(stack) \subseteq Found

(* When the walk is over it has found exactly the blocks that can be       *)
(* reached without entering a block that was marked beforehand.            *)
DfsCorrect ==
  DfsDone => Found = ReachableAvoiding(succs, Start, removed)
=============================================================================
