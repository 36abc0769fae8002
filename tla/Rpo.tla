-------------------------------- MODULE Rpo --------------------------------
(***************************************************************************)
(* RPO (analysis/rpo.cpp): the blocks reachable from the start block in    *)
(* reverse postorder.  A vector with one slot for every block of the graph *)
(* is filled from its end as the blocks are finished, so that blocks which *)
(* cannot be reached leave null pointers at its front.                     *)
(***************************************************************************)
EXTENDS Traversal, FiniteSets

CONSTANT Null  \* a null BasicBlock pointer

ASSUME RpoAssumption == IsFiniteSet(Blocks) /\ Null \notin Blocks

VARIABLES
  blockCount, \* how many slots of rpoVector are still free
  rpoVector   \* the vector, <<>> before the walk

rpoVars == <<succs, marks, marker, stack, blockCount, rpoVector>>

(* Mutants: the start block is not counted; only reachable blocks are. *)
BlocksBesidesStart == Cardinality(Blocks) - 1
ReachableBlockCount == Cardinality(Reachable(succs))

(* Graph::GetAliveBlockCount: unreachable blocks count. *)
AliveBlockCount == Cardinality(Blocks)

Slots == 0 .. AliveBlockCount - 1

RpoIdle == stack = <<>> /\ rpoVector = <<>>
RpoDone == stack = <<>> /\ rpoVector # <<>>

(* assert: blockCount > 0 before a block takes its slot. *)
RpoAssertFails ==
  stack # <<>> /\ LoopDone(succs, stack) /\ blockCount = 0

RpoEnter(b, callers) ==
  /\ marks' = WithMarker(marks, b, marker)
  /\ stack' = Append(callers, Call(b))

RpoRun ==
  /\ RpoIdle
  /\ blockCount' = AliveBlockCount
  /\ rpoVector' = [i \in Slots |-> Null]
  /\ RpoEnter(Start, stack)
  /\ UNCHANGED <<succs, marker>>

RpoVisit ==
  /\ stack # <<>> /\ ~LoopDone(succs, stack)
  /\ ~IsMarked(marks, SuccBlock(succs, stack), marker)
  /\ RpoEnter(SuccBlock(succs, stack), LoopOn(stack))
  /\ UNCHANGED <<succs, marker, blockCount, rpoVector>>

RpoSkip ==
  /\ stack # <<>> /\ ~LoopDone(succs, stack)
  /\ IsMarked(marks, SuccBlock(succs, stack), marker)
  /\ stack' = LoopOn(stack)
  /\ UNCHANGED <<succs, marks, marker, blockCount, rpoVector>>

(* Mutant: postorder, the slots are filled from the front. *)
RpoFinishInFront ==
  /\ stack # <<>> /\ LoopDone(succs, stack) /\ blockCount > 0
  /\ blockCount' = blockCount - 1
  /\ rpoVector' = [rpoVector EXCEPT ![AliveBlockCount - blockCount] = Top(stack).block]
  /\ stack' = Pop(stack)
  /\ UNCHANGED <<succs, marks, marker>>

(* Mutant: the count of free slots is not taken down. *)
RpoFinishUncounted ==
  /\ stack # <<>> /\ LoopDone(succs, stack) /\ blockCount > 0
  /\ rpoVector' = [rpoVector EXCEPT ![blockCount - 1] = Top(stack).block]
  /\ stack' = Pop(stack)
  /\ UNCHANGED <<succs, marks, marker, blockCount>>

(* The next free slot from the end takes the finished block. *)
RpoFinish ==
  /\ stack # <<>> /\ LoopDone(succs, stack) /\ blockCount > 0
  /\ blockCount' = blockCount - 1
  /\ rpoVector' = [rpoVector EXCEPT ![blockCount - 1] = Top(stack).block]
  /\ stack' = Pop(stack)
  /\ UNCHANGED <<succs, marks, marker>>

RpoStep == RpoVisit \/ RpoSkip \/ RpoFinish

RpoInit ==
  /\ succs \in CFGS
  /\ marks \in INITIAL_MARKS
  /\ marker \in INITIAL_MARKERS
  /\ MarkedBy(marks, marker) = {}      \* a marker fresh from CreateNewMarker
  /\ stack = <<>>
  /\ blockCount = 0
  /\ rpoVector = <<>>

RpoNext == RpoRun \/ RpoStep

RpoSpec == RpoInit /\ [][RpoNext]_rpoVars

-----------------------------------------------------------------------------
(* The blocks that have their slot, and the slot of each. *)
Finished == {rpoVector[i] : i \in DOMAIN rpoVector} \ {Null}

Position(b) == CHOOSE i \in Slots : rpoVector[i] = b

RpoTypeOK ==
  /\ succs \in CFGS
  /\ marks \in Marks
  /\ marker \in AllMarkers
  /\ stack \in Seq(Frames)
  /\ blockCount \in 0 .. AliveBlockCount
  /\ rpoVector \in {<<>>} \cup [Slots -> Blocks \cup {Null}]

(* A block takes one slot, and it does so only when its own visit is over: *)
(* the slots from blockCount on hold different blocks, the others none.    *)
SlotsFilledFromTheEnd ==
  rpoVector # <<>> =>
    /\ \A i \in Slots : rpoVector[i] = Null <=> i < blockCount
    /\ \A i, j \in Slots :
         rpoVector[i] = rpoVector[j] /\ rpoVector[i] # Null => i = j
    /\ OnStack(stack) \cap Finished = {}

(* The assertion blockCount > 0 holds: there is a slot left for every block     *)
(* being visited.                                                          *)
RpoAssertHolds == ~RpoAssertFails

(* When the walk is over, exactly the reachable blocks have a slot. *)
RpoCorrect == RpoDone => Finished = Reachable(succs)

(* The order data-flow clients count on: a block comes before each of its  *)
(* successors, unless the edge closes a cycle.                             *)
BackwardEdgesCloseCycles ==
  RpoDone =>
    \A u \in Finished : \A v \in SuccSet(succs, u) :
      Position(v) <= Position(u) => u \in ReachableAvoiding(succs, v, {})
=============================================================================
