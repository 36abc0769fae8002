-------------------------------- MODULE Cfg --------------------------------
(***************************************************************************)
(* The control flow graph the analyses walk, and the stack of the          *)
(* recursive functions that walk it.                                       *)
(*                                                                         *)
(* A graph is a function `succs' from each block to the sequence of its    *)
(* successors, in the order IrBuilder added them (ir/ir_builder-inl.h).    *)
(***************************************************************************)
EXTENDS MarkerBits, Sequences

CONSTANTS Start,     \* Graph::GetStartBlock(), the first block added
          CFGS       \* the graphs under consideration

ASSUME StartAssumption == Start \in Blocks

(* assert(successors_.size() != 2) in BasicBlock::AddSuccessor. *)
MAX_SUCCESSORS == 2

ASSUME CfgsAssumption ==
  /\ CFGS \subseteq [Blocks -> Seq(Blocks)]
  /\ \A succs \in CFGS, b \in Blocks : Len(succs[b]) <= MAX_SUCCESSORS

SuccSet(succs, b) == {succs[b][i] : i \in 1 .. Len(succs[b])}

(* The blocks found from block `from' without entering a block of `avoid': *)
(* what every set that contains `from' and the successors of its members,  *)
(* those in `avoid' excepted, has in common.                               *)
ClosedAvoiding(succs, avoid, S) ==
  \A b \in S : SuccSet(succs, b) \subseteq S \cup avoid

ReachableAvoiding(succs, from, avoid) ==
  {b \in Blocks : \A S \in SUBSET Blocks :
                    from \in S /\ ClosedAvoiding(succs, avoid, S) => b \in S}

Reachable(succs) == ReachableAvoiding(succs, Start, {})
-----------------------------------------------------------------------------
(* An activation of a recursive visit: the block it was called for and the *)
(* position of its loop over the successors.                               *)
Frames == [block : Blocks, next : Nat \ {0}]

Call(b) == [block |-> b, next |-> 1]

Top(stack) == stack[Len(stack)]

(* Mutant: the loop over the successors ends before the last. *)
LoopDoneEarly(succs, stack) == Top(stack).next >= Len(succs[Top(stack).block])

LoopDone(succs, stack) == Top(stack).next > Len(succs[Top(stack).block])

SuccBlock(succs, stack) == succs[Top(stack).block][Top(stack).next]

LoopOn(stack) == [stack EXCEPT ![Len(stack)].next = @ + 1]

Pop(stack) == SubSeq(stack, 1, Len(stack) - 1)

OnStack(stack) == {stack[k].block : k \in 1 .. Len(stack)}
=============================================================================
