-------------------------- MODULE TraversalProofs --------------------------
(***************************************************************************)
(* Proofs about the traversals, Dfs.tla and Rpo.tla, for every graph.      *)
(*                                                                         *)
(* DFS finds each block once and, when it is over, has found exactly the   *)
(* blocks that can be reached without entering one that was marked         *)
(* beforehand.  Its inductive invariant, DfsInv, says what is marked (what *)
(* the walk found and what was marked before), that only reachable blocks  *)
(* are found, and that a successor of a found block is marked unless the   *)
(* loop of an activation of that block still has to come to it.            *)
(*                                                                         *)
(* For RPO, the assertion on the number of free slots holds, exactly the   *)
(* reachable blocks get a slot, one each, and a block precedes its         *)
(* successors unless the edge closes a cycle.  RpoInv splits the marked    *)
(* blocks into those that have their slot and those on the stack, counts   *)
(* the free slots, and keeps the stack a path, so that an edge back to it  *)
(* closes a cycle.                                                         *)
(***************************************************************************)
EXTENDS Dfs, Rpo, SequenceTheorems, FiniteSetTheorems, TLAPS

-----------------------------------------------------------------------------
(* The operators of Cfg.tla that both traversals use. *)

(* A loop iteration advances the top activation and keeps the others. *)
LEMMA LoopOnFrames ==
  ASSUME NEW s \in Seq(Frames), s # <<>>
  PROVE  /\ LoopOn(s) \in Seq(Frames)
         /\ Len(LoopOn(s)) = Len(s)
         /\ \A k \in 1 .. Len(s) : LoopOn(s)[k].block = s[k].block
         /\ \A k \in 1 .. Len(s) - 1 : LoopOn(s)[k] = s[k]
         /\ LoopOn(s)[Len(s)].next = s[Len(s)].next + 1
<1>1. Len(s) \in Nat \ {0} /\ DOMAIN s = 1 .. Len(s)
  OBVIOUS
<1>2. \A k \in 1 .. Len(s) : s[k] \in Frames
  OBVIOUS
<1>3. LoopOn(s) = [k \in 1 .. Len(s) |->
                     IF k = Len(s) THEN [s[k] EXCEPT !.next = @ + 1] ELSE s[k]]
  BY <1>1 DEF LoopOn
<1>4. \A k \in 1 .. Len(s) : LoopOn(s)[k] \in Frames
  BY <1>1, <1>2, <1>3 DEF Frames
<1>5. LoopOn(s) \in Seq(Frames) /\ Len(LoopOn(s)) = Len(s)
  BY <1>1, <1>3, <1>4
<1> QED
  BY <1>1, <1>2, <1>3, <1>5 DEF Frames

(* A return drops the top activation and keeps the others. *)
LEMMA PopFrames ==
  ASSUME NEW s \in Seq(Frames), s # <<>>
  PROVE  /\ Pop(s) \in Seq(Frames)
         /\ Len(Pop(s)) = Len(s) - 1
         /\ \A k \in 1 .. Len(s) - 1 : Pop(s)[k] = s[k]
BY DEF Pop

(* A call adds an activation and keeps the others. *)
LEMMA PushFrames ==
  ASSUME NEW s \in Seq(Frames), NEW b \in Blocks
  PROVE  /\ Append(s, Call(b)) \in Seq(Frames)
         /\ Len(Append(s, Call(b))) = Len(s) + 1
         /\ \A k \in 1 .. Len(s) : Append(s, Call(b))[k] = s[k]
         /\ Append(s, Call(b))[Len(s) + 1] = Call(b)
         /\ Call(b) \in Frames
BY DEF Call, Frames

(* The successor the top activation looks at is one of its block's. *)
LEMMA SuccBlockIsSuccessor ==
  ASSUME NEW edges \in [Blocks -> Seq(Blocks)], NEW s \in Seq(Frames), s # <<>>,
         ~LoopDone(edges, s)
  PROVE  /\ Top(s) \in Frames
         /\ SuccBlock(edges, s) \in Blocks
         /\ Top(s).next \in 1 .. Len(edges[Top(s).block])
         /\ SuccBlock(edges, s) \in SuccSet(edges, Top(s).block)
<1>1. Top(s) \in Frames
  BY DEF Top
<1>2. Top(s).block \in Blocks /\ Top(s).next \in Nat \ {0}
  BY <1>1 DEF Frames
<1>3. edges[Top(s).block] \in Seq(Blocks)
  BY <1>2
<1>4. Top(s).next \in 1 .. Len(edges[Top(s).block])
  BY <1>2, <1>3 DEF LoopDone
<1> QED
  BY <1>1, <1>3, <1>4 DEF SuccBlock, SuccSet

(* What can be reached is closed under successors... *)
LEMMA ReachableIsClosed ==
  ASSUME NEW edges \in [Blocks -> Seq(Blocks)], NEW from \in Blocks, NEW avoid,
         NEW b \in ReachableAvoiding(edges, from, avoid),
         NEW c \in SuccSet(edges, b), c \notin avoid
  PROVE  c \in ReachableAvoiding(edges, from, avoid)
<1>1. b \in Blocks /\ edges[b] \in Seq(Blocks)
  BY DEF ReachableAvoiding
<1>2. c \in Blocks
  BY <1>1 DEF SuccSet
<1>3. ASSUME NEW S \in SUBSET Blocks, from \in S, ClosedAvoiding(edges, avoid, S)
      PROVE  c \in S
  BY <1>3 DEF ReachableAvoiding, ClosedAvoiding
<1> QED
  BY <1>2, <1>3 DEF ReachableAvoiding

(* ... and is in every set that contains the origin and is closed. *)
LEMMA ReachableIsLeast ==
  ASSUME NEW edges, NEW from, NEW avoid, NEW S \in SUBSET Blocks,
         from \in S, ClosedAvoiding(edges, avoid, S)
  PROVE  ReachableAvoiding(edges, from, avoid) \subseteq S
BY DEF ReachableAvoiding

(* A block can be reached from itself. *)
LEMMA OriginIsReachable ==
  ASSUME NEW edges, NEW from \in Blocks, NEW avoid
  PROVE  from \in ReachableAvoiding(edges, from, avoid)
BY DEF ReachableAvoiding

(* Marking a block under a marker adds it to what the marker marks. *)
LEMMA MarkingAdds ==
  ASSUME NEW ms \in Marks, NEW m \in AllMarkers, NEW b \in Blocks
  PROVE  /\ WithMarker(ms, b, m) \in Marks
         /\ MarkedBy(WithMarker(ms, b, m), m) = MarkedBy(ms, m) \cup {b}
<1>1. ColorOf(m) \in Colors /\ ValueOf(m) \in Nat
  BY IndexValuesAssumption DEF AllMarkers, ColorOf, ValueOf, Colors, COLORS_NUM
<1> QED
  BY <1>1 DEF Marks, WithMarker, MarkedBy, IsMarked

(* The blocks that carry the marker of the walk. *)
Marked == MarkedBy(marks, marker)

(* Some activation of b has not come to its i-th successor. *)
Pending(b, i) ==
  \E k \in 1 .. Len(stack) : stack[k].block = b /\ stack[k].next <= i

-----------------------------------------------------------------------------
(* DFS. *)

(* What is marked is what was marked before and what the walk has found. *)
MarkedExactly == dfsVector # <<>> => Marked = removed \cup Found

(* A successor of a block found is found or was marked before, unless the  *)
(* loop over the successors has not come to it.                            *)
FoundProgress ==
  \A b \in Found : \A i \in 1 .. Len(succs[b]) :
    succs[b][i] \in Found \cup removed \/ Pending(b, i)

(* Only what can be reached is found. *)
FoundReachable ==
  dfsVector # <<>> =>
    Start \in Found /\ Found \subseteq ReachableAvoiding(succs, Start, removed)

(* The inductive invariant of DFS. *)
DfsInv ==
  /\ DfsTypeOK
  /\ FoundOnce
  /\ StackIsPath
  /\ MarkedExactly
  /\ FoundProgress
  /\ FoundReachable
-----------------------------------------------------------------------------
(* Appending a block to dfsVector adds it to the blocks found. *)
LEMMA FoundAppend ==
  ASSUME NEW b \in Blocks, dfsVector \in Seq(Blocks), dfsVector' = Append(dfsVector, b)
  PROVE  /\ dfsVector' \in Seq(Blocks) /\ dfsVector' # <<>>
         /\ Found' = Found \cup {b}
         /\ FoundOnce /\ b \notin Found => FoundOnce'
<1>1. /\ dfsVector' \in Seq(Blocks)
      /\ Len(dfsVector') = Len(dfsVector) + 1
      /\ \A i \in 1 .. Len(dfsVector) : dfsVector'[i] = dfsVector[i]
      /\ dfsVector'[Len(dfsVector) + 1] = b
  OBVIOUS
<1>2. Len(dfsVector) \in Nat
  OBVIOUS
<1>3. 1 .. Len(dfsVector') = 1 .. Len(dfsVector) \cup {Len(dfsVector) + 1}
  BY <1>1, <1>2
<1>4. Found' = Found \cup {b}
  BY <1>1, <1>3 DEF Found
<1>5. FoundOnce /\ b \notin Found => FoundOnce'
  BY <1>1, <1>3 DEF FoundOnce, Found
<1> QED
  BY <1>1, <1>2, <1>4, <1>5
-----------------------------------------------------------------------------
(* The invariant holds before DFS::Run: nothing is found, nothing is on    *)
(* the stack.                                                              *)
LEMMA DfsInvInit == DfsInit => DfsInv
<1> SUFFICES ASSUME DfsInit PROVE DfsInv
  OBVIOUS
<1>1. Found = {} /\ OnStack(stack) = {}
  BY DEF DfsInit, Found, OnStack
<1>2. DfsTypeOK
  BY InitialMarksAssumption DEF DfsInit, DfsTypeOK
<1> QED
  BY <1>1, <1>2
     DEF DfsInit, DfsInv, FoundOnce, StackIsPath, MarkedExactly, FoundProgress,
         FoundReachable

(* DFS::Run marks the start block and enters it. *)
LEMMA DfsRunInv ==
  ASSUME DfsInv, DfsRun
  PROVE  DfsInv'
<1>1. /\ stack = <<>> /\ dfsVector = <<>> /\ stack \in Seq(Frames)
      /\ dfsVector \in Seq(Blocks) /\ marks \in Marks /\ marker \in AllMarkers
      /\ succs' = succs /\ marker' = marker /\ succs \in CFGS
      /\ stack' = Append(stack, Call(Start))
      /\ marks' = WithMarker(marks, Start, marker)
      /\ removed' = Marked
      /\ Found = {}
  BY DEF DfsRun, DfsIdle, DfsEnter, DfsInv, DfsTypeOK, Found, Marked
<1>2. /\ stack' = <<Call(Start)>> /\ stack' \in Seq(Frames)
      /\ Len(stack') = 1 /\ stack'[1].block = Start /\ stack'[1].next = 1
  <2>1. Call(Start) \in Frames /\ Call(Start).block = Start /\ Call(Start).next = 1
    BY StartAssumption DEF Call, Frames
  <2>2. stack' = <<Call(Start)>>
    BY <1>1, <2>1
  <2> QED
    BY <2>1, <2>2
<1>3. /\ dfsVector' \in Seq(Blocks) /\ dfsVector' # <<>>
      /\ Found' = {Start} /\ FoundOnce'
  BY <1>1, StartAssumption, FoundAppend DEF DfsRun, DfsEnter, DfsInv
<1>4. marks' \in Marks /\ Marked' = removed' \cup {Start} /\ removed' \subseteq Blocks
  BY <1>1, StartAssumption, MarkingAdds DEF Marked, MarkedBy
<1>5. DfsTypeOK'
  BY <1>1, <1>2, <1>3, <1>4 DEF DfsTypeOK
<1>6. StackIsPath'
  BY <1>2, <1>3 DEF StackIsPath, OnStack
<1>7. MarkedExactly'
  BY <1>3, <1>4 DEF MarkedExactly
<1>8. FoundProgress'
  <2> SUFFICES ASSUME NEW b \in Found', NEW i \in (1 .. Len(succs[b]))'
               PROVE  Pending(b, i)'
    BY DEF FoundProgress
  <2> QED
    BY <1>1, <1>2, <1>3 DEF Pending
<1>9. FoundReachable'
  BY <1>1, <1>3, StartAssumption, OriginIsReachable DEF FoundReachable
<1> QED
  BY <1>3, <1>5, <1>6, <1>7, <1>8, <1>9 DEF DfsInv

(* Entering an unmarked successor: it is marked, found for the first time, *)
(* and on top of the path.                                                 *)
LEMMA DfsVisitInv ==
  ASSUME DfsInv, DfsVisit
  PROVE  DfsInv'
<1> DEFINE b == SuccBlock(succs, stack)
           top == Top(stack)
<1>1. /\ stack # <<>> /\ ~LoopDone(succs, stack) /\ stack \in Seq(Frames)
      /\ dfsVector \in Seq(Blocks) /\ marks \in Marks /\ marker \in AllMarkers
      /\ removed \subseteq Blocks /\ succs \in CFGS
      /\ succs \in [Blocks -> Seq(Blocks)]
      /\ succs' = succs /\ marker' = marker /\ removed' = removed
      /\ stack' = Append(LoopOn(stack), Call(b))
      /\ marks' = WithMarker(marks, b, marker)
      /\ dfsVector' = Append(dfsVector, b)
      /\ b \notin Marked
  BY CfgsAssumption DEF DfsVisit, DfsEnter, DfsInv, DfsTypeOK, Marked, MarkedBy
<1>2. /\ b \in Blocks /\ b \in SuccSet(succs, top.block)
      /\ top.next \in 1 .. Len(succs[top.block])
      /\ b = succs[top.block][top.next]
  BY <1>1, SuccBlockIsSuccessor DEF SuccBlock
<1> HIDE DEF b
<1>3. Len(stack) \in Nat \ {0} /\ stack[Len(stack)] = top
  BY <1>1 DEF Top
<1>4. /\ stack' \in Seq(Frames) /\ Len(stack') = Len(stack) + 1
      /\ \A k \in 1 .. Len(stack) : stack'[k].block = stack[k].block
      /\ \A k \in 1 .. Len(stack) - 1 : stack'[k] = stack[k]
      /\ stack'[Len(stack)].next = top.next + 1
      /\ stack'[Len(stack) + 1].block = b /\ stack'[Len(stack) + 1].next = 1
  <2>1. /\ LoopOn(stack) \in Seq(Frames) /\ Len(LoopOn(stack)) = Len(stack)
        /\ \A k \in 1 .. Len(stack) : LoopOn(stack)[k].block = stack[k].block
        /\ \A k \in 1 .. Len(stack) - 1 : LoopOn(stack)[k] = stack[k]
        /\ LoopOn(stack)[Len(stack)].next = top.next + 1
    BY <1>1, <1>3, LoopOnFrames
  <2>2. /\ stack' \in Seq(Frames) /\ Len(stack') = Len(stack) + 1
        /\ \A k \in 1 .. Len(stack) : stack'[k] = LoopOn(stack)[k]
        /\ stack'[Len(stack) + 1] = Call(b)
    BY SMTT(60), <1>1, <1>2, <2>1, PushFrames
  <2> QED
    BY SMTT(60), <1>3, <2>1, <2>2 DEF Call
<1>5. dfsVector # <<>> /\ top.block \in Found
  <2>1. top.block \in OnStack(stack)
    BY <1>3 DEF OnStack
  <2>2. top.block \in Found
    BY <2>1 DEF DfsInv, StackIsPath
  <2> QED
    BY <2>2 DEF Found
<1>6. b \notin Found /\ b \notin removed
  BY <1>1, <1>5 DEF DfsInv, MarkedExactly
<1>7. /\ dfsVector' \in Seq(Blocks) /\ dfsVector' # <<>>
      /\ Found' = Found \cup {b} /\ FoundOnce'
  BY <1>1, <1>2, <1>6, FoundAppend DEF DfsInv
<1>8. marks' \in Marks /\ Marked' = Marked \cup {b}
  BY <1>1, <1>2, MarkingAdds DEF Marked
<1>9. DfsTypeOK'
  BY <1>1, <1>4, <1>7, <1>8 DEF DfsTypeOK
<1>10. StackIsPath'
  <2>1. stack'[1].block = Start
    BY <1>1, <1>3, <1>4 DEF DfsInv, StackIsPath
  <2>2. ASSUME NEW k \in 1 .. Len(stack') - 1
        PROVE  stack'[k + 1].block \in SuccSet(succs, stack'[k].block)
    <3>1. CASE k = Len(stack)
      BY <3>1, <1>2, <1>3, <1>4
    <3>2. CASE k \in 1 .. Len(stack) - 1
      <4>1. stack[k + 1].block \in SuccSet(succs, stack[k].block)
        BY <3>2 DEF DfsInv, StackIsPath
      <4>2. k \in 1 .. Len(stack) /\ k + 1 \in 1 .. Len(stack)
        BY <3>2, <1>3
      <4> QED
        BY <4>1, <4>2, <1>4
    <3> QED
      BY <3>1, <3>2, <1>3, <1>4
  <2>3. OnStack(stack') \subseteq OnStack(stack) \cup {b}
    BY <1>3, <1>4 DEF OnStack
  <2> QED
    BY <2>1, <2>2, <2>3, <1>1, <1>7 DEF DfsInv, StackIsPath
<1>11. MarkedExactly'
  BY <1>1, <1>5, <1>7, <1>8 DEF DfsInv, MarkedExactly
<1>12. FoundProgress'
  <2> SUFFICES ASSUME NEW c \in Found', NEW i \in 1 .. Len(succs[c]),
                      succs[c][i] \notin Found' \cup removed
               PROVE  Pending(c, i)'
    BY <1>1 DEF FoundProgress
  <2>1. CASE c = b
    BY <2>1, <1>3, <1>4 DEF Pending
  <2>2. CASE c # b
    <3>1. c \in Found /\ succs[c][i] \notin Found \cup removed /\ succs[c][i] # b
      BY <2>2, <1>7
    <3>2. PICK k \in 1 .. Len(stack) : stack[k].block = c /\ stack[k].next <= i
      BY <3>1 DEF DfsInv, FoundProgress, Pending
    <3>3. CASE k = Len(stack)
      <4>1. i # top.next
        BY <3>1, <3>2, <3>3, <1>2, <1>3
      <4> QED
        BY <4>1, <3>2, <3>3, <1>2, <1>3, <1>4 DEF Pending
    <3>4. CASE k \in 1 .. Len(stack) - 1
      BY <3>2, <3>4, <1>3, <1>4 DEF Pending
    <3> QED
      BY <3>3, <3>4, <1>3
  <2> QED
    BY <2>1, <2>2
<1>13. FoundReachable'
  <2>1. top.block \in ReachableAvoiding(succs, Start, removed)
    BY <1>5 DEF DfsInv, FoundReachable
  <2>2. b \in ReachableAvoiding(succs, Start, removed)
    BY <2>1, <1>1, <1>2, <1>6, StartAssumption, ReachableIsClosed
  <2> QED
    BY <2>2, <1>1, <1>5, <1>7 DEF DfsInv, FoundReachable
<1> QED
  BY <1>7, <1>9, <1>10, <1>11, <1>12, <1>13 DEF DfsInv

(* Skipping a marked successor: it is found already or was taken out. *)
LEMMA DfsSkipInv ==
  ASSUME DfsInv, DfsSkip
  PROVE  DfsInv'
<1> DEFINE b == SuccBlock(succs, stack)
           top == Top(stack)
<1>1. /\ stack # <<>> /\ ~LoopDone(succs, stack) /\ stack \in Seq(Frames)
      /\ succs \in [Blocks -> Seq(Blocks)]
      /\ stack' = LoopOn(stack)
      /\ UNCHANGED <<succs, marks, marker, dfsVector, removed>>
      /\ IsMarked(marks, b, marker)
  BY CfgsAssumption DEF DfsSkip, DfsInv, DfsTypeOK
<1>2. /\ b \in Blocks
      /\ b = succs[top.block][top.next]
      /\ top.next \in 1 .. Len(succs[top.block])
  BY <1>1, SuccBlockIsSuccessor DEF SuccBlock
<1>3. Len(stack) \in Nat \ {0} /\ stack[Len(stack)] = top
  BY <1>1 DEF Top
<1>4. /\ stack' \in Seq(Frames) /\ Len(stack') = Len(stack)
      /\ \A k \in 1 .. Len(stack) : stack'[k].block = stack[k].block
      /\ \A k \in 1 .. Len(stack) - 1 : stack'[k] = stack[k]
      /\ stack'[Len(stack)].next = top.next + 1
  BY <1>1, <1>3, LoopOnFrames
<1>5. top.block \in OnStack(stack) /\ OnStack(stack) \subseteq Found
  BY <1>3 DEF OnStack, DfsInv, StackIsPath
<1>6. b \in removed \cup Found
  <2>1. dfsVector # <<>>
    BY <1>5 DEF Found
  <2> QED
    BY <2>1, <1>1, <1>2 DEF DfsInv, MarkedExactly, Marked, MarkedBy
<1> HIDE DEF b
<1>7. Found' = Found /\ Marked' = Marked
  BY <1>1 DEF Found, Marked, MarkedBy
<1>8. DfsTypeOK' /\ FoundOnce'
  BY <1>1, <1>4 DEF DfsInv, DfsTypeOK, FoundOnce
<1>9. StackIsPath'
  <2>1. OnStack(stack') = OnStack(stack)
    BY <1>3, <1>4 DEF OnStack
  <2>2. \A k \in 1 .. Len(stack) - 1 :
          stack'[k + 1].block \in SuccSet(succs, stack'[k].block)
    <3> TAKE k \in 1 .. Len(stack) - 1
    <3>1. k \in 1 .. Len(stack) /\ k + 1 \in 1 .. Len(stack)
      BY <1>3
    <3> QED
      BY <3>1, <1>4 DEF DfsInv, StackIsPath
  <2>3. stack'[1].block = Start
    BY <1>1, <1>3, <1>4 DEF DfsInv, StackIsPath
  <2> QED
    BY <2>1, <2>2, <2>3, <1>1, <1>4, <1>5, <1>7 DEF StackIsPath
<1>10. FoundProgress'
  <2> SUFFICES ASSUME NEW c \in Found, NEW i \in 1 .. Len(succs[c]),
                      succs[c][i] \notin Found \cup removed
               PROVE  Pending(c, i)'
    BY <1>1, <1>7 DEF FoundProgress
  <2>1. PICK k \in 1 .. Len(stack) : stack[k].block = c /\ stack[k].next <= i
    BY DEF DfsInv, FoundProgress, Pending
  <2>2. CASE k = Len(stack)
    <3>1. i # top.next
      BY <2>1, <2>2, <1>2, <1>3, <1>6
    <3> QED
      BY <3>1, <2>1, <2>2, <1>2, <1>3, <1>4 DEF Pending
  <2>3. CASE k \in 1 .. Len(stack) - 1
    BY <2>1, <2>3, <1>3, <1>4 DEF Pending
  <2> QED
    BY <2>2, <2>3, <1>3
<1>11. MarkedExactly' /\ FoundReachable'
  BY <1>1, <1>7 DEF DfsInv, MarkedExactly, FoundReachable
<1> QED
  BY <1>8, <1>9, <1>10, <1>11 DEF DfsInv

(* Returning from a block: all its successors have been looked at. *)
LEMMA DfsReturnInv ==
  ASSUME DfsInv, DfsReturn
  PROVE  DfsInv'
<1> DEFINE top == Top(stack)
<1>1. /\ stack # <<>> /\ stack \in Seq(Frames)
      /\ succs \in [Blocks -> Seq(Blocks)]
      /\ top.next > Len(succs[top.block])
      /\ stack' = Pop(stack)
      /\ UNCHANGED <<succs, marks, marker, dfsVector, removed>>
  BY CfgsAssumption DEF DfsReturn, DfsInv, DfsTypeOK, LoopDone
<1>2. Len(stack) \in Nat \ {0} /\ stack[Len(stack)] = top /\ top \in Frames
  BY <1>1 DEF Top
<1>3. /\ stack' \in Seq(Frames) /\ Len(stack') = Len(stack) - 1
      /\ \A k \in 1 .. Len(stack) - 1 : stack'[k] = stack[k]
  BY <1>1, PopFrames
<1>4. Found' = Found /\ Marked' = Marked
  BY <1>1 DEF Found, Marked, MarkedBy
<1>5. DfsTypeOK' /\ FoundOnce'
  BY <1>1, <1>3 DEF DfsInv, DfsTypeOK, FoundOnce
<1>6. StackIsPath'
  <2>1. OnStack(stack') \subseteq OnStack(stack)
    BY <1>2, <1>3 DEF OnStack
  <2>2. \A k \in 1 .. Len(stack') - 1 :
          stack'[k + 1].block \in SuccSet(succs, stack'[k].block)
    <3> TAKE k \in 1 .. Len(stack') - 1
    <3>1. k \in 1 .. Len(stack) - 1 /\ k + 1 \in 1 .. Len(stack) - 1
      BY <1>2, <1>3
    <3> QED
      BY <3>1, <1>3 DEF DfsInv, StackIsPath
  <2>3. stack' # <<>> => stack'[1].block = Start
    BY <1>1, <1>2, <1>3 DEF DfsInv, StackIsPath
  <2> QED
    BY <2>1, <2>2, <2>3, <1>1, <1>4 DEF DfsInv, StackIsPath
<1>7. FoundProgress'
  <2> SUFFICES ASSUME NEW c \in Found, NEW i \in 1 .. Len(succs[c]),
                      succs[c][i] \notin Found \cup removed
               PROVE  Pending(c, i)'
    BY <1>1, <1>4 DEF FoundProgress
  <2>1. PICK k \in 1 .. Len(stack) : stack[k].block = c /\ stack[k].next <= i
    BY DEF DfsInv, FoundProgress, Pending
  <2>2. k # Len(stack)
    <3>1. top.next \in Nat /\ c \in Blocks
      BY <1>2 DEF Frames, Found, DfsInv, DfsTypeOK
    <3>2. Len(succs[c]) \in Nat
      BY <3>1, <1>1
    <3> QED
      BY <3>1, <3>2, <2>1, <1>1, <1>2
  <2> QED
    BY <2>1, <2>2, <1>2, <1>3 DEF Pending
<1>8. MarkedExactly' /\ FoundReachable'
  BY <1>1, <1>4 DEF DfsInv, MarkedExactly, FoundReachable
<1> QED
  BY <1>5, <1>6, <1>7, <1>8 DEF DfsInv

(* Every step of the walk keeps the invariant. *)
LEMMA DfsInvNext == DfsInv /\ [DfsNext]_dfsVars => DfsInv'
<1> SUFFICES ASSUME DfsInv, [DfsNext]_dfsVars PROVE DfsInv'
  OBVIOUS
<1>1. CASE UNCHANGED dfsVars
  BY <1>1 DEF dfsVars, DfsInv, DfsTypeOK, FoundOnce, StackIsPath, MarkedExactly,
              FoundProgress, FoundReachable, Found, Marked, MarkedBy, Pending
<1>2. CASE DfsNext
  BY <1>2, DfsRunInv, DfsVisitInv, DfsSkipInv, DfsReturnInv DEF DfsNext, DfsStep
<1> QED
  BY <1>1, <1>2

(* The invariant holds in every behaviour of the walk. *)
THEOREM DfsInvariant == DfsSpec => []DfsInv
<1>1. DfsInit => DfsInv
  BY DfsInvInit
<1>2. DfsInv /\ [DfsNext]_dfsVars => DfsInv'
  BY DfsInvNext
<1> QED
  BY <1>1, <1>2, PTL DEF DfsSpec

(* Every block is found once: the recursion ends, and its depth is bounded *)
(* by the number of blocks.                                                *)
THEOREM DfsFindsOnce == DfsSpec => []FoundOnce
<1>1. DfsInv => FoundOnce
  BY DEF DfsInv
<1> QED
  BY <1>1, DfsInvariant, PTL
-----------------------------------------------------------------------------
(* When no activation is left, what was found is closed under successors   *)
(* up to the blocks taken out; and nothing else can be reached.            *)
LEMMA DfsInvIsCorrect == DfsInv => DfsCorrect
<1> SUFFICES ASSUME DfsInv, stack = <<>>, dfsVector # <<>>
             PROVE  Found = ReachableAvoiding(succs, Start, removed)
  BY DEF DfsCorrect, DfsDone
<1>1. Found \subseteq Blocks /\ Start \in Found
  BY DEF DfsInv, DfsTypeOK, Found, FoundReachable
<1>2. ClosedAvoiding(succs, removed, Found)
  <2> SUFFICES ASSUME NEW b \in Found, NEW i \in 1 .. Len(succs[b])
               PROVE  succs[b][i] \in Found \cup removed
    BY DEF ClosedAvoiding, SuccSet
  <2>1. ~Pending(b, i)
    BY DEF Pending
  <2> QED
    BY <2>1 DEF DfsInv, FoundProgress
<1>3. ReachableAvoiding(succs, Start, removed) \subseteq Found
  BY <1>1, <1>2, ReachableIsLeast
<1> QED
  BY <1>3 DEF DfsInv, FoundReachable

(* DFS::Run returns the blocks that can be reached without entering a      *)
(* block marked beforehand: what DominatorTree::Build rests on.            *)
THEOREM DfsFindsReachable == DfsSpec => []DfsCorrect
BY DfsInvIsCorrect, DfsInvariant, PTL

-----------------------------------------------------------------------------
(* RPO. *)

(* The blocks whose visit is over or has begun. *)
Visited == Finished \cup OnStack(stack)

(* RPO::Run has been called. *)
Walked == rpoVector # <<>>

(* Before that, no block is being visited. *)
NothingBefore == ~Walked => stack = <<>>

(* blockCount says how many slots are free. *)
Counted == Walked => Cardinality(Finished) = AliveBlockCount - blockCount

(* No block is visited within its own visit. *)
StackDistinct ==
  \A k, m \in 1 .. Len(stack) : stack[k].block = stack[m].block => k = m

(* A block on the stack can be reached from those below it. *)
StackReaches ==
  \A m \in 1 .. Len(stack) : \A k \in 1 .. m :
    stack[m].block \in ReachableAvoiding(succs, stack[k].block, {})

(* As FoundProgress. *)
VisitedProgress ==
  \A b \in Visited : \A i \in 1 .. Len(succs[b]) :
    succs[b][i] \in Visited \/ Pending(b, i)

(* Only what can be reached is visited. *)
VisitedReachable ==
  Walked => Start \in Visited /\ Visited \subseteq Reachable(succs)

(* BackwardEdgesCloseCycles, for the slots filled so far. *)
EdgesOrdered ==
  Walked =>
    \A i \in Slots : i >= blockCount =>
      \A v \in SuccSet(succs, rpoVector[i]) :
        \/ \E j \in Slots : j > i /\ rpoVector[j] = v
        \/ rpoVector[i] \in ReachableAvoiding(succs, v, {})

(* The inductive invariant of RPO. *)
RpoInv ==
  /\ RpoTypeOK
  /\ NothingBefore
  /\ SlotsFilledFromTheEnd
  /\ Counted
  /\ Marked = Visited
  /\ StackDistinct
  /\ StackReaches
  /\ VisitedProgress
  /\ VisitedReachable
  /\ EdgesOrdered
-----------------------------------------------------------------------------
(* The vector has a slot for every block, and so at least one. *)
LEMMA SlotsExist ==
  /\ AliveBlockCount \in Nat \ {0}
  /\ 0 \in Slots /\ Slots \subseteq Nat
  /\ \A f : DOMAIN f = Slots => f # <<>>
<1>1. AliveBlockCount \in Nat /\ AliveBlockCount # 0
  BY RpoAssumption, StartAssumption, FS_CardinalityType, FS_EmptySet DEF AliveBlockCount
<1>2. 0 \in Slots /\ Slots \subseteq Nat
  BY <1>1 DEF Slots
<1>3. \A f : DOMAIN f = Slots => f # <<>>
  <2> SUFFICES ASSUME NEW f, DOMAIN f = Slots, f = <<>> PROVE FALSE
    OBVIOUS
  <2>1. DOMAIN <<>> = {}
    OBVIOUS
  <2> QED
    BY <2>1, <1>2
<1> QED
  BY <1>1, <1>2, <1>3

(* Facts about the vector once the walk has begun. *)
LEMMA VectorFacts ==
  ASSUME RpoTypeOK, Walked
  PROVE  /\ rpoVector \in [Slots -> Blocks \cup {Null}]
         /\ DOMAIN rpoVector = Slots
         /\ Finished \subseteq Blocks
         /\ IsFiniteSet(Finished) /\ Cardinality(Finished) \in Nat
<1>1. rpoVector \in [Slots -> Blocks \cup {Null}]
  BY DEF RpoTypeOK, Walked
<1>2. Finished \subseteq Blocks
  BY <1>1 DEF Finished
<1> QED
  BY <1>1, <1>2, RpoAssumption, FS_Subset, FS_CardinalityType
-----------------------------------------------------------------------------
(* The invariant holds before RPO::Run. *)
LEMMA RpoInvInit == RpoInit => RpoInv
<1> SUFFICES ASSUME RpoInit PROVE RpoInv
  OBVIOUS
<1>1. stack = <<>> /\ ~Walked /\ Finished = {} /\ OnStack(stack) = {} /\ Marked = {}
  BY DEF RpoInit, Walked, Finished, OnStack, Marked
<1>2. RpoTypeOK
  BY SlotsExist, InitialMarksAssumption DEF RpoInit, RpoTypeOK
<1> QED
  BY <1>1, <1>2
     DEF RpoInv, NothingBefore, SlotsFilledFromTheEnd, Counted, Visited, StackDistinct,
         StackReaches, VisitedProgress, VisitedReachable, EdgesOrdered, Walked

(* RPO::Run resizes the vector and enters the start block. *)
LEMMA RpoRunInv ==
  ASSUME RpoInv, RpoRun
  PROVE  RpoInv'
<1>1. /\ stack = <<>> /\ rpoVector = <<>> /\ marks \in Marks /\ marker \in AllMarkers
      /\ succs' = succs /\ marker' = marker /\ succs \in CFGS
      /\ blockCount' = AliveBlockCount
      /\ rpoVector' = [i \in Slots |-> Null]
      /\ stack' = Append(stack, Call(Start))
      /\ marks' = WithMarker(marks, Start, marker)
      /\ Marked = {}
  BY DEF RpoRun, RpoIdle, RpoEnter, RpoInv, RpoTypeOK, Visited, Finished, OnStack
<1>2. /\ stack' = <<Call(Start)>> /\ stack' \in Seq(Frames)
      /\ Len(stack') = 1 /\ stack'[1].block = Start /\ stack'[1].next = 1
  <2>1. Call(Start) \in Frames /\ Call(Start).block = Start /\ Call(Start).next = 1
    BY StartAssumption DEF Call, Frames
  <2>2. stack' = <<Call(Start)>>
    BY <1>1, <2>1
  <2> QED
    BY <2>1, <2>2
<1>3. /\ rpoVector' \in [Slots -> Blocks \cup {Null}] /\ Walked' /\ Finished' = {}
      /\ \A i \in Slots : rpoVector'[i] = Null /\ i < blockCount'
  BY <1>1, SlotsExist DEF Walked, Finished, Slots
<1>4. marks' \in Marks /\ Marked' = {Start}
  BY <1>1, StartAssumption, MarkingAdds DEF Marked
<1>5. OnStack(stack') = {Start} /\ Visited' = {Start}
  BY <1>2, <1>3 DEF OnStack, Visited
<1>6. RpoTypeOK'
  BY <1>1, <1>2, <1>3, <1>4, SlotsExist DEF RpoTypeOK
<1>7. NothingBefore' /\ StackDistinct' /\ StackReaches'
  BY <1>1, <1>2, <1>3, StartAssumption, OriginIsReachable
     DEF NothingBefore, StackDistinct, StackReaches
<1>8. SlotsFilledFromTheEnd' /\ EdgesOrdered'
  <2>1. \A i \in Slots : ~(i >= blockCount')
    BY <1>3, <1>1, SlotsExist DEF Slots
  <2> QED
    BY <2>1, <1>3 DEF SlotsFilledFromTheEnd, EdgesOrdered
<1>9. Counted'
  BY <1>1, <1>3, SlotsExist, FS_EmptySet DEF Counted
<1>10. VisitedProgress'
  <2> SUFFICES ASSUME NEW b \in Visited', NEW i \in (1 .. Len(succs[b]))'
               PROVE  Pending(b, i)'
    BY DEF VisitedProgress
  <2> QED
    BY <1>1, <1>2, <1>5 DEF Pending
<1>11. VisitedReachable'
  BY <1>1, <1>5, StartAssumption, OriginIsReachable DEF VisitedReachable, Reachable
<1> QED
  BY <1>4, <1>5, <1>6, <1>7, <1>8, <1>9, <1>10, <1>11 DEF RpoInv
-----------------------------------------------------------------------------
(* Entering an unmarked successor. *)
LEMMA RpoVisitInv ==
  ASSUME RpoInv, RpoVisit
  PROVE  RpoInv'
<1> DEFINE b == SuccBlock(succs, stack)
           top == Top(stack)
<1>1. /\ stack # <<>> /\ ~LoopDone(succs, stack) /\ stack \in Seq(Frames)
      /\ marks \in Marks /\ marker \in AllMarkers /\ succs \in CFGS
      /\ succs \in [Blocks -> Seq(Blocks)]
      /\ succs' = succs /\ marker' = marker /\ blockCount' = blockCount
      /\ rpoVector' = rpoVector
      /\ stack' = Append(LoopOn(stack), Call(b))
      /\ marks' = WithMarker(marks, b, marker)
      /\ b \notin Marked /\ Walked
  BY CfgsAssumption
     DEF RpoVisit, RpoEnter, RpoInv, RpoTypeOK, Marked, MarkedBy, NothingBefore
<1>2. /\ b \in Blocks /\ b \in SuccSet(succs, top.block)
      /\ top.next \in 1 .. Len(succs[top.block])
      /\ b = succs[top.block][top.next] /\ top.block \in Blocks
  BY <1>1, SuccBlockIsSuccessor DEF SuccBlock, Frames
<1> HIDE DEF b
<1>3. Len(stack) \in Nat \ {0} /\ stack[Len(stack)] = top
  BY <1>1 DEF Top
<1>4. /\ stack' \in Seq(Frames) /\ Len(stack') = Len(stack) + 1
      /\ \A k \in 1 .. Len(stack) : stack'[k].block = stack[k].block
      /\ \A k \in 1 .. Len(stack) - 1 : stack'[k] = stack[k]
      /\ stack'[Len(stack)].next = top.next + 1
      /\ stack'[Len(stack) + 1].block = b /\ stack'[Len(stack) + 1].next = 1
  <2>1. /\ LoopOn(stack) \in Seq(Frames) /\ Len(LoopOn(stack)) = Len(stack)
        /\ \A k \in 1 .. Len(stack) : LoopOn(stack)[k].block = stack[k].block
        /\ \A k \in 1 .. Len(stack) - 1 : LoopOn(stack)[k] = stack[k]
        /\ LoopOn(stack)[Len(stack)].next = top.next + 1
    BY <1>1, <1>3, LoopOnFrames
  <2>2. /\ stack' \in Seq(Frames) /\ Len(stack') = Len(stack) + 1
        /\ \A k \in 1 .. Len(stack) : stack'[k] = LoopOn(stack)[k]
        /\ stack'[Len(stack) + 1] = Call(b)
    BY <1>1, <1>2, <2>1, PushFrames
  <2>3. Call(b).block = b /\ Call(b).next = 1
    BY DEF Call
  <2> DEFINE l == LoopOn(stack)
             c == Call(b)
  <2> HIDE DEF l, c
  <2> QED
    BY <1>3, <2>1, <2>2, <2>3 DEF l, c
<1>5. b \notin Visited /\ b \notin Finished /\ b \notin OnStack(stack)
  BY <1>1 DEF RpoInv, Visited
<1>6. /\ OnStack(stack') = OnStack(stack) \cup {b}
      /\ Finished' = Finished /\ Visited' = Visited \cup {b}
  <2>1. 1 .. Len(stack') = 1 .. Len(stack) \cup {Len(stack) + 1}
    BY <1>3, <1>4
  <2>2. OnStack(stack') = OnStack(stack) \cup {b}
    BY <2>1, <1>4 DEF OnStack
  <2>3. Finished' = Finished
    BY <1>1 DEF Finished
  <2> QED
    BY <2>2, <2>3 DEF Visited
<1>7. marks' \in Marks /\ Marked' = Visited'
  <2>1. marks' \in Marks /\ Marked' = Marked \cup {b}
    BY <1>1, <1>2, MarkingAdds DEF Marked
  <2> QED
    BY <2>1, <1>6 DEF RpoInv
<1>8. RpoTypeOK' /\ NothingBefore' /\ Counted'
  <2>1. RpoTypeOK'
    BY <1>1, <1>4, <1>7 DEF RpoInv, RpoTypeOK
  <2>2. NothingBefore'
    BY <1>1 DEF NothingBefore, Walked
  <2>3. Counted'
    BY <1>1, <1>6 DEF RpoInv, Counted, Walked
  <2> QED
    BY <2>1, <2>2, <2>3
<1>9. SlotsFilledFromTheEnd'
  BY <1>1, <1>5, <1>6 DEF RpoInv, SlotsFilledFromTheEnd
<1>10. StackDistinct'
  <2> SUFFICES ASSUME NEW k \in 1 .. Len(stack'), NEW m \in 1 .. Len(stack'),
                      stack'[k].block = stack'[m].block
               PROVE  k = m
    BY DEF StackDistinct
  <2>1. ASSUME NEW j \in 1 .. Len(stack) PROVE stack'[j].block # b
    BY <2>1, <1>4, <1>5 DEF OnStack
  <2>2. CASE k \in 1 .. Len(stack) /\ m \in 1 .. Len(stack)
    BY <2>2, <1>4 DEF RpoInv, StackDistinct
  <2> QED
    BY <2>1, <2>2, <1>3, <1>4
<1>11. StackReaches'
  <2> SUFFICES ASSUME NEW m \in 1 .. Len(stack'), NEW k \in 1 .. m
               PROVE  stack'[m].block \in ReachableAvoiding(succs, stack'[k].block, {})
    BY <1>1 DEF StackReaches
  <2>1. CASE m \in 1 .. Len(stack)
    <3>1. k \in 1 .. Len(stack)
      BY <2>1, <1>3
    <3> QED
      BY <2>1, <3>1, <1>4 DEF RpoInv, StackReaches
  <2>2. CASE m = Len(stack) + 1 /\ k = m
    BY <2>2, <1>2, <1>4, OriginIsReachable
  <2>3. CASE m = Len(stack) + 1 /\ k # m
    <3>1. k \in 1 .. Len(stack) /\ Len(stack) \in 1 .. Len(stack)
      BY <2>3, <1>3
    <3>2. top.block \in ReachableAvoiding(succs, stack[k].block, {})
      BY <3>1, <1>3 DEF RpoInv, StackReaches
    <3>3. stack[k].block \in Blocks
      <4>1. stack[k] \in Frames
        BY <3>1, <1>1
      <4> QED
        BY <4>1 DEF Frames
    <3>4. b \in ReachableAvoiding(succs, stack[k].block, {})
      BY <3>2, <3>3, <1>1, <1>2, ReachableIsClosed
    <3> QED
      BY <3>1, <3>4, <2>3, <1>4
  <2> QED
    BY <2>1, <2>2, <2>3, <1>3, <1>4
<1>12. VisitedProgress'
  <2> SUFFICES ASSUME NEW c \in Visited', NEW i \in 1 .. Len(succs[c]),
                      succs[c][i] \notin Visited'
               PROVE  Pending(c, i)'
    BY <1>1 DEF VisitedProgress
  <2>1. CASE c = b
    <3>1. Len(stack) + 1 \in 1 .. Len(stack') /\ 1 <= i
      BY <1>3, <1>4
    <3> QED
      BY <2>1, <3>1, <1>4 DEF Pending
  <2>2. CASE c # b
    <3>1. c \in Visited /\ succs[c][i] \notin Visited /\ succs[c][i] # b
      BY <2>2, <1>6
    <3>2. PICK k \in 1 .. Len(stack) : stack[k].block = c /\ stack[k].next <= i
      BY <3>1 DEF RpoInv, VisitedProgress, Pending
    <3>3. CASE k = Len(stack)
      <4>1. i # top.next
        BY <3>1, <3>2, <3>3, <1>2, <1>3
      <4> QED
        BY <4>1, <3>2, <3>3, <1>2, <1>3, <1>4 DEF Pending
    <3>4. CASE k \in 1 .. Len(stack) - 1
      BY <3>2, <3>4, <1>3, <1>4 DEF Pending
    <3> QED
      BY <3>3, <3>4, <1>3
  <2> QED
    BY <2>1, <2>2
<1>13. VisitedReachable'
  <2>1. top.block \in Visited
    BY <1>3 DEF Visited, OnStack
  <2>2. b \in Reachable(succs)
    BY <2>1, <1>1, <1>2, StartAssumption, ReachableIsClosed
       DEF RpoInv, VisitedReachable, Reachable
  <2> QED
    BY <2>2, <1>1, <1>6 DEF RpoInv, VisitedReachable
<1>14. EdgesOrdered'
  BY <1>1 DEF RpoInv, EdgesOrdered, Walked
<1> QED
  BY <1>7, <1>8, <1>9, <1>10, <1>11, <1>12, <1>13, <1>14 DEF RpoInv

(* Skipping a marked successor: it has a slot already or is on the stack,  *)
(* and then the edge closes a cycle.                                       *)
LEMMA RpoSkipInv ==
  ASSUME RpoInv, RpoSkip
  PROVE  RpoInv'
<1> DEFINE b == SuccBlock(succs, stack)
           top == Top(stack)
<1>1. /\ stack # <<>> /\ ~LoopDone(succs, stack) /\ stack \in Seq(Frames)
      /\ succs \in [Blocks -> Seq(Blocks)]
      /\ stack' = LoopOn(stack)
      /\ UNCHANGED <<succs, marks, marker, blockCount, rpoVector>>
      /\ IsMarked(marks, b, marker)
  BY CfgsAssumption DEF RpoSkip, RpoInv, RpoTypeOK
<1>2. /\ b \in Blocks
      /\ b = succs[top.block][top.next]
      /\ top.next \in 1 .. Len(succs[top.block])
  BY <1>1, SuccBlockIsSuccessor DEF SuccBlock
<1>3. b \in Visited
  BY <1>1, <1>2 DEF RpoInv, Marked, MarkedBy
<1> HIDE DEF b
<1>4. Len(stack) \in Nat \ {0} /\ stack[Len(stack)] = top
  BY <1>1 DEF Top
<1>5. /\ stack' \in Seq(Frames) /\ Len(stack') = Len(stack)
      /\ \A k \in 1 .. Len(stack) : stack'[k].block = stack[k].block
      /\ \A k \in 1 .. Len(stack) - 1 : stack'[k] = stack[k]
      /\ stack'[Len(stack)].next = top.next + 1
  BY <1>1, <1>4, LoopOnFrames
<1>6. /\ OnStack(stack') = OnStack(stack) /\ Finished' = Finished
      /\ Visited' = Visited /\ Marked' = Marked
  <2>1. OnStack(stack') = OnStack(stack)
    BY <1>4, <1>5 DEF OnStack
  <2>2. Finished' = Finished /\ Marked' = Marked
    BY <1>1 DEF Finished, Marked, MarkedBy
  <2> QED
    BY <2>1, <2>2 DEF Visited
<1>7. RpoTypeOK'
  BY <1>1, <1>5 DEF RpoInv, RpoTypeOK
<1>8. NothingBefore' /\ Counted' /\ EdgesOrdered'
  BY <1>1, <1>6 DEF RpoInv, NothingBefore, Counted, EdgesOrdered, Walked
<1>9. SlotsFilledFromTheEnd'
  BY <1>1, <1>6 DEF RpoInv, SlotsFilledFromTheEnd
<1>10. StackDistinct'
  BY <1>4, <1>5 DEF RpoInv, StackDistinct
<1>11. StackReaches'
  <2> SUFFICES ASSUME NEW m \in 1 .. Len(stack), NEW k \in 1 .. m
               PROVE  stack'[m].block \in ReachableAvoiding(succs, stack'[k].block, {})
    BY <1>1, <1>5 DEF StackReaches
  <2>1. k \in 1 .. Len(stack)
    BY <1>4
  <2> QED
    BY <2>1, <1>5 DEF RpoInv, StackReaches
<1>12. VisitedProgress'
  <2> SUFFICES ASSUME NEW c \in Visited, NEW i \in 1 .. Len(succs[c]),
                      succs[c][i] \notin Visited
               PROVE  Pending(c, i)'
    BY <1>1, <1>6 DEF VisitedProgress
  <2>1. PICK k \in 1 .. Len(stack) : stack[k].block = c /\ stack[k].next <= i
    BY DEF RpoInv, VisitedProgress, Pending
  <2>2. CASE k = Len(stack)
    <3>1. i # top.next
      BY <2>1, <2>2, <1>2, <1>3, <1>4
    <3> QED
      BY <3>1, <2>1, <2>2, <1>2, <1>4, <1>5 DEF Pending
  <2>3. CASE k \in 1 .. Len(stack) - 1
    BY <2>1, <2>3, <1>5 DEF Pending
  <2> QED
    BY <2>2, <2>3, <1>4
<1>13. VisitedReachable'
  BY <1>1, <1>6 DEF RpoInv, VisitedReachable, Walked
<1> QED
  BY <1>6, <1>7, <1>8, <1>9, <1>10, <1>11, <1>12, <1>13 DEF RpoInv

(* A block that is left takes the last free slot, in front of all its      *)
(* successors that are finished.                                           *)
LEMMA RpoFinishInv ==
  ASSUME RpoInv, RpoFinish
  PROVE  RpoInv'
<1> DEFINE top == Top(stack)
           b == Top(stack).block
           slot == blockCount - 1
<1>1. /\ stack # <<>> /\ stack \in Seq(Frames) /\ Walked
      /\ succs \in [Blocks -> Seq(Blocks)]
      /\ top.next > Len(succs[b])
      /\ blockCount \in 0 .. AliveBlockCount /\ blockCount > 0
      /\ blockCount' = slot
      /\ rpoVector' = [rpoVector EXCEPT ![slot] = b]
      /\ stack' = Pop(stack)
      /\ UNCHANGED <<succs, marks, marker>>
  BY CfgsAssumption DEF RpoFinish, RpoInv, RpoTypeOK, LoopDone, NothingBefore
<1>2. /\ Len(stack) \in Nat \ {0} /\ stack[Len(stack)] = top /\ top \in Frames
      /\ b \in Blocks /\ b # Null
  <2>1. Len(stack) \in Nat \ {0} /\ stack[Len(stack)] = top /\ top \in Frames
    BY <1>1 DEF Top
  <2>2. b \in Blocks
    BY <2>1 DEF Frames
  <2> QED
    BY <2>1, <2>2, RpoAssumption
<1>3. /\ stack' \in Seq(Frames) /\ Len(stack') = Len(stack) - 1
      /\ \A k \in 1 .. Len(stack) - 1 : stack'[k] = stack[k]
  BY <1>1, PopFrames
<1>4. /\ rpoVector \in [Slots -> Blocks \cup {Null}] /\ DOMAIN rpoVector = Slots
      /\ Finished \subseteq Blocks /\ IsFiniteSet(Finished)
      /\ Cardinality(Finished) \in Nat
  BY <1>1, VectorFacts DEF RpoInv
<1>5. /\ slot \in Slots /\ slot \in Nat /\ Slots \subseteq Int /\ AliveBlockCount \in Nat
      /\ rpoVector[slot] = Null
  <2>1. slot \in Slots /\ slot \in Nat /\ Slots \subseteq Int /\ AliveBlockCount \in Nat
    BY <1>1, SlotsExist DEF Slots
  <2> QED
    BY <2>1, <1>1 DEF RpoInv, SlotsFilledFromTheEnd, Walked
<1> HIDE DEF b, slot
<1>6. /\ rpoVector' \in [Slots -> Blocks \cup {Null}] /\ DOMAIN rpoVector' = Slots
      /\ rpoVector'[slot] = b
      /\ \A i \in Slots \ {slot} : rpoVector'[i] = rpoVector[i]
      /\ Walked'
  <2>1. rpoVector' \in [Slots -> Blocks \cup {Null}]
    BY <1>1, <1>2, <1>4, <1>5
  <2> QED
    BY <2>1, <1>1, <1>4, <1>5, SlotsExist DEF Walked
<1>7. b \in OnStack(stack) /\ b \notin Finished
  BY <1>1, <1>2 DEF OnStack, RpoInv, SlotsFilledFromTheEnd, Walked, b
<1>8. Finished' = Finished \cup {b}
  <2>1. Finished = {rpoVector[i] : i \in Slots \ {slot}} \ {Null}
    BY <1>4, <1>5 DEF Finished
  <2>2. Finished' = {rpoVector'[i] : i \in Slots} \ {Null}
    BY <1>6 DEF Finished
  <2> QED
    BY <2>1, <2>2, <1>2, <1>5, <1>6
<1>9. OnStack(stack') = OnStack(stack) \ {b}
  <2>1. ASSUME NEW k \in 1 .. Len(stack) - 1 PROVE stack[k].block # b
    BY <2>1, <1>2 DEF RpoInv, StackDistinct, b
  <2>2. 1 .. Len(stack) = 1 .. Len(stack) - 1 \cup {Len(stack)}
    BY <1>2
  <2> QED
    BY SMTT(60), <2>1, <2>2, <1>2, <1>3 DEF OnStack, b
<1>10. Visited' = Visited /\ Marked' = Marked
  BY <1>1, <1>7, <1>8, <1>9 DEF Visited, Marked, MarkedBy
<1>11. RpoTypeOK'
  <2>1. blockCount' \in 0 .. AliveBlockCount
    BY <1>1, <1>5 DEF slot
  <2> QED
    BY <2>1, <1>1, <1>3, <1>6 DEF RpoInv, RpoTypeOK
<1>12. NothingBefore'
  BY <1>6 DEF NothingBefore
<1>13. Counted'
  <2>1. Cardinality(Finished') = Cardinality(Finished) + 1
    BY <1>4, <1>7, <1>8, FS_AddElement
  <2> QED
    BY <2>1, <1>1, <1>4, <1>5 DEF RpoInv, Counted, slot
<1>14. SlotsFilledFromTheEnd'
  <2>1. ASSUME NEW i \in Slots PROVE rpoVector'[i] = Null <=> i < blockCount'
    <3>1. rpoVector[i] = Null <=> i < blockCount
      BY <1>1 DEF RpoInv, SlotsFilledFromTheEnd, Walked
    <3>2. CASE i = slot
      BY <3>2, <1>1, <1>2, <1>5, <1>6
    <3>3. CASE i # slot
      BY <3>1, <3>3, <1>1, <1>5, <1>6 DEF slot
    <3> QED
      BY <3>2, <3>3
  <2>2. ASSUME NEW i \in Slots, NEW j \in Slots,
               rpoVector'[i] = rpoVector'[j], rpoVector'[i] # Null
        PROVE  i = j
    <3>1. ASSUME NEW k \in Slots \ {slot} PROVE rpoVector'[k] # b
      BY <3>1, <1>2, <1>4, <1>6, <1>7 DEF Finished
    <3>2. CASE i # slot /\ j # slot
      BY <2>2, <3>2, <1>1, <1>6 DEF RpoInv, SlotsFilledFromTheEnd, Walked
    <3> QED
      BY <2>2, <3>1, <3>2, <1>6
  <2>3. OnStack(stack') \cap Finished' = {}
    BY <1>1, <1>8, <1>9 DEF RpoInv, SlotsFilledFromTheEnd, Walked
  <2> QED
    BY <2>1, <2>2, <2>3 DEF SlotsFilledFromTheEnd
<1>15. StackDistinct' /\ StackReaches'
  <2>1. StackDistinct'
    BY <1>2, <1>3 DEF RpoInv, StackDistinct
  <2>2. ASSUME NEW m \in 1 .. Len(stack) - 1, NEW k \in 1 .. m
        PROVE  stack'[m].block \in ReachableAvoiding(succs, stack'[k].block, {})
    <3>1. k \in 1 .. Len(stack) - 1 /\ m \in 1 .. Len(stack)
      BY <2>2, <1>2
    <3> QED
      BY <3>1, <1>3 DEF RpoInv, StackReaches
  <2> QED
    BY <2>1, <2>2, <1>1, <1>3 DEF StackReaches
<1>16. ASSUME NEW i \in 1 .. Len(succs[b]) PROVE succs[b][i] \in Visited
  <2>1. b \in Visited
    BY <1>7 DEF Visited
  <2>2. ~Pending(b, i)
    <3> SUFFICES ASSUME NEW k \in 1 .. Len(stack), stack[k].block = b,
                        stack[k].next <= i
                 PROVE  FALSE
      BY DEF Pending
    <3>1. k = Len(stack)
      BY <1>2 DEF RpoInv, StackDistinct, b
    <3>2. top.next \in Nat /\ Len(succs[b]) \in Nat
      BY <1>1, <1>2 DEF Frames
    <3> QED
      BY <3>1, <3>2, <1>1, <1>2
  <2> QED
    BY <2>1, <2>2 DEF RpoInv, VisitedProgress
<1>17. VisitedProgress'
  <2> SUFFICES ASSUME NEW c \in Visited, NEW i \in 1 .. Len(succs[c]),
                      succs[c][i] \notin Visited
               PROVE  Pending(c, i)'
    BY <1>1, <1>10 DEF VisitedProgress
  <2>1. PICK k \in 1 .. Len(stack) : stack[k].block = c /\ stack[k].next <= i
    BY DEF RpoInv, VisitedProgress, Pending
  <2>2. k # Len(stack)
    BY <2>1, <1>2, <1>16 DEF b
  <2> QED
    BY <2>1, <2>2, <1>2, <1>3 DEF Pending
<1>18. VisitedReachable'
  BY <1>1, <1>10 DEF RpoInv, VisitedReachable
<1>19. EdgesOrdered'
  <2> SUFFICES ASSUME NEW i \in Slots, i >= blockCount',
                      NEW v \in SuccSet(succs, rpoVector'[i])
               PROVE  \/ \E j \in Slots : j > i /\ rpoVector'[j] = v
                      \/ rpoVector'[i] \in ReachableAvoiding(succs, v, {})
    BY <1>1 DEF EdgesOrdered
  <2>1. CASE i = slot
    <3>1. PICK n \in 1 .. Len(succs[b]) : v = succs[b][n]
      BY <2>1, <1>6 DEF SuccSet
    <3>2. CASE v \in Finished
      <4>1. PICK j \in Slots : rpoVector[j] = v /\ v # Null
        BY <3>2, <1>4 DEF Finished
      <4>2. ~(j < blockCount)
        BY <4>1, <1>1 DEF RpoInv, SlotsFilledFromTheEnd, Walked
      <4>3. j > i /\ j # slot
        BY <4>2, <2>1, <1>1, <1>5 DEF slot
      <4> QED
        BY <4>1, <4>3, <1>6
    <3>3. CASE v \in OnStack(stack)
      <4>1. PICK k \in 1 .. Len(stack) : stack[k].block = v
        BY <3>3 DEF OnStack
      <4>2. Len(stack) \in 1 .. Len(stack) /\ k \in 1 .. Len(stack)
        BY <1>2
      <4>3. b \in ReachableAvoiding(succs, v, {})
        BY <4>1, <4>2, <1>2 DEF RpoInv, StackReaches, b
      <4> QED
        BY <4>3, <2>1, <1>6
    <3> QED
      BY <3>1, <3>2, <3>3, <1>16 DEF Visited
  <2>2. CASE i # slot
    <3>1. i >= blockCount /\ rpoVector'[i] = rpoVector[i]
      BY <2>2, <1>1, <1>5, <1>6 DEF slot
    <3>2. \/ \E j \in Slots : j > i /\ rpoVector[j] = v
          \/ rpoVector[i] \in ReachableAvoiding(succs, v, {})
      BY <3>1, <1>1 DEF RpoInv, EdgesOrdered, Walked
    <3>3. ASSUME NEW j \in Slots, j > i PROVE rpoVector'[j] = rpoVector[j]
      BY <3>3, <3>1, <1>1, <1>5, <1>6 DEF slot
    <3> QED
      BY <3>1, <3>2, <3>3
  <2> QED
    BY <2>1, <2>2
<1> QED
  BY <1>10, <1>11, <1>12, <1>13, <1>14, <1>15, <1>17, <1>18, <1>19 DEF RpoInv

(* Every step of the walk keeps the invariant. *)
LEMMA RpoInvNext == RpoInv /\ [RpoNext]_rpoVars => RpoInv'
<1> SUFFICES ASSUME RpoInv, [RpoNext]_rpoVars PROVE RpoInv'
  OBVIOUS
<1>1. CASE UNCHANGED rpoVars
  BY <1>1 DEF rpoVars, RpoInv, RpoTypeOK, NothingBefore, SlotsFilledFromTheEnd, Counted,
              StackDistinct, StackReaches, VisitedProgress, VisitedReachable, EdgesOrdered,
              Walked, Visited, Finished, Marked, MarkedBy, Pending
<1>2. CASE RpoNext
  BY <1>2, RpoRunInv, RpoVisitInv, RpoSkipInv, RpoFinishInv DEF RpoNext, RpoStep
<1> QED
  BY <1>1, <1>2

(* The invariant holds in every behaviour of the walk. *)
THEOREM RpoInvariant == RpoSpec => []RpoInv
<1>1. RpoInit => RpoInv
  BY RpoInvInit
<1>2. RpoInv /\ [RpoNext]_rpoVars => RpoInv'
  BY RpoInvNext
<1> QED
  BY <1>1, <1>2, PTL DEF RpoSpec

(* A block takes one slot, after its own visit, and the slots fill from    *)
(* the end of the vector.                                                  *)
THEOREM RpoFillsSlots == RpoSpec => []SlotsFilledFromTheEnd
<1>1. RpoInv => SlotsFilledFromTheEnd
  BY DEF RpoInv
<1> QED
  BY <1>1, RpoInvariant, PTL
-----------------------------------------------------------------------------
(* Were no slot left, every block would have its slot, the one at the top  *)
(* of the stack included.                                                  *)
LEMMA RpoInvKeepsASlot == RpoInv => RpoAssertHolds
<1> SUFFICES ASSUME RpoInv, stack # <<>>, blockCount = 0 PROVE FALSE
  BY DEF RpoAssertHolds, RpoAssertFails
<1>1. Walked /\ stack \in Seq(Frames)
  BY DEF RpoInv, NothingBefore, RpoTypeOK
<1>2. Len(stack) \in 1 .. Len(stack) /\ stack[Len(stack)] \in Frames
  BY <1>1
<1> DEFINE b == stack[Len(stack)].block
<1>3. b \in Blocks /\ b \in OnStack(stack)
  BY <1>2 DEF Frames, OnStack
<1>4. b \notin Finished
  BY <1>1, <1>3 DEF RpoInv, SlotsFilledFromTheEnd, Walked
<1>5. Finished \subseteq Blocks
  BY <1>1, VectorFacts DEF RpoInv
<1>6. Cardinality(Finished) = AliveBlockCount
  BY <1>1, SlotsExist DEF RpoInv, Counted
<1>7. Finished = Blocks
  BY <1>5, <1>6, RpoAssumption, FS_Subset DEF AliveBlockCount
<1> QED
  BY <1>3, <1>4, <1>7

(* The assertion blockCount > 0 never fails. *)
THEOREM RpoAssertion == RpoSpec => []RpoAssertHolds
BY RpoInvKeepsASlot, RpoInvariant, PTL

(* When no activation is left, the finished blocks are closed under        *)
(* successors; and nothing else can be reached.                            *)
LEMMA RpoInvIsCorrect == RpoInv => RpoCorrect
<1> SUFFICES ASSUME RpoInv, stack = <<>>, Walked PROVE Finished = Reachable(succs)
  BY DEF RpoCorrect, RpoDone, Walked
<1>1. Visited = Finished /\ Finished \subseteq Blocks /\ Start \in Finished
  BY VectorFacts DEF RpoInv, Visited, OnStack, VisitedReachable
<1>2. ClosedAvoiding(succs, {}, Finished)
  <2> SUFFICES ASSUME NEW b \in Finished, NEW i \in 1 .. Len(succs[b])
               PROVE  succs[b][i] \in Finished
    BY DEF ClosedAvoiding, SuccSet
  <2>1. ~Pending(b, i)
    BY DEF Pending
  <2> QED
    BY <2>1, <1>1 DEF RpoInv, VisitedProgress
<1>3. Reachable(succs) \subseteq Finished
  BY <1>1, <1>2, ReachableIsLeast DEF Reachable
<1> QED
  BY <1>1, <1>3 DEF RpoInv, VisitedReachable

(* The walk gives a slot to the reachable blocks and to no other. *)
THEOREM RpoFindsReachable == RpoSpec => []RpoCorrect
BY RpoInvIsCorrect, RpoInvariant, PTL

(* In a finished walk EdgesOrdered says of every edge what                 *)
(* BackwardEdgesCloseCycles asks, since no block is on the stack.          *)
LEMMA RpoInvOrders == RpoInv => BackwardEdgesCloseCycles
<1> SUFFICES ASSUME RpoInv, Walked,
                    NEW u \in Finished, NEW v \in SuccSet(succs, u),
                    Position(v) <= Position(u)
             PROVE  u \in ReachableAvoiding(succs, v, {})
  BY DEF BackwardEdgesCloseCycles, RpoDone, Walked
<1>1. DOMAIN rpoVector = Slots /\ Slots \subseteq Nat
  BY VectorFacts, SlotsExist DEF RpoInv
<1>2. PICK i \in Slots : rpoVector[i] = u /\ u # Null
  BY <1>1 DEF Finished
<1>3. Position(u) = i
  <2>1. Position(u) \in Slots /\ rpoVector[Position(u)] = u
    BY <1>2 DEF Position
  <2> QED
    BY <2>1, <1>2 DEF RpoInv, SlotsFilledFromTheEnd, Walked
<1>4. ~(i < blockCount)
  BY <1>2 DEF RpoInv, SlotsFilledFromTheEnd, Walked
<1>5. i >= blockCount
  BY <1>1, <1>4 DEF RpoInv, RpoTypeOK
<1>6. CASE \E j \in Slots : j > i /\ rpoVector[j] = v
  <2>1. PICK j \in Slots : j > i /\ rpoVector[j] = v
    BY <1>6
  <2>2. Position(v) \in Slots /\ rpoVector[Position(v)] = v
    BY <2>1 DEF Position
  <2>3. v # Null
    <3>1. ~(j < blockCount)
      BY <2>1, <1>1, <1>5 DEF RpoInv, RpoTypeOK
    <3> QED
      BY <3>1, <2>1 DEF RpoInv, SlotsFilledFromTheEnd, Walked
  <2>4. Position(v) = j
    BY <2>1, <2>2, <2>3 DEF RpoInv, SlotsFilledFromTheEnd, Walked
  <2> QED
    BY <2>1, <2>4, <1>1, <1>3
<1> QED
  BY <1>2, <1>5, <1>6 DEF RpoInv, EdgesOrdered

(* A block precedes its successors unless the edge closes a cycle. *)
THEOREM RpoOrders == RpoSpec => []BackwardEdgesCloseCycles
BY RpoInvOrders, RpoInvariant, PTL
-----------------------------------------------------------------------------
(* Why a block has something in front of it: the activations form a path   *)
(* from the start block, and a block is finished before the one that       *)
(* called for it.                                                          *)
CallsFollowEdges ==
  /\ stack # <<>> => stack[1].block = Start
  /\ \A k \in 1 .. Len(stack) - 1 :
       stack[k + 1].block \in SuccSet(succs, stack[k].block)

(* The block in the i-th slot was called for from a block that is still    *)
(* being visited or has a slot further in front.                           *)
CallerKnown(i) ==
  \E u \in Blocks :
    /\ rpoVector[i] \in SuccSet(succs, u)
    /\ u \in OnStack(stack) \/ \E j \in Slots : blockCount <= j /\ j < i /\ rpoVector[j] = u

(* Every slot but that of the start block has such a caller. *)
CallersAhead ==
  Walked => \A i \in Slots : i >= blockCount /\ rpoVector[i] # Start => CallerKnown(i)

(* What is kept besides RpoInv. *)
CallersInv == CallsFollowEdges /\ CallersAhead

(* A walk that has not begun has called for no block. *)
LEMMA CallersInit == RpoInit => CallersInv
<1> SUFFICES ASSUME RpoInit PROVE CallersInv
  OBVIOUS
<1>1. stack = <<>> /\ rpoVector = <<>>
  BY DEF RpoInit
<1> QED
  BY <1>1 DEF CallersInv, CallsFollowEdges, CallersAhead, Walked

(* RPO::Run calls for the start block. *)
LEMMA CallersRun ==
  ASSUME RpoInv, RpoRun
  PROVE  CallersInv'
<1>1. /\ stack' = <<Call(Start)>> /\ Call(Start).block = Start
      /\ blockCount' = AliveBlockCount
  BY DEF RpoRun, RpoIdle, RpoEnter, Call
<1>2. \A i \in Slots : ~(i >= blockCount')
  BY <1>1, SlotsExist DEF Slots
<1> QED
  BY <1>1, <1>2 DEF CallersInv, CallsFollowEdges, CallersAhead

(* A call for a successor makes the path longer. *)
LEMMA CallersVisit ==
  ASSUME RpoInv, CallersInv, RpoVisit
  PROVE  CallersInv'
<1> DEFINE b == SuccBlock(succs, stack)
<1>1. /\ stack # <<>> /\ ~LoopDone(succs, stack) /\ stack \in Seq(Frames)
      /\ succs \in [Blocks -> Seq(Blocks)]
      /\ succs' = succs /\ blockCount' = blockCount /\ rpoVector' = rpoVector
      /\ stack' = Append(LoopOn(stack), Call(b))
  BY CfgsAssumption DEF RpoVisit, RpoEnter, RpoInv, RpoTypeOK
<1>2. /\ b \in Blocks /\ b \in SuccSet(succs, Top(stack).block)
      /\ Len(stack) \in Nat \ {0} /\ stack[Len(stack)] = Top(stack)
  BY <1>1, SuccBlockIsSuccessor DEF Top
<1> HIDE DEF b
<1>3. /\ Len(stack') = Len(stack) + 1
      /\ \A k \in 1 .. Len(stack) : stack'[k].block = stack[k].block
      /\ stack'[Len(stack) + 1].block = b
  <2>1. /\ LoopOn(stack) \in Seq(Frames) /\ Len(LoopOn(stack)) = Len(stack)
        /\ \A k \in 1 .. Len(stack) : LoopOn(stack)[k].block = stack[k].block
    BY <1>1, LoopOnFrames
  <2>2. /\ Len(stack') = Len(stack) + 1
        /\ \A k \in 1 .. Len(stack) : stack'[k] = LoopOn(stack)[k]
        /\ stack'[Len(stack) + 1] = Call(b)
    BY <1>1, <1>2, <2>1, PushFrames
  <2> QED
    BY <1>2, <2>1, <2>2 DEF Call
<1>4. CallsFollowEdges'
  <2>1. stack'[1].block = Start
    BY <1>1, <1>2, <1>3 DEF CallersInv, CallsFollowEdges
  <2>2. ASSUME NEW k \in 1 .. Len(stack') - 1
        PROVE  stack'[k + 1].block \in SuccSet(succs, stack'[k].block)
    <3>1. CASE k = Len(stack)
      BY <3>1, <1>2, <1>3
    <3>2. CASE k \in 1 .. Len(stack) - 1
      <4>1. k \in 1 .. Len(stack) /\ k + 1 \in 1 .. Len(stack)
        BY <3>2, <1>2
      <4> QED
        BY <4>1, <3>2, <1>3 DEF CallersInv, CallsFollowEdges
    <3> QED
      BY <3>1, <3>2, <1>2, <1>3
  <2> QED
    BY <2>1, <2>2, <1>1 DEF CallsFollowEdges
<1>5. OnStack(stack) \subseteq OnStack(stack')
  <2>1. 1 .. Len(stack) \subseteq 1 .. Len(stack')
    BY <1>2, <1>3
  <2> QED
    BY <2>1, <1>3 DEF OnStack
<1> QED
  BY <1>1, <1>4, <1>5 DEF CallersInv, CallersAhead, CallerKnown, Walked

(* The next iteration of a loop calls for nothing. *)
LEMMA CallersSkip ==
  ASSUME RpoInv, CallersInv, RpoSkip
  PROVE  CallersInv'
<1>1. /\ stack # <<>> /\ stack \in Seq(Frames) /\ stack' = LoopOn(stack)
      /\ UNCHANGED <<succs, blockCount, rpoVector>>
  BY DEF RpoSkip, RpoInv, RpoTypeOK
<1>2. /\ Len(stack) \in Nat \ {0} /\ Len(stack') = Len(stack)
      /\ \A k \in 1 .. Len(stack) : stack'[k].block = stack[k].block
  BY <1>1, LoopOnFrames
<1>3. CallsFollowEdges'
  <2>1. ASSUME NEW k \in 1 .. Len(stack) - 1
        PROVE  stack'[k + 1].block \in SuccSet(succs, stack'[k].block)
    <3>1. k \in 1 .. Len(stack) /\ k + 1 \in 1 .. Len(stack)
      BY <1>2
    <3> QED
      BY <3>1, <1>2 DEF CallersInv, CallsFollowEdges
  <2> QED
    BY <2>1, <1>1, <1>2 DEF CallersInv, CallsFollowEdges
<1>4. OnStack(stack') = OnStack(stack)
  BY <1>2 DEF OnStack
<1> QED
  BY <1>1, <1>3, <1>4 DEF CallersInv, CallersAhead, CallerKnown, Walked

(* A finished block has its caller left on the stack; the blocks it called *)
(* for find it in a slot in front of theirs.                               *)
LEMMA CallersFinish ==
  ASSUME RpoInv, CallersInv, RpoFinish
  PROVE  CallersInv'
<1> DEFINE b == Top(stack).block
<1>0. /\ blockCount \in 0 .. AliveBlockCount /\ blockCount > 0
      /\ Slots \subseteq Int /\ AliveBlockCount \in Nat
  BY SlotsExist DEF RpoFinish, RpoInv, RpoTypeOK, Slots
<1> PICK slot \in Slots : slot = blockCount - 1
  BY <1>0, SlotsExist DEF Slots
<1>1. /\ stack # <<>> /\ stack \in Seq(Frames) /\ Walked
      /\ blockCount' = slot
      /\ rpoVector' = [rpoVector EXCEPT ![slot] = b]
      /\ stack' = Pop(stack) /\ succs' = succs
      /\ DOMAIN rpoVector = Slots
  BY VectorFacts DEF RpoFinish, RpoInv, RpoTypeOK, NothingBefore
<1>2. /\ Len(stack) \in Nat \ {0} /\ stack[Len(stack)].block = b
      /\ \A k \in 1 .. Len(stack) : stack[k].block \in Blocks
  <2>1. \A k \in 1 .. Len(stack) : stack[k] \in Frames
    BY <1>1
  <2> QED
    BY <2>1, <1>1 DEF Top, Frames
<1>3. /\ Len(stack') = Len(stack) - 1
      /\ \A k \in 1 .. Len(stack) - 1 : stack'[k] = stack[k]
  BY <1>1, PopFrames
<1> HIDE DEF b
<1>5. rpoVector'[slot] = b /\ \A i \in Slots \ {slot} : rpoVector'[i] = rpoVector[i]
  BY <1>1, <1>0
<1>6. CallsFollowEdges'
  <2>1. ASSUME NEW k \in 1 .. Len(stack') - 1
        PROVE  stack'[k + 1].block \in SuccSet(succs, stack'[k].block)
    <3>1. k \in 1 .. Len(stack) - 1 /\ k + 1 \in 1 .. Len(stack) - 1
      BY <1>2, <1>3
    <3> QED
      BY <3>1, <1>3 DEF CallersInv, CallsFollowEdges
  <2>2. stack' # <<>> => stack'[1].block = Start
    BY <1>1, <1>2, <1>3 DEF CallersInv, CallsFollowEdges, Pop
  <2> QED
    BY <2>1, <2>2, <1>1 DEF CallsFollowEdges
<1>7. OnStack(stack) \subseteq OnStack(stack') \cup {b}
  <2>1. ASSUME NEW k \in 1 .. Len(stack)
        PROVE  stack[k].block \in OnStack(stack') \cup {b}
    <3>1. CASE k = Len(stack)
      BY <3>1, <1>2
    <3>2. CASE k \in 1 .. Len(stack) - 1
      BY <3>2, <1>2, <1>3 DEF OnStack
    <3> QED
      BY <3>1, <3>2, <1>2
  <2> QED
    BY <2>1 DEF OnStack
<1>8. ASSUME b # Start PROVE CallerKnown(slot)'
  <2>1. Len(stack) # 1
    BY <1>8, <1>1, <1>2 DEF CallersInv, CallsFollowEdges
  <2> DEFINE k == Len(stack) - 1
  <2>2. k \in 1 .. Len(stack) /\ k \in 1 .. Len(stack') /\ k + 1 = Len(stack)
    BY <2>1, <1>2, <1>3
  <2>3. b \in SuccSet(succs, stack[k].block)
    BY <2>2, <1>2, <1>3 DEF CallersInv, CallsFollowEdges
  <2>4. stack[k].block \in OnStack(stack') /\ stack[k].block \in Blocks
    BY <2>2, <1>2, <1>3 DEF OnStack
  <2> QED
    BY <2>3, <2>4, <1>1, <1>5 DEF CallerKnown
<1>9. ASSUME NEW i \in Slots, i >= blockCount, rpoVector[i] # Start
      PROVE  CallerKnown(i)'
  <2>1. i # slot /\ slot < i /\ i \in Int /\ rpoVector'[i] = rpoVector[i]
    BY <1>9, <1>1, <1>0, <1>5
  <2>2. PICK u \in Blocks :
          /\ rpoVector[i] \in SuccSet(succs, u)
          /\ \/ u \in OnStack(stack)
             \/ \E j \in Slots : blockCount <= j /\ j < i /\ rpoVector[j] = u
    BY <1>9, <1>1 DEF CallersInv, CallersAhead, CallerKnown
  <2>3. CASE \E j \in Slots : blockCount <= j /\ j < i /\ rpoVector[j] = u
    <3>1. PICK j \in Slots : blockCount <= j /\ j < i /\ rpoVector[j] = u
      BY <2>3
    <3>2. j # slot /\ slot <= j /\ rpoVector'[j] = u
      BY <3>1, <1>1, <1>0, <1>5
    <3> QED
      BY <3>1, <3>2, <2>1, <2>2, <1>1 DEF CallerKnown
  <2>4. CASE u \in OnStack(stack')
    BY <2>4, <2>1, <2>2, <1>1 DEF CallerKnown
  <2>5. CASE u = b
    BY <2>5, <2>1, <2>2, <1>1, <1>0, <1>5 DEF CallerKnown
  <2> QED
    BY <2>2, <2>3, <2>4, <2>5, <1>7
<1>10. CallersAhead'
  <2> SUFFICES ASSUME NEW i \in Slots, i >= blockCount', rpoVector'[i] # Start
               PROVE  CallerKnown(i)'
    BY DEF CallersAhead
  <2>1. CASE i = slot
    BY <2>1, <1>5, <1>8
  <2>2. CASE i # slot
    BY <2>2, <1>1, <1>0, <1>5, <1>9
  <2> QED
    BY <2>1, <2>2
<1> QED
  BY <1>6, <1>10 DEF CallersInv

(* Every step of the walk keeps the callers in front. *)
LEMMA CallersNext == RpoInv /\ CallersInv /\ RpoNext => CallersInv'
BY CallersRun, CallersVisit, CallersSkip, CallersFinish DEF RpoNext, RpoStep

(* When the walk is over and every block was found, the slots are a list   *)
(* of the blocks that begins with the start block and in which every other *)
(* block has a predecessor in front of it; when a block was not found, the *)
(* first slot is empty.                                                    *)
LEMMA RpoListsBlocks ==
  ASSUME RpoInv, CallersInv, RpoDone
  PROVE  /\ Finished = Reachable(succs)
         /\ rpoVector \in [Slots -> Blocks \cup {Null}]
         /\ \A i, j \in Slots :
              rpoVector[i] = rpoVector[j] /\ rpoVector[i] # Null => i = j
         /\ Finished # Blocks => rpoVector[0] = Null
         /\ Finished = Blocks =>
              /\ \A i \in Slots : rpoVector[i] # Null
              /\ rpoVector[0] = Start
              /\ \A i \in Slots \ {0} : \E j \in Slots :
                   j < i /\ rpoVector[i] \in SuccSet(succs, rpoVector[j])
<1>1. Walked /\ stack = <<>>
  BY DEF RpoDone, Walked
<1>2. /\ rpoVector \in [Slots -> Blocks \cup {Null}] /\ DOMAIN rpoVector = Slots
      /\ Finished \subseteq Blocks /\ IsFiniteSet(Finished)
      /\ Cardinality(Finished) \in Nat
  BY <1>1, VectorFacts DEF RpoInv
<1>3. /\ \A i \in Slots : rpoVector[i] = Null <=> i < blockCount
      /\ \A i, j \in Slots :
           rpoVector[i] = rpoVector[j] /\ rpoVector[i] # Null => i = j
  BY <1>1 DEF RpoInv, SlotsFilledFromTheEnd, Walked
<1>4. /\ blockCount \in 0 .. AliveBlockCount /\ AliveBlockCount \in Nat
      /\ 0 \in Slots /\ Slots \subseteq Nat
      /\ Cardinality(Finished) = AliveBlockCount - blockCount
  BY <1>1, SlotsExist DEF RpoInv, RpoTypeOK, Counted
<1>5. ASSUME Finished # Blocks PROVE rpoVector[0] = Null
  <2>1. Cardinality(Finished) # Cardinality(Blocks)
    BY <1>2, <1>5, RpoAssumption, FS_Subset
  <2> QED
    BY <2>1, <1>3, <1>4 DEF AliveBlockCount
<1>6. ASSUME Finished = Blocks
      PROVE  /\ \A i \in Slots : rpoVector[i] # Null
             /\ rpoVector[0] = Start
             /\ \A i \in Slots \ {0} : \E j \in Slots :
                  j < i /\ rpoVector[i] \in SuccSet(succs, rpoVector[j])
  <2>1. blockCount = 0
    BY <1>4, <1>6 DEF AliveBlockCount
  <2>2. \A i \in Slots : rpoVector[i] # Null
    BY <2>1, <1>3, <1>4
  <2>3. ASSUME NEW i \in Slots, rpoVector[i] # Start
        PROVE  \E j \in Slots : j < i /\ rpoVector[i] \in SuccSet(succs, rpoVector[j])
    <3>1. OnStack(stack) = {}
      BY <1>1 DEF OnStack
    <3>2. CallerKnown(i)
      BY <2>1, <2>3, <1>1, <1>4 DEF CallersInv, CallersAhead
    <3> QED
      BY <3>1, <3>2 DEF CallerKnown
  <2>4. rpoVector[0] = Start
    BY <2>3, <1>4
  <2>5. \A i \in Slots \ {0} : rpoVector[i] # Start
    BY <2>2, <2>4, <1>3, <1>4
  <2> QED
    BY <2>2, <2>3, <2>4, <2>5
<1>7. Finished = Reachable(succs)
  BY RpoInvIsCorrect DEF RpoCorrect
<1> QED
  BY <1>2, <1>3, <1>5, <1>6, <1>7
=============================================================================
