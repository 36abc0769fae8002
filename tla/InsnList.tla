------------------------------ MODULE InsnList ------------------------------
(***************************************************************************)
(* The instructions of a basic block (ir/basic_block.{h,cpp}): a doubly    *)
(* linked list threaded through Instruction::next_ and prev_, and          *)
(* EnumerateInsns, which walks it while the callback of an optimisation    *)
(* inserts and removes instructions.                                       *)
(*                                                                         *)
(* An instruction enters a block once, fresh from Graph::CreateInsn, and   *)
(* is never put back after it was removed.  A removed instruction keeps    *)
(* its own pointers.  BasicBlock::Remove also takes the instruction out of *)
(* its inputs' users, which DefUse.tla models.                             *)
(***************************************************************************)
EXTENDS SequencesExt

CONSTANTS Instrs,  \* the instructions of a graph
          Null     \* a null Instruction pointer

ASSUME InsnsAssumption == Null \notin Instrs

VARIABLES
  firstInsn, lastInsn,   \* BasicBlock::firstInsn_ and lastInsn_
  next, prev,            \* Instruction::next_ and prev_
  fresh,      \* the instructions that have not been put into the block
  crashed,    \* a null pointer was dereferenced
  running,    \* EnumerateInsns is under way, in a call of the callback ...
  currInsn,   \* ... for this instruction,
  nextInsn,   \* having saved the one behind it
  order,      \* history: the instructions of the block in order
  pending     \* history: what the enumeration has still to visit

pointers == <<firstInsn, lastInsn, next, prev>>
walk == <<running, currInsn, nextInsn>>
listVars == <<pointers, fresh, crashed, order, walk, pending>>

(* Where an instruction is in the block, 0 for Null. *)
IndexIn(s, i) == IF i = Null THEN 0 ELSE CHOOSE k \in 1 .. Len(s) : s[k] = i

At(s, k) == IF k \in 1 .. Len(s) THEN s[k] ELSE Null

InBlock == {order[k] : k \in 1 .. Len(order)}

(* The pointers of the block after an insertion behind the last one. *)
PushInstruction(i) ==
  /\ lastInsn' = i
  /\ \/ /\ firstInsn = Null
        /\ firstInsn' = i
        /\ UNCHANGED <<next, prev>>
     \/ /\ firstInsn # Null
        /\ next' = [next EXCEPT ![lastInsn] = i]
        /\ prev' = [prev EXCEPT ![i] = lastInsn]
        /\ UNCHANGED firstInsn

InsertFirst(i) ==
  /\ prev' = [prev EXCEPT ![firstInsn] = i, ![i] = Null]
  /\ next' = [next EXCEPT ![i] = firstInsn]
  /\ firstInsn' = i
  /\ UNCHANGED lastInsn

(* Mutant: the instruction behind is not told of the new one. *)
InsertBetweenOneWay(p, i) ==
  /\ prev' = [prev EXCEPT ![i] = p]
  /\ next' = [next EXCEPT ![i] = next[p], ![p] = i]
  /\ UNCHANGED <<firstInsn, lastInsn>>

InsertBetween(p, i) ==
  /\ prev' = [prev EXCEPT ![next[p]] = i, ![i] = p]
  /\ next' = [next EXCEPT ![i] = next[p], ![p] = i]
  /\ UNCHANGED <<firstInsn, lastInsn>>

(* Behind p, or in front of all when p is Null. *)
Insert(p, i) ==
  \/ p = lastInsn /\ PushInstruction(i)
  \/ p # lastInsn /\ p = Null /\ InsertFirst(i)
  \/ p # lastInsn /\ p # Null /\ InsertBetween(p, i)

RemoveFirstInsn(i) ==
  /\ firstInsn' = next[i]
  /\ prev' = [prev EXCEPT ![next[i]] = Null]
  /\ UNCHANGED <<lastInsn, next>>

RemoveLastInsn(i) ==
  /\ lastInsn' = prev[i]
  /\ next' = [next EXCEPT ![prev[i]] = Null]
  /\ UNCHANGED <<firstInsn, prev>>

RemoveMiddle(i) ==
  /\ next' = [next EXCEPT ![prev[i]] = next[i]]
  /\ prev' = [prev EXCEPT ![next[i]] = prev[i]]
  /\ UNCHANGED <<firstInsn, lastInsn>>

Unlink(i) ==
  \/ i = firstInsn /\ RemoveFirstInsn(i)
  \/ i # firstInsn /\ i = lastInsn /\ RemoveLastInsn(i)
  \/ i # firstInsn /\ i # lastInsn /\ RemoveMiddle(i)

(* Mutant: the last instruction is not treated apart. *)
LastDereferenced(i) == next[i] = Null

(* Remove sets the prev_ of the instruction behind the first one, which is *)
(* null when it is the only one.                                           *)
NullDereferenced(i) == i = firstInsn /\ next[i] = Null

-----------------------------------------------------------------------------
ListInit ==
  /\ firstInsn = Null /\ lastInsn = Null
  /\ next = [i \in Instrs |-> Null] /\ prev = [i \in Instrs |-> Null]
  /\ fresh = Instrs
  /\ crashed = FALSE
  /\ running = FALSE /\ currInsn = Null /\ nextInsn = Null
  /\ order = <<>> /\ pending = {}

(* A fresh instruction comes behind p in the block. *)
Inserted(p, i) ==
  /\ fresh' = fresh \ {i}
  /\ order' = InsertAt(order, IndexIn(order, p) + 1, i)
  /\ UNCHANGED <<crashed, walk, pending>>

(* IrBuilder::CreateInstruction. *)
BuildInsn(i) ==
  /\ ~crashed /\ ~running
  /\ PushInstruction(i) /\ Inserted(lastInsn, i)

(* During an enumeration the optimisations insert next to the current      *)
(* instruction: Peepholes::VisitAshr behind it, CreateNewInsnInsteadOfInsn *)
(* in front of it.                                                         *)
InsertPlaces ==
  IF ~running THEN InBlock \cup {Null}
  ELSE IF currInsn \in InBlock THEN {currInsn, prev[currInsn]} ELSE {}

InsertInsn(p, i) ==
  /\ ~crashed
  /\ p \in InsertPlaces
  /\ Insert(p, i) /\ Inserted(p, i)

(* During an enumeration they remove the current instruction (VisitAshr,   *)
(* VisitOr, CreateNewInsnInsteadOfInsn) or a check of the reference it     *)
(* produces (CheckElimination).  The latter is dominated by another check  *)
(* of it, and so not the instruction right behind the current one.         *)
Removable == InBlock \ (IF running THEN {nextInsn} ELSE {})

RemoveInsn(i) ==
  /\ ~crashed
  /\ ~NullDereferenced(i)
  /\ Unlink(i)
  /\ order' = RemoveAt(order, IndexIn(order, i))
  /\ pending' = pending \ {i}
  /\ UNCHANGED <<fresh, crashed, walk>>

RemoveCrashes(i) ==
  /\ ~crashed
  /\ NullDereferenced(i)
  /\ crashed' = TRUE
  /\ UNCHANGED <<pointers, fresh, order, walk, pending>>
-----------------------------------------------------------------------------
(* EnumerateInsns.  An iteration saves the instruction behind the current  *)
(* one, calls the callback, and goes on with the one it saved.             *)
CallbackFor(i) ==
  /\ currInsn' = i
  /\ nextInsn' = next[i]
  /\ UNCHANGED <<pointers, fresh, crashed, order>>

Enumerate ==
  /\ ~crashed /\ ~running /\ firstInsn # Null
  /\ running' = TRUE
  /\ pending' = InBlock \ {firstInsn}
  /\ CallbackFor(firstInsn)

(* Mutant: the instruction behind is looked up after the callback. *)
NextLookedUpLate ==
  /\ ~crashed /\ running /\ next[currInsn] # Null
  /\ pending' = pending \ {next[currInsn]}
  /\ CallbackFor(next[currInsn])
  /\ UNCHANGED running

(* Mutant: the loop does not move on. *)
NextInsnStays ==
  /\ ~crashed /\ running /\ nextInsn # Null
  /\ UNCHANGED listVars

NextInsn ==
  /\ ~crashed /\ running /\ nextInsn # Null
  /\ pending' = pending \ {nextInsn}
  /\ CallbackFor(nextInsn)
  /\ UNCHANGED running

EnumerationEnd ==
  /\ ~crashed /\ running /\ nextInsn = Null
  /\ running' = FALSE /\ currInsn' = Null /\ nextInsn' = Null
  /\ UNCHANGED <<pointers, fresh, crashed, order, pending>>

(* The callback returns true. *)
EnumerationStopped ==
  /\ ~crashed /\ running
  /\ running' = FALSE /\ currInsn' = Null /\ nextInsn' = Null
  /\ pending' = {}
  /\ UNCHANGED <<pointers, fresh, crashed, order>>

ListNext ==
  \/ \E i \in fresh : BuildInsn(i) \/ \E p \in InsertPlaces : InsertInsn(p, i)
  \/ \E i \in Removable : RemoveInsn(i) \/ RemoveCrashes(i)
  \/ Enumerate \/ NextInsn \/ EnumerationEnd \/ EnumerationStopped

ListSpec == ListInit /\ [][ListNext]_listVars

(* A callback inserts and removes an instruction at most and returns. *)
ListFairSpec == ListSpec /\ WF_listVars(NextInsn \/ EnumerationEnd)
-----------------------------------------------------------------------------
ListTypeOK ==
  /\ firstInsn \in Instrs \cup {Null} /\ lastInsn \in Instrs \cup {Null}
  /\ next \in [Instrs -> Instrs \cup {Null}] /\ prev \in [Instrs -> Instrs \cup {Null}]
  /\ fresh \subseteq Instrs
  /\ crashed \in BOOLEAN /\ running \in BOOLEAN
  /\ currInsn \in Instrs \cup {Null} /\ nextInsn \in Instrs \cup {Null}
  /\ order \in Seq(Instrs)
  /\ pending \subseteq Instrs

(* The pointers of the block and of its instructions agree, in both        *)
(* directions, with the order in which instructions were put into it, and  *)
(* no instruction is in it twice.                                          *)
LinksFollowOrder ==
  /\ firstInsn = At(order, 1) /\ lastInsn = At(order, Len(order))
  /\ \A k \in 1 .. Len(order) :
       next[order[k]] = At(order, k + 1) /\ prev[order[k]] = At(order, k - 1)
  /\ \A j, k \in 1 .. Len(order) : order[j] = order[k] => j = k

(* Whatever the callback inserts and removes, the enumeration has yet to   *)
(* visit exactly the instructions from the saved one to the end of the     *)
(* block: it visits none that has been removed, none twice, and when it    *)
(* ends it has left out none.                                              *)
EnumerationOnTrack ==
  running =>
    \E n \in 1 .. Len(order) + 1 :
      nextInsn = At(order, n) /\ pending = {order[k] : k \in n .. Len(order)}

(* Remove fails on the only instruction of a block, and on no other. *)
CrashOnlyOnTheLastOne == crashed => Len(order) = 1

(* An enumeration ends, unless the callback crashed or stopped it. *)
EnumerationEnds == running ~> (~running \/ crashed)
=============================================================================
