-------------------------- MODULE CheckElimination --------------------------
(***************************************************************************)
(* CheckElimination (optimizations/check_elimination.cpp): of the null and *)
(* bounds checks of a reference, those that the first of them dominates    *)
(* are replaced by it and removed.                                         *)
(*                                                                         *)
(* A program is built instruction by instruction and then optimised.  What *)
(* DominatorTree::Build computes, the order of the blocks and what they    *)
(* dominate, is given (DominatorTree.tla); a block is the sequence of its  *)
(* instructions (InsnList.tla); ReplaceInputsForUsers is a single step     *)
(* (DefUse.tla).  Of the inputs those are kept that are references or      *)
(* checks; indexes and limits are plain values.  The branch, jump or       *)
(* return with which a block ends, and phis, are left out.                 *)
(***************************************************************************)
EXTENDS Users, FiniteSets

CONSTANTS MAX_INSNS,    \* bound: how many instructions are created
          MAX_REFS,     \* bound: how many of them are references, and
          MAX_OTHERS,   \* how many neither references nor checks
          Blocks,
          RpoVector,    \* Graph::rpoVector_
          Dominances,   \* relations between the blocks: the first strictly
                        \* dominates the second
          Values        \* the indexes and limits of bounds checks

ASSUME ProgramAssumption ==
  /\ {MAX_INSNS, MAX_REFS, MAX_OTHERS} \subseteq Nat
  /\ RpoVector \in Seq(Blocks)
  /\ Dominances \subseteq SUBSET (Blocks \X Blocks)
  /\ \A dom \in Dominances :
       /\ \A a \in Blocks : <<a, a>> \notin dom
       /\ \A a, b, c \in Blocks :
            <<a, b>> \in dom /\ <<b, c>> \in dom => <<a, c>> \in dom

Insns == 1 .. MAX_INSNS
Null == 0

VARIABLES
  created,                 \* how many instructions there are
  opcode, inputs, users,
  parentBB, code,          \* the block of an instruction, and conversely
  idxToCheck, maxArrIdx,   \* fields of BoundsCheckInsn
  dominance,
  pos,                     \* the block Run is at, 0 during IrBuilder's work
  currInsn, nextInsn,      \* EnumerateInsns: the current instruction, and
                           \* the saved one behind it
  userIt,                  \* the place of the loop in the current users
  checkToRemain,
  substitute               \* history: what a removed check gave way to

fields == <<created, opcode, parentBB, idxToCheck, maxArrIdx, dominance>>
edges == <<inputs, users, code, substitute>>
loop == <<userIt, checkToRemain>>
walk == <<pos, currInsn, nextInsn>>
checkVars == <<fields, edges, loop, walk>>

InCode == UNION {Uses(code[b]) : b \in Blocks}

DoesProduceReference(i) == opcode[i] = "ref"

IsCheck(i) == opcode[i] \in {"null", "bounds"}

CheckInit ==
  /\ created = 0
  /\ opcode = [i \in Insns |-> "none"]
  /\ inputs = [i \in Insns |-> <<>>] /\ users = [i \in Insns |-> <<>>]
  /\ parentBB = [i \in Insns |-> Null]
  /\ code = [b \in Blocks |-> <<>>]
  /\ idxToCheck = [i \in Insns |-> Null] /\ maxArrIdx = [i \in Insns |-> Null]
  /\ dominance \in Dominances
  /\ pos = 0 /\ currInsn = Null /\ nextInsn = Null
  /\ userIt = 1 /\ checkToRemain = Null
  /\ substitute = [i \in Insns |-> Null]
-----------------------------------------------------------------------------
(* IrBuilder::CreateInstruction.  The program is well formed: what it uses *)
(* dominates an instruction.                                               *)
CreateInstruction(op, s, bb) ==
  LET i == created + 1
  IN  /\ \A d \in Uses(s) : parentBB[d] = bb \/ <<parentBB[d], bb>> \in dominance
      /\ created' = i
      /\ opcode' = [opcode EXCEPT ![i] = op]
      /\ inputs' = [inputs EXCEPT ![i] = s]
      /\ users' = AddToUsers(users, s, i)
      /\ parentBB' = [parentBB EXCEPT ![i] = bb]
      /\ code' = [code EXCEPT ![bb] = Append(@, i)]
      /\ UNCHANGED <<dominance, substitute, loop, walk>>

NoOperands == UNCHANGED <<idxToCheck, maxArrIdx>>

(* A parameter or a new array. *)
CreateReference(bb) ==
  /\ Cardinality({i \in Insns : opcode[i] = "ref"}) < MAX_REFS
  /\ CreateInstruction("ref", <<>>, bb) /\ NoOperands

RoomForOthers ==
  Cardinality({i \in Insns : opcode[i] \in {"value", "use"}}) < MAX_OTHERS

(* An instruction that neither is nor uses a reference or a check. *)
CreateValue(bb) ==
  /\ RoomForOthers
  /\ CreateInstruction("value", <<>>, bb) /\ NoOperands

CreateNullcheckInsn(input, bb) ==
  /\ DoesProduceReference(input)
  /\ CreateInstruction("null", <<input>>, bb) /\ NoOperands

CreateBoundsCheckInsn(input, idx, max, bb) ==
  /\ DoesProduceReference(input) \/ opcode[input] = "null"
  /\ idx # max
  /\ CreateInstruction("bounds", <<input>>, bb)
  /\ idxToCheck' = [idxToCheck EXCEPT ![created + 1] = idx]
  /\ maxArrIdx' = [maxArrIdx EXCEPT ![created + 1] = max]

(* A load, store or call that takes checks or references. *)
CreateUse(s, bb) ==
  /\ RoomForOthers
  /\ \A d \in Uses(s) : DoesProduceReference(d) \/ IsCheck(d)
  /\ CreateInstruction("use", s, bb) /\ NoOperands
-----------------------------------------------------------------------------
(* Run enumerates the instructions of every block in the order of the RPO. *)

Behind(b, i) ==
  LET later == {k \in 1 .. Len(code[b]) : code[b][k] > i}
  IN  IF later = {} THEN Null ELSE code[b][Min(later)]

CallbackFor(i) ==
  /\ currInsn' = i
  /\ nextInsn' = IF i = Null THEN Null ELSE Behind(parentBB[i], i)
  /\ userIt' = 1 /\ checkToRemain' = Null
  /\ UNCHANGED <<fields, edges>>

EnumerateBlock ==
  /\ currInsn = Null /\ pos < Len(RpoVector)
  /\ pos' = pos + 1
  /\ CallbackFor(Behind(RpoVector[pos'], Null))

(* The callback returns true for an instruction that produces no reference.*)
StopEnumeration ==
  /\ currInsn # Null /\ ~DoesProduceReference(currInsn)
  /\ CallbackFor(Null) /\ UNCHANGED pos

(* The loop over the users of a reference. *)
InLoop == currInsn # Null /\ DoesProduceReference(currInsn)

AtUser == InLoop /\ userIt <= Len(users[currInsn])

CurrUser == users[currInsn][userIt]

(* Mutant: any two blocks will do. *)
DominatedOverUnasked(check, insn) ==
  parentBB[check] # parentBB[insn] \/ check < insn

(* Mutant: the two are exchanged. *)
DominatedOverReversed(check, insn) ==
  IF parentBB[check] # parentBB[insn]
  THEN <<parentBB[insn], parentBB[check]>> \in dominance
  ELSE check < insn

(* Instruction::DominatedOver.  A block holds its instructions in the      *)
(* order in which they were created.                                       *)
DominatedOver(check, insn) ==
  IF parentBB[check] # parentBB[insn]
  THEN <<parentBB[check], parentBB[insn]>> \in dominance
  ELSE check < insn

(* BoundsCheckInsn::GetIdxToCheck returns the limit. *)
GetIdxToCheck(i) == maxArrIdx[i]

(* couldRemoveBoundCheck compares the two; of a null check it reads what   *)
(* lies behind the object.                                                 *)
OperandsEqual(check, insn) ==
  maxArrIdx[check] = maxArrIdx[insn] /\ GetIdxToCheck(check) = GetIdxToCheck(insn)

MayRemove(check, insn) ==
  opcode[insn] = "bounds" => opcode[check] = "null" \/ OperandsEqual(check, insn)

MayKeep(check, insn) ==
  opcode[insn] = "bounds" /\ (opcode[check] = "null" \/ ~OperandsEqual(check, insn))

SkipUser ==
  /\ AtUser /\ ~IsCheck(CurrUser)
  /\ userIt' = userIt + 1
  /\ UNCHANGED <<fields, edges, walk, checkToRemain>>

FirstCheck ==
  /\ AtUser /\ IsCheck(CurrUser) /\ checkToRemain = Null
  /\ checkToRemain' = CurrUser
  /\ userIt' = userIt + 1
  /\ UNCHANGED <<fields, edges, walk>>

KeepCheck ==
  /\ AtUser /\ IsCheck(CurrUser) /\ checkToRemain # Null
  /\ DominatedOver(checkToRemain, CurrUser) => MayKeep(checkToRemain, CurrUser)
  /\ userIt' = userIt + 1
  /\ UNCHANGED <<fields, edges, walk, checkToRemain>>

(* Mutant: the users keep the old check. *)
ReplaceNothing(i, n) == UNCHANGED inputs /\ users' = RemoveUsers(users, inputs[i], i)

(* i->ReplaceInputsForUsers(n), and the users of its inputs after Remove.  *)
(* Every entry of a user but the first finds the inputs replaced.          *)
ReplaceAndForget(i, n) ==
  /\ inputs' = [j \in Insns |-> IF j \in Uses(users[i])
                                THEN ReplaceAll(inputs[j], i, n) ELSE inputs[j]]
  /\ users' = RemoveUsers(MoveUsers(users, Distinct(users[i]), i, n), inputs[i], i)

(* Mutant: the iterator moves on although an entry has gone before it. *)
RemoveCheckMovingOn ==
  /\ AtUser /\ IsCheck(CurrUser) /\ checkToRemain # Null
  /\ DominatedOver(checkToRemain, CurrUser) /\ MayRemove(checkToRemain, CurrUser)
  /\ ReplaceAndForget(CurrUser, checkToRemain)
  /\ code' = [code EXCEPT ![parentBB[CurrUser]] = RemoveFirst(@, CurrUser)]
  /\ substitute' = [substitute EXCEPT ![CurrUser] = checkToRemain]
  /\ userIt' = userIt + 1
  /\ UNCHANGED <<fields, walk, checkToRemain>>

(* The iterator stands on the next user, which takes the place of the one  *)
(* that goes.                                                              *)
RemoveCheck ==
  /\ AtUser /\ IsCheck(CurrUser) /\ checkToRemain # Null
  /\ DominatedOver(checkToRemain, CurrUser) /\ MayRemove(checkToRemain, CurrUser)
  /\ ReplaceAndForget(CurrUser, checkToRemain)
  /\ code' = [code EXCEPT ![parentBB[CurrUser]] = RemoveFirst(@, CurrUser)]
  /\ substitute' = [substitute EXCEPT ![CurrUser] = checkToRemain]
  /\ UNCHANGED <<fields, loop, walk>>

NextInsn ==
  /\ InLoop /\ ~AtUser
  /\ CallbackFor(nextInsn) /\ UNCHANGED pos

Build ==
  /\ pos = 0 /\ created < MAX_INSNS
  /\ \E bb \in Blocks :
       \/ CreateReference(bb) \/ CreateValue(bb)
       \/ \E d \in InCode :
            \/ CreateNullcheckInsn(d, bb)
            \/ \E idx, max \in Values : CreateBoundsCheckInsn(d, idx, max, bb)
            \/ CreateUse(<<d>>, bb) \/ CreateUse(<<d, d>>, bb)

Optimize ==
  \/ EnumerateBlock \/ StopEnumeration
  \/ SkipUser \/ FirstCheck \/ KeepCheck \/ RemoveCheck \/ NextInsn

CheckNext == Build \/ Optimize

CheckSpec == CheckInit /\ [][CheckNext]_checkVars
-----------------------------------------------------------------------------
(* i is executed before j whenever j is. *)
Before(i, j) ==
  IF parentBB[i] = parentBB[j] THEN i < j
  ELSE <<parentBB[i], parentBB[j]>> \in dominance

(* The program stays well formed: what an instruction uses is in a block   *)
(* and comes before it on every path.                                      *)
UsesDominated ==
  \A i \in InCode : \A d \in Uses(inputs[i]) : d \in InCode /\ Before(d, i)

(* Where a reference was checked, it still is: a check that is removed     *)
(* leaves one of the same reference that comes before it on every path.    *)
ReferenceStillChecked ==
  \A c \in Insns : substitute[c] # Null =>
    \E k \in InCode : IsCheck(k) /\ inputs[k] = inputs[c] /\ Before(k, c)

(* The loop misses no check although it takes entries out of the list it   *)
(* walks: none is left that the first one dominates and could replace.     *)
DominatedChecksGone ==
  InLoop /\ ~AtUser /\ checkToRemain # Null =>
    \A d \in Uses(users[currInsn]) :
      IsCheck(d) /\ Before(checkToRemain, d) => MayKeep(checkToRemain, d)

(* The instruction EnumerateInsns has saved is not removed before its turn.*)
NextInsnStays == nextInsn # Null => nextInsn \in InCode

(* couldRemoveBoundCheck: "check->GetIdxToCheck() ==                       *)
(* checkToRemove->GetIdxToCheck()": a bounds check gives way to another    *)
(* only when that checks the same index against the same limit.            *)
EqualBoundsChecked ==
  \A c \in Insns :
    substitute[c] # Null /\ opcode[c] = "bounds" /\ opcode[substitute[c]] = "bounds" =>
      /\ idxToCheck[c] = idxToCheck[substitute[c]]
      /\ maxArrIdx[c] = maxArrIdx[substitute[c]]
=============================================================================
