-------------------------- MODULE PeepholesProofs ---------------------------
(***************************************************************************)
(* Proofs about Peepholes.tla, for any number of operations, uses and      *)
(* runs, any constants and any types.                                      *)
(*                                                                         *)
(* CodeInv is about the instructions and their order: a visit takes one    *)
(* out, replaces one or puts one in, and what is left keeps its order.     *)
(* From it follows that Run gets on (TurnsPass).                           *)
(*                                                                         *)
(* EdgesInv is about the def-use edges until the first run is over.  What  *)
(* VisitMul does to the users breaks the agreement of inputs and users, so *)
(* the invariant says how far it is broken (Known, Truthful) and where it  *)
(* is not: the operation Run is at and those ahead have all their users,   *)
(* because only settled operations explain a lost one (Turning).  EdgesOK  *)
(* takes the edges, the code and the settled operations as arguments, so   *)
(* that the visits can be looked at apart from the state.                  *)
(*                                                                         *)
(* DoneInv says that there is nothing to simplify at the settled           *)
(* operations (Done), but for a joined distance that is zero, which it can *)
(* only be in a narrow type (JoinedNotZero).  What keeps it is that their  *)
(* inputs stay, and that they get no new users (Follows).                  *)
(*                                                                         *)
(* ValueInv says of every instruction that it computes the value of the    *)
(* one it stands for (Sound): whatever takes its place has this value in   *)
(* every environment.  Its weight is at least that of its operands, and of *)
(* a shift also what the first one weighs and the distance together, so    *)
(* that a joined distance is bounded by how many shifts were built, and is *)
(* the sum it should be.  What it rests on is arithmetic: bits, quotients  *)
(* and powers of two.                                                      *)
(*                                                                         *)
(* StableInv is about the runs after the first.  A shift that two shifts   *)
(* were joined to may be by more than the width, and would have no value   *)
(* if it were folded.  But DoneInv leaves no operation on constants alone, *)
(* and none comes to be: nothing is ever folded in a later run.            *)
(***************************************************************************)
EXTENDS Peepholes, UsersProofs

(* The instructions there are, and what they may be. *)
All == 1 .. Len(insns)

(* What an instruction may be. *)
Opcodes == Operations \cup {"phi", "const", "add", "call"}

(* The list of instructions grows, the code has none of them twice, and    *)
(* Run is at an operation of the code.                                     *)
CodeInv ==
  /\ IsList(insns) /\ \A i \in All : Opcode(i) \in Opcodes
  /\ operations \subseteq Operations
  /\ runs \in Nat /\ (runs = 0 => currInsn = 0)
  /\ code \in Seq(All) /\ Injective(code)
  /\ currInsn # 0 => currInsn \in InCode /\ IsOperation(currInsn)

(* The numbers of instructions. *)
LEMMA CodeNumbers ==
  ASSUME CodeInv
  PROVE  /\ Len(insns) \in Nat /\ NewInsn \notin All /\ NewInsn \notin InCode
         /\ NewInsn # 0 /\ All \subseteq 1 .. NewInsn /\ NewInsn \in 1 .. NewInsn
         /\ 0 \notin All /\ InCode \subseteq All /\ code \in Seq(1 .. NewInsn)
<1>1. Len(insns) \in Nat
  BY LongerList DEF CodeInv
<1>2. /\ NewInsn \notin All /\ NewInsn # 0 /\ All \subseteq 1 .. NewInsn
      /\ 0 \notin All /\ NewInsn \in 1 .. NewInsn
  BY <1>1 DEF NewInsn, All
<1>3. InCode \subseteq All
  BY UsesTyped DEF CodeInv, InCode
<1>4. code \in Seq(1 .. NewInsn)
  <2>1. code \in Seq(All)
    BY DEF CodeInv
  <2> QED
    BY <1>2, <2>1, ListsGrow
<1> QED
  BY <1>1, <1>2, <1>3, <1>4

(* So it is in the code. *)
LEMMA PlaceInCode ==
  ASSUME CodeInv, NEW i \in InCode
  PROVE  IndexOf(i) \in 1 .. Len(code) /\ code[IndexOf(i)] = i
<1>1. code \in Seq(All) /\ Injective(code) /\ i \in Uses(code)
  BY DEF CodeInv, InCode
<1> QED
  BY <1>1, PlacesInList, Zenon DEF IndexOf

(* Run goes on with the next operation of the code. *)
LEMMA NextInOrder ==
  ASSUME CodeInv, currInsn # 0
  PROVE  /\ NextOperation # 0 =>
              /\ NextOperation \in InCode /\ IsOperation(NextOperation)
              /\ InFront(code, currInsn, NextOperation)
         /\ \A i \in InCode : IsOperation(i) /\ InFront(code, currInsn, i) =>
              /\ NextOperation # 0
              /\ i = NextOperation \/ InFront(code, NextOperation, i)
<1> DEFINE p == IndexOf(currInsn)
           later == {m \in p + 1 .. Len(code) : IsOperation(code[m])}
<1>1. p \in 1 .. Len(code) /\ code[p] = currInsn /\ Len(code) \in Nat
  BY PlaceInCode DEF CodeInv
<1>2. NextOperation = IF later = {} THEN 0 ELSE code[Min(later)]
  BY Zenon DEF NextOperation, OperationFrom
<1>3. later \in SUBSET (1 .. Len(code))
  BY <1>1
<1>4. ASSUME later # {}
      PROVE  /\ Min(later) \in p + 1 .. Len(code) /\ IsOperation(code[Min(later)])
             /\ \A m \in later : Min(later) <= m
  <2>1. Min(later) \in later /\ \A m \in later : Min(later) <= m
    <3> HIDE DEF later
    <3> QED
      BY <1>1, <1>3, <1>4, MinIsPosition
  <2> DEFINE min == Min(later)
  <2>2. min \in later
    BY <2>1
  <2> HIDE DEF min
  <2>3. min \in p + 1 .. Len(code) /\ IsOperation(code[min])
    BY <2>2
  <2> QED
    BY <2>1, <2>3 DEF min
<1> HIDE DEF p
<1>5. ASSUME NextOperation # 0
      PROVE  /\ NextOperation \in InCode /\ IsOperation(NextOperation)
             /\ InFront(code, currInsn, NextOperation)
  <2>1. later # {} /\ NextOperation = code[Min(later)]
    BY <1>2, <1>5
  <2> DEFINE min == Min(later)
  <2>2. min \in p + 1 .. Len(code) /\ IsOperation(code[min]) /\ NextOperation = code[min]
    BY <1>4, <2>1
  <2> HIDE DEF min
  <2>3. min \in 1 .. Len(code) /\ p < min
    BY <1>1, <2>2
  <2> QED
    BY <1>1, <2>2, <2>3 DEF InFront, InCode, Uses
<1>6. ASSUME NEW i \in InCode, IsOperation(i), InFront(code, currInsn, i)
      PROVE  NextOperation # 0 /\ (i = NextOperation \/ InFront(code, NextOperation, i))
  <2>1. PICK k, m \in 1 .. Len(code) : k < m /\ code[k] = currInsn /\ code[m] = i
    BY <1>6 DEF InFront
  <2>2. k = p
    BY <1>1, <2>1 DEF CodeInv, Injective
  <2>3. m \in later
    BY <1>1, <1>6, <2>1, <2>2
  <2> DEFINE min == Min(later)
  <2>4. min \in p + 1 .. Len(code) /\ NextOperation = code[min] /\ min <= m
    BY <1>2, <1>4, <2>3
  <2> HIDE DEF min, later
  <2>5. min \in 1 .. Len(code) /\ (min = m \/ min < m)
    BY <1>1, <2>1, <2>4
  <2>6. NextOperation # 0
    <3>1. code[min] \in All
      BY <2>5 DEF CodeInv
    <3> QED
      BY <2>4, <3>1, CodeNumbers
  <2> QED
    BY <2>1, <2>4, <2>5, <2>6 DEF InFront
<1> QED
  BY <1>5, <1>6

(* It begins with the first operation. *)
LEMMA FirstInOrder ==
  ASSUME CodeInv
  PROVE  /\ OperationFrom(1) # 0 =>
              OperationFrom(1) \in InCode /\ IsOperation(OperationFrom(1))
         /\ \A i \in InCode : IsOperation(i) =>
              /\ OperationFrom(1) # 0
              /\ i = OperationFrom(1) \/ InFront(code, OperationFrom(1), i)
<1> DEFINE later == {m \in 1 .. Len(code) : IsOperation(code[m])}
<1>1. Len(code) \in Nat /\ later \in SUBSET (1 .. Len(code))
  BY DEF CodeInv
<1>2. OperationFrom(1) = IF later = {} THEN 0 ELSE code[Min(later)]
  BY Zenon DEF OperationFrom
<1>3. ASSUME later # {}
      PROVE  /\ Min(later) \in 1 .. Len(code) /\ IsOperation(code[Min(later)])
             /\ \A m \in later : Min(later) <= m
  <2>1. Min(later) \in later /\ \A m \in later : Min(later) <= m
    <3> HIDE DEF later
    <3> QED
      BY <1>1, <1>3, MinIsPosition
  <2> DEFINE min == Min(later)
  <2>2. min \in later
    BY <2>1
  <2> HIDE DEF min
  <2>3. min \in 1 .. Len(code) /\ IsOperation(code[min])
    BY <2>2
  <2> QED
    BY <2>1, <2>3 DEF min
<1>4. ASSUME OperationFrom(1) # 0
      PROVE  OperationFrom(1) \in InCode /\ IsOperation(OperationFrom(1))
  <2>1. later # {} /\ OperationFrom(1) = code[Min(later)]
    BY <1>2, <1>4
  <2> DEFINE min == Min(later)
  <2>2. min \in 1 .. Len(code) /\ IsOperation(code[min]) /\ OperationFrom(1) = code[min]
    BY <1>3, <2>1
  <2> HIDE DEF min
  <2> QED
    BY <2>2 DEF InCode, Uses
<1>5. ASSUME NEW i \in InCode, IsOperation(i)
      PROVE  /\ OperationFrom(1) # 0
             /\ i = OperationFrom(1) \/ InFront(code, OperationFrom(1), i)
  <2>1. PICK m \in 1 .. Len(code) : code[m] = i
    BY DEF InCode, Uses
  <2>2. m \in later
    BY <1>5, <2>1
  <2> DEFINE min == Min(later)
  <2>3. min \in 1 .. Len(code) /\ OperationFrom(1) = code[min] /\ min <= m
    BY <1>2, <1>3, <2>2
  <2> HIDE DEF min, later
  <2>4. min = m \/ min < m
    BY <1>1, <2>1, <2>3
  <2>5. OperationFrom(1) # 0
    <3>1. code[min] \in All
      BY <2>3 DEF CodeInv
    <3> QED
      BY <2>3, <3>1, CodeNumbers
  <2> QED
    BY <2>1, <2>3, <2>4, <2>5 DEF InFront
<1> QED
  BY <1>4, <1>5
-----------------------------------------------------------------------------
(* What a visit does to the code: it keeps the instruction it is at, takes *)
(* it out, replaces it or puts a new one behind it.                        *)
CodeKept == UNCHANGED <<insns, code>>

(* The instruction is taken out. *)
CodeCut == insns' = insns /\ code' = RemoveAt(code, IndexOf(currInsn))

(* There is a new instruction, which is no operation. *)
CodeAdded ==
  /\ \E e : e.opcode \in Opcodes \ Operations /\ insns' = Append(insns, e)
  /\ \/ code' = ReplaceAt(code, IndexOf(currInsn), NewInsn)
     \/ code' = InsertAt(code, IndexOf(currInsn) + 1, NewInsn)

(* The edit of a visit. *)
CodeEdit ==
  /\ currInsn # 0 /\ outcome = "running" /\ EndTurn
  /\ CodeKept \/ CodeCut \/ CodeAdded

(* A visit does one of these, or the optimiser stops. *)
LEMMA VisitEdits ==
  ASSUME Visit
  PROVE  \/ CodeEdit
         \/ outcome' # "running" /\ UNCHANGED <<insns, operations, code, currInsn, runs>>
<1>0. \A t, op : Insn(op, t).opcode = op /\ \A c : ConstantInsn(c, t).opcode = "const"
  BY DEF Insn, ConstantInsn
<1>1. "const" \in Opcodes \ Operations /\ "add" \in Opcodes \ Operations
  BY DEF Opcodes, Operations
<1>2. \A op : Turn(op) => currInsn # 0 /\ outcome = "running"
  BY DEF Turn
<1>3. ASSUME NEW g, NEW i, i = currInsn, NEW e, e.opcode \in {"const", "add"},
             PutInstead(g, i, e), currInsn # 0, outcome = "running"
      PROVE  CodeEdit
  <2>1. /\ insns' = Append(insns, e) /\ EndTurn
        /\ code' = ReplaceAt(code, IndexOf(currInsn), NewInsn)
    BY <1>3 DEF PutInstead, CreateInsn
  <2> QED
    BY <2>1, <1>1, <1>3 DEF CodeEdit, CodeAdded
<1>4. ASSUME NEW g, KeepInsn(g), currInsn # 0, outcome = "running"
      PROVE  CodeEdit
  BY <1>4 DEF KeepInsn, NothingNew, CodeEdit, CodeKept
<1>5. ASSUME NEW g, NEW n, GiveWay(g, currInsn, n), currInsn # 0, outcome = "running"
      PROVE  CodeEdit
  BY <1>5 DEF GiveWay, NothingNew, CodeEdit, CodeCut
<1>6. ASSUME NEW op, Fold(op) PROVE CodeEdit
  <2>1. PICK g, folded :
          PutInstead(g, currInsn, ConstantInsn(folded.constant, folded.resultType))
    BY <1>6 DEF Fold
  <2>2. currInsn # 0 /\ outcome = "running"
    BY <1>2, <1>6 DEF Fold
  <2> QED
    BY <1>0, <1>3, <2>1, <2>2
<1>7. ASSUME MulByTwo PROVE CodeEdit
  <2>1. PICK h : PutInstead(h, currInsn, Insn("add", "F64"))
    BY <1>7 DEF MulByTwo
  <2>2. currInsn # 0 /\ outcome = "running"
    BY <1>2, <1>7 DEF MulByTwo
  <2> QED
    BY <1>0, <1>3, <2>1, <2>2
<1>8. ASSUME MulByOne \/ MulStays \/ AshrStays \/ OrStays PROVE CodeEdit
  <2>1. currInsn # 0 /\ outcome = "running"
    BY <1>2, <1>8 DEF MulByOne, MulStays, AshrStays, OrStays
  <2>2. \E g : KeepInsn(g)
    BY <1>8 DEF MulByOne, MulStays, AshrStays, OrStays
  <2> QED
    BY <1>4, <2>1, <2>2
<1>9. ASSUME AshrByZero \/ OrGivesWay PROVE CodeEdit
  <2>1. currInsn # 0 /\ outcome = "running"
    BY <1>2, <1>9 DEF AshrByZero, OrGivesWay
  <2>2. \E g, n : GiveWay(g, currInsn, n)
    BY <1>9 DEF AshrByZero, OrGivesWay
  <2> QED
    BY <1>5, <2>1, <2>2
<1>10. ASSUME AshrOfAshr PROVE CodeEdit
  <2>1. currInsn # 0 /\ outcome = "running" /\ EndTurn
    BY <1>2, <1>10 DEF AshrOfAshr
  <2>2. PICK c : insns' = Append(insns, ConstantInsn(c, c.type))
    BY <1>10 DEF AshrOfAshr, CreateInsn
  <2>3. code' = InsertAt(code, IndexOf(currInsn) + 1, NewInsn)
    BY <1>10 DEF AshrOfAshr
  <2> QED
    BY <1>0, <1>1, <2>1, <2>2, <2>3 DEF CodeEdit, CodeAdded
<1>11. ASSUME FoldUnreachable \/ AshrAssertFails \/ MulByOneOutOfBounds
       PROVE  outcome' # "running" /\ UNCHANGED <<insns, operations, code, currInsn, runs>>
  BY <1>11 DEF FoldUnreachable, AshrAssertFails, MulByOneOutOfBounds, Halt, program
<1> QED
  BY <1>6, <1>7, <1>8, <1>9, <1>10, <1>11 DEF Visit

(* The code after an edit: only the instruction Run was at may go, and     *)
(* only one that is no operation may come.                                 *)
LEMMA EditedCode ==
  ASSUME CodeInv, CodeEdit
  PROVE  /\ IsList(insns') /\ Len(insns)' \in {Len(insns), NewInsn}
         /\ \A i \in All : insns'[i] = insns[i]
         /\ \A i \in All' : Opcode(i)' \in Opcodes
         /\ \A i \in All' \ All : i = NewInsn /\ ~IsOperation(i)'
         /\ code' \in Seq(All') /\ Injective(code')
         /\ Uses(code') \subseteq Uses(code) \cup {NewInsn}
         /\ Uses(code) \subseteq Uses(code') \cup {currInsn}
         /\ SameOrder(code, code')
<1> DEFINE p == IndexOf(currInsn)
<1>1. currInsn \in InCode /\ p \in 1 .. Len(code) /\ code[p] = currInsn
  BY PlaceInCode DEF CodeEdit, CodeInv
<1>2. /\ Len(insns) \in Nat /\ NewInsn \notin Uses(code) /\ All \subseteq 1 .. NewInsn
      /\ NewInsn \in 1 .. NewInsn /\ code \in Seq(1 .. NewInsn) /\ code \in Seq(All)
      /\ Injective(code) /\ IsList(insns)
  BY CodeNumbers DEF CodeInv, InCode
<1> HIDE DEF p
<1>3. CASE CodeKept
  BY <1>2, <1>3 DEF CodeKept, CodeInv, All, SameOrder, Opcode
<1>4. CASE CodeCut
  <2>1. insns' = insns /\ code' = RemoveAt(code, p)
    BY <1>4 DEF CodeCut, p
  <2>2. /\ code' \in Seq(All) /\ Injective(code') /\ SameOrder(code, code')
        /\ Uses(code') = Uses(code) \ {currInsn}
    BY <1>1, <1>2, <2>1, RemovedInOrder
  <2> QED
    BY <1>2, <2>1, <2>2 DEF CodeInv, All, Opcode
<1>5. CASE CodeAdded
  <2>1. PICK e : e.opcode \in Opcodes \ Operations /\ insns' = Append(insns, e)
    BY <1>5 DEF CodeAdded
  <2>2. /\ IsList(insns') /\ Len(insns') = NewInsn /\ insns'[NewInsn] = e
        /\ \A i \in All : insns'[i] = insns[i]
    BY <1>2, <2>1, LongerList DEF NewInsn, All
  <2>3. All' = 1 .. NewInsn /\ \A i \in All' : i \in All \/ i = NewInsn
    BY <1>2, <2>2 DEF All, NewInsn
  <2>4. /\ \A i \in All' : Opcode(i)' \in Opcodes
        /\ \A i \in All' \ All : i = NewInsn /\ ~IsOperation(i)'
    BY <2>1, <2>2, <2>3 DEF Opcode, IsOperation, CodeInv
  <2>5. /\ code' \in Seq(1 .. NewInsn) /\ Injective(code') /\ SameOrder(code, code')
        /\ Uses(code') \subseteq Uses(code) \cup {NewInsn}
        /\ Uses(code) \subseteq Uses(code') \cup {currInsn}
    <3>1. CASE code' = ReplaceAt(code, p, NewInsn)
      BY <1>1, <1>2, <3>1, ReplacedInOrder
    <3>2. CASE code' = InsertAt(code, p + 1, NewInsn)
      BY <1>1, <1>2, <3>2, InsertedInOrder
    <3> QED
      BY <1>5, <3>1, <3>2 DEF CodeAdded, p
  <2> QED
    BY <2>2, <2>3, <2>4, <2>5
<1> QED
  BY <1>3, <1>4, <1>5 DEF CodeEdit
-----------------------------------------------------------------------------
(* The first instructions: the phi and the constants. *)
LEMMA FirstInsns ==
  ASSUME NEW start \in Starts, NEW t, NEW s,
         s = <<Insn("phi", t)>>
               \o [k \in DOMAIN start.pool |->
                     ConstantInsn(start.pool[k], ResultTypeOf(start.pool[k]))]
  PROVE  /\ IsList(s) /\ Len(s) \in Nat \ {0} /\ DOMAIN s = 1 .. Len(s)
         /\ s[Phi] = Insn("phi", t)
         /\ \A i \in 1 .. Len(s) : i # Phi => s[i].opcode = "const"
<1> DEFINE consts == [k \in DOMAIN start.pool |->
                        ConstantInsn(start.pool[k], ResultTypeOf(start.pool[k]))]
           S == {Insn("phi", t)}
                  \cup {ConstantInsn(start.pool[k], ResultTypeOf(start.pool[k])) :
                          k \in DOMAIN start.pool}
<1>1. DOMAIN start.pool = 1 .. Len(start.pool) /\ Len(start.pool) \in Nat
  <2>1. start.pool \in Seq([value : Int, type : DataTypes])
    BY PeepholesAssumption
  <2> QED
    BY <2>1
<1>2. consts \in Seq(S) /\ <<Insn("phi", t)>> \in Seq(S)
  BY <1>1
<1>3. \A k \in 1 .. Len(consts) : consts[k].opcode = "const"
  BY <1>1 DEF ConstantInsn
<1> HIDE DEF consts, S
<1>4. /\ s \in Seq(S) /\ s[1] = Insn("phi", t) /\ Len(s) = Len(consts) + 1
      /\ \A i \in 1 .. Len(s) : i # 1 => s[i] = consts[i - 1]
  BY <1>2 DEF consts
<1>5. Len(consts) \in Nat /\ \A i \in 1 .. Len(s) : i # 1 => i - 1 \in 1 .. Len(consts)
  BY <1>2, <1>4
<1>6. IsList(s) /\ Len(s) \in Nat \ {0} /\ DOMAIN s = 1 .. Len(s)
  <2>1. IsList(s) /\ Len(s) \in Nat /\ DOMAIN s = 1 .. Len(s)
    BY <1>4, SequenceIsList, Zenon
  <2>2. Len(s) # 0
    BY <1>4, <1>5
  <2> QED
    BY <2>1, <2>2
<1>7. \A i \in 1 .. Len(s) : i # 1 => s[i].opcode = "const"
  BY <1>3, <1>4, <1>5
<1> QED
  BY <1>4, <1>6, <1>7 DEF Phi

(* The program begins with code in which nothing is twice. *)
LEMMA CodeInvInit == PeepholesInit => CodeInv
<1> SUFFICES ASSUME PeepholesInit PROVE CodeInv
  OBVIOUS
<1>1. PICK start \in Starts :
        /\ operations = start.operations
        /\ insns = <<Insn("phi", type)>>
                   \o [k \in DOMAIN start.pool |->
                         ConstantInsn(start.pool[k], ResultTypeOf(start.pool[k]))]
        /\ code = [i \in DOMAIN insns |-> i]
        /\ currInsn = 0 /\ runs = 0
  BY DEF PeepholesInit
<1>2. /\ IsList(insns) /\ Len(insns) \in Nat \ {0} /\ DOMAIN insns = All
      /\ insns[Phi] = Insn("phi", type)
      /\ \A i \in All : i # Phi => insns[i].opcode = "const"
  BY <1>1, FirstInsns DEF All
<1>3. \A i \in All : Opcode(i) \in Opcodes
  BY <1>2 DEF Opcode, Opcodes, Insn
<1>4. code \in Seq(All) /\ Len(code) = Len(insns) /\ \A i \in All : code[i] = i
  BY <1>1, <1>2 DEF All
<1>5. Injective(code)
  BY <1>4 DEF Injective, All
<1>6. operations \subseteq Operations
  BY <1>1, PeepholesAssumption DEF Operations
<1> QED
  BY <1>1, <1>2, <1>3, <1>4, <1>5, <1>6 DEF CodeInv

(* What is built goes to the end. *)
LEMMA CodeBuilt ==
  ASSUME CodeInv, runs = 0, NEW insn, insn.opcode \in Opcodes,
         insns' = Append(insns, insn), code' = Append(code, NewInsn),
         UNCHANGED <<operations, currInsn, runs>>
  PROVE  /\ CodeInv' /\ insns'[NewInsn] = insn /\ All' = 1 .. NewInsn
         /\ \A i \in All : insns'[i] = insns[i]
<1>1. /\ Len(insns) \in Nat /\ NewInsn \notin Uses(code) /\ All \subseteq 1 .. NewInsn
      /\ NewInsn \in 1 .. NewInsn /\ code \in Seq(1 .. NewInsn) /\ code \in Seq(All)
      /\ Injective(code) /\ IsList(insns)
  BY CodeNumbers DEF CodeInv, InCode
<1>2. /\ IsList(insns') /\ Len(insns') = NewInsn /\ insns'[NewInsn] = insn
      /\ \A i \in All : insns'[i] = insns[i]
  BY <1>1, LongerList DEF NewInsn, All
<1>3. All' = 1 .. NewInsn /\ \A i \in All' : i \in All \/ i = NewInsn
  BY <1>1, <1>2 DEF All, NewInsn
<1>4. \A i \in All' : Opcode(i)' \in Opcodes
  BY <1>2, <1>3 DEF Opcode, CodeInv
<1>5. code' \in Seq(All') /\ Injective(code')
  BY <1>1, <1>3, AppendedInOrder
<1> QED
  BY <1>2, <1>3, <1>4, <1>5 DEF CodeInv

(* Building an instruction is of that kind. *)
LEMMA BuildBuilds ==
  ASSUME CodeInv, Build
  PROVE  /\ runs = 0 /\ currInsn = 0 /\ UNCHANGED <<operations, currInsn, runs>>
         /\ \/ UNCHANGED <<insns, code>>
            \/ \E insn : /\ insn.opcode \in Opcodes /\ insns' = Append(insns, insn)
                         /\ code' = Append(code, NewInsn)
<1>1. runs = 0 /\ currInsn = 0
  BY DEF Build, CodeInv
<1>2. ASSUME NEW op \in operations, NEW a, NEW b, CreateOperation(op, a, b)
      PROVE  /\ UNCHANGED <<operations, currInsn, runs>>
             /\ \E insn : /\ insn.opcode \in Opcodes /\ insns' = Append(insns, insn)
                          /\ code' = Append(code, NewInsn)
  <2>1. Insn(op, type).opcode \in Opcodes
    BY DEF CodeInv, Insn, Opcodes
  <2> QED
    BY <1>2, <2>1, Zenon DEF CreateOperation, CreateInstruction
<1>3. ASSUME NEW s, CreateCall(s)
      PROVE  /\ UNCHANGED <<operations, currInsn, runs>>
             /\ \E insn : /\ insn.opcode \in Opcodes /\ insns' = Append(insns, insn)
                          /\ code' = Append(code, NewInsn)
  <2>1. Insn("call", "VOID").opcode \in Opcodes
    BY DEF Insn, Opcodes
  <2> QED
    BY <1>3, <2>1, Zenon DEF CreateCall, CreateInstruction
<1>4. ASSUME NEW d, ResolveDependency(d)
      PROVE  UNCHANGED <<operations, currInsn, runs, insns, code>>
  BY <1>4 DEF ResolveDependency, program
<1> QED
  BY <1>1, <1>2, <1>3, <1>4 DEF Build

(* Every step keeps it. *)
LEMMA CodeInvNext == CodeInv /\ [PeepholesNext]_peepholeVars => CodeInv'
<1> SUFFICES ASSUME CodeInv, [PeepholesNext]_peepholeVars PROVE CodeInv'
  OBVIOUS
<1>0. CASE UNCHANGED <<insns, operations, runs, currInsn, code>>
  BY <1>0 DEF CodeInv, All, Opcode, InCode, IsOperation
<1>1. CASE Build
  BY <1>0, <1>1, BuildBuilds, CodeBuilt
<1>2. CASE StartRun
  <2>1. runs' = runs + 1 /\ currInsn' = OperationFrom(1) /\ UNCHANGED program
        /\ code' = code
    BY <1>2 DEF StartRun
  <2>2. OperationFrom(1) # 0 =>
          OperationFrom(1) \in InCode /\ IsOperation(OperationFrom(1))
    BY FirstInOrder
  <2> QED
    BY <2>1, <2>2 DEF CodeInv, program, All, Opcode, InCode, IsOperation
<1>3. CASE Visit
  <2>1. CASE CodeEdit
    <3>1. /\ currInsn # 0 /\ currInsn' = NextOperation
          /\ UNCHANGED <<operations, runs>>
      BY <2>1 DEF CodeEdit, EndTurn
    <3>2. /\ IsList(insns') /\ \A i \in All : insns'[i] = insns[i]
          /\ \A i \in All' : Opcode(i)' \in Opcodes
          /\ code' \in Seq(All') /\ Injective(code')
          /\ Uses(code) \subseteq Uses(code') \cup {currInsn}
      BY <2>1, EditedCode
    <3>3. PICK q : q = currInsn'
      OBVIOUS
    <3>4. q # 0 => q \in InCode /\ IsOperation(q) /\ q # currInsn
      BY <3>1, <3>3, NextInOrder, OrderIsStrict DEF CodeInv
    <3>5. InCode \subseteq All
      BY CodeNumbers
    <3>6. q # 0 => q \in Uses(code') /\ insns'[q].opcode \in Operations
      BY <3>2, <3>4, <3>5 DEF InCode, IsOperation, Opcode
    <3> QED
      BY <3>1, <3>2, <3>3, <3>6 DEF CodeInv, InCode, IsOperation, Opcode
  <2>2. CASE UNCHANGED <<insns, operations, code, currInsn, runs>>
    BY <1>0, <2>2
  <2> QED
    BY <1>3, <2>1, <2>2, VisitEdits
<1>4. CASE Stopped \/ UNCHANGED peepholeVars
  BY <1>0, <1>4 DEF Stopped, peepholeVars, program
<1> QED
  BY <1>1, <1>2, <1>3, <1>4 DEF PeepholesNext

(* The code is well-formed at every time. *)
LEMMA CodeInvariance == PeepholesSpec => []CodeInv
<1>1. PeepholesInit => CodeInv
  BY CodeInvInit
<1>2. CodeInv /\ [PeepholesNext]_peepholeVars => CodeInv'
  BY CodeInvNext
<1> QED
  BY <1>1, <1>2, PTL DEF PeepholesSpec

(* What Run has yet to visit does not change but for what it has just      *)
(* visited: new instructions are no operations, the others keep their      *)
(* order, and Run goes on behind the one it was at.                        *)
THEOREM TurnsPass == PeepholesSpec => VisitsAdvance
<1> DEFINE Advances == currInsn # 0 /\ outcome' = "running" =>
                         ToVisit' \subseteq ToVisit \ {currInsn}
<1>1. ASSUME CodeInv, CodeInv', PeepholesNext PROVE Advances \/ UNCHANGED peepholeVars
  <2> SUFFICES ASSUME currInsn # 0, outcome' = "running", ~UNCHANGED peepholeVars
               PROVE  ToVisit' \subseteq ToVisit \ {currInsn}
    OBVIOUS
  <2>1. CodeEdit
    <3>1. Visit
      BY <1>1, BuildBuilds DEF PeepholesNext, StartRun, Stopped
    <3> QED
      BY <3>1, VisitEdits
  <2>2. /\ \A i \in All : insns'[i] = insns[i]
        /\ \A i \in All' \ All : ~IsOperation(i)'
        /\ Uses(code') \subseteq Uses(code) \cup {NewInsn}
        /\ SameOrder(code, code')
    BY <1>1, <2>1, EditedCode
  <2>3. currInsn' = NextOperation
    BY <2>1 DEF CodeEdit, EndTurn
  <2>4. ASSUME NEW i \in ToVisit' PROVE i \in ToVisit \ {currInsn}
    <3>1. /\ currInsn' # 0 /\ i \in InCode' /\ IsOperation(i)'
          /\ IndexOf(currInsn)' <= IndexOf(i)'
      BY <2>4 DEF ToVisit
    <3>2. i \in All' /\ i \in All /\ i \in InCode /\ IsOperation(i)
      <4>1. i \in All'
        BY <1>1, <3>1, UsesTyped DEF CodeInv, InCode
      <4>2. i \in All
        BY <2>2, <3>1, <4>1
      <4>3. i \in InCode
        BY <1>1, <2>2, <3>1, <4>2, CodeNumbers DEF InCode
      <4> QED
        BY <2>2, <3>1, <4>1, <4>2, <4>3 DEF IsOperation, Opcode
    <3>3. /\ currInsn' \in InCode /\ InFront(code, currInsn, currInsn')
          /\ currInsn' \in InCode'
      BY <1>1, <2>3, <3>1, NextInOrder DEF CodeInv
    <3>4. i = currInsn' \/ InFront(code', currInsn', i)
      <4>1. i \in Uses(code') /\ currInsn' \in Uses(code') /\ Injective(code')
            /\ code' \in Seq(All')
        BY <1>1, <3>1, <3>3 DEF InCode, CodeInv
      <4>2. PICK k, l : /\ k = CHOOSE m \in 1 .. Len(code') : code'[m] = currInsn'
                        /\ l = CHOOSE m \in 1 .. Len(code') : code'[m] = i
        OBVIOUS
      <4>3. k <= l
        BY <3>1, <4>2, Zenon DEF IndexOf
      <4> QED
        BY <4>1, <4>2, <4>3, PlacesInList
    <3>5. i = currInsn' \/ InFront(code, currInsn', i)
      BY <2>2, <3>1, <3>2, <3>3, <3>4 DEF SameOrder, InCode
    <3>6. InFront(code, currInsn, i)
      BY <1>1, <3>3, <3>5, OrderIsStrict DEF CodeInv
    <3>7. currInsn \in InCode /\ i # currInsn
      BY <1>1, <3>6, OrderIsStrict DEF CodeInv
    <3>8. IndexOf(currInsn) <= IndexOf(i)
      <4>1. PICK k, l : /\ k = CHOOSE m \in 1 .. Len(code) : code[m] = currInsn
                        /\ l = CHOOSE m \in 1 .. Len(code) : code[m] = i
        OBVIOUS
      <4>2. k < l /\ k \in 1 .. Len(code) /\ l \in 1 .. Len(code)
        BY <1>1, <3>2, <3>6, <3>7, <4>1, PlacesInList DEF CodeInv, InCode
      <4>3. k <= l
        BY <4>2
      <4> QED
        BY <4>1, <4>3, Zenon DEF IndexOf
    <3> QED
      BY <3>2, <3>7, <3>8 DEF ToVisit
  <2> QED
    BY <2>4
<1>2. ASSUME CodeInv, CodeInv', [PeepholesNext]_peepholeVars
      PROVE  [Advances]_peepholeVars
  BY <1>1, <1>2
<1> QED
  BY <1>2, CodeInvariance, PTL DEF PeepholesSpec, VisitsAdvance
-----------------------------------------------------------------------------
(* The def-use edges of a program, apart from the state: A are the         *)
(* instructions, op gives their opcodes, one is the constants that are     *)
(* equal to one, cd the code, and S the settled operations, which Run has  *)
(* visited.                                                                *)
Vector(op, i) == op[i] \in {"phi", "call"}

(* Instructions with two inputs. *)
Binary(op, i) == op[i] \in Operations \cup {"add"}

(* How many inputs an instruction has. *)
InputsFit(op, i, s) ==
  /\ Binary(op, i) => Len(s) = 2
  /\ op[i] = "const" => s = <<>>

(* The types of all that. *)
EdgesTyped(A, op, inp, us, cd, S) ==
  /\ op \in [A -> Opcodes] /\ inp \in Lists(A, A) /\ us \in Lists(A, A)
  /\ cd \in Seq(A) /\ Injective(cd)
  /\ \A i \in A : (op[i] = "phi" <=> i = Phi) /\ InputsFit(op, i, inp[i])
  /\ \A i \in S : i \in Uses(cd) /\ op[i] \in Operations

(* What an instruction uses stands in front of it, or is the distance that *)
(* VisitAshr has put right behind it.                                      *)
Ordered(op, inp, cd, S) ==
  \A i \in Uses(cd) : \A d \in Uses(inp[i]) :
    /\ d \in Uses(cd)
    /\ \/ i = Phi \/ InFront(cd, d, i)
       \/ op[i] = "ashr" /\ i \in S /\ RightBehind(cd, i, d) /\ op[d] = "const"

(* The visit of a product with one has taken i out of the users of d.      *)
Explained(op, one, inp, S, i, d) ==
  \E m \in S : /\ op[m] = "mul" /\ inp[m][2] \in one
               /\ d = IF Vector(op, i) THEN m ELSE inp[m][1]

(* But for these, every instruction is a user of its inputs. *)
Known(op, one, inp, us, cd, S) ==
  \A i \in Uses(cd) : \A d \in Uses(inp[i]) :
    i \in Uses(us[d]) \/ Explained(op, one, inp, S, i, d)

(* The users of what is not a constant are some, not more often than they  *)
(* use it.                                                                 *)
Truthful(op, inp, us, cd) ==
  \A d \in Uses(cd) : op[d] # "const" =>
    \A i \in Uses(us[d]) : i \in Uses(cd) /\ Count(us[d], i) <= Count(inp[i], d)

(* Operations that were not visited have each user once, unless it may     *)
(* take any number of inputs.                                              *)
OnceAhead(A, op, us, cd, S) ==
  \A d \in Uses(cd) \ S : op[d] \in Operations =>
    \A i \in A : ~Vector(op, i) => Count(us[d], i) <= 1

(* All of this. *)
EdgesOK(A, op, one, inp, us, cd, S) ==
  /\ EdgesTyped(A, op, inp, us, cd, S)
  /\ Ordered(op, inp, cd, S) /\ Known(op, one, inp, us, cd, S)
  /\ Truthful(op, inp, us, cd) /\ OnceAhead(A, op, us, cd, S)

(* Run is at c: the operations in front of it are settled, and no others. *)
AtTurn(op, cd, S, c) ==
  /\ c \in Uses(cd) \ S /\ op[c] \in Operations
  /\ \A m \in S : InFront(cd, m, c)
  /\ \A m \in Uses(cd) : op[m] \in Operations /\ InFront(cd, m, c) => m \in S

(* What is known of the operation Run is at and of its users: no settled   *)
(* operation uses it, and no user was lost.                                *)
Turning(A, op, inp, us, cd, S, c) ==
  /\ c \in A /\ Uses(cd) \subseteq A /\ c # Phi /\ ~Vector(op, c)
  /\ inp[c] \in Seq(A) /\ Len(inp[c]) = 2
  /\ \A d \in Uses(inp[c]) : d \in Uses(cd) /\ d # c /\ InFront(cd, d, c)
  /\ \A m \in S : c \notin Uses(inp[m])
  /\ \A u \in Uses(cd) : c \in Uses(inp[u]) => u \in Uses(us[c])
  /\ \A u \in Uses(us[c]) :
       /\ u \in Uses(cd) /\ c \in Uses(inp[u]) /\ u # c /\ u \notin S
       /\ u = Phi \/ InFront(cd, c, u)
       /\ ~Vector(op, u) => Len(inp[u]) = 2 /\ Count(us[c], u) = 1

(* All that follows from the order. *)
LEMMA TurnFacts ==
  ASSUME NEW A, NEW op, NEW one, NEW inp, NEW us, NEW cd, NEW S, NEW c,
         EdgesOK(A, op, one, inp, us, cd, S), AtTurn(op, cd, S, c)
  PROVE  Turning(A, op, inp, us, cd, S, c)
<1>1. /\ op \in [A -> Opcodes] /\ inp \in Lists(A, A) /\ us \in Lists(A, A)
      /\ cd \in Seq(A) /\ Injective(cd)
      /\ \A i \in A : (op[i] = "phi" <=> i = Phi) /\ InputsFit(op, i, inp[i])
      /\ \A i \in S : i \in Uses(cd) /\ op[i] \in Operations
  BY DEF EdgesOK, EdgesTyped
<1>2. c \in Uses(cd) /\ c \notin S /\ op[c] \in Operations /\ Uses(cd) \subseteq A
  BY <1>1, UsesTyped DEF AtTurn
<1>3. c \in A /\ c # Phi /\ ~Vector(op, c) /\ op[c] # "const"
  <2>1. op[c] # "phi" /\ op[c] # "call" /\ op[c] # "const"
    BY <1>2 DEF Operations
  <2>2. c \in A /\ c # Phi
    BY <1>1, <1>2, <2>1
  <2> QED
    BY <2>1, <2>2 DEF Vector
<1>4. inp[c] \in Seq(A) /\ Len(inp[c]) = 2
  BY <1>1, <1>2, <1>3 DEF Lists, InputsFit, Binary
<1>5. /\ \A a, b : InFront(cd, a, b) => ~InFront(cd, b, a) /\ a # b
      /\ \A a, b : RightBehind(cd, a, b) => InFront(cd, a, b)
  BY <1>1, OrderIsStrict
<1>6. ASSUME NEW d \in Uses(inp[c])
      PROVE  d \in Uses(cd) /\ d # c /\ InFront(cd, d, c)
  BY <1>2, <1>3, <1>5, <1>6 DEF EdgesOK, Ordered
<1>7. ASSUME NEW i \in Uses(cd), c \in Uses(inp[i])
      PROVE  i = Phi \/ InFront(cd, c, i)
  BY <1>3, <1>7 DEF EdgesOK, Ordered
<1>8. ASSUME NEW m \in S PROVE c \notin Uses(inp[m]) /\ m # Phi
  <2>1. m \in Uses(cd) /\ m # Phi
    <3>1. m \in Uses(cd) /\ op[m] \in Operations /\ m \in A
      BY <1>1, <1>2
    <3> QED
      BY <1>1, <3>1 DEF Operations
  <2>2. InFront(cd, m, c)
    BY DEF AtTurn
  <2> QED
    BY <1>5, <1>7, <2>1, <2>2
<1>9. ASSUME NEW u \in Uses(cd), c \in Uses(inp[u])
      PROVE  u \in Uses(us[c])
  <2>1. SUFFICES ASSUME Explained(op, one, inp, S, u, c) PROVE FALSE
    BY <1>9 DEF EdgesOK, Known
  <2>2. PICK m \in S : op[m] = "mul" /\ (c = m \/ c = inp[m][1])
    BY <2>1 DEF Explained
  <2>3. m \in A /\ inp[m] \in Seq(A) /\ Len(inp[m]) = 2
    BY <1>1, <1>2, <2>2 DEF Lists, InputsFit, Binary, Operations
  <2>4. inp[m][1] \in Uses(inp[m])
    BY <2>3, TwoInputs
  <2> QED
    BY <1>2, <1>8, <2>2, <2>4
<1>10. ASSUME NEW u \in Uses(us[c])
       PROVE  /\ u \in Uses(cd) /\ c \in Uses(inp[u]) /\ u # c /\ u \notin S
              /\ u = Phi \/ InFront(cd, c, u)
              /\ ~Vector(op, u) => Len(inp[u]) = 2 /\ Count(us[c], u) = 1
  <2>1. us[c] \in Seq(A) /\ u \in A
    BY <1>1, <1>3, UsesTyped DEF Lists
  <2>2. u \in Uses(cd) /\ Count(us[c], u) <= Count(inp[u], c)
    BY <1>2, <1>3 DEF EdgesOK, Truthful
  <2>3. inp[u] \in Seq(A) /\ Count(us[c], u) \in Nat /\ Count(us[c], u) # 0
    BY <1>1, <2>1, CountUses DEF Lists
  <2>4. Count(inp[u], c) \in Nat /\ (Count(inp[u], c) # 0 => c \in Uses(inp[u]))
    BY <2>3, CountUses
  <2>5. c \in Uses(inp[u])
    BY <2>2, <2>3, <2>4
  <2>6. u # c /\ u \notin S
    BY <1>6, <1>8, <2>5
  <2>7. ASSUME ~Vector(op, u) PROVE Len(inp[u]) = 2 /\ Count(us[c], u) = 1
    <3>1. Count(us[c], u) <= 1
      BY <1>2, <2>1, <2>7 DEF EdgesOK, OnceAhead
    <3>2. op[u] # "const"
      BY <1>1, <2>1, <2>5 DEF InputsFit, Uses
    <3>3. Binary(op, u)
      BY <1>1, <2>1, <2>7, <3>2 DEF Vector, Binary, Opcodes
    <3> QED
      BY <1>1, <2>1, <2>3, <3>1, <3>3 DEF InputsFit
  <2> QED
    BY <1>7, <2>2, <2>5, <2>6, <2>7
<1> QED
  BY <1>2, <1>3, <1>4, <1>6, <1>8, <1>9, <1>10 DEF Turning

(* More operations may be settled. *)
LEMMA Settle ==
  ASSUME NEW A, NEW op, NEW one, NEW inp, NEW us, NEW cd, NEW S, NEW c,
         EdgesOK(A, op, one, inp, us, cd, S), AtTurn(op, cd, S, c)
  PROVE  EdgesOK(A, op, one, inp, us, cd, S \cup {c})
<1>1. EdgesTyped(A, op, inp, us, cd, S \cup {c})
  BY DEF EdgesOK, EdgesTyped, AtTurn
<1>2. Ordered(op, inp, cd, S \cup {c})
  BY DEF EdgesOK, Ordered
<1>3. Known(op, one, inp, us, cd, S \cup {c})
  BY DEF EdgesOK, Known, Explained
<1>4. OnceAhead(A, op, us, cd, S \cup {c})
  BY DEF EdgesOK, OnceAhead
<1> QED
  BY <1>1, <1>2, <1>3, <1>4 DEF EdgesOK

(* Swapping the inputs of the operation Run is at changes no edge. *)
LEMMA SwapInputs ==
  ASSUME NEW A, NEW op, NEW one, NEW inp, NEW us, NEW cd, NEW S, NEW c,
         EdgesOK(A, op, one, inp, us, cd, S), AtTurn(op, cd, S, c),
         NEW s, s \in {inp[c], Reverse(inp[c])}
  PROVE  /\ EdgesOK(A, op, one, [inp EXCEPT ![c] = s], us, cd, S)
         /\ s \in Seq(A) /\ Len(s) = 2 /\ Uses(s) = Uses(inp[c])
         /\ \A x : Count(s, x) = Count(inp[c], x)
<1> DEFINE inp2 == [inp EXCEPT ![c] = s]
<1>1. /\ c \in A /\ Uses(cd) \subseteq A /\ inp[c] \in Seq(A) /\ Len(inp[c]) = 2
      /\ \A d \in Uses(inp[c]) : d \in Uses(cd) /\ InFront(cd, d, c)
      /\ inp \in Lists(A, A) /\ us \in Lists(A, A)
  <2>1. Turning(A, op, inp, us, cd, S, c)
    BY TurnFacts, Zenon
  <2> QED
    BY <2>1 DEF Turning, EdgesOK, EdgesTyped
<1>2. s \in Seq(A) /\ Len(s) = 2 /\ s[1] \in A /\ s[2] \in A
      /\ \/ s[1] = inp[c][1] /\ s[2] = inp[c][2]
         \/ s[1] = inp[c][2] /\ s[2] = inp[c][1]
  <2>1. inp[c][1] \in A /\ inp[c][2] \in A
    BY <1>1
  <2>2. CASE s = inp[c]
    BY <1>1, <2>1, <2>2
  <2>3. CASE s = Reverse(inp[c])
    <3>1. s = [k \in 1 .. 2 |-> inp[c][(2 - k) + 1]]
      BY <1>1, <2>3 DEF Reverse
    <3>2. s[1] = inp[c][2] /\ s[2] = inp[c][1]
      BY <3>1
    <3>3. s = <<inp[c][2], inp[c][1]>>
      BY <3>1
    <3> QED
      BY <2>1, <3>2, <3>3
  <2> QED
    BY <2>2, <2>3
<1>3. Uses(s) = Uses(inp[c])
  <2>1. Uses(s) = {s[1], s[2]}
    BY <1>2, TwoInputs
  <2>2. Uses(inp[c]) = {inp[c][1], inp[c][2]}
    BY <1>1, TwoInputs
  <2> QED
    BY <1>2, <2>1, <2>2
<1>4. ASSUME NEW x PROVE Count(s, x) = Count(inp[c], x)
  <2>1. Count(s, x) = (IF s[1] = x THEN 1 ELSE 0) + (IF s[2] = x THEN 1 ELSE 0)
    BY <1>2, TwoInputs
  <2>2. Count(inp[c], x) = (IF inp[c][1] = x THEN 1 ELSE 0)
                             + (IF inp[c][2] = x THEN 1 ELSE 0)
    BY <1>1, TwoInputs
  <2> QED
    BY <1>2, <2>1, <2>2
<1>5. inp2 \in Lists(A, A) /\ inp2[c] = s /\ \A i \in A \ {c} : inp2[i] = inp[i]
  BY <1>1, <1>2 DEF Lists
<1> HIDE DEF inp2
<1>6. \A i \in A : Uses(inp2[i]) = Uses(inp[i]) /\ \A x : Count(inp2[i], x) = Count(inp[i], x)
  BY <1>3, <1>4, <1>5
<1>7. \A m \in S : m \in A /\ m # c
  BY <1>1 DEF EdgesOK, EdgesTyped, AtTurn
<1>8. EdgesTyped(A, op, inp2, us, cd, S)
  <2>1. op[c] # "const"
    BY DEF AtTurn, Operations
  <2>2. \A i \in A : InputsFit(op, i, inp2[i])
    BY <1>2, <1>5, <2>1 DEF EdgesOK, EdgesTyped, InputsFit
  <2> QED
    BY <1>5, <2>2 DEF EdgesOK, EdgesTyped
<1>9. Ordered(op, inp2, cd, S)
  BY <1>1, <1>6 DEF EdgesOK, Ordered
<1>10. Known(op, one, inp2, us, cd, S)
  BY <1>1, <1>5, <1>6, <1>7 DEF EdgesOK, Known, Explained
<1>11. Truthful(op, inp2, us, cd)
  BY <1>1, <1>6 DEF EdgesOK, Truthful
<1> QED
  BY <1>2, <1>3, <1>4, <1>8, <1>9, <1>10, <1>11 DEF EdgesOK, inp2

(* ReplaceInputsForUsers(c, x) and the removal of c: the users of c have x *)
(* as their input and an entry for it, and c has none.                     *)
WayGiven(A, inp, us, inp2, us2, c, x) ==
  /\ inp2 \in Lists(A, A) /\ us2 \in Lists(A, A)
  /\ \A u \in A : inp2[u] = IF u \in Uses(us[c]) THEN ReplaceAll(inp[u], c, x)
                            ELSE inp[u]
  /\ \A d \in A \ {c} :
       /\ \A u : u # c =>
            Count(us2[d], u) =
              Count(us[d], u) + (IF d = x /\ u \in Uses(us[c]) THEN 1 ELSE 0)
       /\ Count(us[d], c) <= Count(inp[c], d) => Count(us2[d], c) = 0

(* What the inputs are after that. *)
InputsGiven(A, inp, us, inp2, cd, S, c, x) ==
  /\ \A m \in S \cup {c} : inp2[m] = inp[m]
  /\ \A u \in A : Len(inp2[u]) = Len(inp[u])
  /\ \A u \in Uses(cd) : \A d \in Uses(inp2[u]) :
       d # c /\ (d \in Uses(inp[u]) \/ (d = x /\ u \in Uses(us[c])))
  /\ \A u \in Uses(cd) : \A d \in A \ {c} :
       Count(inp2[u], d) \in Nat /\ Count(inp[u], d) \in Nat
       /\ Count(inp2[u], d) >=
            Count(inp[u], d) + (IF d = x /\ u \in Uses(us[c]) THEN 1 ELSE 0)

(* They are that. *)
LEMMA WayGivenFacts ==
  ASSUME NEW A, NEW op, NEW one, NEW inp, NEW us, NEW cd, NEW S, NEW c, NEW x \in Uses(cd),
         NEW inp2, NEW us2, EdgesOK(A, op, one, inp, us, cd, S), AtTurn(op, cd, S, c),
         InFront(cd, x, c), WayGiven(A, inp, us, inp2, us2, c, x)
  PROVE  InputsGiven(A, inp, us, inp2, cd, S, c, x)
<1>1. /\ c \in A /\ Uses(cd) \subseteq A /\ c # x /\ x \in A
      /\ inp \in Lists(A, A) /\ cd \in Seq(A) /\ Injective(cd)
      /\ \A m \in S : c \notin Uses(inp[m]) /\ m \in A
      /\ \A u \in Uses(cd) : c \in Uses(inp[u]) => u \in Uses(us[c])
      /\ \A u \in Uses(us[c]) : u \in Uses(cd) /\ c \in Uses(inp[u]) /\ u # c /\ u \notin S
  <2>1. /\ inp \in Lists(A, A) /\ cd \in Seq(A) /\ Injective(cd) /\ Uses(cd) \subseteq A
        /\ \A m \in S : m \in Uses(cd)
    BY UsesTyped DEF EdgesOK, EdgesTyped
  <2>2. c # x
    BY <2>1, OrderIsStrict
  <2>3. Turning(A, op, inp, us, cd, S, c)
    BY TurnFacts, Zenon
  <2> QED
    BY <2>1, <2>2, <2>3 DEF Turning
<1>2. \A u \in A : inp2[u] = IF u \in Uses(us[c]) THEN ReplaceAll(inp[u], c, x) ELSE inp[u]
  BY DEF WayGiven
<1>3. \A u \in A : inp[u] \in Seq(A)
  BY <1>1 DEF Lists
<1>4. \A m \in S \cup {c} : inp2[m] = inp[m]
  BY <1>1, <1>2
<1>5. ASSUME NEW u \in A PROVE Len(inp2[u]) = Len(inp[u])
  BY <1>1, <1>2, <1>3, ReplaceAllLen
<1>6. ASSUME NEW u \in Uses(cd), NEW d \in Uses(inp2[u])
      PROVE  d # c /\ (d \in Uses(inp[u]) \/ (d = x /\ u \in Uses(us[c])))
  <2>1. CASE u \in Uses(us[c])
    <3>1. Uses(inp2[u]) = (Uses(inp[u]) \ {c}) \cup {x}
      BY <1>1, <1>2, <1>3, <2>1, UsesReplaceAll
    <3> QED
      BY <1>1, <1>6, <2>1, <3>1
  <2>2. CASE u \notin Uses(us[c])
    BY <1>1, <1>2, <1>6, <2>2
  <2> QED
    BY <2>1, <2>2
<1>7. ASSUME NEW u \in Uses(cd), NEW d \in A \ {c}
      PROVE  Count(inp2[u], d) \in Nat /\ Count(inp[u], d) \in Nat
             /\ Count(inp2[u], d) >=
                  Count(inp[u], d) + (IF d = x /\ u \in Uses(us[c]) THEN 1 ELSE 0)
  <2>1. u \in A /\ Count(inp[u], d) \in Nat /\ inp[u] \in Seq(A)
    BY <1>1, <1>3, CountUses
  <2>2. CASE u \in Uses(us[c])
    <3>1. inp2[u] = ReplaceAll(inp[u], c, x)
      BY <1>2, <2>1, <2>2
    <3>2. /\ inp2[u] \in Seq(A)
          /\ Count(inp2[u], d) = IF d = x THEN Count(inp[u], x) + Count(inp[u], c)
                                 ELSE Count(inp[u], d)
      BY <1>1, <2>1, <3>1, CountReplaceAll
    <3>3. Count(inp[u], c) \in Nat /\ Count(inp[u], c) # 0 /\ Count(inp2[u], d) \in Nat
      BY <1>1, <2>1, <2>2, <3>2, CountUses
    <3> QED
      BY <2>1, <3>2, <3>3
  <2>3. CASE u \notin Uses(us[c])
    BY <1>2, <2>1, <2>3
  <2> QED
    BY <2>2, <2>3
<1> QED
  BY <1>4, <1>5, <1>6, <1>7 DEF InputsGiven

(* When an operation gives way to what stands in front of it, the edges    *)
(* stay in order.                                                          *)
LEMMA OneGivesWay ==
  ASSUME NEW A, NEW op, NEW one, NEW inp, NEW us, NEW cd, NEW S, NEW c, NEW x \in Uses(cd),
         NEW inp2, NEW us2, EdgesOK(A, op, one, inp, us, cd, S), AtTurn(op, cd, S, c),
         InFront(cd, x, c), WayGiven(A, inp, us, inp2, us2, c, x),
         NEW cd2 \in Seq(A), Injective(cd2), Uses(cd2) = Uses(cd) \ {c},
         SameOrder(cd, cd2), SameNeighbours(cd, cd2)
  PROVE  EdgesOK(A, op, one, inp2, us2, cd2, S)
<1>1. /\ op \in [A -> Opcodes] /\ inp \in Lists(A, A) /\ us \in Lists(A, A)
      /\ cd \in Seq(A) /\ Injective(cd) /\ Uses(cd) \subseteq A
      /\ \A i \in A : (op[i] = "phi" <=> i = Phi) /\ InputsFit(op, i, inp[i])
      /\ \A i \in S : i \in Uses(cd) /\ op[i] \in Operations
  BY UsesTyped DEF EdgesOK, EdgesTyped
<1>2. /\ c \in A /\ c \notin S /\ c # Phi /\ op[c] # "const"
      /\ \A d \in Uses(inp[c]) : d \in Uses(cd) /\ InFront(cd, d, c)
      /\ \A m \in S : c \notin Uses(inp[m])
      /\ \A u \in Uses(us[c]) : /\ u \in Uses(cd) /\ c \in Uses(inp[u]) /\ u # c /\ u \notin S
                                /\ u = Phi \/ InFront(cd, c, u)
  <2>1. op[c] # "const" /\ c \notin S
    BY DEF AtTurn, Operations
  <2>2. Turning(A, op, inp, us, cd, S, c)
    BY TurnFacts, Zenon
  <2> QED
    BY <2>1, <2>2 DEF Turning
<1>3. /\ \A a, b : InFront(cd, a, b) => ~InFront(cd, b, a) /\ a # b
      /\ \A a, b, d : InFront(cd, a, b) /\ InFront(cd, b, d) => InFront(cd, a, d)
  BY <1>1, OrderIsStrict
<1>4. /\ \A m \in S \cup {c} : inp2[m] = inp[m]
      /\ \A u \in A : Len(inp2[u]) = Len(inp[u])
      /\ \A u \in Uses(cd) : \A d \in Uses(inp2[u]) :
           d # c /\ (d \in Uses(inp[u]) \/ (d = x /\ u \in Uses(us[c])))
      /\ \A u \in Uses(cd) : \A d \in A \ {c} :
           Count(inp2[u], d) \in Nat /\ Count(inp[u], d) \in Nat
           /\ Count(inp2[u], d) >=
                Count(inp[u], d) + (IF d = x /\ u \in Uses(us[c]) THEN 1 ELSE 0)
  <2>1. InputsGiven(A, inp, us, inp2, cd, S, c, x)
    BY WayGivenFacts, Zenon
  <2> QED
    BY <2>1 DEF InputsGiven
<1>5. /\ inp2 \in Lists(A, A) /\ us2 \in Lists(A, A)
      /\ \A d \in A \ {c} : \A u : u # c =>
           Count(us2[d], u) = Count(us[d], u) + (IF d = x /\ u \in Uses(us[c]) THEN 1 ELSE 0)
      /\ \A d \in A \ {c} : Count(us[d], c) <= Count(inp[c], d) => Count(us2[d], c) = 0
      /\ \A u \in A : u \notin Uses(us[c]) => inp2[u] = inp[u]
  BY DEF WayGiven
<1>6. \A d \in A : \A u : /\ Count(us[d], u) \in Nat /\ Count(us2[d], u) \in Nat
                          /\ u \in Uses(us[d]) <=> Count(us[d], u) # 0
                          /\ u \in Uses(us2[d]) <=> Count(us2[d], u) # 0
  <2>1. \A d \in A : us[d] \in Seq(A) /\ us2[d] \in Seq(A)
    BY <1>1, <1>5 DEF Lists
  <2> QED
    BY <2>1, CountUses
<1>7. ASSUME NEW d \in Uses(cd), op[d] # "const" PROVE Count(us[d], c) <= Count(inp[c], d)
  <2>1. CASE c \in Uses(us[d])
    BY <1>7, <2>1 DEF EdgesOK, Truthful
  <2>2. CASE c \notin Uses(us[d])
    <3>1. Count(us[d], c) = 0 /\ d \in A
      BY <1>1, <1>6, <2>2
    <3>2. Count(inp[c], d) \in Nat
      BY <1>1, <1>2, CountUses DEF Lists
    <3> QED
      BY <3>1, <3>2
  <2> QED
    BY <2>1, <2>2
<1>8. EdgesTyped(A, op, inp2, us2, cd2, S)
  <2>1. \A i \in A : InputsFit(op, i, inp2[i])
    <3> SUFFICES ASSUME NEW i \in A PROVE InputsFit(op, i, inp2[i])
      OBVIOUS
    <3>1. CASE i \in Uses(us[c])
      <4>1. op[i] # "const"
        BY <1>1, <1>2, <3>1 DEF InputsFit, Uses
      <4> QED
        BY <1>1, <1>4, <4>1 DEF InputsFit
    <3>2. CASE i \notin Uses(us[c])
      BY <1>1, <1>5, <3>2
    <3> QED
      BY <3>1, <3>2
  <2> QED
    BY <1>1, <1>2, <1>5, <2>1 DEF EdgesTyped
<1>9. Ordered(op, inp2, cd2, S)
  <2> SUFFICES ASSUME NEW i \in Uses(cd2), NEW d \in Uses(inp2[i])
               PROVE  /\ d \in Uses(cd2)
                      /\ \/ i = Phi \/ InFront(cd2, d, i)
                         \/ op[i] = "ashr" /\ i \in S /\ RightBehind(cd2, i, d)
                            /\ op[d] = "const"
    BY DEF Ordered
  <2>1. i \in Uses(cd) /\ i # c /\ d # c
    BY <1>4
  <2>2. CASE d \in Uses(inp[i])
    <3>1. /\ d \in Uses(cd)
          /\ \/ i = Phi \/ InFront(cd, d, i)
             \/ op[i] = "ashr" /\ i \in S /\ RightBehind(cd, i, d) /\ op[d] = "const"
      BY <2>1, <2>2 DEF EdgesOK, Ordered
    <3>2. d \in Uses(cd2) /\ d \in Uses(cd) \cap Uses(cd2) /\ i \in Uses(cd) \cap Uses(cd2)
      BY <2>1, <3>1
    <3> QED
      BY <3>1, <3>2 DEF SameOrder, SameNeighbours
  <2>3. CASE d = x /\ i \in Uses(us[c])
    <3>1. d \in Uses(cd) \cap Uses(cd2) /\ i \in Uses(cd) \cap Uses(cd2)
      BY <2>1, <2>3
    <3>2. i = Phi \/ InFront(cd, d, i)
      BY <1>2, <1>3, <2>3
    <3> QED
      BY <3>1, <3>2 DEF SameOrder
  <2> QED
    BY <1>4, <2>1, <2>2, <2>3
<1>10. Known(op, one, inp2, us2, cd2, S)
  <2> SUFFICES ASSUME NEW i \in Uses(cd2), NEW d \in Uses(inp2[i])
               PROVE  i \in Uses(us2[d]) \/ Explained(op, one, inp2, S, i, d)
    BY DEF Known
  <2>1. i \in Uses(cd) /\ i # c /\ d # c /\ i \in A
    BY <1>1, <1>4
  <2>2. d \in A
    BY <1>1, <1>4, <2>1 DEF EdgesOK, Ordered
  <2>3. Count(us2[d], i) = Count(us[d], i) + (IF d = x /\ i \in Uses(us[c]) THEN 1 ELSE 0)
    BY <1>5, <2>1, <2>2
  <2>4. CASE d \in Uses(inp[i])
    <3>1. i \in Uses(us[d]) \/ Explained(op, one, inp, S, i, d)
      BY <2>1, <2>4 DEF EdgesOK, Known
    <3>2. i \in Uses(us[d]) => i \in Uses(us2[d])
      BY <1>6, <2>2, <2>3
    <3> QED
      BY <1>4, <3>1, <3>2 DEF Explained
  <2>5. CASE d = x /\ i \in Uses(us[c])
    BY <1>6, <2>2, <2>3, <2>5
  <2> QED
    BY <1>4, <2>1, <2>4, <2>5
<1>11. Truthful(op, inp2, us2, cd2)
  <2> SUFFICES ASSUME NEW d \in Uses(cd2), op[d] # "const", NEW i \in Uses(us2[d])
               PROVE  i \in Uses(cd2) /\ Count(us2[d], i) <= Count(inp2[i], d)
    BY DEF Truthful
  <2>1. d \in Uses(cd) /\ d # c /\ d \in A
    BY <1>1
  <2>2. i # c
    BY <1>5, <1>6, <1>7, <2>1, Zenon
  <2>3. Count(us2[d], i) = Count(us[d], i) + (IF d = x /\ i \in Uses(us[c]) THEN 1 ELSE 0)
    BY <1>5, <2>1, <2>2
  <2>4. i \in Uses(us[d]) => i \in Uses(cd) /\ Count(us[d], i) <= Count(inp[i], d)
    BY <2>1 DEF EdgesOK, Truthful
  <2>5. i \in Uses(cd)
    <3>1. i \in Uses(us[d]) \/ i \in Uses(us[c])
      BY <1>6, <2>1, <2>3
    <3> QED
      BY <1>2, <2>4, <3>1
  <2>6. /\ Count(inp2[i], d) \in Nat /\ Count(inp[i], d) \in Nat
        /\ Count(inp2[i], d) >=
             Count(inp[i], d) + (IF d = x /\ i \in Uses(us[c]) THEN 1 ELSE 0)
    BY <1>4, <2>1, <2>5
  <2>7. Count(us[d], i) <= Count(inp[i], d) /\ Count(us[d], i) \in Nat
    <3>1. /\ Count(us[d], i) \in Nat
          /\ i \notin Uses(us[d]) => Count(us[d], i) = 0
      BY <1>6, <2>1
    <3> QED
      BY <2>4, <2>6, <3>1
  <2> QED
    BY <2>2, <2>3, <2>5, <2>6, <2>7
<1>12. OnceAhead(A, op, us2, cd2, S)
  <2> SUFFICES ASSUME NEW d \in Uses(cd2) \ S, op[d] \in Operations, NEW i \in A,
                      ~Vector(op, i)
               PROVE  Count(us2[d], i) <= 1
    BY DEF OnceAhead
  <2>1. d \in Uses(cd) \ S /\ d # c /\ d \in A /\ op[d] # "const"
    BY <1>1 DEF Operations
  <2>2. d # x
    BY <2>1 DEF AtTurn
  <2>3. CASE i = c
    BY <1>5, <1>7, <2>1, <2>3
  <2>4. CASE i # c
    <3>1. Count(us2[d], i) = Count(us[d], i) + 0
      BY <1>5, <2>1, <2>2, <2>4
    <3>2. Count(us[d], i) <= 1
      BY <2>1 DEF EdgesOK, OnceAhead
    <3>3. Count(us[d], i) \in Nat
      BY <1>6, <2>1
    <3> QED
      BY <3>1, <3>2, <3>3
  <2> QED
    BY <2>3, <2>4
<1> QED
  BY <1>8, <1>9, <1>10, <1>11, <1>12 DEF EdgesOK

(* There is a new instruction n with the inputs s. *)
Grown(A, op, one, inp, us, n, s, op2, one2, inp2, us2) ==
  /\ n \notin A /\ n # Phi
  /\ op2 \in [A \cup {n} -> Opcodes] /\ op2[n] # "phi" /\ InputsFit(op2, n, s)
  /\ \A i \in A : op2[i] = op[i]
  /\ one \subseteq one2
  /\ inp2 \in Lists(A \cup {n}, A \cup {n}) /\ us2 \in Lists(A \cup {n}, A \cup {n})
  /\ inp2[n] = s /\ us2[n] = <<>>
  /\ \A i \in A : inp2[i] = inp[i]
  /\ \A d \in A : /\ \A i : i # n => Count(us2[d], i) = Count(us[d], i)
                  /\ Count(us2[d], n) <= Count(s, d)
                  /\ d \in Uses(s) => Count(us2[d], n) # 0

(* It is put into the code cd behind its inputs, and not between a settled *)
(* shift and the distance of it.                                           *)
PutIn(A, op, op2, us2, cd, cd2, S, n, s) ==
  /\ Uses(s) \subseteq Uses(cd)
  /\ \A d \in Uses(cd) \ S :
       op[d] \in Operations /\ ~Vector(op2, n) => Count(us2[d], n) <= 1
  /\ cd2 \in Seq(A \cup {n}) /\ Injective(cd2) /\ Uses(cd2) = Uses(cd) \cup {n}
  /\ SameOrder(cd, cd2) /\ \A d \in Uses(s) : InFront(cd2, d, n)
  /\ \A a \in S, b \in Uses(cd) :
       op[b] = "const" /\ RightBehind(cd, a, b) => RightBehind(cd2, a, b)

(* Then the edges stay in order. *)
LEMMA OneMore ==
  ASSUME NEW A, NEW op, NEW one, NEW inp, NEW us, NEW cd, NEW S,
         EdgesOK(A, op, one, inp, us, cd, S),
         NEW n, NEW s, NEW op2, NEW one2, NEW inp2, NEW us2, NEW cd2,
         Grown(A, op, one, inp, us, n, s, op2, one2, inp2, us2),
         PutIn(A, op, op2, us2, cd, cd2, S, n, s)
  PROVE  EdgesOK(A \cup {n}, op2, one2, inp2, us2, cd2, S)
<1> DEFINE B == A \cup {n}
<1>0. /\ B = A \cup {n} /\ Uses(s) \subseteq Uses(cd)
      /\ \A d \in Uses(cd) \ S :
           op[d] \in Operations /\ ~Vector(op2, n) => Count(us2[d], n) <= 1
      /\ cd2 \in Seq(B) /\ Injective(cd2) /\ Uses(cd2) = Uses(cd) \cup {n}
      /\ SameOrder(cd, cd2) /\ \A d \in Uses(s) : InFront(cd2, d, n)
      /\ \A a \in S, b \in Uses(cd) :
           op[b] = "const" /\ RightBehind(cd, a, b) => RightBehind(cd2, a, b)
  BY DEF PutIn
<1> USE <1>0
<1> HIDE DEF B
<1>1. /\ op \in [A -> Opcodes] /\ inp \in Lists(A, A) /\ us \in Lists(A, A)
      /\ cd \in Seq(A) /\ Injective(cd) /\ Uses(cd) \subseteq A
      /\ \A i \in A : (op[i] = "phi" <=> i = Phi) /\ InputsFit(op, i, inp[i])
      /\ \A i \in S : i \in Uses(cd) /\ op[i] \in Operations
  BY UsesTyped DEF EdgesOK, EdgesTyped
<1>2. /\ n \notin A /\ n # Phi /\ op2 \in [B -> Opcodes] /\ op2[n] # "phi"
      /\ InputsFit(op2, n, s) /\ one \subseteq one2
      /\ inp2 \in Lists(B, B) /\ us2 \in Lists(B, B) /\ inp2[n] = s /\ us2[n] = <<>>
      /\ \A i \in A : op2[i] = op[i] /\ inp2[i] = inp[i]
      /\ \A d \in A : /\ \A i : i # n => Count(us2[d], i) = Count(us[d], i)
                      /\ Count(us2[d], n) <= Count(s, d)
                      /\ d \in Uses(s) => Count(us2[d], n) # 0
  BY DEF Grown
<1>3. /\ \A d \in A : \A u : /\ Count(us[d], u) \in Nat /\ Count(us2[d], u) \in Nat
                             /\ u \in Uses(us[d]) <=> Count(us[d], u) # 0
                             /\ u \in Uses(us2[d]) <=> Count(us2[d], u) # 0
      /\ \A i \in Uses(cd) : Uses(inp[i]) \subseteq Uses(cd)
      /\ Uses(us2[n]) = {} /\ \A u : Count(us2[n], u) = 0
  <2>1. \A d \in A : us[d] \in Seq(A) /\ us2[d] \in Seq(B)
    BY <1>1, <1>2 DEF Lists
  <2>2. us2[n] \in Seq(B) /\ Uses(us2[n]) = {}
    BY <1>2 DEF Uses
  <2>3. \A u : Count(us2[n], u) = 0
    BY <2>2, CountUses
  <2> QED
    BY <2>1, <2>2, <2>3, CountUses DEF EdgesOK, Ordered
<1>4. EdgesTyped(B, op2, inp2, us2, cd2, S)
  <2>1. \A i \in B : (op2[i] = "phi" <=> i = Phi) /\ InputsFit(op2, i, inp2[i])
    <3> SUFFICES ASSUME NEW i \in B
                 PROVE  (op2[i] = "phi" <=> i = Phi) /\ InputsFit(op2, i, inp2[i])
      OBVIOUS
    <3>1. CASE i = n
      BY <1>2, <3>1
    <3>2. CASE i \in A
      BY <1>1, <1>2, <3>2 DEF InputsFit, Binary
    <3> QED
      BY <3>1, <3>2
  <2> QED
    BY <1>1, <1>2, <2>1 DEF EdgesTyped
<1>5. Ordered(op2, inp2, cd2, S)
  <2> SUFFICES ASSUME NEW i \in Uses(cd2), NEW d \in Uses(inp2[i])
               PROVE  /\ d \in Uses(cd2)
                      /\ \/ i = Phi \/ InFront(cd2, d, i)
                         \/ op2[i] = "ashr" /\ i \in S /\ RightBehind(cd2, i, d)
                            /\ op2[d] = "const"
    BY DEF Ordered
  <2>1. CASE i = n
    BY <1>2, <2>1
  <2>2. CASE i \in Uses(cd)
    <3>1. i \in A /\ d \in Uses(inp[i]) /\ d \in Uses(cd) /\ d \in A
      BY <1>1, <1>2, <1>3, <2>2
    <3>2. \/ i = Phi \/ InFront(cd, d, i)
          \/ op[i] = "ashr" /\ i \in S /\ RightBehind(cd, i, d) /\ op[d] = "const"
      BY <2>2, <3>1 DEF EdgesOK, Ordered
    <3>3. InFront(cd, d, i) => InFront(cd2, d, i)
      BY <2>2, <3>1 DEF SameOrder
    <3> QED
      BY <1>2, <3>1, <3>2, <3>3
  <2> QED
    BY <2>1, <2>2
<1>6. Known(op2, one2, inp2, us2, cd2, S)
  <2> SUFFICES ASSUME NEW i \in Uses(cd2), NEW d \in Uses(inp2[i])
               PROVE  i \in Uses(us2[d]) \/ Explained(op2, one2, inp2, S, i, d)
    BY DEF Known
  <2>1. CASE i = n
    <3>1. d \in Uses(s) /\ d \in A
      BY <1>1, <1>2, <2>1
    <3> QED
      BY <1>2, <1>3, <2>1, <3>1
  <2>2. CASE i \in Uses(cd)
    <3>1. i \in A /\ i # n /\ d \in Uses(inp[i]) /\ d \in A
      BY <1>1, <1>2, <1>3, <2>2
    <3>2. i \in Uses(us[d]) \/ Explained(op, one, inp, S, i, d)
      BY <2>2, <3>1 DEF EdgesOK, Known
    <3>3. i \in Uses(us[d]) => i \in Uses(us2[d])
      BY <1>2, <1>3, <3>1
    <3>4. ASSUME Explained(op, one, inp, S, i, d)
          PROVE  Explained(op2, one2, inp2, S, i, d)
      <4>1. PICK m \in S : /\ op[m] = "mul" /\ inp[m][2] \in one
                           /\ d = IF Vector(op, i) THEN m ELSE inp[m][1]
        BY <3>4 DEF Explained
      <4>2. m \in A
        BY <1>1, <4>1
      <4> QED
        BY <1>2, <3>1, <4>1, <4>2 DEF Explained, Vector
    <3> QED
      BY <3>2, <3>3, <3>4
  <2> QED
    BY <2>1, <2>2
<1>7. Truthful(op2, inp2, us2, cd2)
  <2> SUFFICES ASSUME NEW d \in Uses(cd2), op2[d] # "const", NEW i \in Uses(us2[d])
               PROVE  i \in Uses(cd2) /\ Count(us2[d], i) <= Count(inp2[i], d)
    BY DEF Truthful
  <2>1. d \in Uses(cd) /\ d \in A
    BY <1>1, <1>3
  <2>2. CASE i = n
    BY <1>2, <2>1, <2>2
  <2>3. CASE i # n
    <3>1. Count(us2[d], i) = Count(us[d], i) /\ i \in Uses(us[d])
      BY <1>2, <1>3, <2>1, <2>3
    <3>2. i \in Uses(cd) /\ Count(us[d], i) <= Count(inp[i], d)
      BY <1>2, <2>1, <3>1 DEF EdgesOK, Truthful
    <3> QED
      BY <1>1, <1>2, <3>1, <3>2
  <2> QED
    BY <2>2, <2>3
<1>8. OnceAhead(B, op2, us2, cd2, S)
  <2> SUFFICES ASSUME NEW d \in Uses(cd2) \ S, op2[d] \in Operations, NEW i \in B,
                      ~Vector(op2, i)
               PROVE  Count(us2[d], i) <= 1
    BY DEF OnceAhead
  <2>1. CASE d = n
    BY <1>3, <2>1
  <2>2. CASE d \in Uses(cd) /\ i = n
    BY <1>1, <1>2, <2>2
  <2>3. CASE d \in Uses(cd) /\ i # n
    <3>1. d \in A /\ i \in A /\ op[d] \in Operations /\ ~Vector(op, i)
      BY <1>1, <1>2, <2>3 DEF Vector
    <3>2. Count(us2[d], i) = Count(us[d], i) /\ Count(us[d], i) <= 1
      BY <1>2, <2>3, <3>1 DEF EdgesOK, OnceAhead
    <3> QED
      BY <3>2
  <2> QED
    BY <2>1, <2>2, <2>3
<1>9. EdgesOK(B, op2, one2, inp2, us2, cd2, S)
  BY <1>4, <1>5, <1>6, <1>7, <1>8 DEF EdgesOK
<1> QED
  BY <1>9 DEF B

(* A phi that takes the value d. *)
LEMMA OneResolved ==
  ASSUME NEW A, NEW op, NEW one, NEW inp, NEW us, NEW cd, NEW S,
         EdgesOK(A, op, one, inp, us, cd, S),
         Phi \in A, Phi \in Uses(cd), Phi \notin S, NEW d \in Uses(cd)
  PROVE  EdgesOK(A, op, one, [inp EXCEPT ![Phi] = Append(@, d)], AddUser(us, d, Phi), cd, S)
<1> DEFINE inp2 == [inp EXCEPT ![Phi] = Append(@, d)]
           us2 == AddUser(us, d, Phi)
<1>1. /\ op \in [A -> Opcodes] /\ inp \in Lists(A, A) /\ us \in Lists(A, A)
      /\ cd \in Seq(A) /\ Injective(cd) /\ Uses(cd) \subseteq A
      /\ \A i \in A : (op[i] = "phi" <=> i = Phi) /\ InputsFit(op, i, inp[i])
      /\ \A i \in S : i \in Uses(cd) /\ op[i] \in Operations
  BY UsesTyped DEF EdgesOK, EdgesTyped
<1>2. inp[Phi] \in Seq(A) /\ d \in A
  BY <1>1 DEF Lists
<1>3. us2 \in Lists(A, A) /\ AddsEntry(A, us, us2, d, Phi)
  BY <1>1, <1>2, AddUserCounts
<1>4. /\ inp2 \in Lists(A, A) /\ inp2[Phi] = Append(inp[Phi], d)
      /\ \A i \in A \ {Phi} : inp2[i] = inp[i]
      /\ Uses(inp2[Phi]) = Uses(inp[Phi]) \cup {d}
      /\ \A x : Count(inp2[Phi], x) = Count(inp[Phi], x) + (IF d = x THEN 1 ELSE 0)
  <2>1. /\ Append(inp[Phi], d) \in Seq(A)
        /\ Uses(Append(inp[Phi], d)) = Uses(inp[Phi]) \cup {d}
        /\ \A x : Count(Append(inp[Phi], d), x)
                    = Count(inp[Phi], x) + (IF d = x THEN 1 ELSE 0)
    BY <1>2, UsesAppend, CountAppend
  <2> QED
    BY <1>1, <2>1 DEF Lists
<1> HIDE DEF inp2, us2
<1>5. \A e \in A : \A u : /\ Count(us[e], u) \in Nat /\ Count(us2[e], u) \in Nat
                          /\ u \in Uses(us[e]) <=> Count(us[e], u) # 0
                          /\ u \in Uses(us2[e]) <=> Count(us2[e], u) # 0
                          /\ Count(us2[e], u)
                               = Count(us[e], u) + (IF e = d /\ u = Phi THEN 1 ELSE 0)
  <2>1. \A e \in A : us[e] \in Seq(A) /\ us2[e] \in Seq(A)
    BY <1>1, <1>3 DEF Lists
  <2> QED
    BY <1>3, <2>1, CountUses DEF AddsEntry
<1>6. op[Phi] = "phi" /\ \A m \in S : m # Phi /\ m \in A
  BY <1>1
<1>7. EdgesTyped(A, op, inp2, us2, cd, S)
  <2>1. InputsFit(op, Phi, inp2[Phi])
    BY <1>6 DEF InputsFit, Binary, Operations
  <2> QED
    BY <1>1, <1>3, <1>4, <2>1 DEF EdgesTyped
<1>8. Ordered(op, inp2, cd, S)
  BY <1>1, <1>4 DEF EdgesOK, Ordered
<1>9. Known(op, one, inp2, us2, cd, S)
  <2> SUFFICES ASSUME NEW i \in Uses(cd), NEW e \in Uses(inp2[i])
               PROVE  i \in Uses(us2[e]) \/ Explained(op, one, inp2, S, i, e)
    BY DEF Known
  <2>1. CASE i = Phi /\ e = d
    <3>1. Count(us2[d], Phi) = Count(us[d], Phi) + 1 /\ Count(us[d], Phi) \in Nat
      BY <1>2, <1>5
    <3>2. Count(us2[e], i) # 0 /\ e \in A
      BY <1>2, <2>1, <3>1
    <3> QED
      BY <1>5, <3>2
  <2>2. CASE e \in Uses(inp[i])
    <3>1. e \in A
      BY <1>1, <2>2 DEF EdgesOK, Ordered
    <3>2. i \in Uses(us[e]) \/ Explained(op, one, inp, S, i, e)
      BY <2>2 DEF EdgesOK, Known
    <3>3. i \in Uses(us[e]) => i \in Uses(us2[e])
      BY <1>5, <3>1
    <3>4. Explained(op, one, inp, S, i, e) => Explained(op, one, inp2, S, i, e)
      BY <1>4, <1>6 DEF Explained
    <3> QED
      BY <3>2, <3>3, <3>4
  <2>3. e \in Uses(inp[i]) \/ (i = Phi /\ e = d)
    <3>1. CASE i = Phi
      BY <1>4, <3>1
    <3>2. CASE i # Phi
      BY <1>1, <1>4, <3>2
    <3> QED
      BY <3>1, <3>2
  <2> QED
    BY <2>1, <2>2, <2>3
<1>10. Truthful(op, inp2, us2, cd)
  <2> SUFFICES ASSUME NEW e \in Uses(cd), op[e] # "const", NEW i \in Uses(us2[e])
               PROVE  i \in Uses(cd) /\ Count(us2[e], i) <= Count(inp2[i], e)
    BY DEF Truthful
  <2>1. e \in A /\ Count(us[e], i) \in Nat
        /\ Count(us2[e], i) = Count(us[e], i) + (IF e = d /\ i = Phi THEN 1 ELSE 0)
    BY <1>1, <1>5
  <2>2. i \in Uses(us[e]) => i \in Uses(cd) /\ Count(us[e], i) <= Count(inp[i], e)
    BY DEF EdgesOK, Truthful
  <2>3. CASE i # Phi
    <3>1. i \in Uses(us[e]) /\ Count(us2[e], i) = Count(us[e], i)
      BY <1>5, <2>1, <2>3
    <3> QED
      BY <1>1, <1>4, <2>2, <2>3, <3>1
  <2>4. CASE i = Phi
    <3>1. Count(inp2[i], e) = Count(inp[i], e) + (IF e = d THEN 1 ELSE 0)
          /\ Count(inp[i], e) \in Nat
      BY <1>2, <1>4, <2>4, CountUses
    <3>2. Count(us[e], i) <= Count(inp[i], e)
      <4>1. i \notin Uses(us[e]) => Count(us[e], i) = 0
        BY <1>5, <2>1
      <4> QED
        BY <2>2, <3>1, <4>1
    <3> QED
      BY <2>1, <2>4, <3>1, <3>2
  <2> QED
    BY <2>3, <2>4
<1>11. OnceAhead(A, op, us2, cd, S)
  <2> SUFFICES ASSUME NEW e \in Uses(cd) \ S, op[e] \in Operations, NEW i \in A,
                      ~Vector(op, i)
               PROVE  Count(us2[e], i) <= 1
    BY DEF OnceAhead
  <2>1. i # Phi /\ e \in A
    BY <1>1, <1>6 DEF Vector
  <2>2. Count(us2[e], i) = Count(us[e], i)
    BY <1>5, <2>1
  <2> QED
    BY <2>2 DEF EdgesOK, OnceAhead
<1> QED
  BY <1>7, <1>8, <1>9, <1>10, <1>11 DEF EdgesOK, inp2, us2

(* A shift c of a shift by a constant shifts what that one shifts, by a    *)
(* constant n right behind it.                                             *)
LEMMA OneJoined ==
  ASSUME NEW A, NEW op, NEW one, NEW inp, NEW us, NEW cd, NEW S, NEW c,
         EdgesOK(A, op, one, inp, us, cd, S), AtTurn(op, cd, S, c),
         NEW t, t = inp[c][1], op[c] = "ashr", op[t] = "ashr", op[inp[c][2]] = "const",
         NEW x, x = inp[t][1], NEW n \in Uses(cd), op[n] = "const", RightBehind(cd, c, n)
  PROVE  EdgesOK(A, op, one, [inp EXCEPT ![c] = <<x, n>>],
                 AddUser(AddUser(RemoveUser(us, t, c), x, c), n, c), cd, S \cup {c})
<1> DEFINE inp2 == [inp EXCEPT ![c] = <<x, n>>]
           us1 == RemoveUser(us, t, c)
           us3 == AddUser(us1, x, c)
           us2 == AddUser(us3, n, c)
<1>1. /\ op \in [A -> Opcodes] /\ inp \in Lists(A, A) /\ us \in Lists(A, A)
      /\ cd \in Seq(A) /\ Injective(cd) /\ Uses(cd) \subseteq A
      /\ \A i \in A : (op[i] = "phi" <=> i = Phi) /\ InputsFit(op, i, inp[i])
      /\ \A i \in S : i \in Uses(cd) /\ op[i] \in Operations
  BY UsesTyped DEF EdgesOK, EdgesTyped
<1>2. /\ c \in A /\ c \in Uses(cd) /\ c \notin S /\ c # Phi /\ inp[c] \in Seq(A)
      /\ Len(inp[c]) = 2
      /\ \A d \in Uses(inp[c]) : d \in Uses(cd) /\ d # c /\ InFront(cd, d, c)
      /\ \A m \in S : c \notin Uses(inp[m])
      /\ \A u \in Uses(cd) : c \in Uses(inp[u]) => u \in Uses(us[c])
  <2>1. Turning(A, op, inp, us, cd, S, c)
    BY TurnFacts, Zenon
  <2> QED
    BY <2>1 DEF Turning, AtTurn
<1>3. /\ \A a, b : InFront(cd, a, b) => ~InFront(cd, b, a) /\ a # b
      /\ \A a, b, d : InFront(cd, a, b) /\ InFront(cd, b, d) => InFront(cd, a, d)
      /\ \A a, b : RightBehind(cd, a, b) => InFront(cd, a, b)
      /\ \A a, b, d : RightBehind(cd, a, b) /\ InFront(cd, a, d) /\ d # b
                        => InFront(cd, b, d)
  BY <1>1, OrderIsStrict
<1>4. /\ t \in Uses(cd) /\ t \in A /\ InFront(cd, t, c) /\ t \in S /\ t # c
      /\ \A d \in Uses(inp[c]) : d = t \/ op[d] = "const"
      /\ \A d : Count(inp[c], d) = (IF t = d THEN 1 ELSE 0)
                                     + (IF inp[c][2] = d THEN 1 ELSE 0)
  <2>1. t \in Uses(inp[c]) /\ Uses(inp[c]) = {t, inp[c][2]}
    BY <1>2, TwoInputs
  <2>2. t \in Uses(cd) /\ InFront(cd, t, c) /\ t # c
    BY <1>2, <2>1
  <2>3. t \in S
    BY <2>2 DEF AtTurn, Operations
  <2>4. \A d : Count(inp[c], d) = (IF t = d THEN 1 ELSE 0)
                                    + (IF inp[c][2] = d THEN 1 ELSE 0)
    BY <1>2, TwoInputs
  <2> QED
    BY <1>1, <2>1, <2>2, <2>3, <2>4
<1>5. x \in Uses(cd) /\ x \in A /\ InFront(cd, x, c) /\ x # t /\ x # c
  <2>1. inp[t] \in Seq(A) /\ Len(inp[t]) = 2
    BY <1>1, <1>4 DEF Lists, InputsFit, Binary, Operations
  <2>2. x \in Uses(inp[t])
    BY <2>1, TwoInputs
  <2>3. t # Phi
    BY <1>1, <1>4
  <2>4. x \in Uses(cd) /\ (InFront(cd, x, t) \/ (RightBehind(cd, t, x) /\ op[x] = "const"))
    BY <1>4, <2>2, <2>3 DEF EdgesOK, Ordered
  <2>5. InFront(cd, x, c) /\ x # t
    BY <1>3, <1>4, <2>4
  <2> QED
    BY <1>1, <1>3, <2>4, <2>5
<1>6. n \in A /\ InFront(cd, c, n) /\ n # c /\ n # t /\ n # x
  BY <1>1, <1>3, <1>4, <1>5
<1>7. /\ inp2 \in Lists(A, A) /\ inp2[c] = <<x, n>> /\ \A i \in A \ {c} : inp2[i] = inp[i]
      /\ <<x, n>> \in Seq(A) /\ Len(<<x, n>>) = 2
  BY <1>1, <1>2, <1>5, <1>6 DEF Lists
<1>8. /\ Uses(inp2[c]) = {x, n}
      /\ \A d : Count(inp2[c], d) = (IF x = d THEN 1 ELSE 0) + (IF n = d THEN 1 ELSE 0)
  <2> DEFINE s == <<x, n>>
  <2>1. s \in Seq(A) /\ Len(s) = 2 /\ s[1] = x /\ s[2] = n /\ inp2[c] = s
    BY <1>7
  <2> HIDE DEF s
  <2> QED
    BY <2>1, TwoInputs
<1>9. us1 \in Lists(A, A) /\ TakesEntry(A, us, us1, t, c)
  BY <1>1, <1>4, RemoveUserCounts
<1> HIDE DEF inp2, us1
<1>10. us3 \in Lists(A, A) /\ AddsEntry(A, us1, us3, x, c)
  BY <1>2, <1>5, <1>9, AddUserCounts
<1> HIDE DEF us3
<1>11. us2 \in Lists(A, A) /\ AddsEntry(A, us3, us2, n, c)
  BY <1>2, <1>6, <1>10, AddUserCounts
<1> HIDE DEF us2
<1>12. \A d \in A : \A u : /\ Count(us[d], u) \in Nat /\ Count(us2[d], u) \in Nat
                           /\ u \in Uses(us[d]) <=> Count(us[d], u) # 0
                           /\ u \in Uses(us2[d]) <=> Count(us2[d], u) # 0
  <2>1. \A d \in A : us[d] \in Seq(A) /\ us2[d] \in Seq(A)
    BY <1>1, <1>11 DEF Lists
  <2> QED
    BY <2>1, CountUses
<1>13. ASSUME NEW d \in A, NEW u
       PROVE  Count(us2[d], u) =
                IF u # c THEN Count(us[d], u)
                ELSE (Count(us[d], c) - (IF d = t /\ Count(us[t], c) # 0 THEN 1 ELSE 0))
                       + (IF d \in {x, n} THEN 1 ELSE 0)
  <2>1. Count(us1[d], u) =
          Count(us[d], u) - (IF d = t /\ u = c /\ Count(us[t], c) # 0 THEN 1 ELSE 0)
    BY <1>9 DEF TakesEntry
  <2>2. Count(us3[d], u) = Count(us1[d], u) + (IF d = x /\ u = c THEN 1 ELSE 0)
    BY <1>10 DEF AddsEntry
  <2>3. Count(us2[d], u) = Count(us3[d], u) + (IF d = n /\ u = c THEN 1 ELSE 0)
    BY <1>11 DEF AddsEntry
  <2>4. Count(us[d], u) \in Nat
    BY <1>12
  <2> QED
    BY <1>6, <2>1, <2>2, <2>3, <2>4
<1>14. ASSUME NEW d \in Uses(cd), op[d] # "const"
       PROVE  Count(us[d], c) <= (IF d = t THEN 1 ELSE 0)
  <2>1. Count(inp[c], d) = (IF t = d THEN 1 ELSE 0)
    BY <1>4, <1>14
  <2>2. CASE c \in Uses(us[d])
    BY <1>14, <2>1, <2>2 DEF EdgesOK, Truthful
  <2>3. CASE c \notin Uses(us[d])
    <3>1. Count(us[d], c) = 0
      BY <1>1, <1>12, <2>3
    <3> QED
      BY <3>1
  <2> QED
    BY <2>2, <2>3
<1>15. EdgesTyped(A, op, inp2, us2, cd, S \cup {c})
  <2>1. InputsFit(op, c, inp2[c])
    BY <1>7 DEF InputsFit
  <2>2. \A i \in S \cup {c} : i \in Uses(cd) /\ op[i] \in Operations
    BY <1>1 DEF AtTurn
  <2> QED
    BY <1>1, <1>7, <1>11, <2>1, <2>2 DEF EdgesTyped
<1>16. Ordered(op, inp2, cd, S \cup {c})
  <2> SUFFICES ASSUME NEW i \in Uses(cd), NEW d \in Uses(inp2[i])
               PROVE  /\ d \in Uses(cd)
                      /\ \/ i = Phi \/ InFront(cd, d, i)
                         \/ op[i] = "ashr" /\ i \in S \cup {c} /\ RightBehind(cd, i, d)
                            /\ op[d] = "const"
    BY DEF Ordered
  <2>1. CASE i = c
    BY <1>5, <1>8, <2>1
  <2>2. CASE i # c
    <3>1. d \in Uses(inp[i])
      BY <1>1, <1>7, <2>2
    <3> QED
      BY <3>1 DEF EdgesOK, Ordered
  <2> QED
    BY <2>1, <2>2
<1>17. Known(op, one, inp2, us2, cd, S \cup {c})
  <2> SUFFICES ASSUME NEW i \in Uses(cd), NEW d \in Uses(inp2[i])
               PROVE  i \in Uses(us2[d]) \/ Explained(op, one, inp2, S \cup {c}, i, d)
    BY DEF Known
  <2>1. CASE i = c
    <3>1. d \in A /\ d # t /\ d \in {x, n}
      BY <1>5, <1>6, <1>8, <2>1
    <3>2. Count(us2[d], c) = Count(us[d], c) + 1 /\ Count(us[d], c) \in Nat
      <4>1. Count(us[d], c) \in Nat
        BY <1>12, <3>1
      <4>2. Count(us2[d], c) = (Count(us[d], c) - 0) + 1
        BY <1>13, <3>1
      <4> QED
        BY <4>1, <4>2
    <3>3. Count(us2[d], c) # 0
      BY <3>2
    <3> QED
      BY <1>12, <2>1, <3>1, <3>3
  <2>2. CASE i # c
    <3>1. d \in Uses(inp[i])
      BY <1>1, <1>7, <2>2
    <3>2. d \in A
      BY <1>1, <3>1 DEF EdgesOK, Ordered
    <3>3. i \in Uses(us[d]) \/ Explained(op, one, inp, S, i, d)
      BY <3>1 DEF EdgesOK, Known
    <3>4. i \in Uses(us[d]) => i \in Uses(us2[d])
      BY <1>12, <1>13, <2>2, <3>2
    <3>5. Explained(op, one, inp, S, i, d) => Explained(op, one, inp2, S \cup {c}, i, d)
      <4>1. \A m \in S : m \in A \ {c}
        BY <1>1, <1>2
      <4> QED
        BY <1>7, <4>1 DEF Explained
    <3> QED
      BY <3>3, <3>4, <3>5
  <2> QED
    BY <2>1, <2>2
<1>18. Truthful(op, inp2, us2, cd)
  <2> SUFFICES ASSUME NEW d \in Uses(cd), op[d] # "const", NEW i \in Uses(us2[d])
               PROVE  i \in Uses(cd) /\ Count(us2[d], i) <= Count(inp2[i], d)
    BY DEF Truthful
  <2>1. d \in A /\ d # n /\ Count(us2[d], i) # 0 /\ Count(us[d], c) \in Nat
    BY <1>1, <1>12
  <2>2. CASE i = c
    <3>1. /\ Count(us2[d], c) = (Count(us[d], c)
                                   - (IF d = t /\ Count(us[t], c) # 0 THEN 1 ELSE 0))
                                  + (IF d \in {x, n} THEN 1 ELSE 0)
      BY <1>13, <2>1
    <3>2. Count(us[d], c) <= (IF d = t THEN 1 ELSE 0)
      BY <1>14
    <3>3. Count(us2[d], c) <= (IF d = x THEN 1 ELSE 0)
      BY <1>5, <2>1, <3>1, <3>2
    <3>4. Count(inp2[c], d) = (IF d = x THEN 1 ELSE 0)
      BY <1>8, <2>1
    <3> QED
      BY <1>2, <2>2, <3>3, <3>4
  <2>3. CASE i # c
    <3>1. Count(us2[d], i) = Count(us[d], i)
      BY <1>13, <2>1, <2>3
    <3>2. i \in Uses(us[d])
      BY <1>12, <2>1, <3>1
    <3>3. i \in Uses(cd) /\ Count(us[d], i) <= Count(inp[i], d)
      BY <3>2 DEF EdgesOK, Truthful
    <3> QED
      BY <1>1, <1>7, <2>3, <3>1, <3>3
  <2> QED
    BY <2>2, <2>3
<1>19. OnceAhead(A, op, us2, cd, S \cup {c})
  <2> SUFFICES ASSUME NEW d \in Uses(cd) \ (S \cup {c}), op[d] \in Operations, NEW i \in A,
                      ~Vector(op, i)
               PROVE  Count(us2[d], i) <= 1
    BY DEF OnceAhead
  <2>1. d # t /\ d # n /\ d # x /\ d \in A
    <3>1. d # x
      BY <1>5 DEF AtTurn
    <3> QED
      BY <1>1, <1>4, <3>1 DEF Operations
  <2>2. Count(us2[d], i) = Count(us[d], i)
    <3>1. Count(us[d], c) \in Nat
      BY <1>12, <2>1
    <3> QED
      BY <1>13, <2>1, <3>1
  <2> QED
    BY <2>2 DEF EdgesOK, OnceAhead
<1> QED
  BY <1>15, <1>16, <1>17, <1>18, <1>19 DEF EdgesOK, inp2, us1, us2, us3

(* The users of a product c with one get x as their input and no entry for *)
(* it; those with any number of inputs keep theirs, and may lose entries.  *)
Redirected(A, op, inp, us, inp2, us2, c, x) ==
  /\ inp2 \in Lists(A, A) /\ us2 \in Lists(A, A)
  /\ \A u \in A : inp2[u] = IF u \in Uses(us[c]) /\ ~Vector(op, u)
                            THEN ReplaceAll(inp[u], c, x) ELSE inp[u]
  /\ \A d \in A \ {c} : us2[d] = us[d]
  /\ \A u \in A : /\ Count(us2[c], u) <= Count(us[c], u)
                  /\ ~Vector(op, u) => u \notin Uses(us2[c])

(* Then c explains what is lost. *)
LEMMA OneRedirected ==
  ASSUME NEW A, NEW op, NEW one, NEW inp, NEW us, NEW cd, NEW S, NEW c,
         EdgesOK(A, op, one, inp, us, cd, S), AtTurn(op, cd, S, c),
         op[c] = "mul", inp[c][2] \in one, NEW x, x = inp[c][1],
         NEW inp2, NEW us2, Redirected(A, op, inp, us, inp2, us2, c, x)
  PROVE  EdgesOK(A, op, one, inp2, us2, cd, S \cup {c})
<1>1. /\ op \in [A -> Opcodes] /\ inp \in Lists(A, A) /\ us \in Lists(A, A)
      /\ cd \in Seq(A) /\ Injective(cd) /\ Uses(cd) \subseteq A
      /\ \A i \in A : (op[i] = "phi" <=> i = Phi) /\ InputsFit(op, i, inp[i])
      /\ \A i \in S : i \in Uses(cd) /\ op[i] \in Operations
  BY UsesTyped DEF EdgesOK, EdgesTyped
<1>2. /\ c \in A /\ c \in Uses(cd) /\ c \notin S /\ c # Phi /\ inp[c] \in Seq(A)
      /\ Len(inp[c]) = 2
      /\ \A d \in Uses(inp[c]) : d \in Uses(cd) /\ d # c /\ InFront(cd, d, c)
      /\ \A m \in S : c \notin Uses(inp[m])
      /\ \A u \in Uses(cd) : c \in Uses(inp[u]) => u \in Uses(us[c])
      /\ \A u \in Uses(us[c]) : /\ u \in Uses(cd) /\ c \in Uses(inp[u]) /\ u # c /\ u \notin S
                                /\ u = Phi \/ InFront(cd, c, u)
  <2>1. Turning(A, op, inp, us, cd, S, c)
    BY TurnFacts, Zenon
  <2> QED
    BY <2>1 DEF Turning, AtTurn
<1>3. /\ \A a, b : InFront(cd, a, b) => ~InFront(cd, b, a) /\ a # b
      /\ \A a, b, d : InFront(cd, a, b) /\ InFront(cd, b, d) => InFront(cd, a, d)
  BY <1>1, OrderIsStrict
<1>4. x \in Uses(cd) /\ x \in A /\ InFront(cd, x, c) /\ x # c
  <2>1. x \in Uses(inp[c])
    BY <1>2, TwoInputs
  <2> QED
    BY <1>1, <1>2, <2>1
<1>5. /\ inp2 \in Lists(A, A) /\ us2 \in Lists(A, A)
      /\ \A u \in A : inp2[u] = IF u \in Uses(us[c]) /\ ~Vector(op, u)
                                THEN ReplaceAll(inp[u], c, x) ELSE inp[u]
      /\ \A d \in A \ {c} : us2[d] = us[d]
      /\ \A u \in A : /\ Count(us2[c], u) <= Count(us[c], u)
                      /\ ~Vector(op, u) => u \notin Uses(us2[c])
  BY DEF Redirected
<1>6. \A i \in A : inp[i] \in Seq(A)
  BY <1>1 DEF Lists
<1>7. ASSUME NEW m \in S \cup {c} PROVE inp2[m] = inp[m] /\ m \in A
  BY <1>1, <1>2, <1>5
<1>8. ASSUME NEW i \in Uses(cd), NEW d \in Uses(inp2[i])
      PROVE  \/ d \in Uses(inp[i]) /\ (d # c \/ Vector(op, i))
             \/ d = x /\ i \in Uses(us[c]) /\ ~Vector(op, i)
  <2>1. CASE i \in Uses(us[c]) /\ ~Vector(op, i)
    <3>1. Uses(inp2[i]) = (Uses(inp[i]) \ {c}) \cup {x}
      <4>1. inp2[i] = ReplaceAll(inp[i], c, x) /\ inp[i] \in Seq(A) /\ c \in Uses(inp[i])
        BY <1>1, <1>2, <1>5, <1>6, <2>1
      <4> QED
        BY <4>1, UsesReplaceAll
    <3> QED
      BY <1>8, <2>1, <3>1
  <2>2. CASE ~(i \in Uses(us[c]) /\ ~Vector(op, i))
    BY <1>1, <1>2, <1>5, <1>8, <2>2
  <2> QED
    BY <2>1, <2>2
<1>9. ASSUME NEW i \in A, NEW d \in A \ {c} PROVE Count(inp2[i], d) >= Count(inp[i], d)
  <2>1. Count(inp[i], d) \in Nat /\ Count(inp[i], c) \in Nat
    BY <1>6, CountUses
  <2>2. CASE i \in Uses(us[c]) /\ ~Vector(op, i)
    <3>1. Count(ReplaceAll(inp[i], c, x), d) =
            IF d = x THEN Count(inp[i], x) + Count(inp[i], c) ELSE Count(inp[i], d)
      BY <1>4, <1>6, CountReplaceAll
    <3>2. inp2[i] = ReplaceAll(inp[i], c, x)
      BY <1>5, <2>2
    <3> QED
      BY <2>1, <3>1, <3>2
  <2>3. CASE ~(i \in Uses(us[c]) /\ ~Vector(op, i))
    <3>1. inp2[i] = inp[i]
      BY <1>5, <2>3
    <3> QED
      BY <2>1, <3>1
  <2> QED
    BY <2>2, <2>3
<1>10. EdgesTyped(A, op, inp2, us2, cd, S \cup {c})
  <2>1. ASSUME NEW i \in A PROVE InputsFit(op, i, inp2[i])
    <3>1. CASE i \in Uses(us[c])
      <4>1. op[i] # "const"
        BY <1>1, <1>2, <3>1 DEF InputsFit, Uses
      <4>2. Len(inp2[i]) = Len(inp[i])
        BY <1>4, <1>5, <1>6, ReplaceAllLen
      <4> QED
        BY <1>1, <4>1, <4>2 DEF InputsFit
    <3>2. CASE i \notin Uses(us[c])
      BY <1>1, <1>5, <3>2
    <3> QED
      BY <3>1, <3>2
  <2>2. \A i \in S \cup {c} : i \in Uses(cd) /\ op[i] \in Operations
    BY <1>1 DEF AtTurn
  <2> QED
    BY <1>1, <1>5, <2>1, <2>2 DEF EdgesTyped
<1>11. Ordered(op, inp2, cd, S \cup {c})
  <2> SUFFICES ASSUME NEW i \in Uses(cd), NEW d \in Uses(inp2[i])
               PROVE  /\ d \in Uses(cd)
                      /\ \/ i = Phi \/ InFront(cd, d, i)
                         \/ op[i] = "ashr" /\ i \in S \cup {c} /\ RightBehind(cd, i, d)
                            /\ op[d] = "const"
    BY DEF Ordered
  <2>1. CASE d \in Uses(inp[i])
    BY <2>1 DEF EdgesOK, Ordered
  <2>2. CASE d = x /\ i \in Uses(us[c])
    BY <1>2, <1>3, <1>4, <2>2
  <2> QED
    BY <1>8, <2>1, <2>2
<1>12. Known(op, one, inp2, us2, cd, S \cup {c})
  <2> SUFFICES ASSUME NEW i \in Uses(cd), NEW d \in Uses(inp2[i])
               PROVE  i \in Uses(us2[d]) \/ Explained(op, one, inp2, S \cup {c}, i, d)
    BY DEF Known
  <2>1. CASE d \in Uses(inp[i]) /\ d # c
    <3>1. d \in A /\ us2[d] = us[d]
      BY <1>1, <1>5, <2>1 DEF EdgesOK, Ordered
    <3>2. i \in Uses(us[d]) \/ Explained(op, one, inp, S, i, d)
      BY <2>1 DEF EdgesOK, Known
    <3> QED
      BY <1>7, <3>1, <3>2 DEF Explained
  <2>2. CASE d = c /\ Vector(op, i)
    BY <1>7, <2>2 DEF Explained
  <2>3. CASE d = x /\ ~Vector(op, i)
    BY <1>7, <2>3 DEF Explained
  <2> QED
    BY <1>8, <2>1, <2>2, <2>3
<1>13. Truthful(op, inp2, us2, cd)
  <2> SUFFICES ASSUME NEW d \in Uses(cd), op[d] # "const", NEW i \in Uses(us2[d])
               PROVE  i \in Uses(cd) /\ Count(us2[d], i) <= Count(inp2[i], d)
    BY DEF Truthful
  <2>1. d \in A /\ i \in A /\ us[d] \in Seq(A) /\ us2[d] \in Seq(A)
    <3>1. d \in A /\ us2[d] \in Seq(A) /\ us[d] \in Seq(A)
      BY <1>1, <1>5 DEF Lists
    <3> QED
      BY <3>1, UsesTyped
  <2>2. Count(us2[d], i) \in Nat /\ Count(us[d], i) \in Nat /\ Count(us2[d], i) # 0
        /\ (Count(us[d], i) # 0 => i \in Uses(us[d]))
    BY <2>1, CountUses
  <2>3. CASE d # c
    <3>1. us2[d] = us[d]
      BY <1>5, <2>1, <2>3
    <3>2. i \in Uses(cd) /\ Count(us[d], i) <= Count(inp[i], d)
      BY <3>1 DEF EdgesOK, Truthful
    <3>3. Count(inp2[i], d) >= Count(inp[i], d)
      BY <1>9, <2>1, <2>3
    <3>4. Count(inp2[i], d) \in Nat /\ Count(inp[i], d) \in Nat
      <4>1. inp2[i] \in Seq(A) /\ inp[i] \in Seq(A)
        BY <1>5, <1>6, <2>1 DEF Lists
      <4> QED
        BY <4>1, CountUses
    <3> QED
      BY <2>2, <3>1, <3>2, <3>3, <3>4
  <2>4. CASE d = c
    <3>1. Vector(op, i) /\ Count(us2[c], i) <= Count(us[c], i)
      BY <1>5, <2>1, <2>4
    <3>2. i \in Uses(us[c])
      BY <2>2, <2>4, <3>1
    <3>3. i \in Uses(cd) /\ Count(us[c], i) <= Count(inp[i], c)
      BY <2>4, <3>2 DEF EdgesOK, Truthful
    <3>4. inp2[i] = inp[i] /\ Count(inp[i], c) \in Nat
      <4>1. inp2[i] = inp[i] /\ inp[i] \in Seq(A)
        BY <1>5, <1>6, <2>1, <3>1
      <4> QED
        BY <4>1, CountUses
    <3> QED
      BY <2>2, <2>4, <3>1, <3>3, <3>4
  <2> QED
    BY <2>3, <2>4
<1>14. OnceAhead(A, op, us2, cd, S \cup {c})
  <2> SUFFICES ASSUME NEW d \in Uses(cd) \ (S \cup {c}), op[d] \in Operations, NEW i \in A,
                      ~Vector(op, i)
               PROVE  Count(us2[d], i) <= 1
    BY DEF OnceAhead
  <2>1. us2[d] = us[d]
    BY <1>1, <1>5
  <2> QED
    BY <2>1 DEF EdgesOK, OnceAhead
<1> QED
  BY <1>10, <1>11, <1>12, <1>13, <1>14 DEF EdgesOK

-----------------------------------------------------------------------------
(* What the code does to the edges. *)

(* A pair of inputs and users, as the code edits them. *)
Pair(A, g) == g \in [inputs : Lists(A, A), users : Lists(A, A)]

LEMMA ReplaceSteps ==
  ASSUME NEW A, NEW g, Pair(A, g), NEW i \in A, NEW n \in A,
         NEW s \in Seq(A), s = Distinct(g.users[i])
  PROVE  \E chain \in [0 .. Len(s) -> Lists(A, A)] :
           ReplacesInSteps(chain, g, ReplaceInputsForUsers(g, i, n).users, s, i, n)
<1> DEFINE m == Len(s)
           X == Lists(A, A)
           us == g.users
           Move(acc, u) == IF i \in Uses(g.inputs[u])
                           THEN AddUser(RemoveUser(acc, i, u), n, u) ELSE acc
           step == [p \in X \X (1 .. m) |-> Move(p[1], s[p[2]])]
           Next(f, S) == Move(f[S \ {Max(S)}], s[Max(S)])
           Unrolled(f) == f = [S \in SUBSET DOMAIN s |-> IF S = {} THEN us ELSE Next(f, S)]
<1>0. ReplaceInputsForUsers(g, i, n).users = FoldLeft(Move, us, s)
  BY DEF ReplaceInputsForUsers
<1>1. m \in Nat /\ DOMAIN s = 1 .. m /\ us \in X
  BY DEF Pair
<1>2. step \in [X \X (1 .. m) -> X]
  <2>1. ASSUME NEW x \in X, NEW k \in 1 .. m PROVE Move(x, s[k]) \in X
    <3>1. s[k] \in A
      OBVIOUS
    <3>2. RemoveUser(x, i, s[k]) \in X
      BY RemoveUserCounts
    <3>3. AddUser(RemoveUser(x, i, s[k]), n, s[k]) \in X
      BY <3>1, <3>2, AddUserCounts
    <3> QED
      BY <3>3
  <2> HIDE DEF Move
  <2> QED
    BY <2>1
<1>3. ASSUME NEW f, NEW S \in SUBSET (1 .. m), S # {}, f[S \ {Max(S)}] \in X
      PROVE  Next(f, S) = step[<<f[S \ {Max(S)}], Max(S)>>]
  <2>1. Max(S) \in 1 .. m
    BY <1>1, <1>3, MaxIsPosition
  <2> HIDE DEF X, m, Move
  <2> QED
    BY <1>3, <2>1
<1> HIDE DEF X, m, step, us
<1>4. PICK f \in [SUBSET (1 .. m) -> X] : IsFold(f, m, us, step)
  BY <1>1, <1>2, FoldExists
<1>5. Unrolled(f)
  <2> DEFINE h == [S \in SUBSET DOMAIN s |-> IF S = {} THEN us ELSE Next(f, S)]
  <2> HIDE DEF Next
  <2>1. \A S \in SUBSET (1 .. m) : f[S] = h[S]
    BY <1>1, <1>3, <1>4 DEF IsFold
  <2> QED
    BY <1>1, <1>4, <2>1
<1>6. PICK h : Unrolled(h) /\ FoldLeft(Move, us, s) = h[DOMAIN s]
  <2> HIDE DEF Move
  <2> QED
    BY <1>5, Zenon DEF FoldLeft, MapThenFoldSet
<1>7. PICK chain \in [0 .. m -> X] : chain[m] = h[1 .. m] /\ IsChain(chain, m, us, step)
  <2> HIDE DEF Next
  <2>1. Folds(h, X, m, us, step)
    BY <1>1, <1>3, <1>6 DEF Folds
  <2> HIDE DEF Unrolled
  <2> QED
    BY <1>1, <1>2, <2>1, FoldSteps
<1>8. ASSUME NEW k \in 1 .. m
      PROVE  chain[k] = IF i \in Uses(g.inputs[s[k]])
                          THEN AddUser(RemoveUser(chain[k - 1], i, s[k]), n, s[k])
                          ELSE chain[k - 1]
  <2>1. chain[k] = step[<<chain[k - 1], k>>] /\ chain[k - 1] \in X
    BY <1>1, <1>7 DEF IsChain
  <2>2. chain[k] = Move(chain[k - 1], s[k])
    <3> HIDE DEF Move
    <3> QED
      BY <2>1 DEF step
  <2> QED
    BY <2>2
<1>9. ReplacesInSteps(chain, g, h[1 .. m], s, i, n)
  <2>1. chain[0] = us
    BY <1>7 DEF IsChain
  <2> QED
    BY <1>7, <1>8, <2>1 DEF m, us, ReplacesInSteps
<1> QED
  <2>1. ReplaceInputsForUsers(g, i, n).users = h[1 .. m]
    BY <1>0, <1>1, <1>6, Zenon
  <2> QED
    BY <1>9, <2>1, Zenon DEF m, us, X

(* What the replacement and the removal do together. *)
LEMMA CodeGivesWay ==
  ASSUME NEW A, NEW g, Pair(A, g), NEW c \in A, NEW x \in A, c # x,
         c \notin Uses(g.users[c]), \A u \in Uses(g.users[c]) : c \in Uses(g.inputs[u]),
         NEW h, h = ReplaceInputsForUsers(g, c, x), NEW k, k = LeaveUsers(h, c)
  PROVE  WayGiven(A, g.inputs, g.users, k.inputs, k.users, c, x)
<1> DEFINE inp == g.inputs
           us == g.users
           s == Distinct(us[c])
<1>1. inp \in Lists(A, A) /\ us \in Lists(A, A) /\ us[c] \in Seq(A) /\ inp[c] \in Seq(A)
      /\ \A u \in A : inp[u] \in Seq(A)
  BY DEF Pair, Lists
<1>2. s \in Seq(A) /\ Uses(s) = Uses(us[c])
      /\ \A u : Count(s, u) = IF u \in Uses(us[c]) THEN 1 ELSE 0
  <2>1. s \in Seq(A) /\ Uses(s) = Uses(us[c]) /\ \A u : Count(s, u) <= 1
    BY <1>1, DistinctOnce
  <2>2. ASSUME NEW u PROVE Count(s, u) = IF u \in Uses(us[c]) THEN 1 ELSE 0
    <3>1. Count(s, u) \in Nat /\ (u \in Uses(s) <=> Count(s, u) # 0) /\ Count(s, u) <= 1
      BY <2>1, CountUses
    <3> QED
      BY <2>1, <3>1
  <2> QED
    BY <2>1, <2>2
<1>3. PICK chain \in [0 .. Len(s) -> Lists(A, A)] : MovesInSteps(chain, us, h.users, s, c, x)
  <2>1. PICK chain \in [0 .. Len(s) -> Lists(A, A)] :
          ReplacesInSteps(chain, g, h.users, s, c, x)
    BY <1>2, ReplaceSteps
  <2>2. \A l \in 1 .. Len(s) : s[l] \in Uses(us[c])
    BY <1>2 DEF Uses
  <2> HIDE DEF s
  <2> QED
    BY <2>1, <2>2 DEF ReplacesInSteps, MovesInSteps
<1> HIDE DEF s
<1>4. h.users \in Lists(A, A) /\ Moves(A, us, h.users, s, c, x)
  BY <1>1, <1>2, <1>3, StepsMove
<1>5. h.inputs = [u \in A |-> IF u \in Uses(us[c]) THEN ReplaceAll(inp[u], c, x) ELSE inp[u]]
  <2>1. DOMAIN inp = A
    BY <1>1 DEF Lists
  <2> QED
    BY <2>1 DEF ReplaceInputsForUsers
<1>6. h.inputs \in Lists(A, A) /\ h.inputs[c] = inp[c]
  <2>1. \A u \in A : ReplaceAll(inp[u], c, x) \in Seq(A)
    BY <1>1, ReplaceAllLen
  <2> QED
    BY <1>1, <1>5, <2>1 DEF Lists
<1>7. k.inputs = h.inputs /\ k.users = RemoveUsers(h.users, inp[c], c)
  BY <1>6 DEF LeaveUsers, ReplaceInputsForUsers
<1>8. k.users \in Lists(A, A) /\ Leaves(A, h.users, k.users, inp[c], c)
  BY <1>1, <1>4, <1>7, RemoveUsersLeaves
<1>9. ASSUME NEW d \in A \ {c}
      PROVE  /\ \A u : u # c =>
                  Count(k.users[d], u) =
                    Count(us[d], u) + (IF d = x /\ u \in Uses(us[c]) THEN 1 ELSE 0)
             /\ Count(us[d], c) <= Count(inp[c], d) => Count(k.users[d], c) = 0
  <2>1. ASSUME NEW u
        PROVE  Count(h.users[d], u) =
                 Count(us[d], u) + (IF d = x THEN Count(s, u) ELSE 0)
    BY <1>4 DEF Moves
  <2>2. ASSUME NEW u, u # c PROVE Count(k.users[d], u) = Count(h.users[d], u)
    BY <1>8, <2>2 DEF Leaves
  <2>3. Count(h.users[d], c) <= Count(inp[c], d) => Count(k.users[d], c) = 0
    BY <1>8 DEF Leaves
  <2>4. Count(us[d], c) \in Nat /\ \A u : Count(us[d], u) \in Nat
    BY <1>1, CountUses DEF Lists
  <2>5. Count(h.users[d], c) = Count(us[d], c)
    <3>1. Count(s, c) = 0
      BY <1>2
    <3> QED
      BY <2>1, <2>4, <3>1
  <2>6. ASSUME NEW u, u # c
        PROVE  Count(k.users[d], u) =
                 Count(us[d], u) + (IF d = x /\ u \in Uses(us[c]) THEN 1 ELSE 0)
    <3>1. Count(s, u) = IF u \in Uses(us[c]) THEN 1 ELSE 0
      BY <1>2
    <3>2. Count(k.users[d], u) = Count(us[d], u) + (IF d = x THEN Count(s, u) ELSE 0)
      BY <2>1, <2>2, <2>6
    <3>3. Count(us[d], u) \in Nat
      BY <2>4
    <3> QED
      BY <3>1, <3>2, <3>3
  <2> QED
    BY <2>3, <2>5, <2>6
<1> QED
  <2>1. \A u \in A : k.inputs[u] = IF u \in Uses(us[c]) THEN ReplaceAll(inp[u], c, x)
                                   ELSE inp[u]
    BY <1>5, <1>7
  <2> QED
    BY <1>6, <1>7, <1>8, <1>9, <2>1 DEF WayGiven

(* What the loop of VisitMul does for one user u of a product i = x * 1. *)
RedirectUser(acc, u, i, x) ==
  IF i \notin Uses(SubSeq(acc.inputs[u], 1, Min({2, Len(acc.inputs[u])})))
  THEN [acc EXCEPT !.users[i] = Append(@, u)]
  ELSE IF HasVectorInputs(u) THEN acc
  ELSE SetInputs(acc, u, ReplaceAll(acc.inputs[u], i, x))

(* It goes on user by user. *)
RedirectsInSteps(chain, g, h, i, x) ==
  /\ chain[0] = [g EXCEPT !.users[i] = <<>>]
  /\ chain[Len(g.users[i])] = h
  /\ \A k \in 1 .. Len(g.users[i]) :
       chain[k] = RedirectUser(chain[k - 1], g.users[i][k], i, x)

(* All along there are inputs and users. *)
LEMMA RedirectSteps ==
  ASSUME NEW A, NEW g, Pair(A, g), NEW i \in A, NEW x \in A
  PROVE  \E chain : /\ \A k \in 0 .. Len(g.users[i]) : Pair(A, chain[k])
                    /\ RedirectsInSteps(chain, g, RedirectUsers(g, i, x), i, x)
<1> DEFINE s == g.users[i]
           m == Len(s)
           X == [inputs : Lists(A, A), users : Lists(A, A)]
           base == [g EXCEPT !.users[i] = <<>>]
           Move(acc, u) ==
             IF i \notin Uses(SubSeq(acc.inputs[u], 1, Min({2, Len(acc.inputs[u])})))
             THEN [acc EXCEPT !.users[i] = Append(@, u)]
             ELSE IF HasVectorInputs(u) THEN acc
             ELSE SetInputs(acc, u, ReplaceAll(acc.inputs[u], i, x))
           step == [p \in X \X (1 .. m) |-> Move(p[1], s[p[2]])]
           Next(f, S) == Move(f[S \ {Max(S)}], s[Max(S)])
           Unrolled(f) == f = [S \in SUBSET DOMAIN s |-> IF S = {} THEN base ELSE Next(f, S)]
<1>0. RedirectUsers(g, i, x) = FoldLeft(Move, base, s)
  BY DEF RedirectUsers
<1>1. s \in Seq(A) /\ m \in Nat /\ DOMAIN s = 1 .. m /\ base \in X
  <2>1. /\ g = [inputs |-> g.inputs, users |-> g.users]
        /\ g.inputs \in Lists(A, A) /\ g.users \in Lists(A, A)
    BY DEF Pair
  <2>2. s \in Seq(A) /\ m \in Nat /\ DOMAIN s = 1 .. m
    BY <2>1 DEF Lists
  <2>3. base = [inputs |-> g.inputs, users |-> [g.users EXCEPT ![i] = <<>>]]
    BY <2>1
  <2>4. [g.users EXCEPT ![i] = <<>>] \in Lists(A, A)
    BY <2>1 DEF Lists
  <2> QED
    BY <2>1, <2>2, <2>3, <2>4
<1>2. step \in [X \X (1 .. m) -> X]
  <2>1. ASSUME NEW acc \in X, NEW k \in 1 .. m PROVE Move(acc, s[k]) \in X
    <3>1. s[k] \in A
      BY <1>1
    <3>2. /\ acc.inputs \in Lists(A, A) /\ acc.users \in Lists(A, A)
          /\ acc.inputs[s[k]] \in Seq(A) /\ acc.users[i] \in Seq(A)
      BY <3>1 DEF Lists
    <3>3. [acc EXCEPT !.users[i] = Append(@, s[k])] \in X
      <4>1. Append(acc.users[i], s[k]) \in Seq(A)
        BY <3>1, <3>2
      <4> QED
        BY <3>2, <4>1 DEF Lists
    <3>4. SetInputs(acc, s[k], ReplaceAll(acc.inputs[s[k]], i, x)) \in X
      <4>1. ReplaceAll(acc.inputs[s[k]], i, x) \in Seq(A)
        BY <3>2, ReplaceAllLen
      <4> QED
        BY <3>1, <3>2, <4>1 DEF Lists, SetInputs
    <3> QED
      BY <3>3, <3>4
  <2> HIDE DEF Move
  <2> QED
    BY <2>1
<1>3. ASSUME NEW f, NEW S \in SUBSET (1 .. m), S # {}, f[S \ {Max(S)}] \in X
      PROVE  Next(f, S) = step[<<f[S \ {Max(S)}], Max(S)>>]
  <2>1. Max(S) \in 1 .. m
    BY <1>1, <1>3, MaxIsPosition
  <2> HIDE DEF X, m, Move
  <2> QED
    BY <1>3, <2>1
<1> HIDE DEF X, m, step, s, base
<1>4. PICK f \in [SUBSET (1 .. m) -> X] : IsFold(f, m, base, step)
  BY <1>1, <1>2, FoldExists
<1>5. Unrolled(f)
  <2> DEFINE h == [S \in SUBSET DOMAIN s |-> IF S = {} THEN base ELSE Next(f, S)]
  <2> HIDE DEF Next
  <2>1. \A S \in SUBSET (1 .. m) : f[S] = h[S]
    BY <1>1, <1>3, <1>4 DEF IsFold
  <2> QED
    BY <1>1, <1>4, <2>1
<1>6. PICK h : Unrolled(h) /\ FoldLeft(Move, base, s) = h[DOMAIN s]
  <2> HIDE DEF Move
  <2> QED
    BY <1>5, Zenon DEF FoldLeft, MapThenFoldSet
<1>7. PICK chain \in [0 .. m -> X] : chain[m] = h[1 .. m] /\ IsChain(chain, m, base, step)
  <2> HIDE DEF Next
  <2>1. Folds(h, X, m, base, step)
    BY <1>1, <1>3, <1>6 DEF Folds
  <2> HIDE DEF Unrolled
  <2> QED
    BY <1>1, <1>2, <2>1, FoldSteps
<1>8. ASSUME NEW k \in 1 .. m
      PROVE  chain[k] = RedirectUser(chain[k - 1], s[k], i, x)
  <2>1. chain[k] = step[<<chain[k - 1], k>>] /\ chain[k - 1] \in X
    BY <1>1, <1>7 DEF IsChain
  <2>2. chain[k] = Move(chain[k - 1], s[k])
    <3> HIDE DEF Move
    <3> QED
      BY <2>1 DEF step
  <2> QED
    BY <2>2 DEF RedirectUser
<1>9. RedirectsInSteps(chain, g, h[1 .. m], i, x)
  <2>1. chain[0] = base
    BY <1>7 DEF IsChain
  <2> QED
    BY <1>7, <1>8, <2>1 DEF m, s, base, RedirectsInSteps
<1>10. \A k \in 0 .. Len(g.users[i]) : Pair(A, chain[k])
  BY <1>7 DEF Pair, X, m, s
<1> QED
  <2>1. RedirectUsers(g, i, x) = h[1 .. m]
    BY <1>0, <1>1, <1>6, Zenon
  <2> QED
    BY <1>9, <1>10, <2>1, Zenon

(* What the loop does in the end. *)
LEMMA CodeRedirects ==
  ASSUME NEW A, NEW g, Pair(A, g), NEW op, NEW c \in A, NEW x \in A,
         \A u \in A : Vector(op, u) <=> HasVectorInputs(u),
         \A u \in Uses(g.users[c]) :
           /\ c \in Uses(g.inputs[u])
           /\ ~Vector(op, u) => Len(g.inputs[u]) = 2 /\ Count(g.users[c], u) = 1,
         NEW h, h = RedirectUsers(g, c, x)
  PROVE  Redirected(A, op, g.inputs, g.users, h.inputs, h.users, c, x)
<1> DEFINE inp == g.inputs
           us == g.users
           w == us[c]
           n == Len(w)
           New(k, u) == IF u \in {w[m] : m \in 1 .. k} /\ ~Vector(op, u)
                        THEN ReplaceAll(inp[u], c, x) ELSE inp[u]
<1>1. /\ inp \in Lists(A, A) /\ us \in Lists(A, A) /\ w \in Seq(A) /\ n \in Nat
      /\ \A u \in A : inp[u] \in Seq(A) /\ us[u] \in Seq(A)
      /\ g = [inputs |-> inp, users |-> us]
  BY DEF Pair, Lists
<1>2. PICK chain : /\ \A k \in 0 .. n : Pair(A, chain[k])
                   /\ RedirectsInSteps(chain, g, h, c, x)
  BY RedirectSteps
<1>3. /\ chain[0] = [g EXCEPT !.users[c] = <<>>] /\ chain[n] = h
      /\ \A k \in 1 .. n : chain[k] = RedirectUser(chain[k - 1], w[k], c, x)
  BY <1>2, Zenon DEF RedirectsInSteps
<1>4. \A u \in Uses(w) : /\ u \in A /\ c \in Uses(inp[u])
                         /\ ~Vector(op, u) => Len(inp[u]) = 2 /\ Count(w, u) = 1
  BY <1>1, UsesTyped
<1>5. \A u \in A : Vector(op, u) <=> HasVectorInputs(u)
  OBVIOUS
<1> HIDE DEF inp, us, w, n
<1> DEFINE Good(k, e) ==
             /\ \A u \in A : e.inputs[u] = New(k, u)
             /\ \A d \in A \ {c} : e.users[d] = us[d]
             /\ \A u \in A : /\ Count(e.users[c], u) <= Upto(w, k, u)
                             /\ ~Vector(op, u) => Count(e.users[c], u) = 0
<1>6. Good(0, chain[0])
  <2>1. /\ chain[0].inputs = inp /\ chain[0].users = [us EXCEPT ![c] = <<>>]
    BY <1>1, <1>3
  <2>2. chain[0].users[c] = <<>> /\ \A d \in A \ {c} : chain[0].users[d] = us[d]
    BY <1>1, <2>1 DEF Lists
  <2>3. \A u : Count(<<>>, u) = 0 /\ Upto(w, 0, u) = 0
    BY UptoStep DEF Count
  <2>4. {w[m] : m \in 1 .. 0} = {}
    OBVIOUS
  <2> QED
    BY <2>1, <2>2, <2>3, <2>4
<1>7. ASSUME NEW k \in 1 .. n, Good(k - 1, chain[k - 1])
      PROVE  Good(k, chain[k])
  <2> DEFINE e == chain[k - 1]
             f == chain[k]
             v == w[k]
  <2>1. /\ k \in Nat /\ k # 0 /\ k - 1 \in Nat /\ k - 1 \in 0 .. n
        /\ \A m : m \in 1 .. k <=> m \in 1 .. k - 1 \/ m = k
    BY <1>1
  <2>2. /\ v \in Uses(w) /\ v \in A /\ c \in Uses(inp[v])
        /\ ~Vector(op, v) => Len(inp[v]) = 2 /\ Count(w, v) = 1
    <3>1. v \in Uses(w)
      BY DEF n, Uses
    <3> QED
      BY <1>4, <3>1
  <2>3. f = RedirectUser(e, v, c, x) /\ Pair(A, e) /\ Pair(A, f)
    BY <1>2, <1>3, <2>1
  <2>4. /\ e = [inputs |-> e.inputs, users |-> e.users]
        /\ e.inputs \in Lists(A, A) /\ e.users \in Lists(A, A)
        /\ e.inputs[v] \in Seq(A) /\ e.users[c] \in Seq(A)
    BY <2>2, <2>3 DEF Pair, Lists
  <2>5. \A u : /\ Upto(w, k, u) = Upto(w, k - 1, u) + (IF v = u THEN 1 ELSE 0)
               /\ Upto(w, k - 1, u) \in Nat /\ Count(e.users[c], u) \in Nat
    BY <2>1, <2>4, UptoStep, CountUses
  <2>6. \A u \in A : u # v => New(k, u) = New(k - 1, u)
    BY <2>1
  <2> HIDE DEF e, f, v, New
  <2>7. /\ \A u \in A : e.inputs[u] = New(k - 1, u)
        /\ \A d \in A \ {c} : e.users[d] = us[d]
        /\ \A u \in A : /\ Count(e.users[c], u) <= Upto(w, k - 1, u)
                        /\ ~Vector(op, u) => Count(e.users[c], u) = 0
    BY <1>7 DEF e
  <2>8. CASE Vector(op, v)
    <3>1. HasVectorInputs(v)
      BY <1>5, <2>2, <2>8
    <3>2. f \in {e, [e EXCEPT !.users[c] = Append(@, v)]}
      BY <2>3, <3>1 DEF RedirectUser
    <3>3. New(k, v) = New(k - 1, v)
      BY <2>8 DEF New
    <3>4. f.inputs = e.inputs /\ f.users \in {e.users, [e.users EXCEPT ![c] = Append(@, v)]}
      BY <2>4, <3>2
    <3>5. /\ \A d \in A \ {c} : f.users[d] = e.users[d]
          /\ f.users[c] \in {e.users[c], Append(e.users[c], v)}
      BY <2>4, <3>4 DEF Lists
    <3>6. \A u : Count(Append(e.users[c], v), u)
                   = Count(e.users[c], u) + (IF v = u THEN 1 ELSE 0)
      BY <2>2, <2>4, CountAppend
    <3>7. ASSUME NEW u \in A
          PROVE  /\ Count(f.users[c], u) <= Upto(w, k, u)
                 /\ ~Vector(op, u) => Count(f.users[c], u) = 0
      <4>1. \/ Count(f.users[c], u) = Count(e.users[c], u)
            \/ Count(f.users[c], u) = Count(e.users[c], u) + (IF v = u THEN 1 ELSE 0)
        BY <3>5, <3>6
      <4> QED
        BY <2>5, <2>7, <2>8, <4>1
    <3> QED
      BY <2>6, <2>7, <3>3, <3>4, <3>5, <3>7 DEF f
  <2>9. CASE ~Vector(op, v)
    <3>1. ~HasVectorInputs(v)
      BY <1>5, <2>2, <2>9
    <3>2. v \notin {w[m] : m \in 1 .. k - 1} /\ v \in {w[m] : m \in 1 .. k}
      <4>1. ASSUME NEW m \in 1 .. k - 1, w[m] = v PROVE FALSE
        <5>1. m \in 1 .. Len(w) /\ k \in 1 .. Len(w) /\ m # k
          BY <1>1 DEF n
        <5> QED
          BY <1>1, <2>2, <2>9, <4>1, <5>1, OnlyPlace DEF v
      <4> QED
        BY <2>1, <4>1 DEF v
    <3>3. e.inputs[v] = inp[v] /\ New(k, v) = ReplaceAll(inp[v], c, x)
      BY <2>2, <2>7, <2>9, <3>2 DEF New
    <3>4. c \in Uses(SubSeq(e.inputs[v], 1, Min({2, Len(e.inputs[v])})))
      <4>1. Min({2, 2}) = 2
        BY DEF Min
      <4>2. inp[v] \in Seq(A) /\ Len(inp[v]) = 2
        BY <1>1, <2>2, <2>9
      <4>3. SubSeq(inp[v], 1, 2) = inp[v]
        BY <4>2
      <4> QED
        BY <2>2, <3>3, <4>1, <4>2, <4>3
    <3>5. f = SetInputs(e, v, ReplaceAll(inp[v], c, x))
      BY <2>3, <3>1, <3>3, <3>4 DEF RedirectUser
    <3>6. /\ f.users = e.users /\ f.inputs = [e.inputs EXCEPT ![v] = ReplaceAll(inp[v], c, x)]
      BY <2>4, <3>5 DEF SetInputs
    <3>7. \A u \in A : f.inputs[u] = New(k, u)
      BY <2>2, <2>4, <2>6, <2>7, <3>3, <3>6 DEF Lists
    <3>8. ASSUME NEW u \in A
          PROVE  /\ Count(f.users[c], u) <= Upto(w, k, u)
                 /\ ~Vector(op, u) => Count(f.users[c], u) = 0
      BY <2>5, <2>7, <3>6
    <3> QED
      BY <2>7, <3>6, <3>7, <3>8 DEF f
  <2> QED
    BY <2>8, <2>9
<1>8. Good(n, chain[n])
  <2> DEFINE P == {k \in 0 .. n : Good(k, chain[k])}
  <2> HIDE DEF Good
  <2>1. 0 \in P
    BY <1>1, <1>6
  <2>2. ASSUME NEW k \in 1 .. n, k - 1 \in P PROVE k \in P
    <3>1. k \in 0 .. n
      BY <1>1
    <3> QED
      BY <1>7, <2>2, <3>1
  <2> HIDE DEF P
  <2>3. n \in P
    <3>1. \A k \in 0 .. n : k \in P
      BY <1>1, <2>1, <2>2, UpTo, Zenon
    <3> QED
      BY <1>1, <3>1
  <2> QED
    BY <2>3 DEF P
<1>9. h.inputs \in Lists(A, A) /\ h.users \in Lists(A, A)
  <2>1. n \in 0 .. n
    BY <1>1
  <2> QED
    BY <1>2, <1>3, <2>1 DEF Pair
<1>10. {w[m] : m \in 1 .. n} = Uses(w)
  BY DEF n, Uses
<1>11. \A u : Upto(w, n, u) = Count(w, u)
  BY DEF n, Count
<1>12. \A u \in A : ~Vector(op, u) => u \notin Uses(h.users[c])
  <2>1. h.users[c] \in Seq(A)
    BY <1>9 DEF Lists
  <2> QED
    BY <1>3, <1>8, <2>1, CountUses
<1> QED
  BY <1>3, <1>8, <1>9, <1>10, <1>11, <1>12 DEF Redirected, inp, us, w

-----------------------------------------------------------------------------
(* New instructions. *)

(* Appended to the lists of inputs and users it is new. *)
LEMMA NewInsnGrows ==
  ASSUME NEW A, NEW n, IsNext(A, n), n # Phi,
         NEW op, NEW op2 \in [A \cup {n} -> Opcodes], op2[n] # "phi", \A i \in A : op2[i] = op[i],
         NEW one, NEW one2, one \subseteq one2,
         NEW s \in Seq(A), InputsFit(op2, n, s),
         NEW inp \in Lists(A, A), NEW us \in Lists(A, A), NEW us2 \in Lists(A, A \cup {n}),
         NewUser(A, us, us2, n, s)
  PROVE  Grown(A, op, one, inp, us, n, s, op2, one2, Append(inp, s), Append(us2, <<>>))
<1> DEFINE B == A \cup {n}
<1>1. n \notin A
  BY DEF IsNext
<1>2. A \subseteq B /\ Seq(A) \subseteq Seq(B) /\ <<>> \in Seq(B)
  <2>1. A \subseteq B /\ <<>> \in Seq(B)
    OBVIOUS
  <2> QED
    BY <2>1, ListsGrow, Zenon
<1>3. inp \in Lists(A, B) /\ s \in Seq(B)
  BY <1>2 DEF Lists
<1>4. /\ Append(inp, s) \in Lists(B, B) /\ Append(inp, s)[n] = s
      /\ \A i \in A : Append(inp, s)[i] = inp[i]
  <2>1. OneAdded(A, n, inp, s, Append(inp, s))
    BY <1>3, OneListMore, Zenon
  <2> QED
    BY <2>1 DEF OneAdded
<1>5. /\ Append(us2, <<>>) \in Lists(B, B) /\ Append(us2, <<>>)[n] = <<>>
      /\ \A i \in A : Append(us2, <<>>)[i] = us2[i]
  <2>1. OneAdded(A, n, us2, <<>>, Append(us2, <<>>))
    BY <1>2, OneListMore, Zenon
  <2> QED
    BY <2>1 DEF OneAdded
<1> HIDE DEF Grown
<1>6. \A d \in A : /\ \A i : i # n => Count(Append(us2, <<>>)[d], i) = Count(us[d], i)
                   /\ Count(Append(us2, <<>>)[d], n) <= Count(s, d)
                   /\ d \in Uses(s) => Count(Append(us2, <<>>)[d], n) # 0
  BY <1>5 DEF NewUser
<1> QED
  BY <1>1, <1>4, <1>5, <1>6 DEF Grown

(* The operands of an operation list it once. *)
LEMMA OperandsListOnce ==
  ASSUME NEW A, NEW n, n \notin A, NEW B, B = A \cup {n}, NEW us \in Lists(A, A),
         NEW a \in A, NEW b \in A, NEW us2, us2 = ArithmeticUsers(us, a, b, n)
  PROVE  /\ us2 \in Lists(A, B) /\ NewUser(A, us, us2, n, <<a, b>>)
         /\ \A d \in A : Count(us2[d], n) <= 1
<1> DEFINE s == <<a, b>>
           once(u2, T) == \A d \in A : \A x :
              Count(u2[d], x) = Count(us[d], x) + (IF d \in T /\ x = n THEN 1 ELSE 0)
<1>1. us \in Lists(A, B) /\ n \in B
  <2>1. Seq(A) \subseteq Seq(B)
    BY ListsGrow
  <2> QED
    BY <2>1 DEF Lists
<1>2. s \in Seq(A) /\ Uses(s) = {a, b}
  <2>1. s \in Seq(A) /\ Len(s) = 2 /\ s[1] = a /\ s[2] = b
    OBVIOUS
  <2> QED
    BY <2>1, TwoInputs
<1>3. \A d \in A : \A x : Count(us[d], x) \in Nat
  BY CountUses DEF Lists
<1>4. us2 \in Lists(A, B) /\ once(us2, {a, b})
  <2> DEFINE us1 == AddUser(us, a, n)
  <2>1. us1 \in Lists(A, B) /\ AddsEntry(A, us, us1, a, n)
    BY <1>1, AddUserCounts
  <2> HIDE DEF us1
  <2>2. CASE a = b
    <3>1. us2 = us1
      BY <2>2 DEF ArithmeticUsers, us1
    <3> QED
      BY <2>1, <2>2, <3>1 DEF AddsEntry
  <2>3. CASE a # b
    <3>1. us2 = AddUser(us1, b, n)
      BY <2>3 DEF ArithmeticUsers, us1
    <3>2. us2 \in Lists(A, B) /\ AddsEntry(A, us1, us2, b, n)
      BY <1>1, <2>1, <3>1, AddUserCounts
    <3>3. ASSUME NEW d \in A, NEW x
          PROVE  Count(us2[d], x) =
                   Count(us[d], x) + (IF d \in {a, b} /\ x = n THEN 1 ELSE 0)
      <4>1. Count(us1[d], x) = Count(us[d], x) + (IF d = a /\ x = n THEN 1 ELSE 0)
        BY <2>1 DEF AddsEntry
      <4>2. Count(us2[d], x) = Count(us1[d], x) + (IF d = b /\ x = n THEN 1 ELSE 0)
        BY <3>2 DEF AddsEntry
      <4>3. Count(us[d], x) \in Nat
        BY <1>3
      <4> QED
        BY <2>3, <4>1, <4>2, <4>3
    <3> QED
      BY <3>2, <3>3
  <2> QED
    BY <2>2, <2>3
<1>5. NewUser(A, us, us2, n, s)
  <2>1. Enters(A, us, us2, s, n)
    BY <1>2, <1>4, EntersOnce
  <2> QED
    BY <1>2, <2>1, EntersAsNew
<1>6. ASSUME NEW d \in A PROVE Count(us2[d], n) <= 1
  <2>1. Count(us[d], n) = 0
    BY CountUses, UsesTyped DEF Lists
  <2> QED
    BY <1>4, <2>1
<1> QED
  BY <1>4, <1>5, <1>6

(* The sum of VisitMul gets its operands when it is there already. *)
LEMMA OperandsLater ==
  ASSUME NEW A, NEW n, IsNext(A, n), NEW x \in A,
         NEW inp \in Lists(A, A), NEW us \in Lists(A, A)
  PROVE  /\ [Append(inp, <<>>) EXCEPT ![n] = <<x, x>>] = Append(inp, <<x, x>>)
         /\ AddUser(Append(us, <<>>), x, n) = Append(ArithmeticUsers(us, x, x, n), <<>>)
<1> DEFINE B == A \cup {n}
           us1 == AddUser(us, x, n)
<1>1. n \notin A /\ Seq(A) \subseteq Seq(B) /\ <<x, x>> \in Seq(B) /\ <<>> \in Seq(B)
  <2>1. A \subseteq B /\ <<x, x>> \in Seq(B) /\ <<>> \in Seq(B)
    OBVIOUS
  <2>2. Seq(A) \subseteq Seq(B)
    BY <2>1, ListsGrow, Zenon
  <2> QED
    BY <2>1, <2>2 DEF IsNext
<1>2. inp \in Lists(A, B) /\ us \in Lists(A, B)
  BY <1>1 DEF Lists
<1>3. us1 \in Lists(A, B) /\ us1 = ArithmeticUsers(us, x, x, n)
  BY <1>2, AddUserCounts DEF ArithmeticUsers
<1>4. /\ OneAdded(A, n, inp, <<>>, Append(inp, <<>>))
      /\ OneAdded(A, n, inp, <<x, x>>, Append(inp, <<x, x>>))
      /\ OneAdded(A, n, us, <<>>, Append(us, <<>>))
      /\ OneAdded(A, n, us1, <<>>, Append(us1, <<>>))
  BY <1>1, <1>2, <1>3, OneListMore, Zenon
<1>5. [Append(inp, <<>>) EXCEPT ![n] = <<x, x>>] = Append(inp, <<x, x>>)
  BY <1>1, <1>4 DEF OneAdded, Lists
<1>6. AddUser(Append(us, <<>>), x, n) = Append(us1, <<>>)
  <2> DEFINE t == Append(us, <<>>)
             t1 == Append(us1, <<>>)
  <2>1. /\ t \in Lists(B, B) /\ t1 \in Lists(B, B) /\ t[n] = <<>> /\ t1[n] = <<>>
        /\ \A i \in A : t[i] = us[i] /\ t1[i] = us1[i]
    BY <1>4 DEF OneAdded
  <2> HIDE DEF t, t1
  <2>2. us1 = [us EXCEPT ![x] = Append(us[x], n)]
    BY DEF AddUser
  <2>3. AddUser(t, x, n) = [t EXCEPT ![x] = Append(t[x], n)]
    BY DEF AddUser
  <2>4. \A i \in B : t1[i] = [t EXCEPT ![x] = Append(t[x], n)][i]
    BY <1>1, <2>1, <2>2 DEF Lists
  <2>5. t1 = [t EXCEPT ![x] = Append(t[x], n)]
    BY <2>1, <2>4 DEF Lists
  <2> QED
    BY <2>3, <2>5 DEF t, t1
<1> QED
  BY <1>3, <1>5, <1>6

(* What an instruction that is built does to the program. *)
LEMMA OneBuilt ==
  ASSUME NEW A, NEW op, NEW one, NEW inp, NEW us, NEW cd,
         EdgesOK(A, op, one, inp, us, cd, {}),
         NEW n, IsNext(A, n), n # Phi, NEW op2 \in [A \cup {n} -> Opcodes], op2[n] # "phi",
         \A i \in A : op2[i] = op[i], NEW one2, one \subseteq one2,
         NEW s \in Seq(Uses(cd)), InputsFit(op2, n, s),
         NEW us2 \in Lists(A, A \cup {n}), NewUser(A, us, us2, n, s),
         op2[n] # "call" => \A d \in A : Count(us2[d], n) <= 1
  PROVE  EdgesOK(A \cup {n}, op2, one2, Append(inp, s), Append(us2, <<>>), Append(cd, n), {})
<1> DEFINE B == A \cup {n}
           inp2 == Append(inp, s)
           us3 == Append(us2, <<>>)
           cd2 == Append(cd, n)
<1>1. /\ inp \in Lists(A, A) /\ us \in Lists(A, A) /\ cd \in Seq(A) /\ Injective(cd)
      /\ Uses(cd) \subseteq A
  BY UsesTyped DEF EdgesOK, EdgesTyped
<1>2. n \notin A /\ s \in Seq(A) /\ Uses(s) \subseteq Uses(cd)
  <2>1. Seq(Uses(cd)) \subseteq Seq(A)
    BY <1>1, ListsGrow, Zenon
  <2> QED
    BY <2>1, UsesTyped DEF IsNext
<1>3. Grown(A, op, one, inp, us, n, s, op2, one2, inp2, us3)
  BY <1>1, <1>2, NewInsnGrows, Zenon
<1>4. \A d \in Uses(cd) \ {} : op[d] \in Operations /\ ~Vector(op2, n) => Count(us3[d], n) <= 1
  <2>1. OneAdded(A, n, us2, <<>>, us3)
    <3>1. <<>> \in Seq(B)
      OBVIOUS
    <3> QED
      BY <3>1, OneListMore, Zenon
  <2> QED
    BY <1>1, <2>1 DEF OneAdded, Vector
<1>5. /\ cd2 \in Seq(B) /\ Injective(cd2) /\ Uses(cd2) = Uses(cd) \cup {n}
      /\ SameOrder(cd, cd2) /\ \A a \in Uses(cd) : InFront(cd2, a, n)
  <2>1. cd \in Seq(B) /\ n \in B /\ n \notin Uses(cd)
    <3>1. Seq(A) \subseteq Seq(B)
      BY ListsGrow
    <3> QED
      BY <1>1, <1>2, <3>1
  <2> QED
    BY <1>1, <2>1, AppendedInOrder
<1> HIDE DEF inp2, us3, cd2
<1>6. \A d \in Uses(s) : InFront(cd2, d, n)
  BY <1>2, <1>5
<1>7. PutIn(A, op, op2, us3, cd, cd2, {}, n, s)
  BY <1>2, <1>4, <1>5, <1>6 DEF PutIn
<1> QED
  BY <1>3, <1>7, OneMore, Zenon DEF inp2, us3, cd2

-----------------------------------------------------------------------------
(* The edges of the program. *)

(* The opcodes. *)
OpcodeOf == [i \in All |-> Opcode(i)]

(* The constants that are equal to one. *)
Ones == {i \in All : IsConst(i) /\ IsEqualTo(ConstantOf(i), 1)}

(* The operations that Run has visited. *)
Settled ==
  {i \in InCode :
     IsOperation(i) /\ runs # 0 /\ (currInsn # 0 => InFront(code, i, currInsn))}

(* The edges are in order until the first run is over. *)
EdgesInv ==
  /\ Phi \in InCode /\ Opcode(Phi) = "phi"
  /\ runs <= 1 => EdgesOK(All, OpcodeOf, Ones, inputs, users, code, Settled)

(* A new instruction changes no other. *)
LEMMA InsnsGrow ==
  ASSUME CodeInv, Phi \in InCode, NEW insn, insn.opcode \in Opcodes,
         insns' = Append(insns, insn)
  PROVE  /\ IsNext(All, NewInsn) /\ NewInsn # Phi /\ All' = All \cup {NewInsn}
         /\ OpcodeOf' \in [All \cup {NewInsn} -> Opcodes]
         /\ OpcodeOf'[NewInsn] = insn.opcode
         /\ \A i \in All : OpcodeOf'[i] = OpcodeOf[i]
         /\ Ones \subseteq Ones'
<1>1. IsList(insns) /\ Len(insns) \in Nat /\ Phi \in All /\ NewInsn = Len(insns) + 1
  BY CodeNumbers DEF CodeInv, NewInsn
<1>2. /\ Len(insns') = NewInsn /\ insns'[NewInsn] = insn
      /\ \A i \in All : insns'[i] = insns[i]
  BY <1>1, LongerList DEF All
<1>3. All' = All \cup {NewInsn} /\ NewInsn \notin All
  BY <1>1, <1>2 DEF All
<1>4. IsNext(All, NewInsn)
  BY <1>1 DEF IsNext, All
<1>5. /\ OpcodeOf' = [i \in All' |-> insns'[i].opcode]
      /\ OpcodeOf = [i \in All |-> insns[i].opcode]
      /\ Ones' = {i \in All' : insns'[i].opcode = "const" /\ IsEqualTo(insns'[i].constant, 1)}
      /\ Ones = {i \in All : insns[i].opcode = "const" /\ IsEqualTo(insns[i].constant, 1)}
  BY DEF OpcodeOf, Ones, Opcode, IsConst, ConstantOf
<1>6. \A i \in All : insns[i].opcode \in Opcodes
  BY DEF CodeInv, Opcode
<1>7. \A i \in All' : insns'[i].opcode \in Opcodes
  BY <1>2, <1>3, <1>6
<1>8. Ones \subseteq Ones'
  BY <1>2, <1>3, <1>5
<1>9. /\ OpcodeOf' \in [All \cup {NewInsn} -> Opcodes]
      /\ OpcodeOf'[NewInsn] = insn.opcode
      /\ \A i \in All : OpcodeOf'[i] = OpcodeOf[i]
  BY <1>2, <1>3, <1>5, <1>7
<1> QED
  BY <1>1, <1>3, <1>4, <1>8, <1>9

(* Before Run is called, nothing is settled. *)
LEMMA NothingSettled ==
  ASSUME runs = 0
  PROVE  Settled = {}
BY DEF Settled

(* What IrBuilder creates is in order. *)
LEMMA CreateKeepsEdges ==
  ASSUME CodeInv, EdgesInv, runs = 0, NEW insn, NEW s \in Seq(InCode), NEW us, NEW v, NEW w,
         CreateInstruction(insn, s, us, v, w),
         (insn.opcode \in Operations /\ Len(s) = 2) \/ insn.opcode = "call",
         us \in Lists(All, All \cup {NewInsn}), NewUser(All, users, us, NewInsn, s),
         insn.opcode # "call" => \A d \in All : Count(us[d], NewInsn) <= 1
  PROVE  EdgesInv'
<1>1. /\ insns' = Append(insns, insn) /\ code' = Append(code, NewInsn)
      /\ inputs' = Append(inputs, s) /\ users' = Append(us, <<>>)
      /\ runs' = 0
  BY DEF CreateInstruction
<1>2. PICK n : n = NewInsn
  OBVIOUS
<1>3. insn.opcode \in Opcodes /\ insn.opcode # "phi" /\ insn.opcode # "const"
      /\ insn.opcode # "add"
  BY DEF Opcodes, Operations
<1>4. /\ IsNext(All, n) /\ n # Phi /\ All' = All \cup {n}
      /\ OpcodeOf' \in [All \cup {n} -> Opcodes]
      /\ OpcodeOf'[n] = insn.opcode
      /\ \A i \in All : OpcodeOf'[i] = OpcodeOf[i]
      /\ Ones \subseteq Ones'
  BY <1>1, <1>2, <1>3, InsnsGrow DEF EdgesInv
<1>5. EdgesOK(All, OpcodeOf, Ones, inputs, users, code, {})
  <2>1. Settled = {} /\ runs <= 1
    BY NothingSettled
  <2> QED
    BY <2>1 DEF EdgesInv
<1>6. s \in Seq(Uses(code)) /\ InputsFit(OpcodeOf', n, s)
  <2>1. s \in Seq(Uses(code))
    BY DEF InCode
  <2>2. OpcodeOf'[n] = "call" \/ Len(s) = 2
    BY <1>4
  <2>3. OpcodeOf'[n] # "const" /\ (OpcodeOf'[n] = "call" => ~Binary(OpcodeOf', n))
    BY <1>3, <1>4 DEF Binary, Operations
  <2> QED
    BY <2>1, <2>2, <2>3 DEF InputsFit
<1>7. EdgesOK(All \cup {n}, OpcodeOf', Ones', inputs', users', code', {})
  <2>1. /\ us \in Lists(All, All \cup {n}) /\ NewUser(All, users, us, n, s)
        /\ OpcodeOf'[n] # "phi"
        /\ OpcodeOf'[n] # "call" => \A d \in All : Count(us[d], n) <= 1
    BY <1>2, <1>3, <1>4
  <2>2. EdgesOK(All \cup {n}, OpcodeOf', Ones', Append(inputs, s), Append(us, <<>>),
                Append(code, n), {})
    BY <1>4, <1>5, <1>6, <2>1, OneBuilt, Zenon
  <2> QED
    BY <1>1, <1>2, <2>2
<1>8. Settled' = {}
  BY <1>1 DEF Settled
<1>9. Phi \in InCode'
  <2>1. code \in Seq(1 .. n) /\ n \in 1 .. n /\ Phi \in Uses(code) /\ code' = Append(code, n)
    BY <1>1, <1>2, CodeNumbers DEF EdgesInv, InCode
  <2>2. Uses(code') = Uses(code) \cup {n}
    BY <2>1, UsesAppend
  <2> QED
    BY <2>1, <2>2 DEF InCode
<1>10. Opcode(Phi)' = "phi"
  <2>1. Phi \in All /\ OpcodeOf'[Phi] = OpcodeOf[Phi] /\ Phi \in All'
    BY <1>4, CodeNumbers DEF EdgesInv
  <2> QED
    BY <2>1 DEF EdgesInv, OpcodeOf
<1> QED
  BY <1>4, <1>7, <1>8, <1>9, <1>10 DEF EdgesInv

(* The operation built last is there. *)
LEMMA LastIsBuilt ==
  ASSUME CodeInv, Built # {}
  PROVE  LastBuilt \in InCode
<1>1. Built \subseteq 1 .. Len(insns) /\ Len(insns) \in Nat
  BY CodeNumbers DEF Built, All
<1>2. Max(Built) \in Built
  BY <1>1, MaxIsPosition
<1> QED
  BY <1>2 DEF LastBuilt, Built

(* Building keeps the edges in order. *)
LEMMA BuildKeepsEdges ==
  ASSUME CodeInv, EdgesInv, Build
  PROVE  EdgesInv'
<1>1. /\ runs = 0 /\ InCode \subseteq All /\ NewInsn \notin All
      /\ inputs \in Lists(All, All) /\ users \in Lists(All, All)
  <2>1. EdgesOK(All, OpcodeOf, Ones, inputs, users, code, Settled)
    BY DEF Build, EdgesInv
  <2> QED
    BY <2>1, CodeNumbers DEF Build, EdgesOK, EdgesTyped
<1>2. ASSUME NEW op \in operations, NEW a \in InCode, NEW b \in InCode,
             CreateOperation(op, a, b)
      PROVE  EdgesInv'
  <2> DEFINE us == ArithmeticUsers(users, a, b, NewInsn)
  <2>1. PICK v, w : CreateInstruction(Insn(op, type), <<a, b>>, us, v, w)
    BY <1>2, Zenon DEF CreateOperation
  <2>2. Insn(op, type).opcode \in Operations /\ Insn(op, type).opcode # "call"
    BY DEF Insn, CodeInv, Operations
  <2>3. /\ us \in Lists(All, All \cup {NewInsn}) /\ NewUser(All, users, us, NewInsn, <<a, b>>)
        /\ \A d \in All : Count(us[d], NewInsn) <= 1
    BY <1>1, OperandsListOnce
  <2>4. <<a, b>> \in Seq(InCode) /\ Len(<<a, b>>) = 2
    OBVIOUS
  <2> HIDE DEF us
  <2> QED
    BY <1>1, <2>1, <2>2, <2>3, <2>4, CreateKeepsEdges
<1>3. ASSUME NEW s \in Seq(InCode), CreateCall(s)
      PROVE  EdgesInv'
  <2> DEFINE us == AddToUsers(users, s, NewInsn)
  <2>1. PICK v, w : CreateInstruction(Insn("call", "VOID"), s, us, v, w)
    BY <1>3, Zenon DEF CreateCall
  <2>2. Insn("call", "VOID").opcode = "call"
    BY DEF Insn
  <2>3. us \in Lists(All, All \cup {NewInsn}) /\ NewUser(All, users, us, NewInsn, s)
    <3>1. /\ users \in Lists(All, All \cup {NewInsn}) /\ s \in Seq(All)
          /\ NewInsn \in All \cup {NewInsn}
      <4>1. Seq(All) \subseteq Seq(All \cup {NewInsn}) /\ Seq(InCode) \subseteq Seq(All)
        BY <1>1, ListsGrow
      <4> QED
        BY <1>1, <4>1 DEF Lists
    <3>2. us \in Lists(All, All \cup {NewInsn}) /\ Enters(All, users, us, s, NewInsn)
      BY <3>1, AddToUsersEnters
    <3> HIDE DEF us
    <3> QED
      BY <1>1, <3>1, <3>2, EntersAsNew
  <2> HIDE DEF us
  <2> QED
    BY <1>1, <2>1, <2>2, <2>3, CreateKeepsEdges
<1>4. ASSUME NEW d \in InCode, ResolveDependency(d)
      PROVE  EdgesInv'
  <2>1. /\ inputs' = [inputs EXCEPT ![Phi] = Append(@, d)] /\ users' = AddUser(users, d, Phi)
        /\ UNCHANGED <<insns, code, currInsn, runs>>
    BY <1>4 DEF ResolveDependency, program
  <2>2. EdgesOK(All, OpcodeOf, Ones, inputs, users, code, {})
    BY <1>1, NothingSettled DEF EdgesInv
  <2>3. Phi \in All /\ Phi \in Uses(code) /\ Phi \notin {} /\ d \in Uses(code)
    BY <1>1 DEF EdgesInv, InCode
  <2>4. EdgesOK(All, OpcodeOf, Ones, inputs', users', code, {})
    BY <2>1, <2>2, <2>3, OneResolved
  <2>5. UNCHANGED <<All, OpcodeOf, Ones, InCode, runs>>
    BY <2>1 DEF All, OpcodeOf, Ones, InCode, Opcode, IsConst, ConstantOf
  <2>6. Settled' = {}
    BY <1>1, <2>1 DEF Settled
  <2> QED
    BY <2>1, <2>4, <2>5, <2>6 DEF EdgesInv, Opcode
<1>5. ASSUME NEW op \in operations, NEW s \in Operands, CreateOperation(op, s[1], s[2])
      PROVE  EdgesInv'
  <2>1. s[1] \in InCode /\ s[2] \in InCode
    BY DEF Operands
  <2> QED
    BY <1>2, <1>5, <2>1
<1>6. ASSUME Built # {}, NEW k \in 1 .. MAX_ARGUMENTS,
             CreateCall([m \in 1 .. MAX_ARGUMENTS |-> IF m < k THEN Phi ELSE LastBuilt])
      PROVE  EdgesInv'
  <2>1. LastBuilt \in InCode /\ Phi \in InCode /\ MAX_ARGUMENTS \in Nat
    BY <1>6, LastIsBuilt, PeepholesAssumption DEF EdgesInv
  <2>2. [m \in 1 .. MAX_ARGUMENTS |-> IF m < k THEN Phi ELSE LastBuilt] \in Seq(InCode)
    BY <2>1
  <2> QED
    BY <1>3, <1>6, <2>2
<1>7. ASSUME Built # {}, ResolveDependency(LastBuilt) PROVE EdgesInv'
  BY <1>4, <1>7, LastIsBuilt
<1> QED
  BY <1>5, <1>6, <1>7 DEF Build

(* At the start nothing uses anything. *)
LEMMA EdgesInvInit == PeepholesInit => EdgesInv
<1> SUFFICES ASSUME PeepholesInit PROVE EdgesInv
  OBVIOUS
<1>1. PICK start \in Starts :
        /\ insns = <<Insn("phi", type)>>
                     \o [k \in DOMAIN start.pool |->
                           ConstantInsn(start.pool[k], ResultTypeOf(start.pool[k]))]
        /\ inputs = [i \in DOMAIN insns |-> <<>>] /\ users = inputs
        /\ code = [i \in DOMAIN insns |-> i]
        /\ runs = 0
  BY DEF PeepholesInit
<1>2. /\ IsList(insns) /\ Len(insns) \in Nat /\ DOMAIN insns = All /\ Phi \in All
      /\ insns[Phi] = Insn("phi", type)
      /\ \A i \in All : i # Phi => insns[i].opcode = "const"
  <2>1. /\ IsList(insns) /\ Len(insns) \in Nat \ {0} /\ DOMAIN insns = 1 .. Len(insns)
        /\ insns[Phi] = Insn("phi", type)
        /\ \A i \in 1 .. Len(insns) : i # Phi => insns[i].opcode = "const"
    BY <1>1, FirstInsns, Zenon
  <2> QED
    BY <2>1 DEF All, Phi
<1>3. CodeInv
  BY CodeInvInit
<1>4. InCode = All
  <2>1. Len(code) = Len(insns) /\ \A i \in All : code[i] = i
    BY <1>1, <1>2 DEF All
  <2> QED
    BY <2>1 DEF InCode, Uses, All
<1>5. Opcode(Phi) = "phi"
  BY <1>2 DEF Opcode, Insn
<1>6. \A i \in All : inputs[i] = <<>> /\ users[i] = <<>>
  BY <1>1, <1>2
<1>7. /\ \A i \in All : Uses(inputs[i]) = {} /\ Uses(users[i]) = {}
      /\ \A i \in All : \A x : Count(users[i], x) = 0
  <2>1. Uses(<<>>) = {}
    BY DEF Uses
  <2>2. \A x : Count(<<>>, x) = 0
    BY UptoStep DEF Count
  <2> QED
    BY <1>6, <2>1, <2>2
<1>8. EdgesTyped(All, OpcodeOf, inputs, users, code, {})
  <2>1. OpcodeOf \in [All -> Opcodes]
    BY <1>3 DEF OpcodeOf, CodeInv
  <2>2. inputs \in Lists(All, All) /\ users \in Lists(All, All)
    BY <1>1, <1>2 DEF Lists
  <2>3. \A i \in All : (OpcodeOf[i] = "phi" <=> i = Phi) /\ InputsFit(OpcodeOf, i, inputs[i])
    <3>1. \A i \in All : i # Phi => OpcodeOf[i] = "const"
      BY <1>2 DEF OpcodeOf, Opcode
    <3>2. OpcodeOf[Phi] = "phi"
      BY <1>2, <1>5 DEF OpcodeOf
    <3> QED
      BY <1>6, <3>1, <3>2 DEF InputsFit, Binary, Operations
  <2> QED
    BY <1>3, <2>1, <2>2, <2>3 DEF EdgesTyped, CodeInv
<1>9. /\ Ordered(OpcodeOf, inputs, code, {})
      /\ Known(OpcodeOf, Ones, inputs, users, code, {})
      /\ Truthful(OpcodeOf, inputs, users, code)
      /\ OnceAhead(All, OpcodeOf, users, code, {})
  BY <1>4, <1>7 DEF Ordered, Known, Truthful, OnceAhead, InCode
<1>10. Settled = {}
  BY <1>1, NothingSettled
<1> QED
  BY <1>2, <1>4, <1>5, <1>8, <1>9, <1>10 DEF EdgesInv, EdgesOK

(* Nothing is settled when Run starts. *)
LEMMA StartSettlesNothing ==
  ASSUME CodeInv, StartRun
  PROVE  Settled' = {}
<1>1. runs' = runs + 1 /\ runs \in Nat /\ UNCHANGED <<insns, code>>
  BY DEF StartRun, program, CodeInv
<1>2. PICK q : q = OperationFrom(1)
  OBVIOUS
<1>3. currInsn' = q
  BY <1>2 DEF StartRun
<1> SUFFICES ASSUME NEW i \in Settled' PROVE FALSE
  OBVIOUS
<1>4. i \in InCode /\ IsOperation(i) /\ (q # 0 => InFront(code, i, q))
  BY <1>1, <1>3 DEF Settled, InCode, IsOperation, Opcode
<1>5. q # 0 /\ (i = q \/ InFront(code, q, i))
  BY <1>2, <1>4, FirstInOrder
<1> QED
  BY <1>4, <1>5, OrderIsStrict DEF CodeInv

(* Then the edges stay in order. *)
LEMMA StartKeepsEdges ==
  ASSUME CodeInv, EdgesInv, StartRun
  PROVE  EdgesInv'
<1>1. /\ runs' = runs + 1 /\ runs \in Nat
      /\ UNCHANGED <<insns, inputs, users, code>>
  BY DEF StartRun, program, CodeInv
<1>2. UNCHANGED <<All, OpcodeOf, Ones, InCode>> /\ Opcode(Phi)' = Opcode(Phi)
  BY <1>1 DEF All, OpcodeOf, Ones, InCode, Opcode, IsConst, ConstantOf
<1>3. Settled' = {}
  BY StartSettlesNothing
<1>4. ASSUME runs' <= 1
      PROVE  EdgesOK(All, OpcodeOf, Ones, inputs', users', code', {})
  <2>1. runs = 0
    BY <1>1, <1>4
  <2>2. Settled = {} /\ runs <= 1
    BY <2>1, NothingSettled
  <2> QED
    BY <1>1, <2>2 DEF EdgesInv
<1> QED
  BY <1>2, <1>3, <1>4 DEF EdgesInv

(* Run is at its turn. *)
LEMMA RunAtTurn ==
  ASSUME CodeInv, currInsn # 0, runs # 0
  PROVE  AtTurn(OpcodeOf, code, Settled, currInsn)
<1>1. currInsn \in Uses(code) /\ IsOperation(currInsn) /\ Uses(code) \subseteq All
  BY CodeNumbers DEF CodeInv, InCode
<1>2. \A i \in All : OpcodeOf[i] = Opcode(i)
  BY DEF OpcodeOf
<1>3. ~InFront(code, currInsn, currInsn)
  BY OrderIsStrict DEF CodeInv
<1> QED
  BY <1>1, <1>2, <1>3 DEF AtTurn, Settled, IsOperation, InCode

(* After a visit the operation is settled, too, unless it is gone. *)
LEMMA TurnSettles ==
  ASSUME CodeInv, CodeEdit, runs # 0
  PROVE  /\ Settled \subseteq InCode'
         /\ Settled' = IF currInsn \in Uses(code') THEN Settled \cup {currInsn} ELSE Settled
<1>1. /\ \A i \in All : insns'[i] = insns[i]
      /\ \A i \in All' \ All : i = NewInsn /\ ~IsOperation(i)'
      /\ code' \in Seq(All')
      /\ Uses(code') \subseteq Uses(code) \cup {NewInsn}
      /\ Uses(code) \subseteq Uses(code') \cup {currInsn}
      /\ SameOrder(code, code')
  BY EditedCode
<1>2. PICK q : q = NextOperation
  OBVIOUS
<1>3. currInsn' = q /\ runs' = runs /\ currInsn # 0
  BY <1>2 DEF CodeEdit, EndTurn
<1>4. currInsn \in Uses(code) /\ IsOperation(currInsn) /\ Uses(code) \subseteq All
      /\ NewInsn \notin All
  BY <1>3, CodeNumbers DEF CodeInv, InCode
<1>5. /\ \A a, b : InFront(code, a, b) => ~InFront(code, b, a) /\ a # b
      /\ \A a, b, c : InFront(code, a, b) /\ InFront(code, b, c) => InFront(code, a, c)
      /\ \A a, b \in Uses(code) : a # b => InFront(code, a, b) \/ InFront(code, b, a)
  BY OrderIsStrict DEF CodeInv
<1>6. /\ q # 0 => /\ q \in Uses(code) /\ InFront(code, currInsn, q)
                  /\ q \in Uses(code')
      /\ \A i \in Uses(code) : IsOperation(i) /\ InFront(code, currInsn, i) =>
           q # 0 /\ (i = q \/ InFront(code, q, i))
  <2>1. /\ q # 0 => q \in Uses(code) /\ InFront(code, currInsn, q)
        /\ \A i \in Uses(code) : IsOperation(i) /\ InFront(code, currInsn, i) =>
             q # 0 /\ (i = q \/ InFront(code, q, i))
    BY <1>2, <1>3, NextInOrder DEF InCode
  <2> QED
    BY <1>1, <1>5, <2>1
<1>7. \A i \in All : IsOperation(i)' <=> IsOperation(i)
  BY <1>1 DEF IsOperation, Opcode
<1>8. Settled \subseteq Uses(code') /\ \A i \in Settled : i \in Uses(code) /\ i # currInsn
  <2>1. \A i \in Settled : i \in Uses(code) /\ i # currInsn
    BY <1>3, <1>5 DEF Settled, InCode
  <2> QED
    BY <1>1, <2>1
<1>9. ASSUME NEW i \in Uses(code), i \in Uses(code'), IsOperation(i)
      PROVE  (q # 0 => InFront(code', i, q)) <=> i = currInsn \/ InFront(code, i, currInsn)
  <2>1. q # 0 => (InFront(code', i, q) <=> InFront(code, i, q))
    BY <1>1, <1>6, <1>9 DEF SameOrder
  <2>2. ASSUME i = currInsn \/ InFront(code, i, currInsn), q # 0
        PROVE  InFront(code, i, q)
    BY <1>5, <1>6, <2>2
  <2>3. ASSUME i # currInsn, ~InFront(code, i, currInsn)
        PROVE  q # 0 /\ ~InFront(code, i, q)
    <3>1. InFront(code, currInsn, i)
      BY <1>4, <1>5, <2>3
    <3>2. q # 0 /\ (i = q \/ InFront(code, q, i))
      BY <1>6, <1>9, <3>1
    <3> QED
      BY <1>5, <3>2
  <2> QED
    BY <2>1, <2>2, <2>3
<1>10. ASSUME NEW i \in Uses(code'), IsOperation(i)'
       PROVE  i \in Uses(code) /\ IsOperation(i)
  <2>1. i \in All'
    BY <1>1, UsesTyped
  <2>2. i \in All
    BY <1>1, <1>10, <2>1
  <2> QED
    BY <1>1, <1>4, <1>7, <1>10, <2>2
<1>11. \A i : i \in Settled' <=> /\ i \in Uses(code') /\ IsOperation(i)'
                                 /\ q # 0 => InFront(code', i, q)
  BY <1>3 DEF Settled, InCode
<1>12. \A i : i \in Settled <=> /\ i \in Uses(code) /\ IsOperation(i)
                                /\ InFront(code, i, currInsn)
  BY <1>3 DEF Settled, InCode
<1>13. \A i : i \in Settled' <=> /\ i \in Uses(code')
                                 /\ i \in Settled \/ i = currInsn
  BY <1>4, <1>7, <1>8, <1>9, <1>10, <1>11, <1>12
<1> QED
  BY <1>8, <1>13 DEF InCode

-----------------------------------------------------------------------------
(* The visits, apart from the state. *)

(* The operation c gives way to x and is taken out at p. *)
LEMMA OneCut ==
  ASSUME NEW A, NEW op, NEW one, NEW g, Pair(A, g), NEW cd, NEW S, NEW c,
         EdgesOK(A, op, one, g.inputs, g.users, cd, S), AtTurn(op, cd, S, c),
         NEW x \in Uses(cd), InFront(cd, x, c), NEW p \in 1 .. Len(cd), cd[p] = c,
         NEW h, h = LeaveUsers(ReplaceInputsForUsers(g, c, x), c)
  PROVE  EdgesOK(A, op, one, h.inputs, h.users, RemoveAt(cd, p), S)
<1>1. /\ cd \in Seq(A) /\ Injective(cd) /\ c \in A /\ x \in A /\ Uses(cd) \subseteq A
  BY UsesTyped DEF EdgesOK, EdgesTyped, AtTurn
<1>2. c # x /\ \A u \in Uses(g.users[c]) : u # c /\ c \in Uses(g.inputs[u])
  <2>1. Turning(A, op, g.inputs, g.users, cd, S, c)
    BY TurnFacts, Zenon
  <2> QED
    BY <1>1, <2>1, OrderIsStrict DEF Turning
<1>3. WayGiven(A, g.inputs, g.users, h.inputs, h.users, c, x)
  BY <1>1, <1>2, CodeGivesWay
<1>4. /\ RemoveAt(cd, p) \in Seq(A) /\ Injective(RemoveAt(cd, p))
      /\ Uses(RemoveAt(cd, p)) = Uses(cd) \ {c}
      /\ SameOrder(cd, RemoveAt(cd, p)) /\ SameNeighbours(cd, RemoveAt(cd, p))
  BY <1>1, RemovedInOrder
<1> QED
  BY <1>3, <1>4, OneGivesWay, Zenon

(* Run stays at its turn when an instruction is put in that is no *)
(* operation. *)
LEMMA TurnStays ==
  ASSUME NEW op, NEW cd, NEW S, NEW c, AtTurn(op, cd, S, c), S \subseteq Uses(cd),
         NEW n, NEW op2, \A i \in Uses(cd) : op2[i] = op[i], op2[n] \notin Operations,
         NEW cd2, Uses(cd2) = Uses(cd) \cup {n}, SameOrder(cd, cd2)
  PROVE  AtTurn(op2, cd2, S, c)
<1>1. c \in Uses(cd) \ S /\ op[c] \in Operations
  BY DEF AtTurn
<1>2. \A m \in Uses(cd) : InFront(cd, m, c) <=> InFront(cd2, m, c)
  BY <1>1 DEF SameOrder
<1> QED
  BY <1>1, <1>2 DEF AtTurn

(* A new instruction n with the inputs s takes the place of c. *)
LEMMA OneReplaced ==
  ASSUME NEW A, NEW op, NEW one, NEW inp, NEW us, NEW cd, NEW S, NEW c,
         EdgesOK(A, op, one, inp, us, cd, S), AtTurn(op, cd, S, c),
         NEW n, NEW s, NEW op2, NEW one2, NEW g, Pair(A \cup {n}, g),
         Grown(A, op, one, inp, us, n, s, op2, one2, g.inputs, g.users),
         op2[n] \notin Operations, Uses(s) \subseteq Uses(inp[c]),
         \A d \in A : Count(g.users[d], n) <= 1,
         NEW p \in 1 .. Len(cd), cd[p] = c,
         NEW h, h = LeaveUsers(ReplaceInputsForUsers(g, c, n), c)
  PROVE  EdgesOK(A \cup {n}, op2, one2, h.inputs, h.users, ReplaceAt(cd, p, n), S)
<1> DEFINE B == A \cup {n}
           cd1 == InsertAt(cd, p, n)
<1>1. /\ cd \in Seq(A) /\ Injective(cd) /\ Uses(cd) \subseteq A /\ S \subseteq Uses(cd)
      /\ c \in Uses(cd) /\ op[c] \in Operations /\ c \in A
  BY UsesTyped DEF EdgesOK, EdgesTyped, AtTurn
<1>2. n \notin A /\ \A i \in A : op2[i] = op[i]
  BY DEF Grown
<1>3. \A d \in Uses(inp[c]) : d \in Uses(cd) /\ InFront(cd, d, c)
  <2>1. Turning(A, op, inp, us, cd, S, c)
    BY TurnFacts, Zenon
  <2> QED
    BY <2>1 DEF Turning
<1>4. cd \in Seq(B) /\ n \in B /\ n \notin Uses(cd) /\ Len(cd) \in Nat
  <2>1. Seq(A) \subseteq Seq(B)
    BY ListsGrow
  <2> QED
    BY <1>1, <1>2, <2>1
<1>5. /\ cd1 \in Seq(B) /\ Injective(cd1) /\ Uses(cd1) = Uses(cd) \cup {n}
      /\ SameOrder(cd, cd1) /\ OtherNeighbours(cd, cd1, cd[p - 1], c)
      /\ RightBehind(cd1, n, c)
  <2>1. p - 1 \in 0 .. Len(cd) /\ (p - 1) + 1 = p /\ p - 1 # Len(cd)
    BY <1>4
  <2> QED
    BY <1>1, <1>4, <2>1, InsertedInOrder
<1>6. ReplaceAt(cd, p, n) = RemoveAt(cd1, p + 1)
  BY <1>4, ReplaceByInsertAndRemove
<1>7. p + 1 \in 1 .. Len(cd1) /\ cd1[p + 1] = c
  <2>1. InsertionOf(n, p - 1, cd, cd1)
    <3>1. p - 1 \in 0 .. Len(cd) /\ (p - 1) + 1 = p
      BY <1>4
    <3> QED
      BY <1>4, <3>1, InsertAtElements
  <2>2. p \in (p - 1) + 1 .. Len(cd)
    BY <1>4
  <2> QED
    BY <1>4, <2>1, <2>2 DEF InsertionOf
<1> HIDE DEF cd1
<1>8. ASSUME NEW d \in Uses(s) PROVE d \in Uses(cd) /\ InFront(cd1, d, n)
  <2>1. d \in Uses(cd) /\ InFront(cd, d, c) /\ d # n
    BY <1>3, <1>4
  <2>2. InFront(cd1, d, c)
    BY <1>1, <1>5, <2>1 DEF SameOrder
  <2> QED
    BY <1>5, <2>1, <2>2, OrderIsStrict
<1>9. \A a \in S, b \in Uses(cd) :
        op[b] = "const" /\ RightBehind(cd, a, b) => RightBehind(cd1, a, b)
  <2>1. \A b : op[b] = "const" => b # c
    BY <1>1 DEF Operations
  <2> QED
    BY <1>1, <1>5, <2>1 DEF OtherNeighbours
<1>10. PutIn(A, op, op2, g.users, cd, cd1, S, n, s)
  BY <1>1, <1>5, <1>8, <1>9 DEF PutIn
<1>11. EdgesOK(B, op2, one2, g.inputs, g.users, cd1, S)
  BY <1>10, OneMore, Zenon
<1>12. AtTurn(op2, cd1, S, c)
  BY <1>1, <1>2, <1>5, TurnStays
<1>13. n \in Uses(cd1) /\ InFront(cd1, n, c)
  BY <1>5, OrderIsStrict
<1> HIDE DEF B
<1>14. EdgesOK(B, op2, one2, h.inputs, h.users, RemoveAt(cd1, p + 1), S)
  <2>1. Pair(B, g)
    BY DEF B
  <2> QED
    BY <1>7, <1>11, <1>12, <1>13, <2>1, OneCut, Zenon
<1> QED
  BY <1>6, <1>14 DEF B

(* The shift c of a shift t gets a new distance n, which is put behind it. *)
LEMMA OneShiftJoined ==
  ASSUME NEW A, NEW op, NEW one, NEW inp, NEW us, NEW cd, NEW S, NEW c,
         EdgesOK(A, op, one, inp, us, cd, S), AtTurn(op, cd, S, c),
         NEW n, NEW op2, NEW one2, NEW inp2, NEW us2,
         Grown(A, op, one, inp, us, n, <<>>, op2, one2, inp2, us2), op2[n] = "const",
         op[c] = "ashr", op[inp[c][1]] = "ashr", op[inp[c][2]] = "const",
         NEW p \in 1 .. Len(cd), cd[p] = c, NEW t, t = inp[c][1], NEW x, x = inp[t][1]
  PROVE  EdgesOK(A \cup {n}, op2, one2, [inp2 EXCEPT ![c] = <<x, n>>],
                 AddUser(AddUser(RemoveUser(us2, t, c), x, c), n, c),
                 InsertAt(cd, p + 1, n), S \cup {c})
<1> DEFINE B == A \cup {n}
           cd2 == InsertAt(cd, p + 1, n)
<1>1. /\ cd \in Seq(A) /\ Injective(cd) /\ Uses(cd) \subseteq A /\ S \subseteq Uses(cd)
      /\ c \in A /\ c \in Uses(cd) \ S /\ inp \in Lists(A, A)
  BY UsesTyped DEF EdgesOK, EdgesTyped, AtTurn
<1>2. /\ n \notin A /\ \A i \in A : op2[i] = op[i] /\ inp2[i] = inp[i]
      /\ \A d \in A : Count(us2[d], n) <= 0
  <2>1. \A d : Count(<<>>, d) = 0
    BY UptoStep DEF Count
  <2> QED
    BY <2>1 DEF Grown
<1>3. t \in A /\ inp[c][2] \in A /\ Uses(<<>>) = {}
  <2>1. inp[c] \in Seq(A) /\ Len(inp[c]) = 2
    <3>1. Turning(A, op, inp, us, cd, S, c)
      BY TurnFacts, Zenon
    <3> QED
      BY <3>1 DEF Turning
  <2> QED
    BY <2>1 DEF Uses
<1>4. cd \in Seq(B) /\ n \in B /\ n \notin Uses(cd) /\ Len(cd) \in Nat
  <2>1. Seq(A) \subseteq Seq(B)
    BY ListsGrow
  <2> QED
    BY <1>1, <1>2, <2>1
<1>5. /\ cd2 \in Seq(B) /\ Injective(cd2) /\ Uses(cd2) = Uses(cd) \cup {n}
      /\ SameOrder(cd, cd2) /\ OtherNeighbours(cd, cd2, c, cd[p + 1])
      /\ RightBehind(cd2, c, n)
  <2>1. p \in 0 .. Len(cd) /\ p # 0
    BY <1>4
  <2> QED
    BY <1>1, <1>4, <2>1, InsertedInOrder
<1> HIDE DEF cd2
<1>6. \A a \in S, b \in Uses(cd) :
        op[b] = "const" /\ RightBehind(cd, a, b) => RightBehind(cd2, a, b)
  BY <1>1, <1>5 DEF OtherNeighbours
<1>7. PutIn(A, op, op2, us2, cd, cd2, S, n, <<>>)
  <2>1. \A d \in Uses(cd) : Count(us2[d], n) <= 1
    <3> SUFFICES ASSUME NEW d \in Uses(cd) PROVE Count(us2[d], n) <= 1
      OBVIOUS
    <3>1. d \in A /\ us2[d] \in Seq(B)
      BY <1>1 DEF Grown, Lists
    <3>2. Count(us2[d], n) <= 0 /\ Count(us2[d], n) \in Nat
      BY <1>2, <3>1, CountUses
    <3> QED
      BY <3>2
  <2> QED
    BY <1>3, <1>5, <1>6, <2>1 DEF PutIn
<1>8. EdgesOK(B, op2, one2, inp2, us2, cd2, S)
  BY <1>7, OneMore, Zenon
<1>9. AtTurn(op2, cd2, S, c)
  <2>1. op2[n] \notin Operations
    BY DEF Operations
  <2> QED
    BY <1>1, <1>2, <1>5, <2>1, TurnStays
<1>10. /\ t = inp2[c][1] /\ op2[c] = "ashr" /\ op2[t] = "ashr" /\ op2[inp2[c][2]] = "const"
       /\ x = inp2[t][1] /\ n \in Uses(cd2)
  BY <1>1, <1>2, <1>3, <1>5
<1> HIDE DEF B
<1>11. EdgesOK(B, op2, one2, [inp2 EXCEPT ![c] = <<x, n>>],
               AddUser(AddUser(RemoveUser(us2, t, c), x, c), n, c), cd2, S \cup {c})
  BY <1>5, <1>8, <1>9, <1>10, OneJoined, Zenon
<1> QED
  BY <1>11 DEF B, cd2

-----------------------------------------------------------------------------
(* The visits. *)

(* What a visit has to keep. *)
SettledAfter == IF currInsn \in Uses(code') THEN Settled \cup {currInsn} ELSE Settled

(* Then it keeps the edges in order. *)
LEMMA VisitKeepsEdges ==
  ASSUME CodeInv, EdgesInv, CodeEdit,
         runs = 1 =>
           EdgesOK(All', OpcodeOf', Ones', inputs', users', code', SettledAfter)
  PROVE  EdgesInv'
<1>1. runs \in Nat /\ runs # 0 /\ runs' = runs /\ currInsn # 0
  BY DEF CodeInv, CodeEdit, EndTurn
<1>2. Settled' = SettledAfter
  BY <1>1, TurnSettles DEF SettledAfter
<1>3. Phi \in InCode' /\ Opcode(Phi)' = "phi"
  <2>1. Phi # currInsn /\ Phi \in All
    BY <1>1, CodeNumbers DEF EdgesInv, CodeInv, IsOperation, Operations
  <2>2. Uses(code) \subseteq Uses(code') \cup {currInsn} /\ insns'[Phi] = insns[Phi]
    BY <2>1, EditedCode
  <2> QED
    BY <2>1, <2>2 DEF EdgesInv, InCode, Opcode
<1>4. runs' <= 1 => runs = 1
  BY <1>1
<1> QED
  BY <1>2, <1>3, <1>4 DEF EdgesInv

(* What a visit is given. *)
LEMMA TurnGiven ==
  ASSUME CodeInv, EdgesInv, runs = 1, currInsn # 0
  PROVE  /\ EdgesOK(All, OpcodeOf, Ones, inputs, users, code, Settled)
         /\ AtTurn(OpcodeOf, code, Settled, currInsn)
         /\ inputs \in Lists(All, All) /\ users \in Lists(All, All)
         /\ currInsn \in All /\ currInsn \in Uses(code) /\ InCode \subseteq All
         /\ IndexOf(currInsn) \in 1 .. Len(code) /\ code[IndexOf(currInsn)] = currInsn
         /\ Len(inputs[currInsn]) = 2 /\ inputs[currInsn] \in Seq(All)
         /\ \A d \in Uses(inputs[currInsn]) :
              d \in Uses(code) /\ InFront(code, d, currInsn)
<1>1. EdgesOK(All, OpcodeOf, Ones, inputs, users, code, Settled)
  BY DEF EdgesInv
<1>2. AtTurn(OpcodeOf, code, Settled, currInsn)
  BY RunAtTurn
<1>3. inputs \in Lists(All, All) /\ users \in Lists(All, All)
  BY <1>1 DEF EdgesOK, EdgesTyped
<1>4. /\ currInsn \in All /\ currInsn \in Uses(code) /\ InCode \subseteq All
      /\ IndexOf(currInsn) \in 1 .. Len(code) /\ code[IndexOf(currInsn)] = currInsn
  BY CodeNumbers, PlaceInCode DEF CodeInv, InCode
<1>5. Turning(All, OpcodeOf, inputs, users, code, Settled, currInsn)
  BY <1>1, <1>2, TurnFacts, Zenon
<1>6. /\ Len(inputs[currInsn]) = 2 /\ inputs[currInsn] \in Seq(All)
      /\ \A d \in Uses(inputs[currInsn]) : d \in Uses(code) /\ InFront(code, d, currInsn)
  BY <1>5, Zenon DEF Turning
<1> QED
  BY <1>1, <1>2, <1>3, <1>4, <1>6

(* The edges with the inputs of the operation in order are in order, too. *)
LEMMA SwappedInOrder ==
  ASSUME CodeInv, EdgesInv, runs = 1, currInsn # 0, NEW g, g = InOrder(currInsn)
  PROVE  /\ EdgesOK(All, OpcodeOf, Ones, g.inputs, g.users, code, Settled)
         /\ Pair(All, g) /\ g = [inputs |-> g.inputs, users |-> g.users]
         /\ g.users = users /\ g.inputs[currInsn] = Swapped(currInsn)
         /\ g.inputs[currInsn] \in Seq(All) /\ Len(g.inputs[currInsn]) = 2
         /\ Uses(g.inputs[currInsn]) = Uses(inputs[currInsn])
<1> DEFINE s == Swapped(currInsn)
<1>1. s \in {inputs[currInsn], Reverse(inputs[currInsn])}
  BY DEF Swapped
<1>2. g = [inputs |-> [inputs EXCEPT ![currInsn] = s], users |-> users]
  BY DEF InOrder, SetInputs, Edges
<1> HIDE DEF s
<1>3. /\ EdgesOK(All, OpcodeOf, Ones, inputs, users, code, Settled)
      /\ AtTurn(OpcodeOf, code, Settled, currInsn)
      /\ inputs \in Lists(All, All) /\ currInsn \in All
  BY TurnGiven
<1>4. /\ EdgesOK(All, OpcodeOf, Ones, [inputs EXCEPT ![currInsn] = s], users, code, Settled)
      /\ s \in Seq(All) /\ Len(s) = 2 /\ Uses(s) = Uses(inputs[currInsn])
  BY <1>1, <1>3, SwapInputs
<1>5. EdgesOK(All, OpcodeOf, Ones, g.inputs, g.users, code, Settled)
  BY <1>2, <1>4
<1>6. g.inputs[currInsn] = s
  BY <1>2, <1>3 DEF Lists
<1>7. Pair(All, g)
  BY <1>2, <1>5 DEF Pair, EdgesOK, EdgesTyped
<1> QED
  BY <1>2, <1>4, <1>5, <1>6, <1>7 DEF s

(* A visit that leaves the code alone. *)
LEMMA KeepInsnKeepsEdges ==
  ASSUME CodeInv, EdgesInv, currInsn # 0, outcome = "running", NEW g, KeepInsn(g),
         runs = 1 =>
           EdgesOK(All, OpcodeOf, Ones, g.inputs, g.users, code, Settled \cup {currInsn})
  PROVE  EdgesInv'
<1>1. /\ inputs' = g.inputs /\ users' = g.users /\ UNCHANGED <<insns, code>> /\ EndTurn
  BY DEF KeepInsn, SetEdges, NothingNew
<1>2. CodeEdit
  BY <1>1 DEF CodeEdit, CodeKept
<1>3. UNCHANGED <<All, OpcodeOf, Ones>>
  BY <1>1 DEF All, OpcodeOf, Ones, Opcode, IsConst, ConstantOf
<1>4. SettledAfter = Settled \cup {currInsn}
  BY <1>1 DEF SettledAfter, CodeInv, InCode
<1> QED
  BY <1>1, <1>2, <1>3, <1>4, VisitKeepsEdges

(* A visit that takes the operation out for one of its inputs. *)
LEMMA GiveWayKeepsEdges ==
  ASSUME CodeInv, EdgesInv, currInsn # 0, outcome = "running",
         NEW g, NEW x, GiveWay(g, currInsn, x),
         runs = 1 => /\ Pair(All, g) /\ x \in Uses(inputs[currInsn])
                     /\ EdgesOK(All, OpcodeOf, Ones, g.inputs, g.users, code, Settled)
  PROVE  EdgesInv'
<1> DEFINE p == IndexOf(currInsn)
<1>1. PICK h : /\ h = LeaveUsers(ReplaceInputsForUsers(g, currInsn, x), currInsn)
               /\ inputs' = h.inputs /\ users' = h.users
  BY DEF GiveWay, SetEdges
<1>2. code' = RemoveAt(code, p) /\ insns' = insns /\ EndTurn
  BY DEF GiveWay, NothingNew
<1>3. CodeEdit
  BY <1>2 DEF CodeEdit, CodeCut
<1>4. UNCHANGED <<All, OpcodeOf, Ones>>
  BY <1>2 DEF All, OpcodeOf, Ones, Opcode, IsConst, ConstantOf
<1>5. ASSUME runs = 1
      PROVE  EdgesOK(All', OpcodeOf', Ones', inputs', users', code', SettledAfter)
  <2>1. /\ AtTurn(OpcodeOf, code, Settled, currInsn)
        /\ p \in 1 .. Len(code) /\ code[p] = currInsn
        /\ x \in Uses(code) /\ InFront(code, x, currInsn)
    BY <1>5, TurnGiven
  <2>2. /\ Pair(All, g)
        /\ EdgesOK(All, OpcodeOf, Ones, g.inputs, g.users, code, Settled)
    BY <1>5
  <2> HIDE DEF p
  <2>3. EdgesOK(All, OpcodeOf, Ones, h.inputs, h.users, RemoveAt(code, p), Settled)
    BY <1>1, <2>1, <2>2, OneCut, Zenon
  <2>4. currInsn \notin Uses(code')
    <3>1. Uses(RemoveAt(code, p)) = Uses(code) \ {code[p]}
      BY <2>1, RemovedInOrder DEF CodeInv
    <3> QED
      BY <1>2, <2>1, <3>1
  <2> QED
    BY <1>1, <1>2, <1>4, <2>3, <2>4 DEF SettledAfter
<1> QED
  BY <1>3, <1>5, VisitKeepsEdges

(* The edges g are ready for a new instruction with the inputs s to take   *)
(* the place of the operation, whose inputs are in order in inp: us has    *)
(* the instruction as a user of s.                                         *)
Prepared(g, inp, us, s) ==
  /\ g = [inputs |-> Append(inp, s), users |-> Append(us, <<>>)]
  /\ EdgesOK(All, OpcodeOf, Ones, inp, users, code, Settled)
  /\ s \in Seq(All) /\ Uses(s) \subseteq Uses(inp[currInsn])
  /\ us \in Lists(All, All \cup {NewInsn})
  /\ NewUser(All, users, us, NewInsn, s)
  /\ \A d \in All : Count(us[d], NewInsn) <= 1

(* They are those of the program with the new instruction. *)
LEMMA PreparedGrows ==
  ASSUME CodeInv, EdgesInv, NEW g, NEW e, NEW inp, NEW us, NEW s,
         (e.opcode = "add" /\ Len(s) = 2) \/ (e.opcode = "const" /\ s = <<>>),
         Prepared(g, inp, us, s), insns' = Append(insns, e), NEW n, n = NewInsn
  PROVE  /\ Pair(All \cup {n}, g) /\ \A d \in All : Count(g.users[d], n) <= 1
         /\ OpcodeOf'[n] \notin Operations
         /\ Grown(All, OpcodeOf, Ones, inp, users, n, s, OpcodeOf', Ones', g.inputs, g.users)
<1>1. e.opcode \in Opcodes \ Operations /\ e.opcode # "phi"
  BY DEF Opcodes, Operations
<1>2. /\ IsNext(All, n) /\ n # Phi /\ All' = All \cup {n}
      /\ OpcodeOf' \in [All \cup {n} -> Opcodes]
      /\ OpcodeOf'[n] = e.opcode
      /\ \A i \in All : OpcodeOf'[i] = OpcodeOf[i]
      /\ Ones \subseteq Ones'
  BY <1>1, InsnsGrow DEF EdgesInv
<1>3. InputsFit(OpcodeOf', n, s) /\ OpcodeOf'[n] # "phi" /\ OpcodeOf'[n] \notin Operations
  BY <1>1, <1>2 DEF InputsFit, Binary, Operations
<1>4. /\ EdgesOK(All, OpcodeOf, Ones, inp, users, code, Settled)
      /\ s \in Seq(All) /\ us \in Lists(All, All \cup {n})
      /\ NewUser(All, users, us, n, s)
      /\ \A d \in All : Count(us[d], n) <= 1
  BY DEF Prepared
<1>5. inp \in Lists(All, All) /\ users \in Lists(All, All)
  BY <1>4 DEF EdgesOK, EdgesTyped
<1>6. Grown(All, OpcodeOf, Ones, inp, users, n, s, OpcodeOf', Ones',
            Append(inp, s), Append(us, <<>>))
  BY <1>2, <1>3, <1>4, <1>5, NewInsnGrows, Zenon
<1>7. /\ g.inputs = Append(inp, s) /\ g.users = Append(us, <<>>)
      /\ g = [inputs |-> g.inputs, users |-> g.users]
  BY DEF Prepared
<1>8. Pair(All \cup {n}, g)
  BY <1>6, <1>7 DEF Grown, Pair
<1>9. \A d \in All : Count(g.users[d], n) <= 1
  <2>1. OneAdded(All, n, us, <<>>, Append(us, <<>>))
    <3>1. <<>> \in Seq(All \cup {n})
      OBVIOUS
    <3> QED
      BY <1>2, <1>4, <3>1, OneListMore, Zenon
  <2> QED
    BY <1>4, <1>7, <2>1 DEF OneAdded
<1> QED
  BY <1>3, <1>6, <1>7, <1>8, <1>9

(* What is in the code when the operation is replaced. *)
LEMMA ReplacedCode ==
  ASSUME CodeInv, currInsn # 0
  PROVE  Uses(ReplaceAt(code, IndexOf(currInsn), NewInsn))
           = (Uses(code) \ {currInsn}) \cup {NewInsn}
<1> DEFINE p == IndexOf(currInsn)
<1>1. p \in 1 .. Len(code) /\ code[p] = currInsn
  BY PlaceInCode DEF CodeInv
<1>2. NewInsn \notin Uses(code) /\ NewInsn \in 1 .. NewInsn /\ code \in Seq(1 .. NewInsn)
      /\ Injective(code)
  BY CodeNumbers DEF CodeInv, InCode
<1>3. PICK J, n : J = 1 .. NewInsn /\ n = NewInsn
  OBVIOUS
<1>4. n \in J /\ code \in Seq(J) /\ n \notin Uses(code)
  BY <1>2, <1>3
<1> HIDE DEF p
<1>5. Uses(ReplaceAt(code, p, n)) = (Uses(code) \ {code[p]}) \cup {n}
  BY <1>1, <1>2, <1>4, ReplacedInOrder
<1> QED
  BY <1>1, <1>3, <1>5 DEF p

(* A visit that puts a new instruction in the place of the operation. *)
LEMMA PutInsteadKeepsEdges ==
  ASSUME CodeInv, EdgesInv, currInsn # 0, outcome = "running", NEW g, NEW e,
         PutInstead(g, currInsn, e), NEW inp, NEW us, NEW s,
         (e.opcode = "add" /\ Len(s) = 2) \/ (e.opcode = "const" /\ s = <<>>),
         runs = 1 => Prepared(g, inp, us, s)
  PROVE  EdgesInv'
<1> DEFINE p == IndexOf(currInsn)
<1>0. PICK n : n = NewInsn
  OBVIOUS
<1>1. PICK h : /\ h = LeaveUsers(ReplaceInputsForUsers(g, currInsn, n), currInsn)
               /\ inputs' = h.inputs /\ users' = h.users
  BY <1>0 DEF PutInstead, SetEdges
<1>2. code' = ReplaceAt(code, p, n) /\ insns' = Append(insns, e) /\ EndTurn
  BY <1>0 DEF PutInstead, CreateInsn
<1>3. e.opcode \in Opcodes \ Operations
  BY DEF Opcodes, Operations
<1>4. CodeEdit
  BY <1>0, <1>2, <1>3 DEF CodeEdit, CodeAdded
<1>5. All' = All \cup {n}
  BY <1>0, <1>2, <1>3, InsnsGrow DEF EdgesInv
<1>6. ASSUME runs = 1
      PROVE  EdgesOK(All', OpcodeOf', Ones', inputs', users', code', SettledAfter)
  <2>1. /\ AtTurn(OpcodeOf, code, Settled, currInsn)
        /\ p \in 1 .. Len(code) /\ code[p] = currInsn
        /\ currInsn \in All
    BY <1>6, TurnGiven
  <2>2. /\ EdgesOK(All, OpcodeOf, Ones, inp, users, code, Settled)
        /\ Uses(s) \subseteq Uses(inp[currInsn])
    BY <1>6 DEF Prepared
  <2>3. /\ Pair(All \cup {n}, g) /\ \A d \in All : Count(g.users[d], n) <= 1
        /\ OpcodeOf'[n] \notin Operations
        /\ Grown(All, OpcodeOf, Ones, inp, users, n, s, OpcodeOf', Ones', g.inputs, g.users)
    BY <1>0, <1>2, <1>6, PreparedGrows
  <2> HIDE DEF p
  <2>4. EdgesOK(All \cup {n}, OpcodeOf', Ones', h.inputs, h.users,
                ReplaceAt(code, p, n), Settled)
    BY <1>1, <2>1, <2>2, <2>3, OneReplaced, Zenon
  <2>5. currInsn \notin Uses(code')
    BY <1>0, <1>2, <2>1, ReplacedCode, CodeNumbers DEF p
  <2> QED
    BY <1>1, <1>2, <1>5, <2>4, <2>5 DEF SettledAfter
<1> QED
  BY <1>4, <1>6, VisitKeepsEdges

(* A visit is one of Run. *)
LEMMA TurnRuns ==
  ASSUME NEW op, Turn(op)
  PROVE  currInsn # 0 /\ outcome = "running" /\ Opcode(currInsn) = op
BY DEF Turn

(* Folding into a constant. *)
LEMMA FoldPrepares ==
  ASSUME CodeInv, EdgesInv, currInsn # 0, runs = 1
  PROVE  Prepared(WithNew(Edges), inputs, users, <<>>)
<1>1. /\ EdgesOK(All, OpcodeOf, Ones, inputs, users, code, Settled)
      /\ users \in Lists(All, All) /\ NewInsn \notin All
  BY TurnGiven, CodeNumbers
<1>2. Uses(<<>>) = {} /\ <<>> \in Seq(All)
  BY DEF Uses
<1>3. /\ users \in Lists(All, All \cup {NewInsn})
      /\ NewUser(All, users, users, NewInsn, <<>>)
      /\ \A d \in All : Count(users[d], NewInsn) <= 1
  BY <1>1, NothingUsed
<1>4. WithNew(Edges) = [inputs |-> Append(inputs, <<>>), users |-> Append(users, <<>>)]
  BY DEF WithNew, Edges
<1> QED
  BY <1>1, <1>2, <1>3, <1>4 DEF Prepared

(* Then the edges stay in order. *)
LEMMA FoldKeepsEdges ==
  ASSUME CodeInv, EdgesInv, NEW op, Fold(op)
  PROVE  EdgesInv'
<1>1. PICK g, f : /\ g = WithNew(Edges)
                  /\ PutInstead(g, currInsn, ConstantInsn(f.constant, f.resultType))
  BY DEF Fold
<1>2. currInsn # 0 /\ outcome = "running"
  BY TurnRuns DEF Fold
<1>3. ConstantInsn(f.constant, f.resultType).opcode = "const"
  BY DEF ConstantInsn
<1>4. runs = 1 => Prepared(g, inputs, users, <<>>)
  BY <1>1, <1>2, FoldPrepares
<1> QED
  BY <1>1, <1>2, <1>3, <1>4, PutInsteadKeepsEdges

(* The operands of the sum of x with itself are set one by one. *)
LEMMA DoubledOperand ==
  ASSUME NEW A, NEW n, IsNext(A, n), NEW x \in A, NEW inp \in Lists(A, A),
         NEW us \in Lists(A, A), NEW f, f = [inputs |-> inp, users |-> us]
  PROVE  SetInputs(AddUserTo(WithNew(f), x, n), n, <<x, x>>)
           = [inputs |-> Append(inp, <<x, x>>),
              users  |-> Append(ArithmeticUsers(us, x, x, n), <<>>)]
<1>1. PICK inp1, us1 : inp1 = Append(inp, <<>>) /\ us1 = Append(us, <<>>)
  OBVIOUS
<1>2. PICK inp2, us2 :
        inp2 = Append(inp, <<x, x>>) /\ us2 = Append(ArithmeticUsers(us, x, x, n), <<>>)
  OBVIOUS
<1>3. [inp1 EXCEPT ![n] = <<x, x>>] = inp2 /\ AddUser(us1, x, n) = us2
  BY <1>1, <1>2, OperandsLater
<1>4. WithNew(f) = [inputs |-> inp1, users |-> us1]
  BY <1>1 DEF WithNew
<1>5. AddUserTo([inputs |-> inp1, users |-> us1], x, n) = [inputs |-> inp1, users |-> us2]
  BY <1>3 DEF AddUserTo
<1>6. SetInputs([inputs |-> inp1, users |-> us2], n, <<x, x>>)
        = [inputs |-> inp2, users |-> us2]
  BY <1>3 DEF SetInputs
<1> QED
  BY <1>2, <1>4, <1>5, <1>6, Zenon

(* A product with two becomes a sum. *)
LEMMA MulByTwoPrepares ==
  ASSUME CodeInv, EdgesInv, currInsn # 0, runs = 1, NEW f, f = InOrder(currInsn),
         NEW x, x = Swapped(currInsn)[1], NEW us, us = ArithmeticUsers(users, x, x, NewInsn),
         NEW h, h = SetInputs(AddUserTo(WithNew(f), x, NewInsn), NewInsn, <<x, x>>)
  PROVE  Prepared(h, f.inputs, us, <<x, x>>)
<1>1. /\ EdgesOK(All, OpcodeOf, Ones, f.inputs, users, code, Settled)
      /\ f = [inputs |-> f.inputs, users |-> users]
      /\ f.inputs[currInsn] = Swapped(currInsn)
      /\ f.inputs[currInsn] \in Seq(All) /\ Len(f.inputs[currInsn]) = 2
  BY SwappedInOrder
<1>2. f.inputs \in Lists(All, All) /\ users \in Lists(All, All)
  BY <1>1 DEF EdgesOK, EdgesTyped
<1>3. IsNext(All, NewInsn) /\ NewInsn \notin All
  BY CodeNumbers DEF IsNext, All, NewInsn
<1>4. x \in All /\ x \in Uses(f.inputs[currInsn])
  BY <1>1 DEF Uses
<1>5. <<x, x>> \in Seq(All) /\ Uses(<<x, x>>) = {x}
  <2>1. <<x, x>> \in Seq(All) /\ Len(<<x, x>>) = 2 /\ <<x, x>>[1] = x /\ <<x, x>>[2] = x
    BY <1>4
  <2> QED
    BY <2>1, TwoInputs
<1>6. h = [inputs |-> Append(f.inputs, <<x, x>>), users |-> Append(us, <<>>)]
  <2>1. f = [inputs |-> f.inputs, users |-> users]
    BY <1>1
  <2>2. SetInputs(AddUserTo(WithNew(f), x, NewInsn), NewInsn, <<x, x>>)
          = [inputs |-> Append(f.inputs, <<x, x>>),
             users |-> Append(ArithmeticUsers(users, x, x, NewInsn), <<>>)]
    BY <1>2, <1>3, <1>4, <2>1, DoubledOperand, Zenon
  <2> QED
    BY <2>2, Zenon
<1>7. /\ us \in Lists(All, All \cup {NewInsn})
      /\ NewUser(All, users, us, NewInsn, <<x, x>>)
      /\ \A d \in All : Count(us[d], NewInsn) <= 1
  BY <1>2, <1>3, <1>4, OperandsListOnce
<1> QED
  BY <1>1, <1>4, <1>5, <1>6, <1>7 DEF Prepared

(* Then the edges stay in order. *)
LEMMA MulByTwoKeepsEdges ==
  ASSUME CodeInv, EdgesInv, MulByTwo
  PROVE  EdgesInv'
<1>1. PICK x, f, h :
        /\ x = Swapped(currInsn)[1] /\ f = InOrder(currInsn)
        /\ h = SetInputs(AddUserTo(WithNew(f), x, NewInsn), NewInsn, <<x, x>>)
        /\ PutInstead(h, currInsn, Insn("add", "F64"))
  BY DEF MulByTwo
<1>2. currInsn # 0 /\ outcome = "running"
  BY TurnRuns DEF MulByTwo
<1>3. Insn("add", "F64").opcode = "add" /\ Len(<<x, x>>) = 2
  BY DEF Insn
<1>4. PICK us : us = ArithmeticUsers(users, x, x, NewInsn)
  OBVIOUS
<1>5. runs = 1 => Prepared(h, f.inputs, us, <<x, x>>)
  BY <1>1, <1>2, <1>4, MulByTwoPrepares
<1> QED
  BY <1>1, <1>2, <1>3, <1>5, PutInsteadKeepsEdges

(* What is known of an operation with two inputs. *)
LEMMA TurnOpcodes ==
  ASSUME CodeInv, currInsn # 0
  PROVE  /\ OpcodeOf[currInsn] = Opcode(currInsn)
         /\ \A i \in All : OpcodeOf[i] = Opcode(i)
         /\ \A i \in All : Vector(OpcodeOf, i) <=> HasVectorInputs(i)
<1>1. currInsn \in All
  BY CodeNumbers DEF CodeInv
<1>2. \A i \in All : OpcodeOf[i] = Opcode(i)
  BY DEF OpcodeOf
<1> QED
  BY <1>1, <1>2 DEF Vector, HasVectorInputs

(* A product with one is redirected. *)
LEMMA OneIsRedirected ==
  ASSUME CodeInv, EdgesInv, MulByOne, runs = 1,
         NEW g, g = InOrder(currInsn), NEW x, x = g.inputs[currInsn][1],
         NEW h, h = RedirectUsers(g, currInsn, x)
  PROVE  /\ OpcodeOf[currInsn] = "mul" /\ g.inputs[currInsn][2] \in Ones
         /\ Redirected(All, OpcodeOf, g.inputs, g.users, h.inputs, h.users, currInsn, x)
<1>1. currInsn # 0 /\ outcome = "running" /\ Opcode(currInsn) = "mul"
  BY TurnRuns DEF MulByOne
<1>2. /\ AtTurn(OpcodeOf, code, Settled, currInsn) /\ currInsn \in All
  BY <1>1, TurnGiven
<1>3. /\ EdgesOK(All, OpcodeOf, Ones, g.inputs, g.users, code, Settled)
      /\ Pair(All, g) /\ g.inputs[currInsn] = Swapped(currInsn)
      /\ g.inputs[currInsn] \in Seq(All) /\ Len(g.inputs[currInsn]) = 2
  BY <1>1, SwappedInOrder
<1>4. x \in All /\ g.inputs[currInsn][2] \in All
  BY <1>3, TwoInputs, Zenon
<1>5. g.inputs[currInsn][2] \in Ones
  <2>1. IsFactor(g.inputs[currInsn], 1)
    BY <1>3 DEF MulByOne
  <2> QED
    BY <1>4, <2>1 DEF IsFactor, Ones
<1>6. OpcodeOf[currInsn] = "mul" /\ \A u \in All : Vector(OpcodeOf, u) <=> HasVectorInputs(u)
  BY <1>1, TurnOpcodes
<1>7. \A u \in Uses(g.users[currInsn]) :
        /\ currInsn \in Uses(g.inputs[u])
        /\ ~Vector(OpcodeOf, u) =>
             Len(g.inputs[u]) = 2 /\ Count(g.users[currInsn], u) = 1
  <2>1. Turning(All, OpcodeOf, g.inputs, g.users, code, Settled, currInsn)
    BY <1>2, <1>3, TurnFacts, Zenon
  <2> QED
    BY <2>1, Zenon DEF Turning
<1>8. Redirected(All, OpcodeOf, g.inputs, g.users, h.inputs, h.users, currInsn, x)
  BY <1>2, <1>3, <1>4, <1>6, <1>7, CodeRedirects, Zenon
<1> QED
  BY <1>5, <1>6, <1>8

(* Then the edges are still in order. *)
LEMMA MulByOneKeepsEdges ==
  ASSUME CodeInv, EdgesInv, MulByOne
  PROVE  EdgesInv'
<1>1. PICK g, x, h : /\ g = InOrder(currInsn) /\ x = g.inputs[currInsn][1]
                     /\ h = RedirectUsers(g, currInsn, x) /\ KeepInsn(h)
  BY DEF MulByOne
<1>2. currInsn # 0 /\ outcome = "running"
  BY TurnRuns DEF MulByOne
<1>3. ASSUME runs = 1
      PROVE  EdgesOK(All, OpcodeOf, Ones, h.inputs, h.users, code, Settled \cup {currInsn})
  <2>1. /\ AtTurn(OpcodeOf, code, Settled, currInsn)
        /\ EdgesOK(All, OpcodeOf, Ones, g.inputs, g.users, code, Settled)
    BY <1>1, <1>2, <1>3, TurnGiven, SwappedInOrder
  <2>2. /\ OpcodeOf[currInsn] = "mul" /\ g.inputs[currInsn][2] \in Ones
        /\ Redirected(All, OpcodeOf, g.inputs, g.users, h.inputs, h.users, currInsn, x)
    BY <1>1, <1>3, OneIsRedirected
  <2> QED
    BY <1>1, <2>1, <2>2, OneRedirected, Zenon
<1> QED
  BY <1>1, <1>2, <1>3, KeepInsnKeepsEdges

(* A product or a disjunction stays, its inputs in order. *)
LEMMA OrderKeepsEdges ==
  ASSUME CodeInv, EdgesInv, currInsn # 0, outcome = "running", KeepInsn(InOrder(currInsn))
  PROVE  EdgesInv'
<1>1. PICK g : g = InOrder(currInsn) /\ KeepInsn(g)
  OBVIOUS
<1>2. ASSUME runs = 1
      PROVE  EdgesOK(All, OpcodeOf, Ones, g.inputs, g.users, code, Settled \cup {currInsn})
  <2>1. AtTurn(OpcodeOf, code, Settled, currInsn)
    BY <1>2, TurnGiven
  <2>2. EdgesOK(All, OpcodeOf, Ones, g.inputs, g.users, code, Settled)
    BY <1>1, <1>2, SwappedInOrder
  <2> QED
    BY <2>1, <2>2, Settle, Zenon
<1> QED
  BY <1>1, <1>2, KeepInsnKeepsEdges

(* A shift stays. *)
LEMMA AshrStaysKeepsEdges ==
  ASSUME CodeInv, EdgesInv, AshrStays
  PROVE  EdgesInv'
<1>1. KeepInsn(Edges) /\ Edges.inputs = inputs /\ Edges.users = users
  BY DEF AshrStays, Edges
<1>2. currInsn # 0 /\ outcome = "running"
  BY TurnRuns DEF AshrStays
<1>3. ASSUME runs = 1
      PROVE  EdgesOK(All, OpcodeOf, Ones, inputs, users, code, Settled \cup {currInsn})
  <2>1. /\ AtTurn(OpcodeOf, code, Settled, currInsn)
        /\ EdgesOK(All, OpcodeOf, Ones, inputs, users, code, Settled)
    BY <1>2, <1>3, TurnGiven
  <2> QED
    BY <2>1, Settle, Zenon
<1>4. PICK g : g = Edges
  OBVIOUS
<1> QED
  BY <1>1, <1>2, <1>3, <1>4, KeepInsnKeepsEdges

(* A shift by zero gives way to what it shifts. *)
LEMMA AshrByZeroKeepsEdges ==
  ASSUME CodeInv, EdgesInv, AshrByZero
  PROVE  EdgesInv'
<1>1. PICK g, x : g = Edges /\ x = inputs[currInsn][1] /\ GiveWay(g, currInsn, x)
  BY DEF AshrByZero
<1>2. currInsn # 0 /\ outcome = "running"
  BY TurnRuns DEF AshrByZero
<1>3. g = [inputs |-> inputs, users |-> users]
  BY <1>1 DEF Edges
<1>4. ASSUME runs = 1
      PROVE  /\ Pair(All, g) /\ x \in Uses(inputs[currInsn])
             /\ EdgesOK(All, OpcodeOf, Ones, g.inputs, g.users, code, Settled)
  <2>1. /\ EdgesOK(All, OpcodeOf, Ones, inputs, users, code, Settled)
        /\ inputs \in Lists(All, All) /\ users \in Lists(All, All)
        /\ Len(inputs[currInsn]) = 2 /\ inputs[currInsn] \in Seq(All)
    BY <1>2, <1>4, TurnGiven
  <2>2. Pair(All, g)
    BY <1>3, <2>1 DEF Pair
  <2>3. x \in Uses(inputs[currInsn])
    BY <1>1, <2>1, TwoInputs
  <2> QED
    BY <1>3, <2>1, <2>2, <2>3
<1> QED
  BY <1>1, <1>2, <1>4, GiveWayKeepsEdges

(* A disjunction gives way to its first input. *)
LEMMA OrGivesWayKeepsEdges ==
  ASSUME CodeInv, EdgesInv, OrGivesWay
  PROVE  EdgesInv'
<1>1. PICK g, x : /\ g = InOrder(currInsn) /\ x = g.inputs[currInsn][1]
                  /\ GiveWay(g, currInsn, x)
  BY DEF OrGivesWay
<1>2. currInsn # 0 /\ outcome = "running"
  BY TurnRuns DEF OrGivesWay
<1>3. ASSUME runs = 1
      PROVE  /\ Pair(All, g) /\ x \in Uses(inputs[currInsn])
             /\ EdgesOK(All, OpcodeOf, Ones, g.inputs, g.users, code, Settled)
  <2>1. /\ EdgesOK(All, OpcodeOf, Ones, g.inputs, g.users, code, Settled)
        /\ Pair(All, g)
        /\ g.inputs[currInsn] \in Seq(All) /\ Len(g.inputs[currInsn]) = 2
        /\ Uses(g.inputs[currInsn]) = Uses(inputs[currInsn])
    BY <1>1, <1>2, <1>3, SwappedInOrder
  <2>2. x \in Uses(g.inputs[currInsn])
    BY <1>1, <2>1, TwoInputs
  <2> QED
    BY <2>1, <2>2
<1> QED
  BY <1>1, <1>2, <1>3, GiveWayKeepsEdges

(* What RewireShift sets. *)
ShiftSet(inp, us, h, c, x, n) ==
  /\ h.inputs = [inp EXCEPT ![c] = <<x, n>>]
  /\ h.users = AddUser(AddUser(RemoveUser(us, inp[c][1], c), x, c), n, c)

LEMMA ShiftRewired ==
  ASSUME NEW inp, NEW us, NEW c, NEW x, NEW n,
         NEW h, h = RewireShift([inputs |-> inp, users |-> us], c, x, n)
  PROVE  ShiftSet(inp, us, h, c, x, n)
<1>0. PICK g, t : g = [inputs |-> inp, users |-> us] /\ t = inp[c][1]
  OBVIOUS
<1>1. RemoveUserFrom(g, g.inputs[c][1], c) = [inputs |-> inp, users |-> RemoveUser(us, t, c)]
  BY <1>0 DEF RemoveUserFrom
<1>2. PICK us1 : us1 = RemoveUser(us, t, c)
  OBVIOUS
<1>3. AddUserTo([inputs |-> inp, users |-> us1], x, c)
        = [inputs |-> inp, users |-> AddUser(us1, x, c)]
  BY DEF AddUserTo
<1>4. PICK us2 : us2 = AddUser(us1, x, c)
  OBVIOUS
<1>5. AddUserTo([inputs |-> inp, users |-> us2], n, c)
        = [inputs |-> inp, users |-> AddUser(us2, n, c)]
  BY DEF AddUserTo
<1>6. PICK us3 : us3 = AddUser(us2, n, c)
  OBVIOUS
<1>7. SetInputs([inputs |-> inp, users |-> us3], c, <<x, n>>)
        = [inputs |-> [inp EXCEPT ![c] = <<x, n>>], users |-> us3]
  BY DEF SetInputs
<1>8. PICK inp3 : inp3 = [inp EXCEPT ![c] = <<x, n>>]
  OBVIOUS
<1>9. h = [inputs |-> inp3, users |-> us3]
  BY <1>0, <1>1, <1>2, <1>3, <1>4, <1>5, <1>6, <1>7, <1>8, Zenon DEF RewireShift
<1>10. h.inputs = inp3 /\ h.users = us3
  BY <1>9
<1> QED
  BY <1>0, <1>2, <1>4, <1>6, <1>8, <1>10, Zenon DEF ShiftSet

(* A shift of a shift gets a new distance. *)
LEMMA AshrOfAshrKeepsEdges ==
  ASSUME CodeInv, EdgesInv, AshrOfAshr
  PROVE  EdgesInv'
<1> DEFINE p == IndexOf(currInsn)
<1>0. PICK n, t, x : n = NewInsn /\ t = inputs[currInsn][1] /\ x = inputs[t][1]
  OBVIOUS
<1>1. PICK e : /\ e.opcode = "const" /\ insns' = Append(insns, e)
               /\ code' = InsertAt(code, p + 1, n) /\ EndTurn
  <2>1. PICK e : e = ConstantInsn(SumOfDistances(currInsn), SumOfDistances(currInsn).type)
    OBVIOUS
  <2>2. e.opcode = "const"
    BY <2>1 DEF ConstantInsn
  <2>3. insns' = Append(insns, e) /\ code' = InsertAt(code, p + 1, n) /\ EndTurn
    BY <1>0, <2>1 DEF AshrOfAshr, CreateInsn
  <2> QED
    BY <2>2, <2>3
<1>2. PICK g, h : /\ g = WithNew(Edges) /\ h = RewireShift(g, currInsn, x, n)
                  /\ inputs' = h.inputs /\ users' = h.users
  BY <1>0 DEF AshrOfAshr, SetEdges
<1>3. currInsn # 0 /\ outcome = "running" /\ Opcode(currInsn) = "ashr"
  BY TurnRuns DEF AshrOfAshr
<1>4. e.opcode \in Opcodes \ Operations /\ e.opcode # "phi" /\ e.opcode # "call"
      /\ e.opcode # "add"
  BY <1>1 DEF Opcodes, Operations
<1>5. CodeEdit
  BY <1>0, <1>1, <1>3, <1>4 DEF CodeEdit, CodeAdded
<1>6. /\ IsNext(All, n) /\ n # Phi /\ All' = All \cup {n}
      /\ OpcodeOf' \in [All \cup {n} -> Opcodes]
      /\ OpcodeOf'[n] = e.opcode
      /\ \A i \in All : OpcodeOf'[i] = OpcodeOf[i]
      /\ Ones \subseteq Ones'
  BY <1>0, <1>1, <1>4, InsnsGrow DEF EdgesInv
<1>7. PICK inp2, us2 : inp2 = Append(inputs, <<>>) /\ us2 = Append(users, <<>>)
  OBVIOUS
<1>8. g = [inputs |-> inp2, users |-> us2]
  BY <1>2, <1>7 DEF WithNew, Edges
<1>9. ASSUME runs = 1
      PROVE  EdgesOK(All', OpcodeOf', Ones', inputs', users', code', SettledAfter)
  <2>1. /\ EdgesOK(All, OpcodeOf, Ones, inputs, users, code, Settled)
        /\ AtTurn(OpcodeOf, code, Settled, currInsn)
        /\ inputs \in Lists(All, All) /\ users \in Lists(All, All)
        /\ p \in 1 .. Len(code) /\ code[p] = currInsn /\ currInsn \in All
        /\ Len(inputs[currInsn]) = 2 /\ inputs[currInsn] \in Seq(All)
    BY <1>3, <1>9, TurnGiven
  <2>2. Grown(All, OpcodeOf, Ones, inputs, users, n, <<>>, OpcodeOf', Ones', inp2, us2)
    <3>1. InputsFit(OpcodeOf', n, <<>>) /\ OpcodeOf'[n] # "phi"
      BY <1>4, <1>6 DEF InputsFit, Binary
    <3>2. <<>> \in Seq(All) /\ n \notin All
      BY <1>6 DEF IsNext
    <3>3. users \in Lists(All, All \cup {n}) /\ NewUser(All, users, users, n, <<>>)
      BY <2>1, <3>2, NothingUsed
    <3> QED
      BY <1>6, <1>7, <2>1, <3>1, <3>2, <3>3, NewInsnGrows, Zenon
  <2>3. /\ OpcodeOf'[n] = "const" /\ OpcodeOf[currInsn] = "ashr"
        /\ OpcodeOf[inputs[currInsn][1]] = "ashr" /\ OpcodeOf[inputs[currInsn][2]] = "const"
    <3>1. inputs[currInsn][1] \in All /\ inputs[currInsn][2] \in All
      BY <2>1
    <3>2. Opcode(inputs[currInsn][1]) = "ashr" /\ Opcode(inputs[currInsn][2]) = "const"
      BY DEF AshrOfAshr, ShiftOfShift, IsConst
    <3> QED
      BY <1>1, <1>3, <1>6, <3>1, <3>2, TurnOpcodes
  <2>4. /\ h.inputs = [inp2 EXCEPT ![currInsn] = <<x, n>>]
        /\ h.users = AddUser(AddUser(RemoveUser(us2, t, currInsn), x, currInsn), n, currInsn)
    <3>1. inp2[currInsn] = inputs[currInsn]
      BY <2>1, <2>2 DEF Grown
    <3>2. t = inp2[currInsn][1]
      BY <1>0, <3>1
    <3>3. PICK c : c = currInsn
      OBVIOUS
    <3>4. h = RewireShift([inputs |-> inp2, users |-> us2], c, x, n)
      BY <1>2, <1>8, <3>3
    <3>5. ShiftSet(inp2, us2, h, c, x, n)
      BY <3>4, ShiftRewired
    <3> QED
      BY <3>2, <3>3, <3>5, Zenon DEF ShiftSet
  <2> HIDE DEF p
  <2>5. EdgesOK(All \cup {n}, OpcodeOf', Ones', h.inputs, h.users,
                InsertAt(code, p + 1, n), Settled \cup {currInsn})
    <3>1. t = inputs[currInsn][1] /\ x = inputs[t][1]
      BY <1>0
    <3>2. OpcodeOf'[n] = "const" /\ OpcodeOf[currInsn] = "ashr"
          /\ OpcodeOf[inputs[currInsn][1]] = "ashr" /\ OpcodeOf[inputs[currInsn][2]] = "const"
      BY <2>3
    <3>3. EdgesOK(All \cup {n}, OpcodeOf', Ones', [inp2 EXCEPT ![currInsn] = <<x, n>>],
                  AddUser(AddUser(RemoveUser(us2, t, currInsn), x, currInsn), n, currInsn),
                  InsertAt(code, p + 1, n), Settled \cup {currInsn})
      BY <2>1, <2>2, <3>1, <3>2, OneShiftJoined, Zenon
    <3>4. PICK is, vs :
            /\ is = [inp2 EXCEPT ![currInsn] = <<x, n>>]
            /\ vs = AddUser(AddUser(RemoveUser(us2, t, currInsn), x, currInsn), n, currInsn)
      OBVIOUS
    <3> QED
      BY <2>4, <3>3, <3>4
  <2>6. EdgesOK(All', OpcodeOf', Ones', inputs', users', code', Settled \cup {currInsn})
    BY <1>1, <1>2, <1>6, <2>5, Zenon
  <2>7. currInsn \in Uses(code')
    BY <2>6 DEF EdgesOK, EdgesTyped
  <2> QED
    BY <2>6, <2>7 DEF SettledAfter
<1> QED
  BY <1>5, <1>9, VisitKeepsEdges

-----------------------------------------------------------------------------
(* Nothing changes for the edges. *)
LEMMA NothingKeepsEdges ==
  ASSUME EdgesInv, UNCHANGED <<insns, inputs, users, code, currInsn, runs>>
  PROVE  EdgesInv'
BY DEF EdgesInv, All, OpcodeOf, Ones, Settled, InCode, Opcode, IsConst, ConstantOf,
       IsOperation

(* A visit keeps the edges in order. *)
LEMMA VisitsKeepEdges ==
  ASSUME CodeInv, EdgesInv, Visit
  PROVE  EdgesInv'
<1>1. CASE \E op \in operations : Fold(op)
  BY <1>1, FoldKeepsEdges
<1>2. CASE FoldUnreachable \/ AshrAssertFails \/ MulByOneOutOfBounds
  BY <1>2, NothingKeepsEdges
    DEF FoldUnreachable, AshrAssertFails, MulByOneOutOfBounds, Halt, program
<1>3. CASE MulByOne
  BY <1>3, MulByOneKeepsEdges
<1>4. CASE MulByTwo
  BY <1>4, MulByTwoKeepsEdges
<1>5. CASE MulStays \/ OrStays
  <2>1. currInsn # 0 /\ outcome = "running" /\ KeepInsn(InOrder(currInsn))
    BY <1>5, TurnRuns DEF MulStays, OrStays
  <2> QED
    BY <2>1, OrderKeepsEdges
<1>6. CASE AshrByZero
  BY <1>6, AshrByZeroKeepsEdges
<1>7. CASE AshrOfAshr
  BY <1>7, AshrOfAshrKeepsEdges
<1>8. CASE AshrStays
  BY <1>8, AshrStaysKeepsEdges
<1>9. CASE OrGivesWay
  BY <1>9, OrGivesWayKeepsEdges
<1> QED
  BY <1>1, <1>2, <1>3, <1>4, <1>5, <1>6, <1>7, <1>8, <1>9 DEF Visit

(* The edges are in order at every time of the first run. *)
LEMMA EdgesInvariance == PeepholesSpec => []EdgesInv
<1>1. PeepholesInit => EdgesInv
  BY EdgesInvInit
<1>2. ASSUME CodeInv, EdgesInv, [PeepholesNext]_peepholeVars
      PROVE  EdgesInv'
  <2>1. CASE Build
    BY <1>2, <2>1, BuildKeepsEdges
  <2>2. CASE StartRun
    BY <1>2, <2>2, StartKeepsEdges
  <2>3. CASE Visit
    BY <1>2, <2>3, VisitsKeepEdges
  <2>4. CASE Stopped \/ UNCHANGED peepholeVars
    BY <1>2, <2>4, NothingKeepsEdges DEF Stopped, peepholeVars, program
  <2> QED
    BY <1>2, <2>1, <2>2, <2>3, <2>4 DEF PeepholesNext
<1> QED
  BY <1>1, <1>2, CodeInvariance, PTL DEF PeepholesSpec

(* Places in the code are in its order. *)
LEMMA PlacesInOrder ==
  ASSUME CodeInv, NEW i \in InCode, NEW j \in InCode
  PROVE  /\ InFront(code, i, j) => IndexOf(i) < IndexOf(j)
         /\ RightBehind(code, i, j) => j = Behind(i)
<1>1. PICK k, l : k = IndexOf(i) /\ l = IndexOf(j)
  OBVIOUS
<1>2. /\ k \in 1 .. Len(code) /\ code[k] = i /\ l \in 1 .. Len(code) /\ code[l] = j
  BY <1>1, PlaceInCode
<1>3. code \in Seq(All) /\ Injective(code)
  BY DEF CodeInv
<1>4. InFront(code, i, j) => k < l
  BY <1>2, <1>3 DEF InFront, Injective
<1>5. ASSUME RightBehind(code, i, j) PROVE j = Behind(i)
  <2>1. PICK m \in 1 .. Len(code) - 1 : code[m] = i /\ code[m + 1] = j
    BY <1>5 DEF RightBehind
  <2>2. k \in 1 .. Len(code) /\ code[k] = i /\ Len(code) \in Nat
    BY <1>2, <1>3
  <2>3. m = k /\ k # Len(code)
    BY <1>3, <2>1, <2>2 DEF Injective
  <2> QED
    BY <1>1, <2>1, <2>3 DEF Behind
<1> QED
  BY <1>1, <1>4, <1>5

(* Up to the end of the first run no instruction uses one that was taken   *)
(* out, and but for the phi each stands behind what it uses, or right in   *)
(* front of its own distance: whatever the program is, and although        *)
(* VisitMul drops users.                                                   *)
THEOREM OperandsStayInPlace == PeepholesSpec => [](runs <= 1 => OperandsInPlace)
<1>1. ASSUME CodeInv, EdgesInv, runs <= 1 PROVE OperandsInPlace
  <2> SUFFICES ASSUME NEW i \in InCode, NEW d \in Uses(inputs[i])
               PROVE  /\ d \in InCode
                      /\ \/ Opcode(i) = "phi"
                         \/ IndexOf(d) < IndexOf(i)
                         \/ Opcode(i) = "ashr" /\ d = Behind(i) /\ IsConst(d)
    BY DEF OperandsInPlace
  <2>1. EdgesOK(All, OpcodeOf, Ones, inputs, users, code, Settled)
    BY <1>1 DEF EdgesInv
  <2>2. /\ d \in Uses(code)
        /\ \/ i = Phi \/ InFront(code, d, i)
           \/ OpcodeOf[i] = "ashr" /\ RightBehind(code, i, d) /\ OpcodeOf[d] = "const"
    BY <2>1 DEF EdgesOK, Ordered, InCode
  <2>3. OpcodeOf[i] = Opcode(i) /\ OpcodeOf[d] = Opcode(d) /\ d \in InCode
    BY <1>1, <2>2, CodeNumbers DEF OpcodeOf, InCode
  <2>4. /\ InFront(code, d, i) => IndexOf(d) < IndexOf(i)
        /\ RightBehind(code, i, d) => d = Behind(i)
    BY <1>1, <2>3, PlacesInOrder
  <2> QED
    BY <1>1, <2>2, <2>3, <2>4 DEF EdgesInv, IsConst
<1> QED
  BY <1>1, CodeInvariance, EdgesInvariance, PTL

(* Up to the end of the first run an instruction lacks a user only where a *)
(* product with one explains it, and only constants list users that no     *)
(* longer are.                                                             *)
THEOREM LostUsersAreExplained == PeepholesSpec => [](runs <= 1 => LostUsersExplained)
<1>1. ASSUME CodeInv, EdgesInv, runs <= 1 PROVE LostUsersExplained
  <2>1. /\ EdgesOK(All, OpcodeOf, Ones, inputs, users, code, Settled)
        /\ InCode \subseteq All /\ \A i \in All : OpcodeOf[i] = Opcode(i)
    BY <1>1, CodeNumbers DEF EdgesInv, OpcodeOf
  <2>2. ASSUME NEW i \in InCode, NEW d \in Uses(inputs[i]), i \notin Uses(users[d])
        PROVE  \E m \in InCode :
                 /\ Opcode(m) = "mul" /\ IsFactor(inputs[m], 1)
                 /\ d = IF HasVectorInputs(i) THEN m ELSE inputs[m][1]
    <3>1. Explained(OpcodeOf, Ones, inputs, Settled, i, d)
      BY <2>1, <2>2 DEF EdgesOK, Known, InCode
    <3>2. PICK m \in Settled :
            /\ OpcodeOf[m] = "mul" /\ inputs[m][2] \in Ones
            /\ d = IF Vector(OpcodeOf, i) THEN m ELSE inputs[m][1]
      BY <3>1 DEF Explained
    <3>3. m \in InCode /\ Opcode(m) = "mul"
      BY <2>1, <3>2 DEF Settled
    <3>4. IsFactor(inputs[m], 1)
      BY <3>2 DEF Ones, IsFactor
    <3>5. Vector(OpcodeOf, i) <=> HasVectorInputs(i)
      BY <2>1 DEF Vector, HasVectorInputs
    <3> QED
      BY <3>2, <3>3, <3>4, <3>5
  <2>3. ASSUME NEW d \in InCode, NEW i \in Uses(users[d]), ~IsConst(d)
        PROVE  i \in InCode /\ d \in Uses(inputs[i])
    <3>1. OpcodeOf[d] # "const" /\ d \in Uses(code) /\ d \in All
      BY <2>1, <2>3 DEF IsConst, InCode
    <3>2. i \in Uses(code) /\ Count(users[d], i) <= Count(inputs[i], d)
      BY <2>1, <3>1 DEF EdgesOK, Truthful
    <3>3. users[d] \in Seq(All) /\ inputs[i] \in Seq(All)
      BY <2>1, <3>1, <3>2 DEF EdgesOK, EdgesTyped, Lists, InCode
    <3>4. /\ Count(users[d], i) \in Nat /\ Count(users[d], i) # 0
          /\ Count(inputs[i], d) \in Nat
          /\ d \in Uses(inputs[i]) <=> Count(inputs[i], d) # 0
      BY <3>3, CountUses
    <3> QED
      BY <3>2, <3>4 DEF InCode
  <2> QED
    BY <2>2, <2>3 DEF LostUsersExplained
<1> QED
  BY <1>1, CodeInvariance, EdgesInvariance, PTL

-----------------------------------------------------------------------------
(* What a visit leaves to no later one. *)

(* The shift i is one of a shift, both by constants of the same kind. *)
Joinable(op, con, inp, i) ==
  /\ op[inp[i][1]] = "ashr" /\ op[inp[inp[i][1]][2]] = "const"
  /\ con[inp[inp[i][1]][2]].type = con[inp[i][2]].type

(* There is nothing to simplify at i, unless joined distances are not      *)
(* exact and i is a shift with one, which is behind it.                    *)
Done(ex, op, con, inp, cd, i) ==
  /\ op[inp[i][1]] # "const" \/ op[inp[i][2]] # "const"
  /\ op[i] \in {"mul", "or"} => op[inp[i][1]] # "const"
  /\ op[i] = "mul" /\ op[inp[i][2]] = "const" =>
       /\ ~IsEqualTo(con[inp[i][2]], 2)
       /\ IsEqualTo(con[inp[i][2]], 1) =>
            \A u \in Uses(cd) : i \in Uses(inp[u]) => Vector(op, u)
  /\ op[i] = "ashr" /\ op[inp[i][2]] = "const" =>
       /\ ~Joinable(op, con, inp, i)
       /\ ex \/ InFront(cd, inp[i][2], i) => con[inp[i][2]].value # 0
  /\ op[i] = "or" => IF op[inp[i][2]] = "const" THEN con[inp[i][2]].value # 0
                     ELSE inp[i][1] # inp[i][2]

(* That of all of S. *)
AllDone(ex, op, con, inp, cd, S) == \A i \in S : Done(ex, op, con, inp, cd, i)

(* The program as it is after a visit: the settled operations keep their   *)
(* inputs, and, but for phis and calls, have no users that are new to      *)
(* having such.                                                            *)
Follows(A, op, con, inp, cd, S, op2, con2, inp2, cd2) ==
  /\ \A i \in A : op2[i] = op[i] /\ con2[i] = con[i]
  /\ \A m \in S : inp2[m] = inp[m]
  /\ SameOrder(cd, cd2)
  /\ \A u \in Uses(cd2) : ~Vector(op2, u) =>
       \A m \in S : m \in Uses(inp2[u]) =>
         \E v \in Uses(cd) : ~Vector(op, v) /\ m \in Uses(inp[v])

(* Then there is nothing to simplify at them as before. *)
LEMMA DoneFollows ==
  ASSUME NEW A, NEW op, NEW one, NEW inp, NEW us, NEW cd, NEW S, NEW c,
         EdgesOK(A, op, one, inp, us, cd, S), AtTurn(op, cd, S, c),
         NEW con, NEW ex, AllDone(ex, op, con, inp, cd, S),
         NEW op2, NEW con2, NEW inp2, NEW cd2,
         Follows(A, op, con, inp, cd, S, op2, con2, inp2, cd2)
  PROVE  AllDone(ex, op2, con2, inp2, cd2, S)
<1> SUFFICES ASSUME NEW i \in S PROVE Done(ex, op2, con2, inp2, cd2, i)
  BY DEF AllDone
<1>1. Done(ex, op, con, inp, cd, i)
  BY DEF AllDone
<1>2. /\ cd \in Seq(A) /\ Injective(cd) /\ Uses(cd) \subseteq A /\ inp \in Lists(A, A)
      /\ \A j \in A : (op[j] = "phi" <=> j = Phi) /\ InputsFit(op, j, inp[j])
      /\ \A j \in S : j \in Uses(cd) /\ op[j] \in Operations
  BY UsesTyped DEF EdgesOK, EdgesTyped
<1>3. ASSUME NEW j \in S
      PROVE  /\ j \in A /\ inp[j][1] \in A /\ inp[j][2] \in A
             /\ inp[j][1] \in Uses(cd) /\ inp[j][2] \in Uses(cd)
             /\ j # Phi /\ inp[j][1] \in Uses(inp[j])
  <2>1. j \in A /\ op[j] \in Operations /\ j \in Uses(cd)
    BY <1>2
  <2>2. inp[j] \in Seq(A) /\ Len(inp[j]) = 2 /\ j # Phi
    BY <1>2, <2>1 DEF Lists, InputsFit, Binary, Operations
  <2>3. inp[j][1] \in A /\ inp[j][2] \in A /\ Uses(inp[j]) = {inp[j][1], inp[j][2]}
    BY <2>2, TwoInputs
  <2>4. \A d \in Uses(inp[j]) : d \in Uses(cd)
    BY <2>1 DEF EdgesOK, Ordered
  <2> QED
    BY <2>1, <2>2, <2>3, <2>4
<1>4. ASSUME op[inp[i][1]] = "ashr" PROVE inp[i][1] \in S
  <2>1. InFront(cd, inp[i][1], i)
    BY <1>2, <1>3, <1>4 DEF EdgesOK, Ordered
  <2>2. InFront(cd, inp[i][1], c)
    BY <1>2, <2>1, OrderIsStrict DEF AtTurn
  <2> QED
    BY <1>3, <1>4, <2>2 DEF AtTurn, Operations
<1>5. /\ op2[i] = op[i] /\ inp2[i] = inp[i]
      /\ op2[inp[i][1]] = op[inp[i][1]] /\ op2[inp[i][2]] = op[inp[i][2]]
      /\ con2[inp[i][2]] = con[inp[i][2]]
  BY <1>3 DEF Follows
<1>6. Joinable(op2, con2, inp2, i) => Joinable(op, con, inp, i)
  <2> SUFFICES ASSUME op[inp[i][1]] = "ashr", Joinable(op2, con2, inp2, i)
               PROVE  Joinable(op, con, inp, i)
    BY <1>5 DEF Joinable
  <2>1. PICK t : t = inp[i][1] /\ t \in S
    BY <1>4
  <2>2. inp2[t] = inp[t] /\ op2[inp[t][2]] = op[inp[t][2]] /\ con2[inp[t][2]] = con[inp[t][2]]
    BY <1>3, <2>1 DEF Follows
  <2> QED
    BY <1>5, <2>1, <2>2 DEF Joinable
<1>7. InFront(cd2, inp[i][2], i) => InFront(cd, inp[i][2], i)
  <2>1. ASSUME InFront(cd2, inp[i][2], i) PROVE inp[i][2] \in Uses(cd2) /\ i \in Uses(cd2)
    BY <2>1 DEF InFront, Uses
  <2> QED
    BY <1>2, <1>3, <2>1 DEF Follows, SameOrder
<1>8. ASSUME \A u \in Uses(cd) : i \in Uses(inp[u]) => Vector(op, u)
      PROVE  \A u \in Uses(cd2) : i \in Uses(inp2[u]) => Vector(op2, u)
  BY <1>8 DEF Follows
<1> HIDE DEF Joinable
<1>9. /\ op2[inp2[i][1]] # "const" \/ op2[inp2[i][2]] # "const"
      /\ op2[i] \in {"mul", "or"} => op2[inp2[i][1]] # "const"
  BY <1>1, <1>5 DEF Done
<1>10. op2[i] = "mul" /\ op2[inp2[i][2]] = "const" =>
         /\ ~IsEqualTo(con2[inp2[i][2]], 2)
         /\ IsEqualTo(con2[inp2[i][2]], 1) =>
              \A u \in Uses(cd2) : i \in Uses(inp2[u]) => Vector(op2, u)
  BY <1>1, <1>5, <1>8 DEF Done
<1>11. op2[i] = "ashr" /\ op2[inp2[i][2]] = "const" =>
         /\ ~Joinable(op2, con2, inp2, i)
         /\ ex \/ InFront(cd2, inp2[i][2], i) => con2[inp2[i][2]].value # 0
  BY <1>1, <1>5, <1>6, <1>7 DEF Done
<1>12. op2[i] = "or" => IF op2[inp2[i][2]] = "const" THEN con2[inp2[i][2]].value # 0
                        ELSE inp2[i][1] # inp2[i][2]
  BY <1>1, <1>5 DEF Done
<1> QED
  BY <1>9, <1>10, <1>11, <1>12 DEF Done

(* A product with one is done with, as are the settled operations. *)
LEMMA RedirectedDone ==
  ASSUME NEW A, NEW op, NEW one, NEW inp, NEW us, NEW cd, NEW S, NEW c,
         EdgesOK(A, op, one, inp, us, cd, S), AtTurn(op, cd, S, c),
         NEW con, NEW ex, AllDone(ex, op, con, inp, cd, S),
         op[c] = "mul", op[inp[c][1]] # "const", ~IsEqualTo(con[inp[c][2]], 2),
         NEW x, x = inp[c][1],
         NEW inp2, NEW us2, Redirected(A, op, inp, us, inp2, us2, c, x)
  PROVE  AllDone(ex, op, con, inp2, cd, S \cup {c})
<1>1. /\ inp \in Lists(A, A) /\ cd \in Seq(A) /\ Uses(cd) \subseteq A
      /\ \A i \in S : i \in Uses(cd)
  BY UsesTyped DEF EdgesOK, EdgesTyped
<1>2. /\ c \in A /\ c \in Uses(cd) /\ inp[c] \in Seq(A) /\ Len(inp[c]) = 2
      /\ ~Vector(op, c) /\ \A d \in Uses(inp[c]) : d \in Uses(cd) /\ d # c
      /\ \A u \in Uses(cd) : c \in Uses(inp[u]) => u \in Uses(us[c])
      /\ \A u \in Uses(us[c]) : u \in Uses(cd) /\ c \in Uses(inp[u]) /\ u # c /\ u \notin S
  <2>1. Turning(A, op, inp, us, cd, S, c)
    BY TurnFacts, Zenon
  <2> QED
    BY <2>1 DEF Turning, AtTurn
<1>3. x \in Uses(inp[c]) /\ x \in A /\ x # c
  BY <1>1, <1>2, TwoInputs
<1>4. \A u \in A : inp2[u] = IF u \in Uses(us[c]) /\ ~Vector(op, u)
                             THEN ReplaceAll(inp[u], c, x) ELSE inp[u]
  BY DEF Redirected
<1>5. \A i \in A : inp[i] \in Seq(A)
  BY <1>1 DEF Lists
<1>6. \A m \in S \cup {c} : inp2[m] = inp[m]
  BY <1>1, <1>2, <1>4
<1>7. ASSUME NEW u \in Uses(cd), ~Vector(op, u), NEW d \in Uses(inp2[u])
      PROVE  d # c /\ (d \in Uses(inp[u]) \/ d = x)
  <2>1. CASE u \in Uses(us[c])
    <3>1. Uses(inp2[u]) = (Uses(inp[u]) \ {c}) \cup {x}
      <4>1. inp2[u] = ReplaceAll(inp[u], c, x) /\ inp[u] \in Seq(A) /\ c \in Uses(inp[u])
        BY <1>1, <1>2, <1>4, <1>5, <1>7, <2>1
      <4> QED
        BY <1>2, <1>3, <4>1, UsesReplaceAll
    <3> QED
      BY <1>3, <1>7, <3>1
  <2>2. CASE u \notin Uses(us[c])
    BY <1>1, <1>2, <1>4, <1>7, <2>2
  <2> QED
    BY <2>1, <2>2
<1>8. SameOrder(cd, cd)
  BY DEF SameOrder
<1>9. Follows(A, op, con, inp, cd, S, op, con, inp2, cd)
  <2>1. ASSUME NEW u \in Uses(cd), ~Vector(op, u), NEW m \in S, m \in Uses(inp2[u])
        PROVE  \E v \in Uses(cd) : ~Vector(op, v) /\ m \in Uses(inp[v])
    BY <1>2, <1>3, <1>7, <2>1
  <2> QED
    BY <1>6, <1>8, <2>1 DEF Follows
<1>10. AllDone(ex, op, con, inp2, cd, S)
  BY <1>9, DoneFollows, Zenon
<1>11. Done(ex, op, con, inp2, cd, c)
  <2>1. \A u \in Uses(cd) : c \in Uses(inp2[u]) => Vector(op, u)
    BY <1>7
  <2> QED
    BY <1>6, <2>1 DEF Done
<1> QED
  BY <1>10, <1>11 DEF AllDone

(* Setting the inputs of c to the same ones follows. *)
LEMMA SwapFollows ==
  ASSUME NEW A, NEW op, NEW con, NEW inp \in Lists(A, A), NEW cd, Uses(cd) \subseteq A,
         NEW S, NEW c, c \notin S, NEW s, Uses(s) = Uses(inp[c])
  PROVE  Follows(A, op, con, inp, cd, S, op, con, [inp EXCEPT ![c] = s], cd)
<1>1. \A u \in A : u # c => [inp EXCEPT ![c] = s][u] = inp[u]
  BY DEF Lists
<1>2. c \in A => [inp EXCEPT ![c] = s][c] = s
  BY DEF Lists
<1>3. \A u \in Uses(cd) : Uses([inp EXCEPT ![c] = s][u]) = Uses(inp[u])
  BY <1>1, <1>2
<1>4. SameOrder(cd, cd)
  BY DEF SameOrder
<1> QED
  BY <1>1, <1>3, <1>4 DEF Follows

(* Users of c have x among their inputs, and the others keep theirs. *)
Replaced(A, g, h, c, x) ==
  \A u \in A : /\ u \notin Uses(g.users[c]) => h.inputs[u] = g.inputs[u]
               /\ Uses(h.inputs[u]) \subseteq Uses(g.inputs[u]) \cup {x}

(* That is what ReplaceInputsForUsers and Remove do to the inputs. *)
LEMMA InputsReplaced ==
  ASSUME NEW A, NEW g, Pair(A, g), NEW c, NEW x,
         NEW h, h = LeaveUsers(ReplaceInputsForUsers(g, c, x), c)
  PROVE  Replaced(A, g, h, c, x)
<1>1. h.inputs = [u \in A |-> IF u \in Uses(g.users[c]) THEN ReplaceAll(g.inputs[u], c, x)
                              ELSE g.inputs[u]]
  <2>1. DOMAIN g.inputs = A
    BY DEF Pair, Lists
  <2>2. PICK inp2, us2 : /\ inp2 = [u \in DOMAIN g.inputs |->
                                     IF u \in Uses(g.users[c])
                                     THEN ReplaceAll(g.inputs[u], c, x) ELSE g.inputs[u]]
                         /\ ReplaceInputsForUsers(g, c, x) = [inputs |-> inp2, users |-> us2]
    BY Zenon DEF ReplaceInputsForUsers
  <2>3. h = LeaveUsers([inputs |-> inp2, users |-> us2], c)
    BY <2>2, Zenon
  <2>4. h.inputs = inp2
    BY <2>3 DEF LeaveUsers
  <2> QED
    BY <2>1, <2>2, <2>4
<1>2. \A u \in A : g.inputs[u] \in Seq(A)
  BY DEF Pair, Lists
<1>3. \A u \in A : Uses(ReplaceAll(g.inputs[u], c, x)) \subseteq Uses(g.inputs[u]) \cup {x}
  BY <1>2, UsesReplaceAll
<1> QED
  BY <1>1, <1>3 DEF Replaced

-----------------------------------------------------------------------------
(* The constants. *)
ConOf == [i \in All |-> ConstantOf(i)]

(* There is nothing to simplify at what Run has visited.  Only a narrow    *)
(* type may cut joined distances off.                                      *)
Exact == type \notin NarrowTypes
DoneInv == runs <= 1 => AllDone(Exact, OpcodeOf, ConOf, inputs, code, Settled)

(* A visit changes no instruction that is there. *)
LEMMA InsnsStay ==
  ASSUME CodeInv, CodeEdit
  PROVE  /\ All \subseteq All'
         /\ \A i \in All : OpcodeOf'[i] = OpcodeOf[i] /\ ConOf'[i] = ConOf[i]
<1>1. /\ Len(insns)' \in {Len(insns), NewInsn} /\ \A i \in All : insns'[i] = insns[i]
  BY EditedCode
<1>2. All \subseteq All'
  BY <1>1, CodeNumbers DEF All, NewInsn
<1>3. /\ OpcodeOf' = [i \in All' |-> insns'[i].opcode]
      /\ OpcodeOf = [i \in All |-> insns[i].opcode]
      /\ ConOf' = [i \in All' |-> insns'[i].constant]
      /\ ConOf = [i \in All |-> insns[i].constant]
  BY DEF OpcodeOf, ConOf, Opcode, ConstantOf
<1> QED
  BY <1>1, <1>2, <1>3

(* What a visit has to keep. *)
LEMMA VisitKeepsDone ==
  ASSUME CodeInv, EdgesInv, DoneInv, CodeEdit,
         runs = 1 =>
           /\ Follows(All, OpcodeOf, ConOf, inputs, code, Settled,
                      OpcodeOf', ConOf', inputs', code')
           /\ currInsn \in Uses(code') =>
                Done(Exact, OpcodeOf', ConOf', inputs', code', currInsn)
  PROVE  DoneInv'
<1>1. /\ runs' = runs /\ currInsn # 0 /\ (runs = 0 => currInsn = 0) /\ runs \in Nat
      /\ Exact' = Exact
  BY DEF CodeEdit, EndTurn, CodeInv, Exact
<1>2. SUFFICES ASSUME runs = 1
               PROVE  AllDone(Exact, OpcodeOf', ConOf', inputs', code', Settled')
  BY <1>1 DEF DoneInv
<1>3. /\ EdgesOK(All, OpcodeOf, Ones, inputs, users, code, Settled)
      /\ AtTurn(OpcodeOf, code, Settled, currInsn)
  BY <1>1, <1>2, TurnGiven
<1>4. AllDone(Exact, OpcodeOf, ConOf, inputs, code, Settled)
  BY <1>2 DEF DoneInv
<1>5. AllDone(Exact, OpcodeOf', ConOf', inputs', code', Settled)
  BY <1>2, <1>3, <1>4, DoneFollows, Zenon
<1>6. Settled' = IF currInsn \in Uses(code') THEN Settled \cup {currInsn} ELSE Settled
  BY <1>2, TurnSettles
<1>7. PICK op2, con2, inp2, cd2, S2 :
        /\ op2 = OpcodeOf' /\ con2 = ConOf' /\ inp2 = inputs' /\ cd2 = code' /\ S2 = Settled'
  OBVIOUS
<1> QED
  BY <1>2, <1>5, <1>6, <1>7 DEF AllDone

-----------------------------------------------------------------------------
(* The visits again. *)

(* The edges g, with which the operation c is to give way to its input x,  *)
(* or to a new instruction x that takes inputs of it.                      *)
Offered(A, B, inp, us, S, c, g, x) ==
  /\ A \subseteq B /\ Pair(B, g)
  /\ \A u \in A \ {c} : g.inputs[u] = inp[u]
  /\ Uses(g.users[c]) = Uses(us[c])
  /\ \A u \in B \ A : Uses(g.inputs[u]) \subseteq Uses(inp[c])
  /\ x \in Uses(inp[c]) \/ x \notin S

(* It does so. *)
LEMMA ReplacedFollows ==
  ASSUME NEW A, NEW op, NEW one, NEW inp, NEW us, NEW cd, NEW S, NEW c,
         EdgesOK(A, op, one, inp, us, cd, S), AtTurn(op, cd, S, c),
         NEW con, NEW op2, NEW con2, \A i \in A : op2[i] = op[i] /\ con2[i] = con[i],
         NEW B, NEW g, NEW x, Offered(A, B, inp, us, S, c, g, x),
         NEW h, h = LeaveUsers(ReplaceInputsForUsers(g, c, x), c),
         NEW cd2, SameOrder(cd, cd2), Uses(cd2) \subseteq (Uses(cd) \ {c}) \cup (B \ A)
  PROVE  Follows(A, op, con, inp, cd, S, op2, con2, h.inputs, cd2)
<1>1. /\ c \in A /\ c \in Uses(cd) /\ ~Vector(op, c)
      /\ \A u \in Uses(us[c]) : u \notin S
      /\ Uses(cd) \subseteq A /\ \A m \in S : m \in A /\ m # c
  <2>1. Turning(A, op, inp, us, cd, S, c)
    BY TurnFacts, Zenon
  <2>2. Uses(cd) \subseteq A /\ \A m \in S : m \in Uses(cd)
    BY UsesTyped DEF EdgesOK, EdgesTyped
  <2> QED
    BY <2>1, <2>2 DEF Turning, AtTurn
<1>2. Pair(B, g) /\ A \subseteq B /\ (\A u \in A \ {c} : g.inputs[u] = inp[u])
      /\ Uses(g.users[c]) = Uses(us[c])
      /\ (\A u \in B \ A : Uses(g.inputs[u]) \subseteq Uses(inp[c]))
      /\ (x \in Uses(inp[c]) \/ x \notin S)
  BY DEF Offered
<1>3. \A u \in B : /\ u \notin Uses(g.users[c]) => h.inputs[u] = g.inputs[u]
                   /\ Uses(h.inputs[u]) \subseteq Uses(g.inputs[u]) \cup {x}
  <2>1. Replaced(B, g, h, c, x)
    BY <1>2, InputsReplaced, Zenon
  <2> QED
    BY <2>1 DEF Replaced
<1>4. \A m \in S : h.inputs[m] = inp[m]
  BY <1>1, <1>2, <1>3
<1>5. ASSUME NEW u \in Uses(cd2), ~Vector(op2, u), NEW m \in S, m \in Uses(h.inputs[u])
      PROVE  \E v \in Uses(cd) : ~Vector(op, v) /\ m \in Uses(inp[v])
  <2>1. u \in B /\ (m \in Uses(g.inputs[u]) \/ m = x)
    BY <1>1, <1>2, <1>3, <1>5
  <2>2. CASE m = x \/ u \in B \ A
    <3>1. m \in Uses(inp[c])
      BY <1>2, <1>5, <2>1, <2>2
    <3> QED
      BY <1>1, <3>1
  <2>3. CASE m \in Uses(g.inputs[u]) /\ u \in A
    <3>1. u \in Uses(cd) \ {c} /\ ~Vector(op, u)
      BY <1>5, <2>3 DEF Vector
    <3> QED
      BY <1>2, <2>3, <3>1
  <2> QED
    BY <2>1, <2>2, <2>3
<1> QED
  BY <1>4, <1>5 DEF Follows

(* The inputs with those of the operation in order. *)
LEMMA OrderedInputs ==
  ASSUME CodeInv, EdgesInv, currInsn # 0, runs = 1, NEW g, g = InOrder(currInsn)
  PROVE  /\ Pair(All, g) /\ g.users = users
         /\ \A u \in All \ {currInsn} : g.inputs[u] = inputs[u]
         /\ Follows(All, OpcodeOf, ConOf, inputs, code, Settled,
                    OpcodeOf, ConOf, g.inputs, code)
<1> DEFINE s == Swapped(currInsn)
<1>1. g = [inputs |-> [inputs EXCEPT ![currInsn] = s], users |-> users]
  BY DEF InOrder, SetInputs, Edges
<1>2. Pair(All, g) /\ g.inputs[currInsn] = s /\ Uses(g.inputs[currInsn]) = Uses(inputs[currInsn])
  BY SwappedInOrder
<1> HIDE DEF s
<1>3. inputs \in Lists(All, All) /\ InCode \subseteq All /\ currInsn \notin Settled
  BY TurnGiven DEF AtTurn
<1>4. g.inputs = [inputs EXCEPT ![currInsn] = s]
  BY <1>1
<1>5. \A u \in All \ {currInsn} : g.inputs[u] = inputs[u]
  BY <1>3, <1>4 DEF Lists
<1>6. Uses(code) \subseteq All /\ Uses(s) = Uses(inputs[currInsn])
  BY <1>2, <1>3 DEF InCode
<1>7. Follows(All, OpcodeOf, ConOf, inputs, code, Settled,
              OpcodeOf, ConOf, [inputs EXCEPT ![currInsn] = s], code)
  BY <1>3, <1>6, SwapFollows, Zenon
<1> QED
  BY <1>1, <1>2, <1>4, <1>5, <1>7

(* The operation gives way to one of its inputs. *)
LEMMA GiveWayKeepsDone ==
  ASSUME CodeInv, EdgesInv, DoneInv, currInsn # 0, outcome = "running",
         NEW g, NEW x, GiveWay(g, currInsn, x),
         runs = 1 => /\ Pair(All, g) /\ x \in Uses(inputs[currInsn]) /\ g.users = users
                     /\ \A u \in All \ {currInsn} : g.inputs[u] = inputs[u]
  PROVE  DoneInv'
<1> DEFINE p == IndexOf(currInsn)
<1>1. PICK h : h = LeaveUsers(ReplaceInputsForUsers(g, currInsn, x), currInsn) /\ inputs' = h.inputs
  BY DEF GiveWay, SetEdges
<1>2. code' = RemoveAt(code, p) /\ insns' = insns /\ EndTurn
  BY DEF GiveWay, NothingNew
<1>3. CodeEdit
  BY <1>2 DEF CodeEdit, CodeCut
<1>4. \A i \in All : OpcodeOf'[i] = OpcodeOf[i] /\ ConOf'[i] = ConOf[i]
  BY <1>3, InsnsStay
<1>5. SameOrder(code, code')
  BY <1>3, EditedCode
<1>6. Uses(code') = Uses(code) \ {currInsn}
  <2>1. p \in 1 .. Len(code) /\ code[p] = currInsn
    BY PlaceInCode DEF CodeInv
  <2> HIDE DEF p
  <2>2. Uses(RemoveAt(code, p)) = Uses(code) \ {code[p]}
    BY <2>1, RemovedInOrder DEF CodeInv
  <2> QED
    BY <1>2, <2>1, <2>2
<1>7. ASSUME runs = 1
      PROVE  Follows(All, OpcodeOf, ConOf, inputs, code, Settled,
                     OpcodeOf', ConOf', inputs', code')
  <2>1. /\ EdgesOK(All, OpcodeOf, Ones, inputs, users, code, Settled)
        /\ AtTurn(OpcodeOf, code, Settled, currInsn)
    BY <1>7, TurnGiven
  <2>2. Offered(All, All, inputs, users, Settled, currInsn, g, x)
    BY <1>7 DEF Offered
  <2>3. Uses(code') \subseteq (Uses(code) \ {currInsn}) \cup (All \ All)
    BY <1>6
  <2>4. PICK op2, con2, cd2 : op2 = OpcodeOf' /\ con2 = ConOf' /\ cd2 = code'
    OBVIOUS
  <2>5. /\ \A i \in All : op2[i] = OpcodeOf[i] /\ con2[i] = ConOf[i]
        /\ SameOrder(code, cd2) /\ Uses(cd2) \subseteq (Uses(code) \ {currInsn}) \cup (All \ All)
    BY <1>4, <1>5, <2>3, <2>4
  <2>6. Follows(All, OpcodeOf, ConOf, inputs, code, Settled, op2, con2, h.inputs, cd2)
    BY <1>1, <2>1, <2>2, <2>5, ReplacedFollows, Zenon
  <2> QED
    BY <1>1, <2>4, <2>6, Zenon
<1> QED
  BY <1>3, <1>6, <1>7, VisitKeepsDone

(* A new instruction takes the place of the operation. *)
LEMMA PutInsteadKeepsDone ==
  ASSUME CodeInv, EdgesInv, DoneInv, currInsn # 0, outcome = "running", NEW g, NEW e,
         PutInstead(g, currInsn, e), NEW inp, NEW us, NEW s,
         (e.opcode = "add" /\ Len(s) = 2) \/ (e.opcode = "const" /\ s = <<>>),
         runs = 1 => /\ Prepared(g, inp, us, s) /\ Uses(s) \subseteq Uses(inputs[currInsn])
                     /\ \A u \in All \ {currInsn} : inp[u] = inputs[u]
  PROVE  DoneInv'
<1> DEFINE p == IndexOf(currInsn)
<1>0. PICK n : n = NewInsn
  OBVIOUS
<1>1. PICK h : h = LeaveUsers(ReplaceInputsForUsers(g, currInsn, n), currInsn) /\ inputs' = h.inputs
  BY <1>0 DEF PutInstead, SetEdges
<1>2. code' = ReplaceAt(code, p, n) /\ insns' = Append(insns, e) /\ EndTurn
  BY <1>0 DEF PutInstead, CreateInsn
<1>3. e.opcode \in Opcodes \ Operations
  BY DEF Opcodes, Operations
<1>4. CodeEdit
  BY <1>0, <1>2, <1>3 DEF CodeEdit, CodeAdded
<1>5. \A i \in All : OpcodeOf'[i] = OpcodeOf[i] /\ ConOf'[i] = ConOf[i]
  BY <1>4, InsnsStay
<1>6. SameOrder(code, code')
  BY <1>4, EditedCode
<1>7. Uses(code') = (Uses(code) \ {currInsn}) \cup {n} /\ n \notin All
      /\ n \notin Uses(code) /\ currInsn \in All
  <2>1. currInsn \in All /\ n \notin All /\ n \notin Uses(code)
    BY <1>0, CodeNumbers DEF CodeInv, InCode
  <2> QED
    BY <1>0, <1>2, <2>1, ReplacedCode
<1>8. ASSUME runs = 1
      PROVE  Follows(All, OpcodeOf, ConOf, inputs, code, Settled,
                     OpcodeOf', ConOf', inputs', code')
  <2>1. /\ EdgesOK(All, OpcodeOf, Ones, inputs, users, code, Settled)
        /\ AtTurn(OpcodeOf, code, Settled, currInsn)
        /\ users \in Lists(All, All) /\ inputs[currInsn] \in Seq(All)
        /\ \A d \in Uses(inputs[currInsn]) : d # currInsn
    <3>1. /\ EdgesOK(All, OpcodeOf, Ones, inputs, users, code, Settled)
          /\ AtTurn(OpcodeOf, code, Settled, currInsn)
          /\ users \in Lists(All, All) /\ inputs[currInsn] \in Seq(All)
          /\ \A d \in Uses(inputs[currInsn]) : InFront(code, d, currInsn)
      BY <1>8, TurnGiven
    <3> QED
      BY <3>1, OrderIsStrict DEF CodeInv
  <2>2. /\ Pair(All \cup {n}, g)
        /\ Grown(All, OpcodeOf, Ones, inp, users, n, s, OpcodeOf', Ones', g.inputs, g.users)
    BY <1>0, <1>2, <1>8, PreparedGrows
  <2>3. /\ Uses(s) \subseteq Uses(inputs[currInsn]) /\ s \in Seq(All)
        /\ \A u \in All \ {currInsn} : inp[u] = inputs[u]
    BY <1>8 DEF Prepared
  <2>4. PICK B : B = All \cup {n}
    OBVIOUS
  <2>5. Uses(g.users[currInsn]) = Uses(users[currInsn])
    <3>1. /\ \A i : i # n => Count(g.users[currInsn], i) = Count(users[currInsn], i)
          /\ Count(g.users[currInsn], n) <= Count(s, currInsn)
          /\ g.users[currInsn] \in Seq(B) /\ users[currInsn] \in Seq(All)
      BY <1>7, <2>1, <2>2, <2>4 DEF Grown, Lists
    <3>2. Count(s, currInsn) = 0
      BY <2>1, <2>3, CountUses
    <3>3. /\ \A i : i \in Uses(g.users[currInsn]) <=> Count(g.users[currInsn], i) # 0
          /\ \A i : i \in Uses(users[currInsn]) <=> Count(users[currInsn], i) # 0
          /\ Count(g.users[currInsn], n) \in Nat
      BY <3>1, CountUses
    <3>4. n \notin Uses(users[currInsn])
      BY <1>7, <3>1, UsesTyped
    <3>5. n \notin Uses(g.users[currInsn])
      BY <3>1, <3>2, <3>3
    <3>6. \A i : i \in Uses(g.users[currInsn]) <=> i \in Uses(users[currInsn])
      BY <3>1, <3>3, <3>4, <3>5
    <3> QED
      BY <3>6, Zenon
  <2>6. B \ All = {n}
    BY <1>7, <2>4
  <2>7. Offered(All, B, inputs, users, Settled, currInsn, g, n)
    <3>1. n \notin Settled
      BY <1>7 DEF Settled, InCode
    <3>2. /\ All \subseteq B /\ Pair(B, g)
          /\ \A u \in All \ {currInsn} : g.inputs[u] = inputs[u]
          /\ \A u \in B \ All : Uses(g.inputs[u]) \subseteq Uses(inputs[currInsn])
      BY <2>2, <2>3, <2>4, <2>6 DEF Grown
    <3> QED
      BY <2>5, <3>1, <3>2 DEF Offered
  <2>8. PICK op2, con2, cd2 : op2 = OpcodeOf' /\ con2 = ConOf' /\ cd2 = code'
    OBVIOUS
  <2>9. /\ \A i \in All : op2[i] = OpcodeOf[i] /\ con2[i] = ConOf[i]
        /\ SameOrder(code, cd2) /\ Uses(cd2) \subseteq (Uses(code) \ {currInsn}) \cup (B \ All)
    BY <1>5, <1>6, <1>7, <2>6, <2>8
  <2>10. Follows(All, OpcodeOf, ConOf, inputs, code, Settled, op2, con2, h.inputs, cd2)
    BY <1>1, <2>1, <2>7, <2>9, ReplacedFollows, Zenon
  <2> QED
    BY <1>1, <2>8, <2>10, Zenon
<1> QED
  BY <1>4, <1>7, <1>8, VisitKeepsDone

(* A visit that leaves the code alone. *)
LEMMA KeepInsnKeepsDone ==
  ASSUME CodeInv, EdgesInv, DoneInv, currInsn # 0, outcome = "running", NEW g, KeepInsn(g),
         runs = 1 =>
           AllDone(Exact, OpcodeOf, ConOf, g.inputs, code, Settled \cup {currInsn})
  PROVE  DoneInv'
<1>1. /\ inputs' = g.inputs /\ UNCHANGED <<insns, code>> /\ EndTurn /\ runs' = runs
  BY DEF KeepInsn, SetEdges, NothingNew, EndTurn
<1>2. CodeEdit
  BY <1>1 DEF CodeEdit, CodeKept
<1>3. UNCHANGED <<OpcodeOf, ConOf>>
  BY <1>1 DEF All, OpcodeOf, ConOf, Opcode, ConstantOf
<1>4. runs \in Nat \ {0}
  BY DEF CodeInv
<1>5. Settled' = Settled \cup {currInsn}
  <2>1. currInsn \in Uses(code')
    BY <1>1 DEF CodeInv, InCode
  <2> QED
    BY <1>2, <1>4, <2>1, TurnSettles
<1>6. ASSUME runs = 1 PROVE AllDone(Exact, OpcodeOf', ConOf', inputs', code', Settled')
  BY <1>1, <1>3, <1>5, <1>6, Zenon
<1>7. Exact' = Exact
  BY <1>1 DEF EndTurn, Exact
<1> QED
  BY <1>1, <1>4, <1>6, <1>7 DEF DoneInv

(* What is settled is done with when the inputs of the operation are put   *)
(* in order.                                                               *)
LEMMA OrderedDone ==
  ASSUME CodeInv, EdgesInv, DoneInv, currInsn # 0, runs = 1, NEW g, g = InOrder(currInsn)
  PROVE  AllDone(Exact, OpcodeOf, ConOf, g.inputs, code, Settled)
<1>1. /\ EdgesOK(All, OpcodeOf, Ones, inputs, users, code, Settled)
      /\ AtTurn(OpcodeOf, code, Settled, currInsn)
      /\ AllDone(Exact, OpcodeOf, ConOf, inputs, code, Settled)
  BY TurnGiven DEF DoneInv
<1>2. Follows(All, OpcodeOf, ConOf, inputs, code, Settled,
              OpcodeOf, ConOf, g.inputs, code)
  BY OrderedInputs
<1> QED
  BY <1>1, <1>2, DoneFollows, Zenon

(* If not both inputs are constants, then the first one is not when they   *)
(* are in order.                                                           *)
LEMMA FrontNotConst ==
  ASSUME CodeInv, EdgesInv, currInsn # 0, runs = 1, ~Foldable(currInsn),
         NEW s, s = Swapped(currInsn)
  PROVE  /\ s[1] \in All /\ s[2] \in All
         /\ OpcodeOf[s[1]] # "const"
         /\ OpcodeOf[s[2]] = "const" <=> IsConst(s[2])
         /\ ConOf[s[2]] = ConstantOf(s[2])
<1>1. inputs[currInsn] \in Seq(All) /\ Len(inputs[currInsn]) = 2
  BY TurnGiven
<1>2. PICK t : t = inputs[currInsn] /\ t \in Seq(All) /\ Len(t) = 2
  BY <1>1
<1>3. ~IsConst(t[1]) \/ ~IsConst(t[2])
  BY <1>2 DEF Foldable
<1>4. s = IF IsConst(t[1]) THEN Reverse(t) ELSE t
  BY <1>2 DEF Swapped
<1>5. t[1] \in All /\ t[2] \in All
  BY <1>2
<1>6. Reverse(t)[1] = t[2] /\ Reverse(t)[2] = t[1]
  <2>1. Reverse(t) = [k \in 1 .. 2 |-> t[(2 - k) + 1]]
    BY <1>2 DEF Reverse
  <2> QED
    BY <2>1
<1>7. s[1] \in All /\ s[2] \in All /\ ~IsConst(s[1])
  BY <1>3, <1>4, <1>5, <1>6
<1> QED
  BY <1>7 DEF OpcodeOf, ConOf, IsConst

(* A product or a disjunction that stays is done with. *)
LEMMA OrderedStaysKeepsDone ==
  ASSUME CodeInv, EdgesInv, DoneInv, MulStays \/ OrStays
  PROVE  DoneInv'
<1>1. PICK g : g = InOrder(currInsn) /\ KeepInsn(g)
  BY DEF MulStays, OrStays
<1>2. currInsn # 0 /\ outcome = "running" /\ ~Foldable(currInsn)
  BY TurnRuns DEF MulStays, OrStays
<1>3. ASSUME runs = 1
      PROVE  AllDone(Exact, OpcodeOf, ConOf, g.inputs, code, Settled \cup {currInsn})
  <2>1. AllDone(Exact, OpcodeOf, ConOf, g.inputs, code, Settled)
    BY <1>1, <1>2, <1>3, OrderedDone
  <2>2. PICK s : s = Swapped(currInsn) /\ g.inputs[currInsn] = s
    BY <1>1, <1>2, <1>3, SwappedInOrder
  <2>3. /\ OpcodeOf[s[1]] # "const"
        /\ OpcodeOf[s[2]] = "const" <=> IsConst(s[2])
        /\ ConOf[s[2]] = ConstantOf(s[2])
    BY <1>2, <1>3, <2>2, FrontNotConst
  <2>4. OpcodeOf[currInsn] = Opcode(currInsn)
    BY <1>2, TurnOpcodes
  <2>5. CASE MulStays
    <3>1. /\ OpcodeOf[currInsn] = "mul"
          /\ IsConst(s[2]) => /\ ~IsEqualTo(ConstantOf(s[2]), 1)
                              /\ ~IsEqualTo(ConstantOf(s[2]), 2)
      BY <2>2, <2>4, <2>5, TurnRuns DEF MulStays, IsFactor
    <3>2. Done(Exact, OpcodeOf, ConOf, g.inputs, code, currInsn)
      BY <2>2, <2>3, <3>1 DEF Done
    <3> QED
      BY <2>1, <3>2 DEF AllDone
  <2>6. CASE OrStays
    <3>1. /\ OpcodeOf[currInsn] = "or"
          /\ IF IsConst(s[2]) THEN ConstantOf(s[2]).value # 0 ELSE s[1] # s[2]
      BY <2>2, <2>4, <2>6, TurnRuns DEF OrStays, Idempotent
    <3>2. Done(Exact, OpcodeOf, ConOf, g.inputs, code, currInsn)
      BY <2>2, <2>3, <3>1 DEF Done
    <3> QED
      BY <2>1, <3>2 DEF AllDone
  <2> QED
    BY <2>5, <2>6
<1> QED
  BY <1>1, <1>2, <1>3, KeepInsnKeepsDone

(* Nothing is equal to one and to two. *)
LEMMA OneIsNotTwo ==
  ASSUME NEW c, IsEqualTo(c, 1)
  PROVE  ~IsEqualTo(c, 2)
BY DEF IsEqualTo

(* A product with one is done with, for its users that are operations have *)
(* another input now.                                                      *)
LEMMA MulByOneKeepsDone ==
  ASSUME CodeInv, EdgesInv, DoneInv, MulByOne
  PROVE  DoneInv'
<1>1. PICK g, x, h : /\ g = InOrder(currInsn) /\ x = g.inputs[currInsn][1]
                     /\ h = RedirectUsers(g, currInsn, x) /\ KeepInsn(h)
  BY DEF MulByOne
<1>2. currInsn # 0 /\ outcome = "running" /\ ~Foldable(currInsn)
  BY TurnRuns DEF MulByOne
<1>3. ASSUME runs = 1
      PROVE  AllDone(Exact, OpcodeOf, ConOf, h.inputs, code, Settled \cup {currInsn})
  <2>1. /\ AtTurn(OpcodeOf, code, Settled, currInsn)
        /\ EdgesOK(All, OpcodeOf, Ones, g.inputs, g.users, code, Settled)
        /\ AllDone(Exact, OpcodeOf, ConOf, g.inputs, code, Settled)
    BY <1>1, <1>2, <1>3, TurnGiven, SwappedInOrder, OrderedDone
  <2>2. /\ OpcodeOf[currInsn] = "mul"
        /\ Redirected(All, OpcodeOf, g.inputs, g.users, h.inputs, h.users, currInsn, x)
    BY <1>1, <1>3, OneIsRedirected
  <2>3. PICK s : s = Swapped(currInsn) /\ g.inputs[currInsn] = s
    BY <1>1, <1>2, <1>3, SwappedInOrder
  <2>4. OpcodeOf[s[1]] # "const" /\ ConOf[s[2]] = ConstantOf(s[2])
    BY <1>2, <1>3, <2>3, FrontNotConst
  <2>5. ~IsEqualTo(ConstantOf(s[2]), 2)
    BY <2>3, OneIsNotTwo DEF MulByOne, IsFactor
  <2>6. OpcodeOf[g.inputs[currInsn][1]] # "const" /\ ~IsEqualTo(ConOf[g.inputs[currInsn][2]], 2)
    BY <2>3, <2>4, <2>5
  <2> QED
    BY <1>1, <2>1, <2>2, <2>6, RedirectedDone, Zenon
<1> QED
  BY <1>1, <1>2, <1>3, KeepInsnKeepsDone

(* What the inputs of a shift are. *)
LEMMA ShiftInputs ==
  ASSUME CodeInv, EdgesInv, currInsn # 0, runs = 1, Opcode(currInsn) = "ashr",
         NEW t, t = inputs[currInsn][1]
  PROVE  /\ OpcodeOf[currInsn] = "ashr" /\ t \in All /\ inputs[currInsn][2] \in All
         /\ OpcodeOf[t] = "ashr" => inputs[t][1] \in All /\ inputs[t][2] \in All
<1>1. /\ EdgesOK(All, OpcodeOf, Ones, inputs, users, code, Settled)
      /\ inputs[currInsn] \in Seq(All) /\ Len(inputs[currInsn]) = 2
      /\ inputs \in Lists(All, All) /\ currInsn \in All
  BY TurnGiven
<1>2. t \in All /\ inputs[currInsn][2] \in All
  BY <1>1
<1>3. ASSUME OpcodeOf[t] = "ashr" PROVE inputs[t] \in Seq(All) /\ Len(inputs[t]) = 2
  BY <1>1, <1>2, <1>3 DEF EdgesOK, EdgesTyped, InputsFit, Binary, Operations, Lists
<1> QED
  BY <1>1, <1>2, <1>3 DEF OpcodeOf

(* A shift that stays is done with. *)
LEMMA AshrStaysKeepsDone ==
  ASSUME CodeInv, EdgesInv, DoneInv, AshrStays
  PROVE  DoneInv'
<1>1. PICK g : g = Edges /\ KeepInsn(g)
  BY DEF AshrStays
<1>2. /\ currInsn # 0 /\ outcome = "running" /\ Opcode(currInsn) = "ashr"
      /\ ~Foldable(currInsn) /\ g.inputs = inputs
  BY <1>1, TurnRuns DEF AshrStays, Edges
<1>3. ASSUME runs = 1
      PROVE  AllDone(Exact, OpcodeOf, ConOf, inputs, code, Settled \cup {currInsn})
  <2>1. AllDone(Exact, OpcodeOf, ConOf, inputs, code, Settled)
    BY <1>3 DEF DoneInv
  <2>2. PICK s, t : s = inputs[currInsn] /\ t = s[1]
    OBVIOUS
  <2>3. /\ OpcodeOf[currInsn] = "ashr" /\ t \in All /\ s[2] \in All
        /\ OpcodeOf[t] = "ashr" => inputs[t][2] \in All
    BY <1>2, <1>3, <2>2, ShiftInputs
  <2>4. \A i \in All : OpcodeOf[i] = Opcode(i) /\ ConOf[i] = ConstantOf(i)
    BY DEF OpcodeOf, ConOf
  <2>5. /\ ~IsConst(t) \/ ~IsConst(s[2])
        /\ IsConst(s[2]) => ConstantOf(s[2]).value # 0
    BY <1>2, <2>2 DEF Foldable, AshrStays, DistanceIsZero
  <2>6. IsConst(s[2]) => ~(/\ Opcode(t) = "ashr" /\ IsConst(inputs[t][2])
                           /\ ConstantOf(inputs[t][2]).type = ConstantOf(s[2]).type)
    BY <2>2, <2>5 DEF AshrStays, ShiftOfShift, DistanceIsZero
  <2>7. OpcodeOf[s[2]] = "const" => ~Joinable(OpcodeOf, ConOf, inputs, currInsn)
    BY <2>2, <2>3, <2>4, <2>6 DEF Joinable, IsConst
  <2>8. /\ OpcodeOf[t] # "const" \/ OpcodeOf[s[2]] # "const"
        /\ OpcodeOf[s[2]] = "const" => ConOf[s[2]].value # 0
    BY <2>3, <2>4, <2>5 DEF IsConst
  <2>9. Done(Exact, OpcodeOf, ConOf, inputs, code, currInsn)
    BY <2>2, <2>3, <2>7, <2>8 DEF Done
  <2> QED
    BY <2>1, <2>9 DEF AllDone
<1> QED
  BY <1>1, <1>2, <1>3, KeepInsnKeepsDone

(* The operation is folded. *)
LEMMA FoldKeepsDone ==
  ASSUME CodeInv, EdgesInv, DoneInv, NEW op, Fold(op)
  PROVE  DoneInv'
<1>1. PICK g, f : /\ g = WithNew(Edges)
                  /\ PutInstead(g, currInsn, ConstantInsn(f.constant, f.resultType))
  BY DEF Fold
<1>2. currInsn # 0 /\ outcome = "running"
  BY TurnRuns DEF Fold
<1>3. ConstantInsn(f.constant, f.resultType).opcode = "const"
  BY DEF ConstantInsn
<1>4. runs = 1 => /\ Prepared(g, inputs, users, <<>>)
                  /\ Uses(<<>>) \subseteq Uses(inputs[currInsn])
                  /\ \A u \in All \ {currInsn} : inputs[u] = inputs[u]
  BY <1>1, <1>2, FoldPrepares DEF Prepared
<1> QED
  BY <1>1, <1>2, <1>3, <1>4, PutInsteadKeepsDone

(* The product becomes a sum. *)
LEMMA MulByTwoKeepsDone ==
  ASSUME CodeInv, EdgesInv, DoneInv, MulByTwo
  PROVE  DoneInv'
<1>1. PICK x, f, h :
        /\ x = Swapped(currInsn)[1] /\ f = InOrder(currInsn)
        /\ h = SetInputs(AddUserTo(WithNew(f), x, NewInsn), NewInsn, <<x, x>>)
        /\ PutInstead(h, currInsn, Insn("add", "F64"))
  BY DEF MulByTwo
<1>2. currInsn # 0 /\ outcome = "running"
  BY TurnRuns DEF MulByTwo
<1>3. Insn("add", "F64").opcode = "add" /\ Len(<<x, x>>) = 2
  BY DEF Insn
<1>4. PICK us : us = ArithmeticUsers(users, x, x, NewInsn)
  OBVIOUS
<1>5. ASSUME runs = 1
      PROVE  /\ Prepared(h, f.inputs, us, <<x, x>>)
             /\ Uses(<<x, x>>) \subseteq Uses(inputs[currInsn])
             /\ \A u \in All \ {currInsn} : f.inputs[u] = inputs[u]
  <2>1. Prepared(h, f.inputs, us, <<x, x>>)
    BY <1>1, <1>2, <1>4, <1>5, MulByTwoPrepares
  <2>2. Uses(f.inputs[currInsn]) = Uses(inputs[currInsn])
    BY <1>1, <1>2, <1>5, SwappedInOrder
  <2>3. \A u \in All \ {currInsn} : f.inputs[u] = inputs[u]
    BY <1>1, <1>2, <1>5, OrderedInputs
  <2> QED
    BY <2>1, <2>2, <2>3 DEF Prepared
<1> QED
  BY <1>1, <1>2, <1>3, <1>5, PutInsteadKeepsDone

(* A shift by zero or a disjunction gives way to its first input. *)
LEMMA GivingWayKeepsDone ==
  ASSUME CodeInv, EdgesInv, DoneInv, AshrByZero \/ OrGivesWay
  PROVE  DoneInv'
<1>1. currInsn # 0 /\ outcome = "running"
  BY TurnRuns DEF AshrByZero, OrGivesWay
<1>2. CASE AshrByZero
  <2>1. PICK g, x : g = Edges /\ x = inputs[currInsn][1] /\ GiveWay(g, currInsn, x)
    BY <1>2 DEF AshrByZero
  <2>2. ASSUME runs = 1
        PROVE  /\ Pair(All, g) /\ x \in Uses(inputs[currInsn]) /\ g.users = users
               /\ \A u \in All \ {currInsn} : g.inputs[u] = inputs[u]
    <3>1. /\ inputs \in Lists(All, All) /\ users \in Lists(All, All)
          /\ Len(inputs[currInsn]) = 2 /\ inputs[currInsn] \in Seq(All)
      BY <1>1, <2>2, TurnGiven
    <3>2. x \in Uses(inputs[currInsn])
      BY <2>1, <3>1, TwoInputs
    <3> QED
      BY <2>1, <3>1, <3>2 DEF Pair, Edges
  <2> QED
    BY <1>1, <2>1, <2>2, GiveWayKeepsDone
<1>3. CASE OrGivesWay
  <2>1. PICK g, x : g = InOrder(currInsn) /\ x = g.inputs[currInsn][1] /\ GiveWay(g, currInsn, x)
    BY <1>3 DEF OrGivesWay
  <2>2. ASSUME runs = 1
        PROVE  /\ Pair(All, g) /\ x \in Uses(inputs[currInsn]) /\ g.users = users
               /\ \A u \in All \ {currInsn} : g.inputs[u] = inputs[u]
    <3>1. /\ g.inputs[currInsn] \in Seq(All) /\ Len(g.inputs[currInsn]) = 2
          /\ Uses(g.inputs[currInsn]) = Uses(inputs[currInsn])
      BY <1>1, <2>1, <2>2, SwappedInOrder
    <3>2. x \in Uses(inputs[currInsn])
      BY <2>1, <3>1, TwoInputs
    <3> QED
      BY <1>1, <2>1, <2>2, <3>2, OrderedInputs
  <2> QED
    BY <1>1, <2>1, <2>2, GiveWayKeepsDone
<1> QED
  BY <1>2, <1>3

(* The distance n of the shift c is new: it is joined from those of c and  *)
(* of the shift t, and put behind c.                                       *)
Joins(A, op, con, inp, cd, c, t, n, op2, con2, inp2, cd2) ==
  /\ op[c] = "ashr" /\ op[inp[c][2]] = "const"
  /\ t = inp[c][1] /\ op[t] = "ashr" /\ op[inp[t][2]] = "const"
  /\ con[inp[t][2]].type = con[inp[c][2]].type
  /\ \A i \in A : op2[i] = op[i] /\ con2[i] = con[i]
  /\ n \notin A /\ op2[n] = "const" /\ con2[n].type = con[inp[c][2]].type
  /\ inp2[c] = <<inp[t][1], n>> /\ inp2[n] = <<>>
  /\ \A u \in A \ {c} : inp2[u] = inp[u]
  /\ SameOrder(cd, cd2) /\ Uses(cd2) = Uses(cd) \cup {n} /\ ~InFront(cd2, n, c)

(* A shift that gets a joined distance behind it is done with: what it     *)
(* shifts now is what the shift in front of it shifts, of which the same   *)
(* is known.                                                               *)
LEMMA JoinedDone ==
  ASSUME NEW A, NEW op, NEW one, NEW inp, NEW us, NEW cd, NEW S, NEW c,
         EdgesOK(A, op, one, inp, us, cd, S), AtTurn(op, cd, S, c),
         NEW con, NEW ex, AllDone(ex, op, con, inp, cd, S),
         NEW t, NEW n, NEW op2, NEW con2, NEW inp2, NEW cd2,
         Joins(A, op, con, inp, cd, c, t, n, op2, con2, inp2, cd2),
         ex => con2[n].value # 0
  PROVE  /\ Follows(A, op, con, inp, cd, S, op2, con2, inp2, cd2)
         /\ Done(ex, op2, con2, inp2, cd2, c)
<1> USE DEF Joins
<1>1. /\ cd \in Seq(A) /\ Injective(cd) /\ Uses(cd) \subseteq A /\ inp \in Lists(A, A)
      /\ \A j \in A : (op[j] = "phi" <=> j = Phi) /\ InputsFit(op, j, inp[j])
      /\ \A j \in S : j \in Uses(cd) /\ op[j] \in Operations /\ j \in A
  BY UsesTyped DEF EdgesOK, EdgesTyped
<1>2. /\ c \in A /\ c \in Uses(cd) /\ c \notin S
      /\ inp[c] \in Seq(A) /\ Len(inp[c]) = 2
      /\ \A d \in Uses(inp[c]) : d \in Uses(cd) /\ InFront(cd, d, c)
  <2>1. Turning(A, op, inp, us, cd, S, c)
    BY TurnFacts, Zenon
  <2> QED
    BY <2>1 DEF Turning, AtTurn
<1>3. t \in Uses(cd) /\ InFront(cd, t, c) /\ t \in S /\ t \in A
  <2>1. t \in Uses(inp[c])
    BY <1>2, TwoInputs
  <2> QED
    BY <1>1, <1>2, <2>1 DEF AtTurn, Operations
<1>4. ASSUME NEW j \in A, op[j] = "ashr"
      PROVE  /\ inp[j] \in Seq(A) /\ inp[j][1] \in A /\ inp[j][2] \in A
             /\ inp[j][1] \in Uses(inp[j])
  <2>1. inp[j] \in Seq(A) /\ Len(inp[j]) = 2
    BY <1>1, <1>4 DEF Lists, InputsFit, Binary, Operations
  <2> QED
    BY <2>1, TwoInputs
<1>5. PICK x : x = inp[t][1] /\ x \in A /\ x \in Uses(inp[t]) /\ inp[t][2] \in A
  BY <1>3, <1>4
<1>6. InFront(cd, x, t) /\ x # c /\ InFront(cd, x, c)
  <2>1. /\ x \in Uses(cd)
        /\ \/ t = Phi \/ InFront(cd, x, t)
           \/ RightBehind(cd, t, x) /\ op[x] = "const"
    BY <1>3, <1>5 DEF EdgesOK, Ordered
  <2>2. t # Phi
    BY <1>1, <1>3
  <2>3. op[x] # "const"
    BY <1>3, <1>5 DEF AllDone, Done
  <2>4. InFront(cd, x, t)
    BY <2>1, <2>2, <2>3
  <2> QED
    BY <1>1, <1>3, <2>4, OrderIsStrict
<1>7. op[x] # "const" /\ ~Joinable(op, con, inp, t)
  BY <1>3, <1>5 DEF AllDone, Done
<1>8. inp2[c][1] = x /\ inp2[c][2] = n /\ Uses(inp2[c]) = {x, n}
  <2>1. inp2[c] = <<x, n>>
    BY <1>5
  <2>2. Uses(<<x, n>>) = {x, n}
    <3>1. <<x, n>> \in Seq({x, n}) /\ Len(<<x, n>>) = 2
      OBVIOUS
    <3> QED
      BY <3>1, TwoInputs
  <2> QED
    BY <2>1, <2>2
<1>9. op2[x] = op[x] /\ op2[c] = "ashr"
  BY <1>2, <1>5
<1>10. ~Joinable(op2, con2, inp2, c)
  <2> SUFFICES ASSUME op[x] = "ashr", op2[inp2[x][2]] = "const",
                      con2[inp2[x][2]].type = con2[n].type
               PROVE  FALSE
    BY <1>8, <1>9 DEF Joinable
  <2>1. inp2[x] = inp[x] /\ inp[x][2] \in A
    <3>1. x \in A \ {c}
      BY <1>5, <1>6, Zenon
    <3>2. inp[x][2] \in A
      BY <1>4, <3>1, Zenon
    <3> QED
      BY <3>1, <3>2, Zenon
  <2>2. op[inp[x][2]] = "const" /\ con[inp[x][2]].type = con[inp[t][2]].type
    BY <2>1
  <2> QED
    BY <1>5, <1>7, <2>2 DEF Joinable
<1>11. Done(ex, op2, con2, inp2, cd2, c)
  BY <1>7, <1>8, <1>9, <1>10 DEF Done
<1>12. ASSUME NEW u \in Uses(cd2), ~Vector(op2, u), NEW m \in S, m \in Uses(inp2[u])
       PROVE  \E v \in Uses(cd) : ~Vector(op, v) /\ m \in Uses(inp[v])
  <2>1. CASE u = c
    <3>1. m = x
      BY <1>1, <1>8, <1>12, <2>1
    <3>2. ~Vector(op, t)
      BY DEF Vector
    <3> QED
      BY <1>3, <1>5, <3>1, <3>2
  <2>2. CASE u = n
    BY <1>12, <2>2 DEF Uses
  <2>3. CASE u # c /\ u # n
    <3>1. u \in Uses(cd) /\ u \in A
      BY <1>1, <1>12, <2>3
    <3> QED
      BY <1>12, <2>3, <3>1 DEF Vector
  <2> QED
    BY <2>1, <2>2, <2>3
<1>13. Follows(A, op, con, inp, cd, S, op2, con2, inp2, cd2)
  BY <1>1, <1>2, <1>12 DEF Follows
<1> QED
  BY <1>11, <1>13

-----------------------------------------------------------------------------
(* The bits of a pattern. *)
BitOf(v, k) == (v \div 2^k) % 2

(* A pattern has no more bits than its width. *)
LEMMA PatternsAre ==
  /\ WIDTH \in Nat \ {0} /\ 2^WIDTH \in Nat \ {0} /\ Patterns \subseteq Nat /\ 0 \in Patterns
  /\ \A v \in Int : v \in Patterns <=> 0 <= v /\ v < 2^WIDTH
<1>1. WIDTH \in Nat \ {0}
  BY WidthAssumption
<1>2. 2^WIDTH \in Nat \ {0}
  BY <1>1, PowersDouble
<1> QED
  BY <1>1, <1>2 DEF Patterns

(* Bits tell patterns apart: they are the same from above down to any      *)
(* place.                                                                  *)
LEMMA SameBits ==
  ASSUME NEW a \in Patterns, NEW b \in Patterns, BitsSet(a) = BitsSet(b)
  PROVE  a = b
<1> DEFINE P == {k \in 0 .. WIDTH : a \div 2^(WIDTH - k) = b \div 2^(WIDTH - k)}
<1>1. /\ WIDTH \in Nat /\ 2^WIDTH \in Nat \ {0} /\ a \in Int /\ b \in Int
      /\ a \in 0 .. 2^WIDTH - 1 /\ b \in 0 .. 2^WIDTH - 1
  BY PatternsAre DEF Patterns
<1>2. 0 \in P
  <2>1. a \div 2^WIDTH = 0 /\ b \div 2^WIDTH = 0
    BY <1>1, DivisionIs
  <2>2. WIDTH - 0 = WIDTH /\ 0 \in 0 .. WIDTH
    BY <1>1
  <2> QED
    BY <2>1, <2>2
<1>3. ASSUME NEW k \in 1 .. WIDTH, k - 1 \in P PROVE k \in P
  <2>1. PICK j : j = WIDTH - k
    OBVIOUS
  <2>2. j \in Nat /\ j \in 0 .. WIDTH - 1 /\ j + 1 = WIDTH - (k - 1) /\ k \in 0 .. WIDTH
    BY <1>1, <2>1
  <2>3. a \div 2^(j + 1) = b \div 2^(j + 1)
    BY <1>3, <2>2
  <2>4. 2^j \in Nat \ {0} /\ 2^(j + 1) = 2^j * 2
    <3>1. 2^j \in Nat \ {0} /\ 2^(j + 1) = 2 * 2^j
      BY <2>2, PowersDouble
    <3>2. \A p \in Nat : 2 * p = p * 2
      OBVIOUS
    <3> QED
      BY <3>1, <3>2, Zenon
  <2>5. /\ (a \div 2^j) \div 2 = a \div 2^(j + 1)
        /\ (b \div 2^j) \div 2 = b \div 2^(j + 1)
    <3>1. 2 \in Nat \ {0}
      OBVIOUS
    <3>2. PICK p, m : p = 2^(j + 1) /\ m = 2^j
      OBVIOUS
    <3>3. m \in Nat \ {0} /\ p = m * 2
      BY <2>4, <3>2
    <3>4. DividesTwice(a, m, 2, p) /\ DividesTwice(b, m, 2, p)
      BY <1>1, <3>1, <3>3, DivisionTwice
    <3> QED
      BY <3>2, <3>4 DEF DividesTwice
  <2>6. BitOf(a, j) = BitOf(b, j)
    <3>1. BitOf(a, j) = 1 <=> BitOf(b, j) = 1
      BY <2>2 DEF BitsSet, BitOf
    <3>2. BitOf(a, j) \in 0 .. 1 /\ BitOf(b, j) \in 0 .. 1
      <4>1. a \div 2^j \in Int /\ b \div 2^j \in Int
        BY <1>1, <2>4, DivisionIs
      <4>2. \A q \in Int : q % 2 \in 0 .. 1
        OBVIOUS
      <4> QED
        BY <4>1, <4>2 DEF BitOf
    <3> QED
      BY <3>1, <3>2
  <2>7. PICK x, y : x = a \div 2^j /\ y = b \div 2^j
    OBVIOUS
  <2>8. x \in Int /\ y \in Int
    BY <1>1, <2>4, <2>7, DivisionIs
  <2>9. x \div 2 = y \div 2 /\ x % 2 = y % 2
    BY <2>3, <2>5, <2>6, <2>7 DEF BitOf
  <2>10. x = y
    BY <2>8, <2>9
  <2> QED
    BY <2>1, <2>2, <2>7, <2>10
<1> HIDE DEF P
<1>4. WIDTH \in P
  BY <1>1, <1>2, <1>3, UpTo
<1>5. a \div 2^(WIDTH - WIDTH) = b \div 2^(WIDTH - WIDTH)
  BY <1>4 DEF P
<1>6. WIDTH - WIDTH = 0 /\ 2^0 = 1 /\ a \div 1 = a /\ b \div 1 = b
  BY <1>1, PowersDouble
<1> QED
  BY <1>5, <1>6

(* There are as many patterns as sets of bits, so every set of bits is     *)
(* that of a pattern.                                                      *)
LEMMA BitsMake ==
  ASSUME NEW S \in SUBSET (0 .. WIDTH - 1)
  PROVE  \E v \in Patterns : BitsSet(v) = S
<1> DEFINE B == 0 .. WIDTH - 1
           f == [v \in Patterns |-> BitsSet(v)]
<1>1. WIDTH \in Nat \ {0} /\ 2^WIDTH \in Nat \ {0}
  BY PatternsAre
<1>2. IsFiniteSet(B) /\ Cardinality(B) = WIDTH
  BY <1>1, FS_Interval
<1>3. IsFiniteSet(SUBSET B) /\ Cardinality(SUBSET B) = 2^WIDTH
  BY <1>2, FS_SUBSET
<1>4. IsFiniteSet(Patterns) /\ Cardinality(Patterns) = 2^WIDTH
  <2> DEFINE n == 2^WIDTH
  <2>1. n \in Nat \ {0} /\ Patterns = 0 .. n - 1
    BY <1>1 DEF Patterns
  <2> HIDE DEF n
  <2>2. IsFiniteSet(0 .. n - 1) /\ Cardinality(0 .. n - 1) = n
    BY <2>1, FS_Interval
  <2> QED
    BY <2>1, <2>2 DEF n
<1>5. f \in Injection(Patterns, SUBSET B)
  <2>1. ASSUME NEW v \in Patterns PROVE BitsSet(v) \in SUBSET B
    BY DEF BitsSet
  <2>2. f \in [Patterns -> SUBSET B]
    BY <2>1
  <2>3. ASSUME NEW v \in Patterns, NEW w \in Patterns, f[v] = f[w] PROVE v = w
    BY <2>3, SameBits
  <2> HIDE DEF f
  <2> QED
    BY <2>2, <2>3 DEF Injection, IsInjective
<1>6. f \in Surjection(Patterns, SUBSET B)
  <2> HIDE DEF f, B
  <2> QED
    BY <1>3, <1>4, <1>5, FS_Injection
<1>7. PICK v \in Patterns : f[v] = S
  <2> HIDE DEF f
  <2> QED
    BY <1>6 DEF Surjection
<1> QED
  BY <1>7

(* What BitOr gives. *)
LEMMA BitOrIs ==
  ASSUME NEW a \in Patterns, NEW b \in Patterns
  PROVE  BitOr(a, b) \in Patterns /\ BitsSet(BitOr(a, b)) = BitsSet(a) \cup BitsSet(b)
<1> DEFINE S == BitsSet(a) \cup BitsSet(b)
<1>1. S \in SUBSET (0 .. WIDTH - 1)
  BY DEF BitsSet
<1>2. BitOr(a, b) = CHOOSE v \in Patterns : BitsSet(v) = S
  BY DEF BitOr
<1> HIDE DEF S
<1>3. \E v \in Patterns : BitsSet(v) = S
  BY <1>1, BitsMake
<1>4. BitOr(a, b) \in Patterns /\ BitsSet(BitOr(a, b)) = S
  BY <1>2, <1>3, Zenon
<1> QED
  BY <1>4 DEF S

(* It is commutative, and a disjunction with zero or of a value with       *)
(* itself is that value.                                                   *)
LEMMA BitOrLaws ==
  ASSUME NEW a \in Patterns, NEW b \in Patterns
  PROVE  BitOr(a, b) = BitOr(b, a) /\ BitOr(a, a) = a /\ BitOr(a, 0) = a
<1>1. /\ BitsSet(BitOr(a, b)) = BitsSet(BitOr(b, a))
      /\ BitOr(a, b) \in Patterns /\ BitOr(b, a) \in Patterns
  <2>1. /\ BitsSet(BitOr(a, b)) = BitsSet(a) \cup BitsSet(b)
        /\ BitsSet(BitOr(b, a)) = BitsSet(b) \cup BitsSet(a)
        /\ BitOr(a, b) \in Patterns /\ BitOr(b, a) \in Patterns
    BY BitOrIs
  <2> QED
    BY <2>1
<1>2. BitsSet(BitOr(a, a)) = BitsSet(a) /\ BitOr(a, a) \in Patterns
  <2>1. BitsSet(BitOr(a, a)) = BitsSet(a) \cup BitsSet(a) /\ BitOr(a, a) \in Patterns
    BY BitOrIs
  <2> QED
    BY <2>1
<1>3. BitsSet(0) = {}
  <2>1. ASSUME NEW k \in 0 .. WIDTH - 1 PROVE (0 \div 2^k) % 2 # 1
    <3>1. 2^k \in Nat \ {0} /\ k \in Nat
      <4>1. k \in Nat
        BY PatternsAre
      <4> QED
        BY <4>1, PowersDouble
    <3>2. 0 \in 0 .. 2^k - 1 /\ 0 \in Int
      BY <3>1
    <3>3. 0 \div 2^k = 0
      BY <3>1, <3>2, DivisionIs
    <3>4. 0 % 2 # 1
      OBVIOUS
    <3> QED
      BY <3>3, <3>4, Zenon
  <2> QED
    BY <2>1 DEF BitsSet
<1>4. BitsSet(BitOr(a, 0)) = BitsSet(a) /\ BitOr(a, 0) \in Patterns
  <2>1. BitsSet(BitOr(a, 0)) = BitsSet(a) \cup BitsSet(0) /\ BitOr(a, 0) \in Patterns
    BY PatternsAre, BitOrIs
  <2> QED
    BY <1>3, <2>1
<1> QED
  BY <1>1, <1>2, <1>4, SameBits

(* Cutting a pattern down to fewer bits leaves the bits below. *)
LEMMA BitsCut ==
  ASSUME NEW v \in Patterns, NEW h \in 0 .. WIDTH
  PROVE  /\ h \in Nat /\ 2^h \in Nat \ {0} /\ v % 2^h \in Patterns
         /\ BitsSet(v % 2^h) = {k \in BitsSet(v) : k < h}
<1>1. WIDTH \in Nat /\ h \in Nat /\ v \in Int /\ 2^WIDTH \in Nat \ {0}
  BY PatternsAre
<1>2. 2^h \in Nat \ {0} /\ 2^h <= 2^WIDTH
  BY <1>1, PowersDivide
<1> DEFINE w == v % 2^h
<1>3. w \in 0 .. 2^h - 1 /\ w \in Int
  BY <1>1, <1>2, DivisionIs
<1>4. w \in Patterns
  <2> HIDE DEF w
  <2> QED
    BY <1>1, <1>2, <1>3, PatternsAre
<1>5. ASSUME NEW k \in 0 .. WIDTH - 1
      PROVE  BitOf(w, k) = 1 <=> BitOf(v, k) = 1 /\ k < h
  <2>1. k \in Nat /\ 2^k \in Nat \ {0}
    <3>1. k \in Nat
      BY <1>1
    <3> QED
      BY <3>1, PowersDouble
  <2>2. CASE k < h
    <3>1. PICK j : j = h - k - 1
      OBVIOUS
    <3>2. j \in Nat /\ j + 1 = h - k /\ k \in 0 .. h
      BY <1>1, <2>1, <2>2, <3>1
    <3>3. 2^h = 2^k * 2^(h - k)
      BY <1>1, <3>2, PowersDivide
    <3>4. 2^j \in Nat \ {0} /\ 2^(j + 1) = 2 * 2^j
      BY <3>2, PowersDouble
    <3>5. 2^h = 2^k * (2 * 2^j) /\ 2 * 2^j \in Nat \ {0}
      BY <3>2, <3>3, <3>4
    <3>6. PICK n : n = 2 * 2^j
      OBVIOUS
    <3>7. n \in Nat \ {0} /\ 2^h = 2^k * n
      BY <3>5, <3>6
    <3>8. w \div 2^k = (v \div 2^k) % n
      <4>1. PICK p, m : p = 2^h /\ m = 2^k
        OBVIOUS
      <4>2. m \in Nat \ {0} /\ p = m * n
        BY <2>1, <3>7, <4>1
      <4>3. DividesTwice(v, m, n, p)
        BY <1>1, <3>7, <4>2, DivisionTwice
      <4> QED
        BY <4>1, <4>3 DEF DividesTwice
    <3>9. PICK q : q = v \div 2^k
      OBVIOUS
    <3>10. q \in Int
      BY <1>1, <2>1, <3>9, DivisionIs
    <3>11. (q % n) % 2 = q % 2
      <4>1. PICK r : r = 2^j
        OBVIOUS
      <4>2. 2 \in Nat \ {0} /\ r \in Nat \ {0} /\ n = 2 * r
        BY <3>4, <3>6, <4>1
      <4>3. DividesTwice(q, 2, r, n)
        BY <3>10, <4>2, DivisionTwice
      <4> QED
        BY <4>3 DEF DividesTwice
    <3>12. BitOf(w, k) = BitOf(v, k)
      <4> HIDE DEF w
      <4> QED
        BY <3>8, <3>9, <3>11 DEF BitOf
    <3> QED
      BY <2>2, <3>12
  <2>3. CASE ~(k < h)
    <3>1. h \in 0 .. k
      BY <1>1, <2>1, <2>3
    <3>2. 2^h <= 2^k
      BY <2>1, <3>1, PowersDivide
    <3>3. w \in 0 .. 2^k - 1
      <4> HIDE DEF w
      <4> QED
        BY <1>2, <1>3, <2>1, <3>2
    <3>4. w \div 2^k = 0
      <4> HIDE DEF w
      <4> QED
        BY <1>3, <2>1, <3>3, DivisionIs
    <3>5. BitOf(w, k) = 0
      BY <3>4 DEF BitOf
    <3> QED
      BY <2>3, <3>5
  <2> QED
    BY <2>2, <2>3
<1>6. BitsSet(w) = {k \in BitsSet(v) : k < h}
  <2> HIDE DEF w
  <2> QED
    BY <1>5 DEF BitsSet, BitOf
<1> QED
  BY <1>1, <1>2, <1>4, <1>6

(* So it does not matter whether a disjunction is cut or its operands are. *)
LEMMA BitOrCut ==
  ASSUME NEW a \in Patterns, NEW b \in Patterns, NEW h \in 0 .. WIDTH
  PROVE  /\ a % 2^h \in Patterns /\ b % 2^h \in Patterns
         /\ BitOr(a % 2^h, b % 2^h) = BitOr(a, b) % 2^h
<1> DEFINE c == BitOr(a, b)
           x == a % 2^h
           y == b % 2^h
           z == c % 2^h
<1>1. c \in Patterns /\ BitsSet(c) = BitsSet(a) \cup BitsSet(b)
  BY BitOrIs
<1>2. /\ x \in Patterns /\ y \in Patterns
      /\ BitsSet(x) = {k \in BitsSet(a) : k < h} /\ BitsSet(y) = {k \in BitsSet(b) : k < h}
  BY BitsCut
<1> HIDE DEF c
<1>3. z \in Patterns /\ BitsSet(z) = {k \in BitsSet(c) : k < h}
  BY <1>1, BitsCut
<1> HIDE DEF x, y, z
<1>4. BitOr(x, y) \in Patterns /\ BitsSet(BitOr(x, y)) = BitsSet(x) \cup BitsSet(y)
  BY <1>2, BitOrIs
<1>5. BitsSet(BitOr(x, y)) = BitsSet(z)
  BY <1>1, <1>2, <1>3, <1>4
<1>6. BitOr(x, y) = z
  BY <1>3, <1>4, <1>5, SameBits
<1> QED
  BY <1>2, <1>6 DEF x, y, z, c
-----------------------------------------------------------------------------
(* Values of a type. *)
Fits(v, t) == v \in Int /\ (t \in IntTypes => v \in 0 .. 2^Bits(t) - 1)

(* The types that are not floating have some bits. *)
LEMMA TypeBits ==
  ASSUME NEW t \in IntTypes
  PROVE  /\ Bits(t) \in Nat \ {0} /\ Bits(t) \in 0 .. WIDTH /\ 2^Bits(t) \in Nat \ {0}
         /\ 2^Bits(t) <= 2^WIDTH /\ 2 <= 2^Bits(t) /\ t \notin FloatTypes
<1>1. Bits(t) \in Nat \ {0} /\ Bits(t) \in 0 .. WIDTH /\ WIDTH \in Nat
  BY WidthAssumption DEF Bits
<1>2. 2^Bits(t) \in Nat \ {0} /\ 2^Bits(t) <= 2^WIDTH
  BY <1>1, PowersDivide
<1>3. 2 <= 2^Bits(t)
  <2>1. 0 \in 0 .. Bits(t) /\ 0 < Bits(t)
    BY <1>1
  <2>2. 2 * 2^0 <= 2^Bits(t)
    BY <1>1, <2>1, PowersDivide
  <2>3. 2^0 = 1
    BY PowersDouble
  <2> QED
    BY <1>2, <2>2, <2>3
<1>4. t \notin FloatTypes
  BY DEF IntTypes, FloatTypes, NarrowTypes
<1> QED
  BY <1>1, <1>2, <1>3, <1>4

(* What InType gives is of the type, and what is of the type stays. *)
LEMMA InTypeFits ==
  ASSUME NEW v \in Int, NEW t \in DataTypes
  PROVE  /\ Fits(InType(v, t), t) /\ (Fits(v, t) => InType(v, t) = v)
         /\ t \in IntTypes => InType(v, t) = v % 2^Bits(t)
         /\ t \notin IntTypes => t \in FloatTypes /\ InType(v, t) = v
<1>1. CASE t \in IntTypes
  <2>1. t \notin FloatTypes /\ 2^Bits(t) \in Nat \ {0}
    BY <1>1, TypeBits
  <2>2. InType(v, t) = v % 2^Bits(t)
    BY <2>1 DEF InType, Pattern
  <2>3. v % 2^Bits(t) \in 0 .. 2^Bits(t) - 1 /\ v % 2^Bits(t) \in Int
    <3>1. PICK m : m = 2^Bits(t)
      OBVIOUS
    <3>2. m \in Nat \ {0}
      BY <2>1, <3>1
    <3>3. v % m \in 0 .. m - 1
      BY <3>2, DivisionIs
    <3>4. v % m \in Int
      BY <3>2, <3>3
    <3> QED
      BY <3>1, <3>3, <3>4
  <2>4. v \in 0 .. 2^Bits(t) - 1 => v % 2^Bits(t) = v
    BY <2>1, DivisionIs
  <2> QED
    BY <1>1, <2>2, <2>3, <2>4 DEF Fits
<1>2. CASE t \notin IntTypes
  <2>1. t \in FloatTypes
    BY <1>2 DEF DataTypes
  <2> QED
    BY <1>2, <2>1 DEF InType, Fits
<1> QED
  BY <1>1, <1>2

(* Zero, and patterns of the type. *)
LEMMA ZeroFits ==
  ASSUME NEW t \in DataTypes
  PROVE  Fits(0, t) /\ \A v : t \in IntTypes /\ Fits(v, t) => v \in Patterns
<1>1. Fits(0, t)
  <2>1. t \in IntTypes => 2^Bits(t) \in Nat \ {0}
    BY TypeBits
  <2> QED
    BY <2>1 DEF Fits
<1>2. ASSUME NEW v, t \in IntTypes, Fits(v, t) PROVE v \in Patterns
  <2>1. 2^Bits(t) \in Nat \ {0} /\ 2^Bits(t) <= 2^WIDTH /\ 2^WIDTH \in Nat
    BY <1>2, TypeBits, PatternsAre
  <2>2. v \in 0 .. 2^Bits(t) - 1
    BY <1>2 DEF Fits
  <2>3. v \in Int /\ 0 <= v /\ v < 2^WIDTH
    BY <2>1, <2>2
  <2> QED
    BY <2>3, PatternsAre
<1> QED
  BY <1>1, <1>2

(* The 64-bit pattern of a value has the bits that a type takes from it. *)
LEMMA PatternInType ==
  ASSUME NEW v \in Int, NEW t \in IntTypes
  PROVE  /\ Pattern(v, WIDTH) \in Patterns /\ InType(Pattern(v, WIDTH), t) = InType(v, t)
         /\ v \in Patterns => Pattern(v, WIDTH) = v
<1>1. /\ Bits(t) \in 0 .. WIDTH /\ WIDTH \in Nat /\ t \notin FloatTypes
      /\ 2^WIDTH \in Nat \ {0}
  BY TypeBits, PatternsAre
<1>2. PICK m, n, p : m = 2^Bits(t) /\ n = 2^(WIDTH - Bits(t)) /\ p = 2^WIDTH
  OBVIOUS
<1>3. m \in Nat \ {0} /\ n \in Nat \ {0} /\ p = m * n
  BY <1>1, <1>2, PowersDivide
<1>4. (v % p) % m = v % m
  <2>1. DividesTwice(v, m, n, p)
    BY <1>3, DivisionTwice
  <2> QED
    BY <2>1 DEF DividesTwice
<1>5. InType(Pattern(v, WIDTH), t) = InType(v, t)
  BY <1>1, <1>2, <1>4 DEF InType, Pattern
<1>6. v % 2^WIDTH \in 0 .. 2^WIDTH - 1 /\ (v \in 0 .. 2^WIDTH - 1 => v % 2^WIDTH = v)
  BY <1>1, DivisionIs
<1> QED
  BY <1>5, <1>6 DEF Pattern, Patterns

(* So it does not matter whether it is read in 64 bits before. *)
LEMMA WideInType ==
  ASSUME NEW v \in Int, NEW t \in IntTypes
  PROVE  InType(InType(v, "I64"), t) = InType(v, t)
<1>1. InType(v, "I64") = Pattern(v, WIDTH)
  BY DEF InType, FloatTypes, Bits, NarrowTypes
<1> QED
  BY <1>1, PatternInType

(* The signed reading of w bits lies between two powers. *)
LEMMA SignedRange ==
  ASSUME NEW w \in Nat \ {0}, NEW v \in 0 .. 2^w - 1
  PROVE  /\ Signed(v, w) \in Int /\ 2^(w - 1) \in Nat \ {0} /\ 2^w = 2 * 2^(w - 1)
         /\ - 2^(w - 1) <= Signed(v, w) /\ Signed(v, w) < 2^(w - 1)
         /\ Signed(v, w) % 2^w = v
<1>1. PICK u : u = w - 1
  OBVIOUS
<1>2. u \in Nat /\ u + 1 = w
  BY <1>1
<1>3. 2^u \in Nat \ {0} /\ 2^(u + 1) = 2 * 2^u
  BY <1>2, PowersDouble
<1>4. PICK h, p : h = 2^u /\ p = 2^w
  OBVIOUS
<1>5. h \in Nat \ {0} /\ p = 2 * h /\ p \in Nat \ {0} /\ v \in 0 .. p - 1
  BY <1>2, <1>3, <1>4
<1>6. Signed(v, w) = IF v < h THEN v ELSE v - p
  BY <1>1, <1>4 DEF Signed
<1>7. PICK s : s = Signed(v, w)
  OBVIOUS
<1>8. s \in Int /\ -h <= s /\ s < h /\ (s = v \/ s = v - p)
  BY <1>5, <1>6, <1>7
<1>9. s % p = v
  <2>1. CASE s = v
    BY <1>5, <2>1, DivisionIs
  <2>2. CASE s = v - p
    <3>1. s = p * (-1) + v /\ -1 \in Int
      BY <1>5, <2>2
    <3> QED
      BY <1>5, <1>8, <3>1, DivisionOnly
  <2> QED
    BY <1>8, <2>1, <2>2
<1> QED
  BY <1>1, <1>4, <1>5, <1>7, <1>8, <1>9

(* Such a value is the signed reading of its pattern. *)
LEMMA SignedOnly ==
  ASSUME NEW w \in Nat \ {0}, NEW s \in Int, - 2^(w - 1) <= s, s < 2^(w - 1)
  PROVE  s % 2^w \in 0 .. 2^w - 1 /\ Signed(s % 2^w, w) = s
<1>1. PICK u : u = w - 1
  OBVIOUS
<1>2. u \in Nat /\ u + 1 = w
  BY <1>1
<1>3. 2^u \in Nat \ {0} /\ 2^(u + 1) = 2 * 2^u
  BY <1>2, PowersDouble
<1>4. PICK h, p : h = 2^u /\ p = 2^w
  OBVIOUS
<1>5. h \in Nat \ {0} /\ p = 2 * h /\ p \in Nat \ {0} /\ -h <= s /\ s < h
  BY <1>1, <1>2, <1>3, <1>4
<1>6. \A v : Signed(v, w) = IF v < h THEN v ELSE v - p
  BY <1>1, <1>4 DEF Signed
<1>7. s % p = IF 0 <= s THEN s ELSE s + p
  <2>1. CASE 0 <= s
    <3>1. s \in 0 .. p - 1
      BY <1>5, <2>1
    <3> QED
      BY <1>5, <2>1, <3>1, DivisionIs
  <2>2. CASE ~(0 <= s)
    <3>1. PICK v : v = s + p
      OBVIOUS
    <3>2. v \in 0 .. p - 1 /\ s = p * (-1) + v /\ -1 \in Int
      BY <1>5, <2>2, <3>1
    <3>3. v = s % p
      BY <1>5, <3>2, DivisionOnly
    <3> QED
      BY <2>2, <3>1, <3>3
  <2> QED
    BY <2>1, <2>2
<1>8. s % p \in 0 .. p - 1 /\ Signed(s % p, w) = s
  <2>1. PICK v : v = s % p
    OBVIOUS
  <2>2. v \in 0 .. p - 1 /\ (IF v < h THEN v ELSE v - p) = s
    BY <1>5, <1>7, <2>1
  <2> QED
    BY <1>6, <2>1, <2>2
<1> QED
  BY <1>4, <1>8
-----------------------------------------------------------------------------
(* What constants hold. *)
ConstantFits(c, t) ==
  \/ c.type \in {"I64", "U64"} /\ c.value \in Patterns
  \/ t \in FloatTypes /\ c.type \in FloatTypes /\ c.value \in Int

(* The type of the instruction that holds a constant. *)
ResultFits(t, c, r) == IF t \in FloatTypes THEN r = c.type ELSE r \in {t, "I64"}

(* The instruction that holds a folded constant. *)
FoldedFits(f, t) ==
  ConstantFits(f.constant, t) /\ ResultFits(t, f.constant, f.resultType)

(* A float that may have been misread for zero. *)
Misread(t, c) == t \in FloatTypes /\ c.value = 0

(* The value of a constant is an integer, and a pattern unless it is of    *)
(* floats.                                                                 *)
LEMMA ConstantValue ==
  ASSUME NEW t, NEW c, ConstantFits(c, t)
  PROVE  c.value \in Int /\ (t \notin FloatTypes => c.value \in Patterns)
<1>1. \A v \in Patterns : v \in Int
  <2>1. Patterns \subseteq Nat
    BY PatternsAre
  <2> QED
    BY <2>1
<1> QED
  BY <1>1 DEF ConstantFits

(* It does not matter that a constant has a type of its own. *)
LEMMA ResultInType ==
  ASSUME NEW t \in DataTypes, NEW c, ConstantFits(c, t), NEW r, ResultFits(t, c, r)
  PROVE  InType(InType(c.value, r), t) = InType(c.value, t)
<1>1. PICK v : v = c.value
  OBVIOUS
<1>2. v \in Int
  BY <1>1, ConstantValue
<1>3. CASE t \in FloatTypes
  <2>1. \A u : InType(u, t) = u
    BY <1>3 DEF InType
  <2>2. r = c.type
    BY <1>3 DEF ResultFits
  <2>3. CASE r \in FloatTypes
    BY <2>3 DEF InType
  <2>4. CASE r \notin FloatTypes
    <3>1. r \in {"I64", "U64"} /\ v \in Patterns
      BY <1>1, <2>2, <2>4 DEF ConstantFits
    <3>2. InType(v, r) = Pattern(v, WIDTH)
      BY <2>4, <3>1 DEF InType, Bits, NarrowTypes
    <3>3. "I64" \in IntTypes
      BY DEF IntTypes
    <3>4. Pattern(v, WIDTH) = v
      BY <1>2, <3>1, <3>3, PatternInType
    <3> QED
      BY <1>1, <2>1, <3>2, <3>4
  <2> QED
    BY <2>3, <2>4
<1>4. CASE t \notin FloatTypes
  <2>1. t \in IntTypes
    BY <1>4 DEF DataTypes
  <2>2. InType(InType(v, "I64"), t) = InType(v, t)
    BY <1>2, <2>1, WideInType
  <2>3. InType(InType(v, t), t) = InType(v, t)
    <3>1. PICK u : u = InType(v, t)
      OBVIOUS
    <3>2. Fits(u, t)
      BY <1>2, <3>1, InTypeFits
    <3>3. u \in Int
      BY <3>2 DEF Fits
    <3>4. InType(u, t) = u
      BY <3>2, <3>3, InTypeFits
    <3> QED
      BY <3>1, <3>4
  <2>4. r \in {t, "I64"}
    BY <1>4 DEF ResultFits
  <2> QED
    BY <1>1, <2>2, <2>3, <2>4
<1> QED
  BY <1>3, <1>4

(* What operations compute, one by one. *)
LEMMA ComputesIs ==
  ASSUME NEW t \in DataTypes, NEW a, NEW b
  PROVE  /\ Computes("mul", t, a, b) = InType(a * b, t)
         /\ Computes("add", t, a, b) = InType(a + b, t)
         /\ Computes("or", t, a, b) = InType(BitOr(a, b), t)
         /\ Computes("ashr", t, a, b) = InType(Signed(a, Bits(t)) \div 2^b, t)
BY DEF Computes

(* A constant of 64 bits. *)
LEMMA WideConstant ==
  ASSUME NEW v \in Int, NEW k \in {"I64", "U64"}, NEW t \in IntTypes
  PROVE  /\ ConstantFits(Constant(v, k), t) /\ Constant(v, k).type = k
         /\ Constant(v, k).value = Pattern(v, WIDTH)
         /\ InType(Constant(v, k).value, t) = InType(v, t)
<1>1. k \notin FloatTypes /\ t \notin FloatTypes
  BY TypeBits DEF FloatTypes
<1>2. Constant(v, k).value = Pattern(v, WIDTH) /\ Constant(v, k).type = k
  BY <1>1 DEF Constant
<1> QED
  BY <1>1, <1>2, PatternInType DEF ConstantFits

(* Folded products that are not zero, ... *)
LEMMA FoldMulComputes ==
  ASSUME NEW t \in DataTypes, NEW c0, ConstantFits(c0, t), NEW c1, ConstantFits(c1, t),
         NEW f, f = FoldMul(t, c0, c1)
  PROVE  /\ FoldedFits(f, t)
         /\ \/ Misread(t, f.constant)
            \/ /\ ~Misread(t, c0) /\ ~Misread(t, c1)
               /\ InType(f.constant.value, t) =
                    Computes("mul", t, InType(c0.value, t), InType(c1.value, t))
<1>1. PICK a, b, p : a = c0.value /\ b = c1.value /\ p = a * b
  OBVIOUS
<1>2. a \in Int /\ b \in Int /\ p \in Int
  <2>1. a \in Int /\ b \in Int
    BY <1>1, ConstantValue
  <2> QED
    BY <1>1, <2>1
<1>3. CASE t \in FloatTypes
  <2>1. PICK g0, g1, q : g0 = GetAsFloat(t, c0) /\ g1 = GetAsFloat(t, c1) /\ q = g0 * g1
    OBVIOUS
  <2>2. g0 \in {a, 0} /\ g1 \in {b, 0}
    BY <1>1, <2>1 DEF GetAsFloat
  <2>3. q \in Int /\ (q = 0 \/ (a # 0 /\ b # 0 /\ q = p))
    BY <1>1, <1>2, <2>1, <2>2
  <2>4. f = [constant |-> Constant(q, t), resultType |-> t]
    BY <1>3, <2>1 DEF FoldMul, Folded
  <2>5. Constant(q, t) = [value |-> q, type |-> t]
    BY <1>3 DEF Constant
  <2>6. f.constant.value = q /\ f.constant.type = t /\ f.resultType = t
    BY <2>4, <2>5
  <2>7. FoldedFits(f, t)
    BY <1>3, <2>3, <2>6 DEF FoldedFits, ConstantFits, ResultFits
  <2>8. \A v : InType(v, t) = v
    BY <1>3 DEF InType
  <2>9. Computes("mul", t, a, b) = p
    BY <1>1, <2>8, ComputesIs
  <2> QED
    BY <1>1, <1>3, <2>3, <2>6, <2>7, <2>8, <2>9 DEF Misread
<1>4. CASE t \notin FloatTypes
  <2>1. t \in IntTypes
    BY <1>4 DEF DataTypes
  <2>2. f = [constant |-> Constant(p, "I64"), resultType |-> "I64"]
    BY <1>1, <1>4 DEF FoldMul, Folded
  <2>3. /\ ConstantFits(Constant(p, "I64"), t)
        /\ InType(Constant(p, "I64").value, t) = InType(p, t)
    BY <1>2, <2>1, WideConstant
  <2>4. InType(InType(a, t) * InType(b, t), t) = InType(p, t)
    <3>1. PICK m : m = 2^Bits(t)
      OBVIOUS
    <3>2. m \in Nat \ {0} /\ \A v : InType(v, t) = v % m
      BY <1>4, <2>1, <3>1, TypeBits DEF InType, Pattern
    <3>3. p % m = ((a % m) * (b % m)) % m
      BY <1>1, <1>2, <3>2, RestOfProduct
    <3> QED
      BY <3>2, <3>3
  <2> QED
    BY <1>1, <1>4, <2>2, <2>3, <2>4, ComputesIs DEF FoldedFits, ResultFits, Misread
<1> QED
  BY <1>3, <1>4

(* ... folded disjunctions ... *)
LEMMA FoldOrComputes ==
  ASSUME NEW t \in IntTypes, NEW c0, ConstantFits(c0, t), NEW c1, ConstantFits(c1, t),
         NEW f, f = FoldOr(t, c0, c1)
  PROVE  /\ FoldedFits(f, t)
         /\ InType(f.constant.value, t) =
              Computes("or", t, InType(c0.value, t), InType(c1.value, t))
<1>1. PICK a, b, p : a = c0.value /\ b = c1.value /\ p = BitOr(a, b)
  OBVIOUS
<1>2. t \notin FloatTypes /\ t \in DataTypes
  BY TypeBits DEF DataTypes
<1>3. a \in Patterns /\ b \in Patterns /\ p \in Patterns /\ p \in Int
  <2>1. a \in Patterns /\ b \in Patterns
    BY <1>1, <1>2 DEF ConstantFits
  <2> QED
    BY <1>1, <2>1, BitOrIs, PatternsAre
<1>4. f = [constant |-> Constant(p, "U64"), resultType |-> t]
  BY <1>1 DEF FoldOr, Folded
<1>5. /\ ConstantFits(Constant(p, "U64"), t)
      /\ InType(Constant(p, "U64").value, t) = InType(p, t)
  BY <1>3, WideConstant
<1>6. BitOr(InType(a, t), InType(b, t)) = InType(p, t)
  <2>1. Bits(t) \in 0 .. WIDTH
    BY TypeBits
  <2>2. \A v : InType(v, t) = v % 2^Bits(t)
    BY <1>2 DEF InType, Pattern
  <2>3. BitOr(a % 2^Bits(t), b % 2^Bits(t)) = BitOr(a, b) % 2^Bits(t)
    BY <1>3, <2>1, BitOrCut
  <2> QED
    BY <1>1, <2>2, <2>3
<1>7. Computes("or", t, InType(a, t), InType(b, t)) = InType(p, t)
  <2>1. InType(InType(p, t), t) = InType(p, t)
    <3>1. PICK q : q = InType(p, t)
      OBVIOUS
    <3>2. Fits(q, t)
      BY <1>2, <1>3, <3>1, InTypeFits
    <3>3. InType(q, t) = q
      <4>1. q \in Int
        BY <3>2 DEF Fits
      <4> QED
        BY <1>2, <3>2, <4>1, InTypeFits
    <3> QED
      BY <3>1, <3>3
  <2> QED
    BY <1>2, <1>6, <2>1, ComputesIs
<1> QED
  BY <1>1, <1>2, <1>4, <1>5, <1>7 DEF FoldedFits, ResultFits

(* ... and folded shifts by less than the width are what the operations    *)
(* compute.                                                                *)
LEMMA FoldAshrComputes ==
  ASSUME NEW t \in IntTypes, NEW c0, ConstantFits(c0, t), NEW c1, ConstantFits(c1, t),
         InType(c1.value, t) < Bits(t), NEW f \in FoldAshr(t, c0, c1)
  PROVE  /\ FoldedFits(f, t)
         /\ InType(f.constant.value, t) =
              Computes("ashr", t, InType(c0.value, t), InType(c1.value, t))
<1>1. PICK a, b, x, d : a = c0.value /\ b = c1.value /\ x = InType(a, t) /\ d = InType(b, t)
  OBVIOUS
<1>2. t \notin FloatTypes /\ t \in DataTypes /\ Bits(t) \in Nat \ {0}
  BY TypeBits DEF DataTypes
<1>3. a \in Patterns /\ b \in Patterns /\ a \in Int /\ b \in Int
  BY <1>1, <1>2, ConstantValue
<1>4. x \in 0 .. 2^Bits(t) - 1 /\ d \in 0 .. 2^Bits(t) - 1
  BY <1>1, <1>2, <1>3, InTypeFits DEF Fits
<1>5. PICK v : v = Signed(x, Bits(t)) \div 2^d
  OBVIOUS
<1>6. v \in Int
  <2>1. d \in Nat
    <3>1. 2^Bits(t) \in Nat
      BY TypeBits
    <3> QED
      BY <1>4, <3>1
  <2>2. Signed(x, Bits(t)) \in Int /\ 2^d \in Nat \ {0}
    BY <1>2, <1>4, <2>1, SignedRange, PowersDouble
  <2> QED
    BY <1>5, <2>2, DivisionIs
<1>7. f = [constant |-> Constant(v, "I64"), resultType |-> t]
  <2>1. CASE t \in NarrowTypes
    <3>1. \A u : InType(u, t) = Pattern(u, HALF_WIDTH) /\ Bits(t) = HALF_WIDTH
      BY <1>2, <2>1 DEF InType, Bits
    <3>2. Pattern(b, HALF_WIDTH) < Bits(t)
      BY <1>1, <3>1
    <3>3. f = Folded(Constant(ShiftRight(Signed(Pattern(a, HALF_WIDTH), HALF_WIDTH),
                                         Pattern(b, HALF_WIDTH)), "I64"), t)
      BY <1>1, <2>1, <3>2 DEF FoldAshr
    <3> QED
      BY <1>1, <1>5, <3>1, <3>3 DEF Folded, ShiftRight
  <2>2. CASE t \notin NarrowTypes
    <3>1. Bits(t) = WIDTH
      BY <2>2 DEF Bits
    <3>2. x = a /\ d = b
      <4>1. InType(a, t) = Pattern(a, WIDTH) /\ InType(b, t) = Pattern(b, WIDTH)
        BY <1>2, <3>1 DEF InType
      <4> QED
        BY <1>1, <1>3, <4>1, PatternInType
    <3>3. f = Folded(Constant(ShiftRight(Signed(a, WIDTH), b), "I64"), t)
      BY <1>1, <2>2, <3>2 DEF FoldAshr, GetAsI64
    <3> QED
      BY <1>5, <3>1, <3>2, <3>3 DEF Folded, ShiftRight
  <2> QED
    BY <2>1, <2>2
<1>8. /\ ConstantFits(Constant(v, "I64"), t)
      /\ InType(Constant(v, "I64").value, t) = InType(v, t)
  BY <1>6, WideConstant
<1>9. Computes("ashr", t, x, d) = InType(v, t)
  BY <1>2, <1>5, ComputesIs
<1> QED
  BY <1>1, <1>2, <1>7, <1>8, <1>9 DEF FoldedFits, ResultFits
-----------------------------------------------------------------------------
(* One is neutral to products, zero to shifts and disjunctions, and the    *)
(* operands of products and disjunctions commute.                          *)
LEMMA Neutral ==
  ASSUME NEW t \in DataTypes, NEW a, Fits(a, t), NEW b, Fits(b, t)
  PROVE  /\ Fits(1, t) /\ Computes("mul", t, a, 1) = a
         /\ Computes("mul", t, a, b) = Computes("mul", t, b, a)
         /\ t \in FloatTypes => Computes("mul", t, a, 2) = Computes("add", t, a, a)
         /\ t \in IntTypes =>
              /\ Computes("or", t, a, b) = Computes("or", t, b, a)
              /\ Computes("or", t, a, 0) = a /\ Computes("or", t, a, a) = a
              /\ Computes("ashr", t, a, 0) = a
<1>1. a \in Int /\ b \in Int /\ InType(a, t) = a
  <2>1. a \in Int /\ b \in Int
    BY DEF Fits
  <2> QED
    BY <2>1, InTypeFits
<1>2. Fits(1, t)
  <2>1. t \in IntTypes => 2 <= 2^Bits(t) /\ 2^Bits(t) \in Nat
    BY TypeBits
  <2> QED
    BY <2>1 DEF Fits
<1>3. a * 1 = a /\ a * b = b * a /\ a * 2 = a + a
  BY <1>1
<1>4. ASSUME t \in IntTypes
      PROVE  /\ Computes("or", t, a, b) = Computes("or", t, b, a)
             /\ Computes("or", t, a, 0) = a /\ Computes("or", t, a, a) = a
             /\ Computes("ashr", t, a, 0) = a
  <2>1. a \in Patterns /\ b \in Patterns
    BY <1>4, ZeroFits
  <2>2. BitOr(a, b) = BitOr(b, a) /\ BitOr(a, a) = a /\ BitOr(a, 0) = a
    BY <2>1, BitOrLaws
  <2>3. InType(Signed(a, Bits(t)) \div 2^0, t) = a
    <3>1. PICK w, s : w = Bits(t) /\ s = Signed(a, w)
      OBVIOUS
    <3>2. w \in Nat \ {0} /\ a \in 0 .. 2^w - 1
      BY <1>4, <3>1, TypeBits DEF Fits
    <3>3. s \in Int /\ s % 2^w = a
      BY <3>1, <3>2, SignedRange
    <3>4. 2^0 = 1 /\ s \div 1 = s
      BY <3>3, PowersDouble
    <3>5. InType(s, t) = s % 2^w
      BY <1>4, <3>1, <3>3, InTypeFits
    <3> QED
      BY <3>1, <3>3, <3>4, <3>5
  <2>4. InType(BitOr(a, b), t) = InType(BitOr(b, a), t)
    BY <2>2
  <2>5. /\ Computes("or", t, a, b) = InType(BitOr(a, b), t)
        /\ Computes("or", t, b, a) = InType(BitOr(b, a), t)
        /\ Computes("or", t, a, 0) = InType(BitOr(a, 0), t)
        /\ Computes("or", t, a, a) = InType(BitOr(a, a), t)
        /\ Computes("ashr", t, a, 0) = InType(Signed(a, Bits(t)) \div 2^0, t)
    BY DEF Computes
  <2>6. /\ Computes("or", t, a, b) = Computes("or", t, b, a)
        /\ Computes("or", t, a, 0) = a /\ Computes("or", t, a, a) = a
    BY <1>1, <2>2, <2>5
  <2> QED
    BY <2>3, <2>5, <2>6
<1> QED
  BY <1>1, <1>2, <1>3, <1>4, ComputesIs

(* A shift of a shift shifts by both distances. *)
LEMMA ShiftsJoin ==
  ASSUME NEW t \in IntTypes, NEW a, Fits(a, t), NEW d \in Nat, NEW e \in Nat
  PROVE  Computes("ashr", t, Computes("ashr", t, a, d), e) = Computes("ashr", t, a, d + e)
<1>1. PICK w, s, z : w = Bits(t) /\ s = Signed(a, w) /\ z = s \div 2^d
  OBVIOUS
<1>2. w \in Nat \ {0} /\ a \in 0 .. 2^w - 1 /\ t \in DataTypes
  BY <1>1, TypeBits DEF Fits, DataTypes
<1>3. PICK h : h = 2^(w - 1)
  OBVIOUS
<1>4. s \in Int /\ h \in Nat \ {0} /\ -h <= s /\ s < h
  BY <1>1, <1>2, <1>3, SignedRange
<1>5. 2^d \in Nat \ {0} /\ 2^e \in Nat \ {0} /\ d + e \in Nat /\ 2^(d + e) = 2^d * 2^e
  BY PowersDouble, PowersAdd
<1>6. z \in Int /\ -h <= z /\ z < h
  <2>1. PICK m, r : m = 2^d /\ r = s % m
    OBVIOUS
  <2>2. z \in Int /\ r \in 0 .. m - 1 /\ s = m * z + r /\ m \in Nat \ {0}
    BY <1>1, <1>4, <1>5, <2>1, DivisionIs
  <2>3. -h <= z
    <3> SUFFICES ASSUME z + 1 <= -h PROVE FALSE
      BY <1>4, <2>2
    <3>1. m * z + m <= m * (-h)
      <4>1. \A x, y \in Int : x + 1 <= y => m * x + m <= m * y
        BY <2>2
      <4> QED
        BY <1>4, <2>2, <4>1
    <3>2. m * (-h) <= -h
      BY <1>4, <2>2
    <3> QED
      BY <1>4, <2>2, <3>1, <3>2
  <2>4. z < h
    <3> SUFFICES ASSUME h <= z PROVE FALSE
      BY <1>4, <2>2
    <3>1. h <= m * z
      BY <1>4, <2>2
    <3> QED
      BY <1>4, <2>2, <3>1
  <2> QED
    BY <2>2, <2>3, <2>4
<1>7. PICK b : b = Computes("ashr", t, a, d)
  OBVIOUS
<1>8. b = z % 2^w
  BY <1>1, <1>2, <1>6, <1>7, ComputesIs, InTypeFits
<1>9. Signed(b, w) = z
  BY <1>2, <1>3, <1>6, <1>8, SignedOnly
<1>10. z \div 2^e = s \div 2^(d + e)
  <2>1. DividesTwice(s, 2^d, 2^e, 2^(d + e))
    BY <1>4, <1>5, DivisionTwice
  <2> QED
    BY <1>1, <2>1 DEF DividesTwice
<1> QED
  BY <1>1, <1>2, <1>7, <1>9, <1>10, ComputesIs

(* Constants equal to one, and to two or zero. *)
LEMMA ConstantIsOne ==
  ASSUME NEW t \in DataTypes, NEW c, ConstantFits(c, t)
  PROVE  /\ c.value \in Int /\ Fits(InType(c.value, t), t)
         /\ IsEqualTo(c, 1) => InType(c.value, t) = 1 /\ ~Misread(t, c)
         /\ IsEqualTo(c, 2) /\ t \in FloatTypes =>
              InType(c.value, t) = 2 /\ ~Misread(t, c)
         /\ c.value = 0 => InType(c.value, t) = 0
<1>1. PICK v : v = c.value
  OBVIOUS
<1>2. v \in Int
  BY <1>1, ConstantValue
<1>3. \A u \in Int : Fits(u, t) => InType(u, t) = u
  BY InTypeFits
<1>4. Fits(1, t) /\ Fits(0, t)
  BY ZeroFits, Neutral
<1>5. t \in FloatTypes => \A u : InType(u, t) = u
  BY DEF InType
<1>6. CASE c.type \in FloatTypes
  <2>1. t \in FloatTypes
    BY <1>6 DEF ConstantFits, FloatTypes
  <2> QED
    BY <1>1, <1>2, <1>5, <1>6, <2>1, InTypeFits DEF IsEqualTo, Misread
<1>7. CASE c.type \notin FloatTypes
  <2>1. v \in Patterns
    BY <1>1, <1>7 DEF ConstantFits
  <2>2. ASSUME NEW n \in Nat, IsEqualTo(c, n) PROVE v = n
    <3>1. Signed(v, WIDTH) = n
      BY <1>1, <1>7, <2>2 DEF IsEqualTo, GetAsI64
    <3>2. v = n \/ v - 2^WIDTH = n
      BY <3>1 DEF Signed
    <3>3. 2^WIDTH \in Nat /\ v < 2^WIDTH
      BY <1>2, <2>1, PatternsAre
    <3> QED
      BY <1>2, <3>2, <3>3
  <2>3. (IsEqualTo(c, 1) => v = 1) /\ (IsEqualTo(c, 2) => v = 2)
    BY <2>2
  <2> QED
    BY <1>1, <1>2, <1>3, <1>4, <1>5, <2>3, InTypeFits DEF Misread
<1> QED
  BY <1>6, <1>7

(* The joined distance. *)
LEMMA SumInType ==
  ASSUME NEW t \in IntTypes, NEW c, ConstantFits(c, t), NEW d, ConstantFits(d, t),
         InType(c.value, t) + InType(d.value, t) < 2^Bits(t)
  PROVE  InType(Constant(GetAsI64(c) + GetAsI64(d), "I64").value, t) =
           InType(c.value, t) + InType(d.value, t)
<1>1. t \notin FloatTypes /\ t \in DataTypes
  BY TypeBits DEF DataTypes
<1>2. PICK a, b, p, m : a = c.value /\ b = d.value /\ p = 2^WIDTH /\ m = 2^Bits(t)
  OBVIOUS
<1>3. a \in Patterns /\ b \in Patterns /\ a \in Int /\ b \in Int
  BY <1>1, <1>2, ConstantValue
<1>4. /\ WIDTH \in Nat /\ Bits(t) \in 0 .. WIDTH
      /\ p \in Nat \ {0} /\ m \in Nat \ {0}
  BY <1>2, PatternsAre, TypeBits
<1>5. PICK n : n \in Nat \ {0} /\ p = m * n
  <2>1. 2^(WIDTH - Bits(t)) \in Nat \ {0} /\ 2^WIDTH = 2^Bits(t) * 2^(WIDTH - Bits(t))
    BY <1>4, PowersDivide
  <2> QED
    BY <1>2, <2>1
<1>6. PICK x, y : x = GetAsI64(c) /\ y = GetAsI64(d)
  OBVIOUS
<1>7. (x = a \/ x = a - p) /\ (y = b \/ y = b - p)
  BY <1>2, <1>6 DEF GetAsI64, Signed
<1>8. PICK s : s = (a % m) + (b % m)
  OBVIOUS
<1>9. a % m \in 0 .. m - 1 /\ b % m \in 0 .. m - 1 /\ s \in 0 .. m - 1
  <2>1. a % m \in 0 .. m - 1 /\ b % m \in 0 .. m - 1
    BY <1>3, <1>4, DivisionIs
  <2>2. InType(a, t) = a % m /\ InType(b, t) = b % m
    BY <1>1, <1>2, <1>3, InTypeFits
  <2> QED
    BY <1>2, <1>4, <1>8, <2>1, <2>2
<1>10. (x + y) % m = s
  <2>1. PICK q, r : q = a \div m /\ r = b \div m
    OBVIOUS
  <2>2. q \in Int /\ r \in Int /\ a = m * q + (a % m) /\ b = m * r + (b % m)
    BY <1>3, <1>4, <2>1, DivisionIs
  <2>3. PICK k \in {0, 1, 2} : x + y = a + b - k * p
    <3>1. x + y \in {a + b, a + b - p, a + b - 2 * p}
      BY <1>3, <1>4, <1>7
    <3> QED
      BY <1>3, <1>4, <3>1
  <2>4. k * p = m * (k * n) /\ k * n \in Int
    BY <1>4, <1>5
  <2>5. PICK u : u = q + r - k * n
    OBVIOUS
  <2>6. x + y = m * u + s /\ u \in Int
    <3>1. PICK l : l = k * n
      OBVIOUS
    <3>2. l \in Int /\ u = q + r - l /\ m \in Int
      BY <1>4, <2>4, <2>5, <3>1
    <3>3. m * u = m * q + m * r - m * l
      BY <2>2, <3>2
    <3>4. PICK mq, mr, ml, mu : mq = m * q /\ mr = m * r /\ ml = m * l /\ mu = m * u
      OBVIOUS
    <3>5. mq \in Int /\ mr \in Int /\ ml \in Int
      BY <2>2, <3>2, <3>4
    <3>6. PICK ra, rb : ra = a % m /\ rb = b % m
      OBVIOUS
    <3>7. ra \in Int /\ rb \in Int /\ s = ra + rb
      BY <1>4, <1>8, <1>9, <3>6
    <3>8. a = mq + ra /\ b = mr + rb /\ x + y = a + b - ml /\ mu = mq + mr - ml
      BY <2>2, <2>3, <2>4, <3>1, <3>3, <3>4, <3>6
    <3>9. x + y = mu + s
      BY <3>5, <3>7, <3>8
    <3> QED
      BY <2>2, <3>2, <3>4, <3>9
  <2>7. x + y \in Int
    BY <1>3, <1>4, <1>7
  <2> QED
    BY <1>4, <1>9, <2>6, <2>7, DivisionOnly
<1>11. x + y \in Int
  BY <1>3, <1>4, <1>7
<1>12. InType(Constant(x + y, "I64").value, t) = (x + y) % m
  <2>1. InType(Constant(x + y, "I64").value, t) = InType(x + y, t)
    BY <1>11, WideConstant
  <2> QED
    BY <1>1, <1>2, <1>11, <2>1, InTypeFits
<1>13. InType(a, t) = a % m /\ InType(b, t) = b % m
  BY <1>1, <1>2, <1>3, InTypeFits
<1> QED
  BY <1>2, <1>6, <1>8, <1>10, <1>12, <1>13
-----------------------------------------------------------------------------
(* Values.  What computes one. *)
Arithmetic == Operations \cup {"add"}

(* An instruction x with the inputs s has the operands and the type that   *)
(* its opcode asks for.                                                    *)
InsnTyped(t, x, s) ==
  /\ x.opcode \in Opcodes
  /\ x.opcode \in Arithmetic => Len(s) = 2
  /\ x.opcode \in Operations => x.resultType = t /\ (t \in FloatTypes => x.opcode = "mul")
  /\ x.opcode = "const" =>
       ConstantFits(x.constant, t) /\ ResultFits(t, x.constant, x.resultType)

(* It has the values v, or is a call or the phi and is given those of g. *)
InsnMeans(t, x, s, v, g, mn) ==
  /\ x.opcode = "const" =>
       \A e \in Environments : InType(InType(x.constant.value, x.resultType), t) = v[e]
  /\ x.opcode \in Arithmetic =>
       \A e \in Environments : Computes(x.opcode, x.resultType, mn[s[1]][e], mn[s[2]][e]) = v[e]
  /\ x.opcode \in {"phi", "call"} => [k \in DOMAIN s |-> mn[s[k]]] = g

(* Its weight k is at least that of its operands, and what shifts add up   *)
(* on the way to it.                                                       *)
InsnWeighs(x, s, mn, w, k) ==
  x.opcode \in Arithmetic =>
    /\ w[s[1]] <= k /\ w[s[2]] <= k
    /\ x.opcode = "ashr" => \A e \in Environments : w[s[1]] + mn[s[2]][e] <= k

(* A value for each value of the phi. *)
Value == [Environments -> Int]

(* Of sums of another type and of misread floats no value is asked. *)
Excepted(t, x) ==
  \/ x.opcode = "add" /\ x.resultType # t
  \/ x.opcode = "const" /\ Misread(t, x.constant)

(* All of that, but for these. *)
InsnSound(t, x, s, v, g, mn, w, k) ==
  /\ InsnTyped(t, x, s) /\ InsnWeighs(x, s, mn, w, k)
  /\ \A e \in Environments : Fits(v[e], t)
  /\ Excepted(t, x) \/ InsnMeans(t, x, s, v, g, mn)

(* All instructions are sound, and the shifts in F are by less than the    *)
(* bits of the type.                                                       *)
Sound(A, F, t, ins, inp, mn, as, w, max) ==
  /\ inp \in Lists(A, A) /\ mn \in [A -> Value] /\ w \in [A -> Nat]
  /\ \A i \in A : InsnSound(t, ins[i], inp[i], mn[i], as[i], mn, w, w[i]) /\ w[i] <= max
  /\ F \subseteq A
  /\ \A i \in F : ins[i].opcode = "ashr" =>
       \A e \in Environments : mn[inp[i][2]][e] < Bits(t)

(* Of fewer shifts less is asked. *)
LEMMA FewerShifts ==
  ASSUME NEW A, NEW F, NEW t, NEW ins, NEW inp, NEW mn, NEW as, NEW w, NEW max,
         Sound(A, F, t, ins, inp, mn, as, w, max), NEW G, G \subseteq F
  PROVE  Sound(A, G, t, ins, inp, mn, as, w, max)
BY DEF Sound

(* The operands of an instruction. *)
LEMMA OperandsThere ==
  ASSUME NEW A, NEW F, NEW t, NEW ins, NEW inp, NEW mn, NEW as, NEW w, NEW max,
         Sound(A, F, t, ins, inp, mn, as, w, max), NEW i \in A, ins[i].opcode \in Arithmetic
  PROVE  /\ inp[i] \in Seq(A) /\ Len(inp[i]) = 2 /\ inp[i][1] \in A /\ inp[i][2] \in A
<1>1. inp[i] \in Seq(A) /\ Len(inp[i]) = 2
  BY DEF Sound, InsnSound, InsnTyped, Lists
<1> QED
  BY <1>1

(* The values there are. *)
LEMMA ValueThere ==
  ASSUME NEW A, NEW F, NEW t, NEW ins, NEW inp, NEW mn, NEW as, NEW w, NEW max,
         Sound(A, F, t, ins, inp, mn, as, w, max), NEW i \in A
  PROVE  /\ mn[i] \in Value /\ w[i] \in Nat /\ w[i] <= max
         /\ \A e \in Environments : mn[i][e] \in Int /\ Fits(mn[i][e], t)
<1>1. mn[i] \in Value /\ w[i] \in Nat /\ w[i] <= max
  BY DEF Sound
<1>2. \A e \in Environments : mn[i][e] \in Int
  BY <1>1 DEF Value
<1>3. \A e \in Environments : Fits(mn[i][e], t)
  BY DEF Sound, InsnSound
<1> QED
  BY <1>1, <1>2, <1>3

(* An operation c takes other inputs that give the same value. *)
LEMMA OtherInputs ==
  ASSUME NEW A, NEW F, NEW t, NEW ins, NEW inp, NEW mn, NEW as, NEW w, NEW max,
         Sound(A, F, t, ins, inp, mn, as, w, max), NEW c \in A, NEW s \in Seq(A), Len(s) = 2,
         ins[c].opcode \in Operations, InsnWeighs(ins[c], s, mn, w, w[c]),
         \A e \in Environments :
           Computes(ins[c].opcode, t, mn[s[1]][e], mn[s[2]][e]) = mn[c][e]
  PROVE  Sound(A, F \ {c}, t, ins, [inp EXCEPT ![c] = s], mn, as, w, max)
<1> DEFINE inp2 == [inp EXCEPT ![c] = s]
<1>1. inp2 \in Lists(A, A) /\ inp2[c] = s /\ \A i \in A : i # c => inp2[i] = inp[i]
  BY DEF Sound, Lists
<1> HIDE DEF inp2
<1>2. InsnSound(t, ins[c], s, mn[c], as[c], mn, w, w[c])
  <2>1. InsnSound(t, ins[c], inp[c], mn[c], as[c], mn, w, w[c])
    BY DEF Sound
  <2>2. InsnTyped(t, ins[c], s) /\ ins[c].resultType = t
    BY <2>1 DEF InsnSound, InsnTyped
  <2>3. ins[c].opcode \notin {"const", "phi", "call"}
    BY DEF Operations
  <2>4. InsnMeans(t, ins[c], s, mn[c], as[c], mn)
    BY <2>2, <2>3 DEF InsnMeans
  <2> QED
    BY <2>1, <2>2, <2>4 DEF InsnSound
<1>3. \A i \in A : InsnSound(t, ins[i], inp2[i], mn[i], as[i], mn, w, w[i]) /\ w[i] <= max
  <2> SUFFICES ASSUME NEW i \in A
               PROVE  InsnSound(t, ins[i], inp2[i], mn[i], as[i], mn, w, w[i]) /\ w[i] <= max
    OBVIOUS
  <2>1. InsnSound(t, ins[i], inp[i], mn[i], as[i], mn, w, w[i]) /\ w[i] <= max
    BY DEF Sound
  <2> QED
    BY <1>1, <1>2, <2>1
<1>4. \A i \in F \ {c} : ins[i].opcode = "ashr" =>
        \A e \in Environments : mn[inp2[i][2]][e] < Bits(t)
  BY <1>1 DEF Sound
<1>5. Sound(A, F \ {c}, t, ins, inp2, mn, as, w, max)
  BY <1>1, <1>3, <1>4 DEF Sound
<1> QED
  BY <1>5 DEF inp2

(* Then everything stays sound. *)
LEMMA ExchangedSound ==
  ASSUME NEW A, NEW F, NEW t, NEW ins, NEW inp, NEW mn, NEW as, NEW w, NEW max,
         Sound(A, F, t, ins, inp, mn, as, w, max), NEW inp2 \in Lists(A, A),
         Exchanged(A, mn, w, inp, inp2)
  PROVE  Sound(A, F, t, ins, inp2, mn, as, w, max)
<1>1. ASSUME NEW i \in A
      PROVE  /\ inp[i] \in Seq(A) /\ inp2[i] \in Seq(A) /\ Len(inp2[i]) = Len(inp[i])
             /\ DOMAIN inp[i] = 1 .. Len(inp[i]) /\ DOMAIN inp2[i] = 1 .. Len(inp[i])
             /\ \A k \in 1 .. Len(inp[i]) :
                  /\ inp[i][k] \in A /\ inp2[i][k] \in A
                  /\ mn[inp2[i][k]] = mn[inp[i][k]]
                  /\ w[inp2[i][k]] \in Nat /\ w[inp[i][k]] \in Nat
                  /\ w[inp2[i][k]] <= w[inp[i][k]]
  <2>1. inp[i] \in Seq(A) /\ inp2[i] \in Seq(A) /\ Len(inp2[i]) = Len(inp[i])
    BY DEF Sound, Lists, Exchanged
  <2>2. \A k \in 1 .. Len(inp[i]) :
          mn[inp2[i][k]] = mn[inp[i][k]] /\ w[inp2[i][k]] <= w[inp[i][k]]
    BY DEF Exchanged
  <2>3. \A k \in 1 .. Len(inp[i]) : inp[i][k] \in A /\ inp2[i][k] \in A
    BY <2>1
  <2>4. \A j \in A : w[j] \in Nat
    BY DEF Sound
  <2> QED
    BY <2>1, <2>2, <2>3, <2>4
<1>2. ASSUME NEW i \in A, ins[i].opcode \in Arithmetic
      PROVE  /\ mn[inp2[i][1]] = mn[inp[i][1]] /\ mn[inp2[i][2]] = mn[inp[i][2]]
             /\ w[inp2[i][1]] \in Nat /\ w[inp[i][1]] \in Nat
             /\ w[inp2[i][2]] \in Nat /\ w[inp[i][2]] \in Nat
             /\ w[inp2[i][1]] <= w[inp[i][1]] /\ w[inp2[i][2]] <= w[inp[i][2]]
             /\ \A e \in Environments : mn[inp[i][2]][e] \in Int
  <2>1. Len(inp[i]) = 2
    BY <1>2 DEF Sound, InsnSound, InsnTyped
  <2>2. 1 \in 1 .. Len(inp[i]) /\ 2 \in 1 .. Len(inp[i])
    BY <2>1
  <2>3. inp[i][2] \in A
    BY <1>1, <2>2
  <2>4. \A e \in Environments : mn[inp[i][2]][e] \in Int
    BY <2>3 DEF Sound, Value
  <2> QED
    BY <1>1, <2>2, <2>4
<1>3. ASSUME NEW i \in A
      PROVE  InsnSound(t, ins[i], inp2[i], mn[i], as[i], mn, w, w[i]) /\ w[i] <= max
  <2>1. InsnSound(t, ins[i], inp[i], mn[i], as[i], mn, w, w[i]) /\ w[i] <= max
        /\ w[i] \in Nat
    BY DEF Sound
  <2>2. InsnTyped(t, ins[i], inp2[i])
    BY <1>1, <2>1 DEF InsnSound, InsnTyped
  <2>3. InsnWeighs(ins[i], inp2[i], mn, w, w[i])
    <3> SUFFICES ASSUME ins[i].opcode \in Arithmetic
                 PROVE  /\ w[inp2[i][1]] <= w[i] /\ w[inp2[i][2]] <= w[i]
                        /\ ins[i].opcode = "ashr" =>
                             \A e \in Environments : w[inp2[i][1]] + mn[inp2[i][2]][e] <= w[i]
      BY DEF InsnWeighs
    <3>1. /\ w[inp[i][1]] <= w[i] /\ w[inp[i][2]] <= w[i]
          /\ ins[i].opcode = "ashr" =>
               \A e \in Environments : w[inp[i][1]] + mn[inp[i][2]][e] <= w[i]
      BY <2>1 DEF InsnSound, InsnWeighs
    <3>2. w[inp2[i][1]] <= w[i] /\ w[inp2[i][2]] <= w[i]
      BY <1>2, <2>1, <3>1
    <3>3. ASSUME ins[i].opcode = "ashr", NEW e \in Environments
          PROVE  w[inp2[i][1]] + mn[inp2[i][2]][e] <= w[i]
      <4>1. w[inp[i][1]] + mn[inp[i][2]][e] <= w[i]
        BY <3>1, <3>3
      <4>2. mn[inp2[i][2]][e] = mn[inp[i][2]][e] /\ mn[inp[i][2]][e] \in Int
        BY <1>2
      <4> QED
        BY <1>2, <2>1, <4>1, <4>2
    <3> QED
      BY <3>2, <3>3
  <2>4. InsnMeans(t, ins[i], inp[i], mn[i], as[i], mn)
          => InsnMeans(t, ins[i], inp2[i], mn[i], as[i], mn)
    <3>1. [k \in DOMAIN inp2[i] |-> mn[inp2[i][k]]] = [k \in DOMAIN inp[i] |-> mn[inp[i][k]]]
      BY <1>1
    <3> QED
      BY <1>2, <3>1 DEF InsnMeans
  <2> QED
    BY <2>1, <2>2, <2>3, <2>4 DEF InsnSound
<1>4. ASSUME NEW i \in F, ins[i].opcode = "ashr", NEW e \in Environments
      PROVE  mn[inp2[i][2]][e] < Bits(t)
  <2>1. i \in A /\ ins[i].opcode \in Arithmetic /\ mn[inp[i][2]][e] < Bits(t)
    BY <1>4 DEF Sound, Arithmetic, Operations
  <2> QED
    BY <1>2, <2>1
<1> QED
  BY <1>3, <1>4 DEF Sound

(* A new instruction n of value v and weight k. *)
Extended(A, n, x, f, f2) == f2[n] = x /\ \A i \in A : f2[i] = f[i]

(* The weights with that of n. *)
Heavier(A, n, w, k) == [i \in A \cup {n} |-> IF i = n THEN k ELSE w[i]]

(* All are sound if the new one is. *)
LEMMA OneMoreSound ==
  ASSUME NEW A, NEW F, NEW t, NEW ins, NEW inp, NEW mn, NEW as, NEW w, NEW max \in Int,
         Sound(A, F, t, ins, inp, mn, as, w, max), NEW n, IsNext(A, n),
         NEW x, NEW s \in Seq(A), NEW v \in Value, NEW g, NEW k \in Nat,
         NEW max2 \in Int, max <= max2, k <= max2,
         InsnSound(t, x, s, v, g, mn, w, k),
         NEW ins2, Extended(A, n, x, ins, ins2), NEW as2, Extended(A, n, g, as, as2)
  PROVE  Sound(A \cup {n}, F, t, ins2, Append(inp, s), Append(mn, v), as2,
               Heavier(A, n, w, k), max2)
<1> DEFINE B == A \cup {n}
<1>8. PICK w2, inp2, mn2 : w2 = Heavier(A, n, w, k) /\ inp2 = Append(inp, s) /\ mn2 = Append(mn, v)
  OBVIOUS
<1>9. /\ ins2[n] = x /\ \A i \in A : ins2[i] = ins[i]
      /\ as2[n] = g /\ \A i \in A : as2[i] = as[i]
  BY DEF Extended
<1>0. n \notin A
  BY DEF IsNext
<1>1. inp2 \in Lists(B, B) /\ inp2[n] = s /\ \A i \in A : inp2[i] = inp[i]
  <2>1. A \subseteq B
    OBVIOUS
  <2>2. Seq(A) \subseteq Seq(B)
    BY <2>1, ListsGrow, Zenon
  <2>3. inp \in [A -> Seq(B)] /\ s \in Seq(B)
    BY <2>2 DEF Sound, Lists
  <2> HIDE DEF B
  <2>4. Longer(A, n, Seq(B), inp, s, Append(inp, s))
    BY <2>3, OneMoreOf, Zenon
  <2> QED
    BY <1>8, <2>4 DEF Lists, B, Longer
<1>2. mn2 \in [B -> Value] /\ mn2[n] = v /\ \A i \in A : mn2[i] = mn[i]
  <2>1. mn \in [A -> Value]
    BY DEF Sound
  <2>2. Longer(A, n, Value, mn, v, Append(mn, v))
    BY <2>1, OneMoreOf, Zenon
  <2> QED
    BY <1>8, <2>2 DEF Longer
<1>3. w2 \in [B -> Nat] /\ w2[n] = k /\ \A i \in A : w2[i] = w[i]
  BY <1>0, <1>8 DEF Sound, Heavier
<1>4. ASSUME NEW y, NEW r \in Seq(A), NEW z, NEW h, NEW l, InsnSound(t, y, r, z, h, mn, w, l)
      PROVE  InsnSound(t, y, r, z, h, mn2, w2, l)
  <2>1. \A j \in DOMAIN r : r[j] \in A
    OBVIOUS
  <2>2. [j \in DOMAIN r |-> mn2[r[j]]] = [j \in DOMAIN r |-> mn[r[j]]]
    BY <1>2, <2>1
  <2>3. y.opcode \in Arithmetic => r[1] \in A /\ r[2] \in A
    BY <1>4 DEF InsnSound, InsnTyped
  <2>4. InsnMeans(t, y, r, z, h, mn) => InsnMeans(t, y, r, z, h, mn2)
    BY <1>2, <2>2, <2>3 DEF InsnMeans
  <2>5. InsnWeighs(y, r, mn2, w2, l)
    BY <1>2, <1>3, <1>4, <2>3 DEF InsnWeighs, InsnSound
  <2> QED
    BY <1>4, <2>4, <2>5 DEF InsnSound
<1>5. ASSUME NEW i \in B
      PROVE  InsnSound(t, ins2[i], inp2[i], mn2[i], as2[i], mn2, w2, w2[i]) /\ w2[i] <= max2
  <2>1. CASE i = n
    <3>1. InsnSound(t, x, s, v, g, mn2, w2, k)
      BY <1>4
    <3> QED
      BY <1>1, <1>2, <1>3, <1>9, <2>1, <3>1
  <2>2. CASE i \in A
    <3>1. /\ InsnSound(t, ins[i], inp[i], mn[i], as[i], mn, w, w[i]) /\ w[i] <= max
          /\ inp[i] \in Seq(A) /\ w[i] \in Nat
      BY <2>2 DEF Sound, Lists
    <3>2. InsnSound(t, ins[i], inp[i], mn[i], as[i], mn2, w2, w[i])
      BY <1>4, <3>1
    <3>3. w[i] <= max2
      BY <3>1
    <3> QED
      BY <1>1, <1>2, <1>3, <1>9, <2>2, <3>2, <3>3
  <2> QED
    BY <2>1, <2>2
<1>6. ASSUME NEW i \in F, ins2[i].opcode = "ashr", NEW e \in Environments
      PROVE  mn2[inp2[i][2]][e] < Bits(t)
  <2>1. i \in A /\ ins[i].opcode = "ashr" /\ mn[inp[i][2]][e] < Bits(t)
    BY <1>6, <1>9 DEF Sound
  <2>2. inp[i][2] \in A
    <3>1. inp[i] \in Seq(A) /\ Len(inp[i]) = 2
      BY <2>1 DEF Sound, Lists, InsnSound, InsnTyped, Arithmetic, Operations
    <3> QED
      BY <3>1
  <2> QED
    BY <1>1, <1>2, <2>1, <2>2
<1>7. F \subseteq B
  BY DEF Sound
<1>10. Sound(B, F, t, ins2, inp2, mn2, as2, w2, max2)
  BY <1>1, <1>2, <1>3, <1>5, <1>6, <1>7 DEF Sound
<1> QED
  BY <1>8, <1>10

(* What is left of the edges when i gives way to n. *)
Rewired(A, g, h, i, n) ==
  /\ h.inputs \in Lists(A, A) /\ h.users \in Lists(A, A)
  /\ \A u \in A : \/ h.inputs[u] = g.inputs[u]
                  \/ h.inputs[u] = ReplaceAll(g.inputs[u], i, n)

(* The edges have been rewired after that. *)
LEMMA WayTyped ==
  ASSUME NEW A, NEW g, Pair(A, g), NEW i \in A, NEW n \in A,
         NEW h, h = LeaveUsers(ReplaceInputsForUsers(g, i, n), i)
  PROVE  Rewired(A, g, h, i, n)
<1> DEFINE s == Distinct(g.users[i])
           f == ReplaceInputsForUsers(g, i, n)
<1>1. /\ g.inputs \in Lists(A, A) /\ g.users \in Lists(A, A) /\ DOMAIN g.inputs = A
      /\ g.users[i] \in Seq(A) /\ \A u \in A : g.inputs[u] \in Seq(A)
  BY DEF Pair, Lists
<1>2. s \in Seq(A)
  BY <1>1, DistinctOnce
<1>3. f.users \in Lists(A, A)
  <2>1. PICK chain \in [0 .. Len(s) -> Lists(A, A)] :
          ReplacesInSteps(chain, g, f.users, s, i, n)
    BY <1>2, ReplaceSteps
  <2>2. Len(s) \in 0 .. Len(s) /\ chain[Len(s)] = f.users
    <3>1. Len(s) \in Nat
      BY <1>2
    <3> HIDE DEF s, f
    <3> QED
      BY <2>1, <3>1 DEF ReplacesInSteps
  <2> HIDE DEF s, f
  <2> QED
    BY <2>2
<1>4. f.inputs = [u \in A |-> IF u \in Uses(g.users[i]) THEN ReplaceAll(g.inputs[u], i, n)
                              ELSE g.inputs[u]]
  BY <1>1, Zenon DEF ReplaceInputsForUsers
<1>5. DOMAIN f = {"inputs", "users"} /\ f = [inputs |-> f.inputs, users |-> f.users]
  BY DEF ReplaceInputsForUsers
<1> HIDE DEF f
<1>6. f.inputs \in Lists(A, A)
  <2>1. \A u \in A : ReplaceAll(g.inputs[u], i, n) \in Seq(A)
    BY <1>1, ReplaceAllLen
  <2> QED
    BY <1>1, <1>4, <2>1 DEF Lists
<1>7. h = [inputs |-> f.inputs, users |-> RemoveUsers(f.users, f.inputs[i], i)]
  <2>1. h = [f EXCEPT !.users = RemoveUsers(f.users, f.inputs[i], i)]
    BY Zenon DEF LeaveUsers, f
  <2> QED
    BY <1>5, <2>1
<1>8. f.inputs[i] \in Seq(A)
  BY <1>6 DEF Lists
<1>9. RemoveUsers(f.users, f.inputs[i], i) \in Lists(A, A)
  BY <1>3, <1>8, RemoveUsersLeaves
<1>10. h.inputs = f.inputs /\ h.users = RemoveUsers(f.users, f.inputs[i], i)
  BY <1>7
<1> QED
  BY <1>4, <1>6, <1>9, <1>10 DEF Rewired

(* The loop of VisitMul exchanges a product with one for its factor. *)
LEMMA RedirectExchanges ==
  ASSUME NEW A, NEW g, Pair(A, g), NEW i \in A, NEW x \in A,
         NEW mn, NEW w \in [A -> Nat], mn[x] = mn[i], w[x] <= w[i],
         NEW h, h = RedirectUsers(g, i, x)
  PROVE  Pair(A, h) /\ Exchanged(A, mn, w, g.inputs, h.inputs)
<1>1. g.inputs \in Lists(A, A) /\ g.users \in Lists(A, A) /\ g.users[i] \in Seq(A)
  BY DEF Pair, Lists
<1>0. PICK m \in Nat : m = Len(g.users[i])
  BY <1>1
<1>2. PICK s : s = g.users[i] /\ m = Len(s) /\ s \in Seq(A)
  BY <1>0, <1>1
<1>3. PICK chain : /\ \A k \in 0 .. m : Pair(A, chain[k])
                   /\ RedirectsInSteps(chain, g, h, i, x)
  BY <1>2, RedirectSteps
<1>4. /\ chain[0] = [g EXCEPT !.users[i] = <<>>] /\ chain[m] = h
      /\ \A k \in 1 .. m : chain[k] = RedirectUser(chain[k - 1], s[k], i, x)
  BY <1>2, <1>3 DEF RedirectsInSteps
<1> DEFINE P == {k \in 0 .. m : Exchanged(A, mn, w, g.inputs, chain[k].inputs)}
<1>5. 0 \in P
  <2>1. chain[0].inputs = g.inputs
    BY <1>4
  <2>2. Exchanged(A, mn, w, g.inputs, g.inputs)
    BY <1>1, ReplacedExchanged
  <2> QED
    BY <2>1, <2>2
<1>6. ASSUME NEW k \in 1 .. m, k - 1 \in P PROVE k \in P
  <2>1. PICK a, b, u : a = chain[k - 1] /\ b = chain[k] /\ u = s[k] /\ u \in A
    BY <1>2
  <2>2. /\ Pair(A, a) /\ Pair(A, b) /\ b = RedirectUser(a, u, i, x)
        /\ Exchanged(A, mn, w, g.inputs, a.inputs)
    <3>1. k - 1 \in 0 .. m /\ k \in 0 .. m
      OBVIOUS
    <3> QED
      BY <1>3, <1>4, <1>6, <2>1, <3>1
  <2>3. a.inputs \in Lists(A, A) /\ b.inputs \in Lists(A, A)
        /\ a = [inputs |-> a.inputs, users |-> a.users]
    BY <2>2 DEF Pair
  <2>4. \A v \in A : b.inputs[v] = a.inputs[v] \/ b.inputs[v] = ReplaceAll(a.inputs[v], i, x)
    <3>1. CASE b = a
      BY <3>1
    <3>2. CASE b = [a EXCEPT !.users[i] = Append(@, u)]
      BY <2>3, <3>2
    <3>3. CASE b = SetInputs(a, u, ReplaceAll(a.inputs[u], i, x))
      <4>1. b.inputs = [a.inputs EXCEPT ![u] = ReplaceAll(a.inputs[u], i, x)]
        BY <2>3, <3>3 DEF SetInputs
      <4> QED
        BY <2>3, <4>1 DEF Lists
    <3> QED
      BY <2>2, <3>1, <3>2, <3>3 DEF RedirectUser
  <2>5. Exchanged(A, mn, w, a.inputs, b.inputs)
    BY <2>3, <2>4, ReplacedExchanged
  <2>6. Exchanged(A, mn, w, g.inputs, b.inputs)
    BY <1>1, <2>2, <2>3, <2>5, ExchangedTwice
  <2> QED
    BY <2>1, <2>6
<1> HIDE DEF P
<1>7. m \in P
  <2>1. \A k \in 0 .. m : k \in P
    BY <1>5, <1>6, UpTo
  <2> QED
    BY <2>1
<1> QED
  <2>1. m \in 0 .. m
    OBVIOUS
  <2> QED
    BY <1>3, <1>4, <1>7, <2>1 DEF P

(* A constant has its own value, in the type of the operations. *)
ConstantIs(t, k, v) ==
  /\ ConstantFits(k, t) /\ k.value \in Int
  /\ Misread(t, k) \/ \A e \in Environments : v[e] = InType(k.value, t)

(* That is so of every constant. *)
LEMMA ConstantMeans ==
  ASSUME NEW A, NEW F, NEW t \in DataTypes, NEW ins, NEW inp, NEW mn, NEW as, NEW w, NEW max,
         Sound(A, F, t, ins, inp, mn, as, w, max), NEW i \in A, ins[i].opcode = "const"
  PROVE  ConstantIs(t, ins[i].constant, mn[i])
<1> DEFINE c == ins[i].constant
           r == ins[i].resultType
<1>1. /\ InsnTyped(t, ins[i], inp[i])
      /\ Excepted(t, ins[i]) \/ InsnMeans(t, ins[i], inp[i], mn[i], as[i], mn)
  BY DEF Sound, InsnSound
<1>2. /\ ConstantFits(c, t) /\ ResultFits(t, c, r)
      /\ Misread(t, c) \/ \A e \in Environments : InType(InType(c.value, r), t) = mn[i][e]
  BY <1>1 DEF InsnTyped, InsnMeans, Excepted
<1>3. c.value \in Int
  BY <1>2, ConstantValue
<1>4. InType(InType(c.value, r), t) = InType(c.value, t)
  BY <1>2, ResultInType
<1> QED
  BY <1>2, <1>3, <1>4 DEF ConstantIs

(* What is known of an operation. *)
OperationIs(A, t, ins, inp, mn, w, i) ==
  /\ inp[i] \in Seq(A) /\ Len(inp[i]) = 2 /\ inp[i][1] \in A /\ inp[i][2] \in A
  /\ ins[i].resultType = t /\ (ins[i].opcode # "mul" => t \in IntTypes)
  /\ \A e \in Environments :
       /\ Fits(mn[inp[i][1]][e], t) /\ Fits(mn[inp[i][2]][e], t)
       /\ Computes(ins[i].opcode, t, mn[inp[i][1]][e], mn[inp[i][2]][e]) = mn[i][e]
       /\ ins[i].opcode = "ashr" => w[inp[i][1]] + mn[inp[i][2]][e] <= w[i]
  /\ w[inp[i][1]] <= w[i] /\ w[inp[i][2]] <= w[i]

(* That is so of every operation. *)
LEMMA OperationMeans ==
  ASSUME NEW A, NEW F, NEW t \in DataTypes, NEW ins, NEW inp, NEW mn, NEW as, NEW w, NEW max,
         Sound(A, F, t, ins, inp, mn, as, w, max), NEW i \in A, ins[i].opcode \in Operations
  PROVE  OperationIs(A, t, ins, inp, mn, w, i)
<1>1. /\ InsnTyped(t, ins[i], inp[i]) /\ InsnWeighs(ins[i], inp[i], mn, w, w[i])
      /\ Excepted(t, ins[i]) \/ InsnMeans(t, ins[i], inp[i], mn[i], as[i], mn)
      /\ inp[i] \in Seq(A)
  BY DEF Sound, InsnSound, Lists
<1>2. /\ ins[i].opcode \in Arithmetic /\ ins[i].opcode # "add" /\ ins[i].resultType = t
      /\ Len(inp[i]) = 2 /\ (t \in FloatTypes => ins[i].opcode = "mul")
  BY <1>1 DEF InsnTyped, Arithmetic, Operations
<1>2b. ~Excepted(t, ins[i])
  BY DEF Excepted, Operations
<1>3. inp[i][1] \in A /\ inp[i][2] \in A
  BY <1>1, <1>2
<1>4. \A e \in Environments : Fits(mn[inp[i][1]][e], t) /\ Fits(mn[inp[i][2]][e], t)
  BY <1>3 DEF Sound, InsnSound
<1>5. \A e \in Environments :
        Computes(ins[i].opcode, t, mn[inp[i][1]][e], mn[inp[i][2]][e]) = mn[i][e]
  BY <1>1, <1>2, <1>2b DEF InsnMeans
<1>6. t \in IntTypes \/ t \in FloatTypes
  BY DEF DataTypes
<1> QED
  BY <1>1, <1>2, <1>3, <1>4, <1>5, <1>6 DEF OperationIs, InsnWeighs

(* Values are the same if they are in every environment. *)
LEMMA SameValue ==
  ASSUME NEW u \in Value, NEW v \in Value, \A e \in Environments : u[e] = v[e]
  PROVE  u = v
BY DEF Value

(* The operands of products and disjunctions may be swapped. *)
LEMMA OperandsSwapped ==
  ASSUME NEW A, NEW F, NEW t \in DataTypes, NEW ins, NEW inp, NEW mn, NEW as, NEW w, NEW max,
         Sound(A, F, t, ins, inp, mn, as, w, max), NEW c \in A, ins[c].opcode \in {"mul", "or"},
         NEW s, s \in {inp[c], Reverse(inp[c])}
  PROVE  Sound(A, F \ {c}, t, ins, [inp EXCEPT ![c] = s], mn, as, w, max)
<1>1. ins[c].opcode \in Operations /\ ins[c].opcode # "ashr"
  BY DEF Operations
<1>2. OperationIs(A, t, ins, inp, mn, w, c)
  BY <1>1, OperationMeans
<1>3. PICK a \in A, b \in A :
        /\ a = inp[c][1] /\ b = inp[c][2] /\ w[a] <= w[c] /\ w[b] <= w[c]
        /\ \A e \in Environments :
             /\ Fits(mn[a][e], t) /\ Fits(mn[b][e], t)
             /\ Computes(ins[c].opcode, t, mn[a][e], mn[b][e]) = mn[c][e]
  BY <1>2 DEF OperationIs
<1>4. s \in Seq(A) /\ Len(s) = 2 /\ ((s[1] = a /\ s[2] = b) \/ (s[1] = b /\ s[2] = a))
  <2>1. PICK q \in Seq(A) : q = inp[c] /\ Len(q) = 2 /\ q[1] = a /\ q[2] = b
    BY <1>2, <1>3 DEF OperationIs
  <2>2. Reverse(q) = [k \in 1 .. 2 |-> q[(2 - k) + 1]]
    BY <2>1 DEF Reverse
  <2>3. Reverse(q) \in Seq(A) /\ Len(Reverse(q)) = 2
    BY <2>1, <2>2
  <2>4. Reverse(q)[1] = q[2] /\ Reverse(q)[2] = q[1]
    BY <2>2
  <2>5. s \in {q, Reverse(q)}
    BY <2>1
  <2> QED
    BY <2>1, <2>3, <2>4, <2>5
<1>5. InsnWeighs(ins[c], s, mn, w, w[c])
  BY <1>1, <1>3, <1>4 DEF InsnWeighs
<1>6. ASSUME NEW e \in Environments
      PROVE  Computes(ins[c].opcode, t, mn[s[1]][e], mn[s[2]][e]) = mn[c][e]
  <2>1. PICK u, v : u = mn[a][e] /\ v = mn[b][e] /\ Fits(u, t) /\ Fits(v, t)
    BY <1>3
  <2>2. Computes(ins[c].opcode, t, u, v) = Computes(ins[c].opcode, t, v, u)
    <3>1. Computes("mul", t, u, v) = Computes("mul", t, v, u)
      BY <2>1, Neutral
    <3>2. t \in IntTypes => Computes("or", t, u, v) = Computes("or", t, v, u)
      BY <2>1, Neutral
    <3>3. ins[c].opcode # "mul" => t \in IntTypes
      BY <1>2 DEF OperationIs
    <3> QED
      BY <3>1, <3>2, <3>3
  <2>3. Computes(ins[c].opcode, t, u, v) = mn[c][e]
    BY <1>3, <2>1
  <2>4. CASE s[1] = a /\ s[2] = b
    BY <2>1, <2>3, <2>4
  <2>5. CASE s[1] = b /\ s[2] = a
    BY <2>1, <2>2, <2>3, <2>5
  <2> QED
    BY <1>4, <2>4, <2>5
<1> QED
  BY <1>1, <1>4, <1>5, <1>6, OtherInputs, Zenon

(* One is neutral to products, ... *)
LEMMA FactorOne ==
  ASSUME NEW A, NEW F, NEW t \in DataTypes, NEW ins, NEW inp, NEW mn, NEW as, NEW w, NEW max,
         Sound(A, F, t, ins, inp, mn, as, w, max), NEW c \in A, ins[c].opcode = "mul",
         ins[inp[c][2]].opcode = "const", IsEqualTo(ins[inp[c][2]].constant, 1)
  PROVE  mn[inp[c][1]] = mn[c] /\ w[inp[c][1]] <= w[c] /\ inp[c][1] \in A
<1>1. OperationIs(A, t, ins, inp, mn, w, c)
  BY OperationMeans DEF Operations
<1>2. PICK a \in A, b \in A :
        /\ a = inp[c][1] /\ b = inp[c][2] /\ w[a] <= w[c]
        /\ \A e \in Environments :
             /\ Fits(mn[a][e], t) /\ Computes("mul", t, mn[a][e], mn[b][e]) = mn[c][e]
  BY <1>1 DEF OperationIs
<1>3. PICK k : k = ins[b].constant
  OBVIOUS
<1>4. ConstantIs(t, k, mn[b])
  BY <1>2, <1>3, ConstantMeans
<1>5. InType(k.value, t) = 1 /\ ~Misread(t, k)
  BY <1>2, <1>3, <1>4, ConstantIsOne DEF ConstantIs
<1>6. \A e \in Environments : mn[a][e] = mn[c][e]
  <2> SUFFICES ASSUME NEW e \in Environments PROVE mn[a][e] = mn[c][e]
    OBVIOUS
  <2>1. PICK u : u = mn[a][e] /\ Fits(u, t) /\ Computes("mul", t, u, 1) = mn[c][e]
    BY <1>2, <1>4, <1>5 DEF ConstantIs
  <2>2. Computes("mul", t, u, 1) = u
    BY <2>1, Neutral
  <2> QED
    BY <2>1, <2>2
<1>7. mn[a] \in Value /\ mn[c] \in Value
  BY DEF Sound
<1> QED
  BY <1>2, <1>6, <1>7, SameValue

(* ... a product with two of floats is a sum, ... *)
LEMMA FactorTwo ==
  ASSUME NEW A, NEW F, NEW t \in FloatTypes, NEW ins, NEW inp, NEW mn, NEW as, NEW w, NEW max,
         Sound(A, F, t, ins, inp, mn, as, w, max), NEW c \in A, ins[c].opcode = "mul",
         ins[inp[c][2]].opcode = "const", IsEqualTo(ins[inp[c][2]].constant, 2)
  PROVE  \A e \in Environments :
           Computes("add", t, mn[inp[c][1]][e], mn[inp[c][1]][e]) = mn[c][e]
<1>0. t \in DataTypes
  BY DEF DataTypes
<1>1. OperationIs(A, t, ins, inp, mn, w, c)
  BY <1>0, OperationMeans DEF Operations
<1>2. PICK a \in A, b \in A :
        /\ a = inp[c][1] /\ b = inp[c][2]
        /\ \A e \in Environments :
             /\ Fits(mn[a][e], t) /\ Computes("mul", t, mn[a][e], mn[b][e]) = mn[c][e]
  BY <1>1 DEF OperationIs
<1>3. PICK k : k = ins[b].constant
  OBVIOUS
<1>4. ConstantIs(t, k, mn[b])
  BY <1>0, <1>2, <1>3, ConstantMeans
<1>5. InType(k.value, t) = 2 /\ ~Misread(t, k)
  BY <1>0, <1>2, <1>3, <1>4, ConstantIsOne DEF ConstantIs
<1>6. ASSUME NEW e \in Environments PROVE Computes("add", t, mn[a][e], mn[a][e]) = mn[c][e]
  <2>1. PICK u : u = mn[a][e] /\ Fits(u, t) /\ Computes("mul", t, u, 2) = mn[c][e]
    BY <1>2, <1>4, <1>5 DEF ConstantIs
  <2>2. Computes("mul", t, u, 2) = Computes("add", t, u, u)
    BY <1>0, <2>1, Neutral
  <2> QED
    BY <2>1, <2>2
<1> QED
  BY <1>2, <1>6

(* ... and zero is neutral to shifts and disjunctions, as is a value to    *)
(* its disjunction with itself.                                            *)
IsNeutral(ins, inp, c) ==
  \/ ins[inp[c][2]].opcode = "const" /\ ins[inp[c][2]].constant.value = 0
  \/ ins[c].opcode = "or" /\ inp[c][1] = inp[c][2]

(* An operation has the value of its first operand. *)
SameAsFirst(A, inp, mn, w, c) ==
  mn[inp[c][1]] = mn[c] /\ w[inp[c][1]] <= w[c] /\ inp[c][1] \in A

(* It has if the second one is neutral. *)
LEMMA NeutralOperand ==
  ASSUME NEW A, NEW F, NEW t \in DataTypes, NEW ins, NEW inp, NEW mn, NEW as, NEW w, NEW max,
         Sound(A, F, t, ins, inp, mn, as, w, max), NEW c \in A, ins[c].opcode \in {"ashr", "or"},
         IsNeutral(ins, inp, c)
  PROVE  SameAsFirst(A, inp, mn, w, c)
<1>1. OperationIs(A, t, ins, inp, mn, w, c)
  BY OperationMeans DEF Operations
<1>2. PICK a \in A, b \in A :
        /\ a = inp[c][1] /\ b = inp[c][2] /\ w[a] <= w[c]
        /\ \A e \in Environments :
             Fits(mn[a][e], t) /\ Computes(ins[c].opcode, t, mn[a][e], mn[b][e]) = mn[c][e]
  BY <1>1 DEF OperationIs
<1>3. t \in IntTypes
  BY <1>1 DEF OperationIs
<1>4. ASSUME NEW e \in Environments PROVE mn[a][e] = mn[c][e]
  <2>1. PICK u, v : /\ u = mn[a][e] /\ v = mn[b][e] /\ Fits(u, t)
                    /\ Computes(ins[c].opcode, t, u, v) = mn[c][e]
    BY <1>2
  <2>2. /\ Computes("or", t, u, 0) = u /\ Computes("or", t, u, u) = u
        /\ Computes("ashr", t, u, 0) = u
    BY <1>3, <2>1, Neutral
  <2>3. CASE ins[b].opcode = "const" /\ ins[b].constant.value = 0
    <3>1. PICK k : k = ins[b].constant
      OBVIOUS
    <3>2. ConstantFits(k, t) /\ v = InType(k.value, t)
      <4>1. ConstantIs(t, ins[b].constant, mn[b])
        BY <2>3, ConstantMeans
      <4>2. ~Misread(t, k)
        BY <1>3, TypeBits DEF Misread
      <4> QED
        BY <2>1, <3>1, <4>1, <4>2 DEF ConstantIs
    <3>3. v = 0
      BY <2>3, <3>1, <3>2, ConstantIsOne
    <3> QED
      BY <2>1, <2>2, <3>3
  <2>4. CASE ins[c].opcode = "or" /\ a = b
    BY <2>1, <2>2, <2>4
  <2> QED
    BY <1>2, <2>3, <2>4 DEF IsNeutral
<1>5. mn[a] \in Value /\ mn[c] \in Value
  BY DEF Sound
<1> QED
  BY <1>2, <1>4, <1>5, SameValue DEF SameAsFirst

(* A new constant is sound. *)
LEMMA ConstantSound ==
  ASSUME NEW t \in DataTypes, NEW k, NEW r, ConstantFits(k, t), ResultFits(t, k, r),
         NEW v, \A e \in Environments : Fits(v[e], t),
         Misread(t, k) \/ \A e \in Environments : v[e] = InType(k.value, t),
         NEW x, x = ConstantInsn(k, r), NEW s, NEW g, NEW mn, NEW w, NEW l
  PROVE  InsnSound(t, x, s, v, g, mn, w, l)
<1>1. x.opcode = "const" /\ x.resultType = r /\ x.constant = k
  BY DEF ConstantInsn
<1>2. /\ x.opcode \notin Arithmetic /\ x.opcode \notin Operations
      /\ x.opcode \notin {"phi", "call"} /\ x.opcode \in Opcodes
  BY <1>1 DEF Arithmetic, Operations, Opcodes
<1>3. InsnTyped(t, x, s) /\ InsnWeighs(x, s, mn, w, l)
  BY <1>1, <1>2 DEF InsnTyped, InsnWeighs
<1>4. InType(InType(k.value, r), t) = InType(k.value, t)
  BY ResultInType
<1>5. ASSUME ~Misread(t, k) PROVE InsnMeans(t, x, s, v, g, mn)
  BY <1>1, <1>2, <1>4, <1>5 DEF InsnMeans
<1>6. Misread(t, k) => Excepted(t, x)
  BY <1>1 DEF Excepted
<1> QED
  BY <1>3, <1>5, <1>6 DEF InsnSound

(* The operation c on constants is folded into x. *)
FoldsTo(ins, inp, c, x) ==
  /\ ins[inp[c][1]].opcode = "const" /\ ins[inp[c][2]].opcode = "const"
  /\ \E f \in FoldInsn(ins[c].opcode, ins[c].resultType,
                      ins[inp[c][1]].constant, ins[inp[c][2]].constant) :
       x = ConstantInsn(f.constant, f.resultType)

(* A shift c is by less than the bits of the type. *)
Defined(t, ins, inp, mn, c) ==
  ins[c].opcode = "ashr" => \A e \in Environments : mn[inp[c][2]][e] < Bits(t)

(* What an operation on constants is folded into has its value, unless it  *)
(* was a shift too far.                                                    *)
LEMMA FoldSound ==
  ASSUME NEW A, NEW F, NEW t \in DataTypes, NEW ins, NEW inp, NEW mn, NEW as, NEW w, NEW max,
         Sound(A, F, t, ins, inp, mn, as, w, max), NEW c \in A, ins[c].opcode \in Operations,
         Defined(t, ins, inp, mn, c),
         NEW x, FoldsTo(ins, inp, c, x), NEW s, NEW g, NEW l
  PROVE  InsnSound(t, x, s, mn[c], g, mn, w, l)
<1>1. OperationIs(A, t, ins, inp, mn, w, c)
  BY OperationMeans
<1>2. PICK a \in A, b \in A :
        /\ a = inp[c][1] /\ b = inp[c][2]
        /\ \A e \in Environments :
             Computes(ins[c].opcode, t, mn[a][e], mn[b][e]) = mn[c][e]
  BY <1>1 DEF OperationIs
<1>3. ins[c].resultType = t /\ (ins[c].opcode # "mul" => t \in IntTypes)
  BY <1>1 DEF OperationIs
<1>4. ConstantIs(t, ins[a].constant, mn[a]) /\ ConstantIs(t, ins[b].constant, mn[b])
  <2>1. ins[a].opcode = "const" /\ ins[b].opcode = "const"
    BY <1>2 DEF FoldsTo
  <2> QED
    BY <2>1, ConstantMeans
<1>5. PICK k0, k1, op : k0 = ins[a].constant /\ k1 = ins[b].constant /\ op = ins[c].opcode
  OBVIOUS
<1>6. /\ ConstantFits(k0, t) /\ ConstantFits(k1, t)
      /\ ~Misread(t, k0) => \A e \in Environments : mn[a][e] = InType(k0.value, t)
      /\ ~Misread(t, k1) => \A e \in Environments : mn[b][e] = InType(k1.value, t)
  BY <1>4, <1>5, Zenon DEF ConstantIs
<1>7. ASSUME ~Misread(t, k0), ~Misread(t, k1)
      PROVE  \A e \in Environments :
               mn[c][e] = Computes(op, t, InType(k0.value, t), InType(k1.value, t))
  BY <1>2, <1>5, <1>6, <1>7, Zenon
<1>8. PICK f \in FoldInsn(op, t, k0, k1) : x = ConstantInsn(f.constant, f.resultType)
  BY <1>2, <1>3, <1>5, Zenon DEF FoldsTo
<1>9. t \in IntTypes => ~Misread(t, k0) /\ ~Misread(t, k1)
  BY TypeBits DEF Misread
<1>10. /\ FoldedFits(f, t)
       /\ \/ Misread(t, f.constant)
          \/ /\ ~Misread(t, k0) /\ ~Misread(t, k1)
             /\ InType(f.constant.value, t) =
                  Computes(op, t, InType(k0.value, t), InType(k1.value, t))
  <2>1. CASE op = "mul"
    <3>1. f = FoldMul(t, k0, k1)
      BY <1>8, <2>1 DEF FoldInsn
    <3> QED
      BY <1>6, <2>1, <3>1, FoldMulComputes
  <2>2. CASE op = "ashr"
    <3>1. f \in FoldAshr(t, k0, k1) /\ t \in IntTypes
      BY <1>3, <1>5, <1>8, <2>2 DEF FoldInsn
    <3>2. InType(k1.value, t) < Bits(t)
      <4>1. PICK e \in Environments : TRUE
        BY PeepholesAssumption
      <4>2. mn[b][e] < Bits(t)
        BY <1>2, <1>5, <2>2 DEF Defined
      <4> QED
        BY <1>6, <1>9, <3>1, <4>2
    <3> QED
      BY <1>6, <1>9, <2>2, <3>1, <3>2, FoldAshrComputes
  <2>3. CASE op = "or"
    <3>1. f = FoldOr(t, k0, k1) /\ t \in IntTypes
      BY <1>3, <1>5, <1>8, <2>3 DEF FoldInsn
    <3> QED
      BY <1>6, <1>9, <2>3, <3>1, FoldOrComputes
  <2> QED
    BY <1>5, <2>1, <2>2, <2>3 DEF Operations
<1>11. PICK k, r : k = f.constant /\ r = f.resultType
  OBVIOUS
<1>12. /\ ConstantFits(k, t) /\ ResultFits(t, k, r) /\ x = ConstantInsn(k, r)
       /\ Misread(t, k) \/ \A e \in Environments : mn[c][e] = InType(k.value, t)
  BY <1>7, <1>8, <1>10, <1>11 DEF FoldedFits
<1>13. \A e \in Environments : Fits(mn[c][e], t)
  BY ValueThere
<1> QED
  BY <1>12, <1>13, ConstantSound

(* Two shifts by constants are joined: c shifts what j does, by the        *)
(* constant k, which has the value v.                                      *)
JoinedIs(A, t, inp, mn, w, c, j, k, v) ==
  /\ t \in IntTypes /\ ConstantFits(k, t) /\ k.type = "I64" /\ v \in Value
  /\ inp[j][1] \in A /\ w[inp[j][1]] <= w[c]
  /\ \A e \in Environments :
       /\ Computes("ashr", t, mn[inp[j][1]][e], v[e]) = mn[c][e]
       /\ w[inp[j][1]] + v[e] <= w[c]
       /\ v[e] = mn[inp[c][2]][e] + mn[inp[j][2]][e]

(* What weighs no more than a part weighs no more than the whole. *)
LEMMA AtMost ==
  ASSUME NEW k \in Nat, NEW l \in Nat, NEW m \in Nat, k <= l, l <= m
  PROVE  k <= m
OBVIOUS

(* The weights wx of what is shifted, wj and wc of the shifts bound what    *)
(* the constants k0 and k1 add up to, so that they are joined to k.        *)
DistanceJoined(t, k0, k1, k, a, wx, wc) ==
  /\ Computes("ashr", t, a, InType(k.value, t)) =
       Computes("ashr", t, Computes("ashr", t, a, InType(k1.value, t)), InType(k0.value, t))
  /\ wx + InType(k.value, t) <= wc
  /\ InType(k.value, t) = InType(k0.value, t) + InType(k1.value, t)

(* So they are, as long as the sum is not cut off. *)
LEMMA DistancesJoin ==
  ASSUME NEW t \in IntTypes, NEW k0, ConstantFits(k0, t), NEW k1, ConstantFits(k1, t),
         NEW k, k = Constant(GetAsI64(k0) + GetAsI64(k1), "I64"), NEW a, Fits(a, t),
         NEW wx \in Nat, NEW wj \in Nat, NEW wc \in Nat, NEW max \in Int, max < 2^Bits(t),
         wc <= max, wx + InType(k1.value, t) <= wj, wj + InType(k0.value, t) <= wc
  PROVE  DistanceJoined(t, k0, k1, k, a, wx, wc)
<1>1. PICK p, q : p = InType(k0.value, t) /\ q = InType(k1.value, t)
  OBVIOUS
<1>2. t \in DataTypes /\ Fits(p, t) /\ Fits(q, t)
  <2>1. t \in DataTypes
    BY DEF DataTypes
  <2> QED
    BY <1>1, <2>1, ConstantIsOne
<1>3. PICK m : m = 2^Bits(t) /\ m \in Nat /\ max < m
  BY TypeBits
<1>4. p \in Nat /\ q \in Nat
  BY <1>2, <1>3 DEF Fits
<1>5. wx + q <= wj /\ wj + p <= wc
  BY <1>1
<1>6. p + q < m /\ wx + (p + q) <= wc /\ p + q = q + p
  BY <1>3, <1>4, <1>5
<1>7. InType(k.value, t) = p + q
  BY <1>1, <1>3, <1>6, SumInType
<1>8. Computes("ashr", t, Computes("ashr", t, a, q), p) = Computes("ashr", t, a, q + p)
  BY <1>4, ShiftsJoin
<1> QED
  BY <1>1, <1>6, <1>7, <1>8 DEF DistanceJoined

(* The shifts c and j by constants are joined to one by k. *)
JoinsShifts(t, ins, inp, c, j, k, v) ==
  LET d0 == ins[inp[c][2]]
      d1 == ins[inp[j][2]]
  IN  /\ j = inp[c][1] /\ ins[c].opcode = "ashr" /\ ins[j].opcode = "ashr"
      /\ d0.opcode = "const" /\ d1.opcode = "const"
      /\ k = Constant(GetAsI64(d0.constant) + GetAsI64(d1.constant), "I64")
      /\ v = [e \in Environments |-> InType(k.value, t)]

(* Up to max, a distance of type t is not cut off. *)
NotCutOff(t, max) == t \in IntTypes => max < 2^Bits(t)

(* That is so of all shifts of shifts. *)
LEMMA JoinedSound ==
  ASSUME NEW A, NEW F, NEW t \in DataTypes, NEW ins, NEW inp, NEW mn, NEW as, NEW w,
         NEW max \in Int, Sound(A, F, t, ins, inp, mn, as, w, max),
         NotCutOff(t, max), NEW c \in A, NEW j, NEW k, NEW v, JoinsShifts(t, ins, inp, c, j, k, v)
  PROVE  JoinedIs(A, t, inp, mn, w, c, j, k, v)
<1>0. /\ j = inp[c][1] /\ ins[c].opcode = "ashr" /\ ins[j].opcode = "ashr"
      /\ ins[inp[c][2]].opcode = "const" /\ ins[inp[j][2]].opcode = "const"
  BY Zenon DEF JoinsShifts
<1>1. OperationIs(A, t, ins, inp, mn, w, c)
  BY <1>0, OperationMeans DEF Operations
<1>2. j \in A /\ t \in IntTypes
  BY <1>0, <1>1 DEF OperationIs
<1>3. OperationIs(A, t, ins, inp, mn, w, j)
  BY <1>0, <1>2, OperationMeans, Zenon DEF Operations
<1>4. PICK b \in A, d \in A, x \in A : b = inp[c][2] /\ d = inp[j][2] /\ x = inp[j][1]
  BY <1>1, <1>3 DEF OperationIs
<1>5. /\ w[j] <= w[c] /\ w[x] <= w[j] /\ w[c] <= max
      /\ w[j] \in Nat /\ w[c] \in Nat /\ w[x] \in Nat
      /\ \A e \in Environments :
           /\ Computes("ashr", t, mn[j][e], mn[b][e]) = mn[c][e]
           /\ w[j] + mn[b][e] <= w[c]
           /\ Fits(mn[x][e], t) /\ Fits(mn[b][e], t) /\ Fits(mn[d][e], t)
           /\ Computes("ashr", t, mn[x][e], mn[d][e]) = mn[j][e]
           /\ w[x] + mn[d][e] <= w[j]
  <2>1. w[c] <= max /\ w[j] \in Nat /\ w[c] \in Nat /\ w[x] \in Nat
    BY <1>2, <1>4 DEF Sound
  <2> QED
    BY <1>0, <1>1, <1>3, <1>4, <2>1, Zenon DEF OperationIs
<1>6. PICK kb, kd : kb = ins[b].constant /\ kd = ins[d].constant
  OBVIOUS
<1>7. /\ ConstantFits(kb, t) /\ ConstantFits(kd, t)
      /\ \A e \in Environments : mn[b][e] = InType(kb.value, t) /\ mn[d][e] = InType(kd.value, t)
  <2>1. ConstantIs(t, ins[b].constant, mn[b]) /\ ConstantIs(t, ins[d].constant, mn[d])
    BY <1>0, <1>4, ConstantMeans
  <2>2. ~Misread(t, kb) /\ ~Misread(t, kd)
    BY <1>2, TypeBits DEF Misread
  <2> QED
    BY <1>6, <2>1, <2>2 DEF ConstantIs
<1>8. /\ k = Constant(GetAsI64(kb) + GetAsI64(kd), "I64")
      /\ v = [e \in Environments |-> InType(k.value, t)]
  BY <1>4, <1>6, Zenon DEF JoinsShifts
<1>9. ConstantFits(k, t) /\ k.type = "I64" /\ v \in Value
  <2>1. kb.value \in Patterns /\ kd.value \in Patterns
    BY <1>2, <1>7, TypeBits DEF ConstantFits
  <2>2. GetAsI64(kb) \in Int /\ GetAsI64(kd) \in Int
    BY <2>1, PatternsAre, SignedRange DEF GetAsI64, Patterns
  <2>3. PICK sum \in Int : sum = GetAsI64(kb) + GetAsI64(kd)
    BY <2>2
  <2>4. ConstantFits(k, t) /\ k.type = "I64"
    BY <1>2, <1>8, <2>3, WideConstant
  <2>5. InType(k.value, t) \in Int
    BY <1>2, <2>4, ConstantIsOne DEF Fits
  <2> QED
    BY <1>8, <2>4, <2>5 DEF Value
<1>10. ASSUME NEW e \in Environments
       PROVE  /\ Computes("ashr", t, mn[x][e], v[e]) = mn[c][e] /\ w[x] + v[e] <= w[c]
              /\ v[e] = mn[b][e] + mn[d][e]
  <2>1. PICK a, wx, wj, wc : a = mn[x][e] /\ wx = w[x] /\ wj = w[j] /\ wc = w[c]
    OBVIOUS
  <2>2. wx \in Nat /\ wj \in Nat /\ wc \in Nat /\ wc <= max /\ max < 2^Bits(t) /\ Fits(a, t)
    BY <1>2, <1>5, <2>1, Zenon DEF NotCutOff
  <2>3. mn[b][e] = InType(kb.value, t) /\ mn[d][e] = InType(kd.value, t)
    BY <1>7
  <2>4. wx + InType(kd.value, t) <= wj /\ wj + InType(kb.value, t) <= wc
    BY <1>5, <2>1, <2>3, Zenon
  <2>5. DistanceJoined(t, kb, kd, k, a, wx, wc)
    BY <1>2, <1>7, <1>8, <2>2, <2>4, DistancesJoin, Zenon
  <2>6. v[e] = InType(k.value, t)
    BY <1>8
  <2>7. Computes("ashr", t, Computes("ashr", t, a, InType(kd.value, t)), InType(kb.value, t))
          = mn[c][e]
    BY <1>5, <2>1, <2>3, Zenon
  <2> QED
    BY <2>1, <2>3, <2>5, <2>6, <2>7, Zenon DEF DistanceJoined
<1>11. w[x] <= w[c]
  BY <1>5, AtMost, Zenon
<1>12. x = inp[j][1] /\ x \in A
  BY <1>4
<1> QED
  BY <1>2, <1>4, <1>9, <1>10, <1>11, <1>12 DEF JoinedIs

(* What the first run has to visit yet. *)
Fresh == IF runs <= 1 THEN {i \in InCode \ Settled : IsOperation(i)} ELSE {}

(* How much the distances of shifts can add up to: each is less than the   *)
(* bits of the type.                                                       *)
Limit == (IF runs = 0 THEN Cardinality(Built) ELSE MAX_OPERATIONS) * (Bits(type) - 1)

(* Everything has the value it stands for. *)
ValueInv ==
  /\ type \in DataTypes /\ (type \in FloatTypes => operations \subseteq {"mul"})
  /\ users \in Lists(All, All) /\ asked \in [All -> Seq(Value)]
  /\ runs = 0 => Cardinality(Built) <= MAX_OPERATIONS
  /\ \E w : Sound(All, Fresh, type, insns, inputs, meaning, asked, w, Limit)

(* The limit, and that sums below it are not cut. *)
LEMMA Limits ==
  ASSUME ValueInv, runs # 0
  PROVE  /\ Limit = MAX_OPERATIONS * (Bits(type) - 1) /\ Limit \in Int
         /\ type \in IntTypes => Limit < 2^Bits(type)
<1>1. Bits(type) \in {HALF_WIDTH, WIDTH} /\ Bits(type) \in Int
  BY WidthAssumption DEF Bits
<1>2. PICK b : b = Bits(type)
  OBVIOUS
<1>3. MAX_OPERATIONS \in Nat /\ MAX_OPERATIONS * (b - 1) < 2^b
  BY <1>1, <1>2, PeepholesAssumption
<1>4. Limit = MAX_OPERATIONS * (b - 1)
  BY <1>2 DEF Limit
<1> QED
  BY <1>1, <1>2, <1>3, <1>4

(* The operation a visit was at is not fresh any more. *)
LEMMA FreshLeft ==
  ASSUME CodeInv, CodeEdit, runs # 0
  PROVE  Fresh' \subseteq Fresh \ {currInsn}
<1>1. /\ \A i \in All : insns'[i] = insns[i]
      /\ \A i \in All' \ All : ~IsOperation(i)'
      /\ code' \in Seq(All')
      /\ Uses(code') \subseteq Uses(code) \cup {NewInsn}
  BY EditedCode
<1>2. Settled' = IF currInsn \in Uses(code') THEN Settled \cup {currInsn} ELSE Settled
  BY TurnSettles
<1>3. runs' = runs
  BY DEF CodeEdit, EndTurn
<1> SUFFICES ASSUME NEW i \in Fresh' PROVE i \in Fresh \ {currInsn}
  OBVIOUS
<1>4. runs <= 1 /\ i \in Uses(code') /\ i \notin Settled' /\ IsOperation(i)'
  BY <1>3 DEF Fresh, InCode
<1>5. i \in All' /\ i \in All
  <2>1. i \in All'
    BY <1>1, <1>4, UsesTyped
  <2> QED
    BY <1>1, <1>4, <2>1
<1>6. i \in Uses(code) /\ IsOperation(i)
  BY <1>1, <1>4, <1>5, CodeNumbers DEF IsOperation, Opcode
<1>7. i # currInsn /\ i \notin Settled
  BY <1>2, <1>4
<1> QED
  BY <1>4, <1>6, <1>7 DEF Fresh, InCode

(* What remains to be shown of a visit. *)
LEMMA VisitKeepsValues ==
  ASSUME CodeInv, ValueInv, CodeEdit,
         users' \in Lists(All', All'), asked' \in [All' -> Seq(Value)],
         NEW w, Sound(All', Fresh \ {currInsn}, type, insns', inputs', meaning', asked', w, Limit)
  PROVE  ValueInv'
<1>1. runs # 0 /\ outcome = "running" /\ UNCHANGED <<type, operations, runs, outcome>>
  BY DEF CodeEdit, EndTurn, CodeInv
<1>2. Limit' = Limit
  BY <1>1 DEF Limit
<1>3. Sound(All', Fresh', type', insns', inputs', meaning', asked', w, Limit')
  <2>1. Fresh' \subseteq Fresh \ {currInsn}
    BY <1>1, FreshLeft
  <2>2. PICK G : G = Fresh'
    OBVIOUS
  <2>3. Sound(All', G, type, insns', inputs', meaning', asked', w, Limit)
    BY <2>1, <2>2, FewerShifts, Zenon
  <2> QED
    BY <1>1, <1>2, <2>2, <2>3
<1> QED
  BY <1>1, <1>3 DEF ValueInv

(* What a visit is given. *)
Given(w) ==
  /\ runs # 0 /\ currInsn \in All /\ insns[currInsn].opcode \in Operations
  /\ Sound(All, Fresh, type, insns, inputs, meaning, asked, w, Limit)
  /\ inputs \in Lists(All, All) /\ users \in Lists(All, All) /\ meaning \in [All -> Value]
  /\ w \in [All -> Nat]
  /\ inputs[currInsn] \in Seq(All) /\ Len(inputs[currInsn]) = 2
  /\ inputs[currInsn][1] \in All /\ inputs[currInsn][2] \in All

(* All of that is so when Run is at an operation. *)
LEMMA ValuesGiven ==
  ASSUME CodeInv, ValueInv, currInsn # 0
  PROVE  type \in DataTypes /\ \E w : Given(w)
<1>1. runs # 0 /\ currInsn \in All /\ insns[currInsn].opcode \in Operations
  BY CodeNumbers DEF CodeInv, IsOperation, Opcode
<1>2. PICK w : Sound(All, Fresh, type, insns, inputs, meaning, asked, w, Limit)
  BY DEF ValueInv
<1>3. inputs \in Lists(All, All) /\ meaning \in [All -> Value] /\ w \in [All -> Nat]
  BY <1>2 DEF Sound
<1>4. /\ inputs[currInsn] \in Seq(All) /\ Len(inputs[currInsn]) = 2
      /\ inputs[currInsn][1] \in All /\ inputs[currInsn][2] \in All
  <2>1. type \in DataTypes
    BY DEF ValueInv
  <2>2. OperationIs(All, type, insns, inputs, meaning, w, currInsn)
    BY <1>1, <1>2, <2>1, OperationMeans
  <2> QED
    BY <2>2 DEF OperationIs
<1> QED
  BY <1>1, <1>2, <1>3, <1>4 DEF ValueInv, Given

(* The operation stays where it is. *)
LEMMA KeepInsnKeepsValues ==
  ASSUME CodeInv, ValueInv, currInsn # 0, outcome = "running", NEW g, KeepInsn(g), Pair(All, g),
         NEW w, Sound(All, Fresh \ {currInsn}, type, insns, g.inputs, meaning, asked, w, Limit)
  PROVE  ValueInv'
<1>1. /\ inputs' = g.inputs /\ users' = g.users /\ EndTurn
      /\ UNCHANGED <<code, insns, meaning, asked>>
  BY DEF KeepInsn, SetEdges, NothingNew
<1>2. CodeEdit
  BY <1>1 DEF CodeEdit, CodeKept
<1>3. All' = All
  BY <1>1 DEF All
<1>4. users' \in Lists(All', All') /\ asked' \in [All' -> Seq(Value)]
  BY <1>1, <1>3 DEF Pair, ValueInv
<1>5. Sound(All', Fresh \ {currInsn}, type, insns', inputs', meaning', asked', w, Limit)
  BY <1>1, <1>3
<1> QED
  BY <1>1, <1>2, <1>4, <1>5, VisitKeepsValues

(* The operation gives way to one of the same value. *)
LEMMA GiveWayKeepsValues ==
  ASSUME CodeInv, ValueInv, currInsn # 0, outcome = "running", NEW g, Pair(All, g),
         NEW x \in All, GiveWay(g, currInsn, x),
         NEW w, Sound(All, Fresh \ {currInsn}, type, insns, g.inputs, meaning, asked, w, Limit),
         meaning[x] = meaning[currInsn], w[x] <= w[currInsn]
  PROVE  ValueInv'
<1>1. PICK h : /\ h = LeaveUsers(ReplaceInputsForUsers(g, currInsn, x), currInsn)
               /\ inputs' = h.inputs /\ users' = h.users
  BY DEF GiveWay, SetEdges
<1>2. /\ code' = RemoveAt(code, IndexOf(currInsn)) /\ EndTurn
      /\ UNCHANGED <<insns, meaning, asked>>
  BY DEF GiveWay, NothingNew
<1>3. CodeEdit
  BY <1>2 DEF CodeEdit, CodeCut
<1>4. All' = All
  BY <1>2 DEF All
<1>5. PICK c \in All : c = currInsn
  BY CodeNumbers DEF CodeInv
<1>6. /\ h.inputs \in Lists(All, All) /\ h.users \in Lists(All, All)
      /\ \A u \in All : \/ h.inputs[u] = g.inputs[u]
                        \/ h.inputs[u] = ReplaceAll(g.inputs[u], c, x)
  <2>1. Rewired(All, g, h, c, x)
    BY <1>1, <1>5, WayTyped
  <2> QED
    BY <2>1 DEF Rewired
<1>7. g.inputs \in Lists(All, All) /\ w \in [All -> Nat]
  BY DEF Pair, Sound
<1>8. Exchanged(All, meaning, w, g.inputs, h.inputs)
  BY <1>5, <1>6, <1>7, ReplacedExchanged, Zenon
<1>9. Sound(All, Fresh \ {currInsn}, type, insns, h.inputs, meaning, asked, w, Limit)
  BY <1>6, <1>8, ExchangedSound, Zenon
<1>10. users' \in Lists(All', All') /\ asked' \in [All' -> Seq(Value)]
  BY <1>1, <1>2, <1>4, <1>6 DEF ValueInv
<1>11. Sound(All', Fresh \ {currInsn}, type, insns', inputs', meaning', asked', w, Limit)
  BY <1>1, <1>2, <1>4, <1>9
<1> QED
  BY <1>2, <1>3, <1>10, <1>11, VisitKeepsValues

(* A new instruction n: e with the inputs s and the value v. *)
NewInsnIs(n, F, e, s, v, inp, w, max) ==
  /\ IsNext(All, n) /\ n \notin All /\ All' = All \cup {n}
  /\ asked' \in [All' -> Seq(Value)]
  /\ Extended(All, n, v, meaning, meaning') /\ Extended(All, n, e, insns, insns')
  /\ Extended(All, n, s, inp, Append(inp, s))
  /\ Sound(All', F, type, insns', Append(inp, s), meaning', asked', w, max)

(* It is appended, and sound. *)
LEMMA NewInsnSound ==
  ASSUME CodeInv, ValueInv, NEW n, n = NewInsn, NEW F, NEW inp, NEW w, NEW max \in Int,
         Sound(All, F, type, insns, inp, meaning, asked, w, max),
         NEW e, NEW s \in Seq(All), NEW v \in Value, NEW a \in Seq(Value), NEW k \in Nat,
         InsnSound(type, e, s, v, a, meaning, w, k), NEW max2 \in Int, max <= max2, k <= max2,
         insns' = Append(insns, e), meaning' = Append(meaning, v), asked' = Append(asked, a)
  PROVE  NewInsnIs(n, F, e, s, v, inp, Heavier(All, n, w, k), max2)
<1>1. IsList(insns) /\ Len(insns) \in Nat /\ n = Len(insns) + 1
  BY CodeNumbers DEF CodeInv, NewInsn
<1>2. /\ Len(insns') = n /\ insns'[n] = e
      /\ \A i \in All : insns'[i] = insns[i]
  BY <1>1, LongerList DEF All
<1>3. IsNext(All, n) /\ n \notin All /\ All' = All \cup {n}
  BY <1>1, <1>2 DEF All, IsNext
<1>4. /\ meaning'[n] = v /\ \A i \in All : meaning'[i] = meaning[i]
  <2>1. meaning \in [All -> Value]
    BY DEF Sound
  <2>2. Longer(All, n, Value, meaning, v, Append(meaning, v))
    BY <1>3, <2>1, OneMoreOf, Zenon
  <2> QED
    BY <2>2 DEF Longer
<1>5. asked' \in [All' -> Seq(Value)] /\ asked'[n] = a /\ \A i \in All : asked'[i] = asked[i]
  <2>1. asked \in [All -> Seq(Value)]
    BY DEF ValueInv
  <2>2. Longer(All, n, Seq(Value), asked, a, Append(asked, a))
    BY <1>3, <2>1, OneMoreOf, Zenon
  <2> QED
    BY <1>3, <2>2 DEF Longer
<1>6. Extended(All, n, s, inp, Append(inp, s))
  <2>1. inp \in [All -> Seq(All)]
    BY DEF Sound, Lists
  <2>2. Longer(All, n, Seq(All), inp, s, Append(inp, s))
    BY <1>3, <2>1, OneMoreOf, Zenon
  <2> QED
    BY <2>2 DEF Longer, Extended
<1>7. PICK ins2, mn2, as2 : ins2 = insns' /\ mn2 = meaning' /\ as2 = asked'
  OBVIOUS
<1>8. Sound(All \cup {n}, F, type, ins2, Append(inp, s), Append(meaning, v), as2,
            Heavier(All, n, w, k), max2)
  <2>1. Extended(All, n, e, insns, ins2) /\ Extended(All, n, a, asked, as2)
    BY <1>2, <1>5, <1>7 DEF Extended
  <2> QED
    BY <1>3, <2>1, OneMoreSound
<1>9. Extended(All, n, v, meaning, meaning') /\ Extended(All, n, e, insns, insns')
  BY <1>2, <1>4 DEF Extended
<1>10. Sound(All', F, type, insns', Append(inp, s), meaning', asked', Heavier(All, n, w, k), max2)
  BY <1>3, <1>7, <1>8
<1> QED
  BY <1>3, <1>5, <1>6, <1>9, <1>10 DEF NewInsnIs

(* A new instruction of the same value takes the place of the operation. *)
LEMMA PutInsteadKeepsValues ==
  ASSUME CodeInv, ValueInv, currInsn # 0, outcome = "running",
         NEW g, NEW e, PutInstead(g, currInsn, e), e.opcode \in Opcodes \ Operations,
         NEW inp, NEW us \in Lists(All, All \cup {NewInsn}), NEW s \in Seq(All),
         g = [inputs |-> Append(inp, s), users |-> Append(us, <<>>)],
         NEW w, Sound(All, Fresh \ {currInsn}, type, insns, inp, meaning, asked, w, Limit),
         InsnSound(type, e, s, meaning[currInsn], <<>>, meaning, w, w[currInsn])
  PROVE  ValueInv'
<1>0. PICK n, c : n = NewInsn /\ c = currInsn /\ c \in All
  BY CodeNumbers DEF CodeInv
<1>1. PICK h : /\ h = LeaveUsers(ReplaceInputsForUsers(g, c, n), c)
               /\ inputs' = h.inputs /\ users' = h.users
  BY <1>0 DEF PutInstead, SetEdges
<1>2. /\ code' = ReplaceAt(code, IndexOf(currInsn), NewInsn) /\ EndTurn
      /\ insns' = Append(insns, e) /\ meaning' = Append(meaning, meaning[c])
      /\ asked' = Append(asked, <<>>)
  BY <1>0 DEF PutInstead, CreateInsn
<1>3. CodeEdit
  BY <1>2 DEF CodeEdit, CodeAdded
<1>4. /\ meaning[c] \in Value /\ w[c] \in Nat /\ w[c] <= Limit /\ w \in [All -> Nat]
      /\ <<>> \in Seq(Value) /\ Limit \in Int
  BY <1>0, Limits DEF Sound, CodeInv
<1> DEFINE w2 == Heavier(All, n, w, w[c])
<1>5. /\ IsNext(All, n) /\ n \notin All /\ All' = All \cup {n}
      /\ asked' \in [All' -> Seq(Value)]
      /\ meaning'[n] = meaning[c] /\ \A i \in All : meaning'[i] = meaning[i]
      /\ Sound(All', Fresh \ {currInsn}, type, insns', Append(inp, s), meaning', asked', w2, Limit)
  <2>1. PICK F, k, v, a, max : /\ F = Fresh \ {currInsn} /\ k = w[c] /\ v = meaning[c]
                               /\ a = <<>> /\ max = Limit
    OBVIOUS
  <2>2. Sound(All, F, type, insns, inp, meaning, asked, w, max)
    BY <2>1
  <2>3. InsnSound(type, e, s, v, a, meaning, w, k)
    BY <1>0, <2>1
  <2>4. insns' = Append(insns, e) /\ meaning' = Append(meaning, v) /\ asked' = Append(asked, a)
    BY <1>2, <2>1
  <2>5. v \in Value /\ a \in Seq(Value) /\ k \in Nat /\ max \in Int /\ k <= max /\ max <= max
    BY <1>4, <2>1
  <2>6. n = NewInsn
    BY <1>0
  <2>7. NewInsnIs(n, F, e, s, v, inp, Heavier(All, n, w, k), max)
    BY <2>2, <2>3, <2>4, <2>5, <2>6, NewInsnSound
  <2>8. /\ IsNext(All, n) /\ n \notin All /\ All' = All \cup {n}
        /\ asked' \in [All' -> Seq(Value)] /\ Extended(All, n, v, meaning, meaning')
        /\ Sound(All', F, type, insns', Append(inp, s), meaning', asked', Heavier(All, n, w, k), max)
    BY <2>7 DEF NewInsnIs
  <2> QED
    BY <2>1, <2>8 DEF Extended
<1>6. w2[n] = w[c] /\ w2[c] = w[c] /\ w2 \in [All' -> Nat]
  BY <1>0, <1>4, <1>5 DEF Heavier
<1> HIDE DEF w2
<1>7. Pair(All', g) /\ g.inputs = Append(inp, s)
  <2>1. Append(inp, s) \in Lists(All', All')
    BY <1>5 DEF Sound
  <2>2. Append(us, <<>>) \in Lists(All', All')
    <3>1. Longer(All, n, Seq(All'), us, <<>>, Append(us, <<>>))
      <4>1. us \in [All -> Seq(All')] /\ <<>> \in Seq(All')
        BY <1>0, <1>5 DEF Lists
      <4> QED
        BY <1>5, <4>1, OneMoreOf, Zenon
    <3> QED
      BY <1>5, <3>1 DEF Longer, Lists
  <2> QED
    BY <2>1, <2>2 DEF Pair
<1>8. PICK B, mn2, ins2, as2, inp2 :
        /\ B = All' /\ mn2 = meaning' /\ ins2 = insns' /\ as2 = asked' /\ inp2 = Append(inp, s)
  OBVIOUS
<1>9. /\ c \in B /\ n \in B /\ mn2[n] = mn2[c] /\ w2[n] <= w2[c] /\ Pair(B, g)
      /\ w2 \in [B -> Nat] /\ inp2 = g.inputs
      /\ Sound(B, Fresh \ {currInsn}, type, ins2, inp2, mn2, as2, w2, Limit)
  <2>1. c \in B /\ n \in B /\ mn2[n] = mn2[c]
    BY <1>0, <1>5, <1>8
  <2>2. w2[n] <= w2[c]
    BY <1>4, <1>6
  <2>3. Sound(B, Fresh \ {currInsn}, type, ins2, inp2, mn2, as2, w2, Limit)
    BY <1>5, <1>8
  <2> QED
    BY <1>6, <1>7, <1>8, <2>1, <2>2, <2>3
<1>10. /\ h.inputs \in Lists(B, B) /\ h.users \in Lists(B, B)
       /\ \A u \in B : \/ h.inputs[u] = inp2[u]
                       \/ h.inputs[u] = ReplaceAll(inp2[u], c, n)
  <2>1. Rewired(B, g, h, c, n)
    BY <1>1, <1>9, WayTyped
  <2> QED
    BY <1>9, <2>1 DEF Rewired
<1>11. inp2 \in Lists(B, B)
  BY <1>9 DEF Pair
<1>12. Exchanged(B, mn2, w2, inp2, h.inputs)
  BY <1>9, <1>10, <1>11, ReplacedExchanged, Zenon
<1>13. Sound(B, Fresh \ {currInsn}, type, ins2, h.inputs, mn2, as2, w2, Limit)
  BY <1>9, <1>10, <1>12, ExchangedSound, Zenon
<1>14. users' \in Lists(All', All')
  BY <1>1, <1>8, <1>10
<1>15. Sound(All', Fresh \ {currInsn}, type, insns', inputs', meaning', asked', w2, Limit)
  BY <1>1, <1>8, <1>13
<1> QED
  BY <1>2, <1>3, <1>5, <1>14, <1>15, VisitKeepsValues

(* Nothing is shifted any more by the operation Run is at. *)
LEMMA LessToVisit ==
  ASSUME NEW w, Given(w)
  PROVE  Sound(All, Fresh \ {currInsn}, type, insns, inputs, meaning, asked, w, Limit)
BY FewerShifts, Zenon DEF Given

(* Nothing is folded that shifts too far. *)
FoldsDefined == Foldable(currInsn) => Defined(type, insns, inputs, meaning, currInsn)

(* Then an operation on constants is folded. *)
LEMMA FoldKeepsValues ==
  ASSUME CodeInv, ValueInv, FoldsDefined, NEW op, Fold(op)
  PROVE  ValueInv'
<1>1. currInsn # 0 /\ outcome = "running"
  BY TurnRuns DEF Fold
<1>2. PICK w : Given(w)
  BY <1>1, ValuesGiven
<1>3. type \in DataTypes
  BY <1>1, ValuesGiven
<1>4. PICK c, f, e : /\ c = currInsn /\ f \in NewConstants(c)
                     /\ e = ConstantInsn(f.constant, f.resultType)
                     /\ PutInstead(WithNew(Edges), c, e)
  BY DEF Fold
<1>5. PutInstead(WithNew(Edges), currInsn, e) /\ e.opcode \in Opcodes \ Operations
  BY <1>4 DEF ConstantInsn, Opcodes, Operations
<1>6. InsnSound(type, e, <<>>, meaning[c], <<>>, meaning, w, w[c])
  <2>1. /\ Sound(All, Fresh, type, insns, inputs, meaning, asked, w, Limit)
        /\ c \in All /\ insns[c].opcode \in Operations
    BY <1>2, <1>4 DEF Given
  <2>2. FoldsTo(insns, inputs, c, e)
    <3>1. insns[inputs[c][1]].opcode = "const" /\ insns[inputs[c][2]].opcode = "const"
      BY <1>4 DEF Fold, Foldable, IsConst, Opcode
    <3>2. f \in FoldInsn(insns[c].opcode, insns[c].resultType,
                         insns[inputs[c][1]].constant, insns[inputs[c][2]].constant)
      BY <1>4 DEF NewConstants, Opcode, ConstantOf
    <3> QED
      BY <1>4, <3>1, <3>2 DEF FoldsTo
  <2>3. Defined(type, insns, inputs, meaning, c)
    BY <1>4 DEF FoldsDefined, Fold
  <2> QED
    BY <1>3, <2>1, <2>2, <2>3, FoldSound
<1>7. WithNew(Edges) = [inputs |-> Append(inputs, <<>>), users |-> Append(users, <<>>)]
  BY DEF WithNew, Edges
<1>8. users \in Lists(All, All \cup {NewInsn}) /\ <<>> \in Seq(All)
  BY <1>2 DEF Given, Lists
<1>9. Sound(All, Fresh \ {currInsn}, type, insns, inputs, meaning, asked, w, Limit)
  BY <1>2, LessToVisit
<1>10. InsnSound(type, e, <<>>, meaning[currInsn], <<>>, meaning, w, w[currInsn])
  BY <1>4, <1>6
<1> QED
  BY <1>1, <1>5, <1>7, <1>8, <1>9, <1>10, PutInsteadKeepsValues

(* The inputs of products and disjunctions are put in order. *)
OrderGiven(w, g, c) ==
  /\ Sound(All, Fresh \ {c}, type, insns, g.inputs, meaning, asked, w, Limit)
  /\ Pair(All, g) /\ g.users = users /\ g = [inputs |-> g.inputs, users |-> users]
  /\ g.inputs[c] = Swapped(c) /\ g.inputs[c][1] \in All /\ g.inputs[c][2] \in All
  /\ c \in All /\ type \in DataTypes

(* They keep their values. *)
LEMMA OrderKeepsSound ==
  ASSUME CodeInv, ValueInv, currInsn # 0, NEW c, c = currInsn, Opcode(c) \in {"mul", "or"},
         NEW w, Given(w), NEW g, g = InOrder(c)
  PROVE  OrderGiven(w, g, c)
<1>1. /\ type \in DataTypes /\ Sound(All, Fresh, type, insns, inputs, meaning, asked, w, Limit)
      /\ c \in All /\ insns[c].opcode \in {"mul", "or"} /\ insns[c].opcode \in Operations
      /\ inputs \in Lists(All, All) /\ users \in Lists(All, All)
  BY ValuesGiven DEF Given, Opcode
<1>2. PICK s : s = Swapped(c)
  OBVIOUS
<1>3. s \in {inputs[c], Reverse(inputs[c])}
  BY <1>2 DEF Swapped
<1>4. g = [inputs |-> [inputs EXCEPT ![c] = s], users |-> users]
  BY <1>2 DEF InOrder, SetInputs, Edges
<1>5. Sound(All, Fresh \ {c}, type, insns, [inputs EXCEPT ![c] = s], meaning, asked, w, Limit)
  BY <1>1, <1>3, OperandsSwapped
<1>6. g.inputs = [inputs EXCEPT ![c] = s] /\ g.users = users
  BY <1>4
<1>7. Sound(All, Fresh \ {c}, type, insns, g.inputs, meaning, asked, w, Limit)
  BY <1>5, <1>6
<1>8. Pair(All, g)
  <2>1. g.inputs \in Lists(All, All)
    BY <1>7 DEF Sound
  <2> QED
    BY <1>1, <1>4, <1>6, <2>1 DEF Pair
<1>9. g.inputs[c] = s
  BY <1>1, <1>6 DEF Lists
<1>10. g.inputs[c][1] \in All /\ g.inputs[c][2] \in All
  BY <1>1, <1>7, OperandsThere DEF Arithmetic
<1> QED
  BY <1>1, <1>2, <1>4, <1>6, <1>7, <1>8, <1>9, <1>10 DEF OrderGiven

(* A product or a disjunction stays. *)
LEMMA OrderedStaysKeepsValues ==
  ASSUME CodeInv, ValueInv, MulStays \/ OrStays
  PROVE  ValueInv'
<1>1. currInsn # 0 /\ outcome = "running" /\ Opcode(currInsn) \in {"mul", "or"}
  BY TurnRuns DEF MulStays, OrStays
<1>2. PICK w : Given(w)
  BY <1>1, ValuesGiven
<1>3. PICK g, c : g = InOrder(c) /\ c = currInsn
  OBVIOUS
<1>4. OrderGiven(w, g, c)
  BY <1>1, <1>2, <1>3, OrderKeepsSound
<1>5. KeepInsn(g)
  BY <1>3 DEF MulStays, OrStays
<1>6. Pair(All, g) /\ Sound(All, Fresh \ {currInsn}, type, insns, g.inputs, meaning, asked, w, Limit)
  BY <1>3, <1>4 DEF OrderGiven
<1> QED
  BY <1>1, <1>5, <1>6, KeepInsnKeepsValues

(* The edges as they are. *)
LEMMA EdgesGiven ==
  ASSUME NEW w, Given(w)
  PROVE  /\ Pair(All, Edges) /\ Edges.inputs = inputs /\ Edges.users = users
         /\ Sound(All, Fresh \ {currInsn}, type, insns, Edges.inputs, meaning, asked, w, Limit)
<1>1. Edges.inputs = inputs /\ Edges.users = users
  BY DEF Edges
<1>2. Sound(All, Fresh \ {currInsn}, type, insns, inputs, meaning, asked, w, Limit)
  BY LessToVisit
<1>3. Pair(All, Edges)
  BY DEF Pair, Edges, Given
<1> QED
  BY <1>1, <1>2, <1>3

(* A shift stays. *)
LEMMA AshrStaysKeepsValues ==
  ASSUME CodeInv, ValueInv, AshrStays
  PROVE  ValueInv'
<1>1. currInsn # 0 /\ outcome = "running" /\ KeepInsn(Edges)
  BY TurnRuns DEF AshrStays
<1>2. PICK w : Given(w)
  BY <1>1, ValuesGiven
<1> QED
  BY <1>1, <1>2, EdgesGiven, KeepInsnKeepsValues

(* A product with one stays, but its users take the factor instead. *)
LEMMA MulByOneKeepsValues ==
  ASSUME CodeInv, ValueInv, MulByOne
  PROVE  ValueInv'
<1>1. /\ currInsn # 0 /\ outcome = "running" /\ Opcode(currInsn) = "mul"
      /\ IsFactor(Swapped(currInsn), 1)
  BY TurnRuns DEF MulByOne
<1>2. PICK w : Given(w)
  BY <1>1, ValuesGiven
<1>3. PICK g, c, x, h : /\ c = currInsn /\ g = InOrder(c) /\ x = g.inputs[c][1]
                        /\ h = RedirectUsers(g, c, x)
  OBVIOUS
<1>4. OrderGiven(w, g, c)
  BY <1>1, <1>2, <1>3, OrderKeepsSound
<1>5. KeepInsn(h)
  BY <1>3 DEF MulByOne
<1>6. PICK inp : inp = g.inputs
  OBVIOUS
<1>7. /\ Sound(All, Fresh \ {c}, type, insns, inp, meaning, asked, w, Limit)
      /\ c \in All /\ type \in DataTypes /\ Pair(All, g) /\ w \in [All -> Nat]
  BY <1>4, <1>6 DEF OrderGiven, Sound
<1>8. /\ insns[c].opcode = "mul" /\ insns[inp[c][2]].opcode = "const"
      /\ IsEqualTo(insns[inp[c][2]].constant, 1)
  BY <1>1, <1>3, <1>4, <1>6 DEF OrderGiven, Opcode, IsFactor, IsConst, ConstantOf
<1>9. meaning[x] = meaning[c] /\ w[x] <= w[c] /\ x \in All
  <2>1. meaning[inp[c][1]] = meaning[c] /\ w[inp[c][1]] <= w[c] /\ inp[c][1] \in All
    BY <1>7, <1>8, FactorOne
  <2> QED
    BY <1>3, <1>6, <2>1
<1>10. Pair(All, h) /\ Exchanged(All, meaning, w, g.inputs, h.inputs)
  BY <1>3, <1>7, <1>9, RedirectExchanges
<1>11. h.inputs \in Lists(All, All)
  BY <1>10 DEF Pair
<1>12. Sound(All, Fresh \ {c}, type, insns, h.inputs, meaning, asked, w, Limit)
  BY <1>6, <1>7, <1>10, <1>11, ExchangedSound, Zenon
<1>13. Sound(All, Fresh \ {currInsn}, type, insns, h.inputs, meaning, asked, w, Limit)
  BY <1>3, <1>12
<1> QED
  BY <1>1, <1>5, <1>10, <1>13, KeepInsnKeepsValues

(* A product with two becomes a sum. *)
LEMMA MulByTwoKeepsValues ==
  ASSUME CodeInv, ValueInv, MulByTwo
  PROVE  ValueInv'
<1>1. /\ currInsn # 0 /\ outcome = "running" /\ Opcode(currInsn) = "mul"
      /\ IsFactor(Swapped(currInsn), 2)
  BY TurnRuns DEF MulByTwo
<1>2. PICK w : Given(w)
  BY <1>1, ValuesGiven
<1>3. PICK f, c, x, n, h, e :
        /\ c = currInsn /\ f = InOrder(c) /\ x = Swapped(c)[1] /\ n = NewInsn
        /\ h = SetInputs(AddUserTo(WithNew(f), x, n), n, <<x, x>>)
        /\ e = Insn("add", "F64")
  OBVIOUS
<1>4. OrderGiven(w, f, c)
  BY <1>1, <1>2, <1>3, OrderKeepsSound
<1>5. PutInstead(h, currInsn, e)
  BY <1>3 DEF MulByTwo
<1>6. PICK inp : inp = f.inputs
  OBVIOUS
<1>7. /\ Sound(All, Fresh \ {c}, type, insns, inp, meaning, asked, w, Limit)
      /\ c \in All /\ type \in DataTypes /\ x \in All /\ x = inp[c][1]
      /\ inp \in Lists(All, All) /\ f = [inputs |-> inp, users |-> users]
      /\ users \in Lists(All, All)
  BY <1>2, <1>3, <1>4, <1>6 DEF OrderGiven, Given, Sound
<1>8. /\ insns[c].opcode = "mul" /\ insns[inp[c][2]].opcode = "const"
      /\ IsEqualTo(insns[inp[c][2]].constant, 2)
  BY <1>1, <1>3, <1>4, <1>6 DEF OrderGiven, Opcode, IsFactor, IsConst, ConstantOf
<1>9. IsNext(All, n) /\ n \notin All
  BY <1>3, CodeNumbers DEF IsNext, NewInsn, All
<1>10. PICK us : us = ArithmeticUsers(users, x, x, n)
  OBVIOUS
<1>11. h = [inputs |-> Append(inp, <<x, x>>), users |-> Append(us, <<>>)]
  <2>1. SetInputs(AddUserTo(WithNew(f), x, n), n, <<x, x>>)
          = [inputs |-> Append(inp, <<x, x>>),
             users  |-> Append(ArithmeticUsers(users, x, x, n), <<>>)]
    BY <1>7, <1>9, DoubledOperand
  <2> QED
    BY <1>3, <1>10, <2>1
<1>12. us \in Lists(All, All \cup {NewInsn}) /\ <<x, x>> \in Seq(All)
  <2>1. us \in Lists(All, All \cup {n})
    BY <1>7, <1>9, <1>10, OperandsListOnce
  <2> QED
    BY <1>3, <1>7, <2>1
<1>13. InsnSound(type, e, <<x, x>>, meaning[c], <<>>, meaning, w, w[c])
  <2>1. OperationIs(All, type, insns, inp, meaning, w, c)
    BY <1>7, <1>8, OperationMeans DEF Operations
  <2>2. w[x] <= w[c]
    BY <1>7, <2>1 DEF OperationIs
  <2>3. \A en \in Environments : Fits(meaning[c][en], type)
    BY <1>7 DEF Sound, InsnSound
  <2>4. e.opcode = "add" /\ e.resultType = "F64"
    BY <1>3 DEF Insn
  <2>5. PICK s : s = <<x, x>>
    OBVIOUS
  <2>6. Len(s) = 2 /\ s[1] = x /\ s[2] = x
    BY <2>5
  <2>7. InsnTyped(type, e, s)
    BY <2>4, <2>6 DEF InsnTyped, Opcodes, Operations
  <2>8. InsnWeighs(e, s, meaning, w, w[c])
    BY <2>2, <2>4, <2>6 DEF InsnWeighs
  <2>9. Excepted(type, e) \/ InsnMeans(type, e, s, meaning[c], <<>>, meaning)
    <3>1. SUFFICES ASSUME type = "F64" PROVE InsnMeans(type, e, s, meaning[c], <<>>, meaning)
      BY <2>4 DEF Excepted
    <3>2. \A en \in Environments :
            Computes("add", type, meaning[x][en], meaning[x][en]) = meaning[c][en]
      <4>1. type \in FloatTypes
        BY <3>1 DEF FloatTypes
      <4> QED
        BY <1>7, <1>8, <4>1, FactorTwo
    <3> QED
      BY <2>4, <2>6, <3>1, <3>2 DEF InsnMeans
  <2>10. InsnSound(type, e, s, meaning[c], <<>>, meaning, w, w[c])
    BY <2>3, <2>7, <2>8, <2>9 DEF InsnSound
  <2> QED
    BY <2>5, <2>10
<1>14. e.opcode \in Opcodes \ Operations
  BY <1>3 DEF Insn, Opcodes, Operations
<1>15. /\ Sound(All, Fresh \ {currInsn}, type, insns, inp, meaning, asked, w, Limit)
       /\ InsnSound(type, e, <<x, x>>, meaning[currInsn], <<>>, meaning, w, w[currInsn])
  BY <1>3, <1>7, <1>13
<1> QED
  BY <1>1, <1>5, <1>11, <1>12, <1>14, <1>15, PutInsteadKeepsValues

(* A shift by zero gives way to what it shifts. *)
LEMMA AshrByZeroKeepsValues ==
  ASSUME CodeInv, ValueInv, AshrByZero
  PROVE  ValueInv'
<1>1. currInsn # 0 /\ outcome = "running" /\ Opcode(currInsn) = "ashr"
  BY TurnRuns DEF AshrByZero
<1>2. PICK w : Given(w)
  BY <1>1, ValuesGiven
<1>3. PICK c, x : c = currInsn /\ x = inputs[c][1]
  OBVIOUS
<1>4. GiveWay(Edges, currInsn, x)
  BY <1>3 DEF AshrByZero
<1>5. /\ Sound(All, Fresh, type, insns, inputs, meaning, asked, w, Limit)
      /\ c \in All /\ type \in DataTypes
  BY <1>1, <1>2, <1>3, ValuesGiven DEF Given
<1>6. /\ insns[c].opcode = "ashr" /\ insns[inputs[c][2]].opcode = "const"
      /\ insns[inputs[c][2]].constant.value = 0
  BY <1>1, <1>3 DEF AshrByZero, Opcode, IsConst, ConstantOf, DistanceIsZero
<1>7. meaning[inputs[c][1]] = meaning[c] /\ w[inputs[c][1]] <= w[c] /\ inputs[c][1] \in All
  <2>1. IsNeutral(insns, inputs, c) /\ insns[c].opcode \in {"ashr", "or"}
    BY <1>6 DEF IsNeutral
  <2>2. SameAsFirst(All, inputs, meaning, w, c)
    BY <1>5, <2>1, NeutralOperand
  <2> QED
    BY <2>2 DEF SameAsFirst
<1>8. meaning[x] = meaning[currInsn] /\ w[x] <= w[currInsn] /\ x \in All
  BY <1>3, <1>7
<1>9. /\ Pair(All, Edges)
      /\ Sound(All, Fresh \ {currInsn}, type, insns, Edges.inputs, meaning, asked, w, Limit)
  BY <1>2, EdgesGiven
<1> QED
  BY <1>1, <1>4, <1>8, <1>9, GiveWayKeepsValues

(* A disjunction gives way to its first input. *)
LEMMA OrGivesWayKeepsValues ==
  ASSUME CodeInv, ValueInv, OrGivesWay
  PROVE  ValueInv'
<1>1. /\ currInsn # 0 /\ outcome = "running" /\ Opcode(currInsn) = "or"
      /\ Idempotent(Swapped(currInsn))
  BY TurnRuns DEF OrGivesWay
<1>2. PICK w : Given(w)
  BY <1>1, ValuesGiven
<1>3. PICK g, c, x : c = currInsn /\ g = InOrder(c) /\ x = g.inputs[c][1]
  OBVIOUS
<1>4. OrderGiven(w, g, c)
  BY <1>1, <1>2, <1>3, OrderKeepsSound
<1>5. GiveWay(g, currInsn, x)
  BY <1>3 DEF OrGivesWay
<1>6. PICK inp : inp = g.inputs
  OBVIOUS
<1>7. /\ Sound(All, Fresh \ {c}, type, insns, inp, meaning, asked, w, Limit)
      /\ c \in All /\ type \in DataTypes /\ Pair(All, g) /\ w \in [All -> Nat]
  BY <1>4, <1>6 DEF OrderGiven, Sound
<1>8. /\ insns[c].opcode = "or"
      /\ \/ insns[inp[c][2]].opcode = "const" /\ insns[inp[c][2]].constant.value = 0
         \/ insns[c].opcode = "or" /\ inp[c][1] = inp[c][2]
  BY <1>1, <1>3, <1>4, <1>6 DEF OrderGiven, Opcode, Idempotent, IsConst, ConstantOf
<1>9. meaning[inp[c][1]] = meaning[c] /\ w[inp[c][1]] <= w[c] /\ inp[c][1] \in All
  <2>1. IsNeutral(insns, inp, c) /\ insns[c].opcode \in {"ashr", "or"}
    BY <1>8 DEF IsNeutral
  <2>2. SameAsFirst(All, inp, meaning, w, c)
    BY <1>7, <2>1, NeutralOperand
  <2> QED
    BY <2>2 DEF SameAsFirst
<1>10. meaning[x] = meaning[currInsn] /\ w[x] <= w[currInsn] /\ x \in All
  BY <1>3, <1>6, <1>9
<1>11. Sound(All, Fresh \ {currInsn}, type, insns, g.inputs, meaning, asked, w, Limit)
  BY <1>3, <1>6, <1>7
<1> QED
  BY <1>1, <1>5, <1>7, <1>10, <1>11, GiveWayKeepsValues

(* Nothing changes, but the optimiser may stop. *)
LEMMA NothingKeepsValues ==
  ASSUME ValueInv, UNCHANGED <<program, inputs, users, code, currInsn, runs, asked>>
  PROVE  ValueInv'
<1>1. /\ All' = All /\ Fresh' = Fresh /\ Limit' = Limit /\ Built' = Built
      /\ \A i : IsOperation(i)' <=> IsOperation(i)
  BY DEF All, Fresh, Limit, Settled, InCode, IsOperation, Opcode, Built, program
<1>2. UNCHANGED <<type, operations, insns, meaning, inputs, users, asked, runs>>
  BY DEF program
<1> QED
  BY <1>1, <1>2 DEF ValueInv

(* The two shifts of AshrOfAshr are joined. *)
LEMMA ShiftsAreJoined ==
  ASSUME CodeInv, ValueInv, AshrOfAshr, NEW w, Given(w), NEW c, c = currInsn,
         NEW t, t = inputs[c][1], NEW k, k = SumOfDistances(c), NEW v,
         v = [e \in Environments |-> InType(k.value, type)]
  PROVE  JoinedIs(All, type, inputs, meaning, w, c, t, k, v)
<1>1. currInsn # 0 /\ outcome = "running" /\ Opcode(c) = "ashr"
  BY TurnRuns DEF AshrOfAshr
<1>2. /\ Sound(All, Fresh, type, insns, inputs, meaning, asked, w, Limit)
      /\ c \in All /\ type \in DataTypes /\ insns[c].opcode = "ashr"
  BY <1>1, ValuesGiven DEF Given, Opcode
<1>3. Limit \in Int /\ NotCutOff(type, Limit)
  BY Limits DEF Given, NotCutOff
<1>4. /\ insns[inputs[c][2]].opcode = "const" /\ insns[t].opcode = "ashr"
      /\ insns[inputs[t][2]].opcode = "const"
  BY Zenon DEF AshrOfAshr, ShiftOfShift, IsConst, Opcode
<1>5. k = Constant(GetAsI64(insns[inputs[c][2]].constant)
                     + GetAsI64(insns[inputs[t][2]].constant), "I64")
  BY Zenon DEF SumOfDistances, ConstantOf
<1>6. JoinsShifts(type, insns, inputs, c, t, k, v)
  BY <1>2, <1>4, <1>5, Zenon DEF JoinsShifts
<1> QED
  BY <1>2, <1>3, <1>6, JoinedSound

(* In a type of the full width the joined distance is not zero, for it is  *)
(* no less than that of the shift.                                         *)
LEMMA JoinedNotZero ==
  ASSUME CodeInv, ValueInv, AshrOfAshr, Exact
  PROVE  SumOfDistances(currInsn).value # 0
<1>1. currInsn # 0 /\ outcome = "running"
  BY TurnRuns DEF AshrOfAshr
<1>2. PICK w : Given(w)
  BY <1>1, ValuesGiven
<1>3. PICK c, t, k, v : /\ c = currInsn /\ t = inputs[c][1] /\ k = SumOfDistances(c)
                        /\ v = [e \in Environments |-> InType(k.value, type)]
  OBVIOUS
<1>4. PICK b, d : b = inputs[c][2] /\ d = inputs[t][2]
  OBVIOUS
<1>5. PICK e \in Environments : TRUE
  BY PeepholesAssumption
<1>6. type \in IntTypes /\ v[e] = meaning[b][e] + meaning[d][e]
  <2>1. JoinedIs(All, type, inputs, meaning, w, c, t, k, v)
    BY <1>2, <1>3, ShiftsAreJoined, Zenon
  <2> QED
    BY <1>4, <1>5, <2>1 DEF JoinedIs
<1>7. v[e] = InType(k.value, type)
  BY <1>3, <1>5
<1>8. /\ Sound(All, Fresh, type, insns, inputs, meaning, asked, w, Limit)
      /\ c \in All /\ t \in All /\ b \in All /\ d \in All /\ type \in DataTypes
      /\ Fits(meaning[b][e], type) /\ Fits(meaning[d][e], type)
  <2>1. /\ Sound(All, Fresh, type, insns, inputs, meaning, asked, w, Limit)
        /\ c \in All /\ type \in DataTypes
    BY <1>1, <1>2, <1>3, ValuesGiven DEF Given
  <2>2. insns[c].opcode = "ashr" /\ insns[t].opcode = "ashr"
    BY <1>3, TurnRuns DEF AshrOfAshr, ShiftOfShift, Opcode
  <2>3. OperationIs(All, type, insns, inputs, meaning, w, c)
    BY <2>1, <2>2, OperationMeans DEF Operations
  <2>4. t \in All
    BY <1>3, <2>3 DEF OperationIs
  <2>5. OperationIs(All, type, insns, inputs, meaning, w, t)
    BY <2>1, <2>2, <2>4, OperationMeans DEF Operations
  <2> QED
    BY <1>4, <1>5, <2>1, <2>3, <2>4, <2>5 DEF OperationIs
<1>9. ConstantIs(type, insns[b].constant, meaning[b]) /\ insns[b].constant.value # 0
  <2>1. insns[b].opcode = "const" /\ insns[b].constant.value # 0
    BY <1>3, <1>4 DEF AshrOfAshr, ShiftOfShift, DistanceIsZero, IsConst, Opcode, ConstantOf
  <2> QED
    BY <1>8, <2>1, ConstantMeans
<1>10. Bits(type) = WIDTH /\ 2^Bits(type) \in Nat \ {0}
  BY <1>6, TypeBits DEF Exact, Bits
<1>11. meaning[b][e] \in Nat \ {0} /\ meaning[d][e] \in Nat
  <2>1. PICK z, m : z = insns[b].constant.value /\ m = 2^Bits(type)
    OBVIOUS
  <2>2. meaning[b][e] = InType(z, type) /\ z \in Patterns /\ z # 0
    BY <1>5, <1>6, <1>9, <2>1, TypeBits DEF ConstantIs, ConstantFits, Misread
  <2>3. m = 2^WIDTH /\ z \in 0 .. m - 1 /\ z \in Int /\ m \in Nat \ {0}
    BY <1>10, <2>1, <2>2 DEF Patterns
  <2>4. InType(z, type) = z
    BY <1>6, <1>8, <2>1, <2>3, InTypeFits DEF Fits
  <2> QED
    BY <1>6, <1>8, <2>1, <2>2, <2>3, <2>4 DEF Fits
<1>12. v[e] # 0
  BY <1>6, <1>11
<1>13. InType(0, type) = 0
  BY <1>6, <1>8, <1>10, InTypeFits DEF Fits
<1> QED
  BY <1>3, <1>7, <1>12, <1>13

(* A shift of a shift gets a joined distance. *)
LEMMA AshrOfAshrKeepsValues ==
  ASSUME CodeInv, ValueInv, AshrOfAshr
  PROVE  ValueInv'
<1>1. currInsn # 0 /\ outcome = "running" /\ Opcode(currInsn) = "ashr"
  BY TurnRuns DEF AshrOfAshr
<1>2. PICK w : Given(w)
  BY <1>1, ValuesGiven
<1>3. PICK c, t, x, n, k, v, e, F, max :
        /\ c = currInsn /\ t = inputs[c][1] /\ x = inputs[t][1] /\ n = NewInsn
        /\ k = SumOfDistances(c) /\ v = [en \in Environments |-> InType(k.value, type)]
        /\ e = ConstantInsn(k, k.type) /\ F = Fresh \ {c} /\ max = Limit
  OBVIOUS
<1>4. /\ insns' = Append(insns, e) /\ meaning' = Append(meaning, v)
      /\ asked' = Append(asked, <<>>)
      /\ code' = InsertAt(code, IndexOf(currInsn) + 1, NewInsn) /\ EndTurn
  BY <1>3 DEF AshrOfAshr, CreateInsn
<1>5. PICK inp, us, h : /\ inp = Append(inputs, <<>>) /\ us = Append(users, <<>>)
                        /\ h = RewireShift([inputs |-> inp, users |-> us], c, x, n)
                        /\ inputs' = h.inputs /\ users' = h.users
  BY <1>3 DEF AshrOfAshr, SetEdges, WithNew, Edges
<1>6. CodeEdit
  <2>1. e.opcode \in Opcodes \ Operations
    BY <1>3 DEF ConstantInsn, Opcodes, Operations
  <2> QED
    BY <1>1, <1>4, <2>1 DEF CodeEdit, CodeAdded
<1>7. /\ Sound(All, Fresh, type, insns, inputs, meaning, asked, w, max)
      /\ Sound(All, F, type, insns, inputs, meaning, asked, w, max)
      /\ c \in All /\ type \in DataTypes /\ insns[c].opcode = "ashr"
      /\ users \in Lists(All, All) /\ inputs \in Lists(All, All) /\ meaning \in [All -> Value]
      /\ w \in [All -> Nat] /\ w[c] \in Nat /\ w[c] <= max
  <2>1. Sound(All, Fresh \ {currInsn}, type, insns, inputs, meaning, asked, w, Limit)
    BY <1>2, LessToVisit
  <2>2. type \in DataTypes
    BY <1>1, ValuesGiven
  <2>3. /\ Sound(All, Fresh, type, insns, inputs, meaning, asked, w, max) /\ c \in All
        /\ users \in Lists(All, All) /\ inputs \in Lists(All, All) /\ meaning \in [All -> Value]
        /\ w \in [All -> Nat]
    BY <1>2, <1>3 DEF Given
  <2>4. w[c] \in Nat /\ w[c] <= max
    BY <2>3, ValueThere
  <2>5. insns[c].opcode = "ashr"
    BY <1>1, <1>3 DEF Opcode
  <2> QED
    BY <1>3, <2>1, <2>2, <2>3, <2>4, <2>5
<1>8. max \in Int /\ NotCutOff(type, max)
  BY <1>3, <1>2, Limits DEF Given, NotCutOff
<1>9. /\ type \in IntTypes /\ ConstantFits(k, type) /\ k.type = "I64" /\ v \in Value
      /\ x \in All /\ w[x] <= w[c]
      /\ \A en \in Environments :
           /\ Computes("ashr", type, meaning[x][en], v[en]) = meaning[c][en]
           /\ w[x] + v[en] <= w[c]
  <2>1. JoinedIs(All, type, inputs, meaning, w, c, t, k, v)
    BY <1>2, <1>3, ShiftsAreJoined, Zenon
  <2>2. x = inputs[t][1]
    BY <1>3
  <2> QED
    BY <2>1, <2>2 DEF JoinedIs
<1>10. InsnSound(type, e, <<>>, v, <<>>, meaning, w, 0)
  <2>1. ResultFits(type, k, k.type)
    BY <1>9 DEF ResultFits
  <2>2. \A en \in Environments : v[en] = InType(k.value, type)
    BY <1>3
  <2>3. \A en \in Environments : Fits(v[en], type)
    BY <1>7, <1>9, <2>2, ConstantIsOne
  <2> QED
    BY <1>3, <1>7, <1>9, <2>1, <2>2, <2>3, ConstantSound
<1>11. PICK w2 : w2 = Heavier(All, n, w, 0)
  OBVIOUS
<1>12. NewInsnIs(n, F, e, <<>>, v, inputs, w2, max)
  <2>1. PICK a, z : a = <<>> /\ z = 0
    OBVIOUS
  <2>2. a \in Seq(Value) /\ a \in Seq(All) /\ z \in Nat /\ z <= max /\ max <= max
    BY <1>7, <1>8, <2>1
  <2>3. InsnSound(type, e, a, v, a, meaning, w, z) /\ asked' = Append(asked, a)
    BY <1>4, <1>10, <2>1
  <2>4. NewInsnIs(n, F, e, a, v, inputs, Heavier(All, n, w, z), max)
    BY <1>3, <1>4, <1>7, <1>8, <1>9, <2>2, <2>3, NewInsnSound
  <2> QED
    BY <1>11, <2>1, <2>4
<1>13. PICK B, ins2, mn2, as2 : B = All' /\ ins2 = insns' /\ mn2 = meaning' /\ as2 = asked'
  OBVIOUS
<1>14. /\ Sound(B, F, type, ins2, inp, mn2, as2, w2, max)
       /\ B = All \cup {n} /\ n \notin All /\ asked' \in [B -> Seq(Value)]
       /\ mn2[n] = v /\ mn2[x] = meaning[x] /\ mn2[c] = meaning[c] /\ ins2[c] = insns[c]
       /\ w2[n] = 0 /\ w2[x] = w[x] /\ w2[c] = w[c]
  <2>1. /\ Sound(All', F, type, insns', Append(inputs, <<>>), meaning', asked', w2, max)
        /\ All' = All \cup {n} /\ n \notin All /\ asked' \in [All' -> Seq(Value)]
        /\ Extended(All, n, v, meaning, meaning') /\ Extended(All, n, e, insns, insns')
    BY <1>12 DEF NewInsnIs
  <2>2. w2[n] = 0 /\ w2[x] = w[x] /\ w2[c] = w[c]
    BY <1>7, <1>9, <1>11, <2>1 DEF Heavier
  <2>3. mn2[n] = v /\ mn2[x] = meaning[x] /\ mn2[c] = meaning[c] /\ ins2[c] = insns[c]
    BY <1>7, <1>9, <1>13, <2>1 DEF Extended
  <2> QED
    BY <1>5, <1>13, <2>1, <2>2, <2>3
<1>15. PICK s : s = <<x, n>>
  OBVIOUS
<1>16. s \in Seq(B) /\ Len(s) = 2 /\ s[1] = x /\ s[2] = n /\ c \in B /\ x \in B /\ n \in B
  BY <1>7, <1>9, <1>14, <1>15
<1>17. InsnWeighs(ins2[c], s, mn2, w2, w2[c])
  BY <1>7, <1>9, <1>14, <1>16 DEF InsnWeighs
<1>18. \A en \in Environments :
         Computes(ins2[c].opcode, type, mn2[s[1]][en], mn2[s[2]][en]) = mn2[c][en]
  BY <1>7, <1>9, <1>14, <1>16
<1>19. Sound(B, F \ {c}, type, ins2, [inp EXCEPT ![c] = s], mn2, as2, w2, max)
  <2>1. ins2[c].opcode \in Operations
    BY <1>7, <1>14 DEF Operations
  <2> QED
    BY <1>14, <1>16, <1>17, <1>18, <2>1, OtherInputs
<1>20. ShiftSet(inp, us, h, c, x, n)
  BY <1>5, ShiftRewired
<1>21. h.inputs = [inp EXCEPT ![c] = s]
  BY <1>15, <1>20 DEF ShiftSet
<1>22. Sound(All', Fresh \ {currInsn}, type, insns', inputs', meaning', asked', w2, Limit)
  <2>1. F \ {c} = Fresh \ {currInsn}
    BY <1>3
  <2> QED
    BY <1>3, <1>5, <1>13, <1>19, <1>21, <2>1
<1>23. h.users \in Lists(B, B)
  <2>1. us \in Lists(B, B)
    <3>1. IsNext(All, n)
      BY <1>12 DEF NewInsnIs
    <3>2. users \in Lists(All, All \cup {n}) /\ <<>> \in Seq(All \cup {n})
      BY <1>7 DEF Lists
    <3>3. OneAdded(All, n, users, <<>>, Append(users, <<>>))
      BY <3>1, <3>2, OneListMore
    <3> QED
      BY <1>5, <1>14, <3>3 DEF OneAdded
  <2>2. inp[c][1] \in B
    <3>1. ins2[c].opcode \in Arithmetic
      BY <1>7, <1>14 DEF Arithmetic, Operations
    <3> QED
      BY <1>14, <1>16, <3>1, OperandsThere
  <2>3. PICK us1, us2 : us1 = RemoveUser(us, inp[c][1], c) /\ us2 = AddUser(us1, x, c)
    OBVIOUS
  <2>4. us1 \in Lists(B, B)
    BY <2>1, <2>2, <2>3, RemoveUserCounts
  <2>5. us2 \in Lists(B, B)
    BY <1>16, <2>3, <2>4, AddUserCounts
  <2>6. AddUser(us2, n, c) \in Lists(B, B)
    BY <1>16, <2>5, AddUserCounts
  <2> QED
    BY <1>20, <2>3, <2>6 DEF ShiftSet
<1>24. users' \in Lists(All', All') /\ asked' \in [All' -> Seq(Value)]
  BY <1>5, <1>13, <1>14, <1>23
<1> QED
  BY <1>4, <1>6, <1>22, <1>24, VisitKeepsValues

-----------------------------------------------------------------------------
(* Building.  What an operation computes is of its type. *)
LEMMA ComputesFits ==
  ASSUME NEW t \in DataTypes, NEW op \in Operations, t \in FloatTypes => op = "mul",
         NEW a, Fits(a, t), NEW b, Fits(b, t)
  PROVE  Fits(Computes(op, t, a, b), t)
<1>1. a \in Int /\ b \in Int
  BY DEF Fits
<1>2. CASE op = "mul"
  <2>1. a * b \in Int
    BY <1>1
  <2>2. PICK v \in Int : v = a * b
    BY <2>1
  <2>3. Computes(op, t, a, b) = InType(v, t)
    BY <1>2, <2>2, ComputesIs
  <2> QED
    BY <2>3, InTypeFits
<1>3. CASE op = "or"
  <2>1. t \in IntTypes
    BY <1>3 DEF DataTypes
  <2>2. a \in Patterns /\ b \in Patterns
    BY <2>1, ZeroFits
  <2>3. PICK v : v = BitOr(a, b)
    OBVIOUS
  <2>4. v \in Int
    <3>1. v \in Patterns
      BY <2>2, <2>3, BitOrIs
    <3> QED
      BY <3>1, PatternsAre
  <2>5. Computes(op, t, a, b) = InType(v, t)
    BY <1>3, <2>3, ComputesIs
  <2> QED
    BY <2>4, <2>5, InTypeFits
<1>4. CASE op = "ashr"
  <2>1. t \in IntTypes
    BY <1>4 DEF DataTypes
  <2>2. PICK k : k = Bits(t) /\ k \in Nat \ {0} /\ a \in 0 .. 2^k - 1 /\ b \in Nat
    BY <2>1, TypeBits DEF Fits
  <2>3. Signed(a, k) \in Int
    BY <2>2, SignedRange
  <2>4. PICK m : m = 2^b /\ m \in Nat \ {0}
    BY <2>2, PowersDouble
  <2>5. Signed(a, k) \div m \in Int
    BY <2>3, <2>4, DivisionIs
  <2>6. Computes(op, t, a, b) = InType(Signed(a, k) \div m, t)
    BY <1>4, <2>2, <2>4, ComputesIs
  <2> QED
    BY <2>5, <2>6, InTypeFits
<1> QED
  BY <1>2, <1>3, <1>4 DEF Operations

(* Of more shifts the same is asked. *)
LEMMA MoreShifts ==
  ASSUME NEW A, NEW F, NEW t, NEW ins, NEW inp, NEW mn, NEW as, NEW w, NEW max,
         Sound(A, F, t, ins, inp, mn, as, w, max), NEW G \in SUBSET A,
         \A i \in G \ F : ins[i].opcode = "ashr" =>
           \A e \in Environments : mn[inp[i][2]][e] < Bits(t)
  PROVE  Sound(A, G, t, ins, inp, mn, as, w, max)
BY DEF Sound

(* Shifts may add up to more. *)
LEMMA HigherLimit ==
  ASSUME NEW A, NEW F, NEW t, NEW ins, NEW inp, NEW mn, NEW as, NEW w, NEW max \in Int,
         Sound(A, F, t, ins, inp, mn, as, w, max), NEW max2 \in Int, max <= max2
  PROVE  Sound(A, F, t, ins, inp, mn, as, w, max2)
<1>1. w \in [A -> Nat] /\ \A i \in A : w[i] <= max
  BY DEF Sound
<1>2. \A i \in A : w[i] <= max2
  BY <1>1
<1> QED
  BY <1>2 DEF Sound

(* A type has some bits. *)
LEMMA SomeBits == Bits(type) - 1 \in Nat
  BY WidthAssumption DEF Bits

(* One more is built, and shifts may add up to one distance more. *)
BuiltGrowsBy(k) ==
  /\ Cardinality(Built) \in Nat /\ Cardinality(Built)' = Cardinality(Built) + k
  /\ Limit \in Nat /\ Limit' = Limit + k * (Bits(type) - 1)

(* It is so for operations; a call adds nothing. *)
LEMMA BuiltGrows ==
  ASSUME CodeInv, runs = 0, NEW n, n = NewInsn, NEW insn, insn.opcode \in Opcodes,
         insns' = Append(insns, insn), code' = Append(code, n),
         UNCHANGED <<operations, currInsn, runs, type>>
  PROVE  /\ InCode' = InCode \cup {n}
         /\ \A i \in InCode : IsOperation(i)' <=> IsOperation(i)
         /\ IsOperation(n)' <=> insn.opcode \in Operations
         /\ insn.opcode \in Operations => BuiltGrowsBy(1)
         /\ insn.opcode \notin Operations => BuiltGrowsBy(0)
<1>1. /\ insns'[n] = insn /\ \A i \in All : insns'[i] = insns[i]
  BY CodeBuilt
<1>2. code \in Seq(1 .. n) /\ n \in 1 .. n /\ n \notin InCode
      /\ InCode \subseteq All
  BY CodeNumbers
<1>3. InCode' = InCode \cup {n}
  BY <1>2, UsesAppend DEF InCode
<1>4. /\ \A i \in InCode : IsOperation(i)' <=> IsOperation(i)
      /\ IsOperation(n)' <=> insn.opcode \in Operations
  BY <1>1, <1>2 DEF IsOperation, Opcode
<1>5. Built' = IF insn.opcode \in Operations THEN Built \cup {n} ELSE Built
  BY <1>3, <1>4 DEF Built
<1>6. IsFiniteSet(Built) /\ n \notin Built
  <2>1. IsFiniteSet(All)
    <3>1. 1 \in Int /\ Len(insns) \in Int
      BY CodeNumbers
    <3> QED
      BY <3>1, FS_Interval, Zenon DEF All
  <2>2. Built \in SUBSET All
    BY <1>2 DEF Built
  <2> QED
    BY <1>2, <2>1, <2>2, FS_Subset DEF Built
<1>7. /\ Cardinality(Built) \in Nat
      /\ Cardinality(Built \cup {n}) = Cardinality(Built) + 1
  BY <1>6, FS_CardinalityType, FS_AddElement
<1>8. PICK b \in Nat, m \in Nat : b = Bits(type) - 1 /\ m = Cardinality(Built)
  BY <1>7, SomeBits
<1>9. Limit = m * b /\ Limit' = Cardinality(Built') * b
  BY <1>8 DEF Limit, Bits
<1>10. CASE insn.opcode \in Operations
  <2>1. Cardinality(Built') = m + 1
    BY <1>5, <1>7, <1>8, <1>10
  <2>2. (m + 1) * b = m * b + 1 * b /\ m * b \in Nat
    BY <1>8
  <2>3. BuiltGrowsBy(1)
    BY <1>8, <1>9, <2>1, <2>2 DEF BuiltGrowsBy
  <2> QED
    BY <1>3, <1>4, <1>10, <2>3
<1>11. CASE insn.opcode \notin Operations
  <2>1. Cardinality(Built') = m + 0
    BY <1>5, <1>8, <1>11
  <2>2. m * b = m * b + 0 * b /\ m * b \in Nat
    BY <1>8
  <2>3. BuiltGrowsBy(0)
    BY <1>8, <1>9, <2>1, <2>2 DEF BuiltGrowsBy
  <2> QED
    BY <1>3, <1>4, <1>11, <2>3
<1> QED
  BY <1>10, <1>11

(* The phi takes one more value. *)
AsksOnce(inp, as, mn, i, d, inp2, as2) ==
  /\ inp2 = [inp EXCEPT ![i] = Append(@, d)]
  /\ as2 = [as EXCEPT ![i] = Append(@, mn[d])]

(* That concerns no values but those it was given. *)
LEMMA OneAsked ==
  ASSUME NEW A, NEW F, NEW t, NEW ins, NEW inp, NEW mn, NEW as, NEW w, NEW max,
         Sound(A, F, t, ins, inp, mn, as, w, max), as \in [A -> Seq(Value)],
         NEW i \in A, ins[i].opcode = "phi", NEW d \in A,
         NEW inp2, NEW as2, AsksOnce(inp, as, mn, i, d, inp2, as2)
  PROVE  Sound(A, F, t, ins, inp2, mn, as2, w, max) /\ as2 \in [A -> Seq(Value)]
<1>1. /\ inp \in Lists(A, A) /\ mn \in [A -> Value] /\ inp[i] \in Seq(A)
      /\ as[i] \in Seq(Value) /\ mn[d] \in Value
  BY DEF Sound, Lists
<1>2. PICK s, g, v : s = inp[i] /\ g = as[i] /\ v = mn[d]
  OBVIOUS
<1>3. /\ inp2 \in Lists(A, A) /\ inp2[i] = Append(s, d) /\ \A j \in A : j # i => inp2[j] = inp[j]
      /\ as2 \in [A -> Seq(Value)] /\ as2[i] = Append(g, v) /\ \A j \in A : j # i => as2[j] = as[j]
  <2>1. PICK s2, g2 : s2 = Append(s, d) /\ g2 = Append(g, v)
    OBVIOUS
  <2>2. s2 \in Seq(A) /\ g2 \in Seq(Value)
    <3>1. s \in Seq(A) /\ g \in Seq(Value) /\ v \in Value
      BY <1>1, <1>2, Zenon
    <3>2. Append(s, d) \in Seq(A) /\ Append(g, v) \in Seq(Value)
      BY <3>1, AppendProperties, Zenon
    <3> QED
      BY <2>1, <3>2, Zenon
  <2>3. inp2 = [inp EXCEPT ![i] = s2] /\ as2 = [as EXCEPT ![i] = g2]
    BY <1>2, <2>1 DEF AsksOnce
  <2>4. inp \in [A -> Seq(A)]
    BY <1>1 DEF Lists
  <2>5. inp2 \in [A -> Seq(A)] /\ inp2[i] = s2 /\ \A j \in A : j # i => inp2[j] = inp[j]
    BY <2>2, <2>3, <2>4
  <2>6. as2 \in [A -> Seq(Value)] /\ as2[i] = g2 /\ \A j \in A : j # i => as2[j] = as[j]
    BY <2>2, <2>3
  <2> QED
    BY <2>1, <2>5, <2>6 DEF Lists
<1>4. [k \in DOMAIN s |-> mn[s[k]]] = g
  BY <1>2 DEF Sound, InsnSound, InsnMeans, Excepted
<1>5. [k \in DOMAIN Append(s, d) |-> mn[Append(s, d)[k]]] = Append(g, v)
  <2>1. s \in Seq(A) /\ g \in Seq(Value) /\ v \in Value
    BY <1>1, <1>2
  <2>2. Len(g) = Len(s) /\ \A k \in 1 .. Len(s) : g[k] = mn[s[k]]
    BY <1>4, <2>1
  <2>3. PICK s2, g2 : s2 = Append(s, d) /\ g2 = Append(g, v)
    OBVIOUS
  <2>4. /\ s2 \in Seq(A) /\ g2 \in Seq(Value) /\ Len(s2) = Len(g2)
        /\ \A k \in 1 .. Len(s2) : g2[k] = mn[s2[k]]
    <3>1. PICK m \in Nat : m = Len(s)
      BY <2>1
    <3>2. /\ s2 \in Seq(A) /\ Len(s2) = m + 1 /\ s2[m + 1] = d
          /\ \A k \in 1 .. m : s2[k] = s[k]
      BY <2>1, <2>3, <3>1
    <3>3. /\ g2 \in Seq(Value) /\ Len(g2) = m + 1 /\ g2[m + 1] = v
          /\ \A k \in 1 .. m : g2[k] = g[k]
      BY <2>1, <2>2, <2>3, <3>1
    <3>4. \A k \in 1 .. m : g2[k] = mn[s2[k]]
      BY <2>2, <3>1, <3>2, <3>3
    <3>5. g2[m + 1] = mn[s2[m + 1]]
      BY <1>2, <3>2, <3>3
    <3>6. \A k \in 1 .. m + 1 : k \in 1 .. m \/ k = m + 1
      OBVIOUS
    <3> QED
      BY <3>2, <3>3, <3>4, <3>5, <3>6
  <2>5. DOMAIN s2 = 1 .. Len(s2) /\ g2 = [k \in 1 .. Len(s2) |-> g2[k]]
    BY <2>4
  <2>6. [k \in DOMAIN s2 |-> mn[s2[k]]] = g2
    BY <2>4, <2>5
  <2> QED
    BY <2>3, <2>6
<1>6. InsnSound(t, ins[i], inp2[i], mn[i], as2[i], mn, w, w[i]) /\ w[i] <= max
  <2>1. InsnSound(t, ins[i], inp[i], mn[i], as[i], mn, w, w[i]) /\ w[i] <= max
    BY DEF Sound
  <2>2. InsnTyped(t, ins[i], inp2[i]) /\ InsnWeighs(ins[i], inp2[i], mn, w, w[i])
    BY <2>1 DEF InsnSound, InsnTyped, InsnWeighs, Arithmetic, Operations
  <2>3. InsnMeans(t, ins[i], inp2[i], mn[i], as2[i], mn)
    <3>1. ins[i].opcode \notin Arithmetic /\ ins[i].opcode # "const"
      BY DEF Arithmetic, Operations
    <3>2. [k \in DOMAIN inp2[i] |-> mn[inp2[i][k]]] = as2[i]
      <4>1. PICK s2 : s2 = Append(s, d)
        OBVIOUS
      <4>2. [k \in DOMAIN s2 |-> mn[s2[k]]] = as2[i] /\ inp2[i] = s2
        BY <1>3, <1>5, <4>1
      <4> QED
        BY <4>2
    <3> QED
      BY <3>1, <3>2, Zenon DEF InsnMeans
  <2> QED
    BY <2>1, <2>2, <2>3 DEF InsnSound
<1>7. \A j \in A : InsnSound(t, ins[j], inp2[j], mn[j], as2[j], mn, w, w[j]) /\ w[j] <= max
  <2> SUFFICES ASSUME NEW j \in A
               PROVE  InsnSound(t, ins[j], inp2[j], mn[j], as2[j], mn, w, w[j]) /\ w[j] <= max
    OBVIOUS
  <2>1. InsnSound(t, ins[j], inp[j], mn[j], as[j], mn, w, w[j]) /\ w[j] <= max
    BY DEF Sound
  <2> QED
    BY <1>3, <1>6, <2>1
<1>8. \A j \in F : ins[j].opcode = "ashr" => \A e \in Environments : mn[inp2[j][2]][e] < Bits(t)
  BY <1>3 DEF Sound
<1> QED
  BY <1>3, <1>7, <1>8 DEF Sound

(* An instruction is built. *)
LEMMA CreateKeepsValues ==
  ASSUME CodeInv, ValueInv, runs = 0, NEW n, n = NewInsn,
         NEW insn, insn.opcode \in Operations \cup {"call"},
         NEW s \in Seq(All), NEW us \in Lists(All, All \cup {n}),
         NEW v \in Value, NEW a \in Seq(Value), CreateInstruction(insn, s, us, v, a),
         NEW w, Sound(All, Fresh, type, insns, inputs, meaning, asked, w, Limit),
         NEW k \in Nat, InsnSound(type, insn, s, v, a, meaning, w, k),
         insn.opcode = "call" => k = 0,
         insn.opcode \in Operations =>
           k <= Limit + (Bits(type) - 1) /\ Cardinality(Built) < MAX_OPERATIONS,
         insn.opcode = "ashr" => \A e \in Environments : meaning[s[2]][e] < Bits(type)
  PROVE  ValueInv'
<1>1. /\ insns' = Append(insns, insn) /\ inputs' = Append(inputs, s)
      /\ users' = Append(us, <<>>)
      /\ code' = Append(code, n) /\ meaning' = Append(meaning, v) /\ asked' = Append(asked, a)
      /\ UNCHANGED <<type, operations, currInsn, runs, outcome>>
  BY DEF CreateInstruction
<1>2. insn.opcode \in Opcodes /\ "call" \notin Operations
  BY DEF Opcodes, Operations
<1>3. /\ InCode' = InCode \cup {n}
      /\ \A i \in InCode : IsOperation(i)' <=> IsOperation(i)
      /\ IsOperation(n)' <=> insn.opcode \in Operations
      /\ insn.opcode \in Operations => BuiltGrowsBy(1)
      /\ insn.opcode \notin Operations => BuiltGrowsBy(0)
  BY <1>1, <1>2, BuiltGrows
<1>4. PICK max, max2 : max = Limit /\ max2 = Limit'
  OBVIOUS
<1>5. /\ max \in Int /\ max2 \in Int /\ max <= max2 /\ k <= max2
      /\ Cardinality(Built)' <= MAX_OPERATIONS
  <2>1. PICK b \in Nat : b = Bits(type) - 1
    BY SomeBits
  <2>2. MAX_OPERATIONS \in Nat
    BY PeepholesAssumption
  <2>3. CASE insn.opcode \in Operations
    <3>1. /\ Cardinality(Built) \in Nat /\ Cardinality(Built)' = Cardinality(Built) + 1
          /\ max \in Nat /\ max2 = max + 1 * b
      BY <1>3, <1>4, <2>1, <2>3 DEF BuiltGrowsBy
    <3>2. max2 = max + b
      BY <2>1, <3>1
    <3>3. k <= max + b
      BY <1>4, <2>1, <2>3
    <3>4. Cardinality(Built)' <= MAX_OPERATIONS
      BY <2>2, <2>3, <3>1
    <3> QED
      BY <2>1, <3>1, <3>2, <3>3, <3>4
  <2>4. CASE insn.opcode \notin Operations
    <3>1. /\ Cardinality(Built)' = Cardinality(Built) + 0 /\ Cardinality(Built) \in Nat
          /\ max \in Nat /\ max2 = max + 0 * b
      BY <1>3, <1>4, <2>1, <2>4 DEF BuiltGrowsBy
    <3>2. max2 = max
      BY <2>1, <3>1
    <3>3. k = 0
      BY <2>4
    <3>4. Cardinality(Built)' <= MAX_OPERATIONS
      BY <3>1 DEF ValueInv
    <3> QED
      BY <3>1, <3>2, <3>3, <3>4
  <2> QED
    BY <2>3, <2>4
<1>6. PICK w2, F : w2 = Heavier(All, n, w, k) /\ F = Fresh
  OBVIOUS
<1>7. NewInsnIs(n, F, insn, s, v, inputs, w2, max2)
  <2>1. Sound(All, F, type, insns, inputs, meaning, asked, w, max)
    BY <1>4, <1>6
  <2>2. NewInsnIs(n, F, insn, s, v, inputs, Heavier(All, n, w, k), max2)
    BY <1>1, <1>5, <2>1, NewInsnSound
  <2> QED
    BY <1>6, <2>2
<1>8. PICK B, G, ins2, inp2, mn2, as2 :
        /\ B = All' /\ G = Fresh' /\ ins2 = insns' /\ inp2 = inputs'
        /\ mn2 = meaning' /\ as2 = asked'
  OBVIOUS
<1>9. /\ Sound(B, F, type, ins2, inp2, mn2, as2, w2, max2)
      /\ IsNext(All, n) /\ B = All \cup {n} /\ n \notin All /\ asked' \in [B -> Seq(Value)]
      /\ ins2[n] = insn /\ inp2[n] = s /\ \A i \in All : mn2[i] = meaning[i]
      /\ \A i \in All : ins2[i] = insns[i]
  BY <1>1, <1>7, <1>8 DEF NewInsnIs, Extended
<1>10. G \in SUBSET B /\ \A i \in G \ F : i = n
  <2> SUFFICES ASSUME NEW i \in G PROVE i \in B /\ (i \in F \/ i = n)
    OBVIOUS
  <2>1. i \in InCode' /\ IsOperation(i)'
    BY <1>1, <1>8 DEF Fresh
  <2>2. CASE i = n
    BY <1>9, <2>2
  <2>3. CASE i # n
    <3>1. i \in InCode /\ IsOperation(i)
      BY <1>3, <2>1, <2>3
    <3>2. Settled = {}
      BY NothingSettled
    <3> QED
      BY <1>6, <1>9, <3>1, <3>2, CodeNumbers DEF Fresh
  <2> QED
    BY <2>2, <2>3
<1>11. ASSUME NEW i \in G \ F, ins2[i].opcode = "ashr", NEW e \in Environments
       PROVE  mn2[inp2[i][2]][e] < Bits(type)
  <2>1. i = n /\ insn.opcode = "ashr" /\ inp2[i] = s
    BY <1>9, <1>10, <1>11
  <2>2. meaning[s[2]][e] < Bits(type)
    BY <2>1
  <2>3. s[2] \in All
    <3>1. Len(s) = 2
      BY <2>1 DEF InsnSound, InsnTyped, Arithmetic, Operations
    <3> QED
      BY <3>1, TwoInputs, Zenon
  <2> QED
    BY <1>9, <2>1, <2>2, <2>3
<1>12. Sound(B, G, type, ins2, inp2, mn2, as2, w2, max2)
  BY <1>9, <1>10, <1>11, MoreShifts
<1>13. Sound(All', Fresh', type', insns', inputs', meaning', asked', w2, Limit')
  BY <1>1, <1>4, <1>8, <1>12
<1>14. users' \in Lists(All', All') /\ asked' \in [All' -> Seq(Value)]
  <2>1. <<>> \in Seq(All \cup {n})
    OBVIOUS
  <2>2. OneAdded(All, n, us, <<>>, Append(us, <<>>))
    BY <1>9, <2>1, OneListMore
  <2> QED
    BY <1>1, <1>8, <1>9, <2>2 DEF OneAdded
<1>15. type' \in DataTypes /\ (type' \in FloatTypes => operations' \subseteq {"mul"})
  BY <1>1 DEF ValueInv
<1> QED
  BY <1>5, <1>13, <1>14, <1>15 DEF ValueInv

(* An operation is built. *)
LEMMA OperationKeepsValues ==
  ASSUME CodeInv, ValueInv, runs = 0, NEW op \in operations, NEW a \in InCode, NEW b \in InCode,
         CreateOperation(op, a, b), Cardinality(Built) < MAX_OPERATIONS
  PROVE  ValueInv'
<1>1. PICK n, insn, s, us, v :
        /\ n = NewInsn /\ insn = Insn(op, type) /\ s = <<a, b>>
        /\ us = ArithmeticUsers(users, a, b, n)
        /\ v = [e \in Environments |-> Computes(op, type, meaning[a][e], meaning[b][e])]
  OBVIOUS
<1>2. /\ CreateInstruction(insn, s, us, v, <<>>)
      /\ op = "ashr" => \A e \in Environments : meaning[b][e] < Bits(type)
  BY <1>1 DEF CreateOperation
<1>3. PICK w : Sound(All, Fresh, type, insns, inputs, meaning, asked, w, Limit)
  BY DEF ValueInv
<1>4. a \in All /\ b \in All /\ n \notin All /\ users \in Lists(All, All) /\ type \in DataTypes
  BY <1>1, CodeNumbers DEF ValueInv
<1>5. us \in Lists(All, All \cup {n})
  BY <1>1, <1>4, OperandsListOnce
<1>6. /\ w[a] \in Nat /\ w[a] <= Limit /\ w[b] \in Nat /\ w[b] <= Limit
      /\ \A e \in Environments :
           /\ meaning[a][e] \in Int /\ Fits(meaning[a][e], type)
           /\ meaning[b][e] \in Int /\ Fits(meaning[b][e], type)
  BY <1>3, <1>4, ValueThere
<1>7. op \in Operations /\ (type \in FloatTypes => op = "mul")
  BY DEF CodeInv, ValueInv
<1>8. \A e \in Environments : Fits(v[e], type) /\ v[e] \in Int
  <2> SUFFICES ASSUME NEW e \in Environments PROVE Fits(v[e], type) /\ v[e] \in Int
    OBVIOUS
  <2>1. PICK p, q : p = meaning[a][e] /\ q = meaning[b][e] /\ Fits(p, type) /\ Fits(q, type)
    BY <1>6
  <2>2. Fits(Computes(op, type, p, q), type)
    BY <1>4, <1>7, <2>1, ComputesFits
  <2>3. v[e] = Computes(op, type, p, q)
    BY <1>1, <2>1
  <2> QED
    BY <2>2, <2>3 DEF Fits
<1>9. v \in Value
  BY <1>1, <1>8 DEF Value
<1>10. /\ insn.opcode = op /\ insn.resultType = type /\ s \in Seq(All) /\ Len(s) = 2
       /\ s[1] = a /\ s[2] = b
  BY <1>1, <1>4 DEF Insn
<1>11. PICK d \in Nat, max \in Nat : d = Bits(type) - 1 /\ max = Limit
  <2>1. PICK d \in Nat : d = Bits(type) - 1
    BY SomeBits
  <2>2. PICK m \in Nat : m = Cardinality(Built)
    <3>1. IsFiniteSet(All) /\ Built \in SUBSET All
      <4>1. 1 \in Int /\ Len(insns) \in Int
        BY CodeNumbers
      <4> QED
        BY <4>1, FS_Interval, CodeNumbers, Zenon DEF All, Built
    <3> QED
      BY <3>1, FS_Subset, FS_CardinalityType
  <2>3. Limit = m * d
    BY <2>1, <2>2 DEF Limit
  <2>4. Limit \in Nat
    BY <2>3
  <2> QED
    BY <2>1, <2>4
<1>12. PICK k \in Nat : k = max + d
  BY <1>11
<1>13. InsnWeighs(insn, s, meaning, w, k)
  <2>1. w[a] <= k /\ w[b] <= k
    BY <1>6, <1>11, <1>12
  <2>2. ASSUME op = "ashr", NEW e \in Environments PROVE w[a] + meaning[b][e] <= k
    <3>1. PICK q, p : q = meaning[b][e] /\ q \in Int /\ p = Bits(type)
      BY <1>6
    <3>2. q < p /\ p = d + 1
      <4>1. d = p - 1 /\ p \in Int
        BY <1>11, <3>1, WidthAssumption DEF Bits
      <4> QED
        BY <1>2, <2>2, <3>1, <4>1
    <3> QED
      BY <1>6, <1>11, <1>12, <3>1, <3>2
  <2> QED
    BY <1>10, <2>1, <2>2 DEF InsnWeighs
<1>14. InsnSound(type, insn, s, v, <<>>, meaning, w, k)
  <2>1. InsnTyped(type, insn, s)
    BY <1>7, <1>10 DEF InsnTyped, Opcodes, Operations
  <2>2. InsnMeans(type, insn, s, v, <<>>, meaning)
    BY <1>1, <1>7, <1>10 DEF InsnMeans, Operations
  <2> QED
    BY <1>8, <1>13, <2>1, <2>2 DEF InsnSound
<1>15. PICK g : g = <<>>
  OBVIOUS
<1>16. /\ g \in Seq(Value) /\ CreateInstruction(insn, s, us, v, g)
       /\ InsnSound(type, insn, s, v, g, meaning, w, k)
  BY <1>2, <1>14, <1>15
<1>17. /\ insn.opcode \in Operations \cup {"call"} /\ insn.opcode # "call"
       /\ k <= Limit + (Bits(type) - 1)
       /\ insn.opcode = "ashr" => \A e \in Environments : meaning[s[2]][e] < Bits(type)
  BY <1>2, <1>7, <1>10, <1>11, <1>12 DEF Operations
<1> QED
  BY <1>1, <1>3, <1>5, <1>9, <1>10, <1>16, <1>17, CreateKeepsValues

(* A call is built. *)
LEMMA CallKeepsValues ==
  ASSUME CodeInv, ValueInv, runs = 0, NEW s \in Seq(InCode), CreateCall(s)
  PROVE  ValueInv'
<1>1. PICK n, insn, us, v, a :
        /\ n = NewInsn /\ insn = Insn("call", "VOID") /\ us = AddToUsers(users, s, n)
        /\ v = NoValue /\ a = Meanings(s)
  OBVIOUS
<1>2. CreateInstruction(insn, s, us, v, a)
  BY <1>1 DEF CreateCall
<1>3. PICK w : Sound(All, Fresh, type, insns, inputs, meaning, asked, w, Limit)
  BY DEF ValueInv
<1>4. /\ n \notin All /\ users \in Lists(All, All) /\ type \in DataTypes
      /\ meaning \in [All -> Value]
  BY <1>1, <1>3, CodeNumbers DEF ValueInv, Sound
<1>5. s \in Seq(All)
  <2>1. Seq(InCode) \subseteq Seq(All)
    BY CodeNumbers, ListsGrow
  <2> QED
    BY <2>1
<1>6. us \in Lists(All, All \cup {n})
  <2>1. Seq(All) \subseteq Seq(All \cup {n})
    BY ListsGrow
  <2>2. users \in Lists(All, All \cup {n}) /\ n \in All \cup {n}
    BY <1>4, <2>1 DEF Lists
  <2> QED
    BY <1>1, <1>5, <2>2, AddToUsersEnters
<1>7. /\ v \in Value /\ \A e \in Environments : Fits(v[e], type)
  <2>1. v = [e \in Environments |-> 0] /\ Fits(0, type)
    BY <1>1, <1>4, ZeroFits DEF NoValue
  <2> QED
    BY <2>1 DEF Value
<1>8. a \in Seq(Value) /\ a = [k \in DOMAIN s |-> meaning[s[k]]]
  <2>1. a = [k \in DOMAIN s |-> meaning[s[k]]]
    BY <1>1 DEF Meanings
  <2> QED
    BY <1>4, <1>5, <2>1
<1>9. insn.opcode = "call"
  BY <1>1 DEF Insn
<1>10. InsnSound(type, insn, s, v, a, meaning, w, 0)
  <2>1. insn.opcode \in Opcodes /\ insn.opcode \notin Arithmetic /\ insn.opcode # "const"
    BY <1>9 DEF Opcodes, Arithmetic, Operations
  <2>2. InsnTyped(type, insn, s) /\ InsnWeighs(insn, s, meaning, w, 0)
    BY <2>1 DEF InsnTyped, InsnWeighs, Arithmetic
  <2>3. InsnMeans(type, insn, s, v, a, meaning)
    BY <1>8, <2>1, Zenon DEF InsnMeans
  <2> QED
    BY <1>7, <2>2, <2>3 DEF InsnSound
<1>11. insn.opcode \notin Operations /\ insn.opcode # "ashr"
  BY <1>9 DEF Operations
<1> QED
  BY <1>1, <1>2, <1>3, <1>5, <1>6, <1>7, <1>8, <1>9, <1>10, <1>11, CreateKeepsValues

(* The phi takes a value. *)
LEMMA ResolveKeepsValues ==
  ASSUME CodeInv, ValueInv, EdgesInv, NEW d \in InCode, ResolveDependency(d)
  PROVE  ValueInv'
<1>1. /\ inputs' = [inputs EXCEPT ![Phi] = Append(@, d)]
      /\ users' = AddUser(users, d, Phi)
      /\ asked' = [asked EXCEPT ![Phi] = Append(@, meaning[d])]
      /\ UNCHANGED <<type, operations, insns, meaning, code, currInsn, runs, outcome>>
  BY DEF ResolveDependency, program
<1>2. /\ All' = All /\ Fresh' = Fresh /\ Limit' = Limit /\ Built' = Built
      /\ \A i : IsOperation(i)' <=> IsOperation(i)
  BY <1>1 DEF All, Fresh, Limit, Settled, InCode, IsOperation, Opcode, Built
<1>3. PICK w : Sound(All, Fresh, type, insns, inputs, meaning, asked, w, Limit)
  BY DEF ValueInv
<1>4. /\ Phi \in All /\ d \in All /\ insns[Phi].opcode = "phi"
      /\ asked \in [All -> Seq(Value)] /\ users \in Lists(All, All)
  BY CodeNumbers DEF EdgesInv, Opcode, ValueInv
<1>5. /\ Sound(All, Fresh, type, insns, inputs', meaning, asked', w, Limit)
      /\ asked' \in [All -> Seq(Value)]
  <2>1. PICK inp2, as2 : inp2 = inputs' /\ as2 = asked'
    OBVIOUS
  <2>2. AsksOnce(inputs, asked, meaning, Phi, d, inp2, as2)
    BY <1>1, <2>1 DEF AsksOnce
  <2>3. Sound(All, Fresh, type, insns, inp2, meaning, as2, w, Limit) /\ as2 \in [All -> Seq(Value)]
    BY <1>3, <1>4, <2>2, OneAsked
  <2> QED
    BY <2>1, <2>3
<1>6. users' \in Lists(All, All)
  BY <1>1, <1>4, AddUserCounts
<1>7. Sound(All', Fresh', type', insns', inputs', meaning', asked', w, Limit')
  BY <1>1, <1>2, <1>5
<1> QED
  BY <1>1, <1>2, <1>5, <1>6, <1>7 DEF ValueInv

(* Building keeps the values. *)
LEMMA BuildKeepsValues ==
  ASSUME CodeInv, ValueInv, EdgesInv, Build
  PROVE  ValueInv'
<1>1. runs = 0
  BY DEF Build
<1>2. ASSUME NEW op \in operations, NEW s \in Operands, CreateOperation(op, s[1], s[2])
      PROVE  ValueInv'
  <2>1. s[1] \in InCode /\ s[2] \in InCode /\ Cardinality(Built) # MAX_OPERATIONS
    BY DEF Operands
  <2>2. Cardinality(Built) < MAX_OPERATIONS
    <3>1. Cardinality(Built) <= MAX_OPERATIONS /\ MAX_OPERATIONS \in Nat
      BY <1>1, PeepholesAssumption DEF ValueInv
    <3>2. Cardinality(Built) \in Nat
      <4>1. IsFiniteSet(All) /\ Built \in SUBSET All
        <5>1. 1 \in Int /\ Len(insns) \in Int
          BY CodeNumbers
        <5> QED
          BY <5>1, FS_Interval, CodeNumbers, Zenon DEF All, Built
      <4> QED
        BY <4>1, FS_Subset, FS_CardinalityType
    <3> QED
      BY <2>1, <3>1, <3>2
  <2> QED
    BY <1>1, <1>2, <2>1, <2>2, OperationKeepsValues
<1>3. ASSUME Built # {}, NEW k \in 1 .. MAX_ARGUMENTS,
             CreateCall([m \in 1 .. MAX_ARGUMENTS |-> IF m < k THEN Phi ELSE LastBuilt])
      PROVE  ValueInv'
  <2>1. LastBuilt \in InCode /\ Phi \in InCode /\ MAX_ARGUMENTS \in Nat
    BY <1>3, LastIsBuilt, PeepholesAssumption DEF EdgesInv
  <2>2. [m \in 1 .. MAX_ARGUMENTS |-> IF m < k THEN Phi ELSE LastBuilt] \in Seq(InCode)
    BY <2>1
  <2> QED
    BY <1>1, <1>3, <2>2, CallKeepsValues
<1>4. ASSUME Built # {}, ResolveDependency(LastBuilt) PROVE ValueInv'
  BY <1>4, LastIsBuilt, ResolveKeepsValues
<1> QED
  BY <1>2, <1>3, <1>4 DEF Build

-----------------------------------------------------------------------------
(* The values are kept.  The first instructions. *)
FirstOnes(start, t) ==
  <<Insn("phi", t)>>
    \o [k \in DOMAIN start.pool |-> ConstantInsn(start.pool[k], ResultTypeOf(start.pool[k]))]

(* All but the phi are constants of the program. *)
AreConstants(s, start) ==
  \A i \in 1 .. Len(s) :
    i # Phi => \E k \in DOMAIN start.pool :
                 s[i] = ConstantInsn(start.pool[k], ResultTypeOf(start.pool[k]))

(* So they are. *)
LEMMA FirstAreConstants ==
  ASSUME NEW start \in Starts, NEW t
  PROVE  AreConstants(FirstOnes(start, t), start)
<1> DEFINE s == FirstOnes(start, t)
<1> DEFINE consts == [k \in DOMAIN start.pool |->
                        ConstantInsn(start.pool[k], ResultTypeOf(start.pool[k]))]
           S == {Insn("phi", t)}
                  \cup {ConstantInsn(start.pool[k], ResultTypeOf(start.pool[k])) :
                          k \in DOMAIN start.pool}
<1>1. DOMAIN start.pool = 1 .. Len(start.pool) /\ Len(start.pool) \in Nat
  <2>1. start.pool \in Seq([value : Int, type : DataTypes])
    BY PeepholesAssumption
  <2> QED
    BY <2>1
<1>2. consts \in Seq(S) /\ <<Insn("phi", t)>> \in Seq(S)
  BY <1>1
<1>3. \A k \in 1 .. Len(consts) :
        /\ k \in DOMAIN start.pool
        /\ consts[k] = ConstantInsn(start.pool[k], ResultTypeOf(start.pool[k]))
  BY <1>1
<1> HIDE DEF consts, S, s
<1>4. Len(s) = Len(consts) + 1 /\ \A j \in 1 .. Len(s) : j # 1 => s[j] = consts[j - 1]
  BY <1>2 DEF consts, s, FirstOnes
<1>5. Len(consts) \in Nat /\ \A j \in 1 .. Len(s) : j # 1 => j - 1 \in 1 .. Len(consts)
  BY <1>2, <1>4
<1>6. AreConstants(s, start)
  BY <1>3, <1>4, <1>5 DEF AreConstants, Phi
<1> QED
  BY <1>6 DEF s

(* The constants a program begins with are of its type. *)
LEMMA PoolFits ==
  ASSUME NEW start \in Starts, NEW k \in DOMAIN start.pool
  PROVE  start.type \in DataTypes /\ ConstantFits(start.pool[k], start.type)
<1>1. /\ start.type \in DataTypes
      /\ start.pool \in Seq([value : Int, type : DataTypes])
      /\ \/ start.type \in FloatTypes /\ start.pool[k].type \in FloatTypes
         \/ start.pool[k].type \in {"I64", "U64"} /\ start.pool[k].value \in Patterns
  <2>1. /\ start.type \in DataTypes
        /\ start.pool \in Seq([value : Int, type : DataTypes])
        /\ \/ start.type \in FloatTypes /\ start.pool[k].type \in FloatTypes
           \/ /\ start.pool[k].type \in {"I64", "U64"}
              /\ start.pool[k].value \in
                   IF start.type \in FloatTypes THEN Patterns \cap 0 .. WIDTH ELSE Patterns
    BY PeepholesAssumption
  <2> QED
    BY <2>1
<1>2. start.pool[k] \in [value : Int, type : DataTypes]
  <2>1. PICK p, R : p = start.pool /\ R = [value : Int, type : DataTypes]
    OBVIOUS
  <2>2. p \in Seq(R) /\ k \in DOMAIN p
    BY <1>1, <2>1
  <2>3. p[k] \in R
    BY <2>2
  <2> QED
    BY <2>1, <2>3
<1> QED
  BY <1>1, <1>2 DEF ConstantFits

(* At the start everything has its value. *)
LEMMA ValueInvInit == PeepholesInit => ValueInv
<1> SUFFICES ASSUME PeepholesInit PROVE ValueInv
  OBVIOUS
<1>1. PICK start \in Starts :
        /\ type = start.type /\ operations = start.operations
        /\ insns = <<Insn("phi", type)>>
                     \o [k \in DOMAIN start.pool |->
                           ConstantInsn(start.pool[k], ResultTypeOf(start.pool[k]))]
        /\ inputs = [i \in DOMAIN insns |-> <<>>] /\ users = inputs
        /\ code = [i \in DOMAIN insns |-> i]
        /\ currInsn = 0 /\ runs = 0 /\ outcome = "running"
        /\ meaning = [i \in DOMAIN insns |->
                        [e \in Environments |->
                           InType(IF i = Phi THEN e ELSE insns[i].constant.value, type)]]
        /\ asked = inputs
  BY DEF PeepholesInit
<1>2. /\ Len(insns) \in Nat \ {0} /\ DOMAIN insns = All /\ insns[Phi] = Insn("phi", type)
      /\ \A i \in All : i # Phi => insns[i].opcode = "const"
  <2>1. insns = <<Insn("phi", type)>>
                  \o [k \in DOMAIN start.pool |->
                        ConstantInsn(start.pool[k], ResultTypeOf(start.pool[k]))]
    BY <1>1
  <2> QED
    BY <2>1, FirstInsns DEF All
<1>3. type \in DataTypes /\ (type \in FloatTypes => operations \subseteq {"mul"})
  BY <1>1, PeepholesAssumption
<1>4. \A i \in All : ~IsOperation(i)
  BY <1>2 DEF IsOperation, Opcode, Operations, Insn
<1>5. InCode \subseteq All
  BY CodeInvInit, CodeNumbers
<1>6. Fresh = {} /\ Built = {}
  BY <1>4, <1>5 DEF Fresh, Built
<1>7. Cardinality(Built) = 0 /\ Limit = 0
  <2>1. Cardinality(Built) = 0
    BY <1>6, FS_EmptySet
  <2>2. PICK b \in Nat : b = Bits(type) - 1
    BY SomeBits
  <2>3. Limit = 0 * b
    BY <1>1, <2>1, <2>2 DEF Limit
  <2> QED
    BY <2>1, <2>3
<1>8. inputs \in Lists(All, All) /\ users \in Lists(All, All) /\ asked \in [All -> Seq(Value)]
  <2>1. <<>> \in Seq(All) /\ <<>> \in Seq(Value)
    OBVIOUS
  <2> QED
    BY <1>1, <1>2, <2>1 DEF Lists
<1>9. PICK w : w = [i \in All |-> 0]
  OBVIOUS
<1>10. ASSUME NEW i \in All
       PROVE  /\ InsnSound(type, insns[i], inputs[i], meaning[i], asked[i], meaning, w, w[i])
              /\ meaning[i] \in Value
  <2>1. inputs[i] = <<>> /\ asked[i] = <<>>
    BY <1>1, <1>2
  <2>2. CASE i = Phi
    <3>0. Environments \subseteq Nat
      BY PeepholesAssumption
    <3>1. \A e \in Environments : meaning[i][e] = InType(e, type) /\ e \in Int
      <4>1. meaning[i] = [e \in Environments |->
                            InType(IF i = Phi THEN e ELSE insns[i].constant.value, type)]
        BY <1>1, <1>2, Zenon
      <4>2. \A e \in Environments : meaning[i][e] = InType(e, type)
        BY <2>2, <4>1, Zenon
      <4>3. \A e \in Environments : e \in Int
        BY <3>0
      <4> QED
        BY <4>2, <4>3, Zenon
    <3>2. \A e \in Environments : Fits(meaning[i][e], type) /\ meaning[i][e] \in Int
      BY <1>3, <3>1, InTypeFits DEF Fits
    <3>3. meaning[i] \in Value
      <4>1. meaning[i] = [e \in Environments |-> InType(e, type)]
        BY <1>1, <1>2, <2>2
      <4> QED
        BY <3>1, <3>2, <4>1 DEF Value
    <3>4. insns[i].opcode = "phi"
      BY <1>2, <2>2 DEF Insn
    <3>5. insns[i].opcode \in Opcodes /\ insns[i].opcode \notin Arithmetic
          /\ insns[i].opcode # "const"
      BY <3>4 DEF Opcodes, Arithmetic, Operations
    <3>6. InsnTyped(type, insns[i], inputs[i]) /\ InsnWeighs(insns[i], inputs[i], meaning, w, w[i])
      BY <3>5 DEF InsnTyped, InsnWeighs, Arithmetic
    <3>7. InsnMeans(type, insns[i], inputs[i], meaning[i], asked[i], meaning)
      <4>1. [k \in DOMAIN inputs[i] |-> meaning[inputs[i][k]]] = asked[i]
        BY <2>1
      <4> QED
        BY <3>5, <4>1, Zenon DEF InsnMeans
    <3> QED
      BY <3>2, <3>3, <3>6, <3>7 DEF InsnSound
  <2>3. CASE i # Phi
    <3>1. PICK k \in DOMAIN start.pool :
            insns[i] = ConstantInsn(start.pool[k], ResultTypeOf(start.pool[k]))
      <4>1. insns = FirstOnes(start, type)
        BY <1>1 DEF FirstOnes
      <4>2. AreConstants(insns, start)
        BY <4>1, FirstAreConstants
      <4> QED
        BY <2>3, <4>2 DEF AreConstants, All
    <3>2. PICK c : c = start.pool[k]
      OBVIOUS
    <3>3. ConstantFits(c, type) /\ ResultFits(type, c, ResultTypeOf(c))
      BY <1>1, <3>2, PoolFits DEF ResultFits, ResultTypeOf
    <3>4. meaning[i] = [e \in Environments |-> InType(c.value, type)]
      <4>1. insns[i].constant = c
        BY <3>1, <3>2 DEF ConstantInsn
      <4> QED
        BY <1>1, <1>2, <2>3, <4>1
    <3>5. meaning[i] \in Value
      <4>1. InType(c.value, type) \in Int
        BY <1>3, <3>3, ConstantIsOne DEF Fits
      <4> QED
        BY <3>4, <4>1 DEF Value
    <3>6. InsnSound(type, insns[i], inputs[i], meaning[i], asked[i], meaning, w, w[i])
      <4>1. insns[i] = ConstantInsn(c, ResultTypeOf(c))
        BY <3>1, <3>2
      <4>2. \A e \in Environments : meaning[i][e] = InType(c.value, type)
        BY <3>4
      <4>3. \A e \in Environments : Fits(meaning[i][e], type)
        BY <1>3, <3>3, <4>2, ConstantIsOne
      <4> QED
        BY <1>3, <3>3, <4>1, <4>2, <4>3, ConstantSound
    <3> QED
      BY <3>5, <3>6
  <2> QED
    BY <2>2, <2>3
<1>11. meaning \in [All -> Value] /\ w \in [All -> Nat] /\ \A i \in All : w[i] <= 0
  <2>1. \A i \in All : meaning[i] \in Value
    BY <1>10
  <2>2. DOMAIN meaning = All /\ meaning = [i \in All |-> meaning[i]]
    BY <1>1, <1>2
  <2> QED
    BY <1>9, <2>1, <2>2
<1>12. Sound(All, {}, type, insns, inputs, meaning, asked, w, 0)
  BY <1>8, <1>10, <1>11 DEF Sound
<1>13. Sound(All, Fresh, type, insns, inputs, meaning, asked, w, Limit)
  BY <1>6, <1>7, <1>12
<1>14. 0 <= MAX_OPERATIONS
  BY PeepholesAssumption
<1> QED
  BY <1>1, <1>3, <1>4, <1>7, <1>8, <1>13, <1>14, Zenon DEF ValueInv

(* A run starts. *)
LEMMA StartKeepsValues ==
  ASSUME CodeInv, ValueInv, StartRun
  PROVE  ValueInv'
<1>1. /\ runs \in Nat /\ runs' = runs + 1
      /\ UNCHANGED <<type, operations, insns, meaning, inputs, users, code, outcome, asked>>
  BY DEF StartRun, program, CodeInv
<1>2. /\ All' = All /\ Built' = Built /\ InCode' = InCode
      /\ \A i : IsOperation(i)' <=> IsOperation(i)
  BY <1>1 DEF All, InCode, IsOperation, Opcode, Built
<1>3. Fresh' \subseteq Fresh
  <2> SUFFICES ASSUME NEW i \in Fresh' PROVE i \in Fresh
    OBVIOUS
  <2>1. runs' <= 1 /\ i \in InCode' /\ IsOperation(i)'
    BY DEF Fresh
  <2>2. runs = 0
    BY <1>1, <2>1
  <2>3. Settled = {}
    BY <2>2, NothingSettled
  <2> QED
    BY <1>2, <2>1, <2>2, <2>3 DEF Fresh
<1>4. /\ Limit \in Int /\ Limit' \in Int /\ Limit <= Limit'
  <2>1. PICK b \in Nat : b = Bits(type) - 1
    BY SomeBits
  <2>2. MAX_OPERATIONS \in Nat
    BY PeepholesAssumption
  <2>3. runs' # 0
    BY <1>1
  <2>4. Limit' = MAX_OPERATIONS * b
    BY <1>1, <2>1, <2>3 DEF Limit, Bits
  <2>5. CASE runs = 0
    <3>1. PICK m \in Nat : m = Cardinality(Built)
      <4>1. IsFiniteSet(All) /\ Built \in SUBSET All
        <5>1. 1 \in Int /\ Len(insns) \in Int
          BY CodeNumbers
        <5> QED
          BY <5>1, FS_Interval, CodeNumbers, Zenon DEF All, Built
      <4> QED
        BY <4>1, FS_Subset, FS_CardinalityType
    <3>2. m <= MAX_OPERATIONS
      BY <2>5, <3>1 DEF ValueInv
    <3>3. PICK d \in Nat : MAX_OPERATIONS = m + d
      <4>1. MAX_OPERATIONS - m \in Nat /\ MAX_OPERATIONS = m + (MAX_OPERATIONS - m)
        BY <2>2, <3>2
      <4> QED
        BY <4>1
    <3>4. MAX_OPERATIONS * b = m * b + d * b /\ m * b \in Nat /\ d * b \in Nat
      BY <3>3
    <3>5. Limit = m * b
      BY <2>1, <2>5, <3>1 DEF Limit
    <3> QED
      BY <2>4, <3>4, <3>5
  <2>6. CASE runs # 0
    <3>1. Limit = MAX_OPERATIONS * b /\ MAX_OPERATIONS * b \in Int
      BY <2>1, <2>2, <2>6 DEF Limit
    <3> QED
      BY <2>4, <3>1
  <2> QED
    BY <2>5, <2>6
<1>5. PICK w : Sound(All, Fresh, type, insns, inputs, meaning, asked, w, Limit)
  BY DEF ValueInv
<1>6. Sound(All', Fresh', type', insns', inputs', meaning', asked', w, Limit')
  <2>1. PICK G, max2 : G = Fresh' /\ max2 = Limit'
    OBVIOUS
  <2>2. Sound(All, G, type, insns, inputs, meaning, asked, w, Limit)
    BY <1>3, <1>5, <2>1, FewerShifts, Zenon
  <2>3. Sound(All, G, type, insns, inputs, meaning, asked, w, max2)
    BY <1>4, <2>1, <2>2, HigherLimit
  <2> QED
    BY <1>1, <1>2, <2>1, <2>3
<1>7. runs' # 0
  BY <1>1
<1> QED
  BY <1>1, <1>2, <1>6, <1>7 DEF ValueInv

(* Visits keep the values, if what they fold is defined. *)
LEMMA VisitsKeepValues ==
  ASSUME CodeInv, ValueInv, FoldsDefined, Visit
  PROVE  ValueInv'
<1>1. CASE \E op \in operations : Fold(op)
  BY <1>1, FoldKeepsValues
<1>2. CASE FoldUnreachable \/ AshrAssertFails \/ MulByOneOutOfBounds
  BY <1>2, NothingKeepsValues DEF FoldUnreachable, AshrAssertFails, MulByOneOutOfBounds, Halt
<1>3. CASE MulByOne
  BY <1>3, MulByOneKeepsValues
<1>4. CASE MulByTwo
  BY <1>4, MulByTwoKeepsValues
<1>5. CASE MulStays \/ OrStays
  BY <1>5, OrderedStaysKeepsValues
<1>6. CASE AshrByZero
  BY <1>6, AshrByZeroKeepsValues
<1>7. CASE AshrOfAshr
  BY <1>7, AshrOfAshrKeepsValues
<1>8. CASE AshrStays
  BY <1>8, AshrStaysKeepsValues
<1>9. CASE OrGivesWay
  BY <1>9, OrGivesWayKeepsValues
<1> QED
  BY <1>1, <1>2, <1>3, <1>4, <1>5, <1>6, <1>7, <1>8, <1>9 DEF Visit

(* A visit is at its turn. *)
LEMMA VisitTurns ==
  ASSUME Visit
  PROVE  currInsn # 0 /\ outcome = "running" /\ runs' = runs
BY DEF Visit, Turn, Fold, FoldUnreachable, MulByOne, MulByOneOutOfBounds, MulByTwo, MulStays,
       AshrByZero, AshrAssertFails, AshrOfAshr, AshrStays, OrGivesWay, OrStays,
       PutInstead, GiveWay, KeepInsn, EndTurn, Halt

(* So it is in the first run, which folds only what was built so. *)
LEMMA FirstFoldsDefined ==
  ASSUME CodeInv, ValueInv, runs <= 1, Visit
  PROVE  FoldsDefined
<1>1. currInsn # 0 /\ outcome = "running" /\ runs # 0
  BY VisitTurns DEF CodeInv
<1>2. PICK w : Given(w)
  BY <1>1, ValuesGiven
<1>3. currInsn \in Fresh
  <2>1. AtTurn(OpcodeOf, code, Settled, currInsn)
    BY <1>1, RunAtTurn DEF CodeInv
  <2> QED
    BY <1>1, <2>1 DEF AtTurn, Fresh, InCode, CodeInv
<1> QED
  BY <1>2, <1>3 DEF Given, Sound, FoldsDefined, Defined

-----------------------------------------------------------------------------
(* After the first run.  Operations have been folded away by it; those     *)
(* that are left, and what is left of their operands, are not on constants *)
(* alone and never will be, so that no later run folds any.  K tells       *)
(* constants and operations that are dead from the other instructions.     *)
Kinds == {"const", "value", "dead"}

(* Operands of an operation that lasts. *)
Lasting(K, s) ==
  /\ K[s[1]] # "dead" /\ K[s[2]] # "dead"
  /\ K[s[1]] # "const" \/ K[s[2]] # "const"

(* Such are the operands of all operations that are not dead, and those in *)
(* the code are not.                                                       *)
Stable(A, op, inp, cd, K) ==
  /\ K \in [A -> Kinds]
  /\ \A i \in A : (K[i] = "const") <=> (op[i] = "const")
  /\ \A i \in Uses(cd) : K[i] # "dead"
  /\ \A i \in A : op[i] \in Operations /\ K[i] = "value" => Lasting(K, inp[i])

StableInv == runs > 1 => \E K : Stable(All, OpcodeOf, inputs, code, K)

(* Two operands each. *)
InPairs(A, op, inp) ==
  \A i \in A : op[i] \in Operations => Len(inp[i]) = 2 /\ inp[i][1] \in A /\ inp[i][2] \in A

(* So it is where everything is sound. *)
LEMMA SoundInPairs ==
  ASSUME NEW F, NEW inp, NEW w, NEW max,
         Sound(All, F, type, insns, inp, meaning, asked, w, max)
  PROVE  InPairs(All, OpcodeOf, inp)
<1>1. \A i \in All : insns[i].opcode \in Operations =>
        Len(inp[i]) = 2 /\ inp[i][1] \in All /\ inp[i][2] \in All
  BY OperandsThere DEF Arithmetic
<1> QED
  BY <1>1 DEF InPairs, OpcodeOf, Opcode

(* Inputs are exchanged for such of the same kind. *)
LEMMA ExchangedStable ==
  ASSUME NEW A, NEW op, NEW inp, NEW cd, NEW K, Stable(A, op, inp, cd, K),
         InPairs(A, op, inp), NEW w, NEW inp2, Exchanged(A, K, w, inp, inp2)
  PROVE  Stable(A, op, inp2, cd, K)
<1>1. ASSUME NEW i \in A, op[i] \in Operations, K[i] = "value" PROVE Lasting(K, inp2[i])
  <2>1. 1 \in 1 .. Len(inp[i]) /\ 2 \in 1 .. Len(inp[i])
    BY <1>1 DEF InPairs
  <2>2. K[inp2[i][1]] = K[inp[i][1]] /\ K[inp2[i][2]] = K[inp[i][2]]
    BY <2>1 DEF Exchanged
  <2> QED
    BY <1>1, <2>2 DEF Stable, Lasting
<1> QED
  BY <1>1 DEF Stable

(* An operation gets others that last. *)
LEMMA SetStable ==
  ASSUME NEW A, NEW op, NEW inp, NEW cd, NEW K, Stable(A, op, inp, cd, K),
         DOMAIN inp = A, NEW c \in A, NEW s, Lasting(K, s)
  PROVE  Stable(A, op, [inp EXCEPT ![c] = s], cd, K)
BY DEF Stable

(* A new instruction n with the opcode e leaves the kinds of the others. *)
KindsKept(A, n, e, op, inp, cd, K, K2) ==
  /\ Stable(A \cup {n}, op, inp, cd, K2) /\ \A i \in A : K2[i] = K[i]
  /\ K2[n] = IF e = "const" THEN "const" ELSE "value"

(* It is no operation. *)
LEMMA GrownStable ==
  ASSUME NEW A, NEW op, NEW inp, NEW cd, NEW K, Stable(A, op, inp, cd, K),
         InPairs(A, op, inp), NEW n, n \notin A, Uses(cd) \subseteq A,
         NEW e, e \notin Operations, NEW s,
         NEW op2, Extended(A, n, e, op, op2), NEW inp2, Extended(A, n, s, inp, inp2)
  PROVE  \E K2 : KindsKept(A, n, e, op2, inp2, cd, K, K2)
<1>1. PICK k : k = (IF e = "const" THEN "const" ELSE "value")
  OBVIOUS
<1>2. PICK K2 : K2 = [i \in A \cup {n} |-> IF i = n THEN k ELSE K[i]]
  OBVIOUS
<1>3. /\ K2 \in [A \cup {n} -> Kinds] /\ K2[n] = k /\ \A i \in A : K2[i] = K[i]
      /\ op2[n] = e /\ inp2[n] = s /\ \A i \in A : op2[i] = op[i] /\ inp2[i] = inp[i]
  BY <1>1, <1>2 DEF Stable, Kinds, Extended
<1>4. \A i \in A \cup {n} : (K2[i] = "const") <=> (op2[i] = "const")
  BY <1>1, <1>3 DEF Stable
<1>5. \A i \in Uses(cd) : K2[i] # "dead"
  BY <1>3 DEF Stable
<1>6. ASSUME NEW i \in A \cup {n}, op2[i] \in Operations, K2[i] = "value"
      PROVE  Lasting(K2, inp2[i])
  <2>1. i \in A /\ op[i] \in Operations /\ K[i] = "value"
    BY <1>3, <1>6
  <2> QED
    BY <1>3, <2>1 DEF Stable, InPairs, Lasting
<1>7. Stable(A \cup {n}, op2, inp2, cd, K2)
  BY <1>3, <1>4, <1>5, <1>6 DEF Stable
<1> QED
  BY <1>1, <1>3, <1>7 DEF KindsKept

(* What remains to be shown of a visit. *)
LEMMA VisitKeepsStable ==
  ASSUME CodeInv, CodeEdit, NEW K, Stable(All', OpcodeOf', inputs', code, K),
         All' # All => K[NewInsn] # "dead"
  PROVE  StableInv'
<1>1. /\ \A i \in All' \ All : i = NewInsn
      /\ code' \in Seq(All') /\ Uses(code') \subseteq Uses(code) \cup {NewInsn}
  BY EditedCode
<1>2. ASSUME NEW i \in Uses(code') PROVE K[i] # "dead"
  <2>1. i \in All'
    BY <1>1, UsesTyped
  <2>2. CASE i = NewInsn
    BY <2>1, <2>2, CodeNumbers
  <2>3. CASE i # NewInsn
    BY <1>1, <2>3 DEF Stable
  <2> QED
    BY <2>2, <2>3
<1>3. Stable(All', OpcodeOf', inputs', code', K)
  BY <1>2 DEF Stable
<1> QED
  BY <1>3 DEF StableInv

(* What a visit after the first run is given. *)
Alive(w, K) ==
  /\ Given(w) /\ type \in DataTypes /\ K \in [All -> Kinds]
  /\ Stable(All, OpcodeOf, inputs, code, K) /\ InPairs(All, OpcodeOf, inputs)
  /\ K[currInsn] = "value" /\ OpcodeOf[currInsn] = Opcode(currInsn)
  /\ Lasting(K, inputs[currInsn])

(* The kinds there are. *)
LEMMA AliveGiven ==
  ASSUME CodeInv, ValueInv, StableInv, runs > 1, currInsn # 0
  PROVE  \E w, K : Alive(w, K)
<1>1. PICK w : Given(w)
  BY ValuesGiven
<1>2. PICK K : Stable(All, OpcodeOf, inputs, code, K)
  BY DEF StableInv
<1>3. InPairs(All, OpcodeOf, inputs)
  BY <1>1, SoundInPairs DEF Given
<1>4. /\ currInsn \in All /\ currInsn \in Uses(code) /\ OpcodeOf[currInsn] = Opcode(currInsn)
      /\ Opcode(currInsn) \in Operations
  BY CodeNumbers DEF CodeInv, InCode, OpcodeOf, IsOperation
<1>5. K[currInsn] = "value"
  <2>1. Opcode(currInsn) # "const"
    BY <1>4 DEF Operations
  <2> QED
    BY <1>2, <1>4, <2>1 DEF Stable, Kinds
<1>6. Lasting(K, inputs[currInsn])
  BY <1>2, <1>4, <1>5 DEF Stable
<1>7. type \in DataTypes
  BY DEF ValueInv
<1>8. K \in [All -> Kinds]
  BY <1>2 DEF Stable
<1>9. Alive(w, K)
  BY <1>1, <1>2, <1>3, <1>4, <1>5, <1>6, <1>7, <1>8, Zenon DEF Alive
<1> QED
  BY <1>9

(* Nothing is folded. *)
LEMMA NothingToFold ==
  ASSUME NEW w, NEW K, Alive(w, K)
  PROVE  ~Foldable(currInsn)
<1>1. PICK a \in All, b \in All : a = inputs[currInsn][1] /\ b = inputs[currInsn][2]
  BY DEF Alive, Given
<1>2. K[a] # "const" \/ K[b] # "const"
  BY <1>1 DEF Alive, Lasting
<1>3. ~IsConst(a) \/ ~IsConst(b)
  BY <1>2 DEF Alive, Stable, OpcodeOf, IsConst
<1> QED
  BY <1>1, <1>3 DEF Foldable

(* The operation stays where it is. *)
LEMMA KeepInsnKeepsStable ==
  ASSUME CodeInv, currInsn # 0, outcome = "running", NEW g, KeepInsn(g),
         NEW K, Stable(All, OpcodeOf, g.inputs, code, K)
  PROVE  StableInv'
<1>1. inputs' = g.inputs /\ EndTurn /\ UNCHANGED <<code, insns>>
  BY DEF KeepInsn, SetEdges, NothingNew
<1>2. CodeEdit
  BY <1>1 DEF CodeEdit, CodeKept
<1>3. All' = All /\ OpcodeOf' = OpcodeOf
  BY <1>1 DEF All, OpcodeOf, Opcode
<1>4. Stable(All', OpcodeOf', inputs', code, K)
  BY <1>1, <1>3
<1> QED
  BY <1>2, <1>3, <1>4, VisitKeepsStable

(* The operation gives way to what is not dead either. *)
LEMMA GiveWayKeepsStable ==
  ASSUME CodeInv, currInsn # 0, outcome = "running", NEW g, Pair(All, g), NEW x \in All,
         GiveWay(g, currInsn, x), InPairs(All, OpcodeOf, g.inputs),
         NEW K, Stable(All, OpcodeOf, g.inputs, code, K), K[x] = K[currInsn]
  PROVE  StableInv'
<1>1. PICK h : /\ h = LeaveUsers(ReplaceInputsForUsers(g, currInsn, x), currInsn)
               /\ inputs' = h.inputs /\ users' = h.users
  BY DEF GiveWay, SetEdges
<1>2. /\ code' = RemoveAt(code, IndexOf(currInsn)) /\ EndTurn
      /\ UNCHANGED insns
  BY DEF GiveWay, NothingNew
<1>3. CodeEdit
  BY <1>2 DEF CodeEdit, CodeCut
<1>4. All' = All /\ OpcodeOf' = OpcodeOf
  BY <1>2 DEF All, OpcodeOf, Opcode
<1>5. PICK c \in All : c = currInsn
  BY CodeNumbers DEF CodeInv
<1>6. \A u \in All : \/ h.inputs[u] = g.inputs[u]
                     \/ h.inputs[u] = ReplaceAll(g.inputs[u], c, x)
  <2>1. Rewired(All, g, h, c, x)
    BY <1>1, <1>5, WayTyped
  <2> QED
    BY <2>1 DEF Rewired
<1>7. PICK w : w \in [All -> Nat] /\ \A i \in All : w[i] = 0
  <2>1. [i \in All |-> 0] \in [All -> Nat] /\ \A i \in All : [j \in All |-> 0][i] = 0
    OBVIOUS
  <2> QED
    BY <2>1
<1>8. Exchanged(All, K, w, g.inputs, h.inputs)
  <2>1. g.inputs \in Lists(All, All) /\ K[x] = K[c] /\ w[x] <= w[c]
    BY <1>5, <1>7 DEF Pair
  <2> QED
    BY <1>5, <1>6, <1>7, <2>1, ReplacedExchanged, Zenon
<1>9. Stable(All, OpcodeOf, h.inputs, code, K)
  BY <1>8, ExchangedStable, Zenon
<1>10. Stable(All', OpcodeOf', inputs', code, K)
  BY <1>1, <1>4, <1>9
<1> QED
  BY <1>3, <1>4, <1>10, VisitKeepsStable

(* The inputs of products and disjunctions are put in order. *)
LEMMA OrderStable ==
  ASSUME CodeInv, ValueInv, currInsn # 0, Opcode(currInsn) \in {"mul", "or"},
         NEW w, NEW K, Alive(w, K), NEW c, c = currInsn, NEW g, g = InOrder(c)
  PROVE  /\ Stable(All, OpcodeOf, g.inputs, code, K) /\ InPairs(All, OpcodeOf, g.inputs)
         /\ OrderGiven(w, g, c)
<1>1. OrderGiven(w, g, c)
  BY OrderKeepsSound DEF Alive
<1>2. InPairs(All, OpcodeOf, g.inputs)
  BY <1>1, SoundInPairs DEF OrderGiven
<1>3. PICK s, q : s = Swapped(c) /\ q = inputs[c]
  OBVIOUS
<1>4. Lasting(K, s)
  <2>1. q \in Seq(All) /\ Len(q) = 2 /\ Lasting(K, q)
    BY <1>3 DEF Alive, Given
  <2>2. CASE s = q
    BY <2>1, <2>2
  <2>3. CASE s = Reverse(q)
    <3>1. s = [k \in 1 .. 2 |-> q[(2 - k) + 1]]
      BY <2>1, <2>3 DEF Reverse
    <3>2. s[1] = q[2] /\ s[2] = q[1]
      BY <3>1
    <3> QED
      BY <2>1, <3>2 DEF Lasting
  <2> QED
    BY <1>3, <2>2, <2>3 DEF Swapped
<1>5. g.inputs = [inputs EXCEPT ![c] = s]
  BY <1>3 DEF InOrder, SetInputs, Edges
<1>6. DOMAIN inputs = All /\ c \in All /\ Stable(All, OpcodeOf, inputs, code, K)
  BY DEF Alive, Given, Lists
<1>7. Stable(All, OpcodeOf, [inputs EXCEPT ![c] = s], code, K)
  BY <1>4, <1>6, SetStable
<1> QED
  BY <1>1, <1>2, <1>5, <1>7

(* An operation whose second operand is constant, or both of which are the *)
(* same, has a first one that is neither constant nor dead.                *)
LEMMA FirstLasts ==
  ASSUME NEW inp, NEW K, Stable(All, OpcodeOf, inp, code, K), InPairs(All, OpcodeOf, inp),
         NEW c \in All, Opcode(c) \in Operations, K[c] = "value",
         IsConst(inp[c][2]) \/ inp[c][1] = inp[c][2]
  PROVE  inp[c][1] \in All /\ K[inp[c][1]] = "value"
<1>1. OpcodeOf[c] \in Operations /\ \A i \in All : OpcodeOf[i] = Opcode(i)
  BY DEF OpcodeOf
<1>2. PICK a \in All, b \in All : a = inp[c][1] /\ b = inp[c][2]
  BY <1>1 DEF InPairs
<1>3. Lasting(K, inp[c])
  BY <1>1 DEF Stable
<1>4. K[a] # "dead" /\ (K[a] # "const" \/ K[b] # "const") /\ K[a] \in Kinds
  BY <1>2, <1>3 DEF Lasting, Stable
<1>5. IsConst(b) => K[b] = "const"
  BY <1>1 DEF Stable, IsConst
<1> QED
  BY <1>2, <1>4, <1>5 DEF Kinds

(* Products and disjunctions that stay, ... *)
LEMMA OrderedStaysKeepsStable ==
  ASSUME CodeInv, ValueInv, MulStays \/ OrStays, NEW w, NEW K, Alive(w, K)
  PROVE  StableInv'
<1>1. currInsn # 0 /\ outcome = "running" /\ Opcode(currInsn) \in {"mul", "or"}
  BY TurnRuns DEF MulStays, OrStays
<1>2. PICK g : g = InOrder(currInsn)
  OBVIOUS
<1>3. Stable(All, OpcodeOf, g.inputs, code, K)
  BY <1>1, <1>2, OrderStable
<1>4. KeepInsn(g)
  BY <1>2 DEF MulStays, OrStays
<1> QED
  BY <1>1, <1>3, <1>4, KeepInsnKeepsStable

(* ... and a product with one, whose factor is not constant. *)
LEMMA MulByOneKeepsStable ==
  ASSUME CodeInv, ValueInv, MulByOne, NEW w, NEW K, Alive(w, K)
  PROVE  StableInv'
<1>1. /\ currInsn # 0 /\ outcome = "running" /\ Opcode(currInsn) = "mul"
      /\ IsFactor(Swapped(currInsn), 1)
  BY TurnRuns DEF MulByOne
<1>2. PICK g, c, x, h : /\ c = currInsn /\ g = InOrder(c) /\ x = g.inputs[c][1]
                        /\ h = RedirectUsers(g, c, x)
  OBVIOUS
<1>3. /\ Stable(All, OpcodeOf, g.inputs, code, K) /\ InPairs(All, OpcodeOf, g.inputs)
      /\ OrderGiven(w, g, c)
  BY <1>1, <1>2, OrderStable
<1>4. KeepInsn(h)
  BY <1>2 DEF MulByOne
<1>5. Pair(All, g) /\ c \in All /\ x \in All /\ x = Swapped(c)[1] /\ g.inputs[c] = Swapped(c)
  BY <1>2, <1>3 DEF OrderGiven
<1>6. K[x] = K[c]
  <2>1. IsConst(g.inputs[c][2])
    BY <1>1, <1>2, <1>5 DEF IsFactor
  <2>2. K[c] = "value" /\ Opcode(c) \in Operations
    BY <1>1, <1>2 DEF Alive, Operations
  <2>3. K[g.inputs[c][1]] = "value"
    BY <1>3, <1>5, <2>1, <2>2, FirstLasts
  <2> QED
    BY <1>2, <2>2, <2>3
<1>7. PICK v : v \in [All -> Nat] /\ \A i \in All : v[i] = 0
  <2>1. [i \in All |-> 0] \in [All -> Nat] /\ \A i \in All : [j \in All |-> 0][i] = 0
    OBVIOUS
  <2> QED
    BY <2>1
<1>8. Exchanged(All, K, v, g.inputs, h.inputs)
  <2>1. v[x] <= v[c]
    BY <1>5, <1>7
  <2> QED
    BY <1>2, <1>5, <1>6, <1>7, <2>1, RedirectExchanges
<1>9. Stable(All, OpcodeOf, h.inputs, code, K)
  BY <1>3, <1>8, ExchangedStable, Zenon
<1> QED
  BY <1>1, <1>4, <1>9, KeepInsnKeepsStable

(* Shifts that stay, ... *)
LEMMA AshrStaysKeepsStable ==
  ASSUME CodeInv, ValueInv, AshrStays, NEW w, NEW K, Alive(w, K)
  PROVE  StableInv'
<1>1. currInsn # 0 /\ outcome = "running" /\ KeepInsn(Edges)
  BY TurnRuns DEF AshrStays
<1>2. Stable(All, OpcodeOf, Edges.inputs, code, K)
  BY DEF Edges, Alive
<1> QED
  BY <1>1, <1>2, KeepInsnKeepsStable

(* ... or give way, ... *)
LEMMA AshrByZeroKeepsStable ==
  ASSUME CodeInv, ValueInv, AshrByZero, NEW w, NEW K, Alive(w, K)
  PROVE  StableInv'
<1>1. currInsn # 0 /\ outcome = "running" /\ Opcode(currInsn) = "ashr"
  BY TurnRuns DEF AshrByZero
<1>2. PICK c, x : c = currInsn /\ x = inputs[c][1]
  OBVIOUS
<1>3. GiveWay(Edges, currInsn, x) /\ IsConst(inputs[c][2])
  BY <1>2 DEF AshrByZero
<1>4. Pair(All, Edges) /\ Edges.inputs = inputs
  BY EdgesGiven DEF Alive
<1>5. /\ Stable(All, OpcodeOf, inputs, code, K) /\ InPairs(All, OpcodeOf, inputs)
      /\ c \in All /\ K[c] = "value"
  BY <1>2 DEF Alive, Given
<1>6. x \in All /\ K[x] = "value"
  BY <1>1, <1>2, <1>3, <1>5, FirstLasts DEF Operations
<1> QED
  BY <1>1, <1>2, <1>3, <1>4, <1>5, <1>6, GiveWayKeepsStable

(* ... as disjunctions may. *)
LEMMA OrGivesWayKeepsStable ==
  ASSUME CodeInv, ValueInv, OrGivesWay, NEW w, NEW K, Alive(w, K)
  PROVE  StableInv'
<1>1. /\ currInsn # 0 /\ outcome = "running" /\ Opcode(currInsn) = "or"
      /\ Idempotent(Swapped(currInsn))
  BY TurnRuns DEF OrGivesWay
<1>2. PICK g, c, x : c = currInsn /\ g = InOrder(c) /\ x = g.inputs[c][1]
  OBVIOUS
<1>3. /\ Stable(All, OpcodeOf, g.inputs, code, K) /\ InPairs(All, OpcodeOf, g.inputs)
      /\ OrderGiven(w, g, c)
  BY <1>1, <1>2, OrderStable
<1>4. GiveWay(g, currInsn, x)
  BY <1>2 DEF OrGivesWay
<1>5. Pair(All, g) /\ c \in All /\ g.inputs[c] = Swapped(c)
  BY <1>3 DEF OrderGiven
<1>6. IsConst(g.inputs[c][2]) \/ g.inputs[c][1] = g.inputs[c][2]
  BY <1>1, <1>2, <1>5 DEF Idempotent
<1>7. K[c] = "value" /\ Opcode(c) \in Operations
  BY <1>1, <1>2 DEF Alive, Operations
<1>8. x \in All /\ K[x] = K[currInsn]
  BY <1>2, <1>3, <1>5, <1>6, <1>7, FirstLasts
<1> QED
  BY <1>1, <1>3, <1>4, <1>5, <1>8, GiveWayKeepsStable

(* What a new instruction n with the opcode o leaves as it was. *)
KindAdded(inp, n, o, K, K2) ==
  /\ Stable(All', OpcodeOf', inp, code, K2) /\ InPairs(All', OpcodeOf', inp)
  /\ inp \in Lists(All', All') /\ n \in All' /\ All \subseteq All'
  /\ \A i \in All : K2[i] = K[i]
  /\ K2[n] = IF o = "const" THEN "const" ELSE "value"

(* So it does. *)
LEMMA NewKind ==
  ASSUME CodeInv, NEW n, n = NewInsn, NEW e, insns' = Append(insns, e),
         e.opcode \notin Operations, NEW inp \in Lists(All, All), NEW s \in Seq(All),
         NEW K, Stable(All, OpcodeOf, inp, code, K), InPairs(All, OpcodeOf, inp)
  PROVE  \E K2 : KindAdded(Append(inp, s), n, e.opcode, K, K2)
<1>1. IsList(insns) /\ Len(insns) \in Nat /\ n = Len(insns) + 1
  BY CodeNumbers DEF CodeInv, NewInsn
<1>2. Len(insns') = n /\ insns'[n] = e /\ \A i \in All : insns'[i] = insns[i]
  BY <1>1, LongerList DEF All
<1>3. IsNext(All, n) /\ n \notin All /\ All' = All \cup {n}
  BY <1>1, <1>2 DEF All, IsNext
<1>4. PICK B, op2, inp2 : B = All' /\ op2 = OpcodeOf' /\ inp2 = Append(inp, s)
  OBVIOUS
<1>5. Extended(All, n, e.opcode, OpcodeOf, op2)
  BY <1>2, <1>3, <1>4 DEF Extended, OpcodeOf, Opcode
<1>6. Extended(All, n, s, inp, inp2) /\ inp2 \in Lists(B, B)
  <2>1. Seq(All) \subseteq Seq(B)
    BY <1>3, <1>4, ListsGrow
  <2>2. inp \in [All -> Seq(B)] /\ s \in Seq(B)
    BY <2>1 DEF Lists
  <2>3. Longer(All, n, Seq(B), inp, s, Append(inp, s))
    BY <1>3, <2>2, OneMoreOf, Zenon
  <2> QED
    BY <1>3, <1>4, <2>3 DEF Longer, Extended, Lists
<1>7. Uses(code) \subseteq All
  BY UsesTyped DEF CodeInv
<1>8. PICK K2 : /\ Stable(All \cup {n}, op2, inp2, code, K2)
                /\ \A i \in All : K2[i] = K[i]
                /\ K2[n] = IF e.opcode = "const" THEN "const" ELSE "value"
  <2>1. PICK A, op, o : A = All /\ op = OpcodeOf /\ o = e.opcode
    OBVIOUS
  <2>2. /\ Stable(A, op, inp, code, K) /\ InPairs(A, op, inp)
        /\ n \notin A /\ Uses(code) \subseteq A /\ o \notin Operations
        /\ Extended(A, n, o, op, op2) /\ Extended(A, n, s, inp, inp2)
    BY <1>3, <1>5, <1>6, <1>7, <2>1, Zenon
  <2>3. \E K2 : KindsKept(A, n, o, op2, inp2, code, K, K2)
    BY <2>2, GrownStable
  <2> QED
    BY <2>1, <2>3 DEF KindsKept
<1>9. InPairs(B, op2, inp2)
  <2> SUFFICES ASSUME NEW i \in B, op2[i] \in Operations
               PROVE  Len(inp2[i]) = 2 /\ inp2[i][1] \in B /\ inp2[i][2] \in B
    BY DEF InPairs
  <2>1. i \in All /\ OpcodeOf[i] \in Operations /\ inp2[i] = inp[i]
    BY <1>3, <1>4, <1>5, <1>6 DEF Extended
  <2> QED
    BY <1>3, <1>4, <2>1 DEF InPairs
<1> QED
  BY <1>3, <1>4, <1>6, <1>8, <1>9 DEF KindAdded

(* The sum that takes the place of a product with two is as alive. *)
LEMMA MulByTwoKeepsStable ==
  ASSUME CodeInv, ValueInv, MulByTwo, NEW w, NEW K, Alive(w, K)
  PROVE  StableInv'
<1>1. currInsn # 0 /\ outcome = "running" /\ Opcode(currInsn) = "mul"
  BY TurnRuns DEF MulByTwo
<1>2. PICK f, c, x, n, h, e :
        /\ c = currInsn /\ f = InOrder(c) /\ x = Swapped(c)[1] /\ n = NewInsn
        /\ h = SetInputs(AddUserTo(WithNew(f), x, n), n, <<x, x>>)
        /\ e = Insn("add", "F64")
  OBVIOUS
<1>3. /\ Stable(All, OpcodeOf, f.inputs, code, K) /\ InPairs(All, OpcodeOf, f.inputs)
      /\ OrderGiven(w, f, c)
  BY <1>1, <1>2, OrderStable
<1>4. PutInstead(h, c, e)
  BY <1>2 DEF MulByTwo
<1>5. PICK r : /\ r = LeaveUsers(ReplaceInputsForUsers(h, c, n), c)
               /\ inputs' = r.inputs /\ users' = r.users
  BY <1>2, <1>4 DEF PutInstead, SetEdges
<1>6. /\ code' = ReplaceAt(code, IndexOf(currInsn), NewInsn) /\ EndTurn
      /\ insns' = Append(insns, e) /\ e.opcode = "add" /\ e.opcode \in Opcodes \ Operations
  BY <1>2, <1>4 DEF PutInstead, CreateInsn, Insn, Opcodes, Operations
<1>7. CodeEdit
  BY <1>1, <1>6 DEF CodeEdit, CodeAdded
<1>8. PICK inp, us : inp = f.inputs /\ us = ArithmeticUsers(users, x, x, n)
  OBVIOUS
<1>9. /\ c \in All /\ x \in All /\ inp \in Lists(All, All) /\ users \in Lists(All, All)
      /\ f = [inputs |-> inp, users |-> users]
  BY <1>2, <1>3, <1>8 DEF OrderGiven, Pair, Alive, Given
<1>10. IsNext(All, n) /\ n \notin All /\ All' = All \cup {n}
  <2>1. IsNext(All, n) /\ n \notin All
    BY <1>2, CodeNumbers DEF IsNext, NewInsn, All
  <2>2. IsList(insns) /\ Len(insns) \in Nat
    BY CodeNumbers DEF CodeInv
  <2>3. Len(insns') = n
    BY <1>2, <1>6, <2>2, LongerList DEF NewInsn
  <2> QED
    BY <1>2, <2>1, <2>2, <2>3 DEF All, NewInsn
<1>11. h = [inputs |-> Append(inp, <<x, x>>), users |-> Append(us, <<>>)]
  <2>1. SetInputs(AddUserTo(WithNew(f), x, n), n, <<x, x>>)
          = [inputs |-> Append(inp, <<x, x>>),
             users  |-> Append(ArithmeticUsers(users, x, x, n), <<>>)]
    BY <1>9, <1>10, DoubledOperand
  <2> QED
    BY <1>2, <1>8, <2>1
<1>12. PICK B, inp2 : B = All' /\ inp2 = Append(inp, <<x, x>>)
  OBVIOUS
<1>13. PICK K2 : KindAdded(inp2, n, "add", K, K2)
  <2>1. <<x, x>> \in Seq(All)
    BY <1>9
  <2>3. n = NewInsn /\ insns' = Append(insns, e) /\ e.opcode = "add"
    BY <1>2, <1>6
  <2>4. "add" \notin Operations
    BY DEF Operations
  <2>5. Stable(All, OpcodeOf, inp, code, K) /\ InPairs(All, OpcodeOf, inp)
    BY <1>3, <1>8
  <2>6. \E K2 : KindAdded(Append(inp, <<x, x>>), n, e.opcode, K, K2)
    BY <1>9, <2>1, <2>3, <2>4, <2>5, NewKind
  <2> QED
    BY <1>12, <2>3, <2>6
<1>14. /\ Stable(B, OpcodeOf', inp2, code, K2) /\ InPairs(B, OpcodeOf', inp2)
       /\ inp2 \in Lists(B, B) /\ n \in B /\ c \in B /\ K2[n] = K2[c]
  <2>1. K[c] = "value"
    BY <1>2 DEF Alive
  <2> QED
    BY <1>9, <1>12, <1>13, <2>1 DEF KindAdded
<1>15. Pair(B, h) /\ h.inputs = inp2
  <2>1. us \in Lists(All, All \cup {n})
    BY <1>8, <1>9, <1>10, OperandsListOnce
  <2>2. Longer(All, n, Seq(B), us, <<>>, Append(us, <<>>))
    <3>1. us \in [All -> Seq(B)] /\ <<>> \in Seq(B)
      BY <1>10, <1>12, <2>1 DEF Lists
    <3> QED
      BY <1>10, <3>1, OneMoreOf, Zenon
  <2>3. Append(us, <<>>) \in Lists(B, B)
    BY <1>10, <1>12, <2>2 DEF Longer, Lists
  <2> QED
    BY <1>11, <1>12, <1>14, <2>3 DEF Pair
<1>16. PICK v : v \in [B -> Nat] /\ \A i \in B : v[i] = 0
  <2>1. [i \in B |-> 0] \in [B -> Nat] /\ \A i \in B : [j \in B |-> 0][i] = 0
    OBVIOUS
  <2> QED
    BY <2>1
<1>17. Exchanged(B, K2, v, inp2, r.inputs)
  <2>1. Rewired(B, h, r, c, n)
    BY <1>5, <1>14, <1>15, WayTyped
  <2>2. \A u \in B : r.inputs[u] = inp2[u] \/ r.inputs[u] = ReplaceAll(inp2[u], c, n)
    BY <1>15, <2>1 DEF Rewired
  <2>3. v[n] <= v[c]
    BY <1>14, <1>16
  <2> QED
    BY <1>14, <1>16, <2>2, <2>3, ReplacedExchanged, Zenon
<1>18. Stable(B, OpcodeOf', r.inputs, code, K2)
  BY <1>14, <1>17, ExchangedStable
<1>19. K2[NewInsn] # "dead"
  BY <1>2, <1>13 DEF KindAdded
<1> QED
  BY <1>5, <1>7, <1>12, <1>18, <1>19, VisitKeepsStable

(* A shift of a shift takes what is alive. *)
LEMMA AshrOfAshrKeepsStable ==
  ASSUME CodeInv, ValueInv, AshrOfAshr, NEW w, NEW K, Alive(w, K)
  PROVE  StableInv'
<1>1. currInsn # 0 /\ outcome = "running" /\ Opcode(currInsn) = "ashr"
  BY TurnRuns DEF AshrOfAshr
<1>2. PICK c, t, x, n, e :
        /\ c = currInsn /\ t = inputs[c][1] /\ x = inputs[t][1] /\ n = NewInsn
        /\ e = ConstantInsn(SumOfDistances(c), SumOfDistances(c).type)
  OBVIOUS
<1>3. /\ insns' = Append(insns, e) /\ e.opcode = "const" /\ e.opcode \in Opcodes \ Operations
      /\ code' = InsertAt(code, IndexOf(currInsn) + 1, NewInsn) /\ EndTurn
  BY <1>2 DEF AshrOfAshr, CreateInsn, ConstantInsn, Opcodes, Operations
<1>4. PICK inp, us, h : /\ inp = Append(inputs, <<>>) /\ us = Append(users, <<>>)
                        /\ h = RewireShift([inputs |-> inp, users |-> us], c, x, n)
                        /\ inputs' = h.inputs
  BY <1>2 DEF AshrOfAshr, SetEdges, WithNew, Edges
<1>5. CodeEdit
  BY <1>1, <1>3 DEF CodeEdit, CodeAdded
<1>6. /\ Stable(All, OpcodeOf, inputs, code, K) /\ InPairs(All, OpcodeOf, inputs)
      /\ c \in All /\ K[c] = "value" /\ inputs \in Lists(All, All)
  BY <1>2 DEF Alive, Given
<1>7. t \in All /\ K[t] = "value"
  <2>1. IsConst(inputs[c][2])
    BY <1>2 DEF AshrOfAshr, ShiftOfShift
  <2> QED
    BY <1>1, <1>2, <1>6, <2>1, FirstLasts DEF Operations
<1>8. x \in All /\ K[x] = "value"
  <2>1. IsConst(inputs[t][2]) /\ Opcode(t) = "ashr"
    BY <1>2 DEF AshrOfAshr, ShiftOfShift
  <2> QED
    BY <1>2, <1>6, <1>7, <2>1, FirstLasts DEF Operations
<1>9. PICK K2 : KindAdded(inp, n, "const", K, K2)
  <2>1. <<>> \in Seq(All)
    OBVIOUS
  <2>2. n = NewInsn /\ insns' = Append(insns, e) /\ e.opcode \notin Operations
    BY <1>2, <1>3
  <2>3. \E K2 : KindAdded(Append(inputs, <<>>), n, e.opcode, K, K2)
    BY <1>6, <2>1, <2>2, NewKind
  <2> QED
    BY <1>3, <1>4, <2>3
<1>10. PICK s : s = <<x, n>>
  OBVIOUS
<1>11. h.inputs = [inp EXCEPT ![c] = s]
  <2>1. ShiftSet(inp, us, h, c, x, n)
    BY <1>4, ShiftRewired
  <2> QED
    BY <1>10, <2>1 DEF ShiftSet
<1>12. Lasting(K2, s)
  <2>1. s[1] = x /\ s[2] = n
    BY <1>10
  <2>2. K2[x] = "value" /\ K2[n] = "const"
    BY <1>8, <1>9 DEF KindAdded
  <2> QED
    BY <2>1, <2>2 DEF Lasting
<1>13. Stable(All', OpcodeOf', inputs', code, K2)
  <2>1. PICK B, op2 : B = All' /\ op2 = OpcodeOf'
    OBVIOUS
  <2>2. Stable(B, op2, inp, code, K2) /\ DOMAIN inp = B /\ c \in B
    BY <1>6, <1>9, <2>1 DEF KindAdded, Lists
  <2>3. Stable(B, op2, [inp EXCEPT ![c] = s], code, K2)
    BY <1>12, <2>2, SetStable
  <2> QED
    BY <1>4, <1>11, <2>1, <2>3
<1>14. K2[NewInsn] # "dead"
  BY <1>2, <1>9 DEF KindAdded
<1> QED
  BY <1>5, <1>13, <1>14, VisitKeepsStable

(* Nothing changes. *)
LEMMA NothingKeepsStable ==
  ASSUME StableInv, UNCHANGED <<insns, inputs, code>>, runs' > 1 => runs > 1
  PROVE  StableInv'
<1>1. All' = All /\ OpcodeOf' = OpcodeOf
  BY DEF All, OpcodeOf, Opcode
<1> QED
  BY <1>1 DEF StableInv

(* Visits keep it so. *)
LEMMA VisitsKeepStable ==
  ASSUME CodeInv, ValueInv, StableInv, Visit
  PROVE  StableInv'
<1>1. currInsn # 0 /\ outcome = "running" /\ runs' = runs /\ runs \in Nat
  BY VisitTurns DEF CodeInv
<1>2. CASE runs > 1
  <2>1. PICK w, K : Alive(w, K)
    BY <1>1, <1>2, AliveGiven
  <2>2. CASE \E op \in operations : Fold(op)
    BY <2>1, <2>2, NothingToFold DEF Fold
  <2>3. CASE FoldUnreachable \/ AshrAssertFails \/ MulByOneOutOfBounds
    BY <2>3, NothingKeepsStable
      DEF FoldUnreachable, AshrAssertFails, MulByOneOutOfBounds, Halt, program
  <2>4. CASE MulByOne
    BY <2>1, <2>4, MulByOneKeepsStable
  <2>5. CASE MulByTwo
    BY <2>1, <2>5, MulByTwoKeepsStable
  <2>6. CASE MulStays \/ OrStays
    BY <2>1, <2>6, OrderedStaysKeepsStable
  <2>7. CASE AshrByZero
    BY <2>1, <2>7, AshrByZeroKeepsStable
  <2>8. CASE AshrOfAshr
    BY <2>1, <2>8, AshrOfAshrKeepsStable
  <2>9. CASE AshrStays
    BY <2>1, <2>9, AshrStaysKeepsStable
  <2>10. CASE OrGivesWay
    BY <2>1, <2>10, OrGivesWayKeepsStable
  <2> QED
    BY <2>2, <2>3, <2>4, <2>5, <2>6, <2>7, <2>8, <2>9, <2>10 DEF Visit
<1>3. CASE ~(runs > 1)
  BY <1>1, <1>3 DEF StableInv
<1> QED
  BY <1>2, <1>3

(* When the first run is over, what it has done with is as it should be. *)
LEMMA StartKeepsStable ==
  ASSUME CodeInv, EdgesInv, DoneInv, StableInv, StartRun
  PROVE  StableInv'
<1>1. /\ runs \in Nat /\ runs' = runs + 1 /\ currInsn = 0
      /\ UNCHANGED <<insns, inputs, code>>
  BY DEF StartRun, program, CodeInv
<1>2. CASE runs > 1
  BY <1>1, <1>2, NothingKeepsStable
<1>3. CASE runs = 0
  BY <1>1, <1>3 DEF StableInv
<1>4. CASE runs = 1
  <2>1. /\ EdgesOK(All, OpcodeOf, Ones, inputs, users, code, Settled)
        /\ AllDone(Exact, OpcodeOf, ConOf, inputs, code, Settled)
    BY <1>4 DEF EdgesInv, DoneInv
  <2>2. PICK op, K :
          /\ op = OpcodeOf
          /\ K = [i \in All |-> IF op[i] = "const" THEN "const"
                               ELSE IF op[i] \in Operations /\ i \notin Uses(code) THEN "dead"
                               ELSE "value"]
    OBVIOUS
  <2>3. K \in [All -> Kinds] /\ "const" \notin Operations /\ Uses(code) \subseteq All
    BY <2>2, CodeNumbers DEF Kinds, Operations, InCode
  <2>4. ASSUME NEW i \in All, op[i] \in Operations, K[i] = "value" PROVE Lasting(K, inputs[i])
    <3>1. i \in Uses(code)
      BY <2>2, <2>3, <2>4
    <3>2. i \in Settled
      BY <1>1, <1>4, <2>2, <2>4, <3>1 DEF Settled, InCode, IsOperation, OpcodeOf
    <3>3. inputs[i] \in Seq(All) /\ Len(inputs[i]) = 2
      BY <2>1, <2>2, <2>4 DEF EdgesOK, EdgesTyped, Lists, InputsFit, Binary
    <3>4. PICK a \in All, b \in All : a = inputs[i][1] /\ b = inputs[i][2]
      BY <3>3
    <3>5. a \in Uses(code) /\ b \in Uses(code)
      <4>1. a \in Uses(inputs[i]) /\ b \in Uses(inputs[i])
        BY <3>3, <3>4, TwoInputs
      <4> QED
        BY <2>1, <3>1, <4>1 DEF EdgesOK, Ordered
    <3>6. op[a] # "const" \/ op[b] # "const"
      BY <2>1, <2>2, <3>2, <3>4 DEF AllDone, Done
    <3> QED
      BY <2>2, <3>4, <3>5, <3>6 DEF Lasting
  <2>5. Stable(All, op, inputs, code, K)
    BY <2>2, <2>3, <2>4 DEF Stable
  <2>6. All' = All /\ OpcodeOf' = OpcodeOf
    BY <1>1 DEF All, OpcodeOf, Opcode
  <2> QED
    BY <1>1, <2>2, <2>5, <2>6 DEF StableInv
<1> QED
  BY <1>1, <1>2, <1>3, <1>4

(* No run folds a shift too far. *)
LEMMA AllFoldsDefined ==
  ASSUME CodeInv, ValueInv, StableInv, Visit
  PROVE  FoldsDefined
<1>1. currInsn # 0 /\ runs \in Nat
  BY VisitTurns DEF CodeInv
<1>2. CASE runs > 1
  <2>1. PICK w, K : Alive(w, K)
    BY <1>1, <1>2, AliveGiven
  <2> QED
    BY <2>1, NothingToFold DEF FoldsDefined
<1> QED
  BY <1>1, <1>2, FirstFoldsDefined

-----------------------------------------------------------------------------
(* A shift with a joined distance is done with. *)
LEMMA AshrOfAshrKeepsDone ==
  ASSUME CodeInv, EdgesInv, ValueInv, DoneInv, AshrOfAshr
  PROVE  DoneInv'
<1>0. PICK c, n, t, x : c = currInsn /\ n = NewInsn /\ t = inputs[c][1] /\ x = inputs[t][1]
  OBVIOUS
<1>1. PICK e : /\ e = ConstantInsn(SumOfDistances(c), SumOfDistances(c).type)
               /\ insns' = Append(insns, e)
               /\ code' = InsertAt(code, IndexOf(c) + 1, n) /\ EndTurn
  BY <1>0 DEF AshrOfAshr, CreateInsn
<1>2. PICK g, h : /\ g = WithNew(Edges) /\ h = RewireShift(g, c, x, n)
                  /\ inputs' = h.inputs /\ users' = h.users
  BY <1>0 DEF AshrOfAshr, SetEdges
<1>3. currInsn # 0 /\ outcome = "running" /\ Opcode(currInsn) = "ashr"
  BY TurnRuns DEF AshrOfAshr
<1>4. /\ e.opcode = "const" /\ e.constant.type = ConstantOf(inputs[c][2]).type
      /\ e.opcode \in Opcodes \ Operations
  BY <1>0, <1>1 DEF ConstantInsn, AshrOfAshr, Opcodes, Operations
<1>5. CodeEdit
  BY <1>0, <1>1, <1>3, <1>4 DEF CodeEdit, CodeAdded
<1>6. /\ IsNext(All, n) /\ All' = All \cup {n} /\ OpcodeOf'[n] = "const"
  BY <1>0, <1>1, <1>4, InsnsGrow DEF EdgesInv
<1>7. n \notin All
  BY <1>6 DEF IsNext
<1>8. /\ \A i \in All : OpcodeOf'[i] = OpcodeOf[i] /\ ConOf'[i] = ConOf[i]
  BY <1>5, InsnsStay
<1>9. ConOf'[n] = e.constant
  <2>1. IsList(insns) /\ n = Len(insns) + 1
    BY <1>0 DEF CodeInv, NewInsn
  <2>2. insns'[n] = e
    BY <1>1, <2>1, LongerList
  <2> QED
    BY <1>6, <2>2 DEF ConOf, ConstantOf
<1>10. PICK inp2, us2 : inp2 = Append(inputs, <<>>) /\ us2 = Append(users, <<>>)
  OBVIOUS
<1>11. ShiftSet(inp2, us2, h, c, x, n)
  <2>1. h = RewireShift([inputs |-> inp2, users |-> us2], c, x, n)
    BY <1>2, <1>10 DEF WithNew, Edges
  <2> QED
    BY <2>1, ShiftRewired
<1>12. ASSUME runs = 1
       PROVE  /\ Follows(All, OpcodeOf, ConOf, inputs, code, Settled,
                         OpcodeOf', ConOf', inputs', code')
              /\ Done(Exact, OpcodeOf', ConOf', inputs', code', c)
  <2>1. /\ EdgesOK(All, OpcodeOf, Ones, inputs, users, code, Settled)
        /\ AtTurn(OpcodeOf, code, Settled, c)
        /\ inputs \in Lists(All, All) /\ c \in All
        /\ IndexOf(c) \in 1 .. Len(code) /\ code[IndexOf(c)] = c
    BY <1>0, <1>3, <1>12, TurnGiven
  <2>2. AllDone(Exact, OpcodeOf, ConOf, inputs, code, Settled)
    BY <1>12 DEF DoneInv
  <2>3. /\ OpcodeOf[c] = "ashr" /\ OpcodeOf[t] = "ashr"
        /\ OpcodeOf[inputs[c][2]] = "const" /\ OpcodeOf[inputs[t][2]] = "const"
        /\ ConOf[inputs[t][2]].type = ConOf[inputs[c][2]].type
        /\ ConOf[inputs[c][2]] = ConstantOf(inputs[c][2])
    <3>1. /\ Opcode(t) = "ashr" /\ IsConst(inputs[c][2]) /\ IsConst(inputs[t][2])
          /\ ConstantOf(inputs[t][2]).type = ConstantOf(inputs[c][2]).type
      BY <1>0 DEF AshrOfAshr, ShiftOfShift
    <3>2. /\ OpcodeOf[c] = "ashr" /\ t \in All /\ inputs[c][2] \in All
          /\ OpcodeOf[t] = "ashr" => inputs[t][2] \in All
      BY <1>0, <1>3, <1>12, ShiftInputs
    <3>3. \A i \in All : OpcodeOf[i] = Opcode(i) /\ ConOf[i] = ConstantOf(i)
      BY DEF OpcodeOf, ConOf
    <3> QED
      BY <3>1, <3>2, <3>3 DEF IsConst
  <2>4. ConOf'[n].type = ConOf[inputs[c][2]].type
    BY <1>4, <1>9, <2>3
  <2>5. /\ inp2 \in Lists(All \cup {n}, All \cup {n}) /\ inp2[n] = <<>>
        /\ \A i \in All : inp2[i] = inputs[i]
    <3>1. inputs \in Lists(All, All \cup {n}) /\ <<>> \in Seq(All \cup {n})
      BY <1>7, <2>1, NothingUsed
    <3>2. OneAdded(All, n, inputs, <<>>, inp2)
      BY <1>6, <1>10, <3>1, OneListMore
    <3> QED
      BY <3>2 DEF OneAdded
  <2>6. inputs' = [inp2 EXCEPT ![c] = <<x, n>>]
    BY <1>2, <1>11, Zenon DEF ShiftSet
  <2>7. /\ \A u \in All \ {c} : inputs'[u] = inputs[u]
        /\ inputs'[c] = <<x, n>> /\ inputs'[n] = <<>>
    BY <1>7, <2>1, <2>5, <2>6 DEF Lists
  <2>8. /\ Uses(code') = Uses(code) \cup {n} /\ SameOrder(code, code')
        /\ ~InFront(code', n, c)
    <3>1. code \in Seq(All) /\ Injective(code)
      BY DEF CodeInv
    <3>2. PICK p : p = IndexOf(c)
      OBVIOUS
    <3>3. p \in 1 .. Len(code) /\ code[p] = c
      BY <2>1, <3>2
    <3>4. /\ Uses(InsertAt(code, p + 1, n)) = Uses(code) \cup {n}
          /\ SameOrder(code, InsertAt(code, p + 1, n))
          /\ ~InFront(InsertAt(code, p + 1, n), n, code[p])
      BY <1>7, <3>1, <3>3, DistanceBehind, Zenon
    <3>5. code' = InsertAt(code, p + 1, n)
      BY <1>1, <3>2, Zenon
    <3> QED
      BY <3>3, <3>4, <3>5, Zenon
  <2>9. PICK op2, con2, inp3, cd2 :
          op2 = OpcodeOf' /\ con2 = ConOf' /\ inp3 = inputs' /\ cd2 = code'
    OBVIOUS
  <2>10. Joins(All, OpcodeOf, ConOf, inputs, code, c, t, n, op2, con2, inp3, cd2)
    BY <1>0, <1>6, <1>7, <1>8, <2>3, <2>4, <2>7, <2>8, <2>9 DEF Joins
  <2>11. /\ Follows(All, OpcodeOf, ConOf, inputs, code, Settled, op2, con2, inp3, cd2)
         /\ Done(Exact, op2, con2, inp3, cd2, c)
    <3>1. ConOf'[n] = SumOfDistances(c)
      BY <1>1, <1>9 DEF ConstantInsn
    <3>2. Exact => con2[n].value # 0
      BY <1>0, <2>9, <3>1, JoinedNotZero, Zenon
    <3> QED
      BY <2>1, <2>2, <2>10, <3>2, JoinedDone, Zenon
  <2> QED
    BY <2>9, <2>11, Zenon
<1> QED
  BY <1>0, <1>5, <1>12, VisitKeepsDone, Zenon

(* Nothing changes for what is done with. *)
LEMMA NothingKeepsDone ==
  ASSUME DoneInv, UNCHANGED <<type, insns, inputs, code, currInsn, runs>>
  PROVE  DoneInv'
BY DEF DoneInv, Exact, All, OpcodeOf, ConOf, Settled, InCode, Opcode, IsOperation, ConstantOf

(* Nor is there anything to be done with while nothing is settled. *)
LEMMA NoneSettledDone ==
  ASSUME Settled' = {}
  PROVE  DoneInv'
BY DEF DoneInv, AllDone

(* What a visit leaves is done with. *)
LEMMA VisitsKeepDone ==
  ASSUME CodeInv, EdgesInv, ValueInv, DoneInv, Visit
  PROVE  DoneInv'
<1>1. CASE \E op \in operations : Fold(op)
  BY <1>1, FoldKeepsDone
<1>2. CASE FoldUnreachable \/ AshrAssertFails \/ MulByOneOutOfBounds
  BY <1>2, NothingKeepsDone
    DEF FoldUnreachable, AshrAssertFails, MulByOneOutOfBounds, Halt, program
<1>3. CASE MulByOne
  BY <1>3, MulByOneKeepsDone
<1>4. CASE MulByTwo
  BY <1>4, MulByTwoKeepsDone
<1>5. CASE MulStays \/ OrStays
  BY <1>5, OrderedStaysKeepsDone
<1>6. CASE AshrByZero \/ OrGivesWay
  BY <1>6, GivingWayKeepsDone
<1>7. CASE AshrOfAshr
  BY <1>7, AshrOfAshrKeepsDone
<1>8. CASE AshrStays
  BY <1>8, AshrStaysKeepsDone
<1> QED
  BY <1>1, <1>2, <1>3, <1>4, <1>5, <1>6, <1>7, <1>8 DEF Visit

(* At every time all instructions have the values they stand for, in the   *)
(* first run what was visited is done with, and thereafter nothing is      *)
(* folded.  Each rests on the others.                                      *)
AllInv == ValueInv /\ DoneInv /\ StableInv

LEMMA AllInvariance == PeepholesSpec => []AllInv
<1>1. ASSUME PeepholesInit PROVE AllInv
  <2>1. ValueInv
    BY <1>1, ValueInvInit
  <2>2. runs = 0 /\ Settled = {}
    BY <1>1, NothingSettled DEF PeepholesInit
  <2> QED
    BY <2>1, <2>2 DEF AllInv, DoneInv, AllDone, StableInv
<1>2. ASSUME CodeInv, EdgesInv, AllInv, [PeepholesNext]_peepholeVars
      PROVE  AllInv'
  <2>1. CASE Build
    <3>1. runs = 0 /\ runs' = 0
      BY <2>1 DEF Build, CreateOperation, CreateCall, CreateInstruction, ResolveDependency
    <3>2. Settled' = {}
      BY <3>1 DEF Settled
    <3>3. StableInv'
      BY <3>1 DEF StableInv
    <3> QED
      BY <1>2, <2>1, <3>2, <3>3, BuildKeepsValues, NoneSettledDone DEF AllInv
  <2>2. CASE StartRun
    <3>1. ValueInv'
      BY <1>2, <2>2, StartKeepsValues DEF AllInv
    <3>2. DoneInv'
      BY <1>2, <2>2, StartSettlesNothing, NoneSettledDone
    <3>3. StableInv'
      BY <1>2, <2>2, StartKeepsStable DEF AllInv
    <3> QED
      BY <3>1, <3>2, <3>3 DEF AllInv
  <2>3. CASE Visit
    <3>1. ValueInv'
      BY <1>2, <2>3, AllFoldsDefined, VisitsKeepValues DEF AllInv
    <3>2. DoneInv'
      BY <1>2, <2>3, VisitsKeepDone DEF AllInv
    <3>3. StableInv'
      BY <1>2, <2>3, VisitsKeepStable DEF AllInv
    <3> QED
      BY <3>1, <3>2, <3>3 DEF AllInv
  <2>4. CASE Stopped \/ UNCHANGED peepholeVars
    <3>1. UNCHANGED <<program, inputs, users, code, currInsn, runs, outcome, asked>>
      BY <2>4 DEF Stopped, peepholeVars
    <3>2. ValueInv'
      BY <1>2, <3>1, NothingKeepsValues DEF AllInv
    <3>3. DoneInv'
      BY <1>2, <3>1, NothingKeepsDone DEF AllInv, program
    <3>4. StableInv'
      BY <1>2, <3>1, NothingKeepsStable DEF AllInv, program
    <3> QED
      BY <3>2, <3>3, <3>4 DEF AllInv
  <2> QED
    BY <1>2, <2>1, <2>2, <2>3, <2>4 DEF PeepholesNext
<1> QED
  BY <1>1, <1>2, CodeInvariance, EdgesInvariance, PTL DEF PeepholesSpec

(* A shift whose distance, which VisitAshr has joined and put behind it,   *)
(* is zero, as that of twice 2^(WIDTH - 1) is.                             *)
JoinedByZero(i) ==
  Opcode(i) = "ashr" /\ inputs[i][2] = Behind(i) /\ DistanceIsZero(inputs[i])

(* One pass of the optimiser leaves no operation that could be simplified, *)
(* whatever the program is: unless the operations have a narrow type, and  *)
(* it has joined two distances that are more than the type holds and so    *)
(* cancel each other, for it does not come back to the shift.              *)
THEOREM OnePassLeavesNothing ==
  PeepholesSpec =>
    [](runs <= 1 /\ (type \in NarrowTypes => \A i \in InCode : ~JoinedByZero(i))
         => NothingLeft)
<1>1. ASSUME CodeInv, EdgesInv, DoneInv, runs <= 1,
             type \in NarrowTypes => \A i \in InCode : ~JoinedByZero(i)
      PROVE  NothingLeft
  <2> SUFFICES ASSUME runs > 0, currInsn = 0, NEW i \in InCode, IsOperation(i)
               PROVE  Irreducible(i)
    BY DEF NothingLeft
  <2>1. EdgesOK(All, OpcodeOf, Ones, inputs, users, code, Settled)
    BY <1>1 DEF EdgesInv
  <2>2. i \in Settled
    BY DEF Settled
  <2>3. Done(Exact, OpcodeOf, ConOf, inputs, code, i)
    BY <1>1, <2>2 DEF DoneInv, AllDone
  <2>4. PICK s : s = inputs[i]
    OBVIOUS
  <2>5. /\ InCode \subseteq All /\ i \in All /\ OpcodeOf[i] = Opcode(i)
        /\ \A j \in All : OpcodeOf[j] = Opcode(j) /\ ConOf[j] = ConstantOf(j)
    BY <1>1, CodeNumbers DEF OpcodeOf, ConOf
  <2>6. ASSUME NEW j \in All, Binary(OpcodeOf, j)
        PROVE  /\ inputs[j] \in Seq(All) /\ Len(inputs[j]) = 2
               /\ inputs[j][1] \in All /\ inputs[j][2] \in All
               /\ Uses(inputs[j]) = {inputs[j][1], inputs[j][2]}
    <3>1. inputs[j] \in Seq(All) /\ Len(inputs[j]) = 2
      BY <2>1, <2>6 DEF EdgesOK, EdgesTyped, Lists, InputsFit
    <3> QED
      BY <3>1, TwoInputs
  <2>7. s[1] \in All /\ s[2] \in All /\ Uses(s) = {s[1], s[2]} /\ i # Phi
    <3>1. Binary(OpcodeOf, i)
      BY <2>5 DEF Binary, IsOperation
    <3>2. i # Phi
      BY <1>1 DEF EdgesInv, IsOperation, Operations
    <3> QED
      BY <2>4, <2>5, <2>6, <3>1, <3>2
  <2>8. ~Foldable(i)
    BY <2>3, <2>4, <2>5, <2>7 DEF Done, Foldable, IsConst
  <2>9. Opcode(i) \in {"mul", "or"} => ~IsConst(s[1])
    BY <2>3, <2>4, <2>5, <2>7 DEF Done, IsConst
  <2>10. Opcode(i) = "mul" =>
           /\ ~IsFactor(s, 2)
           /\ IsFactor(s, 1) =>
                \A u \in InCode : i \in Uses(inputs[u]) => HasVectorInputs(u)
    <3>1. \A u \in InCode : Vector(OpcodeOf, u) <=> HasVectorInputs(u)
      BY <2>5 DEF Vector, HasVectorInputs
    <3>2. OpcodeOf[s[2]] = Opcode(s[2]) /\ ConOf[s[2]] = ConstantOf(s[2])
      BY <2>5, <2>7
    <3> QED
      BY <2>3, <2>4, <2>5, <3>1, <3>2 DEF Done, IsFactor, IsConst, InCode
  <2>11. Opcode(i) = "or" => ~Idempotent(s)
    BY <2>3, <2>4, <2>5, <2>7 DEF Done, Idempotent, IsConst
  <2>12. ASSUME Opcode(i) = "ashr"
         PROVE  ~ShiftOfShift(i) /\ (IsConst(s[2]) => ~DistanceIsZero(s))
    <3>1. ASSUME IsConst(s[2]), DistanceIsZero(s) PROVE FALSE
      <4>1. OpcodeOf[s[2]] = "const" /\ ConOf[s[2]].value = 0
        BY <2>5, <2>7, <3>1 DEF IsConst, DistanceIsZero
      <4>2. ~Exact /\ ~InFront(code, s[2], i)
        BY <2>3, <2>4, <2>5, <2>12, <4>1 DEF Done
      <4>3. s[2] \in InCode /\ RightBehind(code, i, s[2])
        BY <2>1, <2>4, <2>7, <4>2 DEF EdgesOK, Ordered, InCode
      <4>4. s[2] = Behind(i)
        BY <1>1, <4>3, PlacesInOrder
      <4> QED
        BY <1>1, <2>4, <2>12, <3>1, <4>2, <4>4 DEF JoinedByZero, Exact
    <3>2. ASSUME ShiftOfShift(i) PROVE FALSE
      <4>1. /\ Opcode(s[1]) = "ashr" /\ IsConst(s[2]) /\ IsConst(inputs[s[1]][2])
            /\ ConstantOf(inputs[s[1]][2]).type = ConstantOf(s[2]).type
        BY <2>4, <3>2 DEF ShiftOfShift
      <4>2. inputs[s[1]][2] \in All
        BY <2>5, <2>6, <2>7, <4>1 DEF Binary, Operations
      <4>3. OpcodeOf[s[2]] = "const" /\ Joinable(OpcodeOf, ConOf, inputs, i)
        BY <2>4, <2>5, <2>7, <4>1, <4>2 DEF Joinable, IsConst
      <4> QED
        BY <2>3, <2>4, <2>5, <2>12, <4>3 DEF Done
    <3> QED
      BY <3>1, <3>2
  <2> QED
    BY <2>4, <2>8, <2>9, <2>10, <2>11, <2>12 DEF Irreducible
<1>2. AllInv => DoneInv
  BY DEF AllInv
<1> QED
  BY <1>1, <1>2, CodeInvariance, EdgesInvariance, AllInvariance, PTL

-----------------------------------------------------------------------------
(* In every program and run, after any number of visits, every instruction *)
(* computes what the one it stands for was built to compute, whatever      *)
(* values the phi has, and calls and the phi are given the values they     *)
(* were built with; but for the sums of type F64 that VisitMul makes of    *)
(* other products, shifts by joined distances of the width or more, which  *)
(* compute nothing, and products of floats folded from misread factors.    *)
(* That distances added up fit the type is by the assumption on            *)
(* MAX_OPERATIONS.                                                         *)
THEOREM VisitsPreserveValues == PeepholesSpec => []ValuesPreserved
<1>1. ASSUME CodeInv, ValueInv PROVE ValuesPreserved
  <2> SUFFICES ASSUME NEW i \in InCode
               PROVE  RetypedSum(i) \/ MisreadProduct(i) \/ HasMeaning(i)
    BY DEF ValuesPreserved
  <2>1. PICK w : Sound(All, Fresh, type, insns, inputs, meaning, asked, w, Limit)
    BY <1>1 DEF ValueInv
  <2>2. i \in All /\ insns[i].opcode \in Opcodes
    BY <1>1, CodeNumbers DEF CodeInv, Opcode
  <2>3. \/ Excepted(type, insns[i])
        \/ InsnMeans(type, insns[i], inputs[i], meaning[i], asked[i], meaning)
    BY <2>1, <2>2 DEF Sound, InsnSound
  <2>4. CASE Excepted(type, insns[i])
    BY <2>4 DEF Excepted, Misread, RetypedSum, MisreadProduct, IsConst, ConstantOf, Opcode
  <2>5. CASE InsnMeans(type, insns[i], inputs[i], meaning[i], asked[i], meaning)
    <3>1. CASE insns[i].opcode = "const"
      <4>1. \A e \in Environments :
              InType(InType(insns[i].constant.value, insns[i].resultType), type) = meaning[i][e]
        BY <2>5, <3>1, Zenon DEF InsnMeans
      <4>2. insns[i].opcode \notin Operations \cup {"add"}
        BY <3>1 DEF Operations
      <4> QED
        BY <3>1, <4>1, <4>2 DEF HasMeaning, Opcode, ConstantOf
    <3>2. CASE insns[i].opcode \in Arithmetic
      <4>1. \A e \in Environments :
              Computes(insns[i].opcode, insns[i].resultType,
                       meaning[inputs[i][1]][e], meaning[inputs[i][2]][e]) = meaning[i][e]
        BY <2>5, <3>2, Zenon DEF InsnMeans
      <4>2. insns[i].opcode # "const" /\ insns[i].opcode \in Operations \cup {"add"}
        BY <3>2 DEF Arithmetic, Operations
      <4> QED
        BY <4>1, <4>2 DEF HasMeaning, Opcode
    <3>3. CASE insns[i].opcode \in {"phi", "call"}
      <4>1. Meanings(inputs[i]) = asked[i]
        BY <2>5, <3>3, Zenon DEF InsnMeans, Meanings
      <4>2. insns[i].opcode # "const" /\ insns[i].opcode \notin Operations \cup {"add"}
        BY <3>3 DEF Operations
      <4> QED
        BY <4>1, <4>2 DEF HasMeaning, Opcode
    <3> QED
      BY <2>2, <3>1, <3>2, <3>3 DEF Opcodes, Arithmetic
  <2> QED
    BY <2>3, <2>4, <2>5
<1>2. AllInv => ValueInv
  BY DEF AllInv
<1> QED
  BY <1>1, <1>2, CodeInvariance, AllInvariance, PTL
=============================================================================
