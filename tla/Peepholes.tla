------------------------------ MODULE Peepholes ------------------------------
(***************************************************************************)
(* Peepholes (optimizations/peepholes.cpp) with constant folding: every    *)
(* multiplication, arithmetic shift and disjunction of a program is        *)
(* visited once and simplified, which rewires inputs and users, takes      *)
(* instructions out of their block and puts new ones in.                   *)
(*                                                                         *)
(* A program is built and then optimised, up to MAX_RUNS times.  Its       *)
(* blocks form a chain, the phi stands in front and may take values from   *)
(* behind it (a loop); `code' is the instructions of the blocks in the     *)
(* order in which Run visits them.  The pointers of a block are the matter *)
(* of InsnList.tla; ReplaceInputsForUsers is a single step and the         *)
(* dependencies of the phi are left out (both are in DefUse.tla).  All     *)
(* operations of a program have one type, and so have their operands; each *)
(* takes the result of the one before it, other programs falling into      *)
(* such.                                                                   *)
(***************************************************************************)
EXTENDS ConstantFolding, Users

CONSTANTS MAX_OPERATIONS,  \* bound: how many operations are built
          MAX_USES,        \* bound: how many calls and inputs of the phi
          MAX_ARGUMENTS,   \* bound: how many values a call takes
          MAX_RUNS,        \* bound: how often Run is called
          Starts,          \* what programs begin with: the type, the opcodes
                           \* and the constants of their operations
          Environments     \* the values the phi may have

Operations == {"mul", "ashr", "or"}

(* Only products are operations of floats, and they may take floats of     *)
(* either kind and small integers.  There are fewer operations than it     *)
(* takes for the distances of all shifts to add up to 2^HALF_WIDTH, which  *)
(* are 138 million in the code.                                            *)
ASSUME PeepholesAssumption ==
  /\ {MAX_OPERATIONS, MAX_USES, MAX_ARGUMENTS, MAX_RUNS} \subseteq Nat
  /\ \A w \in {HALF_WIDTH, WIDTH} : MAX_OPERATIONS * (w - 1) < 2^w
  /\ \A start \in Starts :
       /\ start.type \in DataTypes
       /\ start.pool \in Seq([value : Int, type : DataTypes])
       /\ start.operations \subseteq IF start.type \in FloatTypes THEN {"mul"}
                                    ELSE Operations
       /\ \A k \in DOMAIN start.pool :
            \/ start.type \in FloatTypes /\ start.pool[k].type \in FloatTypes
            \/ /\ start.pool[k].type \in {"I64", "U64"}
               /\ start.pool[k].value \in
                    IF start.type \in FloatTypes THEN Patterns \cap 0 .. WIDTH
                                                 ELSE Patterns
  /\ Environments \subseteq Nat /\ Environments # {}

VARIABLES
  type, operations,  \* the type and the opcodes of the operations
  insns,      \* Graph::instructions_: opcode, result type, constant
  inputs, users,
  code,
  currInsn,   \* the operation Run comes to next, 0 if it is not running
  runs,       \* how often Run was called
  outcome,    \* "running", or how the program ended
  meaning,    \* history: the value of an instruction, or of the one it stands
              \* for, in each environment
  asked       \* history: the values that a call or the phi was given

program == <<type, operations, insns, meaning>>
peepholeVars == <<program, inputs, users, code, currInsn, runs, outcome, asked>>

Opcode(i) == insns[i].opcode
IsConst(i) == Opcode(i) = "const"
ConstantOf(i) == insns[i].constant
IsOperation(i) == Opcode(i) \in Operations
HasVectorInputs(i) == Opcode(i) \in {"phi", "call"}

Insn(op, t) == [opcode |-> op, resultType |-> t, constant |-> Constant(0, "I64")]
ConstantInsn(c, t) == [opcode |-> "const", resultType |-> t, constant |-> c]

InCode == Uses(code)
IndexOf(i) == CHOOSE k \in 1 .. Len(code) : code[k] = i
Behind(i) == IF IndexOf(i) = Len(code) THEN 0 ELSE code[IndexOf(i) + 1]

(* The other instructions have empty Visit methods and are passed over.    *)
OperationFrom(k) ==
  LET later == {m \in k .. Len(code) : IsOperation(code[m])}
  IN  IF later = {} THEN 0 ELSE code[Min(later)]

NewInsn == Len(insns) + 1
-----------------------------------------------------------------------------
(* The program begins with its phi and its constants. *)
Phi == 1

(* The result type of a constant: in a program of floats it keeps its own. *)
ResultTypeOf(c) == IF type \in FloatTypes THEN c.type ELSE type

PeepholesInit ==
  \E start \in Starts :
    /\ type = start.type /\ operations = start.operations
    /\ insns = <<Insn("phi", type)>>
                 \o [k \in DOMAIN start.pool |->
                       ConstantInsn(start.pool[k], ResultTypeOf(start.pool[k]))]
    /\ inputs = [i \in DOMAIN insns |-> <<>>] /\ users = inputs
    /\ code = [i \in DOMAIN insns |-> i]
    /\ currInsn = 0 /\ runs = 0 /\ outcome = "running"
    /\ meaning = [i \in DOMAIN insns |->
                    [e \in Environments |->
                       InType(IF i = Phi THEN e ELSE insns[i].constant.value, type)]]
    /\ asked = inputs

(* IrBuilder::CreateInstruction. *)
CreateInstruction(insn, s, us, value, given) ==
  /\ insns' = Append(insns, insn)
  /\ inputs' = Append(inputs, s)
  /\ users' = Append(us, <<>>)
  /\ code' = Append(code, NewInsn)
  /\ meaning' = Append(meaning, value)
  /\ asked' = Append(asked, given)
  /\ UNCHANGED <<type, operations, currInsn, runs, outcome>>

NoValue == [e \in Environments |-> 0]

(* ArithmeticInsn: an instruction that takes the same input twice is its   *)
(* user once.                                                              *)
ArithmeticUsers(us, a, b, i) ==
  IF a = b THEN AddUser(us, a, i) ELSE AddUser(AddUser(us, a, i), b, i)

Built == {i \in InCode : IsOperation(i)}
LastBuilt == IF Built = {} THEN 0 ELSE Max(Built)

(* Nothing is shifted by the width of its type or more. *)
CreateOperation(op, a, b) ==
  /\ op = "ashr" => \A e \in Environments : meaning[b][e] < Bits(type)
  /\ CreateInstruction(Insn(op, type), <<a, b>>, ArithmeticUsers(users, a, b, NewInsn),
       [e \in Environments |-> Computes(op, type, meaning[a][e], meaning[b][e])], <<>>)

Meanings(s) == [k \in DOMAIN s |-> meaning[s[k]]]

UsesBuilt == Len(inputs[Phi]) + Cardinality({i \in InCode : Opcode(i) = "call"})

CreateCall(s) ==
  /\ UsesBuilt < MAX_USES
  /\ CreateInstruction(Insn("call", "VOID"), s, AddToUsers(users, s, NewInsn),
                       NoValue, Meanings(s))

(* The phi takes a value it does not have yet. *)
ResolveDependency(d) ==
  /\ UsesBuilt < MAX_USES /\ d \notin Uses(inputs[Phi])
  /\ inputs' = [inputs EXCEPT ![Phi] = Append(@, d)]
  /\ users' = AddUser(users, d, Phi)
  /\ asked' = [asked EXCEPT ![Phi] = Append(@, meaning[d])]
  /\ UNCHANGED <<program, code, currInsn, runs, outcome>>
-----------------------------------------------------------------------------
(* The def-use edges are rewired step by step: each of these takes them as *)
(* a record and returns what they are afterwards.  (An action names such a *)
(* record by \E, of which TLC evaluates it once.)                          *)
Edges == [inputs |-> inputs, users |-> users]

SetEdges(g) == \E final \in {g} : inputs' = final.inputs /\ users' = final.users

SetInputs(g, i, s) == [g EXCEPT !.inputs[i] = s]

AddUserTo(g, d, i) == [g EXCEPT !.users = AddUser(@, d, i)]

RemoveUserFrom(g, d, i) == [g EXCEPT !.users = RemoveUser(@, d, i)]

(* i->ReplaceInputsForUsers(n): the entries of users that do not use i     *)
(* (any more) stay.                                                        *)
ReplaceInputsForUsers(g, i, n) ==
  LET Move(us, u) == IF i \in Uses(g.inputs[u])
                       THEN AddUser(RemoveUser(us, i, u), n, u) ELSE us
  IN  [inputs |-> [u \in DOMAIN g.inputs |->
                     IF u \in Uses(g.users[i]) THEN ReplaceAll(g.inputs[u], i, n)
                                               ELSE g.inputs[u]],
       users  |-> FoldLeft(Move, g.users, Distinct(g.users[i]))]

(* What BasicBlock::Remove does to the edges. *)
LeaveUsers(g, i) == [g EXCEPT !.users = RemoveUsers(@, g.inputs[i], i)]
-----------------------------------------------------------------------------
(* Run: EnumerateInsns goes on with the instruction it has saved before    *)
(* the visit.                                                              *)
StartRun ==
  /\ currInsn = 0 /\ runs < MAX_RUNS /\ outcome = "running"
  /\ currInsn' = OperationFrom(1) /\ runs' = runs + 1
  /\ UNCHANGED <<program, inputs, users, code, outcome, asked>>

NextOperation == OperationFrom(IndexOf(currInsn) + 1)

Turn(op) == outcome = "running" /\ currInsn # 0 /\ Opcode(currInsn) = op

(* Mutant: the enumeration does not move on. *)
StayAtTurn == UNCHANGED <<currInsn, type, operations, runs, outcome>>

EndTurn == currInsn' = NextOperation /\ UNCHANGED <<type, operations, runs, outcome>>

Halt(how) ==
  /\ outcome' = how
  /\ UNCHANGED <<program, inputs, users, code, currInsn, runs, asked>>

NothingNew == UNCHANGED <<insns, meaning, asked>>

(* Graph::CreateInsn. *)
CreateInsn(insn, value) ==
  /\ insns' = Append(insns, insn)
  /\ meaning' = Append(meaning, value)
  /\ asked' = Append(asked, <<>>)

(* The edges with a new instruction, which has no operands yet. *)
WithNew(g) == [inputs |-> Append(g.inputs, <<>>), users |-> Append(g.users, <<>>)]

(* CreateNewInsnInsteadOfInsn: the new instruction takes the place of i.   *)
PutInstead(g, i, insn) ==
  /\ CreateInsn(insn, meaning[i])
  /\ \E replaced \in {ReplaceInputsForUsers(g, i, NewInsn)} :
       SetEdges(LeaveUsers(replaced, i))
  /\ code' = ReplaceAt(code, IndexOf(i), NewInsn)
  /\ EndTurn

(* Mutant: the users keep the instruction that goes. *)
GiveWayUnreplaced(g, i, n) ==
  /\ SetEdges(LeaveUsers(g, i))
  /\ code' = RemoveAt(code, IndexOf(i))
  /\ NothingNew /\ EndTurn

(* i gives way to an instruction that is there. *)
GiveWay(g, i, n) ==
  /\ \E replaced \in {ReplaceInputsForUsers(g, i, n)} :
       SetEdges(LeaveUsers(replaced, i))
  /\ code' = RemoveAt(code, IndexOf(i))
  /\ NothingNew /\ EndTurn

KeepInsn(g) == SetEdges(g) /\ UNCHANGED code /\ NothingNew /\ EndTurn
-----------------------------------------------------------------------------
Foldable(i) == \A k \in 1 .. 2 : IsConst(inputs[i][k])

NewConstants(i) ==
  FoldInsn(Opcode(i), insns[i].resultType,
           ConstantOf(inputs[i][1]), ConstantOf(inputs[i][2]))

Fold(op) ==
  /\ Turn(op) /\ Foldable(currInsn)
  /\ op = "mul" => insns[currInsn].resultType \in FoldMulTypes
  /\ \E g \in {WithNew(Edges)}, folded \in NewConstants(currInsn) :
       PutInstead(g, currInsn, ConstantInsn(folded.constant, folded.resultType))

FoldUnreachable ==
  /\ Turn("mul") /\ Foldable(currInsn)
  /\ insns[currInsn].resultType \notin FoldMulTypes
  /\ Halt("unreachable")

(* Mutant: a constant stays in front. *)
Unswapped(i) == inputs[i]

(* SwapInputs, when the first input is a constant. *)
Swapped(i) == IF IsConst(inputs[i][1]) THEN Reverse(inputs[i]) ELSE inputs[i]

IsFactor(s, n) == IsConst(s[2]) /\ IsEqualTo(ConstantOf(s[2]), n)

(* The loop of VisitMul over the users of a product i = x * 1.  It sets    *)
(* the inputs of a user to x, which is without effect on those with vector *)
(* inputs, and erases its entry, and does not make it a user of x.  Of a   *)
(* user with vector inputs it looks at the first two; where there is only  *)
(* one it reads past the end.  Should the program survive that, what it    *)
(* has read does not matter: the one input is i.                           *)
RedirectUsers(g, i, x) ==
  LET Redirect(acc, u) ==
        IF i \notin Uses(SubSeq(acc.inputs[u], 1, Min({2, Len(acc.inputs[u])})))
        THEN [acc EXCEPT !.users[i] = Append(@, u)]
        ELSE IF HasVectorInputs(u) THEN acc
        ELSE SetInputs(acc, u, ReplaceAll(acc.inputs[u], i, x))
  IN  FoldLeft(Redirect, [g EXCEPT !.users[i] = <<>>], g.users[i])

(* The edges with the inputs of a commutative operation in order. *)
InOrder(i) == SetInputs(Edges, i, Swapped(i))

MulByOne ==
  /\ Turn("mul") /\ ~Foldable(currInsn) /\ IsFactor(Swapped(currInsn), 1)
  /\ \E g \in {InOrder(currInsn)} :
       KeepInsn(RedirectUsers(g, currInsn, g.inputs[currInsn][1]))

ReadsPastInputs(u) == HasVectorInputs(u) /\ Len(inputs[u]) < 2

MulByOneOutOfBounds ==
  /\ Turn("mul") /\ ~Foldable(currInsn) /\ IsFactor(Swapped(currInsn), 1)
  /\ \E u \in Uses(users[currInsn]) : ReadsPastInputs(u)
  /\ Halt("out of bounds")

(* The new sum is of type F64 whatever is added. *)
MulByTwo ==
  /\ Turn("mul") /\ ~Foldable(currInsn) /\ IsFactor(Swapped(currInsn), 2)
  /\ \E x \in {Swapped(currInsn)[1]} : \E g \in {WithNew(InOrder(currInsn))} :
     \E h \in {SetInputs(AddUserTo(g, x, NewInsn), NewInsn, <<x, x>>)} :
       PutInstead(h, currInsn, Insn("add", "F64"))

MulStays ==
  /\ Turn("mul") /\ ~Foldable(currInsn)
  /\ ~IsFactor(Swapped(currInsn), 1) /\ ~IsFactor(Swapped(currInsn), 2)
  /\ KeepInsn(InOrder(currInsn))
-----------------------------------------------------------------------------
DistanceIsZero(s) == ConstantOf(s[2]).value = 0

AshrByZero ==
  LET s == inputs[currInsn]
  IN  /\ Turn("ashr") /\ ~Foldable(currInsn) /\ IsConst(s[2]) /\ DistanceIsZero(s)
      /\ GiveWay(Edges, currInsn, s[1])

(* A shift by a constant of what is shifted by a constant of the same kind *)
(* already.                                                                *)
ShiftOfShift(i) ==
  LET s == inputs[i]
      t == inputs[s[1]]
  IN  /\ IsConst(s[2]) /\ ~DistanceIsZero(s)
      /\ Opcode(s[1]) = "ashr" /\ IsConst(t[2])
      /\ ConstantOf(t[2]).type = ConstantOf(s[2]).type

SumOfDistances(i) ==
  Constant(GetAsI64(ConstantOf(inputs[i][2]))
             + GetAsI64(ConstantOf(inputs[inputs[i][1]][2])), "I64")

(* assert: the sum, an int64_t, has the type of the distances. *)
AshrAssertFails ==
  /\ Turn("ashr") /\ ~Foldable(currInsn) /\ ShiftOfShift(currInsn)
  /\ SumOfDistances(currInsn).type # ConstantOf(inputs[currInsn][2]).type
  /\ Halt("assert")

(* Mutant: the value that is shifted does not learn of its new user. *)
RewireShiftOneSided(g, i, x, n) ==
  SetInputs(AddUserTo(RemoveUserFrom(g, g.inputs[i][1], i), n, i), i, <<x, n>>)

(* i shifts x by n from now on.  The old distance keeps i as a user. *)
RewireShift(g, i, x, n) ==
  SetInputs(AddUserTo(AddUserTo(RemoveUserFrom(g, g.inputs[i][1], i), x, i), n, i),
            i, <<x, n>>)

(* The new distance is put behind the shift.  Its own result type is the   *)
(* kind of the constant.                                                   *)
AshrOfAshr ==
  LET i == currInsn
      c == SumOfDistances(i)
  IN  /\ Turn("ashr") /\ ~Foldable(i) /\ ShiftOfShift(i)
      /\ c.type = ConstantOf(inputs[i][2]).type
      /\ CreateInsn(ConstantInsn(c, c.type), [e \in Environments |-> InType(c.value, type)])
      /\ \E g \in {WithNew(Edges)} :
           SetEdges(RewireShift(g, i, inputs[inputs[i][1]][1], NewInsn))
      /\ code' = InsertAt(code, IndexOf(i) + 1, NewInsn)
      /\ EndTurn

AshrStays ==
  LET s == inputs[currInsn]
  IN  /\ Turn("ashr") /\ ~Foldable(currInsn) /\ ~ShiftOfShift(currInsn)
      /\ IsConst(s[2]) => ~DistanceIsZero(s)
      /\ KeepInsn(Edges)
-----------------------------------------------------------------------------
(* A disjunction with zero, or of a value with itself. *)
Idempotent(s) ==
  IF IsConst(s[2]) THEN ConstantOf(s[2]).value = 0 ELSE s[1] = s[2]

OrGivesWay ==
  /\ Turn("or") /\ ~Foldable(currInsn) /\ Idempotent(Swapped(currInsn))
  /\ \E g \in {InOrder(currInsn)} : GiveWay(g, currInsn, g.inputs[currInsn][1])

OrStays ==
  /\ Turn("or") /\ ~Foldable(currInsn) /\ ~Idempotent(Swapped(currInsn))
  /\ KeepInsn(InOrder(currInsn))
-----------------------------------------------------------------------------
(* The operands an operation may be built with, in which the last one      *)
(* before it is used.                                                      *)
Operands ==
  LET values == {i \in InCode : Opcode(i) # "call"}
      last   == LastBuilt
  IN  IF Cardinality(Built) = MAX_OPERATIONS THEN {}
      ELSE {s \in values \X values : last = 0 \/ last \in Uses(s)}

(* Calls and the phi take what was built last. *)
Build ==
  /\ runs = 0
  /\ \/ \E op \in operations, s \in Operands : CreateOperation(op, s[1], s[2])
     \/ /\ Built # {}
        /\ \/ ResolveDependency(LastBuilt)
           \/ \E k \in 1 .. MAX_ARGUMENTS :
                CreateCall([m \in 1 .. MAX_ARGUMENTS |-> IF m < k THEN Phi ELSE LastBuilt])

Visit ==
  \/ \E op \in operations : Fold(op)
  \/ FoldUnreachable
  \/ MulByOne \/ MulByOneOutOfBounds \/ MulByTwo \/ MulStays
  \/ AshrByZero \/ AshrAssertFails \/ AshrOfAshr \/ AshrStays
  \/ OrGivesWay \/ OrStays

(* Nowhere else does the optimiser stop. *)
Stopped ==
  /\ outcome = "running" => runs = MAX_RUNS /\ currInsn = 0
  /\ UNCHANGED peepholeVars

PeepholesNext == Build \/ StartRun \/ Visit \/ Stopped

PeepholesSpec == PeepholesInit /\ [][PeepholesNext]_peepholeVars
-----------------------------------------------------------------------------
(* VisitMul makes a sum of type F64 whatever the operands are, and a float *)
(* sum of integers is not what the integer product was.                    *)
RetypedSum(i) == Opcode(i) = "add" /\ insns[i].resultType # type

(* Two joined distances may add up to the width of the type or more, where *)
(* the two shifts were defined and the one shift is not.                   *)
ShiftsTooFar(i) ==
  Opcode(i) = "ashr" /\ \E e \in Environments : meaning[inputs[i][2]][e] >= Bits(type)

(* A folded product of floats whose factors were misread for zero.         *)
MisreadProduct(i) ==
  type \in FloatTypes /\ IsConst(i) /\ ConstantOf(i).value = 0

(* What is of another type than its user is converted (joined distances    *)
(* and folded products are of type I64).                                   *)
HasMeaning(i) ==
  CASE Opcode(i) = "const" ->
         \A e \in Environments :
           InType(InType(ConstantOf(i).value, insns[i].resultType), type) = meaning[i][e]
    [] Opcode(i) \in Operations \cup {"add"} ->
         \A e \in Environments :
           Computes(Opcode(i), insns[i].resultType,
                    meaning[inputs[i][1]][e], meaning[inputs[i][2]][e]) = meaning[i][e]
    [] OTHER -> Meanings(inputs[i]) = asked[i]

(* Every instruction computes what the one it stands for was built to      *)
(* compute, and calls and the phi are given the values they were built     *)
(* with: folding in other widths, swapped inputs, joined shifts and        *)
(* redirected users change no value.  Excepted are the sums, shifts and    *)
(* products above.                                                         *)
ValuesPreserved ==
  \A i \in InCode : RetypedSum(i) \/ ShiftsTooFar(i) \/ MisreadProduct(i) \/ HasMeaning(i)

(* No instruction uses one that was taken out, although users get lost on  *)
(* the way; and but for the phi, what an instruction uses stands in front  *)
(* of it, or is the joined distance that VisitAshr has put right behind it *)
(* (where OperandsInFront fails).                                          *)
OperandsInPlace ==
  \A i \in InCode : \A d \in Uses(inputs[i]) :
    /\ d \in InCode
    /\ \/ Opcode(i) = "phi"
       \/ IndexOf(d) < IndexOf(i)
       \/ Opcode(i) = "ashr" /\ d = Behind(i) /\ IsConst(d)

(* What the comments say of VisitAshr ("5.u64 Constant zzz" stands before  *)
(* "4. ashr v2, v5", peepholes.cpp:119-120, and "6.i64 Constant (v0 + v1)" *)
(* before "5.i64 ashr v3, v6", peepholes_test.cpp:349-350): but for the    *)
(* phi, what an instruction uses stands in front of it.                    *)
OperandsInFront ==
  \A i \in InCode : Opcode(i) # "phi" =>
    \A d \in Uses(inputs[i]) : d \in InCode /\ IndexOf(d) < IndexOf(i)

(* An instruction lacks a user only where VisitMul has redirected it: then *)
(* its product with one is still there.  And only constants list           *)
(* instructions as users that no longer are.                               *)
LostUsersExplained ==
  /\ \A i \in InCode : \A d \in Uses(inputs[i]) :
       i \notin Uses(users[d]) =>
         \E m \in InCode :
           /\ Opcode(m) = "mul" /\ IsFactor(inputs[m], 1)
           /\ d = IF HasVectorInputs(i) THEN m ELSE inputs[m][1]
  /\ \A d \in InCode : \A i \in Uses(users[d]) :
       ~IsConst(d) => i \in InCode /\ d \in Uses(inputs[i])

Irreducible(i) ==
  LET s == inputs[i]
  IN  /\ ~Foldable(i)
      /\ Opcode(i) \in {"mul", "or"} => ~IsConst(s[1])
      /\ Opcode(i) = "mul" =>
           /\ ~IsFactor(s, 2)
           /\ IsFactor(s, 1) =>
                \A u \in InCode : i \in Uses(inputs[u]) => HasVectorInputs(u)
      /\ Opcode(i) = "ashr" => ~ShiftOfShift(i) /\ (IsConst(s[2]) => ~DistanceIsZero(s))
      /\ Opcode(i) = "or" => ~Idempotent(s)

(* One pass is enough: when it is over, no operation is left that could be *)
(* simplified, for operands are visited before what uses them.  (Distances *)
(* of the instances do not cancel each other when they are joined.)        *)
NothingLeft ==
  runs > 0 /\ currInsn = 0 =>
    \A i \in InCode : IsOperation(i) => Irreducible(i)

(* A pass ends, though visits take instructions out and put others in:     *)
(* each leaves fewer operations to come to.                                *)
ToVisit ==
  IF currInsn = 0 THEN {}
  ELSE {i \in InCode : IsOperation(i) /\ IndexOf(currInsn) <= IndexOf(i)}

VisitsAdvance ==
  [][currInsn # 0 /\ outcome' = "running" => ToVisit' \subseteq ToVisit \ {currInsn}]_peepholeVars
=============================================================================
