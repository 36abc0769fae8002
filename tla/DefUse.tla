------------------------------- MODULE DefUse -------------------------------
(***************************************************************************)
(* The def-use edges of the IR: the inputs of an instruction (ir/inputs.h),*)
(* the users every instruction keeps (ir/instruction.h), the dependencies  *)
(* of a phi (ir/instructions.h), and ReplaceInputsForUsers followed by     *)
(* Remove, with which every optimisation takes an instruction out.         *)
(*                                                                         *)
(* Opcodes and types are left out but for the three ways in which          *)
(* instructions keep inputs; the place of an instruction in its block is   *)
(* the matter of InsnList.tla.  Instructions are numbered as               *)
(* Graph::AddInstruction numbers them.                                     *)
(***************************************************************************)
EXTENDS Users, FiniteSets

CONSTANTS MAX_INSNS,   \* bound: how many instructions are created
          MAX_PHIS,    \* bound: how many of them are phis
          MAX_INPUTS,  \* bound: how many arguments a call takes
          Blocks       \* the blocks control reaches a phi from

ASSUME DefUseAssumption == {MAX_INSNS, MAX_PHIS, MAX_INPUTS} \subseteq Nat

Insns == 1 .. MAX_INSNS
None == 0

VARIABLES
  building,   \* IrBuilder is at work, no optimisation has run
  created,    \* how many instructions there are
  placed,     \* those that are in a block
  kind,       \* how an instruction keeps its inputs
  inputs,     \* its inputs
  users,      \* Instruction::users_
  deps,       \* PhiInsn::dependencies_, {} where the map has no entry
  old, new, userIt,  \* ReplaceInputsForUsers: `this', its replacement and
                     \* the place the iterator has come to
  meant, given       \* history: the inputs and the dependencies that the
                     \* calls have asked for

graph == <<building, created, placed, kind>>
replacement == <<old, new, userIt>>
history == <<meant, given>>
defUseVars == <<graph, inputs, users, deps, replacement, history>>

Kinds == {"none", "default", "vector", "phi"}

Idle == old = None

DefUseInit ==
  /\ building = TRUE
  /\ created = 0 /\ placed = {}
  /\ kind = [i \in Insns |-> "none"]
  /\ inputs = [i \in Insns |-> <<>>] /\ users = [i \in Insns |-> <<>>]
  /\ deps = [i \in Insns |-> [v \in Insns |-> {}]]
  /\ old = None /\ new = None /\ userIt = 0
  /\ meant = inputs /\ given = [i \in Insns |-> {}]
-----------------------------------------------------------------------------
(* Constructors. *)

NewInsn == created + 1

(* A new instruction of kind k with inputs s and users us afterwards. *)
Construct(k, s, us) ==
  /\ NewInsn \in Insns
  /\ created' = NewInsn
  /\ kind' = [kind EXCEPT ![NewInsn] = k]
  /\ inputs' = [inputs EXCEPT ![NewInsn] = s]
  /\ meant' = [meant EXCEPT ![NewInsn] = s]
  /\ users' = us
  /\ UNCHANGED <<deps, given>>

(* Mutant: an arithmetic instruction is entered with its first input only. *)
FirstInputsUsers(i, s) == IF s = <<>> THEN users ELSE AddUser(users, s[1], i)

(* ArithmeticInsn, BranchInsn, RetInsn, NullCheckInsn, LoadArrayInsn: an   *)
(* instruction that takes the same input twice is its user once.           *)
DefaultInputsUsers(i, s) ==
  IF Len(s) = 2 /\ s[1] # s[2] THEN AddUser(AddUser(users, s[1], i), s[2], i)
  ELSE IF s # <<>> THEN AddUser(users, s[1], i)
  ELSE users

(* CallStaticInsn, StoreArrayInsn, BoundsCheckInsn: a user for each input. *)
VectorInputsUsers(i, s) == AddToUsers(users, s, i)

(* IrBuilder places what it creates. *)
Place ==
  /\ building /\ UNCHANGED building
  /\ placed' = placed \cup {NewInsn}
  /\ UNCHANGED replacement

InputLists(m, n) == UNION {[1 .. k -> placed] : k \in m .. n}

CreateDefault(s) ==
  /\ Idle
  /\ Construct("default", s, DefaultInputsUsers(NewInsn, s))
  /\ Place

CreateVector(s) ==
  /\ Idle
  /\ Construct("vector", s, VectorInputsUsers(NewInsn, s))
  /\ Place

CreatePhi ==
  /\ Idle
  /\ Cardinality({i \in placed : kind[i] = "phi"}) < MAX_PHIS
  /\ Construct("phi", <<>>, users)
  /\ Place

(* A value becomes an input of a phi with the first block it comes from,   *)
(* and every block gives the phi one value.                                *)
ResolveDependency(phi, value, bb) ==
  /\ Idle /\ building
  /\ phi \in placed /\ kind[phi] = "phi"
  /\ bb \notin {g[2] : g \in given[phi]}
  /\ \/ /\ deps[phi][value] = {}
        /\ inputs' = [inputs EXCEPT ![phi] = Append(@, value)]
        /\ meant' = [meant EXCEPT ![phi] = Append(@, value)]
        /\ users' = AddUser(users, value, phi)
     \/ /\ deps[phi][value] # {}
        /\ UNCHANGED <<inputs, meant, users>>
  /\ deps' = [deps EXCEPT ![phi][value] = @ \cup {bb}]
  /\ given' = [given EXCEPT ![phi] = @ \cup {<<value, bb>>}]
  /\ UNCHANGED <<graph, replacement>>

StartOptimizing ==
  /\ Idle /\ building
  /\ building' = FALSE
  /\ UNCHANGED <<created, placed, kind, inputs, users, deps, replacement, history>>

-----------------------------------------------------------------------------
(* ReplaceInputsForUsers, called by:                                       *)

Replace(i, n) == old' = i /\ new' = n /\ userIt' = 1

(* Peepholes::VisitAshr and VisitOr: an operation gives way to one of its  *)
(* inputs, the other being a constant or the same;                         *)
ReplaceByInput(i, n) ==
  /\ Idle /\ ~building
  /\ kind[i] = "default" /\ Len(inputs[i]) = 2 /\ n \in Uses(inputs[i])
  /\ Replace(i, n)
  /\ UNCHANGED <<graph, inputs, users, deps, history>>

(* NullCheckInsn keeps one default input, BoundsCheckInsn a vector. *)
IsCheck(i) ==
  \/ kind[i] = "default" /\ Len(inputs[i]) = 1
  \/ kind[i] = "vector"

(* CheckElimination: a check gives way to one of the same reference that   *)
(* was there before it, whatever the kind of either;                       *)
ReplaceByCheck(i, n) ==
  /\ Idle /\ ~building
  /\ n < i /\ IsCheck(n) /\ IsCheck(i)
  /\ Uses(inputs[n]) \cap Uses(inputs[i]) # {}
  /\ Replace(i, n)
  /\ UNCHANGED <<graph, inputs, users, deps, history>>

(* CreateNewInsnInsteadOfInsn: constant folding replaces an operation by a *)
(* new constant, and VisitMul by a new sum of its first input with itself. *)
ReplaceByNew(i) ==
  /\ Idle /\ ~building
  /\ kind[i] = "default" /\ Len(inputs[i]) = 2
  /\ \E s \in {<<>>, <<inputs[i][1], inputs[i][1]>>} :
       Construct("default", s, DefaultInputsUsers(NewInsn, s))
  /\ Replace(i, NewInsn)
  /\ UNCHANGED <<building, placed>>

(* Mutant: the second input is not tried when the first was replaced. *)
ReplaceFirst(s) ==
  IF s # <<>> /\ s[1] = old THEN [s EXCEPT ![1] = new] ELSE ReplaceAll(s, old, new)

(* ReplaceInputs and ReplaceVectorInputs. *)
ReplaceIn(s) == ReplaceAll(s, old, new)

(* Mutant: the blocks of a value that is not there yet are forgotten. *)
ForgetDependency(ds) ==
  [ds EXCEPT ![old] = {}, ![new] = IF @ = {} THEN {} ELSE @ \cup ds[old]]

(* ReplaceDependency: the blocks of the old value join those of the new    *)
(* one, or become them.  The order of the blocks of a value is left out.   *)
ReplaceDependency(ds) == [ds EXCEPT ![old] = {}, ![new] = @ \cup ds[old]]

CurrUser == users[old][userIt]

DependencyMissing == kind[CurrUser] = "phi" /\ deps[CurrUser][old] = {}

Replacing == old # None /\ userIt <= Len(users[old])

(* Mutant: the iterator moves on once more after the entry has gone. *)
ReplaceUserMovingOn ==
  /\ Replacing
  /\ old \in Uses(inputs[CurrUser]) /\ ~DependencyMissing
  /\ inputs' = [inputs EXCEPT ![CurrUser] = ReplaceIn(@)]
  /\ users' = AddUser(RemoveUser(users, old, CurrUser), new, CurrUser)
  /\ deps' = IF kind[CurrUser] = "phi"
             THEN [deps EXCEPT ![CurrUser] = ReplaceDependency(@)] ELSE deps
  /\ userIt' = userIt + 1
  /\ UNCHANGED <<graph, old, new, history>>

(* The user does use the instruction: it becomes a user of the new one.    *)
(* The iterator has moved on before its entry goes.  UNREACHABLE() where   *)
(* the dependency is missing: DependencyFound says that it never is.       *)
ReplaceUser ==
  /\ Replacing
  /\ old \in Uses(inputs[CurrUser]) /\ ~DependencyMissing
  /\ inputs' = [inputs EXCEPT ![CurrUser] = ReplaceIn(@)]
  /\ users' = AddUser(RemoveUser(users, old, CurrUser), new, CurrUser)
  /\ deps' = IF kind[CurrUser] = "phi"
             THEN [deps EXCEPT ![CurrUser] = ReplaceDependency(@)] ELSE deps
  /\ UNCHANGED <<graph, replacement, history>>

(* Another entry of the user had it replaced already. *)
SkipUser ==
  /\ Replacing
  /\ old \notin Uses(inputs[CurrUser])
  /\ userIt' = userIt + 1
  /\ UNCHANGED <<graph, inputs, users, deps, old, new, history>>

Substitute(v) == IF v = old THEN new ELSE v

(* The loop is over; the callers then put a new instruction in the block   *)
(* and Remove the old one.                                                 *)
ReplaceEnd ==
  /\ old # None /\ userIt > Len(users[old])
  /\ users' = RemoveUsers(users, inputs[old], old)
  /\ placed' = (placed \cup {new}) \ {old}
  /\ old' = None /\ new' = None /\ userIt' = 0
  /\ meant' = [i \in Insns |-> ReplaceAll(meant[i], old, new)]
  /\ given' = [i \in Insns |-> {<<Substitute(g[1]), g[2]>> : g \in given[i]}]
  /\ UNCHANGED <<building, created, kind, inputs, deps>>

DefUseNext ==
  \/ \E s \in InputLists(0, 2) : CreateDefault(s)
  \/ \E s \in InputLists(1, MAX_INPUTS) : CreateVector(s)
  \/ CreatePhi \/ StartOptimizing
  \/ \E phi, v \in placed, bb \in Blocks : ResolveDependency(phi, v, bb)
  \/ \E i, n \in placed : ReplaceByInput(i, n) \/ ReplaceByCheck(i, n)
  \/ \E i \in placed : ReplaceByNew(i)
  \/ ReplaceUser \/ SkipUser \/ ReplaceEnd

DefUseSpec == DefUseInit /\ [][DefUseNext]_defUseVars

-----------------------------------------------------------------------------
DefUseTypeOK ==
  /\ created \in 0 .. MAX_INSNS
  /\ placed \subseteq 1 .. created
  /\ kind \in [Insns -> Kinds]
  /\ inputs \in [Insns -> Seq(1 .. created)] /\ users \in [Insns -> Seq(1 .. created)]
  /\ deps \in [Insns -> [Insns -> SUBSET Blocks]]
  /\ old \in 0 .. created /\ new \in 0 .. created
  /\ IF old = None THEN userIt = 0 ELSE userIt \in 1 .. Len(users[old]) + 1

(* Taking an instruction out replaces it as an input everywhere: between   *)
(* two calls the inputs of every instruction, and the value each block     *)
(* gives a phi, are what all calls together have asked for.                *)
InputsAsMeant ==
  Idle =>
    \A i \in placed :
      /\ inputs[i] = meant[i]
      /\ kind[i] = "phi" =>
           {g \in Insns \X Blocks : g[2] \in deps[i][g[1]]} = given[i]

(* No instruction of a block uses one that has been taken out. *)
NoRemovedInput == Idle => \A i \in placed : Uses(inputs[i]) \subseteq placed

(* The users of an instruction in a block are exactly the instructions of  *)
(* blocks that have it as an input.                                        *)
UsersMatchInputs ==
  Idle => \A d \in placed : Uses(users[d]) = {i \in placed : d \in Uses(inputs[i])}

(* Every value a phi has as an input is a key of its dependencies, so that *)
(* UNREACHABLE() in ReplaceVectorInputs is never executed.                 *)
DependencyFound ==
  Replacing /\ old \in Uses(inputs[CurrUser]) => ~DependencyMissing
=============================================================================
