------------------------------- MODULE Users --------------------------------
(***************************************************************************)
(* The list of users that every instruction keeps (Instruction::users_),   *)
(* as a function from instructions to sequences, and how the inputs of an  *)
(* instruction enter it into these lists and take it out again.            *)
(***************************************************************************)
EXTENDS SequencesExt

Uses(s) == {s[k] : k \in 1 .. Len(s)}

AddUser(us, d, i) == [us EXCEPT ![d] = Append(@, i)]

(* RemoveUser: the first entry for a user goes. *)
RemoveUser(us, d, i) == [us EXCEPT ![d] = RemoveFirst(@, i)]

(* The users of a list, each once. *)
Distinct(s) ==
  FoldLeft(LAMBDA acc, i : IF i \in Uses(acc) THEN acc ELSE Append(acc, i), <<>>, s)

(* The users s of i become users of n instead, as ReplaceInputsForUsers    *)
(* makes them.                                                             *)
MoveUsers(us, s, i, n) ==
  FoldLeft(LAMBDA acc, j : AddUser(RemoveUser(acc, i, j), n, j), us, s)

(* An instruction i with the inputs s enters the users of each, ... *)
AddToUsers(us, s, i) == FoldLeft(LAMBDA acc, d : AddUser(acc, d, i), us, s)

(* Mutant: only the first input forgets the instruction. *)
RemoveFromFirstInput(us, s, i) ==
  IF s = <<>> THEN us ELSE RemoveUser(us, s[1], i)

(* ... and leaves them: RemoveUsers of DefaultInputs and VectorInputs. *)
RemoveUsers(us, s, i) == FoldLeft(LAMBDA acc, d : RemoveUser(acc, d, i), us, s)
=============================================================================
