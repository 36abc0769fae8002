---- MODULE MCPeepholes ----
(* Programs of a phi, two constants and up to three operations of at most  *)
(* two kinds.                                                              *)
EXTENDS Peepholes

SignedConst(v) == Constant(v, "I64")
UnsignedConst(v) == Constant(v, "U64")

Start(t, ops, c, d) == [type |-> t, operations |-> ops, pool |-> <<c, d>>]

Mc_Starts ==
  {Start("I32", {"mul"}, SignedConst(1), SignedConst(2)),
   Start("I32", {"ashr", "or"}, SignedConst(-2), SignedConst(1)),
   Start("I64", {"mul", "ashr"}, SignedConst(-3), SignedConst(1)),
   Start("I64", {"ashr", "or"}, SignedConst(0), SignedConst(1)),
   Start("U64", {"mul", "or"}, UnsignedConst(1), UnsignedConst(2)),
   Start("U64", {"ashr", "or"}, UnsignedConst(1), UnsignedConst(2)),
   Start("F64", {"mul"}, Constant(1, "F64"), Constant(2, "F64")),
   Start("F64", {"mul"}, SignedConst(2), SignedConst(1)),
   Start("F32", {"mul"}, Constant(3, "F32"), UnsignedConst(1))}
Mc_ShiftStarts == {Start("I64", {"ashr"}, SignedConst(1), SignedConst(2))}
Mc_Environments == {13, 6}
====
