--------------------------- MODULE ConstantFolding ---------------------------
(***************************************************************************)
(* Constants (ConstantInsn in ir/instructions.h) and how operations on two *)
(* of them are folded (optimizations/constant_folding.cpp), beside what    *)
(* the operations compute.                                                 *)
(*                                                                         *)
(* An integer is its bit pattern, a number below 2^WIDTH.  A float is the  *)
(* number it stands for; the models use small integral ones, which floats  *)
(* hold exactly and whose bits end in zeros.                               *)
(***************************************************************************)
EXTENDS Integers

CONSTANTS WIDTH,        \* bound: the bits of a 64-bit integer
          HALF_WIDTH    \* bound: the bits of a 32-bit integer

ASSUME WidthAssumption ==
  /\ {WIDTH, HALF_WIDTH} \subseteq Nat
  /\ 0 < HALF_WIDTH /\ HALF_WIDTH < WIDTH

NarrowTypes == {"I32", "U32"}
FloatTypes  == {"F32", "F64"}
IntTypes    == NarrowTypes \cup {"I64", "U64"}
DataTypes   == IntTypes \cup FloatTypes

Bits(t) == IF t \in NarrowTypes THEN HALF_WIDTH ELSE WIDTH

(* A cast to an integer of w bits, and the signed reading of one. *)
Pattern(v, w) == v % 2^w
Signed(v, w) == IF v < 2^(w - 1) THEN v ELSE v - 2^w

(* Mutant: the vacant bits of a shift are not copies of the sign. *)
ShiftRightLogical(v, distance) == (v % 2^WIDTH) \div 2^distance

(* The arithmetic shift of a signed integer. *)
ShiftRight(v, distance) == v \div 2^distance

Patterns == 0 .. 2^WIDTH - 1
BitsSet(v) == {k \in 0 .. WIDTH - 1 : (v \div 2^k) % 2 = 1}

BitOr(a, b) == CHOOSE v \in Patterns : BitsSet(v) = BitsSet(a) \cup BitsSet(b)
-----------------------------------------------------------------------------
(* What an instruction computes from operands of its own type.  A shift by *)
(* the width or more has no meaning in C++, and nothing is claimed of it.  *)
InType(v, t) == IF t \in FloatTypes THEN v ELSE Pattern(v, Bits(t))

Computes(op, t, a, b) ==
  InType(CASE op = "mul"  -> a * b
           [] op = "add"  -> a + b
           [] op = "or"   -> BitOr(a, b)
           [] op = "ashr" -> Signed(a, Bits(t)) \div 2^b, t)
-----------------------------------------------------------------------------
(* ConstantInsn keeps its value in 64 bits (value_) and whether that was   *)
(* signed, unsigned or floating (type_).                                   *)
Constant(v, type) ==
  [value |-> IF type \in FloatTypes THEN v ELSE Pattern(v, WIDTH), type |-> type]

GetAsI64(c) == Signed(c.value, WIDTH)

(* IsEqualTo tries the value as an integer and as either kind of float. *)
IsEqualTo(c, n) == IF c.type \in FloatTypes THEN c.value = n ELSE GetAsI64(c) = n

(* Each fold gives the new constant and its result type. *)
Folded(c, t) == [constant |-> c, resultType |-> t]

(* GetAsF32 and GetAsF64 take the 64 bits for a float whatever they are:   *)
(* those of a small integer, or of a float of the other kind, are a number *)
(* next to zero, which is taken for zero here.                             *)
GetAsFloat(t, c) == IF c.type = t THEN c.value ELSE 0

(* ConstantFoldingMul makes an unsigned product signed. *)
FoldMul(t, c0, c1) ==
  IF t \in FloatTypes
    THEN Folded(Constant(GetAsFloat(t, c0) * GetAsFloat(t, c1), t), t)
    ELSE Folded(Constant(c0.value * c1.value, "I64"), "I64")

(* UNREACHABLE() for any other type. *)
FoldMulTypes == FloatTypes \cup {"I64", "U64"}

(* ConstantFoldingAshr: 32-bit integers are cut out, and their result is   *)
(* extended with its sign, whether they are signed or not.  A shift by the *)
(* width or more is undefined: anything may come of it.                    *)
FoldAshr(t, c0, c1) ==
  LET narrow   == t \in NarrowTypes
      value    == IF narrow THEN Signed(Pattern(c0.value, HALF_WIDTH), HALF_WIDTH)
                  ELSE GetAsI64(c0)
      distance == IF narrow THEN Pattern(c1.value, HALF_WIDTH) ELSE c1.value
      outcomes == IF distance < Bits(t) THEN {ShiftRight(value, distance)} ELSE Patterns
  IN  {Folded(Constant(v, "I64"), t) : v \in outcomes}

(* ConstantFoldingOr computes in unsigned 64-bit integers. *)
FoldOr(t, c0, c1) == Folded(Constant(BitOr(c0.value, c1.value), "U64"), t)

(* What a fold may give. *)
FoldInsn(op, t, c0, c1) ==
  CASE op = "mul"  -> {FoldMul(t, c0, c1)}
    [] op = "ashr" -> FoldAshr(t, c0, c1)
    [] op = "or"   -> {FoldOr(t, c0, c1)}
=============================================================================
