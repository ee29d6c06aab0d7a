---------------------------- MODULE VectorTypes -----------------------------
(***************************************************************************)
(* The vector data type helpers of python/tvm/aipu/utils.py: vec_type,     *)
(* double_elem_width and half_elem_width.  A vector type is a record of    *)
(* its element width in bits and its lane count; the native vector is 256  *)
(* bits wide.  The state is the type a chain of widenings and narrowings   *)
(* (as lowering passes apply them to one value) has reached.               *)
(***************************************************************************)
EXTENDS Naturals

CONSTANTS
  ElemBits,     \* element widths a kernel may start from
  LaneCounts,   \* lane counts a kernel may start from
  MaxElemBits   \* bound: no widening past this element width

NativeBits == 256

ASSUME VectorAssumption ==
  /\ ElemBits \subseteq {8, 16, 32}
  /\ LaneCounts \subseteq 1..NativeBits
  /\ MaxElemBits \in Nat

VDType(b, l) == [bits |-> b, lanes |-> l]

\* vec_type (lines 197-200): the native vector of a scalar type.
VecType(b) == VDType(b, NativeBits \div b)

\* Mutant: the lanes are never halved (lines 306-307 left out).
DoubleElemWidthNoHalve(v, allow64) ==
  IF ~allow64 /\ v.bits = 32 THEN v ELSE VDType(v.bits * 2, v.lanes)

(* double_elem_width (lines 299-308): twice the element width; the lanes   *)
(* are kept unless the result would exceed 256 bits, then halved.  32-bit  *)
(* elements are left alone unless allow_64bit.                             *)
DoubleElemWidth(v, allow64) ==
  IF ~allow64 /\ v.bits = 32 THEN v
  ELSE LET nb == v.bits * 2
           nl == IF nb * v.lanes > NativeBits THEN v.lanes \div 2 ELSE v.lanes
       IN  VDType(nb, nl)

(* half_elem_width (lines 311-316): half the element width, twice the      *)
(* lanes if double_lanes; `assert vdtype.bits >= 8` guards it.             *)
\* Mutant: the assert weakened to bits > 0.
HalfElemWidthOkPositive(v) == v.bits >= 1
HalfElemWidthOk(v) == v.bits >= 8
HalfElemWidth(v, doubleLanes) ==
  VDType(v.bits \div 2, IF doubleLanes THEN v.lanes * 2 ELSE v.lanes)

\* The types a kernel starts from: every native vector, and the narrower
\* ones of the given lane counts that fit.
Inputs ==
  {VecType(b) : b \in ElemBits}
    \cup {t \in {VDType(b, l) : b \in ElemBits, l \in LaneCounts} :
             t.bits * t.lanes <= NativeBits}

VARIABLE v
vars == <<v>>

Init == v \in Inputs

\* A pass widens the value: double_elem_width(v, allow_64bit).
Widen ==
  /\ v.bits < MaxElemBits
  /\ \E allow64 \in BOOLEAN : v' = DoubleElemWidth(v, allow64)

\* A pass narrows the value: half_elem_width(v, double_lanes); the assert
\* fails (the pass raises) when the guard does not hold.
Narrow ==
  /\ HalfElemWidthOk(v)
  /\ \E dl \in BOOLEAN : v' = HalfElemWidth(v, dl)

Next == Widen \/ Narrow

Spec == Init /\ [][Next]_vars

-----------------------------------------------------------------------------
TypeOK == v \in [bits : Nat \ {0}, lanes : Nat \ {0}]

(* However a value is widened and narrowed, its type never exceeds the     *)
(* native 256 bits: double_elem_width halves the lanes exactly when the    *)
(* doubled type would not fit (lines 303-308).                             *)
FitsNative == v.bits * v.lanes <= NativeBits

(* Widening never drops an element: when the doubled type must be split,   *)
(* the two halves together still hold all lanes (the width split of the    *)
(* spec, section 4.4, takes ceil(total / native) pieces).                  *)
WidenKeepsAllLanes ==
  \A allow64 \in BOOLEAN :
    LET w == DoubleElemWidth(v, allow64)
    IN  w.bits > v.bits => 2 * w.lanes >= v.lanes

=============================================================================
