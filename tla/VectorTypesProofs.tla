------------------------- MODULE VectorTypesProofs --------------------------
(***************************************************************************)
(* Proofs about vec_type, double_elem_width and half_elem_width (module    *)
(* VectorTypes), for every set of starting types and every width bound.    *)
(***************************************************************************)
EXTENDS VectorTypes, TLAPS

\* The vector types the proofs talk about.
NatTypes == [bits : Nat, lanes : Nat]

-----------------------------------------------------------------------------
(* Arithmetic facts the steps rest on.                                     *)

\* Halving the lanes and doubling the width never grows the total width.
LEMMA DoubleHalvesFit ==
  ASSUME NEW b \in Nat, NEW l \in Nat
  PROVE  (2 * b) * (l \div 2) <= b * l
<1>1. 2 * (l \div 2) <= l
  OBVIOUS
<1>2. QED
  BY <1>1

\* Halving the width and doubling the lanes never grows the total width.
LEMMA HalfDoublesFit ==
  ASSUME NEW b \in Nat, NEW l \in Nat
  PROVE  (b \div 2) * (l * 2) <= b * l
<1>1. (b \div 2) * 2 <= b
  OBVIOUS
<1>2. QED
  BY <1>1

-----------------------------------------------------------------------------
(* FitsNative.                                                             *)

\* The starting types fit the native width.
LEMMA InputsFit == \A t \in Inputs : t \in NatTypes /\ t.bits * t.lanes <= NativeBits
<1>1. \A b \in ElemBits : VecType(b) \in NatTypes /\ VecType(b).bits * VecType(b).lanes <= NativeBits
  BY VectorAssumption DEF VecType, VDType, NativeBits, NatTypes
<1>2. \A b \in ElemBits, l \in LaneCounts : VDType(b, l) \in NatTypes
  BY VectorAssumption DEF VDType, NativeBits, NatTypes
<1>3. QED
  BY <1>1, <1>2 DEF Inputs

\* A widening keeps a type that fits within the native width.
LEMMA WidenFits ==
  ASSUME NEW t \in NatTypes, t.bits * t.lanes <= NativeBits, NEW a \in BOOLEAN
  PROVE  /\ DoubleElemWidth(t, a) \in NatTypes
         /\ DoubleElemWidth(t, a).bits * DoubleElemWidth(t, a).lanes <= NativeBits
<1> DEFINE nb == t.bits * 2
<1>0. t.bits \in Nat /\ t.lanes \in Nat
  BY DEF NatTypes
<1>1. CASE ~a /\ t.bits = 32
  BY <1>1 DEF DoubleElemWidth
<1>2. CASE ~(~a /\ t.bits = 32) /\ nb * t.lanes > NativeBits
  <2>1. DoubleElemWidth(t, a) = [bits |-> nb, lanes |-> t.lanes \div 2]
    BY <1>2 DEF DoubleElemWidth, VDType
  <2>2. nb * (t.lanes \div 2) <= t.bits * t.lanes
    BY DoubleHalvesFit DEF NatTypes
  <2>3. nb \in Nat /\ t.lanes \div 2 \in Nat
    BY DEF NatTypes
  <2>4. DoubleElemWidth(t, a) \in NatTypes
    BY <2>1, <2>3 DEF NatTypes
  <2>5. DoubleElemWidth(t, a).bits * DoubleElemWidth(t, a).lanes <= NativeBits
    <3>1. DoubleElemWidth(t, a).bits = nb /\ DoubleElemWidth(t, a).lanes = t.lanes \div 2
      BY <2>1
    <3>2. QED
      BY <1>0, <2>2, <3>1 DEF NativeBits
  <2>6. QED
    BY <2>4, <2>5
<1>3. CASE ~(~a /\ t.bits = 32) /\ ~(nb * t.lanes > NativeBits)
  <2>1. DoubleElemWidth(t, a) = [bits |-> nb, lanes |-> t.lanes]
    BY <1>3 DEF DoubleElemWidth, VDType
  <2>2. nb \in Nat /\ nb * t.lanes <= NativeBits
    BY <1>3 DEF NatTypes, NativeBits
  <2>3. DoubleElemWidth(t, a) \in NatTypes
    BY <2>1, <2>2 DEF NatTypes
  <2>4. QED
    BY <1>0, <2>1, <2>2, <2>3
<1>4. QED
  BY <1>1, <1>2, <1>3

\* A narrowing keeps a type that fits within the native width.
LEMMA NarrowFits ==
  ASSUME NEW t \in NatTypes, t.bits * t.lanes <= NativeBits, NEW dl \in BOOLEAN
  PROVE  /\ HalfElemWidth(t, dl) \in NatTypes
         /\ HalfElemWidth(t, dl).bits * HalfElemWidth(t, dl).lanes <= NativeBits
<1>0. t.bits \in Nat /\ t.lanes \in Nat
  BY DEF NatTypes
<1>1. (t.bits \div 2) * (t.lanes * 2) <= t.bits * t.lanes
  BY HalfDoublesFit DEF NatTypes
<1>2. (t.bits \div 2) * t.lanes <= t.bits * t.lanes
  BY DEF NatTypes
<1>3. CASE dl
  <2>1. HalfElemWidth(t, dl) = [bits |-> t.bits \div 2, lanes |-> t.lanes * 2]
    BY <1>3 DEF HalfElemWidth, VDType
  <2>2. HalfElemWidth(t, dl) \in NatTypes
    BY <2>1 DEF NatTypes
  <2>3. HalfElemWidth(t, dl).bits = t.bits \div 2 /\ HalfElemWidth(t, dl).lanes = t.lanes * 2
    BY <2>1
  <2>4. QED
    BY <1>0, <1>1, <2>2, <2>3 DEF NativeBits
<1>4. CASE ~dl
  <2>1. HalfElemWidth(t, dl) = [bits |-> t.bits \div 2, lanes |-> t.lanes]
    BY <1>4 DEF HalfElemWidth, VDType
  <2>2. HalfElemWidth(t, dl) \in NatTypes
    BY <2>1 DEF NatTypes
  <2>3. HalfElemWidth(t, dl).bits = t.bits \div 2 /\ HalfElemWidth(t, dl).lanes = t.lanes
    BY <2>1
  <2>4. QED
    BY <1>0, <1>2, <2>2, <2>3 DEF NativeBits
<1>5. QED
  BY <1>3, <1>4

\* The inductive form of FitsNative.
FitInv == v \in NatTypes /\ FitsNative

\* FitInv is inductive: every reachable type is a record of naturals that fits.
LEMMA FitInvariant == Spec => []FitInv
<1>1. Init => FitInv
  BY InputsFit DEF Init, FitInv, FitsNative
<1>2. FitInv /\ [Next]_vars => FitInv'
  <2> SUFFICES ASSUME FitInv, [Next]_vars PROVE FitInv'
    OBVIOUS
  <2>1. CASE Widen
    BY <2>1, WidenFits DEF Widen, FitInv, FitsNative
  <2>2. CASE Narrow
    BY <2>2, NarrowFits DEF Narrow, FitInv, FitsNative
  <2>3. CASE UNCHANGED vars
    BY <2>3 DEF vars, FitInv, FitsNative
  <2>4. QED
    BY <2>1, <2>2, <2>3 DEF Next
<1>3. QED
  BY <1>1, <1>2, PTL DEF Spec

(* However the lowering passes widen and narrow a value with               *)
(* double_elem_width and half_elem_width, its type never exceeds the       *)
(* 256-bit native vector: the lanes are halved exactly when the doubled    *)
(* type would not fit.                                                     *)
THEOREM FitsNativeCorrect == Spec => []FitsNative
<1>1. FitInv => FitsNative
  BY DEF FitInv
<1>2. QED
  BY <1>1, FitInvariant, PTL

-----------------------------------------------------------------------------
(* TypeOK.                                                                 *)

\* The types with at least one lane and a positive element width.
PosTypes == [bits : Nat \ {0}, lanes : Nat \ {0}]

\* The inductive form of TypeOK: a positive type that fits.
TypeInv == TypeOK /\ FitsNative

\* The starting types are positive.
LEMMA InputsPositive == \A t \in Inputs : t \in PosTypes
<1>1. \A b \in ElemBits : VecType(b) \in PosTypes
  BY VectorAssumption DEF VecType, VDType, NativeBits, PosTypes
<1>2. \A b \in ElemBits, l \in LaneCounts : VDType(b, l) \in PosTypes
  BY VectorAssumption DEF VDType, NativeBits, PosTypes
<1>3. QED
  BY <1>1, <1>2 DEF Inputs

\* Below 129-bit elements, a widening of a positive type keeps a lane: the
\* lanes are halved only when the doubled type exceeds 256 bits, which a
\* single lane of at most 256 bits never does.
LEMMA WidenPositive ==
  ASSUME NEW t \in PosTypes, t.bits * t.lanes <= NativeBits, t.bits <= 128,
         NEW a \in BOOLEAN
  PROVE  DoubleElemWidth(t, a) \in PosTypes
<1>0. t.bits \in Nat \ {0} /\ t.lanes \in Nat \ {0}
  BY DEF PosTypes
<1>1. CASE ~a /\ t.bits = 32
  BY <1>1 DEF DoubleElemWidth
<1>2. CASE ~(~a /\ t.bits = 32) /\ (t.bits * 2) * t.lanes > NativeBits
  <2>1. DoubleElemWidth(t, a) = [bits |-> t.bits * 2, lanes |-> t.lanes \div 2]
    BY <1>2 DEF DoubleElemWidth, VDType
  <2>2. t.lanes # 1
    BY <1>0, <1>2 DEF NativeBits
  <2>3. t.lanes \div 2 \in Nat \ {0} /\ t.bits * 2 \in Nat \ {0}
    BY <1>0, <2>2
  <2>4. QED
    BY <2>1, <2>3 DEF PosTypes
<1>3. CASE ~(~a /\ t.bits = 32) /\ ~((t.bits * 2) * t.lanes > NativeBits)
  <2>1. DoubleElemWidth(t, a) = [bits |-> t.bits * 2, lanes |-> t.lanes]
    BY <1>3 DEF DoubleElemWidth, VDType
  <2>2. QED
    BY <1>0, <2>1 DEF PosTypes
<1>4. QED
  BY <1>1, <1>2, <1>3

\* A narrowing that passes the assert keeps a positive type.
LEMMA NarrowPositive ==
  ASSUME NEW t \in PosTypes, HalfElemWidthOk(t), NEW dl \in BOOLEAN
  PROVE  HalfElemWidth(t, dl) \in PosTypes
<1>1. t.bits \div 2 \in Nat \ {0} /\ t.lanes * 2 \in Nat \ {0} /\ t.lanes \in Nat \ {0}
  BY DEF PosTypes, HalfElemWidthOk
<1>2. QED
  BY <1>1 DEF HalfElemWidth, VDType, PosTypes

(* For every bound on the element width up to 128 bits (the AIPU's widest  *)
(* element is 64 bits, with allow_64bit), every type a chain of            *)
(* double_elem_width and half_elem_width reaches has a positive width and  *)
(* at least one lane.  Past 128 bits it fails: double_elem_width(u256x1)   *)
(* gives a type of 0 lanes.                                                *)
THEOREM TypeCorrect ==
  ASSUME MaxElemBits <= 128
  PROVE  Spec => []TypeOK
<1>1. Init => TypeInv
  BY InputsPositive, InputsFit DEF Init, TypeInv, TypeOK, PosTypes, FitsNative
<1>2. TypeInv /\ [Next]_vars => TypeInv'
  <2> SUFFICES ASSUME TypeInv, [Next]_vars PROVE TypeInv'
    OBVIOUS
  <2>0. v \in PosTypes /\ v \in NatTypes
    BY DEF TypeInv, TypeOK, PosTypes, NatTypes
  <2>1. CASE Widen
    <3>1. v.bits <= 128
      BY <2>0, <2>1, VectorAssumption DEF Widen, PosTypes
    <3>2. PICK a \in BOOLEAN : v' = DoubleElemWidth(v, a)
      BY <2>1 DEF Widen
    <3>3. v' \in PosTypes
      BY <2>0, <3>1, <3>2, WidenPositive DEF TypeInv, FitsNative
    <3>4. FitsNative'
      BY <2>0, <3>2, WidenFits DEF TypeInv, FitsNative
    <3>5. QED
      BY <3>3, <3>4 DEF TypeInv, TypeOK, PosTypes
  <2>2. CASE Narrow
    <3>1. PICK dl \in BOOLEAN : v' = HalfElemWidth(v, dl)
      BY <2>2 DEF Narrow
    <3>2. v' \in PosTypes
      BY <2>0, <2>2, <3>1, NarrowPositive DEF Narrow
    <3>3. FitsNative'
      BY <2>0, <3>1, NarrowFits DEF TypeInv, FitsNative
    <3>4. QED
      BY <3>2, <3>3 DEF TypeInv, TypeOK, PosTypes
  <2>3. CASE UNCHANGED vars
    BY <2>3 DEF vars, TypeInv, TypeOK, FitsNative
  <2>4. QED
    BY <2>1, <2>2, <2>3 DEF Next
<1>3. QED
  BY <1>1, <1>2, PTL DEF Spec, TypeInv

=============================================================================
