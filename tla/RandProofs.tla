------------------------------ MODULE RandProofs -----------------------------
(***************************************************************************)
(* Proofs about rand (module Rand) for every set of dtypes, sizes and      *)
(* bounds that RandAssumption allows.                                      *)
(***************************************************************************)
EXTENDS Rand, TLAPS

-----------------------------------------------------------------------------
(* Lemmas about the operators of one call.                                 *)

\* A function from 1..n to the integers is a sequence of integers.
LEMMA FunIsSeq ==
  ASSUME NEW n \in Nat, NEW f \in [1..n -> Int]
  PROVE  f \in Seq(Int)
OBVIOUS

\* The argument records of rand are not empty.
LEMMA ArgsNonEmpty == Args # {}
<1>1. PICK d0 \in DTypes : TRUE
  BY RandAssumption
<1>2. PICK n0 \in Sizes : TRUE
  BY RandAssumption
<1>3. PICK l0 \in Lows : TRUE
  BY RandAssumption
<1>4. PICK h0 \in Highs : TRUE
  BY RandAssumption
<1>5. [d |-> d0, n |-> n0, low |-> l0, high |-> h0, corners |-> TRUE] \in Args
  BY <1>1, <1>2, <1>3, <1>4 DEF Args
<1>6. QED
  BY <1>5

\* Rounding an integer to a dtype gives an integer.
LEMMA CastInt ==
  ASSUME NEW d \in DTypes, NEW x \in Int
  PROVE  Cast(d, x) \in Int
<1>1. d.q \in Nat \ {0}
  BY RandAssumption
<1>2. QED
  BY <1>1 DEF Cast

\* The bounds drawn between are integers.
LEMMA BoundsInt ==
  ASSUME NEW a \in Args
  PROVE  MinV(a.d, a.low) \in Int /\ MaxV(a.d, a.high) \in Int
<1>1. a.d \in DTypes /\ a.low \in Lows /\ a.high \in Highs
  BY DEF Args
<1>2. a.d.min \in Int /\ a.d.max \in Int
  BY <1>1, RandAssumption
<1>3. a.low = None \/ a.low \in Int
  BY <1>1, RandAssumption
<1>4. a.high = None \/ a.high \in Int
  BY <1>1, RandAssumption
<1>5. QED
  BY <1>2, <1>3, <1>4 DEF MinV, MaxV

\* The corner values: two or three integers.
LEMMA CornersInt ==
  ASSUME NEW x \in Int, NEW y \in Int
  PROVE  /\ Corners(x, y) \in Seq(Int)
         /\ Len(Corners(x, y)) \in {2, 3}
<1>1. CASE x < 0 /\ 0 < y
  BY <1>1 DEF Corners
<1>2. CASE ~(x < 0 /\ 0 < y)
  BY <1>2 DEF Corners
<1>3. QED
  BY <1>1, <1>2

\* Every call returns a sequence of integers.
LEMMA OutInt ==
  ASSUME NEW a \in Args, Rand(a)
  PROVE  out' \in Seq(Int)
<1> DEFINE d == a.d
           n == a.n
           minv == MinV(d, a.low)
           maxv == MaxV(d, a.high)
           cs == Corners(minv, maxv)
<1>0. /\ d \in DTypes /\ n \in Nat \ {0}
      /\ minv \in Int /\ maxv \in Int
      /\ cs \in Seq(Int)
  BY BoundsInt, CornersInt, RandAssumption DEF Args
<1>1. CASE d.kind = "bool" /\ out' \in [1..n -> {0, 1}]
  <2>1. out' \in [1..n -> Int]
    BY <1>1
  <2>2. QED
    BY <1>0, <2>1, FunIsSeq
<1>2. CASE out' = [i \in 1..n |-> Cast(d, minv)]
  <2>1. Cast(d, minv) \in Int
    BY <1>0, CastInt
  <2>2. out' \in [1..n -> Int]
    BY <1>2, <2>1
  <2>3. QED
    BY <1>0, <2>2, FunIsSeq
<1>3. CASE out' = <<>>
  BY <1>3
<1>4. ASSUME NEW draw \in [1..n -> minv..(maxv - 1)]
      PROVE  LET base == [i \in 1..n |-> Cast(d, draw[i])]
             IN  /\ base \in Seq(Int)
                 /\ \A p \in Placements(Len(cs), n) :
                      [i \in 1..n |->
                         IF \E k \in 1..Len(cs) : p[k] = i
                         THEN Cast(d, cs[CHOOSE k \in 1..Len(cs) : p[k] = i])
                         ELSE base[i]] \in Seq(Int)
  <2>1. \A i \in 1..n : Cast(d, draw[i]) \in Int
    <3> TAKE i \in 1..n
    <3>1. draw[i] \in Int
      BY <1>0
    <3>2. QED
      BY <1>0, <3>1, CastInt
  <2>2. \A k \in 1..Len(cs) : Cast(d, cs[k]) \in Int
    <3> TAKE k \in 1..Len(cs)
    <3>1. cs[k] \in Int
      BY <1>0
    <3>2. QED
      BY <1>0, <3>1, CastInt
  <2>3. [i \in 1..n |-> Cast(d, draw[i])] \in Seq(Int)
    BY <1>0, <2>1, FunIsSeq
  <2>4. \A p \in Placements(Len(cs), n) :
          [i \in 1..n |->
             IF \E k \in 1..Len(cs) : p[k] = i
             THEN Cast(d, cs[CHOOSE k \in 1..Len(cs) : p[k] = i])
             ELSE Cast(d, draw[i])] \in Seq(Int)
    <3> TAKE p \in Placements(Len(cs), n)
    <3>1. \A i \in 1..n : (\E k \in 1..Len(cs) : p[k] = i) =>
             (CHOOSE k \in 1..Len(cs) : p[k] = i) \in 1..Len(cs)
      OBVIOUS
    <3>2. [i \in 1..n |->
             IF \E k \in 1..Len(cs) : p[k] = i
             THEN Cast(d, cs[CHOOSE k \in 1..Len(cs) : p[k] = i])
             ELSE Cast(d, draw[i])] \in [1..n -> Int]
      BY <2>1, <2>2, <3>1
    <3>3. QED
      BY <1>0, <3>2, FunIsSeq
  <2>5. QED
    BY <2>3, <2>4
<1>5. QED
  <2>1. \/ d.kind = "bool" /\ out' \in [1..n -> {0, 1}]
        \/ out' = [i \in 1..n |-> Cast(d, minv)]
        \/ out' = <<>>
        \/ \E draw \in [1..n -> minv..(maxv - 1)] :
             LET base == [i \in 1..n |-> Cast(d, draw[i])]
             IN  IF a.corners /\ n > Len(cs)
                 THEN \E p \in Placements(Len(cs), n) :
                        out' = [i \in 1..n |->
                                  IF \E k \in 1..Len(cs) : p[k] = i
                                  THEN Cast(d, cs[CHOOSE k \in 1..Len(cs) : p[k] = i])
                                  ELSE base[i]]
                 ELSE out' = base
    BY DEF Rand
  <2>2. ASSUME NEW draw \in [1..n -> minv..(maxv - 1)],
               LET base == [i \in 1..n |-> Cast(d, draw[i])]
               IN  IF a.corners /\ n > Len(cs)
                   THEN \E p \in Placements(Len(cs), n) :
                          out' = [i \in 1..n |->
                                    IF \E k \in 1..Len(cs) : p[k] = i
                                    THEN Cast(d, cs[CHOOSE k \in 1..Len(cs) : p[k] = i])
                                    ELSE base[i]]
                   ELSE out' = base
        PROVE  out' \in Seq(Int)
    <3> DEFINE base == [i \in 1..n |-> Cast(d, draw[i])]
    <3>1. CASE a.corners /\ n > Len(cs)
      <4>1. PICK p \in Placements(Len(cs), n) :
              out' = [i \in 1..n |->
                        IF \E k \in 1..Len(cs) : p[k] = i
                        THEN Cast(d, cs[CHOOSE k \in 1..Len(cs) : p[k] = i])
                        ELSE base[i]]
        BY <2>2, <3>1, Zenon
      <4>2. QED
        BY <4>1, <1>4
    <3>2. CASE ~(a.corners /\ n > Len(cs))
      <4>1. out' = [i \in 1..n |-> Cast(d, draw[i])]
        BY <2>2, <3>2
      <4>2. QED
        BY <4>1, <1>4
    <3>3. QED
      BY <3>1, <3>2
  <2>3. QED
    BY <2>1, <2>2, <1>1, <1>2, <1>3

-----------------------------------------------------------------------------
(* Type correctness.                                                       *)

\* The initial states are well typed.
LEMMA TypeInit == Init => TypeOK
<1> SUFFICES ASSUME Init PROVE TypeOK
  OBVIOUS
<1>1. args \in Args
  BY ArgsNonEmpty DEF Init
<1>2. out \in Seq(Int) /\ seed \in {"unset", "env", "random"}
  BY DEF Init, SeedSource
<1>3. raised \in BOOLEAN /\ calls \in 0..MaxCalls
  <2>1. MaxCalls \in Nat
    BY RandAssumption
  <2>2. raised = FALSE /\ calls = 0
    BY Zenon DEF Init
  <2>3. raised \in BOOLEAN
    BY <2>2, Zenon
  <2>4. calls \in 0..MaxCalls
    BY <2>1, <2>2, SMT
  <2>5. QED
    BY <2>3, <2>4, Zenon
<1>4. QED
  BY <1>1, <1>2, <1>3 DEF TypeOK

\* No call leaves the types.
LEMMA TypeStep == TypeOK /\ [Next]_vars => TypeOK'
<1> SUFFICES ASSUME TypeOK, [Next]_vars PROVE TypeOK'
  OBVIOUS
<1>1. ASSUME NEW a \in Args, Rand(a) PROVE TypeOK'
  <2>1. out' \in Seq(Int)
    BY <1>1, OutInt
  <2>2. seed' \in {"unset", "env", "random"}
    BY <1>1 DEF Rand, TypeOK, SeedSource
  <2>3. calls' \in 0..MaxCalls /\ args' \in Args /\ raised' \in BOOLEAN
    BY <1>1, RandAssumption DEF Rand, TypeOK
  <2>4. QED
    BY <2>1, <2>2, <2>3 DEF TypeOK
<1>2. CASE UNCHANGED vars
  BY <1>2 DEF vars, TypeOK
<1>3. QED
  BY <1>1, <1>2 DEF Next

(* Every state of a process calling rand is well typed: the seed, once     *)
(* set, comes from the environment or a random draw, and every call        *)
(* returns a sequence of integers (in max_eps steps).                      *)
THEOREM TypeCorrect == Spec => []TypeOK
BY TypeInit, TypeStep, PTL DEF Spec

-----------------------------------------------------------------------------
(* Corner values.                                                          *)

\* The corners of bounds minv <= maxv lie between them; when the bounds
\* meet, every corner is that one value.
LEMMA CornersRange ==
  ASSUME NEW x \in Int, NEW y \in Int, x <= y
  PROVE  /\ \A k \in 1..Len(Corners(x, y)) : Corners(x, y)[k] \in x..y
         /\ x = y => \A k \in 1..Len(Corners(x, y)) : Corners(x, y)[k] = x
<1>1. CASE x < 0 /\ 0 < y
  BY <1>1 DEF Corners
<1>2. CASE ~(x < 0 /\ 0 < y)
  BY <1>2 DEF Corners
<1>3. QED
  BY <1>1, <1>2

\* The arguments of one call, and what they give.
LEMMA CallFacts ==
  ASSUME NEW a \in Args
  PROVE  LET minv == MinV(a.d, a.low)
             maxv == MaxV(a.d, a.high)
         IN  /\ a.d \in DTypes /\ a.n \in Nat \ {0}
             /\ minv \in Int /\ maxv \in Int
             /\ Corners(minv, maxv) \in Seq(Int)
             /\ Len(Corners(minv, maxv)) \in {2, 3}
BY BoundsInt, CornersInt, RandAssumption DEF Args

\* After any call, CornersIncluded holds of that call.
LEMMA CornersStep ==
  ASSUME NEW a \in Args, Rand(a)
  PROVE  CornersIncluded'
<1> DEFINE d == a.d
           n == a.n
           minv == MinV(d, a.low)
           maxv == MaxV(d, a.high)
           cs == Corners(minv, maxv)
           Placed(p, base) ==
             [i \in 1..n |->
                IF \E k \in 1..Len(cs) : p[k] = i
                THEN Cast(d, cs[CHOOSE k \in 1..Len(cs) : p[k] = i])
                ELSE base[i]]
<1>0. /\ d \in DTypes /\ n \in Nat \ {0}
      /\ minv \in Int /\ maxv \in Int
      /\ cs \in Seq(Int) /\ Len(cs) \in {2, 3}
  BY CallFacts
<1> SUFFICES ASSUME d.kind # "bool", ~(minv > maxv), a.corners, n > Len(cs)
             PROVE  \A k \in 1..Len(cs) : \E i \in DOMAIN out' : out'[i] = Cast(d, cs[k])
  BY DEF Rand, CornersIncluded, Numeric, LastCorners
<1>1. CASE minv = maxv
  <2>1. out' = [i \in 1..n |-> Cast(d, minv)]
    BY <1>1 DEF Rand
  <2>2. \A k \in 1..Len(cs) : cs[k] = minv
    BY <1>0, <1>1, CornersRange
  <2>3. 1 \in DOMAIN out'
    BY <1>0, <2>1
  <2>4. QED
    BY <2>1, <2>2, <2>3
<1>2. CASE minv < maxv
  <2>1. \E draw \in [1..n -> minv..(maxv - 1)] :
          \E p \in Placements(Len(cs), n) :
            out' = Placed(p, [i \in 1..n |-> Cast(d, draw[i])])
    BY <1>2 DEF Rand
  <2>2. PICK draw \in [1..n -> minv..(maxv - 1)],
             p \in Placements(Len(cs), n) :
               out' = Placed(p, [i \in 1..n |-> Cast(d, draw[i])])
    BY <2>1
  <2> DEFINE o == Placed(p, [i \in 1..n |-> Cast(d, draw[i])])
  <2>3. ASSUME NEW k \in 1..Len(cs)
        PROVE  \E i \in DOMAIN out' : out'[i] = Cast(d, cs[k])
    <3>1. p[k] \in 1..n
      BY <1>0 DEF Placements
    <3>2. \A j \in 1..Len(cs) : p[j] = p[k] => j = k
      BY <1>0 DEF Placements
    <3>3. (CHOOSE j \in 1..Len(cs) : p[j] = p[k]) = k
      BY <3>2
    <3>4. p[k] \in DOMAIN o /\ o[p[k]] = Cast(d, cs[k])
      BY <3>1, <3>3
    <3>5. QED
      BY <2>2, <3>4
  <2>4. QED
    BY <2>3
<1>3. QED
  BY <1>0, <1>1, <1>2

\* Nothing else happens between calls.
LEMMA CornersInit == Init => CornersIncluded
BY DEF Init, CornersIncluded, Numeric

(* After every call of rand with enable_corner_values and more elements    *)
(* than corner values, each corner value (the minimum, the maximum, and 0  *)
(* when it lies strictly between) is in the array returned: the redraw     *)
(* loop of lines 289-291 gives every corner a position of its own, so no   *)
(* corner overwrites another.  For every dtype, shape and pair of bounds.  *)
THEOREM CornersIncludedCorrect == Spec => []CornersIncluded
<1>1. CornersIncluded /\ [Next]_vars => CornersIncluded'
  <2> SUFFICES ASSUME CornersIncluded, [Next]_vars PROVE CornersIncluded'
    OBVIOUS
  <2>1. CASE Next
    BY <2>1, CornersStep DEF Next
  <2>2. CASE UNCHANGED vars
    BY <2>2 DEF vars, CornersIncluded, Numeric, LastCorners
  <2>3. QED
    BY <2>1, <2>2
<1>2. QED
  BY <1>1, CornersInit, PTL DEF Spec

-----------------------------------------------------------------------------
(* The half-open range, for dtypes exact at max_eps steps.                 *)

\* A dtype of quantum 1 stores every integer (number of max_eps steps) as
\* it is.
LEMMA CastExact ==
  ASSUME NEW d \in DTypes, d.q = 1, NEW x \in Int
  PROVE  Cast(d, x) = x
BY DEF Cast

\* After any call with an exact dtype, every value returned lies between
\* the bounds drawn between, so InHalfOpenRange holds of that call.
LEMMA RangeStep ==
  ASSUME \A e \in DTypes : e.q = 1,
         NEW a \in Args, Rand(a)
  PROVE  InHalfOpenRange'
<1> DEFINE d == a.d
           n == a.n
           minv == MinV(d, a.low)
           maxv == MaxV(d, a.high)
           cs == Corners(minv, maxv)
           Placed(p, base) ==
             [i \in 1..n |->
                IF \E k \in 1..Len(cs) : p[k] = i
                THEN Cast(d, cs[CHOOSE k \in 1..Len(cs) : p[k] = i])
                ELSE base[i]]
<1>0. /\ d \in DTypes /\ n \in Nat \ {0}
      /\ minv \in Int /\ maxv \in Int
      /\ cs \in Seq(Int) /\ Len(cs) \in {2, 3}
  BY CallFacts
<1>1. d.q = 1
  BY <1>0
<1>2. SUFFICES ASSUME d.kind # "bool", ~(minv > maxv)
               PROVE  \A i \in DOMAIN out' : out'[i] \in minv..maxv
  <2>1. minv = MinV(args'.d, args'.low)
    BY DEF Rand
  <2>2. a.high = None => maxv = d.max
    BY DEF MaxV
  <2>3. a.high # None => a.high \in Int /\ maxv = a.high - 1
    BY RandAssumption DEF MaxV, Args
  <2>4. Numeric' => d.kind # "bool" /\ ~(minv > maxv)
    BY DEF Rand, Numeric
  <2>5. args' = a
    BY DEF Rand
  <2>6. QED
    BY <1>0, <2>1, <2>2, <2>3, <2>4, <2>5 DEF InHalfOpenRange
<1>3. CASE minv = maxv
  <2>1. out' = [i \in 1..n |-> Cast(d, minv)]
    BY <1>2, <1>3 DEF Rand
  <2>2. Cast(d, minv) = minv
    BY <1>0, <1>1, CastExact
  <2>3. QED
    BY <1>0, <1>3, <2>1, <2>2
<1>4. CASE minv < maxv
  <2>1. \E draw \in [1..n -> minv..(maxv - 1)] :
          \/ \E p \in Placements(Len(cs), n) :
               out' = Placed(p, [i \in 1..n |-> Cast(d, draw[i])])
          \/ out' = [i \in 1..n |-> Cast(d, draw[i])]
    BY <1>2, <1>4 DEF Rand
  <2>2. PICK draw \in [1..n -> minv..(maxv - 1)] :
          \/ \E p \in Placements(Len(cs), n) :
               out' = Placed(p, [i \in 1..n |-> Cast(d, draw[i])])
          \/ out' = [i \in 1..n |-> Cast(d, draw[i])]
    BY <2>1
  <2> DEFINE base == [i \in 1..n |-> Cast(d, draw[i])]
  <2>3. \A i \in 1..n : base[i] \in minv..maxv
    <3> TAKE i \in 1..n
    <3>1. draw[i] \in minv..(maxv - 1)
      BY <1>0
    <3>2. Cast(d, draw[i]) = draw[i]
      BY <1>0, <1>1, <3>1, CastExact
    <3>3. QED
      BY <1>0, <3>1, <3>2
  <2>4. \A k \in 1..Len(cs) : Cast(d, cs[k]) \in minv..maxv
    <3> TAKE k \in 1..Len(cs)
    <3>1. cs[k] \in minv..maxv
      BY <1>0, <1>4, CornersRange
    <3>2. Cast(d, cs[k]) = cs[k]
      BY <1>0, <1>1, <3>1, CastExact
    <3>3. QED
      BY <3>1, <3>2
  <2>5. ASSUME NEW p \in Placements(Len(cs), n)
        PROVE  \A i \in DOMAIN Placed(p, base) : Placed(p, base)[i] \in minv..maxv
    <3> TAKE i \in DOMAIN Placed(p, base)
    <3>1. CASE \E k \in 1..Len(cs) : p[k] = i
      <4>1. (CHOOSE k \in 1..Len(cs) : p[k] = i) \in 1..Len(cs)
        BY <3>1
      <4>2. QED
        BY <3>1, <4>1, <2>4
    <3>2. CASE ~\E k \in 1..Len(cs) : p[k] = i
      BY <3>2, <2>3
    <3>3. QED
      BY <3>1, <3>2
  <2>6. QED
    BY <2>2, <2>3, <2>5
<1>5. QED
  BY <1>0, <1>2, <1>3, <1>4

(* With dtypes exact at max_eps steps (every integer dtype, and float32    *)
(* near the bounds the tests use), every array rand returns lies in        *)
(* [low, high) -- high excluded as the docstring says, the bounds of the   *)
(* dtype standing in for a bound that is None -- corner values included.   *)
(* The hypothesis is needed: run rand_float16_high shows float16 rounding  *)
(* a draw up to high itself.                                               *)
THEOREM InHalfOpenRangeCorrect ==
  ASSUME \A d \in DTypes : d.q = 1
  PROVE  Spec => []InHalfOpenRange
<1>1. Init => InHalfOpenRange
  BY DEF Init, InHalfOpenRange, Numeric
<1>2. InHalfOpenRange /\ [Next]_vars => InHalfOpenRange'
  <2> SUFFICES ASSUME InHalfOpenRange, [Next]_vars PROVE InHalfOpenRange'
    OBVIOUS
  <2>1. CASE Next
    BY <2>1, RangeStep DEF Next
  <2>2. CASE UNCHANGED vars
    BY <2>2 DEF vars, InHalfOpenRange, Numeric
  <2>3. QED
    BY <2>1, <2>2
<1>3. QED
  BY <1>1, <1>2, PTL DEF Spec

=============================================================================
