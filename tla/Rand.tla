-------------------------------- MODULE Rand --------------------------------
(***************************************************************************)
(* rand (python/tvm/aipu/utils.py, lines 214-296): random test data of a   *)
(* shape and dtype in [low, high), with the corner values (the minimum,    *)
(* the maximum and 0 when it lies between) forced into random, distinct    *)
(* positions.  The NumPy seed is a module global set on the first call.    *)
(*                                                                         *)
(* Numbers are counted in steps of max_eps (1 for integers, 1e-5 for       *)
(* floats).  A dtype is a record: its kind, its range [min, max] and its   *)
(* quantum q near the values drawn: storing a number in an array of that   *)
(* dtype rounds it to the nearest multiple of q (q = 1 for integers and,   *)
(* at 1e-5 steps, for float32; float16 is much coarser).  The shape is its *)
(* element count; a shape of 1 returns a scalar.                           *)
(***************************************************************************)
EXTENDS Integers, Sequences, FiniteSets

CONSTANTS
  DTypes,       \* the dtypes rand is called with
  Sizes,        \* element counts of the shapes
  Lows, Highs,  \* values of low / high, None included
  None,
  EnvSeed,      \* AIPU_TVM_RANDOM_SEED is set
  MaxCalls      \* bound on the calls made

ASSUME RandAssumption ==
  /\ \A d \in DTypes : d.kind \in {"int", "float", "bool"} /\ d.q \in Nat \ {0}
  /\ \A d \in DTypes : d.min \in Int /\ d.max \in Int
  /\ \A x \in Lows \cup Highs : x = None \/ x \in Int
  /\ DTypes # {} /\ Lows # {} /\ Highs # {} /\ Sizes # {}
  /\ Sizes \subseteq Nat \ {0}
  /\ EnvSeed \in BOOLEAN
  /\ MaxCalls \in Nat

\* Rounding to the dtype (astype, or assignment into the array): the
\* nearest multiple of q, halves rounded up.
Cast(d, x) == ((2 * x + d.q) \div (2 * d.q)) * d.q

\* Lines 277-278: the bounds actually drawn between.
MinV(d, low) == IF low = None THEN d.min ELSE low
\* Mutant: max_eps not subtracted from high.
MaxVNoEps(d, high) == IF high = None THEN d.max ELSE high
MaxV(d, high) == IF high = None THEN d.max ELSE high - 1

\* Line 285: the corner values, in the order they are placed.
Corners(minv, maxv) ==
  IF minv < 0 /\ 0 < maxv THEN <<minv, 0, maxv>> ELSE <<minv, maxv>>

\* Lines 286-294: the corners go to distinct random indices: the index of
\* the k-th corner is drawn again while it is among the earlier ones.  An
\* injection of the corner numbers into the positions is one such outcome.
\* Mutant: the redraw loop of lines 290-291 left out.
PlacementsAny(k, n) == [1..k -> 1..n]
Placements(k, n) == {p \in [1..k -> 1..n] : \A i, j \in 1..k : i # j => p[i] # p[j]}

VARIABLES
  seed,     \* _RANDOM_SEED: "unset", or where it came from
  args,     \* the arguments of the last call
  out,      \* what the last call returned, as a sequence
  raised,   \* whether the last call raised AssertionError
  calls     \* number of calls made

vars == <<seed, args, out, raised, calls>>

Args == [d : DTypes, n : Sizes, low : Lows, high : Highs, corners : BOOLEAN]

\* Mutant: `or np.random.randint(0, 2**31)` left out of line 258.
SeedSourceNoFallback == IF EnvSeed THEN "env" ELSE None
\* Where the seed comes from on the first call of the process (line 258).
SeedSource == IF EnvSeed THEN "env" ELSE "random"

\* The seed may already be set by an earlier call of the same process.
Init ==
  /\ seed \in {"unset", SeedSource}
  /\ args = CHOOSE a \in Args : TRUE
  /\ out = <<>>
  /\ raised = FALSE
  /\ calls = 0

(* One call of rand, the whole function.  Lines 256-260 seed NumPy once,   *)
(* from the environment or at random.  Lines 263-265 draw booleans.  Lines *)
(* 267-283: the bounds, a constant array when they meet, the assert, then  *)
(* uniform / randint draws in [minv, maxv) cast to the dtype.  Lines       *)
(* 285-294 overwrite distinct positions with the (cast) corner values.     *)
Rand(a) ==
  LET d == a.d
      n == a.n
      minv == MinV(d, a.low)
      maxv == MaxV(d, a.high)
      cs == Corners(minv, maxv)
  IN
  /\ calls < MaxCalls
  /\ calls' = calls + 1
  /\ args' = a
  /\ seed' = IF seed = "unset" THEN SeedSource ELSE seed
  /\ raised' = (d.kind # "bool" /\ minv > maxv)
  /\ \/ /\ d.kind = "bool"
        /\ out' \in [1..n -> {0, 1}]
     \/ /\ d.kind # "bool"
        /\ minv = maxv
        /\ out' = [i \in 1..n |-> Cast(d, minv)]
     \/ /\ d.kind # "bool"
        /\ minv > maxv
        /\ out' = <<>>
     \/ /\ d.kind # "bool"
        /\ minv < maxv
        /\ \E draw \in [1..n -> minv..(maxv - 1)] :
             LET base == [i \in 1..n |-> Cast(d, draw[i])]
             IN  IF a.corners /\ n > Len(cs)
                 THEN \E p \in Placements(Len(cs), n) :
                        out' = [i \in 1..n |->
                                  IF \E k \in 1..Len(cs) : p[k] = i
                                  THEN Cast(d, cs[CHOOSE k \in 1..Len(cs) : p[k] = i])
                                  ELSE base[i]]
                 ELSE out' = base

Next == \E a \in Args : Rand(a)

Spec == Init /\ [][Next]_vars

-----------------------------------------------------------------------------
TypeOK ==
  /\ seed \in {"unset", "env", "random"}
  /\ args \in Args
  /\ out \in Seq(Int)
  /\ raised \in BOOLEAN
  /\ calls \in 0..MaxCalls

\* The last call returned an array (not an exception) of a numeric dtype.
Numeric == ~raised /\ args.d.kind # "bool" /\ calls > 0

\* The corners of the last call.
LastCorners == Corners(MinV(args.d, args.low), MaxV(args.d, args.high))

(* The docstring: values lie in [low, high) -- low included, high          *)
(* excluded -- and within the dtype when a bound is None.                  *)
InHalfOpenRange ==
  Numeric =>
    \A i \in DOMAIN out :
      /\ out[i] >= MinV(args.d, args.low)
      /\ IF args.high = None THEN out[i] <= args.d.max ELSE out[i] < args.high

(* With enable_corner_values and more elements than corner values, every   *)
(* corner value is in the output: the redraw loop of lines 289-291 never   *)
(* lets a later corner overwrite an earlier one.                           *)
CornersIncluded ==
  Numeric /\ args.corners /\ args.n > Len(LastCorners) =>
    \A k \in 1..Len(LastCorners) :
      \E i \in DOMAIN out : out[i] = Cast(args.d, LastCorners[k])

=============================================================================
