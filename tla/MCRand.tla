------------------------------- MODULE MCRand -------------------------------
(***************************************************************************)
(* Small dtypes for Rand: ranges of a few max_eps steps around 0.          *)
(***************************************************************************)
EXTENDS Rand

\* An integer dtype, a float dtype exact at max_eps steps (as float32 is
\* near the bounds tests use) and bool.
MCInt == [kind |-> "int", min |-> -2, max |-> 2, q |-> 1]
MCFloat32 == [kind |-> "float", min |-> -2, max |-> 2, q |-> 1]
MCBool == [kind |-> "bool", min |-> 0, max |-> 1, q |-> 1]
MCDTypes == {MCInt, MCFloat32, MCBool}

\* float16 near high = 10: its spacing there (2^-7) is hundreds of times
\* max_eps (1e-5); scaled down, a quantum of 4 steps.
MCFloat16 == [kind |-> "float", min |-> -8, max |-> 8, q |-> 4]
MCFloat16s == {MCFloat16}

\* Bounds (the config file format has no negative numbers).
MCLows == {None, -2, 1}
MCFloat16Lows == {-8}
=============================================================================
