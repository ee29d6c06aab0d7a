\* rand(4, "float16", low=-8, high=8), scaled to max_eps steps.
CONSTANTS
  DTypes <- MCFloat16s
  Sizes = {4}
  Lows <- MCFloat16Lows
  Highs = {8}
  None = None
  EnvSeed = TRUE
  MaxCalls = 1
SPECIFICATION Spec
INVARIANT InHalfOpenRange
CHECK_DEADLOCK FALSE
