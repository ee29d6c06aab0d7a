\* One call with every combination of dtype, size, bounds and corners.
CONSTANTS
  DTypes <- MCDTypes
  Sizes = {1, 2, 4}
  Lows <- MCLows
  Highs = {None, 2}
  None = None
  EnvSeed = FALSE
  MaxCalls = 1
SPECIFICATION Spec
INVARIANT TypeOK InHalfOpenRange CornersIncluded
\* A test makes finitely many calls.
CHECK_DEADLOCK FALSE
