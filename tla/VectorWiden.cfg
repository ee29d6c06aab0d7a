\* The same chains, checking that widening keeps every lane.
CONSTANTS
  ElemBits = {8, 16, 32}
  LaneCounts <- MCLaneCounts
  MaxElemBits = 64
SPECIFICATION Spec
INVARIANT WidenKeepsAllLanes
