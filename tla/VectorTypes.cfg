\* Chains of widenings and narrowings from 8-, 16- and 32-bit vectors.
CONSTANTS
  ElemBits = {8, 16, 32}
  LaneCounts <- MCLaneCounts
  MaxElemBits = 64
SPECIFICATION Spec
INVARIANT TypeOK FitsNative
