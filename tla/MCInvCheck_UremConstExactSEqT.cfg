CONSTANTS
  Widths <- MCWidths
  ConcatWidths <- MCConcatWidths
SPECIFICATION Spec
INVARIANT UremConstExactSEqT
