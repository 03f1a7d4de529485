CONSTANTS
  s1 = s1
  s2 = s2
  Slots <- MCSlots
  Widths <- MCWidths
  Uint64s <- MCUint64s
SYMMETRY MCSymmetry
SPECIFICATION Spec
INVARIANTS
  RoundTrip
  FixedBitsAgree
  AllValid
PROPERTY
  Refinement
