CONSTANTS
  Widths <- MCWidths
  ConcatWidths <- MCConcatWidths
SPECIFICATION Spec
INVARIANTS
  ObliviousExact
  ConstExact
  UremConstCompletePos0
