CONSTANTS
  Widths <- MCWidths
SPECIFICATION Spec
INVARIANTS
  TypeOK
  InitAssertions
  YieldsInRange
  Exhaustive
  RandomDefined
PROPERTY
  Ascending
  Refinement
  DrainEnds
