CONSTANTS
  Widths <- MCWidths
SPECIFICATION Spec
INVARIANT ExhaustiveAll
