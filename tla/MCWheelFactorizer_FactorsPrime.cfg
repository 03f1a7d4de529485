CONSTANTS
  Widths <- MCWidths
  Limits <- MCLimits
SPECIFICATION Spec
INVARIANT FactorsPrime
CHECK_DEADLOCK FALSE
