CONSTANTS
  Widths <- MCWidths
  Limits <- MCLimits
SPECIFICATION Spec
INVARIANTS
  ProductOfFactors
  GetFactorSound
PROPERTY
  Terminates
  
CHECK_DEADLOCK FALSE
